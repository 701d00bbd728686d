--------------------------- MODULE ConsentOutcome ---------------------------
(***************************************************************************)
(* What an exchange under a user's consent promises to the user, to the    *)
(* applications and to whoever reads the records of the two connectors,    *)
(* without handlers, messages, keys or failures.  ConsentExchange          *)
(* implements it.                                                          *)
(*                                                                         *)
(* Several exchanges may be triggered by one consent, which holds the      *)
(* token of one of them at a time and can be revoked for ever.  Data goes  *)
(* to an application only under a token that was validated while the       *)
(* consent held it and was granted, only where the policies permit, and    *)
(* only while both records are undecided.  An outcome shows first in the   *)
(* record of the connector that is told of it, where only a failure can    *)
(* replace it, and then in the other: two decided records are equal and    *)
(* stay as they are.                                                       *)
(***************************************************************************)

CONSTANTS
    Exchanges,    \* the exchanges that one consent triggers
    NoExchange    \* no one's token

VARIABLES
    permitted,    \* do the policies permit the exchange?
    known,        \* does the connector know how to call the application?
    granted,      \* is the consent granted?
    holder,       \* the exchange whose token the consent holds
    validated,    \* the exchanges whose token was validated
    record,       \* record[k][x]: the status of the record of x at connector k
    got,          \* the exchanges whose data the application has
    replied       \* the exchanges whose answer the provider's API has

vars == <<permitted, known, granted, holder, validated, record, got, replied>>

terms == <<permitted, known>>
consent == <<granted, holder, validated>>
data == <<got, replied>>

Connectors == {"consumer", "provider"}
Other(k) == IF k = "consumer" THEN "provider" ELSE "consumer"
Failures == {"CONSENT_EXPORT_ERROR", "CONSENT_IMPORT_ERROR"}
Outcomes == Failures \cup {"PEP_ERROR", "IMPORT_SUCCESS"}

Undecided(x) == \A k \in Connectors : record[k][x] = "PENDING"

Init ==
    /\ permitted \in BOOLEAN /\ known \in BOOLEAN
    /\ granted = TRUE /\ holder = NoExchange /\ validated = {}
    /\ record = [k \in Connectors |-> [x \in Exchanges |-> "absent"]]
    /\ got = {} /\ replied = {}

\* The provider opens its record first.
Open(x, k) ==
    /\ record[k][x] = "absent"
    /\ k = "consumer" => record["provider"][x] = "PENDING"
    /\ record' = [record EXCEPT ![k][x] = "PENDING"]
    /\ UNCHANGED <<terms, consent, data>>

\* The consent gets the token of x, and loses the one it held.
Attach(x) ==
    /\ Undecided(x)
    /\ holder' = x
    /\ UNCHANGED <<terms, granted, validated, record, data>>

Revoke ==
    /\ granted' = FALSE
    /\ UNCHANGED <<terms, holder, validated, record, data>>

Validate(x) ==
    /\ Undecided(x) /\ granted /\ holder = x
    /\ validated' = validated \cup {x}
    /\ UNCHANGED <<terms, granted, holder, record, data>>

\* The application of the consumer gets the data ...
Deliver(x) ==
    /\ Undecided(x) /\ x \in validated /\ permitted
    /\ got' = got \cup {x}
    /\ UNCHANGED <<terms, consent, record, replied>>

\* ... and its answer goes to the API of the provider.
Reply(x) ==
    /\ Undecided(x) /\ x \in got
    /\ replied' = replied \cup {x}
    /\ UNCHANGED <<terms, consent, record, got>>

\* Connector k is told an outcome that the other one does not show yet.
Announce(x, k, outcome) ==
    /\ record[Other(k)][x] = "PENDING"
    /\ record[k][x] \in Outcomes => outcome \in Failures
    /\ record[k][x] # "absent"
    /\ outcome = "PEP_ERROR" => ~permitted
    /\ outcome = "IMPORT_SUCCESS" => x \in validated /\ permitted /\ (known => x \in got)
    /\ record' = [record EXCEPT ![k][x] = outcome]
    /\ UNCHANGED <<terms, consent, data>>

\* The connector that told the other one records the same.
Settle(x, k) ==
    /\ record[k][x] = "PENDING" /\ record[Other(k)][x] \in Outcomes
    /\ record' = [record EXCEPT ![k][x] = record[Other(k)][x]]
    /\ UNCHANGED <<terms, consent, data>>

Next ==
    \/ Revoke
    \/ \E x \in Exchanges :
          \/ Attach(x) \/ Validate(x) \/ Deliver(x) \/ Reply(x)
          \/ \E k \in Connectors :
                Open(x, k) \/ Settle(x, k) \/ \E outcome \in Outcomes : Announce(x, k, outcome)

Spec == Init /\ [][Next]_vars
=============================================================================
