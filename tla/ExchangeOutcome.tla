-------------------------- MODULE ExchangeOutcome --------------------------
(***************************************************************************)
(* What the two connectors of a data exchange promise to whoever reads     *)
(* their records and to whoever triggered the exchange, without handlers,  *)
(* messages or failures.  DataExchange implements it.                      *)
(*                                                                         *)
(* A record is opened before it is decided and never goes back.  The       *)
(* provider permits an exchange at most once, and not after it refused.    *)
(* Only a permitted exchange has an outcome of an import, only one that is *)
(* not permitted has a refusal, and a connector records an outcome of its  *)
(* own only after the other connector's record has left PENDING.           *)
(*                                                                         *)
(* One promise has a hole: the import error of a permitted exchange may be *)
(* filed under another exchange, at any moment, over any outcome; there it *)
(* reaches the consumer first, and the provider's record after that.       *)
(***************************************************************************)

CONSTANTS
    Exchanges   \* the exchanges

VARIABLES
    record,     \* record[x][s]: the status of the record of x at side s
    permitted,  \* permitted[x]: the provider's PEP has permitted x
    answer      \* answer[x]: what the trigger of x was answered

vars == <<record, permitted, answer>>

Sides == {"consumer", "provider"}
ImportOutcomes == {"IMPORT_SUCCESS", "CONSUMER_IMPORT_ERROR", "CONSENT_IMPORT_ERROR"}
Outcomes == ImportOutcomes \cup {"PROVIDER_EXPORT_ERROR", "PEP_ERROR"}
Answers == {"success", "failure"}

Decided(x, s) == record[x][s] \in Outcomes

\* The outcomes that only the handlers at side s decide.
OwnOutcomes(s) == IF s = "consumer" THEN ImportOutcomes ELSE {"PEP_ERROR"}

Init ==
    /\ record = [x \in Exchanges |-> [s \in Sides |-> "absent"]]
    /\ permitted = [x \in Exchanges |-> FALSE]
    /\ answer = [x \in Exchanges |-> "none"]

\* A connector creates its record of the exchange.
Open(x, s) ==
    /\ record[x][s] = "absent"
    /\ record' = [record EXCEPT ![x][s] = "PENDING"]
    /\ UNCHANGED <<permitted, answer>>

\* The policies of the provider permit the exchange.
Permit(x) ==
    /\ ~permitted[x]
    /\ \A s \in Sides : record[x][s] \notin {"IMPORT_SUCCESS", "PEP_ERROR"}
    /\ permitted' = [permitted EXCEPT ![x] = TRUE]
    /\ UNCHANGED <<record, answer>>

\* An outcome is written into the record at side s.
Decide(x, s, outcome) ==
    /\ record[x][s] # "absent"
    /\ outcome \in ImportOutcomes => permitted[x]
    /\ outcome = "PEP_ERROR" => ~permitted[x]
    /\ outcome \in OwnOutcomes(s) => \E t \in Sides \ {s} : Decided(x, t)
    /\ record' = [record EXCEPT ![x][s] = outcome]
    /\ UNCHANGED <<permitted, answer>>

\* The import error of another exchange is written into the record at side s.
Misfile(x, s) ==
    /\ record[x][s] # "absent"
    /\ \E y \in Exchanges \ {x} : permitted[y]
    /\ s = "provider" => Decided(x, "consumer")
    /\ record' = [record EXCEPT ![x][s] = "CONSUMER_IMPORT_ERROR"]
    /\ UNCHANGED <<permitted, answer>>

\* The trigger is answered; with success only after a successful import that
\* both connectors know is over.
Answer(x, a) ==
    /\ answer[x] = "none"
    /\ a = "success" =>
          /\ permitted[x] /\ Decided(x, "provider")
          /\ \E s \in Sides : record[x][s] = "IMPORT_SUCCESS"
    /\ answer' = [answer EXCEPT ![x] = a]
    /\ UNCHANGED <<record, permitted>>

Next ==
    \E x \in Exchanges :
        \/ \E s \in Sides : Open(x, s) \/ Misfile(x, s)
        \/ Permit(x)
        \/ \E s \in Sides, outcome \in Outcomes : Decide(x, s, outcome)
        \/ \E a \in Answers : Answer(x, a)

Spec == Init /\ [][Next]_vars
=============================================================================
