---------------------------- MODULE ChainOutcome ----------------------------
(***************************************************************************)
(* What a service chain promises to whoever reads the records of its       *)
(* connectors, without handlers, messages or failures.  ServiceChain       *)
(* implements it.                                                          *)
(*                                                                         *)
(* The runs start one resource after the other, once every connector has   *)
(* its record and both ends know that the first service is completed.  In  *)
(* a run the services are permitted in the order of the chain.  Of a       *)
(* service that was permitted, its own connector and the two ends may      *)
(* hear, its own connector last.  A record is opened before it is decided  *)
(* and never goes back; a success stands for a run that every connector    *)
(* permitted and never appears in the middle of the chain; and the         *)
(* consumer's record is decided before those in the middle, and before the *)
(* provider's success.                                                     *)
(***************************************************************************)
EXTENDS Naturals

CONSTANTS
    NServices,   \* length of the chain
    NResources   \* resources of the exchange

VARIABLES
    record,     \* record[c]: the status of the record at connector c
    marked,     \* marked[c]: the services it shows as completed
    runs,       \* the resources whose run was started
    permitted   \* permitted[r]: the services that resource r was let into

vars == <<record, marked, runs, permitted>>

Connectors == 1..NServices
Provider == 1
Consumer == NServices
Ends == {Provider, Consumer}
Nodes == Connectors \ {Provider}
Resources == 1..NResources
Errors == {"PEP_ERROR", "PROVIDER_EXPORT_ERROR", "NODE_CALLBACK_ERROR"}
Outcomes == Errors \cup {"IMPORT_SUCCESS"}

Decided(c) == record[c] \in Outcomes
AllOpened == \A c \in Connectors : record[c] # "absent"

\* The provider's own service reads the resources: it needs no run.
Finished(i) == i = Provider \/ \E r \in Resources : i \in permitted[r]

\* The end that hears of service i before the connector of i marks it.
FirstTold(i) == IF i = Provider THEN Consumer ELSE Provider

Init ==
    /\ record = [c \in Connectors |-> IF c \in Ends THEN "PENDING" ELSE "absent"]
    /\ marked = [c \in Connectors |-> {}]
    /\ runs = {}
    /\ permitted = [r \in Resources |-> {}]

\* A connector in the middle gets its record of the exchange.
Open(c) ==
    /\ record[c] = "absent"
    /\ runs = {}
    /\ record' = [record EXCEPT ![c] = "PENDING"]
    /\ UNCHANGED <<marked, runs, permitted>>

\* The run of a resource starts.
Start(r) ==
    /\ AllOpened
    /\ \A q \in runs : q < r
    /\ \A c \in Ends : Provider \in marked[c]
    /\ runs' = runs \cup {r}
    /\ UNCHANGED <<record, marked, permitted>>

\* The next service of a run is permitted.
Permit(r, i) ==
    /\ r \in runs /\ i \notin permitted[r]
    /\ \A j \in Nodes : j < i => j \in permitted[r]
    /\ permitted' = [permitted EXCEPT ![r] = @ \cup {i}]
    /\ UNCHANGED <<record, marked, runs>>

\* Connector c learns that service i is completed.
Mark(c, i) ==
    /\ AllOpened /\ Finished(i)
    /\ c \in Ends \cup {i}
    /\ c = i => i \in marked[FirstTold(i)] \/ Decided(i)
    /\ marked' = [marked EXCEPT ![c] = @ \cup {i}]
    /\ UNCHANGED <<record, runs, permitted>>

\* An error is written into the record of c, with the mark of its own service
\* if a call about that failed.
Fail(c, error, also) ==
    /\ AllOpened
    /\ c \notin Ends => Decided(Consumer)
    /\ also \subseteq {c} /\ \A i \in also : Finished(i)
    /\ record' = [record EXCEPT ![c] = error]
    /\ marked' = [marked EXCEPT ![c] = @ \cup also]
    /\ UNCHANGED <<runs, permitted>>

\* The success of the chain is written at one of its ends, the consumer first;
\* the provider's record then shows the last service as completed.
Succeed(c) ==
    /\ AllOpened
    /\ \E r \in Resources : permitted[r] = Nodes
    /\ c = Provider => Decided(Consumer)
    /\ record' = [record EXCEPT ![c] = "IMPORT_SUCCESS"]
    /\ marked' = IF c = Provider THEN [marked EXCEPT ![c] = @ \cup {Consumer}] ELSE marked
    /\ UNCHANGED <<runs, permitted>>

Next ==
    \/ \E c \in Connectors : Open(c)
    \/ \E r \in Resources : Start(r)
    \/ \E r \in Resources, i \in Nodes : Permit(r, i)
    \/ \E c, i \in Connectors : Mark(c, i)
    \/ \E c \in Connectors, error \in Errors : \E also \in {{}, {c}} : Fail(c, error, also)
    \/ \E c \in Ends : Succeed(c)

Spec == Init /\ [][Next]_vars
=============================================================================
