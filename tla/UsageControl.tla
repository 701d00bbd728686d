---------------------------- MODULE UsageControl ----------------------------
(***************************************************************************)
(* How the provider's connector enforces a policy that limits the number   *)
(* of uses of a service offering: the policy enforcement point (PEP), a    *)
(* singleton whose decision point every request replaces, and the usage    *)
(* counter in MongoDB that a request increments after each delivery.       *)
(*                                                                         *)
(* A request is one run of ProviderExportService.  Requests interleave at  *)
(* every await; the process may crash.  How a policy is evaluated is code  *)
(* of the json-odrl-manager library: here `count < Limit`.                 *)
(***************************************************************************)
EXTENDS Integers, Sequences

CONSTANTS
    Requests,    \* the exports
    Contracts,   \* the contracts, each with an offering of its own
    NResources,  \* resources an export delivers
    Limit,       \* uses that the policy allows
    MaxLosses,   \* bound: lost answers and crashes in one behaviour
    None         \* no request

ASSUME SizesAssumption == NResources \in Nat \ {0} /\ Limit \in Nat /\ MaxLosses \in Nat
ASSUME NoneAssumption == None \notin Requests

VARIABLES
    contract,   \* contract[q]: the contract request q is about
    pc,         \* pc[q]: where request q is
    left,       \* left[q]: resources it has not delivered yet
    pdp,        \* the request whose decision point is the PEP's current one
    loaded,     \* requests whose decision point holds its contract's policies
    counters,   \* counters[c]: values of the counter documents of contract c
    served,     \* served[c]: deliveries that a consumer has imported
    losses,     \* lost answers and crashes so far
    overlapped  \* history: two requests have been in progress together

vars == <<contract, pc, left, pdp, loaded, counters, served, losses, overlapped>>

Ended == {"refused", "done", "dead"}
Counting == {"list", "match", "insert"}
InProgress(q) == pc[q] \notin Ended \cup {"idle"}

TypeOK ==
    /\ contract \in [Requests -> Contracts]
    /\ pc \in [Requests -> {"idle", "load", "decide", "send"} \cup Counting \cup Ended]
    /\ left \in [Requests -> 0..NResources]
    /\ pdp \in Requests \cup {None}
    /\ loaded \subseteq Requests
    /\ counters \in [Contracts -> Seq(Nat)]
    /\ served \in [Contracts -> Nat]
    /\ losses \in 0..MaxLosses
    /\ overlapped \in BOOLEAN

Init ==
    /\ contract \in [Requests -> Contracts]
    /\ pc = [q \in Requests |-> "idle"]
    /\ left = [q \in Requests |-> NResources]
    /\ pdp = None
    /\ loaded = {}
    /\ counters = [c \in Contracts |-> <<>>]
    /\ served = [c \in Contracts |-> 0]
    /\ losses = 0
    /\ overlapped = FALSE

\* What getCount answers: the first document findOne meets, or 0.
Count(c) == IF counters[c] = <<>> THEN 0 ELSE Head(counters[c])

Goto(q, place) == pc' = [pc EXCEPT ![q] = place]

\* Variant: the loop does not stop at its last resource.
AfterEndless(q) == "send"

\* The loop over the resources goes on, or is over.
After(q) == IF left[q] = 0 THEN "done" ELSE "send"

\* requestAction: a new decision point replaces the one of the PEP.
RequestAction(q) ==
    /\ pc[q] = "idle"
    /\ Goto(q, "load")
    /\ pdp' = q
    /\ overlapped' = (overlapped \/ \E r \in Requests \ {q} : InProgress(r))
    /\ UNCHANGED <<contract, left, loaded, counters, served, losses>>

\* queryPdp: the contract is fetched and its policies are added, or an error
\* is caught and the request is refused.
LoadPolicies(q) ==
    /\ pc[q] = "load"
    /\ \/ Goto(q, "decide") /\ loaded' = loaded \cup {q}
       \/ Goto(q, "refused") /\ UNCHANGED loaded
    /\ UNCHANGED <<contract, left, pdp, counters, served, losses, overlapped>>

\* Variant: the last use that is allowed is allowed twice.
DecideLoose(q) ==
    /\ pc[q] = "decide"
    /\ Goto(q, IF Count(contract[q]) <= Limit THEN "send" ELSE "refused")
    /\ UNCHANGED <<contract, left, pdp, loaded, counters, served, losses, overlapped>>

\* queryResource: the policy holds of the value the counter has now.
Decide(q) ==
    /\ pc[q] = "decide"
    /\ Goto(q, IF Count(contract[q]) < Limit THEN "send" ELSE "refused")
    /\ UNCHANGED <<contract, left, pdp, loaded, counters, served, losses, overlapped>>

\* Variant: a failed import is counted as well.
DeliverUnchecked(q) ==
    /\ pc[q] = "send"
    /\ left' = [left EXCEPT ![q] = @ - 1]
    /\ \/ /\ Goto(q, "list")
          /\ served' = [served EXCEPT ![contract[q]] = @ + 1]
       \/ Goto(q, "list") /\ UNCHANGED served
    /\ UNCHANGED <<contract, pdp, loaded, counters, losses, overlapped>>

\* triggerGenericFlow: the consumer imports the resource and answers; or the
\* import fails; or it succeeds and the answer is lost.
Deliver(q) ==
    /\ pc[q] = "send"
    /\ left' = [left EXCEPT ![q] = @ - 1]
    /\ LET next == IF left[q] = 1 THEN "done" ELSE "send"
           given == [served EXCEPT ![contract[q]] = @ + 1] IN
       \/ Goto(q, "list") /\ served' = given /\ UNCHANGED losses
       \/ Goto(q, next) /\ UNCHANGED <<served, losses>>
       \/ /\ losses < MaxLosses
          /\ Goto(q, next) /\ served' = given /\ losses' = losses + 1
    /\ UNCHANGED <<contract, pdp, loaded, counters, overlapped>>

\* Variant: the decision point is forgotten once the decision is made.
ListLeftOperandsForgotten(q) ==
    /\ pc[q] = "list"
    /\ Goto(q, After(q))
    /\ UNCHANGED <<contract, left, pdp, loaded, counters, served, losses, overlapped>>

\* listResourceLeftOperands, asked of the decision point the PEP has now: it
\* names `count` if it holds the policies of this contract.
ListLeftOperands(q) ==
    /\ pc[q] = "list"
    /\ Goto(q, IF pdp \in loaded /\ contract[pdp] = contract[q] THEN "match" ELSE After(q))
    /\ UNCHANGED <<contract, left, pdp, loaded, counters, served, losses, overlapped>>

\* The document that matches is the first one.
Incremented(s) == [s EXCEPT ![1] = @ + 1]

\* processCount is an upsert and the collection has no unique index: a document
\* that matches is incremented in place, else one is inserted in a second step.
ProcessCount(q) ==
    LET c == contract[q] IN
    /\ \/ /\ pc[q] = "match" /\ counters[c] = <<>>
          /\ Goto(q, "insert")
          /\ UNCHANGED counters
       \/ /\ pc[q] = "match" /\ counters[c] # <<>>
          /\ Goto(q, After(q))
          /\ counters' = [counters EXCEPT ![c] = Incremented(@)]
       \/ /\ pc[q] = "insert"
          /\ Goto(q, After(q))
          /\ counters' = [counters EXCEPT ![c] = Append(@, 1)]
    /\ UNCHANGED <<contract, left, pdp, loaded, served, losses, overlapped>>

\* The process ends and restarts with an empty PEP; the counters stay.
Crash ==
    /\ losses < MaxLosses
    /\ losses' = losses + 1
    /\ pc' = [q \in Requests |-> IF InProgress(q) THEN "dead" ELSE pc[q]]
    /\ pdp' = None
    /\ loaded' = {}
    /\ UNCHANGED <<contract, left, counters, served, overlapped>>

Next ==
    \/ \E q \in Requests :
          \/ RequestAction(q) \/ LoadPolicies(q) \/ Decide(q)
          \/ Deliver(q) \/ ListLeftOperands(q) \/ ProcessCount(q)
    \/ Crash

Spec == Init /\ [][Next]_vars

-----------------------------------------------------------------------------
(* Properties *)

\* Increments that are still to come for the deliveries of contract c.
Pending(c) == {q \in Requests : contract[q] = c /\ pc[q] \in Counting}

\* What the documents of a sequence add up to.
Total(s) ==
    LET sum[i \in 0..Len(s)] == IF i = 0 THEN 0 ELSE sum[i - 1] + s[i] IN sum[Len(s)]

\* The counter documents of a contract never add up to more than the deliveries
\* its consumers have imported, however requests overlap and answers are lost.
NeverOvercounted == \A c \in Contracts : Total(counters[c]) <= served[c]

\* Requests that never overlap, and lose no answer, count every delivery: the
\* number the policy reads is right before and after each of them.
SoloCountsAll ==
    ~overlapped /\ losses = 0 =>
        \A c \in Contracts :
            Pending(c) = {} => Count(c) = served[c]

\* Then the limit is overrun by at most the rest of one export: the decision is
\* made once, before the loop over the resources.
SoloWithinLimit ==
    ~overlapped /\ losses = 0 =>
        \A c \in Contracts : Limit > 0 => served[c] <= Limit - 1 + NResources

\* docs/DATA_EXCHANGE.md, step 3: the process continues if the policies are
\* validated.  No contract is used more often than its policy allows.
UsageWithinLimit == \A c \in Contracts : served[c] <= Limit

\* listResourceLeftOperands of the PDP returns the left operands associated to
\* the target: after a delivery, the request goes on to count it.
DeliveryIsCounted ==
    [][\A q \in Requests : pc[q] = "list" => pc'[q] \in {"list", "match", "dead"}]_vars
=============================================================================
