------------------------- MODULE ServiceChainProofs -------------------------
(***************************************************************************)
(* Proofs about ServiceChain, for every length of the chain, every number  *)
(* of resources and of faults: its type and all its safety properties.     *)
(*                                                                         *)
(* The inductive invariant follows the permissions.  The records exist     *)
(* before the export starts (RecordsFollowTrigger), a node runs only in a  *)
(* run that was started (NodesFollowStart), and a service is reached only  *)
(* when all services before it were permitted, since only a permitted one  *)
(* can resume the chain (PermittedInOrder); so a success, which the last   *)
(* service causes, stands for the whole chain (GroundedSuccess).           *)
(* A connector marks its own service after it told the others              *)
(* (TellersHaveTold) or in a record that left PENDING (CleanIsKnown).      *)
(*                                                                         *)
(* An effect lemma per action says what it may change; each part of the    *)
(* invariant is then kept by the effects alone.                            *)
(***************************************************************************)
EXTENDS ServiceChain, TLAPS

Decided(c) == status[c] \in Outcomes

\* Every connector of the chain has its record before the export starts.
RecordsFollowTrigger ==
    /\ \A c \in Services : status[c] = "absent" => c \in Infrastructure
    /\ trig # "over" => exp.pc = "idle"
    /\ trig = "export" \/ exp.pc # "idle" => \A c \in Services : status[c] # "absent"
    /\ exp.pc \in {"idle", "pep"} => started = {}

\* Only a run that was started has nodes and permissions.
NodesFollowStart ==
    /\ \A r \in Resources : permitted[r] # {} => r \in started
    /\ \A r \in Resources, i \in Nodes : node[r][i].pc # "idle" => r \in started

\* In each run the services are permitted in the order of the chain; a callback
\* past its checks, a marked document and a resumption are of a permitted service.
PastCheck == {"app", "tellConsumer", "tellProvider", "wait", "own", "done"}
PermittedInOrder ==
    /\ \A r \in Resources : \A i \in permitted[r] : \A j \in Nodes : j < i => j \in permitted[r]
    /\ \A r \in Resources, i, j \in Nodes :
          node[r][i].pc \notin {"idle", "dead"} /\ j < i => j \in permitted[r]
    /\ \A r \in Resources, i \in Nodes :
          node[r][i].pc \in PastCheck \/ node[r][i].marked => i \in permitted[r]
    /\ \A r \in Resources : fin[r].pc # "idle" => Consumer \in permitted[r]
    /\ \A r \in Resources, i \in Infrastructure : resume[r][i] # "none" => i \in permitted[r]

\* A success stands for a run whose last service was permitted.
GroundedSuccess ==
    \A c \in Services : status[c] = "IMPORT_SUCCESS" => \E r \in Resources : Consumer \in permitted[r]

\* A service that a record shows as completed was permitted.
CompletedPermitted ==
    \A c \in Services : \A i \in completed[c] \ {Provider} : \E r \in Resources : i \in permitted[r]

\* An outcome that a handler read in its document is one that the record keeps.
CleanIsKnown ==
    /\ exp.clean \in Outcomes => Decided(Provider)
    /\ \A r \in Resources, i \in Nodes : node[r][i].clean \in Outcomes => Decided(i)

\* Who is about to mark its own service has told the provider, or the provider
\* the consumer; the provider confirms the last service after the consumer's record.
TellersHaveTold ==
    /\ exp.pc = "own" => Provider \in completed[Consumer]
    /\ \A r \in Resources, i \in Nodes :
          /\ node[r][i].pc = "tellConsumer" => i \in Infrastructure
          /\ node[r][i].pc = "own" => i \in completed[Provider]
    /\ \A r \in Resources :
          /\ fin[r].pc \in {"save", "ok"} => Decided(Consumer)
          /\ fin[r].pc = "ok" => Consumer \in completed[Provider]

\* The runs start in the order of the resources, after both ends know of the first
\* service; who saves an error has written it to its peer.
Exporting == {"fetch", "tell", "own", "deploy"}
AnnouncedFirst ==
    /\ exp.pc \in Exporting => \A q \in started : q < exp.r
    /\ exp.pc = "deploy" => Provider \in completed[Provider] /\ Provider \in completed[Consumer]
    /\ \A r \in Resources, i \in Nodes : node[r][i].pc = "save" => Decided(ErrorPeer(i))

\* The consumer completes the last service of a run once.
BeforeFinish == {"idle", "check", "app", "tellConsumer", "tellProvider"}
FinishesOnce ==
    \A r \in Resources : fin[r].pc # "idle" => node[r][Consumer].pc \notin BeforeFinish

\* What OthersToldFirst and ProviderSuccessIsComplete ask, with outcomes for
\* records that left PENDING.
MarksFollow ==
    /\ \A i \in Nodes : i \in completed[i] => i \in completed[Provider] \/ Decided(i)
    /\ Provider \in completed[Provider] => Provider \in completed[Consumer] \/ Decided(Provider)
    /\ status[Provider] = "IMPORT_SUCCESS" => Consumer \in completed[Provider] /\ Decided(Consumer)

\* Without faults, errors and refusals: the two ends agree, but for a success that
\* the provider has announced and not yet saved, and a refusal likewise.
Trouble == {"put", "save", "refused", "failed", "threw", "dead"}
Smooth ==
    /\ faults = 0 /\ ~exp.caught
    /\ \A r \in Resources, i \in Nodes : node[r][i].pc \notin Trouble
BothPending == status[Provider] = "PENDING" /\ status[Consumer] = "PENDING"

NoRunStory ==
    /\ exp.pc \in {"idle", "pep", "fetch", "tell", "own", "deploy"} => BothPending
    /\ exp.pc = "done" => status[Provider] = status[Consumer]
RefusalStory ==
    /\ exp.pc = "pep" => exp.clean = "PENDING"
    /\ exp.pc \in {"put", "save"} /\ exp.next = "done" =>
          /\ started = {}
          /\ exp.clean = "PENDING" /\ status[Provider] = "PENDING"
          /\ status[Consumer] = IF exp.pc = "put" THEN "PENDING" ELSE exp.want
RunStory ==
    /\ status[Provider] \in {"PENDING", "IMPORT_SUCCESS"}
    /\ status[Consumer] \in {"PENDING", "IMPORT_SUCCESS"}
    /\ status[Provider] = "IMPORT_SUCCESS" => status[Consumer] = "IMPORT_SUCCESS"
    /\ status[Consumer] = "IMPORT_SUCCESS" =>
          \/ status[Provider] = "IMPORT_SUCCESS"
          \/ \E r \in Resources : fin[r].pc = "save"
    /\ \A r \in Resources :
          /\ fin[r].pc \in {"save", "ok"} => status[Consumer] = "IMPORT_SUCCESS"
          /\ fin[r].pc = "ok" => status[Provider] = "IMPORT_SUCCESS"
          /\ fin[r].pc # "idle" /\ fin[r].clean = "IMPORT_SUCCESS" => status[Provider] = "IMPORT_SUCCESS"
Aligned ==
    /\ RefusalStory
    /\ started = {} => NoRunStory
    /\ started # {} /\ exp.pc \notin {"put", "save"} => RunStory
SmoothStory == Smooth => Aligned

IInv ==
    /\ TypeOK /\ RecordsFollowTrigger /\ NodesFollowStart /\ PermittedInOrder
    /\ GroundedSuccess /\ CleanIsKnown /\ TellersHaveTold /\ AnnouncedFirst /\ FinishesOnce
    /\ MarksFollow /\ CompletedPermitted /\ SmoothStory
-----------------------------------------------------------------------------
(* Services and the initial state *)

LEMMA ServiceFacts ==
    /\ Provider \in Services /\ Consumer \in Services /\ Consumer \in Nodes
    /\ Provider \notin Nodes /\ Provider # Consumer
    /\ Provider \notin Infrastructure /\ Consumer \notin Infrastructure
    /\ Infrastructure \subseteq Nodes /\ Nodes \subseteq Services
    /\ \A i \in Nodes : i # Consumer => i \in Infrastructure
    /\ Nodes \subseteq Int /\ \A i \in Nodes : i = 2 \/ i - 1 \in Infrastructure
BY ChainAssumption DEF Provider, Consumer, Services, Nodes, Infrastructure

LEMMA InitKeeps == Init => IInv
<1> SUFFICES ASSUME Init PROVE IInv
  OBVIOUS
<1> USE ServiceFacts DEF Init
<1>1. TypeOK
  BY ResourcesAssumption, ChainAssumption DEF TypeOK, Resources, ExportHandler, NodeHandler,
     Errors, Outcomes, ExportEnds, NodeEnds, FinishEnds
<1>2. RecordsFollowTrigger
  BY DEF RecordsFollowTrigger
<1>3. NodesFollowStart
  BY DEF NodesFollowStart
<1>4. PermittedInOrder
  BY DEF PermittedInOrder, PastCheck
<1>5. GroundedSuccess
  BY DEF GroundedSuccess
<1>6. CleanIsKnown
  BY DEF CleanIsKnown, Outcomes, Errors
<1>7. TellersHaveTold
  BY DEF TellersHaveTold
<1>8. MarksFollow
  BY DEF MarksFollow
<1>9. CompletedPermitted
  BY DEF CompletedPermitted
<1>10. SmoothStory
  BY DEF SmoothStory, Aligned, RefusalStory, NoRunStory, BothPending
<1>11. FinishesOnce
  BY DEF FinishesOnce
<1>12. AnnouncedFirst
  BY DEF AnnouncedFirst
<1> QED
  BY <1>1, <1>2, <1>3, <1>4, <1>5, <1>6, <1>7, <1>8, <1>9, <1>10, <1>11, <1>12 DEF IInv

-----------------------------------------------------------------------------
(* Effects *)

NodePcs == {"idle", "check", "app", "tellConsumer", "tellProvider", "wait", "own",
            "put", "save"} \cup NodeEnds
NodeTyped == node \in [Resources -> [Nodes -> NodeHandler]]
RecordsTyped ==
    /\ status \in [Services -> Outcomes \cup {"PENDING", "absent"}]
    /\ completed \in [Services -> SUBSET Services]

LEMMA TypeParts ==
    ASSUME IInv PROVE NodeTyped /\ RecordsTyped
BY DEF IInv, TypeOK, NodeTyped, RecordsTyped

NodeFrame(r, i) ==
    /\ NodeTyped'
    /\ \A q \in Resources, j \in Nodes : q # r \/ j # i => node'[q][j] = node[q][j]

LEMMA SetNodeFrame ==
    ASSUME NodeTyped, NEW r \in Resources, NEW i \in Nodes, NEW h \in NodeHandler, SetNode(r, i, h)
    PROVE  NodeFrame(r, i) /\ node'[r][i] = h
BY DEF NodeTyped, NodeFrame, SetNode

LEMMA HandlerMoves ==
    ASSUME NEW h \in NodeHandler
    PROVE  /\ \A pc \in NodePcs :
                /\ Goto(h, pc) \in NodeHandler
                /\ Goto(h, pc).pc = pc /\ Goto(h, pc).clean = h.clean /\ Goto(h, pc).marked = h.marked
           /\ Failed(h) \in NodeHandler /\ Failed(h).pc = "put" /\ Failed(h).clean = h.clean
           /\ Failed(h).marked = h.marked
           /\ Marked(h) \in NodeHandler /\ Marked(h).clean = h.clean
BY DEF NodeHandler, NodePcs, Goto, Failed, Marked, Errors

LEMMA StatusWritten ==
    ASSUME RecordsTyped, NEW c \in Services, NEW s
    PROVE  \A d \in Services : WithStatus(c, s)[d] = IF d = c THEN s ELSE status[d]
BY DEF RecordsTyped, WithStatus

LEMMA CompletedWritten ==
    ASSUME RecordsTyped, NEW c \in Services, NEW i
    PROVE  \A d \in Services :
              WithCompleted(c, i)[d] = IF d = c THEN completed[d] \cup {i} ELSE completed[d]
BY DEF RecordsTyped, WithCompleted

\* One mark is added, in one record.
LEMMA CompletedAdds ==
    ASSUME RecordsTyped, NEW c \in Services, NEW i, completed' = WithCompleted(c, i)
    PROVE  /\ \A d \in Services : completed'[d] \subseteq completed[d] \cup {i}
           /\ \A d \in Services : d # c => completed'[d] = completed[d]
           /\ i \in completed'[c]
BY DEF RecordsTyped, WithCompleted

ErrorWritten == \E c \in Services, s \in Errors : status' = WithStatus(c, s)

\* A callback that has begun runs in a run that was started.
LEMMA BegunInStarted ==
    ASSUME IInv, NEW r \in Resources, NEW i \in Nodes
    PROVE  node[r][i].pc # "idle" => r \in started
BY DEF IInv, NodesFollowStart

\* A permitted service resumes the chain.
ResumeTyped == resume \in [Resources -> [Infrastructure -> {"none", "data", "promise"}]]
ResumeEffect(r, i) ==
    /\ ResumeTyped'
    /\ \A q \in Resources, j \in Infrastructure :
          resume'[q][j] # "none" => resume[q][j] # "none" \/ (q = r /\ j = i /\ i \in permitted[r])

LEMMA ResumeKept ==
    ASSUME IInv, resume' = resume, NEW r, NEW i PROVE ResumeEffect(r, i)
BY DEF IInv, TypeOK, ResumeTyped, ResumeEffect

\* What a step of a callback may change: its own handler, the permission and the
\* resumption of its own service, one error in a record, one mark for its service.
NodeEffect(r, i) ==
    LET a == node[r][i]
        b == node'[r][i] IN
    /\ NodeFrame(r, i)
    /\ UNCHANGED <<origin, trig, exp, started>>
    /\ faults' \in Nat /\ (faults' = 0 => faults = 0)
    /\ a.pc \in Trouble => b.pc \in Trouble
    /\ a.pc \notin BeforeFinish => b.pc \notin BeforeFinish
    /\ a.pc # "dead" /\ b.pc \notin {"idle", "dead"}
    /\ r \in started
    /\ IF a.pc = "idle" THEN (i = 2 \/ (i - 1 \in Nodes /\ i - 1 \in permitted[r])) /\ b.clean = status[i]
       ELSE b.clean = a.clean
    /\ \/ permitted' = permitted
       \/ a.pc = "check" /\ permitted' = [permitted EXCEPT ![r] = @ \cup {i}]
    /\ ResumeEffect(r, i)
    /\ b.pc \in PastCheck \/ b.marked => i \in permitted'[r]
    /\ status' = status \/ (a.pc \in Trouble /\ ErrorWritten)
    /\ \/ completed' = completed
       \/ \E c \in Services :
             /\ completed' = WithCompleted(c, i) /\ i \in permitted[r]
             /\ c = i => i \in completed[Provider] \/ Decided(i)'
    /\ b.pc = "own" => i \in completed'[Provider]
    /\ b.pc = "tellConsumer" => i \in Infrastructure
    /\ b.pc = "save" => status' = WithStatus(ErrorPeer(i), a.want)
    /\ \/ fin' = fin
       \/ /\ i = Consumer /\ i \in permitted[r] /\ a.pc = "tellProvider" /\ b.pc = "wait"
          /\ fin' = [fin EXCEPT ![r] = [pc |-> "put", clean |-> status[Provider]]]

\* A mark, and a place past the checks, mean the service was permitted.
LEMMA MarkedPermitted ==
    ASSUME IInv, NEW r \in Resources, NEW i \in Nodes
    PROVE  node[r][i].pc \in PastCheck \/ node[r][i].marked => i \in permitted[r]
BY DEF IInv, PermittedInOrder

LEMMA NodeStartEffect ==
    ASSUME IInv, NEW r \in Resources, NEW i \in Nodes, NodeStart(r, i) PROVE NodeEffect(r, i)
<1> DEFINE h == [node[r][i] EXCEPT !.pc = "check", !.clean = status[i]]
<1>1. node[r][i] \in NodeHandler /\ faults \in Nat
  BY DEF IInv, TypeOK
<1>0. r \in started
  BY ServiceFacts DEF IInv, NodesFollowStart, PermittedInOrder, NodeStart
<1>2. status[i] \in Outcomes \cup {"PENDING"}
  <2>1. status[i] # "absent"
    BY <1>0, ServiceFacts DEF IInv, RecordsFollowTrigger
  <2> QED
    BY <2>1, ServiceFacts DEF IInv, TypeOK
<1>3. h \in NodeHandler /\ h.pc = "check" /\ h.clean = status[i] /\ h.marked = node[r][i].marked
  BY <1>1, <1>2 DEF NodeHandler
<1>4. SetNode(r, i, h)
  BY DEF NodeStart
<1> HIDE DEF h
<1>5. NodeFrame(r, i) /\ node'[r][i] = h
  BY <1>3, <1>4, TypeParts, SetNodeFrame
<1>6. i = 2 \/ (i - 1 \in Nodes /\ i - 1 \in permitted[r])
  BY ServiceFacts DEF IInv, PermittedInOrder, NodeStart
<1> QED
  BY <1>0, <1>1, <1>3, <1>5, <1>6, MarkedPermitted, ResumeKept DEF NodeStart, NodeEffect, Trouble, PastCheck, BeforeFinish

LEMMA NodeCheckEffect ==
    ASSUME IInv, NEW r \in Resources, NEW i \in Nodes, NodeCheck(r, i) PROVE NodeEffect(r, i)
<1> DEFINE h == node[r][i]
           refused == [h EXCEPT !.pc = "put", !.want = "PEP_ERROR"]
<1>1. h \in NodeHandler /\ faults \in Nat
  BY DEF IInv, TypeOK
<1>2. refused \in NodeHandler /\ refused.pc = "put" /\ refused.clean = h.clean /\ refused.marked = h.marked
  BY <1>1 DEF NodeHandler, Errors
<1>3. PICK g \in {Goto(h, "app"), refused, Failed(h)} :
          SetNode(r, i, g) /\ \/ g = Goto(h, "app") /\ permitted' = Permitted(r, i)
                              \/ g \in {refused, Failed(h)} /\ permitted' = permitted
  BY DEF NodeCheck
<1> HIDE DEF refused
<1>4. g \in NodeHandler /\ g.pc \in {"app", "put"} /\ g.clean = h.clean /\ g.marked = h.marked
  <2>1. "app" \in NodePcs
    BY DEF NodePcs
  <2>2. CASE g = Goto(h, "app")
    BY <1>1, <2>1, <2>2, HandlerMoves
  <2>3. CASE g = refused
    BY <1>2, <2>3
  <2>4. CASE g = Failed(h)
    BY <1>1, <2>4, HandlerMoves
  <2> QED
    BY <1>3, <2>2, <2>3, <2>4
<1>5. NodeFrame(r, i) /\ node'[r][i] = g
  BY <1>3, <1>4, TypeParts, SetNodeFrame
<1>6. \/ permitted' = [permitted EXCEPT ![r] = @ \cup {i}] /\ i \in permitted'[r] /\ g.pc = "app"
      \/ permitted' = permitted /\ g.pc = "put"
  <2>1. Permitted(r, i) = [permitted EXCEPT ![r] = @ \cup {i}] /\ i \in Permitted(r, i)[r]
    BY DEF IInv, TypeOK, Permitted
  <2>2. Goto(h, "app").pc = "app" /\ Failed(h).pc = "put"
    BY <1>1, HandlerMoves DEF NodePcs
  <2> QED
    BY <1>2, <1>3, <2>1, <2>2
<1>7. g.pc = "put" => (g.marked => i \in permitted[r])
  BY <1>4, MarkedPermitted
<1>8. h.pc = "check" /\ UNCHANGED <<origin, trig, status, completed, exp, started, fin, resume, faults>>
  BY DEF NodeCheck
<1> QED
  BY <1>1, <1>4, <1>5, <1>6, <1>7, <1>8, ResumeKept, BegunInStarted DEF NodeEffect, Trouble, PastCheck, BeforeFinish

LEMMA NodeAppEffect ==
    ASSUME IInv, NEW r \in Resources, NEW i \in Nodes, NodeApp(r, i) PROVE NodeEffect(r, i)
<1> DEFINE h == node[r][i]
<1>1. h \in NodeHandler /\ faults \in Nat /\ h.pc = "app"
  BY DEF IInv, TypeOK, NodeApp
<1>2. i \in permitted[r]
  BY <1>1, MarkedPermitted DEF PastCheck
<1>3. Tell(i) \in {"tellConsumer", "tellProvider"} /\ (Tell(i) = "tellConsumer" => i \in Infrastructure)
  BY DEF Tell, TellsConsumer
<1>4. PICK g \in {Goto(h, Tell(i)), Failed(h)} : SetNode(r, i, g)
  BY DEF NodeApp
<1>5. g \in NodeHandler /\ g.pc \in {Tell(i), "put"} /\ g.clean = h.clean /\ g.marked = h.marked
  BY <1>1, <1>3, <1>4, HandlerMoves DEF NodePcs
<1>6. NodeFrame(r, i) /\ node'[r][i] = g
  BY <1>4, <1>5, TypeParts, SetNodeFrame
<1>7. ResumeEffect(r, i)
  <2>1. CASE resume' = resume
    BY <2>1, ResumeKept
  <2>2. ASSUME NEW how \in {"data", "promise"}, i # Consumer, resume' = [resume EXCEPT ![r][i] = how]
        PROVE  ResumeEffect(r, i)
    <3>1. i \in Infrastructure
      BY <2>2, ServiceFacts
    <3> QED
      BY <1>2, <2>2, <3>1 DEF IInv, TypeOK, ResumeTyped, ResumeEffect
  <2> QED
    BY <2>1, <2>2 DEF NodeApp, ResumedWith
<1>8. UNCHANGED <<origin, trig, status, completed, exp, started, fin, permitted, faults>>
  BY DEF NodeApp
<1> QED
  BY <1>1, <1>2, <1>3, <1>5, <1>6, <1>7, <1>8, BegunInStarted DEF NodeEffect, Trouble, PastCheck, BeforeFinish

\* Telling a peer, which is not the teller.
LEMMA NodeTellEffect ==
    ASSUME IInv, NEW r \in Resources, NEW i \in Nodes, NEW peer \in Services, peer # i,
           node[r][i].pc \in {"tellConsumer", "tellProvider"}, NEW next,
           next \in {"tellProvider", "own"}, next = "own" => peer = Provider, NodeTell(r, i, peer, next)
    PROVE  NodeEffect(r, i)
<1> DEFINE h == node[r][i]
           good == Goto(Marked(h), next)
           bad == Failed(Marked(h))
<1>1. h \in NodeHandler /\ faults \in Nat /\ MaxFaults \in Nat
  BY ResourcesAssumption DEF IInv, TypeOK
<1>2. i \in permitted[r]
  BY DEF IInv, PermittedInOrder, PastCheck
<1>3. /\ good \in NodeHandler /\ good.pc = next /\ good.clean = h.clean
      /\ bad \in NodeHandler /\ bad.pc = "put" /\ bad.clean = h.clean
  <2>1. Marked(h) \in NodeHandler /\ Marked(h).clean = h.clean /\ next \in NodePcs
    BY <1>1, HandlerMoves DEF NodePcs
  <2> QED
    BY <2>1, HandlerMoves
<1>4. i \in WithCompleted(peer, i)[peer]
  BY TypeParts, CompletedWritten
<1> HIDE DEF good, bad
<1>5. /\ completed' \in {completed, WithCompleted(peer, i)}
      /\ faults' \in Nat /\ (faults' = 0 => faults = 0)
      /\ UNCHANGED <<origin, trig, status, exp, started, fin, permitted, resume>>
  BY <1>1 DEF NodeTell, Fault, NoFault
<1>6. CASE SetNode(r, i, good) /\ completed' = WithCompleted(peer, i)
  <2>1. NodeFrame(r, i) /\ node'[r][i] = good
    BY <1>3, <1>6, TypeParts, SetNodeFrame
  <2> QED
    BY <1>1, <1>2, <1>3, <1>4, <1>5, <1>6, <2>1, ResumeKept, BegunInStarted DEF NodeEffect, Trouble, PastCheck, BeforeFinish
<1>7. CASE SetNode(r, i, bad)
  <2>1. NodeFrame(r, i) /\ node'[r][i] = bad
    BY <1>3, <1>7, TypeParts, SetNodeFrame
  <2> QED
    BY <1>1, <1>2, <1>3, <1>5, <1>7, <2>1, ResumeKept, BegunInStarted DEF NodeEffect, Trouble, PastCheck, BeforeFinish
<1> QED
  BY <1>6, <1>7 DEF NodeTell, good, bad

LEMMA NodeTellConsumerEffect ==
    ASSUME IInv, NEW r \in Resources, NEW i \in Nodes, NodeTellConsumer(r, i) PROVE NodeEffect(r, i)
<1>1. i \in Infrastructure
  BY DEF IInv, TellersHaveTold, NodeTellConsumer
<1> QED
  BY <1>1, ServiceFacts, NodeTellEffect DEF NodeTellConsumer

LEMMA NodeTellProviderEffect ==
    ASSUME IInv, NEW r \in Resources, NEW i \in Nodes, NodeTellProvider(r, i) PROVE NodeEffect(r, i)
BY ServiceFacts, NodeTellEffect DEF NodeTellProvider

LEMMA NodeFinishEffect ==
    ASSUME IInv, NEW r \in Resources, NodeFinish(r) PROVE NodeEffect(r, Consumer)
<1> DEFINE i == Consumer
           h == node[r][i]
           good == Goto(Marked(h), "wait")
           bad == Failed(Marked(h))
<1>1. h \in NodeHandler /\ faults \in Nat /\ MaxFaults \in Nat /\ i \in Nodes
  BY ServiceFacts, ResourcesAssumption DEF IInv, TypeOK
<1>2. i \in permitted[r] /\ h.pc = "tellProvider"
  BY <1>1 DEF IInv, PermittedInOrder, PastCheck, NodeFinish
<1>3. /\ good \in NodeHandler /\ good.pc = "wait" /\ good.clean = h.clean
      /\ bad \in NodeHandler /\ bad.pc = "put" /\ bad.clean = h.clean
  BY <1>1, HandlerMoves DEF NodePcs
<1>4. PICK g \in {good, bad} : SetNode(r, i, g) /\ (g = good \/ fin' = fin)
  BY DEF NodeFinish
<1> HIDE DEF good, bad
<1>5. NodeFrame(r, i) /\ node'[r][i] = g
  BY <1>1, <1>3, <1>4, TypeParts, SetNodeFrame
<1>6. faults' \in Nat /\ (faults' = 0 => faults = 0)
  BY <1>1 DEF NodeFinish, Fault, NoFault
<1>7. /\ fin' = fin \/ fin' = [fin EXCEPT ![r] = [pc |-> "put", clean |-> status[Provider]]]
      /\ UNCHANGED <<origin, trig, status, completed, exp, started, permitted, resume>>
  BY DEF NodeFinish
<1> QED
  BY <1>1, <1>2, <1>3, <1>4, <1>5, <1>6, <1>7, ResumeKept, BegunInStarted DEF NodeEffect, Trouble, PastCheck, BeforeFinish

LEMMA NodeFinishedEffect ==
    ASSUME IInv, NEW r \in Resources, NodeFinished(r) PROVE NodeEffect(r, Consumer)
<1> DEFINE i == Consumer
           h == node[r][i]
<1>1. h \in NodeHandler /\ faults \in Nat /\ MaxFaults \in Nat /\ i \in Nodes
  BY ServiceFacts, ResourcesAssumption DEF IInv, TypeOK
<1>2. i \in permitted[r] /\ h.pc = "wait"
  BY <1>1 DEF IInv, PermittedInOrder, PastCheck, NodeFinished
<1>3. PICK g \in {Goto(h, "own"), Failed(h)} :
          SetNode(r, i, g) /\ (g = Goto(h, "own") => fin[r].pc = "ok" \/ g = Failed(h))
  BY DEF NodeFinished
<1>4. /\ g \in NodeHandler /\ g.clean = h.clean /\ g.pc \in {"own", "put"}
      /\ g.pc = "own" => g = Goto(h, "own") /\ g # Failed(h)
  BY <1>1, <1>3, HandlerMoves DEF NodePcs
<1>5. NodeFrame(r, i) /\ node'[r][i] = g
  BY <1>1, <1>3, <1>4, TypeParts, SetNodeFrame
<1>6. g.pc = "own" => Consumer \in completed[Provider]
  BY <1>3, <1>4 DEF IInv, TellersHaveTold
<1>7. faults' \in Nat /\ (faults' = 0 => faults = 0)
  BY <1>1 DEF NodeFinished, Fault, NoFault
<1>8. UNCHANGED <<origin, trig, status, completed, exp, started, fin, permitted, resume>>
  BY DEF NodeFinished
<1> QED
  BY <1>1, <1>2, <1>4, <1>5, <1>6, <1>7, <1>8, ResumeKept, BegunInStarted DEF NodeEffect, Trouble, PastCheck, BeforeFinish

LEMMA NodeOwnEffect ==
    ASSUME IInv, NEW r \in Resources, NEW i \in Nodes, NodeOwn(r, i) PROVE NodeEffect(r, i)
<1> DEFINE h == Goto(node[r][i], "done")
<1>1. node[r][i] \in NodeHandler /\ faults \in Nat /\ node[r][i].pc = "own"
  BY DEF IInv, TypeOK, NodeOwn
<1>2. h \in NodeHandler /\ h.pc = "done" /\ h.clean = node[r][i].clean
  BY <1>1, HandlerMoves DEF NodePcs, NodeEnds
<1>3. SetNode(r, i, h)
  BY DEF NodeOwn
<1> HIDE DEF h
<1>4. NodeFrame(r, i) /\ node'[r][i] = h
  BY <1>2, <1>3, TypeParts, SetNodeFrame
<1>5. i \in permitted[r] /\ i \in completed[Provider]
  BY <1>1 DEF IInv, PermittedInOrder, PastCheck, TellersHaveTold
<1>6. UNCHANGED <<origin, trig, status, exp, started, fin, permitted, resume, faults>>
  BY DEF NodeOwn
<1>7. completed' = WithCompleted(i, i) /\ i \in Services
  BY ServiceFacts DEF NodeOwn
<1> QED
  BY <1>1, <1>2, <1>4, <1>5, <1>6, <1>7, ResumeKept, BegunInStarted DEF NodeEffect, Trouble, PastCheck, BeforeFinish

LEMMA NodePutEffect ==
    ASSUME IInv, NEW r \in Resources, NEW i \in Nodes, NodePut(r, i) PROVE NodeEffect(r, i)
<1> DEFINE h == node[r][i]
           written == WithStatus(ErrorPeer(i), h.want)
<1>1. h \in NodeHandler /\ faults \in Nat /\ MaxFaults \in Nat /\ h.pc = "put" /\ h.want \in Errors
  BY ResourcesAssumption DEF IInv, TypeOK, NodePut, NodeHandler
<1>2. ErrorPeer(i) \in Services
  BY ServiceFacts DEF ErrorPeer
<1>3. PICK g \in {Goto(h, "threw"), Failed(h), Goto(h, "save")} :
          SetNode(r, i, g) /\ (g \in {Goto(h, "threw"), Failed(h)} \/ status' = written)
  BY DEF NodePut
<1>4. g \in NodeHandler /\ g.clean = h.clean /\ g.pc \in {"threw", "put", "save"} /\ g.marked = h.marked
  BY <1>1, <1>3, HandlerMoves DEF NodePcs, NodeEnds
<1>5. NodeFrame(r, i) /\ node'[r][i] = g
  BY <1>3, <1>4, TypeParts, SetNodeFrame
<1>6. faults' \in Nat /\ (faults' = 0 => faults = 0)
  BY <1>1 DEF NodePut, Fault, NoFault
<1>7. /\ status' \in {status, written}
      /\ UNCHANGED <<origin, trig, completed, exp, started, fin, permitted, resume>>
  BY DEF NodePut
<1>8. status' = status \/ ErrorWritten
  BY <1>1, <1>2, <1>7 DEF ErrorWritten
<1>9. g.pc = "save" => status' = written
  <2>1. Goto(h, "threw").pc = "threw" /\ Failed(h).pc = "put"
    BY <1>1, HandlerMoves DEF NodePcs, NodeEnds
  <2> QED
    BY <1>3, <2>1
<1> QED
  BY <1>1, <1>4, <1>5, <1>6, <1>7, <1>8, <1>9, MarkedPermitted, ResumeKept, BegunInStarted DEF NodeEffect, Trouble, PastCheck, BeforeFinish

LEMMA NodeSaveEffect ==
    ASSUME IInv, NEW r \in Resources, NEW i \in Nodes, NodeSave(r, i) PROVE NodeEffect(r, i)
<1> DEFINE h == node[r][i]
           g == Goto(h, IF h.caught THEN "failed" ELSE "refused")
<1>1. /\ h \in NodeHandler /\ faults \in Nat /\ h.pc = "save" /\ h.want \in Errors
      /\ h.clean \in Outcomes \cup {"PENDING"} /\ i \in Services
  BY ServiceFacts DEF IInv, TypeOK, NodeSave, NodeHandler
<1>2. g \in NodeHandler /\ g.clean = h.clean /\ g.pc \in {"failed", "refused"} /\ g.marked = h.marked
  BY <1>1, HandlerMoves DEF NodePcs, NodeEnds
<1>3. SetNode(r, i, g)
  BY DEF NodeSave
<1> HIDE DEF g
<1>4. NodeFrame(r, i) /\ node'[r][i] = g
  BY <1>2, <1>3, TypeParts, SetNodeFrame
<1>5. /\ status' = IF h.want = h.clean THEN status ELSE WithStatus(i, h.want)
      /\ completed' = IF h.marked THEN WithCompleted(i, i) ELSE completed
      /\ UNCHANGED <<origin, trig, exp, started, fin, permitted, resume, faults>>
  BY DEF NodeSave
<1>6. status' = status \/ ErrorWritten
  BY <1>1, <1>5 DEF ErrorWritten
<1>7. Decided(i)'
  <2>1. CASE h.want = h.clean
    BY <1>1, <1>5, <2>1 DEF IInv, CleanIsKnown, Decided, Outcomes
  <2>2. CASE h.want # h.clean
    BY <1>1, <1>5, <2>2, TypeParts, StatusWritten DEF Decided, Outcomes
  <2> QED
    BY <2>1, <2>2
<1>8. h.marked => i \in permitted[r]
  BY MarkedPermitted
<1> QED
  BY <1>1, <1>2, <1>4, <1>5, <1>6, <1>7, <1>8, ResumeKept, BegunInStarted DEF NodeEffect, Trouble, PastCheck, BeforeFinish

-----------------------------------------------------------------------------
(* The export *)

\* What a step of the export may change.
ExportEffect ==
    /\ exp' \in ExportHandler
    /\ exp.pc # "idle" /\ exp'.pc \notin {"idle", "pep"}
    /\ UNCHANGED <<origin, trig, node, fin, permitted, resume>>
    /\ faults' \in Nat /\ (faults' = 0 => faults = 0)
    /\ \/ started' = started
       \/ started' = started \cup {exp.r} /\ status' = status
    /\ status' = status \/ ErrorWritten
    /\ \/ completed' = completed
       \/ \E c \in Services :
             /\ completed' = WithCompleted(c, Provider)
             /\ c = Provider => Provider \in completed[Consumer] \/ Decided(Provider)'
    /\ exp'.pc = "own" => Provider \in completed'[Consumer]
    /\ exp'.pc = "deploy" =>
          completed' = WithCompleted(Provider, Provider) /\ Provider \in completed[Consumer]
    /\ exp'.pc \in Exporting => \A q \in started' : q < exp'.r
    /\ exp'.clean = exp.clean \/ Decided(Provider)'

LEMMA ExportTyped ==
    ASSUME IInv
    PROVE  /\ exp \in ExportHandler /\ exp.r \in Resources /\ exp.want \in Errors
           /\ exp.clean \in Outcomes \cup {"PENDING"} /\ faults \in Nat /\ MaxFaults \in Nat
           /\ started \in SUBSET Resources
BY ResourcesAssumption DEF IInv, TypeOK, ExportHandler

LEMMA ExportPepEffect == ASSUME IInv, ExportPep PROVE ExportEffect
<1>1. exp' \in ExportHandler /\ exp'.pc \in {"fetch", "put"} /\ exp'.clean = exp.clean
  BY ExportTyped DEF ExportPep, ExportUpdate, ExportCaught, ExportHandler, Errors
<1> QED
  BY <1>1, ExportTyped DEF IInv, RecordsFollowTrigger, ExportPep, ExportEffect

LEMMA StartedBefore == ASSUME IInv, exp.pc \in Exporting PROVE \A q \in started : q < exp.r
BY DEF IInv, AnnouncedFirst

LEMMA ExportFetchEffect == ASSUME IInv, ExportFetch PROVE ExportEffect
<1>1. exp' \in ExportHandler /\ exp'.pc \in {"tell", "put"} /\ exp'.clean = exp.clean /\ exp'.r = exp.r
  BY ExportTyped DEF ExportFetch, ExportUpdate, ExportCaught, ExportHandler, Errors
<1> QED
  BY <1>1, ExportTyped, StartedBefore DEF ExportFetch, ExportEffect, Exporting

LEMMA ExportTellEffect == ASSUME IInv, ExportTell PROVE ExportEffect
<1>1. exp' \in ExportHandler /\ exp'.pc \in {"own", "put"} /\ exp'.clean = exp.clean /\ exp'.r = exp.r
  BY ExportTyped DEF ExportTell, ExportUpdate, ExportCaught, ExportHandler, Errors
<1>2. exp'.pc = "own" => completed' = WithCompleted(Consumer, Provider)
  BY ExportTyped DEF ExportTell, ExportUpdate, ExportCaught, ExportHandler
<1>3. /\ completed' \in {completed, WithCompleted(Consumer, Provider)}
      /\ faults' \in Nat /\ (faults' = 0 => faults = 0) /\ exp.pc = "tell"
      /\ UNCHANGED <<origin, trig, status, started, node, fin, permitted, resume>>
  BY ExportTyped DEF ExportTell, Fault, NoFault
<1>4. Provider \in WithCompleted(Consumer, Provider)[Consumer]
  BY ServiceFacts, TypeParts, CompletedWritten
<1> QED
  BY <1>1, <1>2, <1>3, <1>4, ServiceFacts, StartedBefore DEF ExportEffect, Exporting

LEMMA ExportOwnEffect == ASSUME IInv, ExportOwn PROVE ExportEffect
<1>1. exp' \in ExportHandler /\ exp'.pc = "deploy" /\ exp'.clean = exp.clean /\ exp'.r = exp.r
  BY ExportTyped DEF ExportOwn, ExportHandler
<1>2. Provider \in completed[Consumer]
  BY DEF IInv, TellersHaveTold, ExportOwn
<1> QED
  BY <1>1, <1>2, ExportTyped, ServiceFacts, StartedBefore DEF ExportOwn, ExportEffect, Exporting

LEMMA ExportDeployEffect == ASSUME IInv, ExportDeploy PROVE ExportEffect
<1>1. /\ exp' \in ExportHandler /\ exp'.pc \in {"done", "fetch"} /\ exp'.clean = exp.clean
      /\ exp'.pc = "fetch" => exp'.r = exp.r + 1
  <2>1. CASE exp.r = NResources
    BY <2>1, ExportTyped DEF ExportDeploy, ExportHandler, ExportEnds
  <2>2. CASE exp.r # NResources
    <3>1. exp.r + 1 \in Resources
      BY <2>2, ExportTyped, ResourcesAssumption DEF Resources
    <3>2. exp' = [exp EXCEPT !.pc = "fetch", !.r = exp.r + 1]
      BY <2>2 DEF ExportDeploy
    <3> QED
      BY <3>1, <3>2, ExportTyped DEF ExportHandler
  <2> QED
    BY <2>1, <2>2
<1>2. \A q \in started' : q < exp.r + 1
  <2>1. \A q \in started : q < exp.r
    BY StartedBefore DEF ExportDeploy, Exporting
  <2> QED
    BY <2>1, ExportTyped DEF ExportDeploy, Resources
<1> QED
  BY <1>1, <1>2, ExportTyped DEF ExportDeploy, ExportEffect, Exporting

LEMMA ExportPutEffect == ASSUME IInv, ExportPut PROVE ExportEffect
<1>1. exp' \in ExportHandler /\ exp'.pc \in {"save", "threw", "put"} /\ exp'.clean = exp.clean
  <2>1. exp' \in {[exp EXCEPT !.pc = "save"], [exp EXCEPT !.pc = "threw"], ExportCaught}
    BY DEF ExportPut
  <2>2. [exp EXCEPT !.pc = "save"] \in ExportHandler /\ [exp EXCEPT !.pc = "threw"] \in ExportHandler
    BY ExportTyped DEF ExportHandler, ExportEnds
  <2>3. ExportCaught \in ExportHandler /\ ExportCaught.pc = "put" /\ ExportCaught.clean = exp.clean
    BY ExportTyped DEF ExportUpdate, ExportCaught, ExportHandler, Errors
  <2>4. /\ [exp EXCEPT !.pc = "save"].pc = "save" /\ [exp EXCEPT !.pc = "save"].clean = exp.clean
        /\ [exp EXCEPT !.pc = "threw"].pc = "threw" /\ [exp EXCEPT !.pc = "threw"].clean = exp.clean
    BY ExportTyped DEF ExportHandler
  <2> QED
    BY <2>1, <2>2, <2>3, <2>4
<1>2. /\ status' \in {status, WithStatus(Consumer, exp.want)}
      /\ faults' \in Nat /\ (faults' = 0 => faults = 0)
  BY ExportTyped DEF ExportPut, Fault, NoFault
<1>3. status' = status \/ ErrorWritten
  BY <1>2, ExportTyped, ServiceFacts DEF ErrorWritten
<1> QED
  BY <1>1, <1>2, <1>3 DEF ExportPut, ExportEffect, Exporting

LEMMA ExportSaveEffect == ASSUME IInv, ExportSave PROVE ExportEffect
<1>1. exp' \in ExportHandler /\ exp'.pc \in {"done", "put"}
  BY ExportTyped DEF ExportSave, ExportHandler, ExportEnds, Errors, Outcomes
<1>2. /\ status' = IF exp.want = exp.clean THEN status ELSE WithStatus(Provider, exp.want)
      /\ completed' = IF exp.marked THEN WithCompleted(Provider, Provider) ELSE completed
      /\ UNCHANGED <<origin, trig, started, node, fin, permitted, resume, faults>> /\ exp.pc = "save"
  BY DEF ExportSave
<1>3. status' = status \/ ErrorWritten
  BY <1>2, ExportTyped, ServiceFacts DEF ErrorWritten
<1>4. Decided(Provider)'
  <2>1. CASE exp.want = exp.clean
    BY <1>2, <2>1, ExportTyped DEF IInv, CleanIsKnown, Decided, Outcomes
  <2>2. CASE exp.want # exp.clean
    BY <1>2, <2>2, ExportTyped, ServiceFacts, TypeParts, StatusWritten DEF Decided, Outcomes
  <2> QED
    BY <2>1, <2>2
<1> QED
  BY <1>1, <1>2, <1>3, <1>4, ExportTyped, ServiceFacts DEF ExportEffect, Exporting

LEMMA ExportStepEffect == ASSUME IInv, ExportStep PROVE ExportEffect
BY ExportPepEffect, ExportFetchEffect, ExportTellEffect, ExportOwnEffect, ExportDeployEffect,
   ExportPutEffect, ExportSaveEffect DEF ExportStep

LEMMA CaughtStays == ASSUME IInv, ExportStep PROVE ~exp'.caught => ~exp.caught
<1>1. exp.caught \in BOOLEAN /\ exp \in ExportHandler
  BY ExportTyped DEF ExportHandler
<1>2. ASSUME exp.caught PROVE exp'.caught
  <2>1. ExportCaught.caught /\ ExportCaught \in ExportHandler
    BY ExportTyped DEF ExportCaught, ExportUpdate, ExportHandler, Errors
  <2>2. CASE ExportPep
    BY <1>1, <1>2, <2>1, <2>2 DEF ExportPep, ExportUpdate, ExportHandler
  <2>3. CASE ExportFetch
    BY <1>1, <1>2, <2>1, <2>3 DEF ExportFetch, ExportUpdate, ExportHandler
  <2>4. CASE ExportTell
    BY <1>1, <1>2, <2>1, <2>4 DEF ExportTell, ExportHandler
  <2>5. CASE ExportOwn
    BY <1>1, <1>2, <2>5 DEF ExportOwn, ExportHandler
  <2>6. CASE ExportDeploy
    BY <1>1, <1>2, <2>6 DEF ExportDeploy, ExportHandler
  <2>7. CASE ExportPut
    BY <1>1, <1>2, <2>1, <2>7 DEF ExportPut, ExportHandler
  <2>8. CASE ExportSave
    BY <1>1, <1>2, <2>8 DEF ExportSave, ExportHandler
  <2> QED
    BY <2>2, <2>3, <2>4, <2>5, <2>6, <2>7, <2>8 DEF ExportStep
<1> QED
  BY <1>2

LEMMA NodeStepEffect ==
    ASSUME IInv, NEW r \in Resources, NEW i \in Nodes, NodeStep(r, i) PROVE NodeEffect(r, i)
BY NodeStartEffect, NodeCheckEffect, NodeAppEffect, NodeTellConsumerEffect, NodeTellProviderEffect,
   NodeOwnEffect, NodePutEffect, NodeSaveEffect DEF NodeStep

-----------------------------------------------------------------------------
(* The provider's handler for the last service *)

Finishes(r) == FinishPut(r) \/ FinishSave(r)

LEMMA FinTyped ==
    ASSUME IInv, NEW r \in Resources
    PROVE  /\ fin \in [Resources -> [pc : {"idle", "put", "save"} \cup FinishEnds,
                                     clean : Outcomes \cup {"PENDING"}]]
           /\ fin[r].clean \in Outcomes \cup {"PENDING"} /\ faults \in Nat /\ MaxFaults \in Nat
BY ResourcesAssumption DEF IInv, TypeOK

\* One step of the provider's handler: the consumer's record, then its own.
FinishEffect(r) ==
    LET a == fin[r]
        b == fin'[r] IN
    /\ fin' \in [Resources -> [pc : {"idle", "put", "save"} \cup FinishEnds,
                               clean : Outcomes \cup {"PENDING"}]]
    /\ \A q \in Resources : q # r => fin'[q] = fin[q]
    /\ b.clean = a.clean /\ Consumer \in permitted[r]
    /\ UNCHANGED <<origin, trig, exp, started, node, permitted, resume>>
    /\ faults' \in Nat /\ (faults' = 0 => faults = 0)
    /\ \/ /\ a.pc = "put" /\ b.pc = "save" /\ faults' = faults /\ completed' = completed
          /\ status' = WithStatus(Consumer, "IMPORT_SUCCESS")
       \/ /\ a.pc = "put" /\ b.pc = "fail" /\ faults' # 0 /\ completed' = completed
          /\ status' \in {status, WithStatus(Consumer, "IMPORT_SUCCESS")}
       \/ /\ a.pc = "save" /\ b.pc = "ok" /\ faults' = faults
          /\ completed' = WithCompleted(Provider, Consumer)
          /\ status' = IF a.clean = "IMPORT_SUCCESS" THEN status
                       ELSE WithStatus(Provider, "IMPORT_SUCCESS")

LEMMA FinishPutEffect ==
    ASSUME IInv, NEW r \in Resources, FinishPut(r) PROVE FinishEffect(r)
<1>1. PICK pc \in {"save", "fail"} :
          /\ fin' = [fin EXCEPT ![r].pc = pc]
          /\ IF pc = "save" THEN NoFault /\ status' = WithStatus(Consumer, "IMPORT_SUCCESS")
             ELSE Fault /\ status' \in {status, WithStatus(Consumer, "IMPORT_SUCCESS")}
  BY DEF FinishPut
<1>2. /\ fin' \in [Resources -> [pc : {"idle", "put", "save"} \cup FinishEnds,
                                 clean : Outcomes \cup {"PENDING"}]]
      /\ \A q \in Resources : q # r => fin'[q] = fin[q]
      /\ fin'[r].pc = pc /\ fin'[r].clean = fin[r].clean
  BY <1>1, FinTyped DEF FinishEnds
<1>3. Consumer \in permitted[r] /\ fin[r].pc = "put"
  BY DEF IInv, PermittedInOrder, FinishPut
<1> QED
  BY <1>1, <1>2, <1>3, FinTyped DEF FinishPut, FinishEffect, Fault, NoFault

LEMMA FinishSaveEffect ==
    ASSUME IInv, NEW r \in Resources, FinishSave(r) PROVE FinishEffect(r)
<1>1. /\ fin' \in [Resources -> [pc : {"idle", "put", "save"} \cup FinishEnds,
                                 clean : Outcomes \cup {"PENDING"}]]
      /\ \A q \in Resources : q # r => fin'[q] = fin[q]
      /\ fin'[r].pc = "ok" /\ fin'[r].clean = fin[r].clean
  BY FinTyped DEF FinishSave, FinishEnds
<1>2. Consumer \in permitted[r] /\ fin[r].pc = "save"
  BY DEF IInv, PermittedInOrder, FinishSave
<1> QED
  BY <1>1, <1>2, FinTyped DEF FinishSave, FinishEffect

LEMMA FinishesEffect ==
    ASSUME IInv, NEW r \in Resources, Finishes(r) PROVE FinishEffect(r)
BY FinishPutEffect, FinishSaveEffect DEF Finishes

-----------------------------------------------------------------------------
(* The trigger, and crashes *)

\* One copy of the record is made, or none.
SyncEffect ==
    /\ trig = "sync" /\ trig' \in {"sync", "export", "over"}
    /\ faults' \in Nat /\ (faults' = 0 => faults = 0)
    /\ UNCHANGED <<origin, completed, exp, started, node, fin, permitted, resume>>
    /\ \/ status' = status /\ trig' # "export"
       \/ \E i \in Infrastructure :
             /\ status[i] = "absent" /\ status' = WithStatus(i, "PENDING")
             /\ trig' = "export" => \A j \in Infrastructure : j # i => status[j] # "absent"

LEMMA SyncHasEffect == ASSUME IInv, SyncWithInfrastructure PROVE SyncEffect
<1>1. PICK i \in Infrastructure :
          /\ status[i] = "absent"
          /\ \A j \in Infrastructure : j < i => status[j] # "absent"
          /\ \/ /\ NoFault
                /\ status' = WithStatus(i, "PENDING")
                /\ trig' = IF i = NServices - 1 THEN "export" ELSE "sync"
             \/ /\ Fault
                /\ status' \in {status, WithStatus(i, "PENDING")}
                /\ trig' = "over"
  BY DEF SyncWithInfrastructure
<1>2. faults' \in Nat /\ (faults' = 0 => faults = 0)
  BY <1>1, ExportTyped DEF Fault, NoFault
<1>3. i = NServices - 1 => \A j \in Infrastructure : j # i => j < i
  BY ChainAssumption DEF Infrastructure
<1> QED
  BY <1>1, <1>2, <1>3 DEF SyncWithInfrastructure, SyncEffect

\* The export starts with the status it reads, or its call fails.
TriggerEffect ==
    /\ trig = "export" /\ trig' = "over" /\ faults' \in Nat /\ (faults' = 0 => faults = 0)
    /\ UNCHANGED <<origin, status, completed, started, node, fin, permitted, resume>>
    /\ exp' \in ExportHandler
    /\ \/ exp' = exp /\ faults' # 0
       \/ exp'.pc = "pep" /\ exp'.clean = status[Provider] /\ exp'.caught = exp.caught

LEMMA TriggerHasEffect == ASSUME IInv, TriggerExport PROVE TriggerEffect
<1>1. status[Provider] \in Outcomes \cup {"PENDING"}
  BY ServiceFacts DEF IInv, TypeOK, RecordsFollowTrigger
<1>2. [exp EXCEPT !.pc = "pep", !.clean = status[Provider]] \in ExportHandler
  BY <1>1, ExportTyped DEF ExportHandler
<1>3. CASE NoFault /\ exp' = [exp EXCEPT !.pc = "pep", !.clean = status[Provider]]
  <2>1. exp'.pc = "pep" /\ exp'.clean = status[Provider] /\ exp'.caught = exp.caught
    BY <1>3, ExportTyped DEF ExportHandler
  <2> QED
    BY <1>2, <1>3, <2>1, ExportTyped DEF TriggerExport, TriggerEffect, NoFault
<1>4. CASE Fault /\ UNCHANGED exp
  BY <1>4, ExportTyped DEF TriggerExport, TriggerEffect, Fault
<1> QED
  BY <1>3, <1>4 DEF TriggerExport

\* A crash ends handlers; records, marks and data stay.
CrashEffect(c) ==
    /\ faults' \in Nat /\ faults' # 0
    /\ trig' \in {trig, "over"}
    /\ UNCHANGED <<origin, status, completed, started, permitted, resume>>
    /\ exp' \in ExportHandler /\ exp'.clean = exp.clean /\ exp'.r = exp.r
    /\ exp'.pc = exp.pc \/ (exp'.pc = "dead" /\ exp.pc # "idle")
    /\ NodeTyped'
    /\ \A r \in Resources, i \in Nodes :
          /\ node'[r][i].clean = node[r][i].clean /\ node'[r][i].marked = node[r][i].marked
          /\ node'[r][i].pc = node[r][i].pc \/ (node'[r][i].pc = "dead" /\ r \in started)
    /\ fin' \in [Resources -> [pc : {"idle", "put", "save"} \cup FinishEnds,
                               clean : Outcomes \cup {"PENDING"}]]
    /\ \A r \in Resources :
          fin'[r].pc = fin[r].pc \/ (fin'[r].pc = "dead" /\ fin[r].pc # "idle")

LEMMA CrashHasEffect == ASSUME IInv, NEW c \in Services, Crash(c) PROVE CrashEffect(c)
<1>1. /\ exp' \in ExportHandler /\ exp'.clean = exp.clean /\ exp'.r = exp.r
      /\ exp'.pc = exp.pc \/ (exp'.pc = "dead" /\ exp.pc # "idle")
  BY ExportTyped DEF Crash, ExportHandler, ExportEnds
<1>2. \A r \in Resources, i \in Nodes :
          /\ node[r][i] \in NodeHandler
          /\ Goto(node[r][i], "dead") \in NodeHandler /\ Goto(node[r][i], "dead").pc = "dead"
          /\ Goto(node[r][i], "dead").clean = node[r][i].clean
          /\ Goto(node[r][i], "dead").marked = node[r][i].marked
  <2> SUFFICES ASSUME NEW r \in Resources, NEW i \in Nodes
      PROVE  /\ node[r][i] \in NodeHandler
             /\ Goto(node[r][i], "dead") \in NodeHandler /\ Goto(node[r][i], "dead").pc = "dead"
             /\ Goto(node[r][i], "dead").clean = node[r][i].clean
             /\ Goto(node[r][i], "dead").marked = node[r][i].marked
    OBVIOUS
  <2>1. node[r][i] \in NodeHandler /\ "dead" \in NodePcs
    BY DEF IInv, TypeOK, NodePcs, NodeEnds
  <2> QED
    BY <2>1, HandlerMoves
<1>3. node' = [r \in Resources |-> [i \in Nodes |->
                  IF i = c /\ r \in started /\ node[r][i].pc \notin NodeEnds
                  THEN Goto(node[r][i], "dead") ELSE node[r][i]]]
  BY DEF Crash
<1>4. NodeTyped'
  BY <1>2, <1>3 DEF NodeTyped
<1>5. \A r \in Resources, i \in Nodes :
          /\ node'[r][i].clean = node[r][i].clean /\ node'[r][i].marked = node[r][i].marked
          /\ node'[r][i].pc = node[r][i].pc \/ (node'[r][i].pc = "dead" /\ r \in started)
  BY <1>2, <1>3
<1>6. fin' = [r \in Resources |->
                  IF c = Provider /\ fin[r].pc \in {"put", "save"}
                  THEN [fin[r] EXCEPT !.pc = "dead"] ELSE fin[r]]
  BY DEF Crash
<1>7. /\ fin' \in [Resources -> [pc : {"idle", "put", "save"} \cup FinishEnds,
                                 clean : Outcomes \cup {"PENDING"}]]
      /\ \A r \in Resources :
            fin'[r].pc = fin[r].pc \/ (fin'[r].pc = "dead" /\ fin[r].pc # "idle")
  BY <1>6, FinTyped DEF FinishEnds
<1> QED
  BY <1>1, <1>4, <1>5, <1>7, ExportTyped DEF Crash, CrashEffect, Fault

-----------------------------------------------------------------------------
(* What every step keeps *)

Effects ==
    \/ SyncEffect \/ TriggerEffect \/ ExportEffect
    \/ \E r \in Resources, i \in Nodes : NodeEffect(r, i)
    \/ \E r \in Resources : FinishEffect(r)
    \/ \E c \in Services : CrashEffect(c)

LEMMA NextEffects == ASSUME IInv, Next PROVE Effects
<1>1. ASSUME NEW r \in Resources, FinishStep(r) PROVE Effects
  BY <1>1, ServiceFacts, FinishesEffect, NodeFinishEffect, NodeFinishedEffect
     DEF FinishStep, Finishes, Effects
<1>2. ASSUME NEW r \in Resources, NEW i \in Nodes, NodeStep(r, i) PROVE Effects
  BY <1>2, NodeStepEffect DEF Effects
<1> QED
  BY <1>1, <1>2, SyncHasEffect, TriggerHasEffect, ExportStepEffect, CrashHasEffect DEF Next, Effects

\* No record disappears, no outcome is lost and no mark is taken back.
Grown ==
    /\ RecordsTyped'
    /\ \A c \in Services :
          /\ Decided(c) => Decided(c)'
          /\ status'[c] = "absent" => status[c] = "absent"
          /\ completed[c] \subseteq completed'[c]
    /\ permitted' \in [Resources -> SUBSET Nodes]
    /\ \A r \in Resources : permitted[r] \subseteq permitted'[r]
    /\ started \subseteq started' /\ started' \in SUBSET Resources

LEMMA StatusGrows ==
    ASSUME RecordsTyped, NEW c \in Services, NEW s \in Outcomes, status' = WithStatus(c, s)
    PROVE  /\ status' \in [Services -> Outcomes \cup {"PENDING", "absent"}]
           /\ \A d \in Services :
                 /\ Decided(d) => Decided(d)'
                 /\ status'[d] = "absent" => status[d] = "absent"
<1>1. "absent" \notin Outcomes
  BY DEF Outcomes, Errors
<1> QED
  BY <1>1 DEF RecordsTyped, WithStatus, Decided

LEMMA CompletedGrows ==
    ASSUME RecordsTyped, NEW c \in Services, NEW i \in Services, completed' = WithCompleted(c, i)
    PROVE  /\ completed' \in [Services -> SUBSET Services]
           /\ \A d \in Services : completed[d] \subseteq completed'[d]
BY DEF RecordsTyped, WithCompleted

StatusKept ==
    /\ status' \in [Services -> Outcomes \cup {"PENDING", "absent"}]
    /\ \A c \in Services :
          /\ Decided(c) => Decided(c)'
          /\ status'[c] = "absent" => status[c] = "absent"

LEMMA SameStatusKept == ASSUME RecordsTyped, status' = status PROVE StatusKept
BY DEF RecordsTyped, StatusKept, Decided

LEMMA ErrorKept == ASSUME RecordsTyped, ErrorWritten PROVE StatusKept
<1>1. PICK c \in Services, e \in Errors : status' = WithStatus(c, e)
  BY DEF ErrorWritten
<1>2. e \in Outcomes
  BY DEF Outcomes
<1> QED
  BY <1>1, <1>2, StatusGrows DEF StatusKept

LEMMA EffectsGrow == ASSUME IInv, Effects PROVE Grown
<1>1. /\ RecordsTyped /\ permitted \in [Resources -> SUBSET Nodes] /\ started \in SUBSET Resources
  BY TypeParts DEF IInv, TypeOK
<1> USE <1>1
<1>2. CASE SyncEffect
  <2>1. StatusKept
    <3>1. CASE status' = status
      BY <3>1, SameStatusKept
    <3>2. ASSUME NEW i \in Infrastructure, status[i] = "absent", status' = WithStatus(i, "PENDING")
          PROVE  StatusKept
      <4>1. i \in Services /\ "absent" \notin Outcomes /\ "absent" # "PENDING"
        BY ServiceFacts DEF Outcomes, Errors
      <4> QED
        BY <3>2, <4>1 DEF StatusKept, RecordsTyped, WithStatus, Decided
    <3> QED
      BY <1>2, <3>1, <3>2 DEF SyncEffect
  <2> QED
    BY <1>2, <2>1 DEF SyncEffect, Grown, StatusKept, RecordsTyped
<1>3. CASE TriggerEffect
  BY <1>3, SameStatusKept DEF TriggerEffect, Grown, StatusKept, RecordsTyped
<1>4. CASE ExportEffect
  <2>1. StatusKept
    BY <1>4, SameStatusKept, ErrorKept DEF ExportEffect
  <2>2. /\ completed' \in [Services -> SUBSET Services]
        /\ \A d \in Services : completed[d] \subseteq completed'[d]
    BY <1>4, ServiceFacts, CompletedGrows DEF ExportEffect, RecordsTyped
  <2>3. started \subseteq started' /\ started' \in SUBSET Resources
    BY <1>4, ExportTyped DEF ExportEffect
  <2> QED
    BY <1>4, <2>1, <2>2, <2>3 DEF ExportEffect, Grown, StatusKept, RecordsTyped
<1>5. ASSUME NEW r \in Resources, NEW i \in Nodes, NodeEffect(r, i) PROVE Grown
  <2>1. StatusKept
    BY <1>5, SameStatusKept, ErrorKept DEF NodeEffect
  <2>2. /\ completed' \in [Services -> SUBSET Services]
        /\ \A d \in Services : completed[d] \subseteq completed'[d]
    BY <1>5, ServiceFacts, CompletedGrows DEF NodeEffect, RecordsTyped
  <2>3. permitted' \in [Resources -> SUBSET Nodes] /\ \A q \in Resources : permitted[q] \subseteq permitted'[q]
    BY <1>5 DEF NodeEffect
  <2> QED
    BY <1>5, <2>1, <2>2, <2>3 DEF NodeEffect, Grown, StatusKept, RecordsTyped
<1>6. ASSUME NEW r \in Resources, FinishEffect(r) PROVE Grown
  <2>1. StatusKept
    <3>1. status' = status \/ \E c \in Services : status' = WithStatus(c, "IMPORT_SUCCESS")
      BY <1>6, ServiceFacts DEF FinishEffect
    <3>2. "IMPORT_SUCCESS" \in Outcomes
      BY DEF Outcomes
    <3> QED
      BY <3>1, <3>2, SameStatusKept, StatusGrows DEF StatusKept
  <2>2. /\ completed' \in [Services -> SUBSET Services]
        /\ \A d \in Services : completed[d] \subseteq completed'[d]
    BY <1>6, ServiceFacts, CompletedGrows DEF FinishEffect, RecordsTyped
  <2> QED
    BY <1>6, <2>1, <2>2 DEF FinishEffect, Grown, StatusKept, RecordsTyped
<1>7. ASSUME NEW c \in Services, CrashEffect(c) PROVE Grown
  BY <1>7, SameStatusKept DEF CrashEffect, Grown, StatusKept, RecordsTyped
<1> QED
  BY <1>2, <1>3, <1>4, <1>5, <1>6, <1>7 DEF Effects

-----------------------------------------------------------------------------
(* The inductive steps *)

FinishTyped ==
    fin \in [Resources -> [pc : {"idle", "put", "save"} \cup FinishEnds,
                           clean : Outcomes \cup {"PENDING"}]]

LEMMA TypeStep == ASSUME IInv, Effects PROVE TypeOK'
<1>1. Grown
  BY EffectsGrow
<1>2. /\ origin \in {Provider, Consumer} /\ trig \in {"sync", "export", "over"}
      /\ exp \in ExportHandler /\ NodeTyped
      /\ FinishTyped
      /\ faults \in Nat
  BY DEF IInv, TypeOK, NodeTyped, FinishTyped
<1>3. /\ origin' \in {Provider, Consumer} /\ trig' \in {"sync", "export", "over"}
      /\ exp' \in ExportHandler /\ NodeTyped' /\ faults' \in Nat
  <2>1. CASE SyncEffect
    BY <1>2, <2>1 DEF SyncEffect, NodeTyped
  <2>2. CASE TriggerEffect
    BY <1>2, <2>2 DEF TriggerEffect, NodeTyped
  <2>3. CASE ExportEffect
    BY <1>2, <2>3 DEF ExportEffect, NodeTyped
  <2>4. ASSUME NEW r \in Resources, NEW i \in Nodes, NodeEffect(r, i)
        PROVE  /\ origin' \in {Provider, Consumer} /\ trig' \in {"sync", "export", "over"}
               /\ exp' \in ExportHandler /\ NodeTyped' /\ faults' \in Nat
    BY <1>2, <2>4 DEF NodeEffect, NodeFrame
  <2>5. ASSUME NEW r \in Resources, FinishEffect(r)
        PROVE  /\ origin' \in {Provider, Consumer} /\ trig' \in {"sync", "export", "over"}
               /\ exp' \in ExportHandler /\ NodeTyped' /\ faults' \in Nat
    BY <1>2, <2>5 DEF FinishEffect, NodeTyped
  <2>6. ASSUME NEW c \in Services, CrashEffect(c)
        PROVE  /\ origin' \in {Provider, Consumer} /\ trig' \in {"sync", "export", "over"}
               /\ exp' \in ExportHandler /\ NodeTyped' /\ faults' \in Nat
    BY <1>2, <2>6 DEF CrashEffect
  <2> QED
    BY <2>1, <2>2, <2>3, <2>4, <2>5, <2>6 DEF Effects
<1>4. FinishTyped'
  <2>1. CASE fin' = fin
    BY <1>2, <2>1 DEF FinishTyped
  <2>2. ASSUME NEW r \in Resources, fin' = [fin EXCEPT ![r] = [pc |-> "put", clean |-> status[Provider]]]
        PROVE  FinishTyped'
    <3>1. status[Provider] \in Outcomes \cup {"PENDING"}
      BY ServiceFacts DEF IInv, TypeOK, RecordsFollowTrigger
    <3> QED
      BY <1>2, <2>2, <3>1 DEF FinishTyped
  <2>3. CASE SyncEffect \/ TriggerEffect \/ ExportEffect
    BY <2>1, <2>3 DEF SyncEffect, TriggerEffect, ExportEffect
  <2>4. ASSUME NEW r \in Resources, NEW i \in Nodes, NodeEffect(r, i) PROVE FinishTyped'
    <3>1. fin' = fin \/ fin' = [fin EXCEPT ![r] = [pc |-> "put", clean |-> status[Provider]]]
      BY <2>4 DEF NodeEffect
    <3> QED
      BY <2>1, <2>2, <3>1
  <2>5. ASSUME NEW r \in Resources, FinishEffect(r) PROVE FinishTyped'
    BY <2>5 DEF FinishEffect, FinishTyped
  <2>6. ASSUME NEW c \in Services, CrashEffect(c) PROVE FinishTyped'
    BY <2>6 DEF CrashEffect, FinishTyped
  <2> QED
    BY <2>3, <2>4, <2>5, <2>6 DEF Effects
<1>5. ResumeTyped'
  <2>1. ResumeTyped
    BY DEF IInv, TypeOK, ResumeTyped
  <2>2. resume' = resume \/ \E r \in Resources, i \in Nodes : ResumeEffect(r, i)
    BY DEF Effects, SyncEffect, TriggerEffect, ExportEffect, NodeEffect, FinishEffect, CrashEffect
  <2> QED
    BY <2>1, <2>2 DEF ResumeTyped, ResumeEffect
<1> QED
  BY <1>1, <1>3, <1>4, <1>5 DEF TypeOK, Grown, RecordsTyped, NodeTyped, FinishTyped, ResumeTyped

LEMMA RecordsFollowTriggerStep == ASSUME IInv, Effects PROVE RecordsFollowTrigger'
<1>1. Grown /\ RecordsFollowTrigger /\ TypeOK
  BY EffectsGrow DEF IInv
<1>2. \A c \in Services : status'[c] = "absent" => c \in Infrastructure
  BY <1>1 DEF Grown, RecordsFollowTrigger
<1>3. CASE SyncEffect
  <2>1. exp'.pc = "idle" /\ started' = {} /\ exp' = exp
    BY <1>1, <1>3 DEF SyncEffect, RecordsFollowTrigger
  <2>2. ASSUME trig' = "export" PROVE \A c \in Services : status'[c] # "absent"
    <3>1. PICK i \in Infrastructure :
             /\ status' = WithStatus(i, "PENDING")
             /\ \A j \in Infrastructure : j # i => status[j] # "absent"
      BY <1>3, <2>2 DEF SyncEffect
    <3> QED
      BY <1>1, <3>1, TypeParts, StatusWritten, ServiceFacts DEF RecordsFollowTrigger
  <2> QED
    BY <1>2, <2>1, <2>2 DEF RecordsFollowTrigger
<1>4. CASE TriggerEffect
  BY <1>1, <1>2, <1>4 DEF TriggerEffect, RecordsFollowTrigger
<1>5. CASE ExportEffect
  BY <1>1, <1>2, <1>5 DEF ExportEffect, RecordsFollowTrigger, Grown
<1>6. ASSUME NEW r \in Resources, NEW i \in Nodes, NodeEffect(r, i) PROVE RecordsFollowTrigger'
  BY <1>1, <1>2, <1>6 DEF NodeEffect, RecordsFollowTrigger, Grown
<1>7. ASSUME NEW r \in Resources, FinishEffect(r) PROVE RecordsFollowTrigger'
  BY <1>1, <1>2, <1>7 DEF FinishEffect, RecordsFollowTrigger, Grown
<1>8. ASSUME NEW c \in Services, CrashEffect(c) PROVE RecordsFollowTrigger'
  BY <1>1, <1>2, <1>8 DEF CrashEffect, RecordsFollowTrigger, Grown
<1> QED
  BY <1>3, <1>4, <1>5, <1>6, <1>7, <1>8 DEF Effects

LEMMA NodesFollowStartStep == ASSUME IInv, Effects PROVE NodesFollowStart'
<1>1. Grown /\ NodesFollowStart /\ TypeOK
  BY EffectsGrow DEF IInv
<1>2. CASE UNCHANGED <<permitted, resume, node>>
  BY <1>1, <1>2 DEF NodesFollowStart, Grown
<1>3. ASSUME NEW r \in Resources, NEW i \in Nodes, NodeEffect(r, i) PROVE NodesFollowStart'
  <2>1. r \in started /\ started' = started
    BY <1>3 DEF NodeEffect
  <2>2. \A q \in Resources, j \in Nodes : q # r => node'[q][j] = node[q][j]
    BY <1>3 DEF NodeEffect, NodeFrame
  <2>3. \A q \in Resources : q # r => permitted'[q] = permitted[q]
    BY <1>1, <1>3 DEF NodeEffect, TypeOK
  <2> QED
    BY <1>1, <2>1, <2>2, <2>3 DEF NodesFollowStart
<1>4. ASSUME NEW c \in Services, CrashEffect(c) PROVE NodesFollowStart'
  BY <1>1, <1>4 DEF CrashEffect, NodesFollowStart
<1> QED
  BY <1>2, <1>3, <1>4 DEF Effects, SyncEffect, TriggerEffect, ExportEffect, FinishEffect

LEMMA PermittedInOrderStep == ASSUME IInv, Effects PROVE PermittedInOrder'
<1>1. Grown /\ PermittedInOrder /\ TypeOK /\ Nodes \subseteq Int
  BY EffectsGrow, ServiceFacts DEF IInv
<1>2. CASE UNCHANGED <<permitted, resume, node, fin>>
  BY <1>1, <1>2 DEF PermittedInOrder
<1>3. ASSUME NEW r \in Resources, NEW i \in Nodes, NodeEffect(r, i) PROVE PermittedInOrder'
  <2>1. \A j \in Nodes : j < i => j \in permitted[r]
    <3>1. CASE node[r][i].pc = "idle"
      <4>1. i = 2 \/ (i - 1 \in Nodes /\ i - 1 \in permitted[r])
        BY <1>3, <3>1 DEF NodeEffect
      <4>2. \A j \in Nodes : j < i => j >= 2 /\ (j = i - 1 \/ j < i - 1)
        BY ChainAssumption DEF Nodes
      <4>3. \A j \in permitted[r] : \A k \in Nodes : k < j => k \in permitted[r]
        BY <1>1 DEF PermittedInOrder
      <4>4. CASE i = 2
        BY <4>2, <4>4, ChainAssumption DEF Nodes
      <4>5. CASE i - 1 \in permitted[r]
        BY <4>2, <4>3, <4>5
      <4> QED
        BY <4>1, <4>4, <4>5
    <3>2. CASE node[r][i].pc # "idle"
      BY <1>1, <1>3, <3>2 DEF NodeEffect, PermittedInOrder
    <3> QED
      BY <3>1, <3>2
  <2>2. permitted'[r] \subseteq permitted[r] \cup {i} /\ \A q \in Resources : q # r => permitted'[q] = permitted[q]
    BY <1>1, <1>3 DEF NodeEffect, TypeOK
  <2>3. \A q \in Resources, j \in Nodes : q # r \/ j # i => node'[q][j] = node[q][j]
    BY <1>3 DEF NodeEffect, NodeFrame
  <2>4. \A q \in Resources : permitted[q] \subseteq permitted'[q]
    BY <1>1 DEF Grown
  <2>5. \A q \in Resources : \A j \in permitted'[q] : \A k \in Nodes : k < j => k \in permitted'[q]
    BY <1>1, <2>1, <2>2, <2>4 DEF PermittedInOrder, Grown
  <2>6. \A q \in Resources, j, k \in Nodes :
            node'[q][j].pc \notin {"idle", "dead"} /\ k < j => k \in permitted'[q]
    BY <1>1, <2>1, <2>3, <2>4 DEF PermittedInOrder
  <2>7. \A q \in Resources, j \in Nodes :
            node'[q][j].pc \in PastCheck \/ node'[q][j].marked => j \in permitted'[q]
    BY <1>1, <1>3, <2>3, <2>4 DEF PermittedInOrder, NodeEffect
  <2>8. \A q \in Resources : fin'[q].pc # "idle" => Consumer \in permitted'[q]
    <3>1. \A q \in Resources : q # r => fin'[q] = fin[q]
      BY <1>1, <1>3 DEF NodeEffect, TypeOK
    <3>2. fin'[r].pc = fin[r].pc \/ Consumer \in permitted[r]
      BY <1>3 DEF NodeEffect
    <3> QED
      BY <1>1, <2>4, <3>1, <3>2 DEF PermittedInOrder
  <2>9. \A q \in Resources, j \in Infrastructure : resume'[q][j] # "none" => j \in permitted'[q]
    BY <1>1, <1>3, <2>4 DEF PermittedInOrder, NodeEffect, ResumeEffect
  <2> QED
    BY <2>5, <2>6, <2>7, <2>8, <2>9 DEF PermittedInOrder
<1>4. ASSUME NEW r \in Resources, FinishEffect(r) PROVE PermittedInOrder'
  BY <1>1, <1>4 DEF FinishEffect, PermittedInOrder
<1>5. ASSUME NEW c \in Services, CrashEffect(c) PROVE PermittedInOrder'
  <2>1. \A r \in Resources, i \in Nodes : node'[r][i].pc \in PastCheck => node[r][i].pc \in PastCheck
    BY <1>5 DEF CrashEffect, PastCheck
  <2> QED
    BY <1>1, <1>5, <2>1 DEF CrashEffect, PermittedInOrder
<1> QED
  BY <1>2, <1>3, <1>4, <1>5 DEF Effects, SyncEffect, TriggerEffect, ExportEffect

\* Who may have written a status, or a mark.
LEMMA WhoWrites ==
    ASSUME IInv, Effects, NEW c \in Services
    PROVE  /\ status'[c] = "IMPORT_SUCCESS" =>
                 status[c] = "IMPORT_SUCCESS" \/ \E r \in Resources : FinishEffect(r)
           /\ \A i \in completed'[c] :
                 \/ i \in completed[c]
                 \/ i = Provider
                 \/ i = Consumer /\ \E r \in Resources : FinishEffect(r)
                 \/ \E r \in Resources : NodeEffect(r, i) /\ i \in permitted[r]
<1>1. RecordsTyped /\ "IMPORT_SUCCESS" \notin Errors
  BY TypeParts DEF Errors
<1>2. ErrorWritten => (status'[c] = "IMPORT_SUCCESS" => status[c] = "IMPORT_SUCCESS")
  BY <1>1, StatusWritten DEF ErrorWritten
<1>3. CASE SyncEffect
  <2>1. status'[c] = "IMPORT_SUCCESS" => status[c] = "IMPORT_SUCCESS"
    BY <1>1, <1>3, StatusWritten, ServiceFacts DEF SyncEffect
  <2> QED
    BY <1>3, <2>1 DEF SyncEffect
<1>4. CASE TriggerEffect
  BY <1>4 DEF TriggerEffect
<1>5. CASE ExportEffect
  <2>1. \A i \in completed'[c] : i \in completed[c] \/ i = Provider
    BY <1>1, <1>5, CompletedAdds DEF ExportEffect
  <2>2. status'[c] = "IMPORT_SUCCESS" => status[c] = "IMPORT_SUCCESS"
    BY <1>2, <1>5 DEF ExportEffect
  <2> QED
    BY <2>1, <2>2
<1>6. ASSUME NEW r \in Resources, NEW i \in Nodes, NodeEffect(r, i)
      PROVE  /\ status'[c] = "IMPORT_SUCCESS" => status[c] = "IMPORT_SUCCESS"
             /\ \A j \in completed'[c] : j \in completed[c] \/ (j = i /\ i \in permitted[r])
  <2>1. \A j \in completed'[c] : j \in completed[c] \/ (j = i /\ i \in permitted[r])
    BY <1>1, <1>6, CompletedAdds DEF NodeEffect
  <2>2. status'[c] = "IMPORT_SUCCESS" => status[c] = "IMPORT_SUCCESS"
    BY <1>2, <1>6 DEF NodeEffect
  <2> QED
    BY <2>1, <2>2
<1>7. ASSUME NEW r \in Resources, FinishEffect(r)
      PROVE  \A j \in completed'[c] : j \in completed[c] \/ j = Consumer
  BY <1>1, <1>7, CompletedAdds, ServiceFacts DEF FinishEffect
<1>8. ASSUME NEW d \in Services, CrashEffect(d)
      PROVE  status' = status /\ completed' = completed
  BY <1>8 DEF CrashEffect
<1> QED
  BY <1>3, <1>4, <1>5, <1>6, <1>7, <1>8 DEF Effects

LEMMA GroundedSuccessStep == ASSUME IInv, Effects PROVE GroundedSuccess'
<1>1. Grown /\ GroundedSuccess
  BY EffectsGrow DEF IInv
<1>2. \A r \in Resources : FinishEffect(r) => Consumer \in permitted[r]
  BY DEF FinishEffect
<1>3. \A c \in Services : status'[c] = "IMPORT_SUCCESS" => \E r \in Resources : Consumer \in permitted[r]
  BY <1>1, <1>2, WhoWrites DEF GroundedSuccess
<1> QED
  BY <1>1, <1>3 DEF GroundedSuccess, Grown

LEMMA CompletedPermittedStep == ASSUME IInv, Effects PROVE CompletedPermitted'
<1>1. Grown /\ CompletedPermitted
  BY EffectsGrow DEF IInv
<1>2. \A r \in Resources : FinishEffect(r) => Consumer \in permitted[r]
  BY DEF FinishEffect
<1>3. ASSUME NEW c \in Services, NEW i \in completed'[c], i # Provider
      PROVE  \E r \in Resources : i \in permitted[r]
  BY <1>1, <1>2, <1>3, WhoWrites DEF CompletedPermitted
<1> QED
  BY <1>1, <1>3 DEF CompletedPermitted, Grown

LEMMA CleanIsKnownStep == ASSUME IInv, Effects PROVE CleanIsKnown'
<1>1. /\ Grown /\ CleanIsKnown /\ Nodes \subseteq Services /\ Provider \in Services
      /\ \A c \in Services : status[c] \in Outcomes => Decided(c)'
  BY EffectsGrow, ServiceFacts DEF IInv, Grown, Decided
<1>2. CASE SyncEffect
  BY <1>1, <1>2 DEF SyncEffect, CleanIsKnown, Grown
<1>3. CASE TriggerEffect
  BY <1>1, <1>3 DEF TriggerEffect, CleanIsKnown, Grown
<1>4. CASE ExportEffect
  BY <1>1, <1>4 DEF ExportEffect, CleanIsKnown, Grown
<1>5. ASSUME NEW r \in Resources, NEW i \in Nodes, NodeEffect(r, i) PROVE CleanIsKnown'
  <2>1. \A q \in Resources, j \in Nodes : q # r \/ j # i => node'[q][j] = node[q][j]
    BY <1>5 DEF NodeEffect, NodeFrame
  <2>2. exp' = exp /\ node'[r][i].clean \in {node[r][i].clean, status[i]}
    BY <1>5 DEF NodeEffect
  <2> QED
    BY <1>1, <2>1, <2>2 DEF CleanIsKnown, Grown
<1>6. ASSUME NEW r \in Resources, FinishEffect(r) PROVE CleanIsKnown'
  BY <1>1, <1>6 DEF FinishEffect, CleanIsKnown, Grown
<1>7. ASSUME NEW c \in Services, CrashEffect(c) PROVE CleanIsKnown'
  BY <1>1, <1>7 DEF CrashEffect, CleanIsKnown, Grown
<1> QED
  BY <1>2, <1>3, <1>4, <1>5, <1>6, <1>7 DEF Effects

LEMMA TellersHaveToldStep == ASSUME IInv, Effects PROVE TellersHaveTold'
<1>1. /\ Grown /\ TellersHaveTold /\ Provider \in Services /\ Consumer \in Services /\ RecordsTyped
  BY EffectsGrow, ServiceFacts, TypeParts DEF IInv
<1>2. CASE UNCHANGED <<exp, node, fin>>
  BY <1>1, <1>2 DEF TellersHaveTold, Grown
<1>3. CASE TriggerEffect
  BY <1>1, <1>3 DEF TriggerEffect, TellersHaveTold, Grown
<1>4. CASE ExportEffect
  BY <1>1, <1>4 DEF ExportEffect, TellersHaveTold, Grown
<1>5. ASSUME NEW r \in Resources, NEW i \in Nodes, NodeEffect(r, i) PROVE TellersHaveTold'
  <2>1. \A q \in Resources, j \in Nodes : q # r \/ j # i => node'[q][j] = node[q][j]
    BY <1>5 DEF NodeEffect, NodeFrame
  <2>2. \A q \in Resources : fin'[q].pc \in {"save", "ok"} => fin'[q] = fin[q]
    BY <1>5, FinTyped DEF NodeEffect
  <2>3. /\ exp' = exp
        /\ node'[r][i].pc = "own" => i \in completed'[Provider]
        /\ node'[r][i].pc = "tellConsumer" => i \in Infrastructure
    BY <1>5 DEF NodeEffect
  <2> QED
    BY <1>1, <2>1, <2>2, <2>3 DEF TellersHaveTold, Grown
<1>6. ASSUME NEW r \in Resources, FinishEffect(r) PROVE TellersHaveTold'
  <2>1. \A q \in Resources : q # r => fin'[q] = fin[q]
    BY <1>6 DEF FinishEffect
  <2>2. exp' = exp /\ node' = node
    BY <1>6 DEF FinishEffect
  <2>3. fin'[r].pc \in {"save", "ok"} => Decided(Consumer)'
    <3>1. CASE status' = WithStatus(Consumer, "IMPORT_SUCCESS")
      BY <1>1, <3>1, StatusWritten DEF Decided, Outcomes
    <3>2. CASE fin[r].pc = "save"
      BY <1>1, <3>2 DEF TellersHaveTold, Grown
    <3> QED
      BY <1>6, <3>1, <3>2 DEF FinishEffect
  <2>4. fin'[r].pc = "ok" => Consumer \in completed'[Provider]
    BY <1>1, <1>6, CompletedAdds DEF FinishEffect, TellersHaveTold
  <2> QED
    BY <1>1, <2>1, <2>2, <2>3, <2>4 DEF TellersHaveTold, Grown
<1>7. ASSUME NEW c \in Services, CrashEffect(c) PROVE TellersHaveTold'
  BY <1>1, <1>7 DEF CrashEffect, TellersHaveTold, Grown
<1> QED
  BY <1>2, <1>3, <1>4, <1>5, <1>6, <1>7 DEF Effects, SyncEffect

LEMMA AnnouncedFirstStep == ASSUME IInv, Effects PROVE AnnouncedFirst'
<1>1. /\ Grown /\ AnnouncedFirst /\ RecordsTyped /\ Provider \in Services /\ Consumer \in Services
      /\ \A i \in Nodes : ErrorPeer(i) \in Services
  BY EffectsGrow, ServiceFacts, TypeParts DEF IInv, ErrorPeer
<1>2. /\ Provider \in completed[Provider] => Provider \in completed'[Provider]
      /\ Provider \in completed[Consumer] => Provider \in completed'[Consumer]
      /\ \A i \in Nodes : Decided(ErrorPeer(i)) => Decided(ErrorPeer(i))'
  BY <1>1 DEF Grown, Decided, ErrorPeer
<1>3. CASE SyncEffect \/ \E r \in Resources : FinishEffect(r)
  BY <1>1, <1>2, <1>3 DEF SyncEffect, FinishEffect, AnnouncedFirst
<1>4. CASE TriggerEffect
  BY <1>1, <1>2, <1>4 DEF TriggerEffect, AnnouncedFirst, Exporting
<1>5. CASE ExportEffect
  <2>1. exp'.pc = "deploy" => Provider \in completed'[Provider] /\ Provider \in completed'[Consumer]
    BY <1>1, <1>2, <1>5, CompletedAdds DEF ExportEffect
  <2> QED
    BY <1>1, <1>2, <1>5, <2>1 DEF ExportEffect, AnnouncedFirst
<1>6. ASSUME NEW r \in Resources, NEW i \in Nodes, NodeEffect(r, i) PROVE AnnouncedFirst'
  <2>1. \A q \in Resources, j \in Nodes : q # r \/ j # i => node'[q][j] = node[q][j]
    BY <1>6 DEF NodeEffect, NodeFrame
  <2>2. node[r][i].want \in Errors
    BY TypeParts DEF NodeTyped, NodeHandler
  <2>3. node'[r][i].pc = "save" => Decided(ErrorPeer(i))'
    BY <1>1, <1>6, <2>2, StatusWritten DEF NodeEffect, Decided, Outcomes, ErrorPeer
  <2>4. UNCHANGED <<exp, started>>
    BY <1>6 DEF NodeEffect
  <2> QED
    BY <1>1, <1>2, <2>1, <2>3, <2>4 DEF AnnouncedFirst
<1>7. ASSUME NEW c \in Services, CrashEffect(c) PROVE AnnouncedFirst'
  BY <1>1, <1>2, <1>7 DEF CrashEffect, AnnouncedFirst, Exporting
<1> QED
  BY <1>3, <1>4, <1>5, <1>6, <1>7 DEF Effects

LEMMA MarksFollowStep == ASSUME IInv, Effects PROVE MarksFollow'
<1>1. /\ Grown /\ MarksFollow /\ RecordsTyped /\ TellersHaveTold
      /\ Provider \in Services /\ Consumer \in Services /\ Provider # Consumer
      /\ Provider \notin Nodes /\ Nodes \subseteq Services /\ Consumer \in Nodes
  BY EffectsGrow, ServiceFacts, TypeParts DEF IInv
<1>2. ASSUME NEW i \in Nodes, i \in completed'[i] PROVE i \in completed'[Provider] \/ Decided(i)'
  <2>1. CASE i \in completed[i]
    BY <1>1, <2>1 DEF MarksFollow, Grown
  <2>2. CASE i \notin completed[i]
    <3>1. CASE ExportEffect
      BY <1>1, <1>2, <2>2, <3>1, CompletedAdds DEF ExportEffect
    <3>2. ASSUME NEW r \in Resources, FinishEffect(r) PROVE FALSE
      BY <1>1, <1>2, <2>2, <3>2, CompletedAdds DEF FinishEffect
    <3>3. ASSUME NEW r \in Resources, NEW j \in Nodes, NodeEffect(r, j)
          PROVE  i \in completed'[Provider] \/ Decided(i)'
      <4>1. PICK c \in Services :
               /\ completed' = WithCompleted(c, j)
               /\ c = j => j \in completed[Provider] \/ Decided(j)'
        BY <1>2, <2>2, <3>3 DEF NodeEffect
      <4>2. c = i /\ j = i
        BY <1>1, <1>2, <2>2, <4>1, CompletedAdds
      <4> QED
        BY <1>1, <4>1, <4>2 DEF Grown
    <3>4. CASE completed' = completed
      BY <1>2, <2>2, <3>4
    <3> QED
      BY <3>1, <3>2, <3>3, <3>4 DEF Effects, SyncEffect, TriggerEffect, CrashEffect
  <2> QED
    BY <2>1, <2>2
<1>3. Provider \in completed'[Provider] => Provider \in completed'[Consumer] \/ Decided(Provider)'
  <2>1. CASE Provider \in completed[Provider]
    BY <1>1, <2>1 DEF MarksFollow, Grown
  <2>2. CASE Provider \notin completed[Provider]
    <3> SUFFICES ASSUME Provider \in completed'[Provider]
        PROVE Provider \in completed'[Consumer] \/ Decided(Provider)'
      OBVIOUS
    <3>1. CASE ExportEffect
      <4>1. PICK c \in Services :
               /\ completed' = WithCompleted(c, Provider)
               /\ c = Provider => Provider \in completed[Consumer] \/ Decided(Provider)'
        BY <2>2, <3>1 DEF ExportEffect
      <4>2. c = Provider
        BY <1>1, <2>2, <4>1, CompletedAdds
      <4> QED
        BY <1>1, <4>1, <4>2 DEF Grown
    <3>2. ASSUME NEW r \in Resources, FinishEffect(r) PROVE FALSE
      BY <1>1, <2>2, <3>2, CompletedAdds DEF FinishEffect
    <3>3. ASSUME NEW r \in Resources, NEW j \in Nodes, NodeEffect(r, j) PROVE FALSE
      BY <1>1, <2>2, <3>3, CompletedAdds DEF NodeEffect
    <3>4. CASE completed' = completed
      BY <2>2, <3>4
    <3> QED
      BY <3>1, <3>2, <3>3, <3>4 DEF Effects, SyncEffect, TriggerEffect, CrashEffect
  <2> QED
    BY <2>1, <2>2
<1>4. ASSUME status'[Provider] = "IMPORT_SUCCESS"
      PROVE  Consumer \in completed'[Provider] /\ Decided(Consumer)'
  <2>1. CASE status[Provider] = "IMPORT_SUCCESS"
    BY <1>1, <2>1 DEF MarksFollow, Grown
  <2>2. CASE status[Provider] # "IMPORT_SUCCESS"
    <3>1. PICK r \in Resources : FinishEffect(r)
      BY <1>1, <1>4, <2>2, WhoWrites
    <3>2. status' \notin {status, WithStatus(Consumer, "IMPORT_SUCCESS")}
      BY <1>1, <1>4, <2>2, StatusWritten
    <3>3. fin[r].pc = "save" /\ completed' = WithCompleted(Provider, Consumer)
      BY <3>1, <3>2 DEF FinishEffect
    <3> QED
      BY <1>1, <3>3, CompletedAdds DEF TellersHaveTold, Grown
  <2> QED
    BY <2>1, <2>2
<1> QED
  BY <1>2, <1>3, <1>4 DEF MarksFollow

LEMMA FinishesOnceStep == ASSUME IInv, Effects PROVE FinishesOnce'
<1>1. FinishesOnce /\ Consumer \in Nodes /\ TypeOK
  BY ServiceFacts DEF IInv
<1>2. CASE UNCHANGED <<node, fin>>
  BY <1>1, <1>2 DEF FinishesOnce
<1>3. ASSUME NEW r \in Resources, NEW i \in Nodes, NodeEffect(r, i) PROVE FinishesOnce'
  <2>1. \A q \in Resources, j \in Nodes : q # r \/ j # i => node'[q][j] = node[q][j]
    BY <1>3 DEF NodeEffect, NodeFrame
  <2>2. node[r][i].pc \notin BeforeFinish => node'[r][i].pc \notin BeforeFinish
    BY <1>3 DEF NodeEffect
  <2>3. CASE fin' = fin
    BY <1>1, <2>1, <2>2, <2>3 DEF FinishesOnce
  <2>4. CASE i = Consumer /\ node'[r][i].pc = "wait" /\ \A q \in Resources : q # r => fin'[q] = fin[q]
    BY <1>1, <2>1, <2>4 DEF FinishesOnce, BeforeFinish
  <2> QED
    BY <1>1, <1>3, <2>3, <2>4 DEF NodeEffect, TypeOK
<1>4. ASSUME NEW r \in Resources, FinishEffect(r) PROVE FinishesOnce'
  <2>1. fin[r].pc # "idle" /\ node' = node /\ \A q \in Resources : q # r => fin'[q] = fin[q]
    BY <1>4 DEF FinishEffect
  <2> QED
    BY <1>1, <2>1 DEF FinishesOnce
<1>5. ASSUME NEW c \in Services, CrashEffect(c) PROVE FinishesOnce'
  BY <1>1, <1>5 DEF CrashEffect, FinishesOnce, BeforeFinish
<1> QED
  BY <1>2, <1>3, <1>4, <1>5 DEF Effects, SyncEffect, TriggerEffect, ExportEffect

-----------------------------------------------------------------------------
(* The smooth run *)

\* Trouble never goes away.
LEMMA SmoothBefore ==
    ASSUME IInv, Effects, Smooth', exp' = exp \/ ExportStep \/ (exp'.caught = exp.caught)
    PROVE  Smooth /\ Aligned
<1>1. faults = 0 /\ \A c \in Services : ~CrashEffect(c)
  BY DEF Smooth, Effects, SyncEffect, TriggerEffect, ExportEffect, NodeEffect, FinishEffect, CrashEffect
<1>2. ~exp.caught
  BY CaughtStays DEF Smooth
<1>3. \A r \in Resources, i \in Nodes : node[r][i].pc \notin Trouble
  <2>1. CASE node' = node
    BY <2>1 DEF Smooth
  <2>2. ASSUME NEW r \in Resources, NEW i \in Nodes, NodeEffect(r, i)
        PROVE  \A q \in Resources, j \in Nodes : node[q][j].pc \notin Trouble
    BY <2>2 DEF NodeEffect, NodeFrame, Smooth
  <2> QED
    BY <1>1, <2>1, <2>2 DEF Effects, SyncEffect, TriggerEffect, ExportEffect, FinishEffect
<1> QED
  BY <1>1, <1>2, <1>3 DEF Smooth, IInv, SmoothStory

LEMMA ExportPepAligned == ASSUME IInv, ExportPep, Aligned, ~exp'.caught PROVE Aligned'
<1>1. started = {} /\ started' = started /\ status' = status /\ fin' = fin /\ exp.pc = "pep"
  BY DEF IInv, RecordsFollowTrigger, ExportPep
<1>2. exp' \in {[exp EXCEPT !.pc = "fetch"], ExportUpdate("PEP_ERROR", "done")} /\ exp'.clean = exp.clean
  BY ExportTyped DEF ExportPep, ExportUpdate, ExportCaught, ExportHandler
<1>3. exp'.pc \in {"fetch", "put"}
  BY <1>2, ExportTyped DEF ExportUpdate, ExportHandler
<1> QED
  BY <1>1, <1>2, <1>3 DEF Aligned, RefusalStory, NoRunStory, BothPending

LEMMA ExportFetchAligned == ASSUME IInv, ExportFetch, Aligned, ~exp'.caught PROVE Aligned'
<1>1. UNCHANGED <<started, status, fin>> /\ exp.pc = "fetch"
  BY DEF ExportFetch
<1>2. exp'.pc = "tell" \/ (exp'.pc = "put" /\ exp'.next = "catch")
  BY ExportTyped DEF ExportFetch, ExportUpdate, ExportCaught, ExportHandler
<1> QED
  BY <1>1, <1>2 DEF Aligned, RefusalStory, NoRunStory, RunStory, BothPending

\* The steps of the export between its decision and its end leave the records' status.
LEMMA ExportMovesAligned ==
    ASSUME IInv, Aligned, UNCHANGED <<started, status, fin>>,
           exp.pc \in {"tell", "own"}, exp'.pc \in {"own", "deploy"}
    PROVE  Aligned'
BY DEF Aligned, RefusalStory, NoRunStory, RunStory, BothPending

LEMMA ExportTellAligned == ASSUME IInv, ExportTell, Aligned, ~exp'.caught PROVE Aligned'
<1>1. exp'.pc = "own" /\ exp.pc = "tell"
  BY ExportTyped DEF ExportTell, ExportUpdate, ExportCaught, ExportHandler
<1> QED
  BY <1>1, ExportMovesAligned DEF ExportTell

LEMMA ExportOwnAligned == ASSUME IInv, ExportOwn, Aligned PROVE Aligned'
<1>1. exp'.pc = "deploy" /\ exp.pc = "own"
  BY ExportTyped DEF ExportOwn, ExportHandler
<1> QED
  BY <1>1, ExportMovesAligned DEF ExportOwn

LEMMA ExportDeployAligned == ASSUME IInv, ExportDeploy, Aligned PROVE Aligned'
<1>1. UNCHANGED <<status, fin>> /\ exp.pc = "deploy" /\ started' \in {started, started \cup {exp.r}}
  BY DEF ExportDeploy
<1>2. exp'.pc \in {"done", "fetch"}
  BY ExportDeployEffect, ExportTyped DEF ExportDeploy, ExportHandler
<1>3. started = {} => \A r \in Resources : fin[r].pc = "idle"
  BY DEF IInv, NodesFollowStart, PermittedInOrder
<1> QED
  BY <1>1, <1>2, <1>3 DEF Aligned, RefusalStory, NoRunStory, RunStory, BothPending

LEMMA ExportPutAligned == ASSUME IInv, ExportPut, Aligned, faults' = 0 PROVE Aligned'
<1>1. /\ status' = WithStatus(Consumer, exp.want) /\ exp' = [exp EXCEPT !.pc = "save"]
      /\ started' = started /\ fin' = fin /\ exp.pc = "put"
  BY ExportTyped DEF ExportPut, Fault, NoFault
<1>2. exp'.pc = "save" /\ exp'.next = exp.next /\ exp'.clean = exp.clean /\ exp'.want = exp.want
  BY <1>1, ExportTyped DEF ExportHandler
<1>3. status'[Consumer] = exp.want /\ status'[Provider] = status[Provider]
  BY <1>1, TypeParts, StatusWritten, ServiceFacts
<1> QED
  BY <1>1, <1>2, <1>3 DEF Aligned, RefusalStory, NoRunStory, BothPending

LEMMA ExportSaveAligned == ASSUME IInv, ExportSave, Aligned, ~exp'.caught PROVE Aligned'
<1>1. exp.next = "done" /\ exp'.pc = "done"
  BY ExportTyped DEF ExportSave, ExportHandler
<1>2. started' = {} /\ exp.clean = "PENDING" /\ status[Consumer] = exp.want /\ exp.want # "PENDING"
  BY <1>1, ExportTyped DEF ExportSave, Aligned, RefusalStory, Errors
<1>3. status' = WithStatus(Provider, exp.want)
  BY <1>2 DEF ExportSave
<1>4. status'[Provider] = exp.want /\ status'[Consumer] = exp.want
  BY <1>2, <1>3, TypeParts, StatusWritten, ServiceFacts
<1> QED
  BY <1>1, <1>2, <1>4 DEF Aligned, RefusalStory, NoRunStory

LEMMA ExportAligned == ASSUME IInv, ExportStep, Aligned, ~exp'.caught, faults' = 0 PROVE Aligned'
BY ExportPepAligned, ExportFetchAligned, ExportTellAligned, ExportOwnAligned, ExportDeployAligned,
   ExportPutAligned, ExportSaveAligned DEF ExportStep

LEMMA NodeAligned ==
    ASSUME IInv, NEW r \in Resources, NEW i \in Nodes, NodeEffect(r, i), Aligned, Smooth'
    PROVE  Aligned'
<1>1. /\ status' = status /\ exp' = exp /\ started' = started
  BY DEF NodeEffect, NodeFrame, Smooth
<1>2. CASE fin' = fin
  BY <1>1, <1>2 DEF Aligned, RefusalStory, NoRunStory, RunStory, BothPending
<1>3. CASE /\ i = Consumer /\ node[r][i].pc = "tellProvider"
           /\ fin' = [fin EXCEPT ![r] = [pc |-> "put", clean |-> status[Provider]]]
  <2>1. fin[r].pc = "idle"
    BY <1>3, ServiceFacts DEF IInv, FinishesOnce, BeforeFinish
  <2>2. /\ \A q \in Resources : q # r => fin'[q] = fin[q]
        /\ fin'[r].pc = "put" /\ fin'[r].clean = status[Provider]
    BY <1>3, FinTyped
  <2>3. ASSUME RunStory PROVE RunStory'
    BY <1>1, <2>1, <2>2, <2>3 DEF RunStory
  <2> QED
    BY <1>1, <2>3 DEF Aligned, RefusalStory, NoRunStory, BothPending
<1> QED
  BY <1>2, <1>3 DEF NodeEffect

LEMMA FinishAligned ==
    ASSUME IInv, NEW r \in Resources, FinishEffect(r), Aligned, faults' = 0 PROVE Aligned'
<1>1. /\ exp' = exp /\ started' = started /\ \A q \in Resources : q # r => fin'[q] = fin[q]
      /\ fin'[r].clean = fin[r].clean /\ Consumer \in permitted[r]
  BY DEF FinishEffect
<1>2. started # {}
  BY <1>1 DEF IInv, NodesFollowStart
<1>3. RefusalStory'
  BY <1>1, <1>2 DEF Aligned, RefusalStory
<1>4. ASSUME RunStory PROVE RunStory'
  <2>1. CASE fin[r].pc = "put" /\ fin'[r].pc = "save" /\ status' = WithStatus(Consumer, "IMPORT_SUCCESS")
    <3>1. status'[Consumer] = "IMPORT_SUCCESS" /\ status'[Provider] = status[Provider]
      BY <2>1, TypeParts, ServiceFacts DEF RecordsTyped, WithStatus
    <3> QED
      BY <1>1, <1>4, <2>1, <3>1 DEF RunStory
  <2>2. CASE fin[r].pc = "save" /\ fin'[r].pc = "ok"
    <3>1. status'[Provider] = "IMPORT_SUCCESS" /\ status'[Consumer] = status[Consumer]
      BY <1>4, <2>2, TypeParts, StatusWritten, ServiceFacts DEF FinishEffect, RunStory
    <3> QED
      BY <1>1, <1>4, <2>2, <3>1 DEF RunStory
  <2> QED
    BY <2>1, <2>2 DEF FinishEffect
<1> QED
  BY <1>1, <1>2, <1>3, <1>4 DEF Aligned

LEMMA SyncAligned == ASSUME IInv, SyncEffect, Aligned PROVE Aligned'
<1>1. UNCHANGED <<exp, started, fin>>
  BY DEF SyncEffect
<1>2. status'[Provider] = status[Provider] /\ status'[Consumer] = status[Consumer]
  BY TypeParts, StatusWritten, ServiceFacts DEF SyncEffect
<1> QED
  BY <1>1, <1>2 DEF Aligned, RefusalStory, NoRunStory, RunStory, BothPending

LEMMA TriggerAligned == ASSUME IInv, TriggerEffect, Aligned, faults' = 0 PROVE Aligned'
<1>1. exp.pc = "idle" /\ started = {}
  BY DEF IInv, RecordsFollowTrigger, TriggerEffect
<1>2. exp'.pc = "pep" /\ exp'.clean = status[Provider] /\ UNCHANGED <<status, started>>
  BY DEF TriggerEffect
<1> QED
  BY <1>1, <1>2 DEF Aligned, RefusalStory, NoRunStory, BothPending

LEMMA SmoothStoryStep == ASSUME IInv, Next PROVE SmoothStory'
<1> SUFFICES ASSUME Smooth' PROVE Aligned'
  BY DEF SmoothStory
<1>1. Effects /\ ~exp'.caught /\ faults' = 0
  BY NextEffects DEF Smooth
<1>2. CASE ExportStep
  BY <1>1, <1>2, SmoothBefore, ExportAligned
<1>3. CASE SyncWithInfrastructure
  <2>1. SyncEffect /\ exp' = exp
    BY <1>3, SyncHasEffect DEF SyncEffect
  <2> QED
    BY <1>1, <2>1, SmoothBefore, SyncAligned
<1>4. CASE TriggerExport
  <2>1. TriggerEffect /\ exp'.caught = exp.caught
    BY <1>1, <1>4, TriggerHasEffect DEF TriggerEffect
  <2> QED
    BY <1>1, <2>1, SmoothBefore, TriggerAligned
<1>5. ASSUME NEW r \in Resources, FinishStep(r) \/ \E i \in Nodes : NodeStep(r, i) PROVE Aligned'
  <2>1. FinishEffect(r) \/ \E i \in Nodes : NodeEffect(r, i)
    BY <1>5, ServiceFacts, FinishesEffect, NodeFinishEffect, NodeFinishedEffect, NodeStepEffect
       DEF FinishStep, Finishes
  <2>2. exp' = exp
    BY <2>1 DEF FinishEffect, NodeEffect
  <2> QED
    BY <1>1, <2>1, <2>2, SmoothBefore, FinishAligned, NodeAligned
<1>6. ASSUME NEW c \in Services, Crash(c) PROVE FALSE
  BY <1>1, <1>6, CrashHasEffect DEF CrashEffect
<1> QED
  BY <1>2, <1>3, <1>4, <1>5, <1>6 DEF Next

-----------------------------------------------------------------------------
(* Theorems *)

LEMMA NextKeeps == IInv /\ [Next]_vars => IInv'
<1> SUFFICES ASSUME IInv, [Next]_vars PROVE IInv'
  OBVIOUS
<1>1. CASE Next
  <2>1. Effects
    BY <1>1, NextEffects
  <2> QED
    BY <1>1, <2>1, TypeStep, RecordsFollowTriggerStep, NodesFollowStartStep, PermittedInOrderStep,
       GroundedSuccessStep, CleanIsKnownStep, TellersHaveToldStep, AnnouncedFirstStep, FinishesOnceStep, MarksFollowStep,
       CompletedPermittedStep, SmoothStoryStep DEF IInv
<1>2. CASE UNCHANGED vars
  BY <1>2 DEF vars, IInv, TypeOK, RecordsFollowTrigger, NodesFollowStart, PermittedInOrder,
      GroundedSuccess, CleanIsKnown, Decided, TellersHaveTold, AnnouncedFirst, FinishesOnce, MarksFollow,
      CompletedPermitted, SmoothStory, Smooth, Aligned, RefusalStory, NoRunStory, RunStory, BothPending
<1> QED
  BY <1>1, <1>2

\* The parts above hold of every state of every exchange through a chain.
THEOREM InvariantHolds == Spec => []IInv
<1> QED
  BY InitKeeps, NextKeeps, PTL DEF Spec

\* Handlers and records are what the schemas say they are.
THEOREM TypeCorrect == Spec => []TypeOK
<1>1. IInv => TypeOK
  BY DEF IInv
<1> QED
  BY <1>1, InvariantHolds, PTL

\* nodeCallbackService always finds its record: the synchronization of the
\* infrastructure connectors ends before the export begins.
THEOREM RecordsAreFound == Spec => []NodesFindTheirRecord
<1>1. IInv => NodesFindTheirRecord
  BY ServiceFacts DEF IInv, NodesFindTheirRecord, NodesFollowStart, RecordsFollowTrigger
<1> QED
  BY <1>1, InvariantHolds, PTL

\* A run that reached the last service has passed all of them.
LEMMA WholeRun ==
    ASSUME IInv, NEW r \in Resources, Consumer \in permitted[r] PROVE permitted[r] = Nodes
<1>1. \A i \in Nodes : i = Consumer \/ i < Consumer
  BY ChainAssumption DEF Nodes, Consumer
<1>2. permitted[r] \subseteq Nodes /\ \A i \in Nodes : i < Consumer => i \in permitted[r]
  BY DEF IInv, TypeOK, PermittedInOrder
<1> QED
  BY <1>1, <1>2

\* No connector records IMPORT_SUCCESS unless, in some run, the checks of
\* nodeCallbackService permitted every service of the chain.
THEOREM SuccessfulChainWasPermitted == Spec => []SuccessWasPermitted
<1>1. IInv => SuccessWasPermitted
  <2> SUFFICES ASSUME IInv, NEW c \in Services, status[c] = "IMPORT_SUCCESS"
      PROVE \E r \in Resources : permitted[r] = Nodes
    BY DEF SuccessWasPermitted
  <2>1. PICK r \in Resources : Consumer \in permitted[r]
    BY DEF IInv, GroundedSuccess
  <2> QED
    BY <2>1, WholeRun
<1> QED
  BY <1>1, InvariantHolds, PTL

\* completeServiceChain marks only services that some run reached past the checks
\* of their own connector and of all connectors before it.
THEOREM CompletedArePermitted == Spec => []CompletedWerePermitted
<1>1. IInv => CompletedWerePermitted
  <2> SUFFICES ASSUME IInv, NEW c \in Services, NEW i \in completed[c] \ {Provider}
      PROVE \E r \in Resources : \A j \in Nodes : j <= i => j \in permitted[r]
    BY DEF CompletedWerePermitted
  <2>1. PICK r \in Resources : i \in permitted[r]
    BY DEF IInv, CompletedPermitted
  <2>2. \A j \in Nodes : j < i => j \in permitted[r]
    BY <2>1 DEF IInv, PermittedInOrder
  <2>3. \A j \in Nodes : j <= i => j < i \/ j = i
    BY <2>1 DEF IInv, TypeOK, Nodes
  <2> QED
    BY <2>1, <2>2, <2>3
<1> QED
  BY <1>1, InvariantHolds, PTL

\* A connector marks its own service after it told the others, or with an error,
\* whichever call of completeServiceChain failed.
THEOREM OthersAreToldFirst == Spec => []OthersToldFirst
<1>1. IInv => OthersToldFirst
  BY DEF IInv, MarksFollow, OthersToldFirst, Decided, Outcomes, Errors
<1> QED
  BY <1>1, InvariantHolds, PTL

\* The provider's success comes with its last service completed, and after the
\* consumer's record left PENDING.
THEOREM ProviderIsComplete == Spec => []ProviderSuccessIsComplete
<1>1. IInv => ProviderSuccessIsComplete
  BY DEF IInv, MarksFollow, ProviderSuccessIsComplete, Decided, Outcomes, Errors
<1> QED
  BY <1>1, InvariantHolds, PTL

\* Without faults, errors and refusals both ends of the chain record the same status.
THEOREM SmoothSidesAgree == Spec => []SmoothAgreement
<1>1. IInv => SmoothAgreement
  <2> SUFFICES ASSUME IInv, faults = 0, ~exp.caught, AllEnded
      PROVE status[Provider] = status[Consumer]
    BY DEF SmoothAgreement
  <2>1. Smooth
    BY DEF Smooth, AllEnded, Trouble
  <2>2. Aligned /\ exp.pc = "done" /\ \A r \in Resources : fin[r].pc # "save"
    BY <2>1 DEF IInv, SmoothStory, AllEnded, FinishEnds
  <2> QED
    BY <2>2 DEF Aligned, NoRunStory, RunStory
<1> QED
  BY <1>1, InvariantHolds, PTL

-----------------------------------------------------------------------------
(* ServiceChain implements ChainOutcome *)

LEMMA SameSets ==
    /\ Outcome!Connectors = Services /\ Outcome!Nodes = Nodes /\ Outcome!Resources = Resources
    /\ Outcome!Provider = Provider /\ Outcome!Consumer = Consumer
    /\ Outcome!Ends = {Provider, Consumer}
    /\ Outcome!Errors = Errors /\ Outcome!Outcomes = Outcomes
    /\ \A c \in Services : Outcome!Decided(c) <=> Decided(c)
    /\ \A i \in Services : Outcome!Finished(i) <=> i = Provider \/ \E r \in Resources : i \in permitted[r]
    /\ \A c \in Services : c \in Infrastructure <=> c \notin {Provider, Consumer}
    /\ \A c \in Services : c \in Nodes <=> c # Provider
BY ChainAssumption DEF Outcome!Connectors, Outcome!Nodes, Outcome!Resources, Outcome!Provider,
   Outcome!Consumer, Outcome!Ends, Outcome!Errors, Outcome!Outcomes, Outcome!Decided, Outcome!Finished,
   Services, Nodes, Resources, Provider, Consumer, Infrastructure, Errors, Outcomes, Decided

Unseen == UNCHANGED <<status, completed, started, permitted>>

LEMMA UnseenStutters == ASSUME Unseen PROVE UNCHANGED Outcome!vars
BY DEF Unseen, Outcome!vars

LEMMA InitImplements == ASSUME Init PROVE Outcome!Init
<1>1. /\ status = [c \in Services |-> IF c \in {Provider, Consumer} THEN "PENDING" ELSE "absent"]
      /\ completed = [c \in Services |-> {}] /\ started = {} /\ permitted = [r \in Resources |-> {}]
  BY SameSets DEF Init
<1> QED
  BY <1>1, SameSets DEF Outcome!Init

\* While a handler of the export or of a node runs, every connector has its record.
LEMMA OpenedWhileRunning ==
    ASSUME IInv, exp.pc # "idle" \/ \E r \in Resources : permitted[r] # {} \/ r \in started
    PROVE  Outcome!AllOpened
BY SameSets DEF IInv, RecordsFollowTrigger, NodesFollowStart, Outcome!AllOpened

\* A record shows one more service as completed.
LEMMA MarkImplements ==
    ASSUME IInv, NEW c \in Services, NEW i \in Services, Outcome!AllOpened,
           i = Provider \/ \E r \in Resources : i \in permitted[r],
           c \in {Provider, Consumer, i},
           c = i => i \in completed[IF i = Provider THEN Consumer ELSE Provider] \/ Decided(i),
           completed' = WithCompleted(c, i), UNCHANGED <<status, started, permitted, resume>>
    PROVE  Outcome!Next
<1>1. Outcome!Mark(c, i)
  BY SameSets DEF Outcome!Mark, Outcome!FirstTold, WithCompleted
<1> QED
  BY <1>1, SameSets DEF Outcome!Next

\* A record shows an error, and the mark of its own service if a call about it failed.
LEMMA FailImplements ==
    ASSUME IInv, NEW c \in Services, NEW error \in Errors, Outcome!AllOpened,
           c \in Infrastructure => Decided(Consumer),
           status' = WithStatus(c, error),
           \/ completed' = completed
           \/ completed' = WithCompleted(c, c) /\ (c = Provider \/ \E r \in Resources : c \in permitted[r]),
           UNCHANGED <<started, permitted, resume>>
    PROVE  Outcome!Next
<1>1. Consumer \in Services
  BY ServiceFacts
<1>2. CASE completed' = completed
  <2>1. completed' = [completed EXCEPT ![c] = @ \cup {}]
    BY <1>2, TypeParts DEF RecordsTyped
  <2>2. Outcome!Fail(c, error, {})
    BY <1>1, <2>1, SameSets DEF Outcome!Fail, WithStatus
  <2> QED
    BY <2>2, SameSets DEF Outcome!Next
<1>3. CASE completed' = WithCompleted(c, c) /\ (c = Provider \/ \E r \in Resources : c \in permitted[r])
  <2>1. Outcome!Fail(c, error, {c})
    BY <1>1, <1>3, SameSets DEF Outcome!Fail, WithStatus, WithCompleted
  <2> QED
    BY <2>1, SameSets DEF Outcome!Next
<1> QED
  BY <1>2, <1>3

LEMMA ExportImplements == ASSUME IInv, ExportStep PROVE [Outcome!Next]_(Outcome!vars)
<1>1. /\ Provider \in Services /\ Consumer \in Services /\ Provider # Consumer
      /\ Provider \notin Infrastructure /\ Consumer \notin Infrastructure
  BY ServiceFacts
<1>2. Outcome!AllOpened
  BY OpenedWhileRunning, ExportStepEffect DEF ExportEffect
<1>3. CASE ExportPep \/ ExportFetch
  BY <1>3, UnseenStutters DEF ExportPep, ExportFetch, Unseen
<1>4. CASE ExportTell
  <2>1. UNCHANGED <<status, started, permitted, resume>> /\ completed' \in {completed, WithCompleted(Consumer, Provider)}
    BY <1>4 DEF ExportTell
  <2> QED
    BY <1>1, <1>2, <2>1, MarkImplements, UnseenStutters DEF Unseen
<1>5. CASE ExportOwn
  <2>1. Provider \in completed[Consumer]
    BY <1>5 DEF IInv, TellersHaveTold, ExportOwn
  <2> QED
    BY <1>1, <1>2, <1>5, <2>1, MarkImplements DEF ExportOwn
<1>6. CASE ExportDeploy
  <2>1. \A q \in started : q < exp.r
    BY <1>6 DEF IInv, AnnouncedFirst, Exporting, ExportDeploy
  <2>2. Provider \in completed[Provider] /\ Provider \in completed[Consumer]
    BY <1>6 DEF IInv, AnnouncedFirst, ExportDeploy
  <2>3. CASE started' = started
    BY <1>6, <2>3, UnseenStutters DEF ExportDeploy, Unseen
  <2>4. CASE started' = started \cup {exp.r}
    <3>1. Outcome!Start(exp.r)
      BY <1>2, <1>6, <2>1, <2>2, <2>4, SameSets DEF ExportDeploy, Outcome!Start
    <3> QED
      BY <3>1, SameSets, ExportTyped DEF Outcome!Next
  <2> QED
    BY <1>6, <2>3, <2>4 DEF ExportDeploy
<1>7. CASE ExportPut
  <2>1. /\ UNCHANGED <<completed, started, permitted, resume>>
        /\ status' \in {status, WithStatus(Consumer, exp.want)}
    BY <1>7 DEF ExportPut
  <2> QED
    BY <1>1, <1>2, <2>1, ExportTyped, FailImplements, UnseenStutters DEF Unseen
<1>8. CASE ExportSave
  <2>1. /\ UNCHANGED <<started, permitted, resume>>
        /\ status' = IF exp.want = exp.clean THEN status ELSE WithStatus(Provider, exp.want)
        /\ completed' = completed \/ completed' = WithCompleted(Provider, Provider)
    BY <1>8 DEF ExportSave
  <2>2. CASE exp.want # exp.clean
    BY <1>1, <1>2, <2>1, <2>2, ExportTyped, FailImplements
  <2>3. CASE exp.want = exp.clean
    <3>1. Decided(Provider)
      BY <2>3, ExportTyped DEF IInv, CleanIsKnown, Outcomes
    <3> QED
      BY <1>1, <1>2, <2>1, <2>3, <3>1, MarkImplements, UnseenStutters DEF Unseen
  <2> QED
    BY <2>2, <2>3
<1> QED
  BY <1>3, <1>4, <1>5, <1>6, <1>7, <1>8 DEF ExportStep

LEMMA NodeImplements ==
    ASSUME IInv, NEW r \in Resources, NEW i \in Nodes, NodeStep(r, i)
    PROVE  [Outcome!Next]_(Outcome!vars)
<1> DEFINE h == node[r][i]
<1>1. /\ Provider \in Services /\ Consumer \in Services /\ i \in Services /\ Provider # i
      /\ ErrorPeer(i) \in {Provider, Consumer}
  BY ServiceFacts DEF ErrorPeer
<1>2. h \in NodeHandler /\ h.want \in Errors /\ h.clean \in Outcomes \cup {"PENDING"}
  BY DEF IInv, TypeOK, NodeHandler
<1>3. h.pc # "idle" => r \in started
  BY DEF IInv, NodesFollowStart
<1>4. h.pc # "idle" => Outcome!AllOpened
  BY <1>3, OpenedWhileRunning
<1>5. h.pc \in PastCheck \/ h.marked => i \in permitted[r]
  BY MarkedPermitted
<1> HIDE DEF h
<1>6. CASE NodeStart(r, i) \/ NodeApp(r, i)
  BY <1>6, UnseenStutters DEF NodeStart, NodeApp, Unseen
<1>7. CASE NodeCheck(r, i)
  <2>1. /\ UNCHANGED <<status, completed, started>> /\ h.pc = "check"
        /\ permitted' \in {permitted, [permitted EXCEPT ![r] = @ \cup {i}]}
    BY <1>7 DEF NodeCheck, Permitted, h
  <2>2. \A j \in Nodes : j < i => j \in permitted[r]
    BY <2>1 DEF IInv, PermittedInOrder, h
  <2>3. CASE permitted' = permitted
    BY <2>1, <2>3, UnseenStutters DEF Unseen
  <2>4. CASE i \in permitted[r] /\ permitted' = [permitted EXCEPT ![r] = @ \cup {i}]
    <3>1. permitted' = permitted
      BY <2>4 DEF IInv, TypeOK
    <3> QED
      BY <2>1, <3>1, UnseenStutters DEF Unseen
  <2>5. CASE i \notin permitted[r] /\ permitted' = [permitted EXCEPT ![r] = @ \cup {i}]
    <3>1. Outcome!Permit(r, i)
      BY <1>3, <2>1, <2>2, <2>5, SameSets DEF Outcome!Permit
    <3> QED
      BY <3>1, SameSets DEF Outcome!Next
  <2> QED
    BY <2>1, <2>3, <2>4, <2>5
<1>8. CASE NodeTellConsumer(r, i) \/ NodeTellProvider(r, i)
  <2>1. PICK peer \in {Provider, Consumer} :
           /\ completed' \in {completed, WithCompleted(peer, i)} /\ peer # i
           /\ UNCHANGED <<status, started, permitted, resume>>
    <3>1. node[r][i].pc = "tellConsumer" => i # Consumer
      BY ServiceFacts DEF IInv, TellersHaveTold
    <3> QED
      BY <1>1, <1>8, <3>1 DEF NodeTellConsumer, NodeTellProvider, NodeTell
  <2>2. h.pc \in PastCheck /\ h.pc # "idle"
    BY <1>8 DEF NodeTellConsumer, NodeTellProvider, PastCheck, h
  <2> QED
    BY <1>1, <1>4, <1>5, <2>1, <2>2, MarkImplements, UnseenStutters DEF Unseen
<1>9. CASE NodeOwn(r, i)
  <2>1. h.pc = "own" /\ completed' = WithCompleted(i, i) /\ UNCHANGED <<status, started, permitted, resume>>
    BY <1>9 DEF NodeOwn, h
  <2>2. i \in completed[Provider]
    BY <2>1 DEF IInv, TellersHaveTold, h
  <2> QED
    BY <1>1, <1>4, <1>5, <2>1, <2>2, MarkImplements DEF PastCheck
<1>10. CASE NodePut(r, i)
  <2>1. /\ h.pc = "put" /\ UNCHANGED <<completed, started, permitted, resume>>
        /\ status' \in {status, WithStatus(ErrorPeer(i), h.want)}
    BY <1>10 DEF NodePut, h
  <2>2. ErrorPeer(i) \in Services /\ ErrorPeer(i) \notin Infrastructure
    BY <1>1, ServiceFacts
  <2> QED
    BY <1>2, <1>4, <2>1, <2>2, FailImplements, UnseenStutters DEF Unseen
<1>11. CASE NodeSave(r, i)
  <2>1. /\ h.pc = "save" /\ UNCHANGED <<started, permitted, resume>>
        /\ status' = IF h.want = h.clean THEN status ELSE WithStatus(i, h.want)
        /\ completed' = IF h.marked THEN WithCompleted(i, i) ELSE completed
    BY <1>11 DEF NodeSave, h
  <2>2. i \in Infrastructure => Decided(Consumer)
    BY <2>1, ServiceFacts DEF IInv, AnnouncedFirst, ErrorPeer, h
  <2>3. completed' = completed \/ (completed' = WithCompleted(i, i) /\ i \in permitted[r])
    BY <1>5, <2>1
  <2>4. CASE h.want # h.clean
    BY <1>1, <1>2, <1>4, <2>1, <2>2, <2>3, <2>4, FailImplements
  <2>5. CASE h.want = h.clean
    <3>1. Decided(i)
      BY <1>2, <2>5 DEF IInv, CleanIsKnown, Outcomes, h
    <3> QED
      BY <1>1, <1>4, <2>1, <2>3, <2>5, <3>1, MarkImplements, UnseenStutters DEF Unseen
  <2> QED
    BY <2>4, <2>5
<1> QED
  BY <1>6, <1>7, <1>8, <1>9, <1>10, <1>11 DEF NodeStep

\* The success: at the consumer, then at the provider with the last service.
LEMMA FinishImplements ==
    ASSUME IInv, NEW r \in Resources, FinishStep(r)
    PROVE  [Outcome!Next]_(Outcome!vars)
<1>1. Provider \in Services /\ Consumer \in Services /\ Provider # Consumer /\ Consumer \in Nodes
  BY ServiceFacts
<1>2. CASE NodeFinish(r) \/ NodeFinished(r)
  BY <1>2, UnseenStutters DEF NodeFinish, NodeFinished, Unseen
<1>3. CASE FinishEffect(r)
  <2>1. Consumer \in permitted[r] /\ UNCHANGED <<started, permitted, resume>>
    BY <1>3 DEF FinishEffect
  <2>2. Outcome!AllOpened
    BY <2>1, OpenedWhileRunning
  <2>3. permitted[r] = Nodes
    BY <2>1, WholeRun
  <2>4. ASSUME NEW c \in {Provider, Consumer}, c = Provider => Decided(Consumer),
               status' = WithStatus(c, "IMPORT_SUCCESS"),
               completed' = IF c = Provider THEN WithCompleted(c, Consumer) ELSE completed
        PROVE  Outcome!Next
    <3>1. Outcome!Succeed(c)
      BY <1>1, <2>1, <2>2, <2>3, <2>4, SameSets DEF Outcome!Succeed, WithStatus, WithCompleted
    <3> QED
      BY <3>1, SameSets DEF Outcome!Next
  <2>5. CASE fin[r].pc = "put"
    BY <1>1, <1>3, <2>1, <2>4, <2>5, UnseenStutters DEF FinishEffect, Unseen
  <2>6. CASE fin[r].pc = "save"
    <3>1. Decided(Consumer)
      BY <2>6 DEF IInv, TellersHaveTold
    <3>2. CASE status' = WithStatus(Provider, "IMPORT_SUCCESS")
      BY <1>1, <1>3, <2>4, <2>6, <3>1, <3>2 DEF FinishEffect
    <3>3. CASE status' = status
      BY <1>1, <1>3, <2>1, <2>2, <2>6, <3>3, MarkImplements DEF FinishEffect
    <3> QED
      BY <1>3, <2>6, <3>2, <3>3 DEF FinishEffect
  <2> QED
    BY <1>3, <2>5, <2>6 DEF FinishEffect
<1> QED
  BY <1>2, <1>3, FinishesEffect DEF FinishStep, Finishes

LEMMA SyncImplements == ASSUME IInv, SyncWithInfrastructure PROVE [Outcome!Next]_(Outcome!vars)
<1>1. UNCHANGED <<completed, started, permitted, resume>> /\ SyncEffect
  BY SyncHasEffect DEF SyncEffect
<1>2. started = {}
  BY <1>1 DEF IInv, RecordsFollowTrigger, SyncEffect
<1>3. CASE status' = status
  BY <1>1, <1>3, UnseenStutters DEF Unseen
<1>4. ASSUME NEW i \in Infrastructure, status[i] = "absent", status' = WithStatus(i, "PENDING")
      PROVE  Outcome!Next
  <2>1. Outcome!Open(i)
    BY <1>1, <1>2, <1>4 DEF Outcome!Open, WithStatus
  <2> QED
    BY <2>1, SameSets, ServiceFacts DEF Outcome!Next
<1> QED
  BY <1>1, <1>3, <1>4 DEF SyncEffect

\* The records and the checks of the chain behave as ChainOutcome says,
\* whatever calls are lost and whoever crashes.
THEOREM Implements == Spec => ImplementsOutcome
<1>1. IInv /\ [Next]_vars => [Outcome!Next]_(Outcome!vars)
  <2> SUFFICES ASSUME IInv, [Next]_vars PROVE [Outcome!Next]_(Outcome!vars)
    OBVIOUS
  <2>1. CASE TriggerExport \/ \E c \in Services : Crash(c)
    BY <2>1, UnseenStutters DEF TriggerExport, Crash, Unseen
  <2>2. CASE UNCHANGED vars
    BY <2>2, UnseenStutters DEF vars, Unseen
  <2> QED
    BY <2>1, <2>2, SyncImplements, ExportImplements, NodeImplements, FinishImplements DEF Next
<1>2. QED
  BY <1>1, InitImplements, InvariantHolds, PTL DEF Spec, ImplementsOutcome, Outcome!Spec
=============================================================================
