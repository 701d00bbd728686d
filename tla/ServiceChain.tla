---------------------------- MODULE ServiceChain ----------------------------
(***************************************************************************)
(* A data exchange that runs through a service chain: the data of the      *)
(* provider passes the services of infrastructure participants, in order,  *)
(* on its way to the consumer.  Service i of the chain runs at connector   *)
(* i: the provider is 1, the consumer the last one.                        *)
(*                                                                         *)
(* Every connector keeps a record of the exchange: its status, and which   *)
(* services are completed.  The provider exports (ProviderExportService)   *)
(* and starts one run of the chain per resource; at every other connector  *)
(* a node of the run calls nodeCallbackService.  Who is told of a          *)
(* completed service, or of an error, follows from the endpoints and ids   *)
(* that a connector's record happens to hold, and these depend on the side *)
(* that triggered the exchange.                                            *)
(*                                                                         *)
(* The records of the two sides exist and are linked (DataExchange).  How  *)
(* nodes are set up, suspended and resumed is code of the dpcp-library and *)
(* of the participants' applications: here a node may start once the       *)
(* application before it has been given its data, or once the adapter of   *)
(* that connector resumes the chain, whether the application has answered  *)
(* or not.  The callback itself awaits neither: a service with nothing to  *)
(* call is completed like any other.  Calls fail and connectors crash as   *)
(* in DataExchange.                                                        *)
(***************************************************************************)
EXTENDS Integers, FiniteSets

CONSTANTS
    NServices,   \* length of the chain
    NResources,  \* resources of the exchange
    AdapterGets, \* services that the adapter of their connector calls with a GET
    MaxFaults    \* bound: failed calls and crashes in one behaviour

ASSUME ChainAssumption == NServices \in Nat /\ NServices >= 2
ASSUME ResourcesAssumption == NResources \in Nat \ {0} /\ MaxFaults \in Nat

Services == 1..NServices
Provider == 1
Consumer == NServices
Infrastructure == 2..(NServices - 1)
Nodes == 2..NServices
Resources == 1..NResources
ASSUME AdapterAssumption == AdapterGets \subseteq Infrastructure

VARIABLES
    origin,     \* the connector that received the trigger
    trig,       \* progress of the trigger handler until the export starts
    status,     \* status[c]: the status of the record at connector c
    completed,  \* completed[c]: the services its record shows as completed
    exp,        \* the export handler and its in-memory document
    started,    \* resources whose chain has been started
    node,       \* node[r][i]: the callback of service i for resource r
    fin,        \* fin[r]: the provider's handler of PUT servicechains/<last>
    permitted,  \* permitted[r]: services whose connector's checks let resource r in
    resume,     \* resume[r][i]: with what the chain is resumed after service i
    faults      \* number of faults so far

vars == <<origin, trig, status, completed, exp, started, node, fin, permitted, resume, faults>>

Errors == {"PEP_ERROR", "PROVIDER_EXPORT_ERROR", "NODE_CALLBACK_ERROR"}
Outcomes == Errors \cup {"IMPORT_SUCCESS"}
ExportEnds == {"done", "threw", "dead"}
NodeEnds == {"done", "refused", "failed", "threw", "dead"}
FinishEnds == {"ok", "fail", "dead"}

\* want, clean, caught: as in DataExchange; marked: the document in memory shows
\* the connector's own service as completed; next: where the export resumes.
ExportHandler ==
    [pc : {"idle", "pep", "fetch", "tell", "own", "deploy", "put", "save"} \cup ExportEnds,
     r : Resources, want : Errors, next : {"catch", "done"},
     clean : Outcomes \cup {"PENDING"}, caught : BOOLEAN, marked : BOOLEAN]
NodeHandler ==
    [pc : {"idle", "check", "app", "tellConsumer", "tellProvider", "wait", "own",
           "put", "save"} \cup NodeEnds,
     want : Errors, clean : Outcomes \cup {"PENDING"}, caught : BOOLEAN, marked : BOOLEAN]

TypeOK ==
    /\ origin \in {Provider, Consumer}
    /\ trig \in {"sync", "export", "over"}
    /\ status \in [Services -> Outcomes \cup {"PENDING", "absent"}]
    /\ completed \in [Services -> SUBSET Services]
    /\ exp \in ExportHandler
    /\ started \in SUBSET Resources
    /\ node \in [Resources -> [Nodes -> NodeHandler]]
    /\ fin \in [Resources -> [pc : {"idle", "put", "save"} \cup FinishEnds,
                              clean : Outcomes \cup {"PENDING"}]]
    /\ permitted \in [Resources -> SUBSET Nodes]
    /\ resume \in [Resources -> [Infrastructure -> {"none", "data", "promise"}]]
    /\ faults \in Nat

Init ==
    /\ origin \in {Provider, Consumer}
    /\ trig = IF Infrastructure = {} THEN "export" ELSE "sync"
    /\ status = [c \in Services |-> IF c \in Infrastructure THEN "absent" ELSE "PENDING"]
    /\ completed = [c \in Services |-> {}]
    /\ exp = [pc |-> "idle", r |-> 1, want |-> "PEP_ERROR", next |-> "done",
              clean |-> "PENDING", caught |-> FALSE, marked |-> FALSE]
    /\ started = {}
    /\ node = [r \in Resources |-> [i \in Nodes |->
                  [pc |-> "idle", want |-> "PEP_ERROR", clean |-> "PENDING",
                   caught |-> FALSE, marked |-> FALSE]]]
    /\ fin = [r \in Resources |-> [pc |-> "idle", clean |-> "PENDING"]]
    /\ permitted = [r \in Resources |-> {}]
    /\ resume = [r \in Resources |-> [i \in Infrastructure |-> "none"]]
    /\ faults = 0

Fault == faults < MaxFaults /\ faults' = faults + 1
NoFault == UNCHANGED faults

WithStatus(c, s) == [status EXCEPT ![c] = s]

\* Every save writes the modified paths of its document only: completing service
\* i writes services.<i>.completed, whatever else the document shows.
WithCompleted(c, i) == [completed EXCEPT ![c] = @ \cup {i}]

Permitted(r, i) == [permitted EXCEPT ![r] = @ \cup {i}]
SetNode(r, i, h) == node' = [node EXCEPT ![r][i] = h]
Goto(h, pc) == [h EXCEPT !.pc = pc]
Marked(h) == [h EXCEPT !.marked = TRUE]

-----------------------------------------------------------------------------
(* The trigger: one more record at each infrastructure connector, then the
   export.  What it polls and answers afterwards is in DataExchange. *)

\* Variant: a copy that could not be made does not stop the exchange.
SyncLoose ==
    /\ trig = "sync"
    /\ \E i \in Infrastructure :
          /\ status[i] = "absent"
          /\ \A j \in Infrastructure : j < i => status[j] # "absent"
          /\ \/ NoFault /\ status' = WithStatus(i, "PENDING")
             \/ Fault /\ UNCHANGED status
          /\ trig' = IF i = NServices - 1 THEN "export" ELSE "sync"
    /\ UNCHANGED <<origin, completed, exp, started, node, fin, permitted, resume>>

\* syncWithInfrastructure, service after service.
SyncWithInfrastructure ==
    /\ trig = "sync"
    /\ \E i \in Infrastructure :
          /\ status[i] = "absent"
          /\ \A j \in Infrastructure : j < i => status[j] # "absent"
          /\ \/ /\ NoFault
                /\ status' = WithStatus(i, "PENDING")
                /\ trig' = IF i = NServices - 1 THEN "export" ELSE "sync"
             \/ /\ Fault
                /\ status' \in {status, WithStatus(i, "PENDING")}
                /\ trig' = "over"
    /\ UNCHANGED <<origin, completed, exp, started, node, fin, permitted, resume>>

\* The provider exports in process; the consumer posts provider/export.
TriggerExport ==
    /\ trig = "export"
    /\ trig' = "over"
    /\ \/ NoFault /\ exp' = [exp EXCEPT !.pc = "pep", !.clean = status[Provider]]
       \/ origin = Consumer /\ Fault /\ UNCHANGED exp
    /\ UNCHANGED <<origin, status, completed, started, node, fin, permitted, resume>>

-----------------------------------------------------------------------------
(* The export handler, at the provider *)

ExportUpdate(want, next) == [exp EXCEPT !.pc = "put", !.want = want, !.next = next]
ExportCaught == [ExportUpdate("PROVIDER_EXPORT_ERROR", "done") EXCEPT !.caught = TRUE]

ExportPep ==
    /\ exp.pc = "pep"
    /\ exp' \in {[exp EXCEPT !.pc = "fetch"], ExportUpdate("PEP_ERROR", "done"), ExportCaught}
    /\ UNCHANGED <<origin, trig, status, completed, started, node, fin, permitted, resume, faults>>

\* One resource is read, and the participants of its chain are looked up; or
\* its SQL query fails; or any other exception.
ExportFetch ==
    /\ exp.pc = "fetch"
    /\ exp' \in {[exp EXCEPT !.pc = "tell"],
                 ExportUpdate("PROVIDER_EXPORT_ERROR", "catch"), ExportCaught}
    /\ UNCHANGED <<origin, trig, status, completed, started, node, fin, permitted, resume, faults>>

\* completeServiceChain of the first service: the provider's record holds the
\* consumer's endpoint and id, and not its own.  The flag is set in the document
\* in memory first, so a later save of that document writes it.
ExportTell ==
    /\ exp.pc = "tell"
    /\ \/ /\ NoFault
          /\ completed' = WithCompleted(Consumer, Provider)
          /\ exp' = [exp EXCEPT !.pc = "own", !.marked = TRUE]
       \/ /\ Fault
          /\ completed' \in {completed, WithCompleted(Consumer, Provider)}
          /\ exp' = [ExportCaught EXCEPT !.marked = TRUE]
    /\ UNCHANGED <<origin, trig, status, started, node, fin, permitted, resume>>

ExportOwn ==
    /\ exp.pc = "own"
    /\ completed' = WithCompleted(Provider, Provider)
    /\ exp' = [exp EXCEPT !.pc = "deploy"]
    /\ UNCHANGED <<origin, trig, status, started, node, fin, permitted, resume, faults>>

\* createAndStartChain swallows its errors: the chain starts, or it does not.
ExportDeploy ==
    /\ exp.pc = "deploy"
    /\ started' \in {started, started \cup {exp.r}}
    /\ exp' = IF exp.r = NResources THEN [exp EXCEPT !.pc = "done"]
              ELSE [exp EXCEPT !.pc = "fetch", !.r = @ + 1]
    /\ UNCHANGED <<origin, trig, status, completed, node, fin, permitted, resume, faults>>

\* updateStatus of the provider's record: PUT to the consumer, then save.
ExportPut ==
    /\ exp.pc = "put"
    /\ \/ /\ NoFault
          /\ status' = WithStatus(Consumer, exp.want)
          /\ exp' = [exp EXCEPT !.pc = "save"]
       \/ /\ Fault
          /\ status' \in {status, WithStatus(Consumer, exp.want)}
          /\ exp' = IF exp.caught THEN [exp EXCEPT !.pc = "threw"] ELSE ExportCaught
    /\ UNCHANGED <<origin, trig, completed, started, node, fin, permitted, resume>>

ExportSave ==
    /\ exp.pc = "save"
    /\ LET saved == [exp EXCEPT !.clean = exp.want] IN
       /\ status' = IF exp.want = exp.clean THEN status ELSE WithStatus(Provider, exp.want)
       /\ completed' = IF exp.marked THEN WithCompleted(Provider, Provider) ELSE completed
       /\ exp' = IF exp.next = "done" THEN [saved EXCEPT !.pc = "done"]
                 ELSE [saved EXCEPT !.pc = "put", !.want = "PROVIDER_EXPORT_ERROR",
                                    !.next = "done", !.caught = TRUE]
    /\ UNCHANGED <<origin, trig, started, node, fin, permitted, resume, faults>>

ExportStep ==
    \/ ExportPep \/ ExportFetch \/ ExportTell \/ ExportOwn \/ ExportDeploy
    \/ ExportPut \/ ExportSave

-----------------------------------------------------------------------------
(* A node of the chain: nodeCallbackService at connector i *)

\* The records that the record of connector i names: the copy made for an
\* infrastructure connector lacks the consumer's endpoint if the consumer made
\* it; the consumer's record names the provider only.
TellsConsumer(i) == i \in Infrastructure /\ origin = Provider

\* updateStatus addresses the consumer's id at the first endpoint it finds: at
\* an infrastructure connector without the consumer's endpoint, the provider's,
\* where no record has that id.
Misaddressed(i) == i \in Infrastructure /\ origin = Consumer
ErrorPeer(i) == IF i = Consumer THEN Provider ELSE Consumer

Tell(i) == IF TellsConsumer(i) THEN "tellConsumer" ELSE "tellProvider"

\* The catch block of the callback.
Failed(h) == [h EXCEPT !.pc = "put", !.want = "NODE_CALLBACK_ERROR", !.caught = TRUE]

\* Variant: a node starts with its run, whatever the application before it did.
NodeStartEarly(r, i) ==
    /\ node[r][i].pc = "idle" /\ r \in started
    /\ SetNode(r, i, [node[r][i] EXCEPT !.pc = "check", !.clean = status[i]])
    /\ UNCHANGED <<origin, trig, status, completed, exp, started, fin, permitted, resume, faults>>

\* The run reaches connector i: the first node gets the provider's data; a later
\* one starts when the application before it has resumed the chain, which it
\* can do as soon as it has its data; the adapter does it after a fixed delay,
\* and after a GET that it does not await, with the promise for its data.
NodeStart(r, i) ==
    /\ node[r][i].pc = "idle"
    /\ IF i = 2 THEN r \in started ELSE resume[r][i - 1] # "none"
    /\ SetNode(r, i, [node[r][i] EXCEPT !.pc = "check", !.clean = status[i]])
    /\ UNCHANGED <<origin, trig, status, completed, exp, started, fin, permitted, resume, faults>>

\* Variant: a refused service runs like a permitted one.
NodeCheckLoose(r, i) ==
    /\ node[r][i].pc = "check"
    /\ permitted' \in {permitted, Permitted(r, i)}
    /\ SetNode(r, i, Goto(node[r][i], "app"))
    /\ UNCHANGED <<origin, trig, status, completed, exp, started, fin, resume, faults>>

\* The PEP, or the chain in the contract, permits the service or refuses it; or
\* the contract, the consent or the catalogue cannot be read.
NodeCheck(r, i) ==
    /\ node[r][i].pc = "check"
    /\ LET h == node[r][i] IN
       \/ SetNode(r, i, Goto(h, "app")) /\ permitted' = Permitted(r, i)
       \/ /\ SetNode(r, i, [h EXCEPT !.pc = "put", !.want = "PEP_ERROR"])
          /\ UNCHANGED permitted
       \/ SetNode(r, i, Failed(h)) /\ UNCHANGED permitted
    /\ UNCHANGED <<origin, trig, status, completed, exp, started, fin, resume, faults>>

\* The adapter awaits what it posts, and not what it gets: the timer then resumes
\* the chain with the promise.
ResumedWith(i) == IF i \in AdapterGets THEN "promise" ELSE "data"

\* An application takes the data and lets the chain be resumed with its own, or the
\* adapter sends it a GET and resumes the chain without awaiting the answer; or no
\* application is reached: the offer has no resource, its representation no url or
\* no known method, or `handle` swallows the error.  Of all this the callback sees
\* nothing: it goes on, unless an exception stops it.
NodeApp(r, i) ==
    /\ node[r][i].pc = "app"
    /\ \/ UNCHANGED resume
       \/ i # Consumer /\ resume' = [resume EXCEPT ![r][i] = ResumedWith(i)]
    /\ \E h \in {Goto(node[r][i], Tell(i)), Failed(node[r][i])} : SetNode(r, i, h)
    /\ UNCHANGED <<origin, trig, status, completed, exp, started, fin, permitted, faults>>

\* Variant: the service is marked as completed only where it ran.
NodeTellOwnFirst(r, i, peer, next) ==
    /\ \/ NoFault /\ completed' = WithCompleted(i, i)
          /\ SetNode(r, i, Goto(Marked(node[r][i]), next))
       \/ Fault /\ completed' \in {completed, WithCompleted(i, i)}
          /\ SetNode(r, i, Failed(Marked(node[r][i])))
    /\ UNCHANGED <<origin, trig, status, exp, started, fin, permitted, resume>>

\* PUT servicechains/i at `peer`, when i is not the last service.
NodeTell(r, i, peer, next) ==
    /\ \/ NoFault /\ completed' = WithCompleted(peer, i)
          /\ SetNode(r, i, Goto(Marked(node[r][i]), next))
       \/ Fault /\ completed' \in {completed, WithCompleted(peer, i)}
          /\ SetNode(r, i, Failed(Marked(node[r][i])))
    /\ UNCHANGED <<origin, trig, status, exp, started, fin, permitted, resume>>

NodeTellConsumer(r, i) ==
    /\ node[r][i].pc = "tellConsumer"
    /\ NodeTell(r, i, Consumer, "tellProvider")

NodeTellProvider(r, i) ==
    /\ node[r][i].pc = "tellProvider" /\ i # Consumer
    /\ NodeTell(r, i, Provider, "own")

\* The consumer completes the last service: the provider loads its record ...
NodeFinish(r) ==
    /\ node[r][Consumer].pc = "tellProvider"
    /\ \/ /\ NoFault
          /\ SetNode(r, Consumer, Goto(Marked(node[r][Consumer]), "wait"))
          /\ fin' = [fin EXCEPT ![r] = [pc |-> "put", clean |-> status[Provider]]]
       \/ /\ Fault
          /\ SetNode(r, Consumer, Failed(Marked(node[r][Consumer])))
          /\ UNCHANGED fin
    /\ UNCHANGED <<origin, trig, status, completed, exp, started, permitted, resume>>

\* Variant: the provider does not wait for the consumer to hear of the success.
FinishPutLoose(r) ==
    /\ fin[r].pc = "put"
    /\ fin' = [fin EXCEPT ![r].pc = "save"]
    /\ \/ NoFault /\ status' = WithStatus(Consumer, "IMPORT_SUCCESS")
       \/ Fault /\ status' \in {status, WithStatus(Consumer, "IMPORT_SUCCESS")}
    /\ UNCHANGED <<origin, trig, completed, exp, started, node, permitted, resume>>

\* ... tells the consumer that the import is a success ...
FinishPut(r) ==
    /\ fin[r].pc = "put"
    /\ \/ /\ NoFault
          /\ status' = WithStatus(Consumer, "IMPORT_SUCCESS")
          /\ fin' = [fin EXCEPT ![r].pc = "save"]
       \/ /\ Fault
          /\ status' \in {status, WithStatus(Consumer, "IMPORT_SUCCESS")}
          /\ fin' = [fin EXCEPT ![r].pc = "fail"]
    /\ UNCHANGED <<origin, trig, completed, exp, started, node, permitted, resume>>

\* Variant: the handler saves the document as it was loaded.
FinishSaveStale(r) ==
    /\ fin[r].pc = "save"
    /\ status' = WithStatus(Provider, fin[r].clean)
    /\ completed' = WithCompleted(Provider, Consumer)
    /\ fin' = [fin EXCEPT ![r].pc = "ok"]
    /\ UNCHANGED <<origin, trig, exp, started, node, permitted, resume, faults>>

\* ... and saves the status and the completed service.
FinishSave(r) ==
    /\ fin[r].pc = "save"
    /\ status' = IF fin[r].clean = "IMPORT_SUCCESS" THEN status
                 ELSE WithStatus(Provider, "IMPORT_SUCCESS")
    /\ completed' = WithCompleted(Provider, Consumer)
    /\ fin' = [fin EXCEPT ![r].pc = "ok"]
    /\ UNCHANGED <<origin, trig, exp, started, node, permitted, resume, faults>>

\* The consumer's callback gets the answer, or an error.
NodeFinished(r) ==
    /\ node[r][Consumer].pc = "wait"
    /\ LET h == node[r][Consumer] IN
       \/ fin[r].pc = "ok" /\ NoFault /\ SetNode(r, Consumer, Goto(h, "own"))
       \/ fin[r].pc \in {"fail", "dead"} /\ NoFault /\ SetNode(r, Consumer, Failed(h))
       \/ Fault /\ SetNode(r, Consumer, Failed(h))
    /\ UNCHANGED <<origin, trig, status, completed, exp, started, fin, permitted, resume>>

\* The own record last.
NodeOwn(r, i) ==
    /\ node[r][i].pc = "own"
    /\ completed' = WithCompleted(i, i)
    /\ SetNode(r, i, Goto(node[r][i], "done"))
    /\ UNCHANGED <<origin, trig, status, exp, started, fin, permitted, resume, faults>>

\* updateStatus of the callback.  Its exception is caught once.
NodePut(r, i) ==
    /\ node[r][i].pc = "put"
    /\ LET h == node[r][i]
           error == IF h.caught THEN Goto(h, "threw") ELSE Failed(h)
           written == WithStatus(ErrorPeer(i), h.want) IN
       \/ /\ Misaddressed(i) /\ NoFault
          /\ SetNode(r, i, error)
          /\ UNCHANGED status
       \/ /\ ~Misaddressed(i) /\ NoFault
          /\ SetNode(r, i, Goto(h, "save"))
          /\ status' = written
       \/ /\ ~Misaddressed(i) /\ Fault
          /\ SetNode(r, i, error)
          /\ status' \in {status, written}
    /\ UNCHANGED <<origin, trig, completed, exp, started, fin, permitted, resume>>

NodeSave(r, i) ==
    /\ node[r][i].pc = "save"
    /\ LET h == node[r][i] IN
       /\ status' = IF h.want = h.clean THEN status ELSE WithStatus(i, h.want)
       /\ completed' = IF h.marked THEN WithCompleted(i, i) ELSE completed
       /\ SetNode(r, i, Goto(h, IF h.caught THEN "failed" ELSE "refused"))
    /\ UNCHANGED <<origin, trig, exp, started, fin, permitted, resume, faults>>

NodeStep(r, i) ==
    \/ NodeStart(r, i) \/ NodeCheck(r, i) \/ NodeApp(r, i)
    \/ NodeTellConsumer(r, i) \/ NodeTellProvider(r, i)
    \/ NodeOwn(r, i) \/ NodePut(r, i) \/ NodeSave(r, i)
FinishStep(r) == NodeFinish(r) \/ FinishPut(r) \/ FinishSave(r) \/ NodeFinished(r)

\* Connector c dies: its handlers vanish, and so do the nodes set up there; a
\* resumption may already be under way.  So a GET of the adapter that is rejected,
\* which ends the process, is a crash too.
Crash(c) ==
    /\ Fault
    /\ trig' = IF origin = c THEN "over" ELSE trig
    /\ exp' = IF c = Provider /\ exp.pc \notin ExportEnds \cup {"idle"}
              THEN [exp EXCEPT !.pc = "dead"] ELSE exp
    /\ node' = [r \in Resources |-> [i \in Nodes |->
                  IF i = c /\ r \in started /\ node[r][i].pc \notin NodeEnds
                  THEN Goto(node[r][i], "dead") ELSE node[r][i]]]
    /\ fin' = [r \in Resources |->
                  IF c = Provider /\ fin[r].pc \in {"put", "save"}
                  THEN [fin[r] EXCEPT !.pc = "dead"] ELSE fin[r]]
    /\ UNCHANGED <<origin, status, completed, started, permitted, resume>>

Next ==
    \/ SyncWithInfrastructure \/ TriggerExport
    \/ ExportStep
    \/ \E r \in Resources : FinishStep(r) \/ \E i \in Nodes : NodeStep(r, i)
    \/ \E c \in Services : Crash(c)

Spec == Init /\ [][Next]_vars

-----------------------------------------------------------------------------
(* Properties *)

\* No connector records a success unless, for some resource, the checks of every
\* connector of the chain let the data in: one refusal anywhere, by the policies
\* or by the consent, and that run ends there.
SuccessWasPermitted ==
    (\E c \in Services : status[c] = "IMPORT_SUCCESS")
        => \E r \in Resources : permitted[r] = Nodes

\* A node of the chain never runs at a connector that has no record of the
\* exchange: its callback would find none, and record no error.
NodesFindTheirRecord ==
    \A r \in Resources, i \in Nodes : node[r][i].pc # "idle" => status[i] # "absent"

\* A service that any record shows as completed was permitted in some run, and so
\* was every service before it in that run: the next connector is never reached
\* past one that refused, however the chain was resumed.
CompletedWerePermitted ==
    \A c \in Services : \A i \in completed[c] \ {Provider} :
        \E r \in Resources : \A j \in Nodes : j <= i => j \in permitted[r]

\* A connector that shows its own service as completed has told the provider
\* (the provider, for the first service, the consumer), whatever call was lost
\* and whoever crashed, or its record has left PENDING: an error saved after a
\* call that failed writes the mark of the document in memory too.
OthersToldFirst ==
    /\ \A i \in Nodes : i \in completed[i] =>
           i \in completed[Provider] \/ status[i] # "PENDING"
    /\ Provider \in completed[Provider] =>
           Provider \in completed[Consumer] \/ status[Provider] # "PENDING"

\* The provider records the success of the chain only with its last service
\* completed and after the consumer's record left PENDING.
ProviderSuccessIsComplete ==
    status[Provider] = "IMPORT_SUCCESS" =>
        Consumer \in completed[Provider] /\ status[Consumer] # "PENDING"

\* Without faults, errors and refusals, the two sides end with the same status.
AllEnded ==
    /\ exp.pc = "done"
    /\ \A r \in Resources :
          /\ fin[r].pc \in FinishEnds \cup {"idle"}
          /\ \A i \in Nodes : node[r][i].pc \in {"idle", "done"}
SmoothAgreement ==
    faults = 0 /\ ~exp.caught /\ AllEnded => status[Provider] = status[Consumer]

\* What the records and the checks of the chain show behaves as
\* ChainOutcome says, whatever calls are lost and whoever crashes.
Outcome == INSTANCE ChainOutcome WITH record <- status, marked <- completed, runs <- started

ImplementsOutcome == Outcome!Spec

\* docs/sandbox/provider-consumer-project.md: the exchange is synchronized on
\* every connector, its status goes to IMPORT_SUCCESS and its data processing to
\* completed: true.  So it is once every node of a run without faults is done.
EveryConnectorCompletes ==
    faults = 0 /\ AllEnded /\ (\A r \in Resources, i \in Nodes : node[r][i].pc = "done")
        => \A c \in Services : status[c] = "IMPORT_SUCCESS" /\ completed[c] = Services

\* docs/SERVICE_CHAINS.md: the adapter lets the service chain work synchronously,
\* and resumes it with the data of the resource: a node runs only after the
\* application before it has answered.
ResumedWithData ==
    \A r \in Resources, i \in Nodes \ {2} : node[r][i].pc # "idle" => resume[r][i - 1] = "data"
=============================================================================
