------------------------- MODULE DataExchangeProofs -------------------------
(***************************************************************************)
(* Safety of DataExchange for every number of exchanges, resources,        *)
(* purposes and faults, from the inductive invariant IInv.                 *)
(***************************************************************************)
EXTENDS DataExchange, TLAPS

-----------------------------------------------------------------------------
(* The inductive invariant *)

\* How far the records of exchange x are, from how far its handlers are.
Progress(x) ==
    LET own == origin[x]
        peer == Peer(origin[x]) IN
    /\ trig[x] = "idle" => status[x][own] = "absent"
    /\ trig[x] = "post" \/ cre[x] # "idle" => status[x][own] # "absent"
    /\ trig[x] \in {"idle", "post"} => cre[x] = "idle"
    /\ trig[x] \in {"idle", "post", "creating", "export"} => exp[x].pc = "idle"
    /\ cre[x] \in {"idle", "create"} => status[x][peer] = "absent"
    /\ cre[x] \in {"sync", "ok"} => linked[x][peer] /\ status[x][peer] # "absent"
    /\ cre[x] = "ok" => linked[x][own]
    /\ trig[x] = "export" \/ exp[x].pc # "idle" => cre[x] = "ok"
    /\ (\E s \in Sides : linked[x][s]) => \A s \in Sides : status[x][s] # "absent"

RecordsFollowHandlers == \A x \in Exchanges : Progress(x)

\* What an export handler knows of the policy where it stands.
PermissionFollowsExport ==
    \A x \in Exchanges :
        /\ exp[x].pc \in {"idle", "find", "pep"} => ~exp[x].pep
        /\ exp[x].pc \in {"fetch", "send", "await", "count"} => exp[x].pep
        /\ exp[x].pc \in {"put", "save"} /\ exp[x].want = "PEP_ERROR" => ~exp[x].pep
        /\ \A r \in Resources : imp[x][r].pc # "idle" => exp[x].pc # "idle" /\ exp[x].pep

\* What an outcome in a record says of the handlers.
OutcomesHaveAuthors ==
    \A x \in Exchanges, s \in Sides :
        /\ status[x][s] = "IMPORT_SUCCESS" => \E r \in Resources : imp[x][r].pc # "idle"
        /\ status[x][s] = "PEP_ERROR" =>
              /\ ~exp[x].pep
              /\ exp[x].pc \notin {"idle", "find", "pep", "fetch", "send", "await", "count"}

\* A handler about to save has told the peer.
SaversHaveTold ==
    \A x \in Exchanges :
        /\ exp[x].pc = "save" => Decided(x, "consumer")
        /\ \A r \in Resources :
              imp[x][r].pc = "save" =>
                  Decided(imp[x][r].doc, Peer(DocSide(x, imp[x][r])))

\* Resources are sent in order: from the current one on, or after it, nothing
\* has been sent.
Sending == {"idle", "find", "pep", "fetch", "send"}
SentInOrder ==
    \A x \in Exchanges, r \in Resources :
        r > exp[x].r \/ (r = exp[x].r /\ exp[x].pc \in Sending) => imp[x][r].pc = "idle"

\* The import handler h of x holds the record of another exchange only to write
\* its own error there, at the provider, and to end.
Misled(x, h) ==
    h.doc # x =>
        /\ linked[h.doc]["provider"]
        /\ h.want = "CONSUMER_IMPORT_ERROR" /\ h.next = "fail" /\ h.caught
        /\ h.pc \in {"put", "save", "fail", "dead"}
        /\ h.clean \in Outcomes => Decided(h.doc, "provider")

DocsOf == \A x \in Exchanges, r \in Resources : Misled(x, imp[x][r])

IInv ==
    /\ TypeOK
    /\ RecordsFollowHandlers
    /\ PermissionFollowsExport
    /\ OutcomesHaveAuthors
    /\ SaversHaveTold
    /\ SentInOrder
    /\ DocsOf
    /\ PeerToldFirst
    /\ SuccessAnswerIsGrounded

\* The updates of a handler record stay in its type.
LEMMA ExportUpdates ==
    ASSUME NEW h \in ExportHandler
    PROVE  /\ \A w \in ProviderOutcomes, n \in {"done", "catch"} :
                 Update(h, w, n) \in ExportHandler
           /\ NextResource(h) \in ExportHandler
           /\ NextResource(h).pc \in {"done", "fetch"}
           /\ NextResource(h).pep = h.pep
           /\ NextResource(h).r \in Resources
           /\ \/ NextResource(h).pc = "done" /\ NextResource(h).r = h.r
              \/ NextResource(h).pc = "fetch" /\ NextResource(h).r = h.r + 1
<1>1. \A w \in ProviderOutcomes, n \in {"done", "catch"} :
          Update(h, w, n) \in ExportHandler
  BY DEF Update, ExportStates, ExportHandler
<1>2. NextResource(h) \in ExportHandler
  <2>1. h.r \in 1..NResources /\ (h.r # NResources => h.r + 1 \in 1..NResources)
    BY ArraysAssumption DEF ExportHandler, ExportStates, Resources
  <2>2. QED
    BY <2>1 DEF NextResource, ExportHandler, ExportStates, Resources, ExportEnds
<1>3. /\ NextResource(h).pep = h.pep
      /\ \/ NextResource(h).pc = "done" /\ NextResource(h).r = h.r
         \/ NextResource(h).pc = "fetch" /\ NextResource(h).r = h.r + 1
  BY DEF NextResource, ExportHandler
<1>4. QED
  BY <1>1, <1>2, <1>3 DEF ExportHandler

\* What the helpers of the import handlers return.
LEMMA ImportUpdates ==
    ASSUME NEW h \in ImportHandler
    PROVE  /\ \A w \in ConsumerOutcomes, n \in {"api", "more", "catch", "fail"} :
                 Update(h, w, n) \in ImportHandler
           /\ NextPurpose(h) \in ImportHandler
           /\ NextPurpose(h).pc \in {"ok", "purpose"}
<1>1. \A w \in ConsumerOutcomes, n \in {"api", "more", "catch", "fail"} :
          Update(h, w, n) \in ImportHandler
  BY DEF Update, ImportStates, ImportHandler
<1>2. NextPurpose(h) \in ImportHandler
  <2>1. h.p \in 1..NPurposes /\ (h.p # NPurposes => h.p + 1 \in 1..NPurposes)
    BY ArraysAssumption DEF ImportHandler, Purposes
  <2>2. QED
    BY <2>1 DEF NextPurpose, ImportHandler, ImportStates, Purposes, ImportEnds
<1>3. QED
  BY <1>1, <1>2 DEF NextPurpose, ImportHandler

\* The death of a connector leaves every handler of a type.
LEMMA DeadAtType ==
    ASSUME TypeOK, NEW c \in Connectors, DeadAt(c)
    PROVE  /\ trig' \in [Exchanges -> TriggerStates]
           /\ cre' \in [Exchanges -> CreateStates]
           /\ exp' \in [Exchanges -> ExportHandler]
           /\ imp' \in [Exchanges -> [Resources -> ImportHandler]]
<1>1. trig' \in [Exchanges -> TriggerStates]
  BY DEF TypeOK, DeadAt, TriggerStates, TriggerEnds
<1>2. cre' \in [Exchanges -> CreateStates]
  BY DEF TypeOK, DeadAt, CreateStates
<1>3. exp' \in [Exchanges -> ExportHandler]
  <2>1. \A h \in ExportHandler : [h EXCEPT !.pc = "dead"] \in ExportHandler
    BY DEF ExportHandler, ExportStates, ExportEnds
  <2>2. QED
    BY <2>1 DEF TypeOK, DeadAt
<1>4. imp' \in [Exchanges -> [Resources -> ImportHandler]]
  <2>1. \A h \in ImportHandler : [h EXCEPT !.pc = "dead"] \in ImportHandler
    BY DEF ImportHandler, ImportStates, ImportEnds
  <2>2. QED
    BY <2>1 DEF TypeOK, DeadAt
<1>5. QED
  BY <1>1, <1>2, <1>3, <1>4

\* A fresh import handler, idle or just called, has the handler type.
LEMMA IdleImportType ==
    ASSUME NEW x \in Exchanges
    PROVE  /\ IdleImport(x) \in ImportHandler
           /\ \A pc \in {"verify", "find"}, b \in BOOLEAN :
                 [IdleImport(x) EXCEPT !.pc = pc, !.binary = b] \in ImportHandler
<1>1. IdleImport(x) \in ImportHandler
  BY ArraysAssumption DEF IdleImport, ImportHandler, ImportStates, Purposes, ConsumerOutcomes, Statuses
<1>2. \A h \in ImportHandler, pc \in {"verify", "find"}, b \in BOOLEAN :
          [h EXCEPT !.pc = pc, !.binary = b] \in ImportHandler
  BY DEF ImportHandler, ImportStates
<1>3. QED
  BY <1>1, <1>2

\* The connectors start well typed.
LEMMA InitType == Init => TypeOK
<1> SUFFICES ASSUME Init PROVE TypeOK
  OBVIOUS
<1>1. IdleExport \in ExportHandler
  BY ArraysAssumption DEF IdleExport, ExportHandler, ExportStates, Resources, ProviderOutcomes, Statuses
<1>2. \A x \in Exchanges : IdleImport(x) \in ImportHandler
  BY IdleImportType
<1>3. QED
  BY <1>1, <1>2 DEF Init, TypeOK, Statuses, TriggerStates, CreateStates

-----------------------------------------------------------------------------
(* Type correctness *)

\* The fault counter stays a natural number.
LEMMA FaultType ==
    ASSUME TypeOK, NoFault \/ Fault
    PROVE  faults' \in Nat
  BY DEF TypeOK, NoFault, Fault

\* Saving a status keeps the records typed.
LEMMA StatusType ==
    ASSUME TypeOK, NEW x \in Exchanges, NEW s \in Sides, NEW w \in Statuses
    PROVE  WithStatus(x, s, w) \in [Exchanges -> [Sides -> Statuses]]
  BY DEF TypeOK, WithStatus

\* Saving the peer's _id keeps the links typed.
LEMMA LinkedType ==
    ASSUME TypeOK, NEW x \in Exchanges, NEW s \in Sides
    PROVE  WithPeer(x, s) \in [Exchanges -> [Sides -> BOOLEAN]]
  BY DEF TypeOK, WithPeer

\* Replacing an export handler by one of the type keeps the type.
LEMMA SetExpType ==
    ASSUME TypeOK, NEW x \in Exchanges, NEW g \in ExportHandler, SetExp(x, g)
    PROVE  exp' \in [Exchanges -> ExportHandler]
  BY DEF TypeOK, SetExp

\* Replacing an import handler by one of the type keeps the type.
LEMMA SetImpType ==
    ASSUME TypeOK, NEW x \in Exchanges, NEW r \in Resources,
           NEW g \in ImportHandler, SetImp(x, r, g)
    PROVE  imp' \in [Exchanges -> [Resources -> ImportHandler]]
  BY DEF TypeOK, SetImp

\* Giving a resource to an application keeps the stored data typed.
LEMMA GivenType ==
    ASSUME TypeOK, NEW x \in Exchanges, NEW r \in Resources, NEW p \in Purposes
    PROVE  Given(x, r, p) \in [Exchanges -> [Resources -> SUBSET Purposes]]
  BY DEF TypeOK, Given

\* An increment of the usage counter keeps the counters typed.
LEMMA CountType ==
    ASSUME TypeOK, NEW x \in Exchanges
    PROVE  [count EXCEPT ![x] = @ + 1] \in [Exchanges -> Nat]
  BY DEF TypeOK

\* The type of one handler and of one record.
LEMMA HandlerTypes ==
    ASSUME TypeOK, NEW x \in Exchanges
    PROVE  /\ exp[x] \in ExportHandler
           /\ \A r \in Resources : imp[x][r] \in ImportHandler
           /\ \A s \in Sides : status[x][s] \in Statuses
  BY DEF TypeOK

\* The connectors at the two sides of an exchange.
LEMMA SiteType ==
    ASSUME NEW x \in Exchanges
    PROVE  Site[x]["consumer"] \in Connectors /\ Site[x]["provider"] \in Connectors
  BY SiteAssumption

\* The record an import handler holds is one of the two of an exchange.
LEMMA DocType ==
    ASSUME TypeOK, NEW x \in Exchanges, NEW r \in Resources
    PROVE  /\ imp[x][r].doc \in Exchanges
           /\ DocSide(x, imp[x][r]) \in Sides /\ Peer(DocSide(x, imp[x][r])) \in Sides
           /\ Peer(DocSide(x, imp[x][r])) # DocSide(x, imp[x][r])
  BY DEF TypeOK, ImportHandler, DocSide, Sides, Peer

\* The two sides of an exchange are its origin and its peer.
LEMMA SidesType ==
    ASSUME TypeOK, NEW x \in Exchanges
    PROVE  /\ origin[x] \in Sides /\ Peer(origin[x]) \in Sides
           /\ Peer(origin[x]) # origin[x]
           /\ Sides = {origin[x], Peer(origin[x])}
  BY DEF TypeOK, Sides, Peer

\* The export call starts a handler of the type.
LEMMA TriggerExportType ==
    ASSUME TypeOK, NEW x \in Exchanges, SetExp(x, [exp[x] EXCEPT !.pc = "find"])
    PROVE  exp' \in [Exchanges -> ExportHandler]
<1>1. \E g \in ExportHandler : SetExp(x, g)
  BY HandlerTypes DEF ExportHandler, ExportStates
<1>2. QED
  BY <1>1, SetExpType

\* Posting a resource starts an import handler of the type.
LEMMA ExportSendType ==
    ASSUME TypeOK, NEW x \in Exchanges, ExportSend(x)
    PROVE  imp' \in [Exchanges -> [Resources -> ImportHandler]]
<1>1. CASE UNCHANGED imp
  BY <1>1 DEF TypeOK
<1>2. CASE imp' # imp
  <2>1. exp[x].r \in Resources /\ exp[x].binary \in BOOLEAN
    BY HandlerTypes DEF ExportHandler
  <2>2. \E g \in ImportHandler : SetImp(x, exp[x].r, g)
    BY <1>2, <2>1, IdleImportType DEF ExportSend
  <2>3. QED
    BY <2>1, <2>2, SetImpType
<1>3. QED
  BY <1>1, <1>2

\* A save resumes the import handler in a state of the type.
LEMMA ImportSaveType ==
    ASSUME TypeOK, NEW x \in Exchanges, NEW r \in Resources, ImportSave(x, r)
    PROVE  imp' \in [Exchanges -> [Resources -> ImportHandler]]
<1> DEFINE h == [imp[x][r] EXCEPT !.clean = imp[x][r].want]
<1>1. h \in ImportHandler
  BY HandlerTypes DEF ImportHandler, Statuses, Outcomes
<1>2. NextPurpose(h) \in ImportHandler
  BY <1>1, ImportUpdates
<1>3. h.next # "more" => [h EXCEPT !.pc = h.next] \in ImportHandler
  BY <1>1 DEF ImportHandler, ImportStates, ImportEnds
<1>4. SetImp(x, r, IF h.next = "more" THEN NextPurpose(h) ELSE [h EXCEPT !.pc = h.next])
  BY DEF ImportSave
<1> HIDE DEF h
<1>5. QED
  BY <1>2, <1>3, <1>4, SetImpType

\* The PUT of an import handler, its failure and the death it may cause are typed.
LEMMA ImportPutType ==
    ASSUME TypeOK, NEW x \in Exchanges, NEW r \in Resources, ImportPut(x, r)
    PROVE  imp' \in [Exchanges -> [Resources -> ImportHandler]]
<1>1. CASE DeadAt(Site[x]["consumer"])
  BY <1>1, DeadAtType, SiteType
<1>2. CASE ~DeadAt(Site[x]["consumer"])
  <2>1. \E g \in ImportHandler : SetImp(x, r, g)
    BY <1>2, HandlerTypes DEF ImportPut, ImportHandler, ImportStates
  <2>2. QED
    BY <2>1, SetImpType
<1>3. QED
  BY <1>1, <1>2

\* The steps of the trigger handler keep the types.
LEMMA TriggerType ==
    ASSUME TypeOK, NEW x \in Exchanges, TriggerStep(x)
    PROVE  TypeOK'
<1>1. CASE TriggerStart(x)
  <2>1. trig' \in [Exchanges -> TriggerStates]
    BY <1>1 DEF TriggerStart, TypeOK, SetTrig, TriggerStates, TriggerEnds
  <2>2. status' \in [Exchanges -> [Sides -> Statuses]]
    BY <1>1, StatusType, SidesType DEF TriggerStart, TypeOK, Statuses
  <2>3. QED
    BY <1>1, <2>1, <2>2 DEF TriggerStart, TypeOK
<1>2. CASE TriggerPost(x)
  <2>1. trig' \in [Exchanges -> TriggerStates]
    BY <1>2 DEF TriggerPost, TypeOK, SetTrig, TriggerStates, TriggerEnds
  <2>2. cre' \in [Exchanges -> CreateStates]
    BY <1>2 DEF TriggerPost, TypeOK, SetCre, CreateStates
  <2>3. faults' \in Nat
    BY <1>2, FaultType DEF TriggerPost, TypeOK
  <2>4. QED
    BY <1>2, <2>1, <2>2, <2>3 DEF TriggerPost, TypeOK
<1>3. CASE TriggerCreated(x)
  <2>1. trig' \in [Exchanges -> TriggerStates]
    BY <1>3 DEF TriggerCreated, TypeOK, SetTrig, TriggerStates, TriggerEnds
  <2>2. linked' \in [Exchanges -> [Sides -> BOOLEAN]]
    BY <1>3, LinkedType, SidesType DEF TriggerCreated, TypeOK
  <2>3. faults' \in Nat
    BY <1>3, FaultType DEF TriggerCreated, TypeOK
  <2>4. QED
    BY <1>3, <2>1, <2>2, <2>3 DEF TriggerCreated, TypeOK
<1>4. CASE TriggerExport(x)
  <2>1. trig' \in [Exchanges -> TriggerStates]
    BY <1>4 DEF TriggerExport, TypeOK, SetTrig, TriggerStates, TriggerEnds
  <2>2. exp' \in [Exchanges -> ExportHandler]
    BY <1>4, TriggerExportType DEF TriggerExport, TypeOK
  <2>3. faults' \in Nat
    BY <1>4, FaultType DEF TriggerExport, TypeOK
  <2>4. QED
    BY <1>4, <2>1, <2>2, <2>3 DEF TriggerExport, TypeOK
<1>5. CASE TriggerExported(x)
  <2>1. trig' \in [Exchanges -> TriggerStates]
    BY <1>5 DEF TriggerExported, TypeOK, SetTrig, TriggerStates, TriggerEnds
  <2>2. faults' \in Nat
    BY <1>5, FaultType DEF TriggerExported, TypeOK
  <2>3. QED
    BY <1>5, <2>1, <2>2 DEF TriggerExported, TypeOK
<1>6. CASE TriggerPoll(x)
  <2>1. trig' \in [Exchanges -> TriggerStates]
    BY <1>6 DEF TriggerPoll, TypeOK, SetTrig, TriggerStates, TriggerEnds
  <2>2. QED
    BY <1>6, <2>1 DEF TriggerPoll, TypeOK
<1>7. CASE TriggerTimeout(x)
  <2>1. trig' \in [Exchanges -> TriggerStates]
    BY <1>7 DEF TriggerTimeout, TypeOK, SetTrig, TriggerStates, TriggerEnds
  <2>2. QED
    BY <1>7, <2>1 DEF TriggerTimeout, TypeOK
<1>8. QED
  BY <1>1, <1>2, <1>3, <1>4, <1>5, <1>6, <1>7 DEF TriggerStep

\* The steps of the create handler keep the types.
LEMMA CreateType ==
    ASSUME TypeOK, NEW x \in Exchanges, CreateStep(x)
    PROVE  TypeOK'
<1>1. CASE CreateRecord(x)
  <2>1. cre' \in [Exchanges -> CreateStates]
    BY <1>1 DEF CreateRecord, TypeOK, SetCre, CreateStates
  <2>2. status' \in [Exchanges -> [Sides -> Statuses]]
    BY <1>1, StatusType, SidesType DEF CreateRecord, TypeOK, Statuses
  <2>3. linked' \in [Exchanges -> [Sides -> BOOLEAN]]
    BY <1>1, LinkedType, SidesType DEF CreateRecord, TypeOK
  <2>4. QED
    BY <1>1, <2>1, <2>2, <2>3 DEF CreateRecord, TypeOK
<1>2. CASE CreateSync(x)
  <2>1. cre' \in [Exchanges -> CreateStates]
    BY <1>2 DEF CreateSync, TypeOK, SetCre, CreateStates
  <2>2. linked' \in [Exchanges -> [Sides -> BOOLEAN]]
    BY <1>2, LinkedType, SidesType DEF CreateSync, TypeOK
  <2>3. faults' \in Nat
    BY <1>2, FaultType DEF CreateSync, TypeOK
  <2>4. QED
    BY <1>2, <2>1, <2>2, <2>3 DEF CreateSync, TypeOK
<1>3. QED
  BY <1>1, <1>2 DEF CreateStep

\* The steps of the export handler keep the types.
LEMMA ExportType ==
    ASSUME TypeOK, NEW x \in Exchanges, ExportStep(x)
    PROVE  TypeOK'
<1>1. CASE ExportFind(x)
  <2>1. exp' \in [Exchanges -> ExportHandler]
    <3>1. \E g \in ExportHandler : SetExp(x, g)
      BY <1>1, HandlerTypes DEF ExportFind, ExportHandler, ExportStates, ExportEnds, Sides
    <3>2. QED
      BY <3>1, SetExpType
  <2>2. QED
    BY <1>1, <2>1 DEF ExportFind, TypeOK
<1>2. CASE ExportPep(x)
  <2>1. exp' \in [Exchanges -> ExportHandler]
    <3>1. \E g \in ExportHandler : SetExp(x, g)
      BY <1>2, HandlerTypes DEF ExportPep, Update, ExportHandler, ExportStates, ProviderOutcomes
    <3>2. QED
      BY <3>1, SetExpType
  <2>2. QED
    BY <1>2, <2>1 DEF ExportPep, TypeOK
<1>3. CASE ExportFetch(x)
  <2>1. exp' \in [Exchanges -> ExportHandler]
    <3>1. \E g \in ExportHandler : SetExp(x, g)
      BY <1>3, HandlerTypes DEF ExportFetch, Update, ExportHandler, ExportStates, ProviderOutcomes
    <3>2. QED
      BY <3>1, SetExpType
  <2>2. QED
    BY <1>3, <2>1 DEF ExportFetch, TypeOK
<1>4. CASE ExportSend(x)
  <2>1. exp' \in [Exchanges -> ExportHandler]
    <3>1. \E g \in ExportHandler : SetExp(x, g)
      BY <1>4, ExportUpdates, HandlerTypes DEF ExportSend, ExportHandler, ExportStates
    <3>2. QED
      BY <3>1, SetExpType
  <2>2. imp' \in [Exchanges -> [Resources -> ImportHandler]]
    BY <1>4, ExportSendType DEF ExportSend, TypeOK
  <2>3. faults' \in Nat
    BY <1>4, FaultType DEF ExportSend, TypeOK
  <2>4. QED
    BY <1>4, <2>1, <2>2, <2>3 DEF ExportSend, TypeOK
<1>5. CASE ExportAwait(x)
  <2>1. exp' \in [Exchanges -> ExportHandler]
    <3>1. \E g \in ExportHandler : SetExp(x, g)
      BY <1>5, ExportUpdates, HandlerTypes DEF ExportAwait, ExportHandler, ExportStates
    <3>2. QED
      BY <3>1, SetExpType
  <2>2. faults' \in Nat
    BY <1>5, FaultType DEF ExportAwait, TypeOK
  <2>3. QED
    BY <1>5, <2>1, <2>2 DEF ExportAwait, TypeOK
<1>6. CASE ExportCount(x)
  <2>1. exp' \in [Exchanges -> ExportHandler]
    <3>1. \E g \in ExportHandler : SetExp(x, g)
      BY <1>6, ExportUpdates, HandlerTypes DEF ExportCount
    <3>2. QED
      BY <3>1, SetExpType
  <2>2. count' \in [Exchanges -> Nat]
    BY <1>6, CountType DEF ExportCount, TypeOK
  <2>3. QED
    BY <1>6, <2>1, <2>2 DEF ExportCount, TypeOK
<1>7. CASE ExportCatch(x)
  <2>1. exp' \in [Exchanges -> ExportHandler]
    <3>1. \E g \in ExportHandler : SetExp(x, g)
      BY <1>7, HandlerTypes DEF ExportCatch, Update, ExportHandler, ExportStates, ProviderOutcomes
    <3>2. QED
      BY <3>1, SetExpType
  <2>2. QED
    BY <1>7, <2>1 DEF ExportCatch, TypeOK
<1>8. CASE ExportPut(x)
  <2>1. exp' \in [Exchanges -> ExportHandler]
    <3>1. \E g \in ExportHandler : SetExp(x, g)
      BY <1>8, HandlerTypes DEF ExportPut, ExportHandler, ExportStates, ExportEnds
    <3>2. QED
      BY <3>1, SetExpType
  <2>2. status' \in [Exchanges -> [Sides -> Statuses]]
    BY <1>8, StatusType DEF ExportPut, TypeOK, ExportHandler, Statuses, Outcomes, Sides
  <2>3. faults' \in Nat
    BY <1>8, FaultType DEF ExportPut, TypeOK
  <2>4. QED
    BY <1>8, <2>1, <2>2, <2>3 DEF ExportPut, TypeOK
<1>9. CASE ExportSave(x)
  <2>1. exp' \in [Exchanges -> ExportHandler]
    <3>1. \E g \in ExportHandler : SetExp(x, g)
      BY <1>9, HandlerTypes DEF ExportSave, ExportHandler, ExportStates, ExportEnds, Statuses, Outcomes
    <3>2. QED
      BY <3>1, SetExpType
  <2>2. status' \in [Exchanges -> [Sides -> Statuses]]
    BY <1>9, StatusType DEF ExportSave, TypeOK, ExportHandler, Statuses, Outcomes, Sides
  <2>3. QED
    BY <1>9, <2>1, <2>2 DEF ExportSave, TypeOK
<1>10. QED
  BY <1>1, <1>2, <1>3, <1>4, <1>5, <1>6, <1>7, <1>8, <1>9 DEF ExportStep

\* The steps of the import handlers keep the types.
LEMMA ImportType ==
    ASSUME TypeOK, NEW x \in Exchanges, NEW r \in Resources, ImportStep(x, r)
    PROVE  TypeOK'
<1>1. CASE ImportVerify(x, r)
  <2>1. imp' \in [Exchanges -> [Resources -> ImportHandler]]
    <3>1. \E g \in ImportHandler : SetImp(x, r, g)
      <4> DEFINE h == imp[x][r]
                 rejected == [h EXCEPT !.verdict = "misaligned"]
      <4>1. h \in ImportHandler /\ status[x]["consumer"] \in Statuses
        BY HandlerTypes DEF Sides
      <4>2. [h EXCEPT !.pc = "find", !.verdict = "aligned"] \in ImportHandler
        BY <4>1 DEF ImportHandler, ImportStates
      <4>3. rejected \in ImportHandler /\ [rejected EXCEPT !.pc = "catch"] \in ImportHandler
        BY <4>1 DEF ImportHandler, ImportStates
      <4>4. Load(rejected, x) \in ImportHandler
        <5> HIDE DEF rejected
        <5> QED
          BY <4>1, <4>3 DEF Load, ImportHandler
      <4>5. Update(Load(rejected, x), "CONSENT_IMPORT_ERROR", "catch") \in ImportHandler
        <5> HIDE DEF rejected
        <5> QED
          BY <4>4, ImportUpdates DEF ConsumerOutcomes
      <4>6. \E g \in {[h EXCEPT !.pc = "find", !.verdict = "aligned"],
                      Update(Load(rejected, x), "CONSENT_IMPORT_ERROR", "catch"),
                      [rejected EXCEPT !.pc = "catch"]} : SetImp(x, r, g)
        BY <1>1 DEF ImportVerify
      <4>7. QED
        BY <4>2, <4>3, <4>5, <4>6
    <3>2. QED
      BY <3>1, SetImpType
  <2>2. QED
    BY <1>1, <2>1 DEF ImportVerify, TypeOK
<1>2. CASE ImportFind(x, r)
  <2>1. imp' \in [Exchanges -> [Resources -> ImportHandler]]
    <3>1. \E g \in ImportHandler : SetImp(x, r, g)
      <4>1. imp[x][r] \in ImportHandler /\ status[x]["consumer"] \in Statuses
        BY HandlerTypes DEF Sides
      <4>2. /\ [imp[x][r] EXCEPT !.pc = "catch"] \in ImportHandler
            /\ [Load(imp[x][r], x) EXCEPT !.pc = "purpose"] \in ImportHandler
        BY <4>1 DEF Load, ImportHandler, ImportStates
      <4>3. QED
        BY <1>2, <4>2 DEF ImportFind
    <3>2. QED
      BY <3>1, SetImpType
  <2>2. QED
    BY <1>2, <2>1 DEF ImportFind, TypeOK
<1>3. CASE ImportPurpose(x, r)
  <2>1. imp' \in [Exchanges -> [Resources -> ImportHandler]]
    <3>1. \E g \in ImportHandler : SetImp(x, r, g)
      <4>1. imp[x][r] \in ImportHandler
        BY HandlerTypes
      <4>2. \A pc \in {"api", "catch"} : [imp[x][r] EXCEPT !.pc = pc] \in ImportHandler
        BY <4>1 DEF ImportHandler, ImportStates
      <4>3. {"IMPORT_SUCCESS", "CONSUMER_IMPORT_ERROR", "PROVIDER_EXPORT_ERROR"} \subseteq ConsumerOutcomes
        BY DEF ConsumerOutcomes
      <4>4. \A w \in ConsumerOutcomes, n \in {"api", "catch"} :
              Update(imp[x][r], w, n) \in ImportHandler
        BY <4>1, ImportUpdates
      <4>5. QED
        BY <1>3, <4>2, <4>3, <4>4 DEF ImportPurpose
    <3>2. QED
      BY <3>1, SetImpType
  <2>2. stored' \in [Exchanges -> [Resources -> SUBSET Purposes]]
    BY <1>3, GivenType DEF ImportPurpose, TypeOK, ImportHandler
  <2>3. QED
    BY <1>3, <2>1, <2>2 DEF ImportPurpose, TypeOK
<1>4. CASE ImportApi(x, r)
  <2>1. imp' \in [Exchanges -> [Resources -> ImportHandler]]
    <3>1. \E g \in ImportHandler : SetImp(x, r, g)
      <4>1. imp[x][r] \in ImportHandler
        BY HandlerTypes
      <4>2. [imp[x][r] EXCEPT !.pc = "catch"] \in ImportHandler
        BY <4>1 DEF ImportHandler, ImportStates
      <4>3. Update(imp[x][r], "IMPORT_SUCCESS", "more") \in ImportHandler
        BY <4>1, ImportUpdates DEF ConsumerOutcomes
      <4>4. QED
        BY <1>4, <4>2, <4>3 DEF ImportApi
    <3>2. QED
      BY <3>1, SetImpType
  <2>2. QED
    BY <1>4, <2>1 DEF ImportApi, TypeOK
<1>5. CASE ImportCatch(x, r)
  <2>1. imp' \in [Exchanges -> [Resources -> ImportHandler]]
    <3>1. \E g \in ImportHandler : SetImp(x, r, g)
      <4> DEFINE h == [imp[x][r] EXCEPT !.caught = TRUE]
      <4>1. h \in ImportHandler
        <5>1. imp[x][r] \in ImportHandler
          BY HandlerTypes
        <5>2. QED
          BY <5>1 DEF ImportHandler
      <4>2. /\ Load(h, x) \in ImportHandler
            /\ \A y \in Exchanges :
                  [h EXCEPT !.doc = y, !.clean = status[y]["provider"]] \in ImportHandler
            /\ \A pc \in {"stray", "fail"} : [h EXCEPT !.pc = pc] \in ImportHandler
        BY <4>1, HandlerTypes DEF Load, ImportHandler, ImportStates, ImportEnds, Sides
      <4>3. \A g \in ImportHandler :
                Update(g, "CONSUMER_IMPORT_ERROR", "fail") \in ImportHandler
        BY ImportUpdates DEF ConsumerOutcomes
      <4>4. \/ SetImp(x, r, Update(Load(h, x), "CONSUMER_IMPORT_ERROR", "fail"))
            \/ \E y \in Exchanges :
                  SetImp(x, r, Update([h EXCEPT !.doc = y, !.clean = status[y]["provider"]],
                                      "CONSUMER_IMPORT_ERROR", "fail"))
            \/ \E pc \in {"stray", "fail"} : SetImp(x, r, [h EXCEPT !.pc = pc])
        BY <1>5 DEF ImportCatch, ProviderRecords
      <4> HIDE DEF h
      <4>5. QED
        BY <4>2, <4>3, <4>4
    <3>2. QED
      BY <3>1, SetImpType
  <2>2. QED
    BY <1>5, <2>1 DEF ImportCatch, TypeOK
<1>6. CASE ImportStray(x, r)
  <2>1. trig' \in [Exchanges -> TriggerStates]
    BY <1>6, DeadAtType, SiteType DEF ImportStray, TypeOK
  <2>2. cre' \in [Exchanges -> CreateStates]
    BY <1>6, DeadAtType, SiteType DEF ImportStray, TypeOK
  <2>3. exp' \in [Exchanges -> ExportHandler]
    BY <1>6, DeadAtType, SiteType DEF ImportStray, TypeOK
  <2>4. imp' \in [Exchanges -> [Resources -> ImportHandler]]
    BY <1>6, DeadAtType, SiteType DEF ImportStray, TypeOK
  <2>5. QED
    BY <1>6, <2>1, <2>2, <2>3, <2>4 DEF ImportStray, TypeOK
<1>7. CASE ImportPut(x, r)
  <2>1. trig' \in [Exchanges -> TriggerStates]
    BY <1>7, DeadAtType, SiteType DEF ImportPut, TypeOK
  <2>2. cre' \in [Exchanges -> CreateStates]
    BY <1>7, DeadAtType, SiteType DEF ImportPut, TypeOK
  <2>3. exp' \in [Exchanges -> ExportHandler]
    BY <1>7, DeadAtType, SiteType DEF ImportPut, TypeOK
  <2>4. imp' \in [Exchanges -> [Resources -> ImportHandler]]
    BY <1>7, ImportPutType DEF ImportPut, TypeOK
  <2>5. status' \in [Exchanges -> [Sides -> Statuses]]
    <3>1. imp[x][r].want \in Statuses
      BY HandlerTypes DEF ImportHandler, Statuses, Outcomes
    <3>2. \/ status' = status
          \/ status' = WithStatus(imp[x][r].doc, Peer(DocSide(x, imp[x][r])), imp[x][r].want)
      BY <1>7 DEF ImportPut
    <3>3. WithStatus(imp[x][r].doc, Peer(DocSide(x, imp[x][r])), imp[x][r].want)
             \in [Exchanges -> [Sides -> Statuses]]
      BY <3>1, DocType, StatusType
    <3>4. QED
      BY <3>2, <3>3 DEF TypeOK
  <2>6. faults' \in Nat
    BY <1>7, FaultType DEF ImportPut, TypeOK
  <2>7. QED
    BY <1>7, <2>1, <2>2, <2>3, <2>4, <2>5, <2>6 DEF ImportPut, TypeOK
<1>8. CASE ImportSave(x, r)
  <2>1. imp' \in [Exchanges -> [Resources -> ImportHandler]]
    BY <1>8, ImportSaveType DEF ImportSave, TypeOK
  <2>2. status' \in [Exchanges -> [Sides -> Statuses]]
    <3>1. status' = status \/ \E y \in Exchanges, t \in Sides, w \in Statuses :
                                  status' = WithStatus(y, t, w)
      <4> DEFINE h == [imp[x][r] EXCEPT !.clean = imp[x][r].want]
      <4>1. h.doc = imp[x][r].doc /\ h.want = imp[x][r].want /\ h.want \in Statuses
        BY HandlerTypes DEF ImportHandler, Statuses, Outcomes
      <4>2. DocSide(x, h) = DocSide(x, imp[x][r])
        BY <4>1 DEF DocSide
      <4>3. status' = status \/ status' = WithStatus(h.doc, DocSide(x, h), h.want)
        BY <1>8 DEF ImportSave
      <4> HIDE DEF h
      <4>4. QED
        BY <4>1, <4>2, <4>3, DocType
    <3>2. \A y \in Exchanges, t \in Sides, w \in Statuses :
              WithStatus(y, t, w) \in [Exchanges -> [Sides -> Statuses]]
      BY StatusType
    <3>3. CASE status' = status
      BY <3>3 DEF TypeOK
    <3>4. QED
      BY <3>1, <3>2, <3>3
  <2>3. QED
    BY <1>8, <2>1, <2>2 DEF ImportSave, TypeOK
<1>9. QED
  BY <1>1, <1>2, <1>3, <1>4, <1>5, <1>6, <1>7, <1>8 DEF ImportStep

\* Every step of the system keeps the types.
LEMMA TypeStep == TypeOK /\ [Next]_vars => TypeOK'
<1> SUFFICES ASSUME TypeOK, [Next]_vars PROVE TypeOK'
  OBVIOUS
<1>1. ASSUME NEW x \in Exchanges,
             TriggerStep(x) \/ CreateStep(x) \/ ExportStep(x)
                \/ \E r \in Resources : ImportStep(x, r)
      PROVE  TypeOK'
  BY <1>1, TriggerType, CreateType, ExportType, ImportType
<1>2. ASSUME NEW c \in Connectors, Crash(c) PROVE TypeOK'
  <2>1. faults' \in Nat
    BY <1>2, FaultType DEF Crash
  <2>2. QED
    BY <1>2, <2>1, DeadAtType DEF Crash, TypeOK
<1>3. CASE UNCHANGED vars
  BY <1>3 DEF vars, TypeOK
<1>4. QED
  BY <1>1, <1>2, <1>3 DEF Next

\* The handlers and the records keep their types in every behaviour.
THEOREM TypeCorrect == Spec => []TypeOK
<1>1. Init => TypeOK
  BY InitType
<1>2. TypeOK /\ [Next]_vars => TypeOK'
  BY TypeStep
<1>3. QED
  BY <1>1, <1>2, PTL DEF Spec

-----------------------------------------------------------------------------
(* What each kind of step does to the records and to the handlers *)

\* Set one handler: it gets the value given and no other handler changes.
LEMMA Writes ==
    ASSUME TypeOK, NEW x \in Exchanges
    PROVE  /\ \A g : SetExp(x, g) =>
                 exp'[x] = g /\ \A y \in Exchanges \ {x} : exp'[y] = exp[y]
           /\ \A g : \A r \in Resources : SetImp(x, r, g) =>
                 /\ imp'[x][r] = g
                 /\ \A y \in Exchanges, q \in Resources :
                       <<y, q>> # <<x, r>> => imp'[y][q] = imp[y][q]
           /\ \A pc : SetTrig(x, pc) =>
                 trig'[x] = pc /\ \A y \in Exchanges \ {x} : trig'[y] = trig[y]
           /\ \A pc : SetCre(x, pc) =>
                 cre'[x] = pc /\ \A y \in Exchanges \ {x} : cre'[y] = cre[y]
<1>1. \A g : SetExp(x, g) =>
          exp'[x] = g /\ \A y \in Exchanges \ {x} : exp'[y] = exp[y]
  BY DEF TypeOK, SetExp
<1>2. \A g : \A r \in Resources : SetImp(x, r, g) =>
          /\ imp'[x][r] = g
          /\ \A y \in Exchanges, q \in Resources :
                <<y, q>> # <<x, r>> => imp'[y][q] = imp[y][q]
  BY DEF TypeOK, SetImp
<1>3. \A pc : SetTrig(x, pc) =>
          trig'[x] = pc /\ \A y \in Exchanges \ {x} : trig'[y] = trig[y]
  BY DEF TypeOK, SetTrig
<1>4. \A pc : SetCre(x, pc) =>
          cre'[x] = pc /\ \A y \in Exchanges \ {x} : cre'[y] = cre[y]
  BY DEF TypeOK, SetCre
<1>5. QED
  BY <1>1, <1>2, <1>3, <1>4

\* Write one record: the status or the peer's _id changes there and nowhere else.
LEMMA RecordWrites ==
    ASSUME TypeOK, NEW x \in Exchanges, NEW s \in Sides
    PROVE  /\ \A w : \A y \in Exchanges, t \in Sides :
                 WithStatus(x, s, w)[y][t] = IF y = x /\ t = s THEN w ELSE status[y][t]
           /\ WithPeer(x, s)[x][s]
           /\ \A y \in Exchanges, t \in Sides : linked[y][t] => WithPeer(x, s)[y][t]
           /\ \A y \in Exchanges, t \in Sides : y # x => WithPeer(x, s)[y][t] = linked[y][t]
<1>1. \A w : \A y \in Exchanges, t \in Sides :
          WithStatus(x, s, w)[y][t] = IF y = x /\ t = s THEN w ELSE status[y][t]
  BY DEF TypeOK, WithStatus
<1>2. /\ WithPeer(x, s)[x][s]
      /\ \A y \in Exchanges, t \in Sides : linked[y][t] => WithPeer(x, s)[y][t]
      /\ \A y \in Exchanges, t \in Sides : y # x => WithPeer(x, s)[y][t] = linked[y][t]
  BY DEF TypeOK, WithPeer
<1>3. QED
  BY <1>1, <1>2

\* A step of the export handler of x, seen by the invariant.
ExportEffect(x) ==
    LET h == exp[x]
        k == exp'[x] IN
    /\ UNCHANGED <<origin, linked, trig, cre>>
    /\ \A y \in Exchanges \ {x} : exp'[y] = exp[y]
    /\ \A y \in Exchanges, r \in Resources :
          imp'[y][r] # imp[y][r] =>
              /\ y = x /\ r = h.r /\ h.pc = "send" /\ k.pc = "await"
              /\ imp'[y][r].pc \in {"verify", "find"} /\ imp'[y][r].doc = y
    /\ \A y \in Exchanges, s \in Sides :
          status'[y][s] # status[y][s] =>
              /\ y = x /\ status'[y][s] = h.want
              /\ \/ s = "consumer" /\ h.pc = "put"
                 \/ s = "provider" /\ h.pc = "save"
    /\ h.pc \notin {"idle"} \cup ExportEnds /\ k.pc # "idle"
    /\ k.pc \in {"find", "pep"} => h.pc = "find"
    /\ k.pc \in {"fetch", "send", "await", "count"} =>
          h.pc \in {"fetch", "send", "await", "count"} \/ (h.pc = "pep" /\ k.pep)
    /\ k.pep # h.pep => h.pc = "pep" /\ k.pc = "fetch" /\ k.pep
    /\ \/ k.r = h.r /\ (k.pc \in Sending => h.pc \in Sending)
       \/ k.r = h.r + 1
    /\ k.pc = "put" /\ k.want = "PEP_ERROR" => h.pc = "pep" /\ k.pep = h.pep
    /\ k.pc = "save" =>
          h.pc = "put" /\ k.want = h.want /\ status'[x]["consumer"] = h.want

\* Each step of the export handler has that effect.
LEMMA ExportEffects ==
    ASSUME TypeOK, NEW x \in Exchanges, ExportStep(x)
    PROVE  ExportEffect(x)
<1> DEFINE h == exp[x]
<1> DEFINE k == exp'[x]
<1>h. h \in ExportHandler
  BY HandlerTypes
<1>1. CASE ExportFind(x)
  <2>1. \/ k = [h EXCEPT !.pc = "pep", !.clean = status[x]["provider"]]
        \/ k = [h EXCEPT !.pc = "done"]
    BY <1>1, Writes DEF ExportFind
  <2>2. \A y \in Exchanges \ {x} : exp'[y] = exp[y]
    BY <1>1, Writes DEF ExportFind
  <2>3. k.pc \in {"pep", "done"} /\ k.pep = h.pep /\ k.r = h.r
    BY <1>h, <2>1 DEF ExportHandler
  <2>4. QED
    BY <1>1, <2>2, <2>3 DEF ExportFind, ExportEffect, ExportEnds, Sending
<1>2. CASE ExportPep(x)
  <2>1. \/ k = [h EXCEPT !.pc = "fetch", !.pep = TRUE]
        \/ k = Update(h, "PEP_ERROR", "done")
        \/ k = [h EXCEPT !.pc = "catch"]
    BY <1>2, Writes DEF ExportPep
  <2>2. \A y \in Exchanges \ {x} : exp'[y] = exp[y]
    BY <1>2, Writes DEF ExportPep
  <2>3. /\ \/ k.pc = "fetch" /\ k.pep = TRUE
           \/ k.pc \in {"put", "catch"} /\ k.pep = h.pep
        /\ k.r = h.r
    BY <1>h, <2>1 DEF ExportHandler, Update
  <2>4. QED
    BY <1>2, <2>2, <2>3 DEF ExportPep, ExportEffect, ExportEnds, Sending
<1>3. CASE ExportFetch(x)
  <2>1. h.pc = "fetch" /\ UNCHANGED <<origin, linked, trig, cre, status, imp>>
    BY <1>3 DEF ExportFetch
  <2>2. ASSUME NEW b \in BOOLEAN, SetExp(x, [h EXCEPT !.pc = "send", !.binary = b])
        PROVE  /\ \A y \in Exchanges \ {x} : exp'[y] = exp[y]
               /\ k.pc = "send" /\ k.pep = h.pep /\ k.r = h.r
    <3>1. k = [h EXCEPT !.pc = "send", !.binary = b]
      BY <2>2, Writes
    <3>2. QED
      BY <1>h, <2>2, <3>1, Writes DEF ExportHandler
  <2>3. CASE SetExp(x, Update(h, "PROVIDER_EXPORT_ERROR", "catch"))
    <3>1. k = Update(h, "PROVIDER_EXPORT_ERROR", "catch")
      BY <2>3, Writes
    <3>2. /\ \A y \in Exchanges \ {x} : exp'[y] = exp[y]
          /\ k.pc = "put" /\ k.want = "PROVIDER_EXPORT_ERROR" /\ k.pep = h.pep /\ k.r = h.r
      BY <1>h, <2>3, <3>1, Writes DEF ExportHandler, Update
    <3>3. QED
      BY <2>1, <3>2 DEF ExportEffect, ExportEnds, Sending
  <2>4. CASE SetExp(x, [h EXCEPT !.pc = "catch"])
    <3>1. k = [h EXCEPT !.pc = "catch"]
      BY <2>4, Writes
    <3>2. /\ \A y \in Exchanges \ {x} : exp'[y] = exp[y]
          /\ k.pc = "catch" /\ k.pep = h.pep /\ k.r = h.r
      BY <1>h, <2>4, <3>1, Writes DEF ExportHandler
    <3>3. QED
      BY <2>1, <3>2 DEF ExportEffect, ExportEnds, Sending
  <2>5. CASE \E b \in BOOLEAN : SetExp(x, [h EXCEPT !.pc = "send", !.binary = b])
    <3>1. /\ \A y \in Exchanges \ {x} : exp'[y] = exp[y]
          /\ k.pc = "send" /\ k.pep = h.pep /\ k.r = h.r
      BY <2>2, <2>5
    <3>2. QED
      BY <2>1, <3>1 DEF ExportEffect, ExportEnds, Sending
  <2>6. QED
    BY <1>3, <2>3, <2>4, <2>5 DEF ExportFetch
<1>4. CASE ExportSend(x)
  <2>1. \/ k = [h EXCEPT !.pc = "await"]
        \/ k = NextResource(h) /\ UNCHANGED imp
    BY <1>4, Writes DEF ExportSend
  <2>2. \A y \in Exchanges \ {x} : exp'[y] = exp[y]
    BY <1>4, Writes DEF ExportSend
  <2>3. /\ \/ k.pc = "await" /\ k.r = h.r
           \/ /\ UNCHANGED imp
              /\ k.pc \in {"done", "fetch"} /\ ((k.r = h.r /\ k.pc = "done") \/ k.r = h.r + 1)
        /\ k.pep = h.pep
    BY <1>h, <2>1, ExportUpdates DEF ExportHandler
  <2>4. \A y \in Exchanges, r \in Resources :
            imp'[y][r] # imp[y][r] =>
                /\ y = x /\ r = h.r
                /\ imp'[y][r].pc \in {"verify", "find"} /\ imp'[y][r].doc = x
    <3>1. h.r \in Resources
      BY <1>h DEF ExportHandler
    <3>2. CASE UNCHANGED imp
      BY <3>2
    <3>3. CASE imp' # imp
      <4> DEFINE g == [IdleImport(x) EXCEPT !.pc = IF h.binary THEN "verify" ELSE "find",
                                            !.binary = h.binary]
      <4>1. SetImp(x, h.r, g)
        BY <1>4, <3>3 DEF ExportSend
      <4>2. g.pc \in {"verify", "find"} /\ g.doc = x
        BY DEF IdleImport
      <4> HIDE DEF g
      <4>3. QED
        BY <3>1, <4>1, <4>2, Writes
    <3>4. QED
      BY <3>2, <3>3
  <2>5. h.pc = "send" /\ UNCHANGED <<origin, linked, trig, cre, status>>
    BY <1>4 DEF ExportSend
  <2>6. QED
    BY <2>2, <2>3, <2>4, <2>5 DEF ExportEffect, ExportEnds, Sending
<1>5. CASE ExportAwait(x)
  <2>1. \/ k = [h EXCEPT !.pc = "count"]
        \/ k = NextResource(h)
    BY <1>5, Writes DEF ExportAwait
  <2>2. \A y \in Exchanges \ {x} : exp'[y] = exp[y]
    BY <1>5, Writes DEF ExportAwait
  <2>3. /\ k.pc \in {"count", "done", "fetch"} /\ k.pep = h.pep
        /\ (k.r = h.r /\ k.pc \in {"count", "done"}) \/ k.r = h.r + 1
    BY <1>h, <2>1, ExportUpdates DEF ExportHandler
  <2>4. h.pc = "await" /\ UNCHANGED <<origin, linked, trig, cre, status, imp>>
    BY <1>5 DEF ExportAwait
  <2>5. QED
    BY <2>2, <2>3, <2>4 DEF ExportEffect, ExportEnds, Sending
<1>6. CASE ExportCount(x)
  <2>1. k = NextResource(h)
    BY <1>6, Writes DEF ExportCount
  <2>2. \A y \in Exchanges \ {x} : exp'[y] = exp[y]
    BY <1>6, Writes DEF ExportCount
  <2>3. /\ k.pc \in {"done", "fetch"} /\ k.pep = h.pep
        /\ (k.r = h.r /\ k.pc = "done") \/ k.r = h.r + 1
    BY <1>h, <2>1, ExportUpdates DEF ExportHandler
  <2>4. h.pc = "count" /\ UNCHANGED <<origin, linked, trig, cre, status, imp>>
    BY <1>6 DEF ExportCount
  <2>5. QED
    BY <2>2, <2>3, <2>4 DEF ExportEffect, ExportEnds, Sending
<1>7. CASE ExportCatch(x)
  <2>1. k = [Update(h, "PROVIDER_EXPORT_ERROR", "done") EXCEPT !.caught = TRUE]
    BY <1>7, Writes DEF ExportCatch
  <2>2. \A y \in Exchanges \ {x} : exp'[y] = exp[y]
    BY <1>7, Writes DEF ExportCatch
  <2>3. k.pc = "put" /\ k.want = "PROVIDER_EXPORT_ERROR" /\ k.pep = h.pep /\ k.r = h.r
    BY <1>h, <2>1 DEF ExportHandler, Update
  <2>4. QED
    BY <1>7, <2>2, <2>3 DEF ExportCatch, ExportEffect, ExportEnds, Sending
<1>8. CASE ExportPut(x)
  <2>1. \/ k = [h EXCEPT !.pc = "save"] /\ status' = WithStatus(x, "consumer", h.want)
        \/ k = [h EXCEPT !.pc = "threw"]
        \/ k = [h EXCEPT !.pc = "catch"]
    BY <1>8, Writes DEF ExportPut
  <2>2. \A y \in Exchanges \ {x} : exp'[y] = exp[y]
    BY <1>8, Writes DEF ExportPut
  <2>3. /\ k.r = h.r /\ k.pep = h.pep
        /\ \/ k.pc = "save" /\ k.want = h.want
              /\ status' = WithStatus(x, "consumer", h.want)
           \/ k.pc \in {"threw", "catch"}
    BY <1>h, <2>1 DEF ExportHandler
  <2>4. \A y \in Exchanges, s \in Sides :
            status'[y][s] # status[y][s] => y = x /\ s = "consumer" /\ status'[y][s] = h.want
    BY <1>8, RecordWrites DEF ExportPut, Sides
  <2>5. k.pc = "save" => status'[x]["consumer"] = h.want
    BY <2>3, RecordWrites DEF Sides
  <2>6. QED
    BY <1>8, <2>2, <2>3, <2>4, <2>5 DEF ExportPut, ExportEffect, ExportEnds, Sending
<1>9. CASE ExportSave(x)
  <2>1. k = [h EXCEPT !.pc = h.next, !.clean = h.want]
    BY <1>9, Writes DEF ExportSave
  <2>2. \A y \in Exchanges \ {x} : exp'[y] = exp[y]
    BY <1>9, Writes DEF ExportSave
  <2>3. k.pc \in {"done", "catch"} /\ k.pep = h.pep /\ k.r = h.r
    BY <1>h, <2>1 DEF ExportHandler
  <2>4. \A y \in Exchanges, s \in Sides :
            status'[y][s] # status[y][s] => y = x /\ s = "provider" /\ status'[y][s] = h.want
    BY <1>9, RecordWrites DEF ExportSave, Sides
  <2>5. QED
    BY <1>9, <2>2, <2>3, <2>4 DEF ExportSave, ExportEffect, ExportEnds, Sending
<1>10. QED
  BY <1>1, <1>2, <1>3, <1>4, <1>5, <1>6, <1>7, <1>8, <1>9 DEF ExportStep

\* A crash of a connector, and any step that leaves the handlers alone.
HandlersMayDie ==
    /\ \A y \in Exchanges :
          /\ trig'[y] = trig[y]
                \/ (trig[y] \notin TriggerEnds \cup {"idle"} /\ trig'[y] = "dead")
          /\ cre'[y] = cre[y] \/ (cre[y] \in {"create", "sync"} /\ cre'[y] = "dead")
          /\ \/ exp'[y] = exp[y]
             \/ /\ exp[y].pc # "idle" /\ exp'[y].pc = "dead"
                /\ exp'[y].pep = exp[y].pep /\ exp'[y].r = exp[y].r

\* The import handlers h and k: k is h, perhaps dead.
SameErrand(h, k) ==
    k.doc = h.doc /\ k.want = h.want /\ k.next = h.next /\ k.caught = h.caught
Remains(h, k) ==
    \/ k = h
    \/ /\ h.pc \notin {"idle"} \cup ImportEnds /\ k.pc = "dead"
       /\ SameErrand(h, k) /\ k.clean = h.clean

ImportsMayDie ==
    \A y \in Exchanges, q \in Resources : Remains(imp[y][q], imp'[y][q])

\* The death of a connector only ends handlers that were running.
LEMMA DeadEffects ==
    ASSUME TypeOK, NEW c \in Connectors, DeadAt(c)
    PROVE  HandlersMayDie /\ ImportsMayDie
<1>1. \A y \in Exchanges :
          /\ trig'[y] = trig[y]
                \/ (trig[y] \notin TriggerEnds \cup {"idle"} /\ trig'[y] = "dead")
          /\ cre'[y] = cre[y] \/ (cre[y] \in {"create", "sync"} /\ cre'[y] = "dead")
  BY DEF DeadAt, TypeOK
<1>2. ASSUME NEW y \in Exchanges
      PROVE  \/ exp'[y] = exp[y]
             \/ /\ exp[y].pc # "idle" /\ exp'[y].pc = "dead"
                /\ exp'[y].pep = exp[y].pep /\ exp'[y].r = exp[y].r
  <2>1. exp[y] \in ExportHandler
    BY HandlerTypes
  <2>2. exp'[y] = exp[y] \/ (exp[y].pc # "idle" /\ exp'[y] = [exp[y] EXCEPT !.pc = "dead"])
    BY DEF DeadAt
  <2>3. QED
    BY <2>1, <2>2 DEF ExportHandler
<1>3. ASSUME NEW y \in Exchanges, NEW q \in Resources
      PROVE  Remains(imp[y][q], imp'[y][q])
  <2>1. imp[y][q] \in ImportHandler
    BY HandlerTypes
  <2>2. \/ imp'[y][q] = imp[y][q]
        \/ /\ imp[y][q].pc \notin {"idle"} \cup ImportEnds
           /\ imp'[y][q] = [imp[y][q] EXCEPT !.pc = "dead"]
    BY DEF DeadAt
  <2>3. QED
    BY <2>1, <2>2 DEF ImportHandler, Remains, SameErrand
<1>4. QED
  BY <1>1, <1>2, <1>3 DEF HandlersMayDie, ImportsMayDie

\* The import handler h of x has become k: it prepares a call, or finds the
\* record of another exchange in its catch block, ...
ImportPrepares(h, k) ==
    /\ UNCHANGED status
    /\ h.pc \notin {"put", "save"} /\ k.pc # "save"
    /\ \/ k.doc = h.doc
       \/ /\ linked[k.doc]["provider"] /\ k.clean = status[k.doc]["provider"]
          /\ k.want = "CONSUMER_IMPORT_ERROR" /\ k.next = "fail" /\ k.caught
          /\ k.pc = "put"

\* ... or tells the peer of the record it holds, ...
ImportTells(x, h, k) ==
    /\ h.pc = "put" /\ SameErrand(h, k) /\ k.clean = h.clean
    /\ status' \in {status, WithStatus(h.doc, Peer(DocSide(x, h)), h.want)}
    /\ \/ k.pc = "save" /\ status' = WithStatus(h.doc, Peer(DocSide(x, h)), h.want)
       \/ k.pc = "catch" /\ ~h.caught
       \/ k.pc = "dead"

\* ... or saves that record.
ImportSaves(x, h, k) ==
    /\ h.pc = "save" /\ SameErrand(h, k) /\ k.clean = h.want
    /\ k.pc \notin {"idle", "save", "put", "dead"}
    /\ h.next = "fail" => k.pc = "fail"
    /\ status' = IF h.want = h.clean THEN status
                 ELSE WithStatus(h.doc, DocSide(x, h), h.want)

\* A step of the import handler of x and r, seen by the invariant.
ImportEffect(x, r) ==
    LET h == imp[x][r]
        k == imp'[x][r] IN
    /\ UNCHANGED <<origin, linked>>
    /\ HandlersMayDie
    /\ \A y \in Exchanges, q \in Resources :
          <<y, q>> # <<x, r>> => Remains(imp[y][q], imp'[y][q])
    /\ h.pc \notin {"idle"} \cup ImportEnds /\ k.pc # "idle"
    /\ ImportPrepares(h, k) \/ ImportTells(x, h, k) \/ ImportSaves(x, h, k)

\* It suffices to know what became of the handler itself.
LEMMA ImportAlone ==
    ASSUME TypeOK, NEW x \in Exchanges, NEW r \in Resources,
           imp[x][r].pc \notin {"idle", "put", "save"} \cup ImportEnds,
           imp'[x][r].pc \notin {"idle", "save"}, imp'[x][r].doc = imp[x][r].doc,
           \A y \in Exchanges, q \in Resources :
              <<y, q>> # <<x, r>> => imp'[y][q] = imp[y][q],
           UNCHANGED <<origin, linked, trig, cre, exp, status>>
    PROVE  ImportEffect(x, r)
  BY DEF ImportEffect, HandlersMayDie, ImportPrepares, Remains

\* Each step of an import handler has that effect.
LEMMA ImportEffects ==
    ASSUME TypeOK, NEW x \in Exchanges, NEW r \in Resources, ImportStep(x, r)
    PROVE  ImportEffect(x, r)
<1> DEFINE h == imp[x][r]
<1> DEFINE k == imp'[x][r]
<1>h. h \in ImportHandler
  BY HandlerTypes
<1>1. CASE ImportVerify(x, r)
  <2>1. \/ k = [h EXCEPT !.pc = "find", !.verdict = "aligned"]
        \/ k = Update(Load([h EXCEPT !.verdict = "misaligned"], x), "CONSENT_IMPORT_ERROR", "catch")
        \/ k = [[h EXCEPT !.verdict = "misaligned"] EXCEPT !.pc = "catch"]
    BY <1>1, Writes DEF ImportVerify
  <2>2. \A y \in Exchanges, q \in Resources :
            <<y, q>> # <<x, r>> => imp'[y][q] = imp[y][q]
    BY <1>1, Writes DEF ImportVerify
  <2>3. k.pc \in {"find", "put", "catch"} /\ k.doc = h.doc
    BY <1>h, <2>1 DEF Update, Load, ImportHandler
  <2>4. QED
    BY <1>1, <2>2, <2>3, ImportAlone DEF ImportVerify, ImportEnds
<1>2. CASE ImportFind(x, r)
  <2>1. \/ k = [Load(h, x) EXCEPT !.pc = "purpose"]
        \/ k = [h EXCEPT !.pc = "catch"]
    BY <1>2, Writes DEF ImportFind
  <2>2. \A y \in Exchanges, q \in Resources :
            <<y, q>> # <<x, r>> => imp'[y][q] = imp[y][q]
    BY <1>2, Writes DEF ImportFind
  <2>3. k.pc \in {"purpose", "catch"} /\ k.doc = h.doc
    BY <1>h, <2>1 DEF Load, ImportHandler
  <2>4. QED
    BY <1>2, <2>2, <2>3, ImportAlone DEF ImportFind, ImportEnds
<1>3. CASE ImportPurpose(x, r)
  <2>1. \/ \E w \in ConsumerOutcomes, n \in {"api", "catch"} : k = Update(h, w, n)
        \/ k = [h EXCEPT !.pc = "api"]
        \/ k = [h EXCEPT !.pc = "catch"]
    BY <1>3, Writes DEF ImportPurpose, ConsumerOutcomes
  <2>2. \A y \in Exchanges, q \in Resources :
            <<y, q>> # <<x, r>> => imp'[y][q] = imp[y][q]
    BY <1>3, Writes DEF ImportPurpose
  <2>3. k.pc \in {"put", "api", "catch"} /\ k.doc = h.doc
    BY <1>h, <2>1 DEF Update, ImportHandler
  <2>4. QED
    BY <1>3, <2>2, <2>3, ImportAlone DEF ImportPurpose, ImportEnds
<1>4. CASE ImportApi(x, r)
  <2>1. \/ k = Update(h, "IMPORT_SUCCESS", "more")
        \/ k = [h EXCEPT !.pc = "catch"]
    BY <1>4, Writes DEF ImportApi
  <2>2. \A y \in Exchanges, q \in Resources :
            <<y, q>> # <<x, r>> => imp'[y][q] = imp[y][q]
    BY <1>4, Writes DEF ImportApi
  <2>3. k.pc \in {"put", "catch"} /\ k.doc = h.doc
    BY <1>h, <2>1 DEF Update, ImportHandler
  <2>4. QED
    BY <1>4, <2>2, <2>3, ImportAlone DEF ImportApi, ImportEnds
<1>5. CASE ImportCatch(x, r)
  <2> DEFINE g == [h EXCEPT !.caught = TRUE]
  <2>g. g \in ImportHandler /\ g.doc = h.doc /\ g.caught
    BY <1>h DEF ImportHandler
  <2>1. /\ h.pc = "catch" /\ UNCHANGED <<origin, linked, trig, cre, exp, status>>
        /\ \/ SetImp(x, r, Update(Load(g, x), "CONSUMER_IMPORT_ERROR", "fail"))
           \/ \E y \in ProviderRecords(Site[x]["consumer"]) :
                 SetImp(x, r, Update([g EXCEPT !.doc = y, !.clean = status[y]["provider"]],
                                     "CONSUMER_IMPORT_ERROR", "fail"))
           \/ SetImp(x, r, [g EXCEPT !.pc = "stray"])
           \/ SetImp(x, r, [g EXCEPT !.pc = "fail"])
    BY <1>5 DEF ImportCatch
  <2>2. \A y \in Exchanges, q \in Resources :
            <<y, q>> # <<x, r>> => imp'[y][q] = imp[y][q]
    <3>1. \E f : SetImp(x, r, f)
      BY <2>1
    <3>2. QED
      BY <3>1, Writes
  <2> HIDE DEF g
  <2>3. CASE SetImp(x, r, Update(Load(g, x), "CONSUMER_IMPORT_ERROR", "fail"))
    <3>1. k = Update(Load(g, x), "CONSUMER_IMPORT_ERROR", "fail")
      BY <2>3, Writes
    <3>2. k.pc = "put" /\ k.doc = h.doc
      BY <2>g, <3>1 DEF Update, Load, ImportHandler
    <3>3. QED
      BY <2>1, <2>2, <3>2, ImportAlone DEF ImportEnds
  <2>4. ASSUME NEW y \in ProviderRecords(Site[x]["consumer"]),
               SetImp(x, r, Update([g EXCEPT !.doc = y, !.clean = status[y]["provider"]],
                                   "CONSUMER_IMPORT_ERROR", "fail"))
        PROVE  ImportEffect(x, r)
    <3>1. k = Update([g EXCEPT !.doc = y, !.clean = status[y]["provider"]],
                     "CONSUMER_IMPORT_ERROR", "fail")
      BY <2>4, Writes
    <3>2. /\ k.pc = "put" /\ k.doc = y /\ k.clean = status[y]["provider"]
          /\ k.want = "CONSUMER_IMPORT_ERROR" /\ k.next = "fail" /\ k.caught
      BY <2>g, <3>1 DEF Update, ImportHandler
    <3>3. linked[y]["provider"]
      BY DEF ProviderRecords
    <3>4. ImportPrepares(h, k)
      BY <2>1, <3>2, <3>3 DEF ImportPrepares
    <3>5. QED
      BY <2>1, <2>2, <3>2, <3>4 DEF ImportEffect, HandlersMayDie, Remains, ImportEnds
  <2>5. CASE \E pc \in {"stray", "fail"} : SetImp(x, r, [g EXCEPT !.pc = pc])
    <3>1. \E pc \in {"stray", "fail"} : k = [g EXCEPT !.pc = pc]
      BY <2>5, Writes
    <3>2. k.pc \in {"stray", "fail"} /\ k.doc = h.doc
      BY <2>g, <3>1 DEF ImportHandler
    <3>3. QED
      BY <2>1, <2>2, <3>2, ImportAlone DEF ImportEnds
  <2>6. QED
    BY <2>1, <2>3, <2>4, <2>5
<1>6. CASE ImportStray(x, r)
  <2>1. HandlersMayDie /\ ImportsMayDie
    BY <1>6, DeadEffects, SiteType DEF ImportStray
  <2>2. h.pc = "stray" /\ UNCHANGED <<origin, linked, status>>
    BY <1>6 DEF ImportStray
  <2>3. k.pc \in {"stray", "dead"} /\ k.doc = h.doc
    BY <2>1, <2>2 DEF ImportsMayDie, Remains, SameErrand
  <2>4. QED
    BY <2>1, <2>2, <2>3 DEF ImportEffect, ImportsMayDie, ImportPrepares, ImportEnds
<1>7. CASE ImportPut(x, r)
  <2> DEFINE written == WithStatus(h.doc, Peer(DocSide(x, h)), h.want)
  <2>1. /\ h.pc = "put" /\ UNCHANGED <<origin, linked>> /\ status' \in {status, written}
        /\ \/ h.caught /\ DeadAt(Site[x]["consumer"])
           \/ /\ status' = written /\ SetImp(x, r, [h EXCEPT !.pc = "save"])
              /\ UNCHANGED <<trig, cre, exp>>
           \/ /\ ~h.caught /\ SetImp(x, r, [h EXCEPT !.pc = "catch"])
              /\ UNCHANGED <<trig, cre, exp>>
    BY <1>7 DEF ImportPut
  <2> HIDE DEF written
  <2>2. CASE h.caught /\ DeadAt(Site[x]["consumer"])
    <3>1. HandlersMayDie /\ ImportsMayDie
      BY <2>2, DeadEffects, SiteType
    <3>2. k = [h EXCEPT !.pc = "dead"]
      BY <2>1, <2>2 DEF DeadAt, ImportEnds
    <3>3. k.pc = "dead" /\ SameErrand(h, k) /\ k.clean = h.clean
      BY <1>h, <3>2 DEF ImportHandler, SameErrand
    <3>4. ImportTells(x, h, k)
      BY <2>1, <3>3 DEF ImportTells, written
    <3>5. QED
      BY <2>1, <3>1, <3>3, <3>4 DEF ImportEffect, ImportsMayDie, ImportEnds
  <2>3. ASSUME NEW pc \in {"save", "catch"}, SetImp(x, r, [h EXCEPT !.pc = pc]),
               pc = "save" => status' = written, pc = "catch" => ~h.caught,
               UNCHANGED <<trig, cre, exp>>
        PROVE  ImportEffect(x, r)
    <3>1. /\ k = [h EXCEPT !.pc = pc]
          /\ \A y \in Exchanges, q \in Resources :
                <<y, q>> # <<x, r>> => imp'[y][q] = imp[y][q]
      BY <2>3, Writes
    <3>2. k.pc = pc /\ SameErrand(h, k) /\ k.clean = h.clean
      BY <1>h, <3>1 DEF ImportHandler, SameErrand
    <3>3. ImportTells(x, h, k)
      BY <2>1, <2>3, <3>2 DEF ImportTells, written
    <3>4. QED
      BY <2>1, <2>3, <3>1, <3>2, <3>3 DEF ImportEffect, HandlersMayDie, Remains, ImportEnds
  <2>4. QED
    BY <2>1, <2>2, <2>3
<1>8. CASE ImportSave(x, r)
  <2> DEFINE c == [h EXCEPT !.clean = h.want]
  <2>c. /\ c \in ImportHandler /\ SameErrand(h, c) /\ c.clean = h.want
        /\ DocSide(x, c) = DocSide(x, h)
    BY <1>h DEF ImportHandler, Statuses, Outcomes, SameErrand, DocSide
  <2>1. /\ h.pc = "save" /\ UNCHANGED <<origin, linked, trig, cre, exp>>
        /\ SetImp(x, r, IF c.next = "more" THEN NextPurpose(c) ELSE [c EXCEPT !.pc = c.next])
        /\ status' = IF c.want = h.clean THEN status
                     ELSE WithStatus(c.doc, DocSide(x, c), c.want)
    BY <1>8 DEF ImportSave
  <2> HIDE DEF c
  <2>2. status' = IF h.want = h.clean THEN status
                  ELSE WithStatus(h.doc, DocSide(x, h), h.want)
    BY <2>1, <2>c DEF SameErrand
  <2>3. /\ k = IF c.next = "more" THEN NextPurpose(c) ELSE [c EXCEPT !.pc = c.next]
        /\ \A y \in Exchanges, q \in Resources :
              <<y, q>> # <<x, r>> => imp'[y][q] = imp[y][q]
    BY <2>1, Writes
  <2>4. /\ SameErrand(h, k) /\ k.clean = h.want
        /\ k.pc \notin {"idle", "save", "put", "dead"}
        /\ h.next = "fail" => k.pc = "fail"
    <3>1. CASE c.next = "more"
      BY <2>3, <2>c, <3>1 DEF NextPurpose, ImportHandler, SameErrand
    <3>2. CASE c.next # "more"
      BY <2>3, <2>c, <3>2 DEF ImportHandler, SameErrand
    <3>3. QED
      BY <3>1, <3>2
  <2>5. ImportSaves(x, h, k)
    BY <2>1, <2>2, <2>4 DEF ImportSaves
  <2>6. QED
    BY <2>1, <2>3, <2>4, <2>5 DEF ImportEffect, HandlersMayDie, Remains, ImportEnds
<1>9. QED
  BY <1>1, <1>2, <1>3, <1>4, <1>5, <1>6, <1>7, <1>8 DEF ImportStep

-----------------------------------------------------------------------------
(* The inductive invariant *)

\* The invariant holds before the first request.
LEMMA InitInvariant == Init => IInv
<1> SUFFICES ASSUME Init PROVE IInv
  OBVIOUS
<1>1. TypeOK
  BY InitType
<1>2. \A x \in Exchanges :
          /\ trig[x] = "idle" /\ cre[x] = "idle" /\ exp[x].pc = "idle" /\ ~exp[x].pep
          /\ \A s \in Sides : status[x][s] = "absent" /\ ~linked[x][s]
          /\ \A r \in Resources : imp[x][r].pc = "idle" /\ imp[x][r].doc = x
  BY DEF Init, IdleExport, IdleImport
<1>3. \A x \in Exchanges : origin[x] \in Sides /\ Peer(origin[x]) \in Sides
  BY <1>1, SidesType
<1>4. SentInOrder /\ DocsOf
  BY <1>2 DEF SentInOrder, DocsOf, Misled
<1>5. QED
  BY <1>1, <1>2, <1>3, <1>4 DEF IInv, RecordsFollowHandlers, Progress, PermissionFollowsExport,
       OutcomesHaveAuthors, SaversHaveTold, PeerToldFirst, SuccessAnswerIsGrounded,
       Decided, Outcomes, ConsumerOutcomes, ProviderOutcomes, Sides

\* Records that keep their outcomes and links keep what a misled handler knows.
LEMMA MisledStays ==
    ASSUME IInv, NEW x \in Exchanges, NEW r \in Resources,
           \A y \in Exchanges, s \in Sides : linked[y][s] => linked'[y][s],
           \A y \in Exchanges, s \in Sides : Decided(y, s) => Decided(y, s)',
           Remains(imp[x][r], imp'[x][r])
    PROVE  Misled(x, imp[x][r])'
<1>1. imp[x][r].doc \in Exchanges /\ "provider" \in Sides
  BY DocType DEF IInv, Sides
<1>2. Misled(x, imp[x][r])
  BY DEF IInv, DocsOf
<1>3. QED
  BY <1>1, <1>2 DEF Misled, Remains, SameErrand

\* An exchange whose records a foreign handler has rewritten by half stays so.
LEMMA MeddledStays ==
    ASSUME NEW x \in Exchanges, MeddledHalfWay(x),
           \A y \in Exchanges, r \in Resources :
              imp[y][r].pc \in {"save", "dead"} => Remains(imp[y][r], imp'[y][r])
    PROVE  MeddledHalfWay(x)'
  BY DEF MeddledHalfWay, Remains, SameErrand

\* The steps of the export handler keep the invariant.
LEMMA ExportInvariant ==
    ASSUME IInv, TypeOK', NEW x \in Exchanges, ExportStep(x)
    PROVE  IInv'
<1>1. /\ ExportEffect(x) /\ exp[x] \in ExportHandler /\ exp[x].want \in ProviderOutcomes
      /\ exp[x].r \in Resources
  BY ExportEffects, HandlerTypes DEF IInv, ExportHandler
<1>w. \A y \in Exchanges, s \in Sides :
          /\ status'[y][s] = status[y][s] \/ status'[y][s] \in ProviderOutcomes
          /\ Decided(y, s) => Decided(y, s)'
          /\ status[y][s] # "absent" => status'[y][s] # "absent"
  BY <1>1 DEF ExportEffect, Decided, Outcomes, ProviderOutcomes
<1>i. \A y \in Exchanges, r \in Resources :
          \/ imp'[y][r] = imp[y][r]
          \/ imp[y][r].pc = "idle" /\ imp'[y][r].pc \in {"verify", "find"} /\ imp'[y][r].doc = y
  BY <1>1 DEF ExportEffect, IInv, SentInOrder, Sending
<1>2. RecordsFollowHandlers'
  <2> SUFFICES ASSUME NEW y \in Exchanges
               PROVE  Progress(y)'
    BY DEF RecordsFollowHandlers
  <2>1. origin[y] \in Sides /\ Peer(origin[y]) \in Sides
    BY SidesType DEF IInv
  <2>2. CASE y # x
    <3>1. \A s \in Sides : status'[y][s] = status[y][s]
      BY <1>1, <2>2 DEF ExportEffect
    <3>2. QED
      BY <1>1, <2>1, <2>2, <3>1 DEF IInv, RecordsFollowHandlers, Progress, ExportEffect, Peer
  <2>3. CASE y = x
    <3>1. cre[x] = "ok" /\ trig[x] # "idle" /\ trig[x] # "post"
      BY <1>1 DEF IInv, RecordsFollowHandlers, Progress, ExportEffect
    <3>2. QED
      BY <1>1, <1>w, <2>1, <2>3, <3>1 DEF IInv, RecordsFollowHandlers, Progress, ExportEffect, Peer
  <2>4. QED
    BY <2>2, <2>3
<1>3. PermissionFollowsExport'
  BY <1>1 DEF IInv, PermissionFollowsExport, ExportEffect
<1>4. OutcomesHaveAuthors'
  <2> SUFFICES ASSUME NEW y \in Exchanges, NEW s \in Sides
               PROVE  (/\ status[y][s] = "IMPORT_SUCCESS" =>
                              \E r \in Resources : imp[y][r].pc # "idle"
                       /\ status[y][s] = "PEP_ERROR" =>
                              /\ ~exp[y].pep
                              /\ exp[y].pc \notin {"idle", "find", "pep", "fetch", "send",
                                                   "await", "count"})'
    BY DEF OutcomesHaveAuthors
  <2>1. status'[y][s] = "IMPORT_SUCCESS" => \E r \in Resources : imp'[y][r].pc # "idle"
    <3>1. status'[y][s] = "IMPORT_SUCCESS" => status[y][s] = "IMPORT_SUCCESS"
      BY <1>w DEF ProviderOutcomes
    <3>2. \A r \in Resources : imp[y][r].pc # "idle" => imp'[y][r].pc # "idle"
      BY <1>i
    <3>3. QED
      BY <3>1, <3>2 DEF IInv, OutcomesHaveAuthors
  <2>2. CASE y = x /\ status'[y][s] = "PEP_ERROR"
    <3>1. /\ ~exp[x].pep
          /\ exp[x].pc \notin {"idle", "find", "pep", "fetch", "send", "await", "count"}
      BY <1>1, <2>2 DEF IInv, OutcomesHaveAuthors, PermissionFollowsExport, ExportEffect
    <3>2. QED
      BY <1>1, <2>1, <2>2, <3>1 DEF ExportEffect
  <2>3. CASE y # x
    BY <1>1, <2>1, <2>3 DEF IInv, OutcomesHaveAuthors, ExportEffect
  <2>4. QED
    BY <2>1, <2>2, <2>3
<1>5. SaversHaveTold'
  <2>1. ASSUME NEW y \in Exchanges, exp'[y].pc = "save" PROVE Decided(y, "consumer")'
    BY <1>1, <1>w, <2>1 DEF IInv, SaversHaveTold, ExportEffect, Decided, Outcomes, Sides
  <2>2. ASSUME NEW y \in Exchanges, NEW r \in Resources, imp'[y][r].pc = "save"
        PROVE  Decided(imp[y][r].doc, Peer(DocSide(y, imp[y][r])))'
    <3>1. imp'[y][r] = imp[y][r]
      BY <1>i, <2>2
    <3>2. Decided(imp[y][r].doc, Peer(DocSide(y, imp[y][r])))
      BY <2>2, <3>1 DEF IInv, SaversHaveTold
    <3>3. imp[y][r].doc \in Exchanges /\ Peer(DocSide(y, imp[y][r])) \in Sides
      BY DocType DEF IInv
    <3>4. QED
      BY <1>w, <3>1, <3>2, <3>3 DEF Decided, DocSide
  <2>3. QED
    BY <2>1, <2>2 DEF SaversHaveTold
<1>6. SentInOrder'
  <2> SUFFICES ASSUME NEW y \in Exchanges, NEW r \in Resources,
                      r > exp'[y].r \/ (r = exp'[y].r /\ exp'[y].pc \in Sending)
               PROVE  imp'[y][r].pc = "idle"
    BY DEF SentInOrder
  <2>1. CASE y # x
    BY <1>1, <2>1 DEF IInv, SentInOrder, ExportEffect
  <2>2. CASE y = x /\ exp'[x].r = exp[x].r
    <3>1. r > exp[x].r \/ (r = exp[x].r /\ exp[x].pc \in Sending)
      BY <1>1, <2>2 DEF ExportEffect, Resources, Sending
    <3>2. imp[x][r].pc = "idle"
      BY <3>1 DEF IInv, SentInOrder
    <3>3. imp'[x][r] # imp[x][r] => r = exp[x].r /\ exp'[x].pc = "await"
      BY <1>1 DEF ExportEffect
    <3>4. QED
      BY <1>1, <2>2, <3>2, <3>3 DEF Resources, Sending
  <2>3. CASE y = x /\ exp'[x].r = exp[x].r + 1
    <3>1. r > exp[x].r
      BY <1>1, <2>3 DEF Resources
    <3>2. QED
      BY <1>1, <2>3, <3>1 DEF IInv, SentInOrder, ExportEffect, Resources
  <2>4. QED
    BY <1>1, <2>1, <2>2, <2>3 DEF ExportEffect
<1>7. DocsOf'
  <2> SUFFICES ASSUME NEW y \in Exchanges, NEW r \in Resources PROVE Misled(y, imp[y][r])'
    BY DEF DocsOf
  <2>1. CASE imp'[y][r] = imp[y][r]
    BY <1>1, <1>w, <2>1, MisledStays DEF ExportEffect, Remains
  <2>2. CASE imp'[y][r].doc = y
    BY <2>2 DEF Misled
  <2>3. QED
    BY <1>i, <2>1, <2>2
<1>8. PeerToldFirst'
  <2>1. \A y \in Exchanges : MeddledHalfWay(y) => MeddledHalfWay(y)'
    BY <1>i, MeddledStays DEF Remains
  <2>2. ASSUME NEW y \in Exchanges
        PROVE  /\ status'[y]["consumer"] \in {"IMPORT_SUCCESS", "CONSENT_IMPORT_ERROR"}
                     => Decided(y, "provider")'
               /\ status'[y]["consumer"] = "CONSUMER_IMPORT_ERROR"
                     => Decided(y, "provider")' \/ MeddledHalfWay(y)'
    BY <1>w, <2>1, <2>2 DEF IInv, PeerToldFirst, Sides, ProviderOutcomes
  <2>3. ASSUME NEW y \in Exchanges, status'[y]["provider"] = "PEP_ERROR"
        PROVE  Decided(y, "consumer")'
    BY <1>1, <1>w, <2>3 DEF IInv, PeerToldFirst, SaversHaveTold, ExportEffect, Sides
  <2>4. QED
    BY <2>2, <2>3 DEF PeerToldFirst
<1>9. SuccessAnswerIsGrounded'
  BY <1>1, <1>w, <1>i DEF IInv, SuccessAnswerIsGrounded, ExportEffect, Sides
<1>10. QED
  BY <1>2, <1>3, <1>4, <1>5, <1>6, <1>7, <1>8, <1>9 DEF IInv

\* Both records of an exchange that an import runs for, or holds, exist.
LEMMA RecordsExist ==
    ASSUME IInv, NEW x \in Exchanges, exp[x].pc # "idle" \/ \E s \in Sides : linked[x][s]
    PROVE  \A s \in Sides : status[x][s] # "absent"
<1>1. origin[x] \in Sides /\ Peer(origin[x]) \in Sides
  BY SidesType DEF IInv
<1>2. QED
  BY <1>1 DEF IInv, RecordsFollowHandlers, Progress

\* What an import handler writes: its outcome into the record it holds, or first
\* into the record of that exchange at the other side.
ImportWrite(x, h, y, s) ==
    /\ y = h.doc /\ status'[y][s] = h.want /\ status[y][s] # "absent"
    /\ \/ h.pc = "put" /\ s = Peer(DocSide(x, h))
       \/ h.pc = "save" /\ s = DocSide(x, h)

LEMMA ImportWrites ==
    ASSUME IInv, NEW x \in Exchanges, NEW r \in Resources, ImportEffect(x, r)
    PROVE  /\ \A y \in Exchanges, s \in Sides :
                 status'[y][s] # status[y][s] => ImportWrite(x, imp[x][r], y, s)
           /\ imp[x][r].want \in ConsumerOutcomes
           /\ \A y \in Exchanges, s \in Sides : Decided(y, s) => Decided(y, s)'
<1> DEFINE h == imp[x][r]
<1> DEFINE k == imp'[x][r]
<1>1. h \in ImportHandler /\ h.want \in ConsumerOutcomes
  BY HandlerTypes DEF IInv, ImportHandler
<1>2. /\ h.doc \in Exchanges /\ DocSide(x, h) \in Sides /\ Peer(DocSide(x, h)) \in Sides
  BY DocType DEF IInv
<1>3. \A s \in Sides : status[h.doc][s] # "absent"
  <2>1. CASE h.doc = x
    <3>1. exp[x].pc # "idle"
      BY DEF ImportEffect, IInv, PermissionFollowsExport
    <3>2. QED
      BY <2>1, <3>1, RecordsExist
  <2>2. CASE h.doc # x
    <3>1. linked[h.doc]["provider"] /\ "provider" \in Sides
      BY <2>2 DEF IInv, DocsOf, Misled, Sides
    <3>2. QED
      BY <1>2, <3>1, RecordsExist
  <2>3. QED
    BY <2>1, <2>2
<1>4. ASSUME NEW y \in Exchanges, NEW s \in Sides, status'[y][s] # status[y][s]
      PROVE  ImportWrite(x, h, y, s)
  <2>0. \A t \in Sides : \A w : WithStatus(h.doc, t, w)[y][s] =
            IF y = h.doc /\ s = t THEN w ELSE status[y][s]
    BY <1>2, RecordWrites DEF IInv
  <2>1. ~ImportPrepares(h, k)
    BY <1>4 DEF ImportPrepares
  <2>2. CASE ImportTells(x, h, k)
    <3>1. y = h.doc /\ s = Peer(DocSide(x, h)) /\ status'[y][s] = h.want /\ h.pc = "put"
      BY <1>2, <1>4, <2>0, <2>2 DEF ImportTells
    <3>2. QED
      BY <1>3, <3>1 DEF ImportWrite
  <2>3. CASE ImportSaves(x, h, k)
    <3>1. y = h.doc /\ s = DocSide(x, h) /\ status'[y][s] = h.want /\ h.pc = "save"
      BY <1>2, <1>4, <2>0, <2>3 DEF ImportSaves
    <3>2. QED
      BY <1>3, <3>1 DEF ImportWrite
  <2>4. QED
    BY <2>1, <2>2, <2>3 DEF ImportEffect
<1>5. ASSUME NEW y \in Exchanges, NEW s \in Sides, Decided(y, s) PROVE Decided(y, s)'
  BY <1>1, <1>4, <1>5 DEF ImportWrite, Decided, Outcomes
<1>6. QED
  BY <1>1, <1>4, <1>5

\* The steps of an import handler keep the invariant.
LEMMA ImportInvariant ==
    ASSUME IInv, TypeOK', NEW x \in Exchanges, NEW r \in Resources, ImportStep(x, r)
    PROVE  IInv'
<1> DEFINE h == imp[x][r]
<1> DEFINE k == imp'[x][r]
<1>1. ImportEffect(x, r)
  BY ImportEffects DEF IInv
<1>w. /\ \A y \in Exchanges, s \in Sides :
            status'[y][s] # status[y][s] => ImportWrite(x, h, y, s)
      /\ h.want \in ConsumerOutcomes
      /\ \A y \in Exchanges, s \in Sides : Decided(y, s) => Decided(y, s)'
  BY <1>1, ImportWrites
<1>d. /\ h.doc \in Exchanges /\ DocSide(x, h) \in Sides /\ Peer(DocSide(x, h)) \in Sides
      /\ Peer(DocSide(x, h)) # DocSide(x, h)
  BY DocType DEF IInv
<1>m. Misled(x, h) /\ exp[x].pc # "idle" /\ exp[x].pep
  BY <1>1 DEF IInv, DocsOf, PermissionFollowsExport, ImportEffect
<1>i. \A y \in Exchanges, q \in Resources : imp[y][q].pc # "idle" => imp'[y][q].pc # "idle"
  BY <1>1 DEF ImportEffect, Remains
<1>2. RecordsFollowHandlers'
  <2> SUFFICES ASSUME NEW y \in Exchanges
               PROVE  Progress(y)'
    BY DEF RecordsFollowHandlers
  <2>1. origin[y] \in Sides /\ Peer(origin[y]) \in Sides /\ Peer(origin[y]) = Peer(origin[y])'
    BY <1>1, SidesType DEF IInv, ImportEffect, Peer
  <2>2. \A s \in Sides :
            \/ status'[y][s] = status[y][s]
            \/ status[y][s] # "absent" /\ status'[y][s] # "absent"
    BY <1>w DEF ImportWrite, ConsumerOutcomes
  <2>3. Progress(y)
    BY DEF IInv, RecordsFollowHandlers
  <2>4. /\ trig'[y] = trig[y] \/ (trig[y] \notin {"idle"} /\ trig'[y] = "dead")
        /\ cre'[y] = cre[y] \/ (cre[y] # "idle" /\ cre[y] # "ok" /\ cre'[y] = "dead")
        /\ exp'[y].pc = exp[y].pc \/ (exp[y].pc # "idle" /\ exp'[y].pc = "dead")
        /\ origin' = origin /\ linked' = linked
    BY <1>1 DEF ImportEffect, HandlersMayDie
  <2>5. QED
    BY <2>1, <2>2, <2>3, <2>4 DEF Progress
<1>3. PermissionFollowsExport'
  BY <1>1, <1>m DEF IInv, PermissionFollowsExport, ImportEffect, HandlersMayDie, Remains
<1>4. OutcomesHaveAuthors'
  <2> SUFFICES ASSUME NEW y \in Exchanges, NEW s \in Sides
               PROVE  (/\ status[y][s] = "IMPORT_SUCCESS" =>
                              \E q \in Resources : imp[y][q].pc # "idle"
                       /\ status[y][s] = "PEP_ERROR" =>
                              /\ ~exp[y].pep
                              /\ exp[y].pc \notin {"idle", "find", "pep", "fetch", "send",
                                                   "await", "count"})'
    BY DEF OutcomesHaveAuthors
  <2>1. status'[y][s] = "PEP_ERROR" => status[y][s] = "PEP_ERROR"
    BY <1>w DEF ImportWrite, ConsumerOutcomes
  <2>2. status'[y][s] = "IMPORT_SUCCESS" /\ status[y][s] # "IMPORT_SUCCESS" => y = x
    BY <1>w, <1>m DEF ImportWrite, Misled
  <2>3. k.pc # "idle"
    BY <1>1 DEF ImportEffect
  <2>4. status'[y][s] = "IMPORT_SUCCESS" => \E q \in Resources : imp'[y][q].pc # "idle"
    BY <1>i, <2>2, <2>3 DEF IInv, OutcomesHaveAuthors
  <2>5. \/ exp'[y] = exp[y]
        \/ exp'[y].pc = "dead" /\ exp'[y].pep = exp[y].pep
    BY <1>1 DEF ImportEffect, HandlersMayDie
  <2>6. QED
    BY <2>1, <2>4, <2>5 DEF IInv, OutcomesHaveAuthors
<1>5. SaversHaveTold'
  <2>1. ASSUME NEW y \in Exchanges, exp'[y].pc = "save" PROVE Decided(y, "consumer")'
    BY <1>1, <1>w, <2>1 DEF IInv, SaversHaveTold, ImportEffect, HandlersMayDie, Sides
  <2>2. ASSUME NEW y \in Exchanges, NEW q \in Resources, imp'[y][q].pc = "save"
        PROVE  Decided(imp[y][q].doc, Peer(DocSide(y, imp[y][q])))'
    <3>1. CASE <<y, q>> # <<x, r>>
      <4>1. imp'[y][q] = imp[y][q]
        BY <1>1, <2>2, <3>1 DEF ImportEffect, Remains
      <4>2. Decided(imp[y][q].doc, Peer(DocSide(y, imp[y][q])))
        BY <2>2, <4>1 DEF IInv, SaversHaveTold
      <4>3. imp[y][q].doc \in Exchanges /\ Peer(DocSide(y, imp[y][q])) \in Sides
        BY DocType DEF IInv
      <4>4. QED
        BY <1>w, <4>1, <4>2, <4>3 DEF Decided, DocSide
    <3>2. CASE y = x /\ q = r
      <4>1. /\ ImportTells(x, h, k)
            /\ status' = WithStatus(h.doc, Peer(DocSide(x, h)), h.want)
        BY <1>1, <2>2, <3>2 DEF ImportEffect, ImportPrepares, ImportTells, ImportSaves
      <4>2. status'[h.doc][Peer(DocSide(x, h))] = h.want
        BY <1>d, <4>1, RecordWrites DEF IInv
      <4>3. k.doc = h.doc
        BY <4>1 DEF ImportTells, SameErrand
      <4>4. QED
        BY <1>w, <3>2, <4>2, <4>3 DEF Decided, DocSide, Outcomes
    <3>3. QED
      BY <3>1, <3>2
  <2>3. QED
    BY <2>1, <2>2 DEF SaversHaveTold
<1>6. SentInOrder'
  <2>1. \A y \in Exchanges : exp'[y].r = exp[y].r /\ (exp'[y].pc \in Sending => exp[y].pc \in Sending)
    BY <1>1 DEF ImportEffect, HandlersMayDie, Sending
  <2>2. \A y \in Exchanges, q \in Resources : imp[y][q].pc = "idle" => imp'[y][q].pc = "idle"
    BY <1>1 DEF ImportEffect, Remains
  <2>3. QED
    BY <2>1, <2>2 DEF IInv, SentInOrder
<1>7. DocsOf'
  <2> SUFFICES ASSUME NEW y \in Exchanges, NEW q \in Resources PROVE Misled(y, imp[y][q])'
    BY DEF DocsOf
  <2>0. linked' = linked
    BY <1>1 DEF ImportEffect
  <2>1. CASE <<y, q>> # <<x, r>>
    BY <1>1, <1>w, <2>0, <2>1, MisledStays DEF ImportEffect
  <2>2. CASE y = x /\ q = r
    <3> SUFFICES ASSUME k.doc # x
                 PROVE  /\ linked'[k.doc]["provider"]
                        /\ k.want = "CONSUMER_IMPORT_ERROR" /\ k.next = "fail" /\ k.caught
                        /\ k.pc \in {"put", "save", "fail", "dead"}
                        /\ k.clean \in Outcomes => status'[k.doc]["provider"] \in Outcomes
      BY <2>2 DEF Misled, Decided
    <3>p. "provider" \in Sides
      BY DEF Sides
    <3>1. CASE ImportPrepares(h, k)
      <4>1. k.doc # h.doc
        BY <1>1, <1>m, <3>1 DEF ImportPrepares, Misled, ImportEffect, ImportEnds
      <4>2. status' = status
        BY <3>1 DEF ImportPrepares
      <4>3. QED
        BY <2>0, <3>1, <4>1, <4>2 DEF ImportPrepares, Decided
    <3>2. CASE ImportTells(x, h, k)
      <4>1. SameErrand(h, k) /\ k.clean = h.clean
        BY <3>2 DEF ImportTells
      <4>2. h.caught /\ h.doc # x /\ h.doc = k.doc
        BY <1>m, <4>1 DEF Misled, SameErrand
      <4>3. k.pc \in {"save", "dead"}
        BY <3>2, <4>2 DEF ImportTells
      <4>4. k.clean \in Outcomes => Decided(h.doc, "provider")
        BY <1>m, <4>1, <4>2 DEF Misled
      <4>5. k.clean \in Outcomes => status'[k.doc]["provider"] \in Outcomes
        BY <1>d, <1>w, <3>p, <4>2, <4>4 DEF Decided
      <4>6. QED
        BY <1>m, <2>0, <4>1, <4>2, <4>3, <4>5 DEF Misled, SameErrand
    <3>3. CASE ImportSaves(x, h, k)
      <4>1. SameErrand(h, k) /\ k.clean = h.want /\ (h.next = "fail" => k.pc = "fail")
        BY <3>3 DEF ImportSaves
      <4>2. h.doc # x /\ h.doc = k.doc /\ DocSide(x, h) = "provider"
        BY <4>1 DEF SameErrand, DocSide
      <4>3. h.want \in Outcomes
        BY <1>w DEF Outcomes
      <4>4. status'[h.doc]["provider"] \in Outcomes
        <5>1. CASE h.want = h.clean
          BY <1>d, <1>m, <1>w, <3>p, <4>2, <4>3, <5>1 DEF Misled, Decided
        <5>2. CASE h.want # h.clean
          <6>1. status' = WithStatus(h.doc, "provider", h.want)
            BY <3>3, <4>2, <5>2 DEF ImportSaves
          <6>2. status'[h.doc]["provider"] = h.want
            BY <1>d, <3>p, <6>1, RecordWrites DEF IInv
          <6>3. QED
            BY <4>3, <6>2
        <5>3. QED
          BY <5>1, <5>2
      <4>5. QED
        BY <1>m, <2>0, <4>1, <4>2, <4>4 DEF Misled, SameErrand
    <3>4. QED
      BY <1>1, <3>1, <3>2, <3>3 DEF ImportEffect
  <2>3. QED
    BY <2>1, <2>2
<1>8. PeerToldFirst'
  <2> SUFFICES ASSUME NEW y \in Exchanges
               PROVE  (/\ status[y]["consumer"] \in {"IMPORT_SUCCESS", "CONSENT_IMPORT_ERROR"}
                             => Decided(y, "provider")
                       /\ status[y]["consumer"] = "CONSUMER_IMPORT_ERROR"
                             => Decided(y, "provider") \/ MeddledHalfWay(y)
                       /\ status[y]["provider"] = "PEP_ERROR" => Decided(y, "consumer"))'
    BY DEF PeerToldFirst
  <2>s. "consumer" \in Sides /\ "provider" \in Sides
    BY DEF Sides
  <2>1. status'[y]["provider"] = "PEP_ERROR" => status[y]["provider"] = "PEP_ERROR"
    BY <1>w, <2>s DEF ImportWrite, ConsumerOutcomes
  <2>2. CASE status'[y]["consumer"] # status[y]["consumer"]
    <3>1. ImportWrite(x, h, y, "consumer")
      BY <1>w, <2>2, <2>s
    <3>2. CASE h.pc = "save" /\ DocSide(x, h) = "consumer"
      <4>1. Decided(h.doc, Peer(DocSide(x, h)))
        BY <3>2 DEF IInv, SaversHaveTold
      <4>2. h.doc = y /\ Peer(DocSide(x, h)) = "provider"
        BY <3>1, <3>2 DEF ImportWrite, Peer
      <4>3. Decided(y, "provider")'
        BY <1>w, <2>s, <4>1, <4>2 DEF Decided
      <4>4. QED
        BY <1>w, <2>1, <2>s, <4>3 DEF IInv, PeerToldFirst
    <3>3. CASE h.pc = "put" /\ DocSide(x, h) = "provider"
      <4>1. h.doc = y /\ y # x /\ h.want = "CONSUMER_IMPORT_ERROR" /\ h.caught
        BY <1>m, <3>1, <3>3 DEF ImportWrite, DocSide, Misled
      <4>2. k.doc = y /\ k.pc \in {"save", "dead"}
        BY <1>1, <3>3, <4>1, <2>2 DEF ImportEffect, ImportPrepares, ImportTells, ImportSaves, SameErrand
      <4>3. MeddledHalfWay(y)'
        BY <4>1, <4>2 DEF MeddledHalfWay
      <4>4. status'[y]["consumer"] = "CONSUMER_IMPORT_ERROR"
        BY <3>1, <4>1 DEF ImportWrite
      <4>5. QED
        BY <1>w, <2>1, <2>s, <4>3, <4>4 DEF IInv, PeerToldFirst
    <3>4. QED
      BY <3>1, <3>2, <3>3, <1>d DEF ImportWrite, Sides, Peer
  <2>3. CASE status'[y]["consumer"] = status[y]["consumer"]
    <3>1. ASSUME MeddledHalfWay(y) PROVE MeddledHalfWay(y)' \/ Decided(y, "provider")'
      <4>1. CASE \A z \in Exchanges, q \in Resources :
                    imp[z][q].pc \in {"save", "dead"} => Remains(imp[z][q], imp'[z][q])
        BY <3>1, <4>1, MeddledStays
      <4>2. CASE \E z \in Exchanges, q \in Resources :
                    imp[z][q].pc \in {"save", "dead"} /\ ~Remains(imp[z][q], imp'[z][q])
        <5>1. h.pc = "save"
          BY <1>1, <4>2 DEF ImportEffect, ImportEnds
        <5>2. ImportSaves(x, h, k)
          BY <1>1, <5>1 DEF ImportEffect, ImportPrepares, ImportTells
        <5>3. CASE h.doc = y /\ y # x
          <6>1. DocSide(x, h) = "provider" /\ h.want \in Outcomes
            BY <1>w, <5>3 DEF DocSide, Outcomes
          <6>2. CASE h.want = h.clean
            BY <1>d, <1>m, <1>w, <2>s, <5>3, <6>1, <6>2 DEF Misled
          <6>3. CASE h.want # h.clean
            <7>1. status' = WithStatus(h.doc, "provider", h.want)
              BY <5>2, <6>1, <6>3 DEF ImportSaves
            <7>2. status'[h.doc]["provider"] = h.want
              BY <1>d, <2>s, <7>1, RecordWrites DEF IInv
            <7>3. QED
              BY <5>3, <6>1, <7>2 DEF Decided
          <6>4. QED
            BY <6>2, <6>3
        <5>4. CASE h.doc # y \/ y = x
          <6>1. PICK z \in Exchanges \ {y}, q \in Resources :
                    imp[z][q].doc = y /\ imp[z][q].pc \in {"save", "dead"}
            BY <3>1 DEF MeddledHalfWay
          <6>2. <<z, q>> # <<x, r>>
            BY <5>4, <6>1
          <6>3. Remains(imp[z][q], imp'[z][q])
            BY <1>1, <6>2 DEF ImportEffect
          <6>4. imp'[z][q].doc = y /\ imp'[z][q].pc \in {"save", "dead"}
            BY <6>1, <6>3 DEF Remains, SameErrand
          <6>5. QED
            BY <6>1, <6>4 DEF MeddledHalfWay
        <5>5. QED
          BY <5>3, <5>4
      <4>3. QED
        BY <4>1, <4>2
    <3>2. QED
      BY <1>w, <2>1, <2>3, <2>s, <3>1 DEF IInv, PeerToldFirst
  <2>4. QED
    BY <2>2, <2>3
<1>9. SuccessAnswerIsGrounded'
  <2> SUFFICES ASSUME NEW y \in Exchanges, trig'[y] = "success"
               PROVE  exp'[y].pep /\ Decided(y, "provider")' /\ \E q \in Resources : imp'[y][q].pc # "idle"
    BY DEF SuccessAnswerIsGrounded
  <2>1. trig[y] = "success" /\ exp'[y].pep = exp[y].pep
    BY <1>1 DEF ImportEffect, HandlersMayDie
  <2>2. QED
    BY <1>i, <1>w, <2>1 DEF IInv, SuccessAnswerIsGrounded, Sides
<1>10. QED
  BY <1>2, <1>3, <1>4, <1>5, <1>6, <1>7, <1>8, <1>9 DEF IInv

\* A crash keeps the invariant.
LEMMA CrashInvariant ==
    ASSUME IInv, TypeOK', NEW c \in Connectors, Crash(c)
    PROVE  IInv'
<1>1. HandlersMayDie /\ ImportsMayDie /\ UNCHANGED <<origin, linked, status>>
  BY DeadEffects DEF IInv, Crash
<1>2. \A y \in Exchanges, t \in Sides : Decided(y, t)' <=> Decided(y, t)
  BY <1>1 DEF Decided
<1>3. RecordsFollowHandlers'
  BY <1>1 DEF IInv, RecordsFollowHandlers, Progress, HandlersMayDie, Peer
<1>4. PermissionFollowsExport'
  BY <1>1 DEF IInv, PermissionFollowsExport, HandlersMayDie, ImportsMayDie, Remains
<1>5. OutcomesHaveAuthors'
  BY <1>1 DEF IInv, OutcomesHaveAuthors, HandlersMayDie, ImportsMayDie, Remains
<1>6. SaversHaveTold'
  <2>1. \A y \in Exchanges : exp'[y].pc = "save" => Decided(y, "consumer")'
    BY <1>1, <1>2 DEF IInv, SaversHaveTold, HandlersMayDie, Sides
  <2>2. ASSUME NEW y \in Exchanges, NEW q \in Resources, imp'[y][q].pc = "save"
        PROVE  Decided(imp[y][q].doc, Peer(DocSide(y, imp[y][q])))'
    <3>1. imp'[y][q] = imp[y][q]
      BY <1>1, <2>2 DEF ImportsMayDie, Remains
    <3>2. QED
      BY <1>1, <2>2, <3>1 DEF IInv, SaversHaveTold, Decided, DocSide
  <2>3. QED
    BY <2>1, <2>2 DEF SaversHaveTold
<1>7. SentInOrder'
  <2>1. \A y \in Exchanges : exp'[y].r = exp[y].r /\ (exp'[y].pc \in Sending => exp[y].pc \in Sending)
    BY <1>1 DEF HandlersMayDie, Sending
  <2>2. \A y \in Exchanges, q \in Resources : imp[y][q].pc = "idle" => imp'[y][q].pc = "idle"
    BY <1>1 DEF ImportsMayDie, Remains
  <2>3. QED
    BY <2>1, <2>2 DEF IInv, SentInOrder
<1>8. DocsOf'
  BY <1>1, <1>2, MisledStays DEF DocsOf, ImportsMayDie
<1>9. PeerToldFirst'
  <2>1. \A y \in Exchanges : MeddledHalfWay(y) => MeddledHalfWay(y)'
    BY <1>1, MeddledStays DEF ImportsMayDie
  <2>2. QED
    BY <1>1, <1>2, <2>1 DEF IInv, PeerToldFirst, Sides
<1>10. SuccessAnswerIsGrounded'
  BY <1>1, <1>2 DEF IInv, SuccessAnswerIsGrounded, HandlersMayDie, ImportsMayDie, Remains, Sides
<1>11. QED
  BY <1>3, <1>4, <1>5, <1>6, <1>7, <1>8, <1>9, <1>10 DEF IInv

\* A step of the trigger or the create handler of x, seen by the invariant.
StartEffect(x) ==
    /\ UNCHANGED <<origin, imp>>
    /\ \A y \in Exchanges \ {x} :
          trig'[y] = trig[y] /\ cre'[y] = cre[y] /\ exp'[y] = exp[y]
    /\ \A y \in Exchanges \ {x}, s \in Sides : linked'[y][s] = linked[y][s]
    /\ \A s \in Sides : linked[x][s] => linked'[x][s]
    /\ \E t \in Sides : \A y \in Exchanges, s \in Sides :
          status'[y][s] # status[y][s] =>
              y = x /\ s = t /\ status[y][s] = "absent" /\ status'[y][s] = "PENDING"
    /\ trig'[x] # trig[x] /\ trig'[x] \in TriggerEnds => UNCHANGED status
    /\ trig'[x] # trig[x] => trig[x] \notin TriggerEnds
    /\ \/ exp'[x] = exp[x]
       \/ /\ exp[x].pc = "idle" /\ exp'[x].pc = "find" /\ exp'[x].pep = exp[x].pep
          /\ exp'[x].r = exp[x].r
    /\ trig'[x] = "success" => trig[x] = "success" \/ status[x][origin[x]] = "IMPORT_SUCCESS"

\* Each step of the trigger has such an effect and keeps the records in step.
LEMMA TriggerEffects ==
    ASSUME IInv, NEW x \in Exchanges, TriggerStep(x)
    PROVE  StartEffect(x) /\ Progress(x)'
<1> DEFINE own == origin[x]
<1> DEFINE peer == Peer(origin[x])
<1>t. TypeOK /\ Progress(x)
  BY DEF IInv, RecordsFollowHandlers
<1>s. own \in Sides /\ peer \in Sides /\ own # peer
  BY <1>t, SidesType
<1>1. CASE TriggerStart(x)
  <2>1. UNCHANGED <<origin, linked, cre, exp, imp>> /\ trig[x] = "idle"
    BY <1>1 DEF TriggerStart
  <2>2. trig'[x] \in {"error", "post"} /\ \A y \in Exchanges \ {x} : trig'[y] = trig[y]
    BY <1>1, <1>t, Writes DEF TriggerStart
  <2>3. \A y \in Exchanges, s \in Sides :
            status'[y][s] # status[y][s] => y = x /\ s = own /\ status'[y][s] = "PENDING"
    BY <1>1, <1>t, <1>s, RecordWrites DEF TriggerStart
  <2>4. status[x][own] = "absent" /\ cre[x] = "idle" /\ exp[x].pc = "idle"
    BY <1>t, <2>1 DEF Progress
  <2>5. trig'[x] = "error" => UNCHANGED status
    BY <1>1, <1>t, Writes DEF TriggerStart
  <2>6. StartEffect(x)
    BY <1>s, <2>1, <2>2, <2>3, <2>4, <2>5 DEF StartEffect, TriggerEnds
  <2>7. trig'[x] = "post" => status'[x][own] = "PENDING"
    BY <1>1, <1>t, <1>s, Writes, RecordWrites DEF TriggerStart
  <2>8. status'[x][peer] = status[x][peer]
    BY <1>s, <2>3
  <2>9. Progress(x)'
    BY <1>t, <1>s, <2>1, <2>2, <2>4, <2>7, <2>8 DEF Progress, Peer
  <2>10. QED
    BY <2>6, <2>9
<1>2. CASE TriggerPost(x)
  <2>1. UNCHANGED <<origin, status, linked, exp, imp>> /\ trig[x] = "post"
    BY <1>2 DEF TriggerPost
  <2>2. /\ \/ trig'[x] = "creating" /\ cre'[x] = "create"
           \/ trig'[x] = "error" /\ cre'[x] = cre[x]
        /\ \A y \in Exchanges \ {x} : trig'[y] = trig[y] /\ cre'[y] = cre[y]
    BY <1>2, <1>t, Writes DEF TriggerPost
  <2>3. StartEffect(x)
    BY <1>s, <2>1, <2>2 DEF StartEffect, TriggerEnds
  <2>4. Progress(x)'
    BY <1>t, <2>1, <2>2 DEF Progress, Peer
  <2>5. QED
    BY <2>3, <2>4
<1>3. CASE TriggerCreated(x)
  <2>1. UNCHANGED <<origin, status, cre, exp, imp>> /\ trig[x] = "creating"
    BY <1>3 DEF TriggerCreated
  <2>2. /\ \/ trig'[x] = "export" /\ cre[x] = "ok"
           \/ trig'[x] = "error"
        /\ \A y \in Exchanges \ {x} : trig'[y] = trig[y]
    BY <1>3, <1>t, Writes DEF TriggerCreated
  <2>3. \A y \in Exchanges, s \in Sides :
            /\ y # x => linked'[y][s] = linked[y][s]
            /\ linked[y][s] => linked'[y][s]
    BY <1>3, <1>t, <1>s, RecordWrites DEF TriggerCreated
  <2>4. StartEffect(x)
    BY <1>s, <2>1, <2>2, <2>3 DEF StartEffect, TriggerEnds
  <2>5. (\E s \in Sides : linked'[x][s]) => \A s \in Sides : status[x][s] # "absent"
    <3>1. linked' = linked \/ cre[x] = "ok"
      BY <1>3 DEF TriggerCreated
    <3>2. cre[x] = "ok" => linked[x][peer]
      BY <1>t DEF Progress
    <3>3. QED
      BY <1>t, <1>s, <3>1, <3>2 DEF Progress
  <2>6. Progress(x)'
    BY <1>t, <1>s, <2>1, <2>2, <2>3, <2>5 DEF Progress, Peer
  <2>7. QED
    BY <2>4, <2>6
<1>4. CASE TriggerExport(x)
  <2>1. UNCHANGED <<origin, status, linked, cre, imp>> /\ trig[x] = "export"
    BY <1>4 DEF TriggerExport
  <2>2. /\ trig'[x] \in {"exporting", "error"}
        /\ \A y \in Exchanges \ {x} : trig'[y] = trig[y]
    BY <1>4, <1>t, Writes DEF TriggerExport
  <2>3. /\ exp'[x] = [exp[x] EXCEPT !.pc = "find"] \/ exp'[x] = exp[x]
        /\ \A y \in Exchanges \ {x} : exp'[y] = exp[y]
    BY <1>4, <1>t, Writes DEF TriggerExport
  <2>4. exp[x].pc = "idle" /\ cre[x] = "ok" /\ exp[x] \in ExportHandler
    BY <1>t, <2>1, HandlerTypes DEF Progress
  <2>5. StartEffect(x)
    BY <1>s, <2>1, <2>2, <2>3, <2>4 DEF StartEffect, TriggerEnds, ExportHandler
  <2>6. Progress(x)'
    BY <1>t, <2>1, <2>2, <2>4 DEF Progress, Peer
  <2>7. QED
    BY <2>5, <2>6
<1>5. CASE TriggerExported(x) \/ TriggerTimeout(x)
  <2>1. /\ UNCHANGED <<origin, status, linked, cre, exp, imp>>
        /\ trig[x] \in {"exporting", "poll"}
    BY <1>5 DEF TriggerExported, TriggerTimeout
  <2>2. /\ trig'[x] \in {"poll", "error", "timeout"}
        /\ \A y \in Exchanges \ {x} : trig'[y] = trig[y]
    BY <1>5, <1>t, Writes DEF TriggerExported, TriggerTimeout
  <2>3. StartEffect(x)
    BY <1>s, <2>1, <2>2 DEF StartEffect, TriggerEnds
  <2>4. Progress(x)'
    BY <1>t, <2>1, <2>2 DEF Progress, Peer
  <2>5. QED
    BY <2>3, <2>4
<1>6. CASE TriggerPoll(x)
  <2>1. UNCHANGED <<origin, status, linked, cre, exp, imp>> /\ trig[x] = "poll"
    BY <1>6 DEF TriggerPoll
  <2>2. /\ \/ trig'[x] = "success" /\ status[x][own] = "IMPORT_SUCCESS"
           \/ trig'[x] = "notok"
        /\ \A y \in Exchanges \ {x} : trig'[y] = trig[y]
    BY <1>6, <1>t, Writes DEF TriggerPoll
  <2>3. StartEffect(x)
    BY <1>s, <2>1, <2>2 DEF StartEffect, TriggerEnds
  <2>4. Progress(x)'
    BY <1>t, <2>1, <2>2 DEF Progress, Peer
  <2>5. QED
    BY <2>3, <2>4
<1>7. QED
  BY <1>1, <1>2, <1>3, <1>4, <1>5, <1>6 DEF TriggerStep

\* So has each step of the create handler.
LEMMA CreateEffects ==
    ASSUME IInv, NEW x \in Exchanges, CreateStep(x)
    PROVE  StartEffect(x) /\ Progress(x)'
<1> DEFINE own == origin[x]
<1> DEFINE peer == Peer(origin[x])
<1>t. TypeOK /\ Progress(x)
  BY DEF IInv, RecordsFollowHandlers
<1>s. own \in Sides /\ peer \in Sides /\ own # peer
  BY <1>t, SidesType
<1>1. CASE CreateRecord(x)
  <2>1. UNCHANGED <<origin, trig, exp, imp>> /\ cre[x] = "create"
    BY <1>1 DEF CreateRecord
  <2>2. cre'[x] = "sync" /\ \A y \in Exchanges \ {x} : cre'[y] = cre[y]
    BY <1>1, <1>t, Writes DEF CreateRecord
  <2>3. \A y \in Exchanges, s \in Sides :
            status'[y][s] # status[y][s] => y = x /\ s = peer /\ status'[y][s] = "PENDING"
    BY <1>1, <1>t, <1>s, RecordWrites DEF CreateRecord
  <2>4. /\ linked'[x][peer]
        /\ \A y \in Exchanges \ {x}, s \in Sides : linked'[y][s] = linked[y][s]
        /\ \A s \in Sides : linked[x][s] => linked'[x][s]
    BY <1>1, <1>t, <1>s, RecordWrites DEF CreateRecord
  <2>5. status[x][peer] = "absent" /\ trig[x] # "idle" /\ trig[x] # "post"
    BY <1>t, <2>1 DEF Progress
  <2>6. StartEffect(x)
    BY <1>s, <2>1, <2>2, <2>3, <2>4, <2>5 DEF StartEffect, TriggerEnds
  <2>7. status'[x][peer] = "PENDING" /\ status'[x][own] = status[x][own]
    BY <1>1, <1>t, <1>s, RecordWrites DEF CreateRecord
  <2>8. Progress(x)'
    <3>1. status[x][own] # "absent"
      BY <1>t, <2>1 DEF Progress
    <3>2. \A s \in Sides : status'[x][s] # "absent"
      BY <1>t, <2>7, <3>1, SidesType
    <3>3. QED
      BY <1>t, <2>1, <2>2, <2>4, <2>5, <2>7, <3>2 DEF Progress, Peer
  <2>9. QED
    BY <2>6, <2>8
<1>2. CASE CreateSync(x)
  <2>1. UNCHANGED <<origin, status, trig, exp, imp>> /\ cre[x] = "sync"
    BY <1>2 DEF CreateSync
  <2>2. /\ \/ cre'[x] = "ok" /\ linked' = WithPeer(x, own)
           \/ cre'[x] = "fail"
        /\ \A y \in Exchanges \ {x} : cre'[y] = cre[y]
    BY <1>2, <1>t, Writes DEF CreateSync
  <2>3. linked' \in {linked, WithPeer(x, own)}
    BY <1>2 DEF CreateSync
  <2>4. \A y \in Exchanges, s \in Sides :
            /\ y # x => linked'[y][s] = linked[y][s]
            /\ linked[y][s] => linked'[y][s]
    BY <1>t, <1>s, <2>3, RecordWrites
  <2>5. cre'[x] = "ok" => linked'[x][own] /\ linked'[x][peer]
    <3>1. linked[x][peer]
      BY <1>t, <2>1 DEF Progress
    <3>2. QED
      BY <1>t, <1>s, <2>2, <2>4, <3>1, RecordWrites
  <2>6. StartEffect(x)
    BY <1>s, <2>1, <2>2, <2>4 DEF StartEffect, TriggerEnds
  <2>7. Progress(x)'
    <3>1. \A s \in Sides : status[x][s] # "absent"
      BY <1>t, <1>s, <2>1 DEF Progress
    <3>2. linked[x][peer] /\ linked'[x][peer]
      BY <1>t, <1>s, <2>1, <2>4 DEF Progress
    <3>3. QED
      BY <1>t, <2>1, <2>2, <2>5, <3>1, <3>2 DEF Progress, Peer
  <2>8. QED
    BY <2>6, <2>7
<1>3. QED
  BY <1>1, <1>2 DEF CreateStep

\* What the two handlers do keeps the invariant.
LEMMA StartInvariant ==
    ASSUME IInv, TypeOK', NEW x \in Exchanges, StartEffect(x), Progress(x)'
    PROVE  IInv'
<1>1. RecordsFollowHandlers'
  <2> SUFFICES ASSUME NEW y \in Exchanges PROVE Progress(y)'
    BY DEF RecordsFollowHandlers
  <2>1. CASE y = x
    BY <2>1
  <2>2. CASE y # x
    <3>1. origin[y] \in Sides /\ Peer(origin[y]) \in Sides
      BY SidesType DEF IInv
    <3>2. QED
      BY <2>2, <3>1 DEF IInv, RecordsFollowHandlers, Progress, StartEffect, Peer
  <2>3. QED
    BY <2>1, <2>2
<1>2. \A y \in Exchanges, s \in Sides :
          /\ status'[y][s] \in Outcomes <=> status[y][s] \in Outcomes
          /\ status'[y][s] \in Outcomes => status'[y][s] = status[y][s]
  BY DEF StartEffect, Outcomes, ConsumerOutcomes, ProviderOutcomes
<1>3. PermissionFollowsExport'
  BY DEF IInv, PermissionFollowsExport, StartEffect
<1>4. OutcomesHaveAuthors'
  BY <1>2 DEF IInv, OutcomesHaveAuthors, StartEffect, Outcomes, ConsumerOutcomes,
       ProviderOutcomes
<1>d. \A y \in Exchanges, s \in Sides : Decided(y, s)' <=> Decided(y, s)
  BY <1>2 DEF Decided
<1>5. SaversHaveTold'
  <2>1. \A y \in Exchanges : exp'[y].pc = "save" => Decided(y, "consumer")'
    BY <1>d DEF IInv, SaversHaveTold, StartEffect, Sides
  <2>2. ASSUME NEW y \in Exchanges, NEW q \in Resources, imp[y][q].pc = "save"
        PROVE  Decided(imp[y][q].doc, Peer(DocSide(y, imp[y][q])))'
    <3>1. imp' = imp
      BY DEF StartEffect
    <3>2. Decided(imp[y][q].doc, Peer(DocSide(y, imp[y][q])))
      BY <2>2 DEF IInv, SaversHaveTold
    <3>3. imp[y][q].doc \in Exchanges /\ Peer(DocSide(y, imp[y][q])) \in Sides
      BY DocType DEF IInv
    <3>4. QED
      BY <1>2, <3>1, <3>2, <3>3 DEF Decided, DocSide
  <2>3. QED
    BY <2>1, <2>2 DEF SaversHaveTold, StartEffect
<1>o. SentInOrder'
  BY DEF IInv, SentInOrder, StartEffect, Sending
<1>m. DocsOf'
  <2> SUFFICES ASSUME NEW y \in Exchanges, NEW r \in Resources PROVE Misled(y, imp[y][r])'
    BY DEF DocsOf
  <2>1. CASE imp[y][r].doc = y
    BY <2>1 DEF Misled, StartEffect
  <2>2. CASE imp[y][r].doc # y
    <3>1. /\ imp[y][r].doc \in Exchanges /\ imp' = imp /\ "provider" \in Sides
          /\ Misled(y, imp[y][r])
      BY DocType DEF IInv, DocsOf, StartEffect, Sides
    <3>2. linked[imp[y][r].doc]["provider"] => linked'[imp[y][r].doc]["provider"]
      BY <3>1 DEF StartEffect
    <3>3. QED
      BY <1>d, <2>2, <3>1, <3>2 DEF Misled, Decided
  <2>3. QED
    BY <2>1, <2>2
<1>6. PeerToldFirst'
  <2>1. \A y \in Exchanges : MeddledHalfWay(y) => MeddledHalfWay(y)'
    BY MeddledStays DEF Remains, StartEffect
  <2>2. \A y \in Exchanges, s \in Sides : status'[y][s] \in Outcomes => status'[y][s] = status[y][s]
    BY <1>2
  <2>3. QED
    BY <1>d, <2>1, <2>2 DEF IInv, PeerToldFirst, Sides, Outcomes, ConsumerOutcomes,
         ProviderOutcomes
<1>7. SuccessAnswerIsGrounded'
  <2> SUFFICES ASSUME NEW y \in Exchanges, trig'[y] = "success"
               PROVE  /\ exp'[y].pep /\ status'[y]["provider"] \in Outcomes
                      /\ \E r \in Resources : imp'[y][r].pc # "idle"
    BY DEF SuccessAnswerIsGrounded, Decided
  <2>1. trig[y] = "success" \/ status[y][origin[y]] = "IMPORT_SUCCESS"
    BY DEF StartEffect
  <2>2. origin[y] \in Sides
    BY SidesType DEF IInv
  <2>3. \E r \in Resources : imp[y][r].pc # "idle"
    BY <2>1, <2>2 DEF IInv, SuccessAnswerIsGrounded, OutcomesHaveAuthors
  <2>4. exp[y].pep
    BY <2>3 DEF IInv, PermissionFollowsExport
  <2>5. status[y]["provider"] \in Outcomes
    BY <2>1, <2>2 DEF IInv, SuccessAnswerIsGrounded, PeerToldFirst, Decided, Sides,
         Outcomes, ConsumerOutcomes
  <2>6. QED
    BY <1>2, <2>3, <2>4, <2>5 DEF StartEffect, Sides
<1>8. QED
  BY <1>1, <1>3, <1>4, <1>5, <1>o, <1>m, <1>6, <1>7 DEF IInv

\* Every step of the system keeps the invariant.
LEMMA InvariantStep == IInv /\ [Next]_vars => IInv'
<1> SUFFICES ASSUME IInv, [Next]_vars PROVE IInv'
  OBVIOUS
<1>1. TypeOK'
  BY TypeStep DEF IInv
<1>2. ASSUME NEW x \in Exchanges, TriggerStep(x) \/ CreateStep(x) PROVE IInv'
  BY <1>1, <1>2, TriggerEffects, CreateEffects, StartInvariant
<1>3. ASSUME NEW x \in Exchanges, ExportStep(x) PROVE IInv'
  BY <1>1, <1>3, ExportInvariant
<1>4. ASSUME NEW x \in Exchanges, NEW r \in Resources, ImportStep(x, r) PROVE IInv'
  BY <1>1, <1>4, ImportInvariant
<1>5. ASSUME NEW c \in Connectors, Crash(c) PROVE IInv'
  BY <1>1, <1>5, CrashInvariant
<1>6. CASE UNCHANGED vars
  BY <1>1, <1>6 DEF vars, IInv, RecordsFollowHandlers, Progress, Peer,
       PermissionFollowsExport, OutcomesHaveAuthors, SaversHaveTold, SentInOrder, DocsOf,
       Misled, DocSide, PeerToldFirst, MeddledHalfWay, SuccessAnswerIsGrounded, Decided
<1>7. QED
  BY <1>2, <1>3, <1>4, <1>5, <1>6 DEF Next

\* The inductive invariant holds in every state that can be reached.
THEOREM Invariant == Spec => []IInv
<1>1. Init => IInv
  BY InitInvariant
<1>2. IInv /\ [Next]_vars => IInv'
  BY InvariantStep
<1>3. QED
  BY <1>1, <1>2, PTL DEF Spec

-----------------------------------------------------------------------------
(* The safety properties *)

\* The peer has left PENDING before a connector records an outcome of its own.
THEOREM PeerIsToldFirst == Spec => []PeerToldFirst
<1>1. IInv => PeerToldFirst
  BY DEF IInv
<1>2. QED
  BY <1>1, Invariant, PTL

\* An answer success: true is grounded in a permission and in an import.
THEOREM SuccessIsGrounded == Spec => []SuccessAnswerIsGrounded
<1>1. IInv => SuccessAnswerIsGrounded
  BY DEF IInv
<1>2. QED
  BY <1>1, Invariant, PTL

\* Nothing reaches the consumer without the permission of the provider's PEP.
THEOREM PolicyGateHolds == Spec => []PolicyGate
<1>1. IInv => PolicyGate
  BY DEF IInv, PermissionFollowsExport, OutcomesHaveAuthors, PolicyGate
<1>2. QED
  BY <1>1, Invariant, PTL

\* A handler finds the record it looks up by the other connector's _id.
THEOREM RecordsAreFound == Spec => []HandlersFindTheirRecord
<1>1. IInv => HandlersFindTheirRecord
  <2> SUFFICES ASSUME IInv, NEW x \in Exchanges
               PROVE  exp[x].pc # "idle" => \A s \in Sides : linked[x][s]
    BY DEF IInv, PermissionFollowsExport, HandlersFindTheirRecord, Sides
  <2>1. Sides = {origin[x], Peer(origin[x])}
    BY SidesType DEF IInv
  <2>2. QED
    BY <2>1 DEF IInv, RecordsFollowHandlers, Progress
<1>2. QED
  BY <1>1, Invariant, PTL

\* What a step may write: an outcome replaces anything, PENDING a missing record;
\* the outcome of an import is that of a permitted exchange, or a foreign error.
LEMMA StatusWrites ==
    ASSUME IInv, [Next]_vars, NEW y \in Exchanges, NEW s \in Sides,
           status'[y][s] # status[y][s]
    PROVE  \/ status[y][s] = "absent" /\ status'[y][s] = "PENDING"
           \/ /\ status'[y][s] = exp[y].want /\ exp[y].want \in ProviderOutcomes
           \/ status'[y][s] \in ConsumerOutcomes /\ exp[y].pep
           \/ status'[y][s] = "CONSUMER_IMPORT_ERROR" /\ Meddled(y)
<1>1. ASSUME NEW x \in Exchanges, TriggerStep(x) \/ CreateStep(x)
      PROVE  status[y][s] = "absent" /\ status'[y][s] = "PENDING"
  BY <1>1, TriggerEffects, CreateEffects DEF StartEffect
<1>2. ASSUME NEW x \in Exchanges, ExportStep(x)
      PROVE  status'[y][s] = exp[y].want /\ exp[y].want \in ProviderOutcomes
  BY <1>2, ExportEffects, HandlerTypes DEF IInv, ExportEffect, ExportHandler
<1>3. ASSUME NEW x \in Exchanges, NEW r \in Resources, ImportStep(x, r)
      PROVE  \/ status'[y][s] \in ConsumerOutcomes /\ exp[y].pep
             \/ status'[y][s] = "CONSUMER_IMPORT_ERROR" /\ Meddled(y)
  <2>1. ImportEffect(x, r) /\ imp[x][r].pc # "idle"
    BY <1>3, ImportEffects DEF IInv, ImportEffect
  <2>2. y = imp[x][r].doc /\ status'[y][s] = imp[x][r].want /\ imp[x][r].want \in ConsumerOutcomes
    BY <2>1, ImportWrites DEF ImportWrite
  <2>3. CASE y = x
    BY <2>1, <2>2, <2>3 DEF IInv, PermissionFollowsExport
  <2>4. CASE y # x
    BY <2>2, <2>4 DEF IInv, DocsOf, Misled, Meddled
  <2>5. QED
    BY <2>3, <2>4
<1>4. ~UNCHANGED vars
  BY DEF vars
<1>5. ASSUME NEW c \in Connectors, Crash(c) PROVE FALSE
  BY <1>5 DEF Crash
<1>6. QED
  BY <1>1, <1>2, <1>3, <1>4, <1>5 DEF Next

\* A record that has an outcome never goes back to PENDING.
THEOREM OutcomesStay == Spec => DecidedStays
<1>1. IInv /\ [Next]_vars =>
          [\A x \in Exchanges, s \in Sides :
              status[x][s] \in Outcomes => status'[x][s] \in Outcomes]_vars
  BY StatusWrites DEF Outcomes, ConsumerOutcomes, ProviderOutcomes
<1>2. QED
  BY <1>1, Invariant, PTL DEF Spec, DecidedStays

\* A refusal by the policy is never overwritten by an outcome of an import of its
\* exchange, and by that of another only with an import error.
THEOREM RefusalsAreFinal == Spec => RefusalIsFinal
<1>1. IInv /\ [Next]_vars =>
          [\A x \in Exchanges, s \in Sides :
              status[x][s] = "PEP_ERROR" =>
                  \/ status'[x][s] \in {"PEP_ERROR", "PROVIDER_EXPORT_ERROR"}
                  \/ status'[x][s] = "CONSUMER_IMPORT_ERROR" /\ Meddled(x)]_vars
  BY StatusWrites DEF IInv, OutcomesHaveAuthors, ProviderOutcomes
<1>2. QED
  BY <1>1, Invariant, PTL DEF Spec, RefusalIsFinal

-----------------------------------------------------------------------------
(* The two connectors implement ExchangeOutcome *)

\* The initial state is an initial state of the abstract specification.
LEMMA InitImplements == Init => Outcome!Init
  BY DEF Init, IdleExport, Permitted, Answered, Outcome!Init, Outcome!Sides, Sides

\* A step that writes one outcome, and nothing else of what the abstract
\* specification sees, is a step of it.
LEMMA WritesOutcome ==
    ASSUME IInv, IInv', NEW x \in Exchanges, NEW s \in Sides, exp[x].pc # "idle",
           UNCHANGED <<Permitted, Answered>>,
           \A y \in Exchanges, t \in Sides :
              status'[y][t] # status[y][t] => y = x /\ t = s,
           status'[x][s] \in Outcomes,
           status'[x][s] \in ConsumerOutcomes =>
              /\ status'[x][s] = "PROVIDER_EXPORT_ERROR" \/ exp[x].pep
              /\ s = "consumer" => status'[x][s] = "PROVIDER_EXPORT_ERROR" \/ Decided(x, "provider")
    PROVE  Outcome!Next
<1> DEFINE w == status'[x][s]
<1>1. status' = [status EXCEPT ![x][s] = w]
  BY DEF IInv, TypeOK
<1>2. status[x][s] # "absent"
  <2>1. Sides = {origin[x], Peer(origin[x])}
    BY SidesType DEF IInv
  <2>2. QED
    BY <2>1 DEF IInv, RecordsFollowHandlers, Progress
<1>3. exp'[x].pep = exp[x].pep
  BY DEF Permitted
<1>4. w \in Outcome!ImportOutcomes => Permitted[x]
  BY DEF Outcome!ImportOutcomes, ConsumerOutcomes, Permitted
<1>5. w = "PEP_ERROR" => ~Permitted[x]
  BY <1>3 DEF IInv, OutcomesHaveAuthors, Permitted
<1>6. Outcome!Outcomes = Outcomes /\ Outcome!Sides = Sides
  BY DEF Outcome!Outcomes, Outcome!ImportOutcomes, Outcomes, ConsumerOutcomes,
       ProviderOutcomes, Outcome!Sides, Sides
<1>7. w \in Outcome!OwnOutcomes(s) => \E t \in Sides \ {s} : status[x][t] \in Outcomes
  <2>1. CASE s = "consumer"
    <3>1. w \in Outcome!OwnOutcomes(s) => status[x]["provider"] \in Outcomes
      BY <2>1 DEF Decided, Outcome!OwnOutcomes, Outcome!ImportOutcomes, ConsumerOutcomes
    <3>2. QED
      BY <2>1, <3>1 DEF Sides
  <2>2. CASE s = "provider"
    <3>1. w \in Outcome!OwnOutcomes(s) => status'[x]["consumer"] \in Outcomes
      BY <2>2 DEF IInv, PeerToldFirst, Decided, Outcome!OwnOutcomes
    <3>2. status'[x]["consumer"] = status[x]["consumer"] /\ "consumer" \in Sides \ {s}
      BY <2>2 DEF Sides
    <3>3. QED
      BY <3>1, <3>2
  <2>3. QED
    BY <2>1, <2>2 DEF Sides
<1>8. Outcome!Decide(x, s, w)
  BY <1>1, <1>2, <1>4, <1>5, <1>6, <1>7 DEF Outcome!Decide, Outcome!Decided
<1>9. QED
  BY <1>6, <1>8 DEF Outcome!Next

\* A step that changes nothing the abstract specification sees is a stutter.
LEMMA Stutters ==
    UNCHANGED <<status, Permitted, Answered>> => [Outcome!Next]_(Outcome!vars)
  BY DEF Outcome!vars

\* The steps of the trigger and create handlers open a record or answer.
LEMMA StartImplements ==
    ASSUME IInv, IInv', NEW x \in Exchanges, StartEffect(x)
    PROVE  [Outcome!Next]_(Outcome!vars)
<1>1. UNCHANGED Permitted
  BY DEF StartEffect, Permitted
<1>2. \A y \in Exchanges \ {x} : Answered'[y] = Answered[y]
  BY DEF StartEffect, Answered
<1>3. CASE status' # status
  <2>1. UNCHANGED Answered
    <3>1. trig'[x] # trig[x] => trig'[x] \notin TriggerEnds /\ trig[x] \notin TriggerEnds
      BY <1>3 DEF StartEffect
    <3>2. \A y \in Exchanges \ {x} : trig'[y] = trig[y]
      BY DEF StartEffect
    <3>3. QED
      BY <3>1, <3>2 DEF Answered, TriggerEnds
  <2>2. PICK t \in Sides : \A y \in Exchanges, s \in Sides :
            status'[y][s] # status[y][s] =>
                y = x /\ s = t /\ status[y][s] = "absent" /\ status'[y][s] = "PENDING"
    BY DEF StartEffect
  <2>3. status[x][t] = "absent" /\ status' = [status EXCEPT ![x][t] = "PENDING"]
    <3>1. status'[x][t] # status[x][t]
      <4> SUFFICES ASSUME status'[x][t] = status[x][t] PROVE FALSE
        OBVIOUS
      <4>1. \A y \in Exchanges, s \in Sides : status'[y][s] = status[y][s]
        BY <2>2
      <4>2. QED
        BY <1>3, <4>1 DEF IInv, TypeOK
    <3>2. status[x][t] = "absent" /\ status'[x][t] = "PENDING"
      BY <2>2, <3>1
    <3>3. QED
      BY <2>2, <3>2 DEF IInv, TypeOK
  <2>4. Outcome!Open(x, t)
    BY <1>1, <2>1, <2>3 DEF Outcome!Open
  <2>5. QED
    BY <2>4 DEF Outcome!Next, Outcome!Sides, Sides
<1>4. CASE status' = status /\ Answered'[x] # Answered[x]
  <2>1. Answered[x] = "none" /\ Answered'[x] \in {"success", "failure"}
    BY <1>4 DEF StartEffect, Answered, TriggerEnds
  <2>2. Answered' = [Answered EXCEPT ![x] = Answered'[x]]
    BY <1>2 DEF Answered
  <2>3. Answered'[x] = "success" =>
            /\ Permitted[x] /\ status[x]["provider"] \in Outcomes
            /\ \E s \in Sides : status[x][s] = "IMPORT_SUCCESS"
    <3> SUFFICES ASSUME Answered'[x] = "success" PROVE
            /\ Permitted[x] /\ status[x]["provider"] \in Outcomes
            /\ \E s \in Sides : status[x][s] = "IMPORT_SUCCESS"
      OBVIOUS
    <3>1. trig'[x] = "success" /\ trig[x] # "success"
      BY <2>1 DEF Answered
    <3>2. status[x][origin[x]] = "IMPORT_SUCCESS" /\ origin[x] \in Sides
      BY <3>1, SidesType DEF StartEffect, IInv
    <3>3. exp'[x].pep /\ status'[x]["provider"] \in Outcomes
      BY <3>1 DEF IInv, SuccessAnswerIsGrounded, Decided
    <3>4. QED
      BY <1>1, <1>4, <3>2, <3>3 DEF Permitted
  <2>4. Outcome!Answer(x, Answered'[x])
    BY <1>1, <1>4, <2>1, <2>2, <2>3 DEF Outcome!Answer, Outcome!Decided, Outcome!Outcomes,
         Outcome!ImportOutcomes, Outcomes, ConsumerOutcomes, ProviderOutcomes,
         Outcome!Sides, Sides
  <2>5. QED
    BY <2>1, <2>4 DEF Outcome!Next, Outcome!Answers
<1>5. CASE status' = status /\ Answered'[x] = Answered[x]
  <2>1. UNCHANGED Answered
    BY <1>2, <1>5 DEF Answered
  <2>2. QED
    BY <1>1, <1>5, <2>1, Stutters
<1>6. QED
  BY <1>3, <1>4, <1>5

\* The steps of the export handler permit, decide, or stutter.
LEMMA ExportImplements ==
    ASSUME IInv, IInv', NEW x \in Exchanges, ExportStep(x)
    PROVE  [Outcome!Next]_(Outcome!vars)
<1>1. ExportEffect(x) /\ exp[x] \in ExportHandler
  BY ExportEffects, HandlerTypes DEF IInv
<1>2. UNCHANGED Answered
  BY <1>1 DEF ExportEffect, Answered
<1>3. CASE exp'[x].pep # exp[x].pep
  <2>1. exp[x].pc = "pep" /\ exp'[x].pep /\ ~exp[x].pep
    BY <1>1, <1>3 DEF ExportEffect, IInv, PermissionFollowsExport
  <2>2. Permitted' = [Permitted EXCEPT ![x] = TRUE] /\ ~Permitted[x]
    <3>1. \A y \in Exchanges \ {x} : exp'[y] = exp[y]
      BY <1>1 DEF ExportEffect
    <3>2. exp'[x].pep = TRUE
      <4>1. exp'[x].pep \in BOOLEAN
        BY DEF IInv, TypeOK, ExportHandler
      <4>2. QED
        BY <2>1, <4>1
    <3>3. QED
      BY <2>1, <3>1, <3>2 DEF Permitted
  <2>3. status' = status
    <3>1. \A y \in Exchanges, s \in Sides : status'[y][s] = status[y][s]
      BY <1>1, <2>1 DEF ExportEffect
    <3>2. QED
      BY <3>1 DEF IInv, TypeOK
  <2>4. \A s \in Sides : status[x][s] \notin {"IMPORT_SUCCESS", "PEP_ERROR"}
    BY <2>1 DEF IInv, OutcomesHaveAuthors, PermissionFollowsExport
  <2>5. Outcome!Permit(x)
    BY <1>2, <2>2, <2>3, <2>4 DEF Outcome!Permit, Outcome!Sides, Sides
  <2>6. QED
    BY <2>5 DEF Outcome!Next
<1>4. CASE exp'[x].pep = exp[x].pep
  <2>1. UNCHANGED Permitted
    BY <1>1, <1>4 DEF ExportEffect, Permitted
  <2>2. CASE status' = status
    BY <1>2, <2>1, <2>2, Stutters
  <2>3. CASE status' # status
    <3>1. PICK y \in Exchanges, s \in Sides : status'[y][s] # status[y][s]
      BY <2>3 DEF IInv, TypeOK
    <3>2. y = x /\ status'[x][s] = exp[x].want /\ exp[x].want \in ProviderOutcomes
      BY <1>1, <3>1 DEF ExportEffect, ExportHandler
    <3>3. \A z \in Exchanges, t \in Sides :
              status'[z][t] # status[z][t] => z = x /\ t = s
      BY <1>1, <3>1 DEF ExportEffect
    <3>4. exp[x].pc # "idle"
      BY <1>1 DEF ExportEffect
    <3>5. Outcome!Next
      BY <1>2, <2>1, <3>2, <3>3, <3>4, WritesOutcome DEF Outcomes, ProviderOutcomes,
           ConsumerOutcomes
    <3>6. QED
      BY <3>5
  <2>4. QED
    BY <2>2, <2>3
<1>5. QED
  BY <1>3, <1>4

\* A connector's death is invisible: whoever was not answered never will be.
LEMMA DeathIsUnseen ==
    ASSUME IInv, HandlersMayDie
    PROVE  UNCHANGED <<Permitted, Answered>>
<1>1. \A y \in Exchanges : exp'[y].pep = exp[y].pep
  BY DEF HandlersMayDie
<1>2. QED
  BY <1>1 DEF HandlersMayDie, Permitted, Answered, TriggerEnds

\* The steps of an import handler decide, misfile or stutter.
LEMMA ImportImplements ==
    ASSUME IInv, IInv', NEW x \in Exchanges, NEW r \in Resources, ImportStep(x, r)
    PROVE  [Outcome!Next]_(Outcome!vars)
<1> DEFINE h == imp[x][r]
<1> DEFINE y == h.doc
<1>1. ImportEffect(x, r)
  BY ImportEffects DEF IInv
<1>2. UNCHANGED <<Permitted, Answered>>
  BY <1>1, DeathIsUnseen DEF ImportEffect
<1>3. CASE status' = status
  BY <1>2, <1>3, Stutters
<1>4. CASE status' # status
  <2>1. PICK z \in Exchanges, s \in Sides : status'[z][s] # status[z][s]
    BY <1>4 DEF IInv, TypeOK
  <2>2. /\ \A v \in Exchanges, t \in Sides :
              status'[v][t] # status[v][t] => ImportWrite(x, h, v, t)
        /\ h.want \in ConsumerOutcomes
    BY <1>1, ImportWrites
  <2>3. /\ y \in Exchanges /\ DocSide(x, h) \in Sides
        /\ Peer(DocSide(x, h)) # DocSide(x, h)
    BY DocType DEF IInv
  <2>4. ImportWrite(x, h, y, s) /\ z = y
    BY <2>1, <2>2 DEF ImportWrite
  <2>5. \A v \in Exchanges, t \in Sides : status'[v][t] # status[v][t] => v = y /\ t = s
    BY <2>2, <2>3, <2>4 DEF ImportWrite
  <2>6. exp[x].pc # "idle" /\ exp[x].pep
    BY <1>1 DEF ImportEffect, IInv, PermissionFollowsExport
  <2>7. h.pc = "save" => Decided(y, Peer(DocSide(x, h)))
    BY DEF IInv, SaversHaveTold
  <2>8. status'[y][s] = h.want
    BY <2>4 DEF ImportWrite
  <2>9. CASE y = x
    <3>1. DocSide(x, h) = "consumer"
      BY <2>9 DEF DocSide
    <3>2. s = "consumer" => Decided(x, "provider")
      BY <2>4, <2>7, <2>9, <3>1 DEF ImportWrite, Peer
    <3>3. h.want \in Outcomes
      BY <2>2 DEF Outcomes
    <3>4. status'[x][s] \in Outcomes
      BY <2>8, <2>9, <3>3
    <3>5. \A v \in Exchanges, t \in Sides : status'[v][t] # status[v][t] => v = x /\ t = s
      BY <2>5, <2>9
    <3> HIDE DEF h, y
    <3>6. Outcome!Next
      BY <1>2, <2>6, <3>2, <3>4, <3>5, WritesOutcome
    <3>7. QED
      BY <3>6
  <2>10. CASE y # x
    <3>1. DocSide(x, h) = "provider" /\ h.want = "CONSUMER_IMPORT_ERROR"
      BY <2>10 DEF DocSide, IInv, DocsOf, Misled
    <3>2. s = "provider" => Decided(y, "consumer")
      BY <2>4, <2>7, <3>1 DEF ImportWrite, Peer
    <3>3. status' = [status EXCEPT ![y][s] = "CONSUMER_IMPORT_ERROR"]
      <4>1. /\ status \in [Exchanges -> [Sides -> Statuses]]
            /\ status' \in [Exchanges -> [Sides -> Statuses]]
        BY DEF IInv, TypeOK
      <4>2. status'[y][s] = "CONSUMER_IMPORT_ERROR"
        BY <2>8, <3>1
      <4> HIDE DEF h, y
      <4>3. QED
        BY <2>3, <2>5, <4>1, <4>2
    <3>4. status[y][s] # "absent" /\ Permitted[x] /\ x \in Exchanges \ {y}
      BY <2>4, <2>6, <2>10 DEF ImportWrite, Permitted
    <3>5. Outcome!Outcomes = Outcomes /\ Outcome!Sides = Sides
      BY DEF Outcome!Outcomes, Outcome!ImportOutcomes, Outcomes, ConsumerOutcomes,
           ProviderOutcomes, Outcome!Sides, Sides
    <3> HIDE DEF h, y
    <3>6. Outcome!Misfile(y, s)
      BY <1>2, <3>2, <3>3, <3>4, <3>5 DEF Outcome!Misfile, Outcome!Decided, Decided
    <3>7. QED
      BY <2>3, <3>5, <3>6 DEF Outcome!Next
  <2>11. QED
    BY <2>9, <2>10
<1>5. QED
  BY <1>3, <1>4

\* The records, the permission and the answers of the two connectors behave as
\* ExchangeOutcome says, whatever calls are lost and whoever crashes.
THEOREM Implements == Spec => ImplementsOutcome
<1>1. IInv /\ IInv' /\ [Next]_vars => [Outcome!Next]_(Outcome!vars)
  <2> SUFFICES ASSUME IInv, IInv', [Next]_vars PROVE [Outcome!Next]_(Outcome!vars)
    OBVIOUS
  <2>1. ASSUME NEW x \in Exchanges, TriggerStep(x) \/ CreateStep(x)
        PROVE  [Outcome!Next]_(Outcome!vars)
    BY <2>1, TriggerEffects, CreateEffects, StartImplements
  <2>2. ASSUME NEW x \in Exchanges, ExportStep(x) PROVE [Outcome!Next]_(Outcome!vars)
    BY <2>2, ExportImplements
  <2>3. ASSUME NEW x \in Exchanges, NEW r \in Resources, ImportStep(x, r)
        PROVE  [Outcome!Next]_(Outcome!vars)
    BY <2>3, ImportImplements
  <2>4. ASSUME NEW c \in Connectors, Crash(c) PROVE [Outcome!Next]_(Outcome!vars)
    <3>1. HandlersMayDie /\ UNCHANGED status
      BY <2>4, DeadEffects DEF IInv, Crash
    <3>2. QED
      BY <3>1, DeathIsUnseen, Stutters
  <2>5. CASE UNCHANGED vars
    BY <2>5, Stutters DEF vars, Permitted, Answered
  <2>6. QED
    BY <2>1, <2>2, <2>3, <2>4, <2>5 DEF Next
<1>2. QED
  BY <1>1, InitImplements, Invariant, PTL DEF Spec, ImplementsOutcome, Outcome!Spec

=============================================================================
