---------------------------- MODULE DataExchange ----------------------------
(***************************************************************************)
(* The business-to-business data exchange between the connector (PDC) of a *)
(* data consumer and the connector of a data provider.                     *)
(*                                                                         *)
(* Each connector keeps its own record of an exchange in its own MongoDB.  *)
(* Four request handlers work on the two records of one exchange:          *)
(*   trigger  POST consumer/exchange, at either side                       *)
(*            (consumerExchange),                                          *)
(*   create   POST dataexchanges, at the other side (createDataExchange),  *)
(*   export   POST provider/export or an in-process call, at the provider  *)
(*            (ProviderExportService),                                     *)
(*   import   POST consumer/import, one request per resource, at the       *)
(*            consumer (consumerImport).                                   *)
(* A handler runs alone between two awaits; at an await the handlers of    *)
(* every exchange interleave.  A call to the other connector can fail      *)
(* before it is handled, or after: then the caller goes on with an error   *)
(* while the handler it called keeps running.  A connector can crash       *)
(* between any two steps: its handlers vanish, its records stay.           *)
(*                                                                         *)
(* A connector is the consumer of some exchanges and the provider of       *)
(* others, and keeps the records of both in one collection.                *)
(***************************************************************************)
EXTENDS Integers, FiniteSets

CONSTANTS
    Exchanges,   \* the requests made to POST consumer/exchange
    Connectors,  \* the connectors of the dataspace
    Site,        \* Site[x][s]: the connector at side s of exchange x
    NResources,  \* length of the `resources` array of an exchange
    NPurposes,   \* length of its `purposes` array
    Formats,     \* MIME families the provider's catalogue declares
    MaxFaults    \* bound: failed calls and crashes in one behaviour

\* A connector does not exchange with itself.
ASSUME SiteAssumption ==
    /\ Site \in [Exchanges -> [{"consumer", "provider"} -> Connectors]]
    /\ \A x \in Exchanges : Site[x]["consumer"] # Site[x]["provider"]
ASSUME ArraysAssumption == NResources \in Nat \ {0} /\ NPurposes \in Nat \ {0}
ASSUME FormatsAssumption == Formats \subseteq {"json", "binary"}
ASSUME FaultsAssumption == MaxFaults \in Nat

VARIABLES
    origin,   \* origin[x]: the side whose connector receives the trigger
    status,   \* status[x][s]: the status field of the record at side s
    linked,   \* linked[x][s]: that record holds the _id of the peer's record
    trig,     \* trig[x]: progress, then answer, of the trigger handler
    cre,      \* cre[x]: progress of the create handler
    exp,      \* exp[x]: the export handler and its in-memory document
    imp,      \* imp[x][r]: the import handler of resource r
    stored,   \* stored[x][r]: purposes whose application received resource r
    count,    \* count[x]: increments of the usage counter due to x
    faults    \* number of faults so far

vars == <<origin, status, linked, trig, cre, exp, imp, stored, count, faults>>

-----------------------------------------------------------------------------
(* Data *)

Sides == {"consumer", "provider"}
Peer(s) == IF s = "consumer" THEN "provider" ELSE "consumer"
Resources == 1..NResources
Purposes == 1..NPurposes

\* The outcomes a handler of the consumer, and of the provider, may record.
ConsumerOutcomes == {"IMPORT_SUCCESS", "CONSUMER_IMPORT_ERROR",
                     "CONSENT_IMPORT_ERROR", "PROVIDER_EXPORT_ERROR"}
ProviderOutcomes == {"PEP_ERROR", "PROVIDER_EXPORT_ERROR"}
Outcomes == ConsumerOutcomes \cup ProviderOutcomes
Statuses == Outcomes \cup {"PENDING", "absent"}

TriggerEnds == {"success", "notok", "timeout", "error", "dead"}
TriggerStates == {"idle", "post", "creating", "export", "exporting", "poll"}
                    \cup TriggerEnds
CreateStates == {"idle", "create", "sync", "ok", "fail", "dead"}

\* want/next: the updateStatus in progress and where its caller resumes;
\* clean: the status the in-memory document believes the database holds;
\* caught: the handler is in its catch block;
\* doc: the exchange whose record an import handler holds in memory.
ExportEnds == {"done", "threw", "dead"}
ExportStates == {"idle", "find", "pep", "fetch", "send", "await", "count",
                 "put", "save", "catch"} \cup ExportEnds
ExportHandler ==
    [pc : ExportStates,
     r : Resources, want : ProviderOutcomes, next : {"done", "catch"},
     clean : Statuses, caught : BOOLEAN, pep : BOOLEAN, binary : BOOLEAN]

ImportEnds == {"ok", "fail", "dead"}
ImportStates == {"idle", "verify", "find", "purpose", "api", "put", "save",
                 "catch", "stray"} \cup ImportEnds
ImportHandler ==
    [pc : ImportStates,
     p : Purposes, want : ConsumerOutcomes,
     next : {"api", "more", "catch", "fail"},
     clean : Statuses, caught : BOOLEAN, binary : BOOLEAN, doc : Exchanges,
     verdict : {"none", "aligned", "misaligned"}]

IdleExport ==
    [pc |-> "idle", r |-> 1, want |-> "PROVIDER_EXPORT_ERROR", next |-> "done",
     clean |-> "PENDING", caught |-> FALSE, pep |-> FALSE, binary |-> FALSE]
IdleImport(x) ==
    [pc |-> "idle", p |-> 1, want |-> "CONSUMER_IMPORT_ERROR",
     next |-> "fail", clean |-> "PENDING", caught |-> FALSE, binary |-> FALSE,
     doc |-> x, verdict |-> "none"]

TypeOK ==
    /\ origin \in [Exchanges -> Sides]
    /\ status \in [Exchanges -> [Sides -> Statuses]]
    /\ linked \in [Exchanges -> [Sides -> BOOLEAN]]
    /\ trig \in [Exchanges -> TriggerStates]
    /\ cre \in [Exchanges -> CreateStates]
    /\ exp \in [Exchanges -> ExportHandler]
    /\ imp \in [Exchanges -> [Resources -> ImportHandler]]
    /\ stored \in [Exchanges -> [Resources -> SUBSET Purposes]]
    /\ count \in [Exchanges -> Nat]
    /\ faults \in Nat

Init ==
    /\ origin \in [Exchanges -> Sides]
    /\ status = [x \in Exchanges |-> [s \in Sides |-> "absent"]]
    /\ linked = [x \in Exchanges |-> [s \in Sides |-> FALSE]]
    /\ trig = [x \in Exchanges |-> "idle"]
    /\ cre = [x \in Exchanges |-> "idle"]
    /\ exp = [x \in Exchanges |-> IdleExport]
    /\ imp = [x \in Exchanges |-> [r \in Resources |-> IdleImport(x)]]
    /\ stored = [x \in Exchanges |-> [r \in Resources |-> {}]]
    /\ count = [x \in Exchanges |-> 0]
    /\ faults = 0

\* The records once side s has saved a status, or the _id of its peer's record.
WithStatus(x, s, want) == [status EXCEPT ![x][s] = want]
WithPeer(x, s) == [linked EXCEPT ![x][s] = TRUE]

\* Variant: the local record is saved without telling the peer.
UpdateLocal(h, want, next) == [h EXCEPT !.pc = "save", !.want = want, !.next = next]

\* updateStatus(want): set the in-memory status, PUT it to the peer, save.
Update(h, want, next) == [h EXCEPT !.pc = "put", !.want = want, !.next = next]

SetTrig(x, pc) == trig' = [trig EXCEPT ![x] = pc]
SetCre(x, pc) == cre' = [cre EXCEPT ![x] = pc]
SetExp(x, h) == exp' = [exp EXCEPT ![x] = h]
SetImp(x, r, h) == imp' = [imp EXCEPT ![x][r] = h]

\* A call of this step fails: the network or the other connector is at fault.
Fault == faults < MaxFaults /\ faults' = faults + 1
NoFault == UNCHANGED faults

-----------------------------------------------------------------------------
(* Crash of a connector: the handlers running in it, of whatever exchange,
   vanish.  docker-compose restarts the process; nothing resumes them. *)

DeadAt(c) ==
    /\ trig' = [x \in Exchanges |->
                  IF Site[x][origin[x]] = c /\ trig[x] \notin TriggerEnds \cup {"idle"}
                  THEN "dead" ELSE trig[x]]
    /\ cre' = [x \in Exchanges |->
                  IF Site[x][Peer(origin[x])] = c /\ cre[x] \in {"create", "sync"}
                  THEN "dead" ELSE cre[x]]
    /\ exp' = [x \in Exchanges |->
                  IF Site[x]["provider"] = c /\ exp[x].pc \notin ExportEnds \cup {"idle"}
                  THEN [exp[x] EXCEPT !.pc = "dead"] ELSE exp[x]]
    /\ imp' = [x \in Exchanges |-> [r \in Resources |->
                  IF Site[x]["consumer"] = c /\ imp[x][r].pc \notin ImportEnds \cup {"idle"}
                  THEN [imp[x][r] EXCEPT !.pc = "dead"] ELSE imp[x][r]]]

Crash(c) ==
    /\ Fault
    /\ DeadAt(c)
    /\ UNCHANGED <<origin, status, linked, stored, count>>

-----------------------------------------------------------------------------
(* The trigger handler, at side origin[x] *)

\* triggerBilateralFlow / triggerEcosystemFlow up to DataExchange.create: the
\* contract, the catalogue or the PII check stops it, or a record is created.
TriggerStart(x) ==
    /\ trig[x] = "idle"
    /\ \/ SetTrig(x, "error") /\ UNCHANGED status
       \/ /\ status' = WithStatus(x, origin[x], "PENDING")
          /\ SetTrig(x, "post")
    /\ UNCHANGED <<origin, linked, cre, exp, imp, stored, count, faults>>

\* createDataExchangeToOtherParticipant: POST dataexchanges ...
TriggerPost(x) ==
    /\ trig[x] = "post"
    /\ \/ /\ NoFault
          /\ SetTrig(x, "creating")
          /\ SetCre(x, "create")
       \/ Fault /\ SetTrig(x, "error") /\ UNCHANGED cre
    /\ UNCHANGED <<origin, status, linked, exp, imp, stored, count>>

\* ... and its answer: the peer's _id is saved, or the trigger answers 500.
TriggerCreated(x) ==
    /\ trig[x] = "creating"
    /\ \/ /\ cre[x] = "ok" /\ NoFault
          /\ linked' = WithPeer(x, origin[x])
          /\ SetTrig(x, "export")
       \/ /\ \/ cre[x] \in {"fail", "dead"} /\ NoFault
             \/ Fault
          /\ SetTrig(x, "error")
          /\ UNCHANGED linked
    /\ UNCHANGED <<origin, status, cre, exp, imp, stored, count>>

\* The provider exports in process; the consumer posts provider/export.
TriggerExport(x) ==
    /\ trig[x] = "export"
    /\ \/ /\ NoFault
          /\ SetTrig(x, "exporting")
          /\ SetExp(x, [exp[x] EXCEPT !.pc = "find"])
       \/ /\ origin[x] = "consumer" /\ Fault
          /\ SetTrig(x, "error")
          /\ UNCHANGED exp
    /\ UNCHANGED <<origin, status, linked, cre, imp, stored, count>>

TriggerExported(x) ==
    /\ trig[x] = "exporting"
    /\ \/ exp[x].pc = "done" /\ NoFault /\ SetTrig(x, "poll")
       \/ exp[x].pc \in {"threw", "dead"} /\ NoFault /\ SetTrig(x, "error")
       \/ origin[x] = "consumer" /\ Fault /\ SetTrig(x, "error")
    /\ UNCHANGED <<origin, status, linked, cre, exp, imp, stored, count>>

\* Variant: any record that is not an error counts as a success.
TriggerPollAny(x) ==
    /\ trig[x] = "poll"
    /\ SetTrig(x, IF status[x][origin[x]] \in {"PENDING", "IMPORT_SUCCESS"}
                  THEN "success" ELSE "notok")
    /\ UNCHANGED <<origin, status, linked, cre, exp, imp, stored, count, faults>>

\* Variant: the loop answers with the status itself.
TriggerPollRaw(x) ==
    /\ trig[x] = "poll"
    /\ status[x][origin[x]] # "PENDING"
    /\ SetTrig(x, status[x][origin[x]])
    /\ UNCHANGED <<origin, status, linked, cre, exp, imp, stored, count, faults>>

\* The polling loop reads the local record until it is no longer PENDING ...
TriggerPoll(x) ==
    /\ trig[x] = "poll"
    /\ status[x][origin[x]] # "PENDING"
    /\ SetTrig(x, IF status[x][origin[x]] = "IMPORT_SUCCESS"
                  THEN "success" ELSE "notok")
    /\ UNCHANGED <<origin, status, linked, cre, exp, imp, stored, count, faults>>

\* ... or until EXCHANGE_TIMEOUT seconds have passed since it started.
TriggerTimeout(x) ==
    /\ trig[x] = "poll"
    /\ SetTrig(x, "timeout")
    /\ UNCHANGED <<origin, status, linked, cre, exp, imp, stored, count, faults>>

TriggerStep(x) ==
    \/ TriggerStart(x) \/ TriggerPost(x) \/ TriggerCreated(x)
    \/ TriggerExport(x) \/ TriggerExported(x)
    \/ TriggerPoll(x) \/ TriggerTimeout(x)

-----------------------------------------------------------------------------
(* The create handler, at the side that did not receive the trigger *)

\* Variant: the new record does not keep the _id of the record it answers.
CreateRecordUnlinked(x) ==
    /\ cre[x] = "create"
    /\ status' = WithStatus(x, Peer(origin[x]), "PENDING")
    /\ SetCre(x, "sync")
    /\ UNCHANGED <<origin, linked, trig, exp, imp, stored, count, faults>>

CreateRecord(x) ==
    /\ cre[x] = "create"
    /\ status' = WithStatus(x, Peer(origin[x]), "PENDING")
    /\ linked' = WithPeer(x, Peer(origin[x]))
    /\ SetCre(x, "sync")
    /\ UNCHANGED <<origin, trig, exp, imp, stored, count, faults>>

\* syncWithParticipant: PUT the new _id into the originator's record.
CreateSync(x) ==
    /\ cre[x] = "sync"
    /\ LET written == WithPeer(x, origin[x]) IN
       \/ NoFault /\ linked' = written /\ SetCre(x, "ok")
       \/ Fault /\ linked' \in {linked, written} /\ SetCre(x, "fail")
    /\ UNCHANGED <<origin, status, trig, exp, imp, stored, count>>

CreateStep(x) == CreateRecord(x) \/ CreateSync(x)

-----------------------------------------------------------------------------
(* The export handler, at the provider *)

NextResource(h) ==
    IF h.r = NResources THEN [h EXCEPT !.pc = "done"]
                        ELSE [h EXCEPT !.pc = "fetch", !.r = @ + 1]

\* findOne({consumerDataExchange}); without a record the TypeError is caught
\* and the catch block does nothing.
ExportFind(x) ==
    /\ exp[x].pc = "find"
    /\ SetExp(x, IF linked[x]["provider"]
                 THEN [exp[x] EXCEPT !.pc = "pep", !.clean = status[x]["provider"]]
                 ELSE [exp[x] EXCEPT !.pc = "done"])
    /\ UNCHANGED <<origin, status, linked, trig, cre, imp, stored, count, faults>>

\* Variant: a PEP that cannot be asked is taken for a permission.
ExportPepOpen(x) ==
    /\ exp[x].pc = "pep"
    /\ \/ SetExp(x, [exp[x] EXCEPT !.pc = "fetch", !.pep = TRUE])
       \/ SetExp(x, Update(exp[x], "PEP_ERROR", "done"))
       \/ SetExp(x, [exp[x] EXCEPT !.pc = "fetch"])
    /\ UNCHANGED <<origin, status, linked, trig, cre, imp, stored, count, faults>>

\* Variant: the refusal is recorded and the export goes on.
ExportPepGoesOn(x) ==
    /\ exp[x].pc = "pep"
    /\ \/ SetExp(x, [exp[x] EXCEPT !.pc = "fetch", !.pep = TRUE])
       \/ SetExp(x, Update(exp[x], "PEP_ERROR", "fetch"))
       \/ SetExp(x, [exp[x] EXCEPT !.pc = "catch"])
    /\ UNCHANGED <<origin, status, linked, trig, cre, imp, stored, count, faults>>

\* pepVerification permits, denies, or throws.
ExportPep(x) ==
    /\ exp[x].pc = "pep"
    /\ \/ SetExp(x, [exp[x] EXCEPT !.pc = "fetch", !.pep = TRUE])
       \/ SetExp(x, Update(exp[x], "PEP_ERROR", "done"))
       \/ SetExp(x, [exp[x] EXCEPT !.pc = "catch"])
    /\ UNCHANGED <<origin, status, linked, trig, cre, imp, stored, count, faults>>

\* Reading resource r: data in a declared format (a binary MIME type is first
\* recorded by updateProviderData and stays in the in-memory document), a
\* source that declares none, a failing SQL query, or any other exception;
\* among these consumerError, whose PUT names a record the consumer lacks.
ExportFetch(x) ==
    /\ exp[x].pc = "fetch"
    /\ \/ \E b \in BOOLEAN :
             /\ b = exp[x].binary \/ (IF b THEN "binary" ELSE "json") \in Formats
             /\ SetExp(x, [exp[x] EXCEPT !.pc = "send", !.binary = b])
       \/ SetExp(x, Update(exp[x], "PROVIDER_EXPORT_ERROR", "catch"))
       \/ SetExp(x, [exp[x] EXCEPT !.pc = "catch"])
    /\ UNCHANGED <<origin, status, linked, trig, cre, imp, stored, count, faults>>

\* triggerGenericFlow: POST consumer/import; every error is swallowed.
ExportSend(x) ==
    /\ exp[x].pc = "send"
    /\ LET b == exp[x].binary IN
       \/ /\ NoFault
          /\ SetImp(x, exp[x].r, [IdleImport(x) EXCEPT !.pc = IF b THEN "verify" ELSE "find",
                                                       !.binary = b])
          /\ SetExp(x, [exp[x] EXCEPT !.pc = "await"])
       \/ Fault /\ SetExp(x, NextResource(exp[x])) /\ UNCHANGED imp
    /\ UNCHANGED <<origin, status, linked, trig, cre, stored, count>>

\* Variant: a lost answer is taken for a success.
ExportAwaitOptimist(x) ==
    /\ exp[x].pc = "await"
    /\ LET answer == imp[x][exp[x].r].pc IN
       \/ answer = "ok" /\ NoFault /\ SetExp(x, [exp[x] EXCEPT !.pc = "count"])
       \/ answer \in {"fail", "dead"} /\ NoFault /\ SetExp(x, NextResource(exp[x]))
       \/ Fault /\ SetExp(x, [exp[x] EXCEPT !.pc = "count"])
    /\ UNCHANGED <<origin, status, linked, trig, cre, imp, stored, count>>

\* Variant: the death of the other connector goes unnoticed.
ExportAwaitForever(x) ==
    /\ exp[x].pc = "await"
    /\ LET answer == imp[x][exp[x].r].pc IN
       \/ answer = "ok" /\ NoFault /\ SetExp(x, [exp[x] EXCEPT !.pc = "count"])
       \/ answer = "fail" /\ NoFault /\ SetExp(x, NextResource(exp[x]))
       \/ Fault /\ SetExp(x, NextResource(exp[x]))
    /\ UNCHANGED <<origin, status, linked, trig, cre, imp, stored, count>>

ExportAwait(x) ==
    /\ exp[x].pc = "await"
    /\ LET answer == imp[x][exp[x].r].pc IN
       \/ answer = "ok" /\ NoFault /\ SetExp(x, [exp[x] EXCEPT !.pc = "count"])
       \/ answer \in {"fail", "dead"} /\ NoFault /\ SetExp(x, NextResource(exp[x]))
       \/ Fault /\ SetExp(x, NextResource(exp[x]))
    /\ UNCHANGED <<origin, status, linked, trig, cre, imp, stored, count>>

\* processLeftOperands: the usage counter, if the policy in force has one.
ExportCount(x) ==
    /\ exp[x].pc = "count"
    /\ count' \in {count, [count EXCEPT ![x] = @ + 1]}
    /\ SetExp(x, NextResource(exp[x]))
    /\ UNCHANGED <<origin, status, linked, trig, cre, imp, stored, faults>>

ExportCatch(x) ==
    /\ exp[x].pc = "catch"
    /\ SetExp(x, [Update(exp[x], "PROVIDER_EXPORT_ERROR", "done")
                    EXCEPT !.caught = TRUE])
    /\ UNCHANGED <<origin, status, linked, trig, cre, imp, stored, count, faults>>

\* The PUT of updateStatus.  A failed call may or may not have been applied;
\* its exception leaves the handler when it is already in the catch block.
ExportPut(x) ==
    /\ exp[x].pc = "put"
    /\ LET h == exp[x]
           written == WithStatus(x, "consumer", h.want) IN
       \/ /\ NoFault
          /\ status' = written
          /\ SetExp(x, [h EXCEPT !.pc = "save"])
       \/ /\ Fault
          /\ status' \in {status, written}
          /\ SetExp(x, [h EXCEPT !.pc = IF h.caught THEN "threw" ELSE "catch"])
    /\ UNCHANGED <<origin, linked, trig, cre, imp, stored, count>>

\* Variant: the save writes the status the document was loaded with.
ExportSaveStale(x) ==
    /\ exp[x].pc = "save"
    /\ SetExp(x, [exp[x] EXCEPT !.pc = exp[x].next])
    /\ UNCHANGED <<origin, status, linked, trig, cre, imp, stored, count, faults>>

\* The save: mongoose writes the status only if it differs from the loaded one.
ExportSave(x) ==
    /\ exp[x].pc = "save"
    /\ LET h == exp[x] IN
       /\ status' = IF h.want = h.clean THEN status
                    ELSE WithStatus(x, "provider", h.want)
       /\ SetExp(x, [h EXCEPT !.pc = h.next, !.clean = h.want])
    /\ UNCHANGED <<origin, linked, trig, cre, imp, stored, count, faults>>

ExportStep(x) ==
    \/ ExportFind(x) \/ ExportPep(x) \/ ExportFetch(x) \/ ExportSend(x)
    \/ ExportAwait(x) \/ ExportCount(x) \/ ExportCatch(x)
    \/ ExportPut(x) \/ ExportSave(x)

-----------------------------------------------------------------------------
(* The import handler of resource r, at the consumer *)

\* findOne: the in-memory document of exchange x.
Load(h, x) == [h EXCEPT !.clean = status[x]["consumer"]]

\* The application of purpose p has taken resource r.
Given(x, r, p) == [stored EXCEPT ![x][r] = @ \cup {p}]

NextPurpose(h) ==
    IF h.p = NPurposes THEN [h EXCEPT !.pc = "ok"]
                       ELSE [h EXCEPT !.pc = "purpose", !.p = @ + 1]

\* verifyPayloadDefault, for a body that is not JSON: checksum, MIME type and
\* size agree with providerData, or the exchange gets CONSENT_IMPORT_ERROR.
ImportVerify(x, r) ==
    /\ imp[x][r].pc = "verify"
    /\ LET h == imp[x][r]
           rejected == [h EXCEPT !.verdict = "misaligned"] IN
       \/ /\ linked[x]["consumer"]
          /\ SetImp(x, r, [h EXCEPT !.pc = "find", !.verdict = "aligned"])
       \/ SetImp(x, r, IF linked[x]["consumer"]
                       THEN Update(Load(rejected, x), "CONSENT_IMPORT_ERROR", "catch")
                       ELSE [rejected EXCEPT !.pc = "catch"])
    /\ UNCHANGED <<origin, status, linked, trig, cre, exp, stored, count, faults>>

\* Variant: the import marks the record as in progress again.
ImportFindRestart(x, r) ==
    /\ imp[x][r].pc = "find"
    /\ status' = WithStatus(x, "consumer", "PENDING")
    /\ SetImp(x, r, [Load(imp[x][r], x) EXCEPT !.pc = "purpose"])
    /\ UNCHANGED <<origin, linked, trig, cre, exp, stored, count, faults>>

\* consumerImportService: findOne({providerDataExchange}); without a record the
\* TypeError is caught.
ImportFind(x, r) ==
    /\ imp[x][r].pc = "find"
    /\ LET h == imp[x][r] IN
       SetImp(x, r, IF linked[x]["consumer"]
                    THEN [Load(h, x) EXCEPT !.pc = "purpose"]
                    ELSE [h EXCEPT !.pc = "catch"])
    /\ UNCHANGED <<origin, status, linked, trig, cre, exp, stored, count, faults>>

\* One purpose: its application takes the data; its representation has no
\* endpoint or an unsupported type; its database has no URL; its database
\* fails; or the catalogue or the application's answer fails.
ImportPurpose(x, r) ==
    /\ imp[x][r].pc = "purpose"
    /\ LET h == imp[x][r]
           given == Given(x, r, h.p) IN
       \/ /\ SetImp(x, r, Update(h, "IMPORT_SUCCESS", "api"))
          /\ stored' = given
       \/ /\ SetImp(x, r, Update(h, "CONSUMER_IMPORT_ERROR", "api"))
          /\ UNCHANGED stored
       \/ SetImp(x, r, [h EXCEPT !.pc = "api"]) /\ UNCHANGED stored
       \/ /\ SetImp(x, r, Update(h, "PROVIDER_EXPORT_ERROR", "catch"))
          /\ UNCHANGED stored
       \/ /\ SetImp(x, r, [h EXCEPT !.pc = "catch"])
          /\ stored' \in {stored, given}
    /\ UNCHANGED <<origin, status, linked, trig, cre, exp, count, faults>>

\* An API purpose sends the application's answer back (provider/import), which
\* may throw; then updateStatus(IMPORT_SUCCESS) ends the round.
ImportApi(x, r) ==
    /\ imp[x][r].pc = "api"
    /\ LET h == imp[x][r] IN
       \/ SetImp(x, r, Update(h, "IMPORT_SUCCESS", "more"))
       \/ SetImp(x, r, [h EXCEPT !.pc = "catch"])
    /\ UNCHANGED <<origin, status, linked, trig, cre, exp, stored, count, faults>>

\* Variant: the exception is logged and nothing else.
ImportCatchSilent(x, r) ==
    /\ imp[x][r].pc = "catch"
    /\ SetImp(x, r, [imp[x][r] EXCEPT !.pc = "fail"])
    /\ UNCHANGED <<origin, status, linked, trig, cre, exp, stored, count, faults>>

\* The catch block of consumerImport looks the record up by the body's
\* providerDataExchange.  A body that is not JSON has no such field: the query
\* then holds a fresh id and two undefined keys, which the driver sends as null,
\* so it finds a record of this connector without a providerDataExchange, of
\* whatever exchange, or nothing.  Two kinds of record have none:
\* one without a peer's _id, of an exchange whose creation is under way or failed,
RecordsWithoutPeer(c) ==
    {y \in Exchanges : \E s \in Sides :
        Site[y][s] = c /\ status[y][s] # "absent" /\ ~linked[y][s]}

\* and one of an exchange in which this connector is the provider: it holds the
\* consumer's endpoint and the _id of the consumer's record.
ProviderRecords(c) ==
    {y \in Exchanges : Site[y]["provider"] = c /\ linked[y]["provider"]}

ImportCatch(x, r) ==
    /\ imp[x][r].pc = "catch"
    /\ LET h == [imp[x][r] EXCEPT !.caught = TRUE]
           here == Site[x]["consumer"]
           failed(g) == SetImp(x, r, Update(g, "CONSUMER_IMPORT_ERROR", "fail")) IN
       \/ ~h.binary /\ linked[x]["consumer"] /\ failed(Load(h, x))
       \/ /\ h.binary
          /\ \E y \in ProviderRecords(here) :
                failed([h EXCEPT !.doc = y, !.clean = status[y]["provider"]])
       \/ /\ h.binary /\ RecordsWithoutPeer(here) # {}
          /\ SetImp(x, r, [h EXCEPT !.pc = "stray"])
       \/ /\ IF h.binary THEN RecordsWithoutPeer(here) \cup ProviderRecords(here) = {}
                         ELSE ~linked[x]["consumer"]
          /\ SetImp(x, r, [h EXCEPT !.pc = "fail"])
    /\ UNCHANGED <<origin, status, linked, trig, cre, exp, stored, count, faults>>

\* The PUT for a record without a peer names dataexchanges/undefined and is
\* refused.  Thrown from within the catch block, nothing handles the error:
\* Node ends the process, and with it every handler of this connector.
ImportStray(x, r) ==
    /\ imp[x][r].pc = "stray"
    /\ DeadAt(Site[x]["consumer"])
    /\ UNCHANGED <<origin, status, linked, stored, count, faults>>

\* Variant: the handler takes every record it finds for one of a consumer.
DocSideConsumer(x, h) == "consumer"

\* The side of the record in memory: the consumer's of the handler's own
\* exchange, or the provider's of the one the catch block found.
DocSide(x, h) == IF h.doc = x THEN "consumer" ELSE "provider"

\* The PUT of updateStatus.  A failed call may or may not have been applied;
\* its exception reaches the catch block, or ends the process when thrown there.
ImportPut(x, r) ==
    /\ imp[x][r].pc = "put"
    /\ LET h == imp[x][r]
           written == WithStatus(h.doc, Peer(DocSide(x, h)), h.want) IN
       \/ /\ NoFault
          /\ status' = written
          /\ SetImp(x, r, [h EXCEPT !.pc = "save"])
          /\ UNCHANGED <<trig, cre, exp>>
       \/ /\ Fault
          /\ status' \in {status, written}
          /\ IF h.caught THEN DeadAt(Site[x]["consumer"])
             ELSE SetImp(x, r, [h EXCEPT !.pc = "catch"]) /\ UNCHANGED <<trig, cre, exp>>
    /\ UNCHANGED <<origin, linked, stored, count>>

ImportSave(x, r) ==
    /\ imp[x][r].pc = "save"
    /\ LET h == [imp[x][r] EXCEPT !.clean = imp[x][r].want] IN
       /\ status' = IF h.want = imp[x][r].clean THEN status
                    ELSE WithStatus(h.doc, DocSide(x, h), h.want)
       /\ SetImp(x, r, IF h.next = "more" THEN NextPurpose(h)
                       ELSE [h EXCEPT !.pc = h.next])
    /\ UNCHANGED <<origin, linked, trig, cre, exp, stored, count, faults>>

ImportStep(x, r) ==
    \/ ImportVerify(x, r) \/ ImportFind(x, r) \/ ImportPurpose(x, r)
    \/ ImportApi(x, r) \/ ImportCatch(x, r) \/ ImportStray(x, r)
    \/ ImportPut(x, r) \/ ImportSave(x, r)

-----------------------------------------------------------------------------

Next ==
    \/ \E x \in Exchanges :
          \/ TriggerStep(x) \/ CreateStep(x) \/ ExportStep(x)
          \/ \E r \in Resources : ImportStep(x, r)
    \/ \E c \in Connectors : Crash(c)

\* The event loop of each connector runs every handler that can run.
Fairness ==
    \A x \in Exchanges :
        /\ WF_vars(TriggerStep(x))
        /\ WF_vars(CreateStep(x))
        /\ WF_vars(ExportStep(x))
        /\ \A r \in Resources : WF_vars(ImportStep(x, r))

Spec == Init /\ [][Next]_vars
FairSpec == Spec /\ Fairness

-----------------------------------------------------------------------------
(* Properties *)

Decided(x, s) == status[x][s] \in Outcomes
Started(x) == exp[x].pc # "idle"
NobodyDied(x) ==
    /\ trig[x] # "dead" /\ cre[x] # "dead" /\ exp[x].pc # "dead"
    /\ \A r \in Resources : imp[x][r].pc # "dead"
AllEnded(x) ==
    /\ trig[x] \in TriggerEnds /\ exp[x].pc \in ExportEnds
    /\ \A r \in Resources : imp[x][r].pc \in ImportEnds \cup {"idle"}

\* The failed binary import of another exchange took the provider's record of x
\* for its own: consumerImport rewrites the two records of an exchange it does
\* not belong to.
Meddled(x) ==
    \E y \in Exchanges \ {x}, r \in Resources : imp[y][r].doc = x

\* It told the consumer of x and has not saved the record of the provider yet, or
\* died before it could.
MeddledHalfWay(x) ==
    \E y \in Exchanges \ {x}, r \in Resources :
        imp[y][r].doc = x /\ imp[y][r].pc \in {"save", "dead"}

\* updateStatus tells the peer before it saves: no connector records an outcome
\* that only its own handlers decide before the other one has left PENDING.  The
\* one way around it is a foreign import error, told by the provider's connector.
PeerToldFirst ==
    \A x \in Exchanges :
        /\ status[x]["consumer"] \in {"IMPORT_SUCCESS", "CONSENT_IMPORT_ERROR"}
              => Decided(x, "provider")
        /\ status[x]["consumer"] = "CONSUMER_IMPORT_ERROR"
              => Decided(x, "provider") \/ MeddledHalfWay(x)
        /\ status[x]["provider"] = "PEP_ERROR" => Decided(x, "consumer")

\* The record a handler looks up by the peer's _id is there whenever it runs:
\* creation and linking on both sides are over before the first call that
\* needs them, whatever call was lost and whoever crashed in between.
HandlersFindTheirRecord ==
    \A x \in Exchanges :
        /\ exp[x].pc = "find" => linked[x]["provider"]
        /\ \A r \in Resources :
              imp[x][r].pc \in {"find", "verify"} => linked[x]["consumer"]

\* No data reaches the consumer, and no side records a successful import, unless
\* the provider's policy enforcement point permitted this exchange.
PolicyGate ==
    \A x \in Exchanges :
        /\ (\E r \in Resources : imp[x][r].pc # "idle") => exp[x].pep
        /\ (\E s \in Sides : status[x][s] = "IMPORT_SUCCESS") => exp[x].pep

\* A trigger answered with success: true belongs to a permitted exchange that
\* some import handler ran for and that the provider's record knows is over.
SuccessAnswerIsGrounded ==
    \A x \in Exchanges :
        trig[x] = "success" =>
            /\ exp[x].pep /\ Decided(x, "provider")
            /\ \E r \in Resources : imp[x][r].pc # "idle"

\* The usage counter of the policy never counts a resource whose import did not
\* answer with success, however many answers are lost.
UsageNotOvercounted ==
    \A x \in Exchanges :
        count[x] <= Cardinality({r \in Resources : imp[x][r].pc = "ok"})

\* When no call failed and nobody crashed, the two connectors end with the same
\* status, whatever errors the data and the applications caused, unless the
\* failed import of another exchange wrote into their records.
FaultFreeAgreement ==
    \A x \in Exchanges :
        faults = 0 /\ AllEnded(x) /\ NobodyDied(x) /\ Started(x) /\ ~Meddled(x)
            => status[x]["consumer"] = status[x]["provider"]

\* A record that has left PENDING never comes back to it: a poll that saw an
\* outcome and a later read of the same record agree that the exchange is over.
DecidedStays ==
    [][\A x \in Exchanges, s \in Sides :
          status[x][s] \in Outcomes => status'[x][s] \in Outcomes]_vars

\* A policy refusal is final: a later error of the same handler may replace it,
\* and the failed import of another exchange may blame an import that never ran,
\* but no import ever turns it into a success.
RefusalIsFinal ==
    [][\A x \in Exchanges, s \in Sides :
          status[x][s] = "PEP_ERROR" =>
              \/ status'[x][s] \in {"PEP_ERROR", "PROVIDER_EXPORT_ERROR"}
              \/ status'[x][s] = "CONSUMER_IMPORT_ERROR" /\ Meddled(x)]_vars

\* Every trigger that created its record is answered, or dies with its
\* connector: no handler waits for ever on a lost call or on a dead peer.
EveryTriggerEnds ==
    \A x \in Exchanges : trig[x] = "post" ~> trig[x] \in TriggerEnds

\* Without a fault, an export that starts leaves no record PENDING, except after
\* a binary resource whose import failed: its catch block finds no record.
BinaryLost(x) == \E r \in Resources : imp[x][r].binary /\ imp[x][r].pc \in {"fail", "dead"}
ExportDecides ==
    \A x \in Exchanges :
        exp[x].pc = "find" ~>
            (faults > 0 \/ BinaryLost(x) \/ \A s \in Sides : Decided(x, s))

\* The two connectors keep the promises of ExchangeOutcome: a trigger answered
\* with anything but success has failed, one that died was never answered.
Permitted == [x \in Exchanges |-> exp[x].pep]
Answered ==
    [x \in Exchanges |->
        IF trig[x] = "success" THEN "success"
        ELSE IF trig[x] \in {"notok", "timeout", "error"} THEN "failure" ELSE "none"]

Outcome == INSTANCE ExchangeOutcome
             WITH record <- status, permitted <- Permitted, answer <- Answered

ImplementsOutcome == Outcome!Spec

\* docs/DATA_EXCHANGE.md, step 7: the data is pushed to the application of the
\* consumer.  An import that answers with success gave its resource to the
\* application of every purpose of the exchange.
ImportOkMeansStored ==
    \A x \in Exchanges, r \in Resources :
        imp[x][r].pc = "ok" => stored[x][r] = Purposes

\* docs/MIMETYPE.md: the exchange stops if checksum, length and content type are
\* not aligned.  After a rejected resource no later one is imported.
MisalignedStopsExchange ==
    \A x \in Exchanges, r1, r2 \in Resources :
        imp[x][r1].verdict = "misaligned" /\ r1 < r2 => imp[x][r2].pc = "idle"
=============================================================================
