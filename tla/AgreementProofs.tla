-------------------------- MODULE AgreementProofs --------------------------
(***************************************************************************)
(* Two more invariants of DataExchange, for every number of exchanges,     *)
(* connectors, resources, purposes and faults: the usage counter never     *)
(* counts more than the imports that succeeded, and without a fault the    *)
(* two connectors end with the same status, unless the failed import of    *)
(* another exchange rewrote their records (Meddled).                       *)
(*                                                                         *)
(* Both rest on the order in which the export handler sends its resources. *)
(* A resource is imported once (SentInOrder), so an import that succeeded  *)
(* is counted once (CountedOnce).  Without a fault the export handler and  *)
(* the import handlers of an exchange take turns (InTurn): whoever writes  *)
(* tells the peer and then saves, from a document that is up to date       *)
(* (ExportIsCurrent, ImportIsCurrent), and between two such writes the     *)
(* records agree (SidesAgree).                                             *)
(***************************************************************************)
EXTENDS DataExchangeProofs, FiniteSetTheorems

-----------------------------------------------------------------------------
(* What a step of the export handler does, in more detail than ExportEffect *)

\* The handler h has become k, which is at the next resource or at the end.
Advances(h, k) ==
    /\ k.clean = h.clean
    /\ \/ k.pc = "done" /\ k.r = h.r
       \/ k.pc = "fetch" /\ k.r = h.r + 1

\* It prepares the next call, alone.
Prepares(x, h, k) ==
    /\ UNCHANGED <<status, imp, count>>
    /\ h.pc \in {"find", "pep", "fetch", "catch"} /\ k.r = h.r
    /\ k.pc \in {"pep", "fetch", "send", "put", "catch", "done"}
    /\ h.pc = "catch" => k.pc = "put"
    /\ k.pc = "pep" => h.pc = "find"
    /\ k.clean = h.clean \/ (h.pc = "find" /\ k.clean = status[x]["provider"])

\* It sends resource h.r and waits for the answer.
Sends(x, h, k) ==
    /\ UNCHANGED <<status, count>>
    /\ h.pc = "send" /\ k.pc = "await" /\ k.r = h.r /\ k.clean = h.clean
    /\ imp'[x][h.r].pc \in {"verify", "find"}
    /\ \A y \in Exchanges, q \in Resources :
          <<y, q>> # <<x, h.r>> => imp'[y][q] = imp[y][q]

\* The answer, or the lack of one, ends its turn with a resource.
GoesOn(x, h, k) ==
    /\ UNCHANGED <<status, imp>>
    /\ Advances(h, k)
    /\ \/ h.pc = "send" /\ faults' > 0 /\ UNCHANGED count
       \/ /\ h.pc = "await" /\ UNCHANGED count
          /\ imp[x][h.r].pc \in ImportEnds \/ faults' > 0
       \/ h.pc = "count" /\ count' \in {count, [count EXCEPT ![x] = @ + 1]}

\* The import has answered with success.
Succeeds(x, h, k) ==
    /\ UNCHANGED <<status, imp, count>>
    /\ h.pc = "await" /\ imp[x][h.r].pc = "ok"
    /\ k.pc = "count" /\ k.r = h.r /\ k.clean = h.clean

\* updateStatus tells the consumer, ...
Tells(x, h, k) ==
    /\ UNCHANGED <<imp, count>>
    /\ h.pc = "put" /\ k.r = h.r /\ k.clean = h.clean /\ k.want = h.want
    /\ \/ k.pc = "save" /\ status' = WithStatus(x, "consumer", h.want)
       \/ k.pc \in {"threw", "catch"} /\ faults' > 0

\* ... then saves the provider's record.
Saves(x, h, k) ==
    /\ UNCHANGED <<imp, count>>
    /\ h.pc = "save" /\ k.pc \in {"done", "catch"} /\ k.r = h.r /\ k.clean = h.want
    /\ status' = IF h.want = h.clean THEN status ELSE WithStatus(x, "provider", h.want)

ExportMove(x) ==
    LET h == exp[x]
        k == exp'[x] IN
    /\ \A y \in Exchanges \ {x} : exp'[y] = exp[y]
    /\ faults' >= faults
    /\ \/ Prepares(x, h, k) \/ Sends(x, h, k) \/ GoesOn(x, h, k)
       \/ Succeeds(x, h, k) \/ Tells(x, h, k) \/ Saves(x, h, k)

\* A call that fails is counted as a fault.
LEMMA FaultsGrow ==
    ASSUME TypeOK
    PROVE  /\ NoFault => faults' >= faults
           /\ Fault => faults' > 0 /\ faults' >= faults
  BY DEF TypeOK, NoFault, Fault

LEMMA Advancing ==
    ASSUME NEW h \in ExportHandler PROVE Advances(h, NextResource(h))
  BY DEF ExportHandler, NextResource, Advances

\* Each step of the export handler is one of these.
LEMMA ExportMoves ==
    ASSUME TypeOK, NEW x \in Exchanges, ExportStep(x)
    PROVE  ExportMove(x)
<1> DEFINE h == exp[x]
           k == exp'[x]
<1>h. h \in ExportHandler
  BY HandlerTypes
<1>w. \A g : SetExp(x, g) => k = g /\ \A y \in Exchanges \ {x} : exp'[y] = exp[y]
  BY Writes
<1>1. CASE ExportFind(x)
  <2>1. \/ k = [h EXCEPT !.pc = "pep", !.clean = status[x]["provider"]]
        \/ k = [h EXCEPT !.pc = "done"]
    BY <1>1, <1>w DEF ExportFind
  <2>2. Prepares(x, h, k)
    BY <1>1, <1>h, <2>1 DEF ExportFind, Prepares, ExportHandler
  <2> QED
    BY <1>1, <1>w, <2>2, FaultsGrow DEF ExportFind, ExportMove, NoFault
<1>2. CASE ExportPep(x)
  <2>1. \/ k = [h EXCEPT !.pc = "fetch", !.pep = TRUE]
        \/ k = Update(h, "PEP_ERROR", "done")
        \/ k = [h EXCEPT !.pc = "catch"]
    BY <1>2, <1>w DEF ExportPep
  <2>2. Prepares(x, h, k)
    BY <1>2, <1>h, <2>1 DEF ExportPep, Prepares, ExportHandler, Update
  <2> QED
    BY <1>2, <1>w, <2>2, FaultsGrow DEF ExportPep, ExportMove, NoFault
<1>3. CASE ExportFetch(x)
  <2>1. \/ \E b \in BOOLEAN : k = [h EXCEPT !.pc = "send", !.binary = b]
        \/ k = Update(h, "PROVIDER_EXPORT_ERROR", "catch")
        \/ k = [h EXCEPT !.pc = "catch"]
    BY <1>3, <1>w DEF ExportFetch
  <2>2. Prepares(x, h, k)
    BY <1>3, <1>h, <2>1 DEF ExportFetch, Prepares, ExportHandler, Update
  <2> QED
    BY <1>3, <1>w, <2>2, FaultsGrow DEF ExportFetch, ExportMove, NoFault
<1>4. CASE ExportSend(x)
  <2> DEFINE g == [IdleImport(x) EXCEPT !.pc = IF h.binary THEN "verify" ELSE "find",
                                        !.binary = h.binary]
  <2>1. /\ h.pc = "send" /\ UNCHANGED <<status, count>>
        /\ \/ NoFault /\ SetImp(x, h.r, g) /\ SetExp(x, [h EXCEPT !.pc = "await"])
           \/ Fault /\ SetExp(x, NextResource(h)) /\ UNCHANGED imp
    BY <1>4 DEF ExportSend
  <2>2. g.pc \in {"verify", "find"} /\ h.r \in Resources
    BY <1>h DEF IdleImport, ExportHandler
  <2> HIDE DEF g
  <2>3. CASE NoFault /\ SetImp(x, h.r, g) /\ SetExp(x, [h EXCEPT !.pc = "await"])
    <3>1. k.pc = "await" /\ k.r = h.r /\ k.clean = h.clean
      BY <1>h, <1>w, <2>3 DEF ExportHandler
    <3>2. /\ imp'[x][h.r].pc \in {"verify", "find"}
          /\ \A y \in Exchanges, q \in Resources :
                <<y, q>> # <<x, h.r>> => imp'[y][q] = imp[y][q]
      BY <2>2, <2>3, Writes
    <3>3. Sends(x, h, k)
      BY <2>1, <3>1, <3>2 DEF Sends
    <3> QED
      BY <1>w, <2>3, <3>3, FaultsGrow DEF ExportMove
  <2>4. CASE Fault /\ SetExp(x, NextResource(h)) /\ UNCHANGED imp
    <3>1. GoesOn(x, h, k)
      BY <1>h, <1>w, <2>1, <2>4, Advancing, FaultsGrow DEF GoesOn
    <3> QED
      BY <1>w, <2>4, <3>1, FaultsGrow DEF ExportMove
  <2> QED
    BY <2>1, <2>3, <2>4
<1>5. CASE ExportAwait(x)
  <2>1. /\ h.pc = "await" /\ UNCHANGED <<status, imp, count>>
        /\ \/ imp[x][h.r].pc = "ok" /\ NoFault /\ SetExp(x, [h EXCEPT !.pc = "count"])
           \/ imp[x][h.r].pc \in {"fail", "dead"} /\ NoFault /\ SetExp(x, NextResource(h))
           \/ Fault /\ SetExp(x, NextResource(h))
    BY <1>5 DEF ExportAwait
  <2>2. Succeeds(x, h, k) \/ GoesOn(x, h, k)
    <3>1. CASE imp[x][h.r].pc = "ok" /\ SetExp(x, [h EXCEPT !.pc = "count"])
      BY <1>h, <1>w, <2>1, <3>1 DEF Succeeds, ExportHandler
    <3>2. CASE /\ SetExp(x, NextResource(h))
               /\ imp[x][h.r].pc \in {"fail", "dead"} \/ Fault
      BY <1>h, <1>w, <2>1, <3>2, Advancing, FaultsGrow DEF GoesOn, ImportEnds
    <3> QED
      BY <2>1, <3>1, <3>2
  <2> QED
    BY <1>w, <2>1, <2>2, FaultsGrow DEF ExportMove
<1>6. CASE ExportCount(x)
  <2>1. GoesOn(x, h, k)
    BY <1>6, <1>h, <1>w, Advancing DEF ExportCount, GoesOn
  <2> QED
    BY <1>6, <1>w, <2>1, FaultsGrow DEF ExportCount, ExportMove, NoFault
<1>7. CASE ExportCatch(x)
  <2>1. k = [Update(h, "PROVIDER_EXPORT_ERROR", "done") EXCEPT !.caught = TRUE]
    BY <1>7, <1>w DEF ExportCatch
  <2>2. Prepares(x, h, k)
    BY <1>7, <1>h, <2>1 DEF ExportCatch, Prepares, ExportHandler, Update
  <2> QED
    BY <1>7, <1>w, <2>2, FaultsGrow DEF ExportCatch, ExportMove, NoFault
<1>8. CASE ExportPut(x)
  <2>1. /\ h.pc = "put" /\ UNCHANGED <<imp, count>>
        /\ \/ /\ NoFault /\ SetExp(x, [h EXCEPT !.pc = "save"])
              /\ status' = WithStatus(x, "consumer", h.want)
           \/ /\ Fault
              /\ SetExp(x, [h EXCEPT !.pc = IF h.caught THEN "threw" ELSE "catch"])
    BY <1>8 DEF ExportPut
  <2>2. CASE /\ SetExp(x, [h EXCEPT !.pc = "save"])
             /\ status' = WithStatus(x, "consumer", h.want)
    BY <1>h, <1>w, <2>1, <2>2, FaultsGrow DEF Tells, ExportMove, ExportHandler
  <2>3. CASE Fault /\ SetExp(x, [h EXCEPT !.pc = IF h.caught THEN "threw" ELSE "catch"])
    <3>1. \E place \in {"threw", "catch"} : k = [h EXCEPT !.pc = place]
      BY <1>w, <2>3
    <3>2. Tells(x, h, k)
      BY <1>h, <2>1, <2>3, <3>1, FaultsGrow DEF Tells, ExportHandler
    <3> QED
      BY <1>w, <2>3, <3>2, FaultsGrow DEF ExportMove
  <2> QED
    BY <2>1, <2>2, <2>3
<1>9. CASE ExportSave(x)
  <2>1. k = [h EXCEPT !.pc = h.next, !.clean = h.want]
    BY <1>9, <1>w DEF ExportSave
  <2>2. k.pc \in {"done", "catch"} /\ k.r = h.r /\ k.clean = h.want
    BY <1>h, <2>1 DEF ExportHandler
  <2>3. Saves(x, h, k)
    BY <1>9, <2>2 DEF ExportSave, Saves
  <2> QED
    BY <1>9, <1>w, <2>3, FaultsGrow DEF ExportSave, ExportMove, NoFault
<1> QED
  BY <1>1, <1>2, <1>3, <1>4, <1>5, <1>6, <1>7, <1>8, <1>9 DEF ExportStep

-----------------------------------------------------------------------------
(* What a step of an import handler does *)

\* The import handler h of x has become k.  It works on its own, ...
Works(x, h, k) ==
    /\ UNCHANGED status
    /\ h.pc \notin {"idle", "put", "save"} \cup ImportEnds
    /\ k.pc \notin {"idle", "save", "ok", "dead"}
    /\ k.doc = x /\ k.pc \in {"purpose", "api", "put"} =>
          \/ k.clean = status[x]["consumer"]
          \/ h.pc \in {"purpose", "api"} /\ k.clean = h.clean

\* ... or tells the peer of the record it holds, or has failed to, ...
Calls(x, h, k) ==
    /\ ImportTells(x, h, k)
    /\ k.pc = "save" \/ (k.pc = "catch" /\ faults' > 0)

\* ... or saves that record.
ImportMove(x, r) ==
    LET h == imp[x][r]
        k == imp'[x][r] IN
    /\ UNCHANGED exp
    /\ \A y \in Exchanges, q \in Resources :
          <<y, q>> # <<x, r>> => imp'[y][q] = imp[y][q]
    /\ Works(x, h, k) \/ Calls(x, h, k) \/ ImportSaves(x, h, k)

\* A connector's process ends: without a fault, only by the error of a stray
\* record.
ProcessEnds ==
    /\ HandlersMayDie /\ ImportsMayDie
    /\ faults' > 0 \/ UNCHANGED status

\* Each step of an import handler moves that handler, or ends the process.
LEMMA ImportMoves ==
    ASSUME TypeOK, NEW x \in Exchanges, NEW r \in Resources, ImportStep(x, r)
    PROVE  /\ ImportMove(x, r) \/ ProcessEnds
           /\ UNCHANGED count /\ faults' >= faults
<1> DEFINE h == imp[x][r]
           k == imp'[x][r]
<1>h. h \in ImportHandler /\ status[x]["consumer"] \in Statuses
  BY HandlerTypes DEF Sides
<1>w. \A g : SetImp(x, r, g) =>
          /\ k = g
          /\ \A y \in Exchanges, q \in Resources :
                <<y, q>> # <<x, r>> => imp'[y][q] = imp[y][q]
  BY Writes
<1>f. UNCHANGED count /\ faults' >= faults
  BY FaultsGrow DEF ImportStep, ImportVerify, ImportFind, ImportPurpose, ImportApi,
       ImportCatch, ImportStray, ImportPut, ImportSave, NoFault
<1>d. DeadAt(Site[x]["consumer"]) => HandlersMayDie /\ ImportsMayDie
  BY DeadEffects, SiteType
<1>1. CASE ImportVerify(x, r)
  <2>1. \/ k = [h EXCEPT !.pc = "find", !.verdict = "aligned"]
        \/ k = Update(Load([h EXCEPT !.verdict = "misaligned"], x), "CONSENT_IMPORT_ERROR", "catch")
        \/ k = [[h EXCEPT !.verdict = "misaligned"] EXCEPT !.pc = "catch"]
    BY <1>1, <1>w DEF ImportVerify
  <2>2. Works(x, h, k)
    BY <1>1, <1>h, <2>1 DEF ImportVerify, Works, Update, Load, ImportHandler, ImportEnds
  <2> QED
    BY <1>1, <1>f, <1>w, <2>2 DEF ImportVerify, ImportMove
<1>2. CASE ImportFind(x, r)
  <2>1. \/ k = [Load(h, x) EXCEPT !.pc = "purpose"]
        \/ k = [h EXCEPT !.pc = "catch"]
    BY <1>2, <1>w DEF ImportFind
  <2>2. Works(x, h, k)
    BY <1>2, <1>h, <2>1 DEF ImportFind, Works, Load, ImportHandler, ImportEnds
  <2> QED
    BY <1>2, <1>f, <1>w, <2>2 DEF ImportFind, ImportMove
<1>3. CASE ImportPurpose(x, r)
  <2>1. \/ \E w \in ConsumerOutcomes, n \in {"api", "catch"} : k = Update(h, w, n)
        \/ k = [h EXCEPT !.pc = "api"]
        \/ k = [h EXCEPT !.pc = "catch"]
    BY <1>3, <1>w DEF ImportPurpose, ConsumerOutcomes
  <2>2. Works(x, h, k)
    BY <1>3, <1>h, <2>1 DEF ImportPurpose, Works, Update, ImportHandler, ImportEnds
  <2> QED
    BY <1>3, <1>f, <1>w, <2>2 DEF ImportPurpose, ImportMove
<1>4. CASE ImportApi(x, r)
  <2>1. \/ k = Update(h, "IMPORT_SUCCESS", "more")
        \/ k = [h EXCEPT !.pc = "catch"]
    BY <1>4, <1>w DEF ImportApi
  <2>2. Works(x, h, k)
    BY <1>4, <1>h, <2>1 DEF ImportApi, Works, Update, ImportHandler, ImportEnds
  <2> QED
    BY <1>4, <1>f, <1>w, <2>2 DEF ImportApi, ImportMove
<1>5. CASE ImportCatch(x, r)
  <2> DEFINE g == [h EXCEPT !.caught = TRUE]
  <2>g. g \in ImportHandler /\ h.pc = "catch" /\ UNCHANGED <<exp, status>>
    BY <1>5, <1>h DEF ImportCatch, ImportHandler
  <2>1. \/ k = Update(Load(g, x), "CONSUMER_IMPORT_ERROR", "fail")
        \/ \E y \in Exchanges \ {x} :
              k = Update([g EXCEPT !.doc = y, !.clean = status[y]["provider"]],
                         "CONSUMER_IMPORT_ERROR", "fail")
        \/ k = [g EXCEPT !.pc = "stray"]
        \/ k = [g EXCEPT !.pc = "fail"]
    <3>1. ProviderRecords(Site[x]["consumer"]) \subseteq Exchanges \ {x}
      BY SiteAssumption DEF ProviderRecords
    <3> QED
      BY <1>5, <1>w, <3>1 DEF ImportCatch
  <2>2. \A y \in Exchanges, q \in Resources :
            <<y, q>> # <<x, r>> => imp'[y][q] = imp[y][q]
    BY <1>5, <1>w DEF ImportCatch
  <2> HIDE DEF g
  <2>3. CASE k = Update(Load(g, x), "CONSUMER_IMPORT_ERROR", "fail")
    <3>1. k.pc = "put" /\ k.clean = status[x]["consumer"]
      BY <1>h, <2>g, <2>3 DEF Update, Load, ImportHandler
    <3> QED
      BY <1>f, <2>2, <2>g, <3>1 DEF Works, ImportEnds, ImportMove
  <2>4. ASSUME NEW y \in Exchanges \ {x},
               k = Update([g EXCEPT !.doc = y, !.clean = status[y]["provider"]],
                          "CONSUMER_IMPORT_ERROR", "fail")
        PROVE  ImportMove(x, r)
    <3>1. k.pc = "put" /\ k.doc = y
      BY <2>g, <2>4 DEF Update, ImportHandler
    <3> QED
      BY <1>f, <2>2, <2>g, <3>1 DEF Works, ImportEnds, ImportMove
  <2>5. CASE k = [g EXCEPT !.pc = "stray"] \/ k = [g EXCEPT !.pc = "fail"]
    <3>1. k.pc \in {"stray", "fail"}
      BY <2>g, <2>5 DEF ImportHandler
    <3> QED
      BY <1>f, <2>2, <2>g, <3>1 DEF Works, ImportEnds, ImportMove
  <2> QED
    BY <1>f, <2>1, <2>3, <2>4, <2>5
<1>6. CASE ImportStray(x, r)
  BY <1>6, <1>d, <1>f DEF ImportStray, ProcessEnds
<1>7. CASE ImportPut(x, r)
  <2> DEFINE told == WithStatus(h.doc, Peer(DocSide(x, h)), h.want)
  <2>1. /\ h.pc = "put" /\ status' \in {status, told}
        /\ \/ /\ NoFault /\ status' = told
              /\ SetImp(x, r, [h EXCEPT !.pc = "save"]) /\ UNCHANGED exp
           \/ Fault /\ DeadAt(Site[x]["consumer"])
           \/ Fault /\ ~h.caught /\ SetImp(x, r, [h EXCEPT !.pc = "catch"]) /\ UNCHANGED exp
    BY <1>7 DEF ImportPut
  <2> HIDE DEF told
  <2>2. CASE Fault /\ DeadAt(Site[x]["consumer"])
    BY <1>d, <1>f, <2>2, FaultsGrow DEF ProcessEnds
  <2>3. CASE /\ status' = told
             /\ SetImp(x, r, [h EXCEPT !.pc = "save"]) /\ UNCHANGED exp
    <3>1. k.pc = "save" /\ SameErrand(h, k) /\ k.clean = h.clean
      BY <1>h, <1>w, <2>3 DEF ImportHandler, SameErrand
    <3>2. Calls(x, h, k)
      BY <2>1, <2>3, <3>1 DEF Calls, ImportTells, told
    <3> QED
      BY <1>f, <1>w, <2>3, <3>2 DEF ImportMove
  <2>4. CASE Fault /\ ~h.caught /\ SetImp(x, r, [h EXCEPT !.pc = "catch"]) /\ UNCHANGED exp
    <3>1. k.pc = "catch" /\ SameErrand(h, k) /\ k.clean = h.clean
      BY <1>h, <1>w, <2>4 DEF ImportHandler, SameErrand
    <3>2. Calls(x, h, k)
      BY <2>1, <2>4, <3>1, FaultsGrow DEF Calls, ImportTells, told
    <3> QED
      BY <1>f, <1>w, <2>4, <3>2 DEF ImportMove
  <2> QED
    BY <2>1, <2>2, <2>3, <2>4
<1>8. CASE ImportSave(x, r)
  <2>1. UNCHANGED exp /\ h.pc = "save"
    BY <1>8 DEF ImportSave
  <2>2. \E g : SetImp(x, r, g)
    BY <1>8 DEF ImportSave
  <2>3. \A y \in Exchanges, q \in Resources :
            <<y, q>> # <<x, r>> => imp'[y][q] = imp[y][q]
    BY <1>w, <2>2
  <2>4. ImportSaves(x, h, k)
    BY <2>1, ImportEffects DEF ImportEffect, ImportPrepares, ImportTells
  <2> QED
    BY <1>f, <2>1, <2>3, <2>4 DEF ImportMove
<1> QED
  BY <1>1, <1>2, <1>3, <1>4, <1>5, <1>6, <1>7, <1>8 DEF ImportStep

-----------------------------------------------------------------------------
(* The other steps, as far as the two invariants see them *)

\* A trigger or create handler, at most, starts the export of x.
StartMove(x) ==
    /\ UNCHANGED <<imp, count>>
    /\ faults' >= faults
    /\ \A y \in Exchanges \ {x} : exp'[y] = exp[y]
    /\ \/ exp'[x] = exp[x]
       \/ /\ exp[x].pc = "idle" /\ exp'[x].pc = "find"
          /\ exp'[x].r = exp[x].r /\ exp'[x].clean = exp[x].clean

LEMMA StartMoves ==
    ASSUME IInv, NEW x \in Exchanges, TriggerStep(x) \/ CreateStep(x)
    PROVE  StartMove(x)
<1>t. TypeOK /\ Progress(x) /\ exp[x] \in ExportHandler
  BY HandlerTypes DEF IInv, RecordsFollowHandlers
<1>1. UNCHANGED <<imp, count>>
  BY DEF TriggerStep, TriggerStart, TriggerPost, TriggerCreated, TriggerExport,
         TriggerExported, TriggerPoll, TriggerTimeout, CreateStep, CreateRecord, CreateSync
<1>2. faults' >= faults
  <2>1. UNCHANGED faults \/ NoFault \/ Fault
    BY DEF TriggerStep, TriggerStart, TriggerPost, TriggerCreated, TriggerExport,
           TriggerExported, TriggerPoll, TriggerTimeout, CreateStep, CreateRecord, CreateSync
  <2> QED
    BY <1>t, <2>1, FaultsGrow DEF NoFault
<1>3. CASE UNCHANGED exp
  BY <1>1, <1>2, <1>3 DEF StartMove
<1>4. CASE trig[x] = "export" /\ SetExp(x, [exp[x] EXCEPT !.pc = "find"])
  <2>1. exp[x].pc = "idle"
    BY <1>4, <1>t DEF Progress
  <2>2. /\ exp'[x] = [exp[x] EXCEPT !.pc = "find"]
        /\ \A y \in Exchanges \ {x} : exp'[y] = exp[y]
    BY <1>4, <1>t, Writes
  <2>3. exp'[x].pc = "find" /\ exp'[x].r = exp[x].r /\ exp'[x].clean = exp[x].clean
    BY <1>t, <2>2 DEF ExportHandler
  <2> QED
    BY <1>1, <1>2, <2>1, <2>2, <2>3 DEF StartMove
<1> QED
  BY <1>3, <1>4
     DEF TriggerStep, TriggerStart, TriggerPost, TriggerCreated, TriggerExport,
         TriggerExported, TriggerPoll, TriggerTimeout, CreateStep, CreateRecord, CreateSync

\* A crash is a fault; the handlers of one connector may be dead.
CrashMove ==
    /\ UNCHANGED <<status, count>>
    /\ faults' > 0
    /\ HandlersMayDie /\ ImportsMayDie

LEMMA CrashMoves ==
    ASSUME TypeOK, NEW c \in Connectors, Crash(c) PROVE CrashMove
  BY DeadEffects, FaultsGrow DEF Crash, CrashMove

\* Every step is one of these.
Move ==
    \/ \E x \in Exchanges : StartMove(x) /\ StartEffect(x)
    \/ \E x \in Exchanges : ExportMove(x) /\ ExportEffect(x)
    \/ \E x \in Exchanges, r \in Resources :
          /\ ImportMove(x, r) \/ ProcessEnds
          /\ ImportEffect(x, r) /\ UNCHANGED count /\ faults' >= faults
    \/ CrashMove
    \/ UNCHANGED <<status, exp, imp, count, faults>>

LEMMA Moves ==
    ASSUME IInv, [Next]_vars PROVE Move
<1>t. TypeOK
  BY DEF IInv
<1>1. ASSUME NEW x \in Exchanges, TriggerStep(x) \/ CreateStep(x)
      PROVE  StartMove(x) /\ StartEffect(x)
  BY <1>1, StartMoves, TriggerEffects, CreateEffects
<1>2. ASSUME NEW x \in Exchanges, ExportStep(x) PROVE ExportMove(x) /\ ExportEffect(x)
  BY <1>2, <1>t, ExportMoves, ExportEffects
<1>3. ASSUME NEW x \in Exchanges, NEW r \in Resources, ImportStep(x, r)
      PROVE  /\ ImportMove(x, r) \/ ProcessEnds
             /\ ImportEffect(x, r) /\ UNCHANGED count /\ faults' >= faults
  BY <1>3, <1>t, ImportMoves, ImportEffects
<1>4. ASSUME NEW c \in Connectors, Crash(c) PROVE CrashMove
  BY <1>4, <1>t, CrashMoves
<1>5. CASE UNCHANGED vars
  BY <1>5 DEF vars, Move
<1> QED
  BY <1>1, <1>2, <1>3, <1>4, <1>5 DEF Next, Move

-----------------------------------------------------------------------------
(* An import that succeeded is counted once *)

\* The imports that succeeded.
Ok(x) == {r \in Resources : imp[x][r].pc = "ok"}

\* While the handler waits for an answer or counts it, the answer is not counted.
CountedOnce ==
    \A x \in Exchanges :
        /\ count[x] <= Cardinality(Ok(x))
        /\ exp[x].pc \in {"await", "count"} => count[x] <= Cardinality(Ok(x) \ {exp[x].r})
        /\ exp[x].pc = "count" => imp[x][exp[x].r].pc = "ok"

\* There are finitely many, and the more there are the larger their number.
LEMMA OkFinite ==
    ASSUME NEW S \in SUBSET Resources, NEW T \in SUBSET S
    PROVE  /\ IsFiniteSet(S) /\ Cardinality(T) \in Nat /\ Cardinality(S) \in Nat
           /\ Cardinality(T) <= Cardinality(S)
<1>1. IsFiniteSet(Resources)
  BY FS_Interval, ArraysAssumption DEF Resources
<1>2. IsFiniteSet(S)
  BY <1>1, FS_Subset
<1> QED
  BY <1>2, FS_Subset, FS_CardinalityType

\* A step that counts nothing, and takes no success back.
LEMMA CountsNothing ==
    ASSUME TypeOK, CountedOnce, NEW y \in Exchanges, Ok(y) \subseteq Ok(y)',
           count'[y] = count[y],
           exp'[y].pc \in {"await", "count"} => exp'[y].pc = exp[y].pc /\ exp'[y].r = exp[y].r
    PROVE  /\ count'[y] <= Cardinality(Ok(y)')
           /\ exp'[y].pc \in {"await", "count"} => count'[y] <= Cardinality(Ok(y)' \ {exp'[y].r})
           /\ exp'[y].pc = "count" => imp'[y][exp'[y].r].pc = "ok"
<1>1. count[y] \in Nat /\ exp[y].r \in Resources
  BY HandlerTypes DEF TypeOK, ExportHandler
<1>2. Ok(y)' \in SUBSET Resources /\ Ok(y) \in SUBSET Resources
  BY DEF Ok
<1>3. count'[y] <= Cardinality(Ok(y)')
  <2> DEFINE T == Ok(y)
             S == Ok(y)'
  <2>1. S \in SUBSET Resources /\ T \in SUBSET S
    BY <1>2
  <2>2. count[y] <= Cardinality(T)
    BY DEF CountedOnce
  <2> HIDE DEF S, T
  <2>3. Cardinality(T) <= Cardinality(S) /\ Cardinality(T) \in Nat /\ Cardinality(S) \in Nat
    BY <2>1, OkFinite
  <2>4. count'[y] <= Cardinality(S)
    BY <1>1, <2>2, <2>3
  <2> QED
    BY <2>4 DEF S
<1>4. ASSUME exp'[y].pc \in {"await", "count"}
      PROVE  count'[y] <= Cardinality(Ok(y)' \ {exp'[y].r})
  <2> DEFINE T == Ok(y) \ {exp[y].r}
             S == Ok(y)' \ {exp[y].r}
  <2>1. S \in SUBSET Resources /\ T \in SUBSET S
    BY <1>2
  <2> HIDE DEF S, T
  <2>2. Cardinality(T) <= Cardinality(S) /\ Cardinality(T) \in Nat /\ Cardinality(S) \in Nat
    BY <2>1, OkFinite
  <2>3. count[y] <= Cardinality(T)
    BY <1>4 DEF CountedOnce, T
  <2> QED
    BY <1>1, <1>4, <2>2, <2>3 DEF S
<1>5. exp'[y].pc = "count" => imp'[y][exp'[y].r].pc = "ok"
  BY <1>1 DEF CountedOnce, Ok
<1> QED
  BY <1>3, <1>4, <1>5

LEMMA CountedOnceStep ==
    ASSUME IInv, CountedOnce, Move PROVE CountedOnce'
<1> DEFINE Goal(y) ==
        /\ count'[y] <= Cardinality(Ok(y)')
        /\ exp'[y].pc \in {"await", "count"} => count'[y] <= Cardinality(Ok(y)' \ {exp'[y].r})
        /\ exp'[y].pc = "count" => imp'[y][exp'[y].r].pc = "ok"
<1> SUFFICES ASSUME NEW y \in Exchanges PROVE Goal(y)
  BY DEF CountedOnce
<1>t. exp[y] \in ExportHandler /\ exp[y].r \in Resources /\ count[y] \in Nat
  BY HandlerTypes DEF IInv, TypeOK, ExportHandler
\* Whoever waits, waits on; whatever succeeded has succeeded.
<1> DEFINE Still ==
        /\ count'[y] = count[y]
        /\ \A q \in Resources : imp[y][q].pc = "ok" => imp'[y][q].pc = "ok"
        /\ exp'[y].pc \in {"await", "count"} => exp'[y].pc = exp[y].pc /\ exp'[y].r = exp[y].r
<1>s. Still => Goal(y)
  <2> SUFFICES ASSUME Still PROVE Goal(y)
    OBVIOUS
  <2>1. Ok(y) \subseteq Ok(y)'
    BY DEF Ok
  <2> QED
    BY <2>1, CountsNothing DEF IInv
<1>1. ASSUME NEW x \in Exchanges, StartMove(x) PROVE Still
  BY <1>1 DEF StartMove
<1>2. ASSUME NEW x \in Exchanges, x # y, ExportMove(x) PROVE Still
  <2>1. \A q \in Resources : imp'[y][q] = imp[y][q]
    BY <1>2 DEF ExportMove, Prepares, Sends, GoesOn, Succeeds, Tells, Saves
  <2>2. count'[y] = count[y]
    BY <1>2 DEF ExportMove, Prepares, Sends, GoesOn, Succeeds, Tells, Saves, IInv, TypeOK
  <2> QED
    BY <1>2, <2>1, <2>2 DEF ExportMove
<1>3. CASE ExportMove(y)
  <2> DEFINE h == exp[y]
             k == exp'[y]
  <2>1. CASE Prepares(y, h, k) \/ Tells(y, h, k) \/ Saves(y, h, k)
    <3>1. Still
      BY <2>1 DEF Prepares, Tells, Saves
    <3> QED
      BY <1>s, <3>1
  <2>2. CASE Sends(y, h, k)
    <3>1. imp[y][h.r].pc = "idle"
      BY <1>t, <2>2 DEF Sends, IInv, SentInOrder, Sending
    <3>2. Ok(y)' = Ok(y) /\ h.r \notin Ok(y)
      BY <1>t, <2>2, <3>1 DEF Sends, Ok
    <3>3. Ok(y)' \ {k.r} = Ok(y) /\ count'[y] = count[y] /\ k.pc = "await"
      BY <2>2, <3>2 DEF Sends
    <3>4. count[y] <= Cardinality(Ok(y))
      BY DEF CountedOnce
    <3> QED
      BY <3>2, <3>3, <3>4
  <2>3. CASE Succeeds(y, h, k)
    <3>1. imp' = imp /\ count' = count /\ k.r = h.r /\ imp[y][h.r].pc = "ok" /\ h.pc = "await"
      BY <2>3 DEF Succeeds
    <3>2. Ok(y)' = Ok(y)
      BY <3>1 DEF Ok
    <3> QED
      BY <3>1, <3>2 DEF CountedOnce
  <2>4. CASE GoesOn(y, h, k) /\ count'[y] = count[y]
    <3>1. Still
      BY <2>4 DEF GoesOn, Advances
    <3> QED
      BY <1>s, <3>1
  <2>5. CASE GoesOn(y, h, k) /\ count'[y] # count[y]
    <3>1. h.pc = "count" /\ imp' = imp /\ k.pc \notin {"await", "count"}
      BY <2>5 DEF GoesOn, Advances
    <3>2. count'[y] = count[y] + 1
      BY <2>5, <3>1 DEF GoesOn, IInv, TypeOK
    <3> DEFINE S == Ok(y)
               T == S \ {h.r}
    <3>3. Ok(y)' = S /\ S \in SUBSET Resources /\ h.r \in S
      BY <1>t, <3>1 DEF CountedOnce, Ok
    <3>4. count[y] <= Cardinality(T)
      BY <3>1 DEF CountedOnce
    <3> HIDE DEF S
    <3>5. IsFiniteSet(S) /\ Cardinality(S) \in Nat
      BY <3>3, OkFinite
    <3>6. Cardinality(T) = Cardinality(S) - 1
      BY <3>3, <3>5, FS_RemoveElement
    <3>7. count'[y] <= Cardinality(S)
      BY <1>t, <3>2, <3>4, <3>5, <3>6
    <3> QED
      BY <3>1, <3>3, <3>7
  <2> QED
    BY <1>3, <2>1, <2>2, <2>3, <2>4, <2>5 DEF ExportMove
<1>4. ASSUME NEW x \in Exchanges, NEW r \in Resources, ImportMove(x, r), UNCHANGED count
      PROVE  Still
  BY <1>4 DEF ImportMove, Works, Calls, ImportTells, ImportSaves, ImportEnds
<1>5. CASE ProcessEnds /\ UNCHANGED count
  <2>1. Still
    BY <1>5 DEF ProcessEnds, HandlersMayDie, ImportsMayDie, Remains, ImportEnds
  <2> QED
    BY <1>s, <2>1
<1>6. CASE CrashMove
  <2>1. Still
    BY <1>6 DEF CrashMove, HandlersMayDie, ImportsMayDie, Remains, ImportEnds
  <2> QED
    BY <1>s, <2>1
<1>7. CASE UNCHANGED <<exp, imp, count>>
  BY <1>7, <1>s
<1> QED
  BY <1>1, <1>2, <1>3, <1>4, <1>5, <1>6, <1>7, <1>s DEF Move

-----------------------------------------------------------------------------
(* Without a fault the handlers take turns *)

\* Once the failed import of another exchange holds a record of x, this is known.
LEMMA MeddledLasts ==
    ASSUME IInv, Move, NEW x \in Exchanges, Meddled(x) PROVE Meddled(x)'
<1>1. PICK y \in Exchanges \ {x}, q \in Resources : imp[y][q].doc = x
  BY DEF Meddled
<1>2. imp[y][q].pc \in {"put", "save", "fail", "dead"}
  BY <1>1 DEF IInv, DocsOf, Misled
<1>3. ASSUME NEW z \in Exchanges, StartMove(z) PROVE imp'[y][q].doc = x
  BY <1>1, <1>3 DEF StartMove
<1>4. ASSUME NEW z \in Exchanges, ExportEffect(z) PROVE imp'[y][q].doc = x
  <2>1. exp[z].r \in Resources
    BY HandlerTypes DEF IInv, ExportHandler
  <2>2. exp[z].pc = "send" => imp[z][exp[z].r].pc = "idle"
    BY <2>1 DEF IInv, SentInOrder, Sending
  <2> QED
    BY <1>1, <1>2, <1>4, <2>2 DEF ExportEffect
<1>5. ASSUME NEW z \in Exchanges, NEW r \in Resources, ImportEffect(z, r)
      PROVE  imp'[y][q].doc = x
  <2>1. CASE <<y, q>> # <<z, r>>
    BY <1>1, <1>5, <2>1 DEF ImportEffect, Remains, SameErrand
  <2>2. CASE y = z /\ q = r
    BY <1>1, <1>2, <1>5, <2>2 DEF ImportEffect, ImportPrepares, ImportTells, ImportSaves,
       SameErrand, ImportEnds
  <2> QED
    BY <2>1, <2>2
<1>6. ASSUME CrashMove PROVE imp'[y][q].doc = x
  BY <1>1, <1>6 DEF CrashMove, ImportsMayDie, Remains, SameErrand
<1>7. imp'[y][q].doc = x
  BY <1>1, <1>3, <1>4, <1>5, <1>6 DEF Move
<1> QED
  BY <1>1, <1>7 DEF Meddled

\* Without such a handler only the handlers of x write the records of x.
LEMMA OwnWrites ==
    ASSUME IInv, NEW z \in Exchanges, NEW r \in Resources, ImportEffect(z, r),
           NEW x \in Exchanges \ {z}, ~Meddled(x)
    PROVE  \A s \in Sides : status'[x][s] = status[x][s]
  BY ImportWrites DEF ImportWrite, Meddled

\* Nobody has written before the policy enforcement point has answered.
FreshRecords ==
    \A x \in Exchanges :
        ~Meddled(x) /\ exp[x].pc \in {"idle", "find", "pep"} =>
            \A s \in Sides : status[x][s] \notin Outcomes

LEMMA FreshRecordsStep ==
    ASSUME IInv, FreshRecords, Move PROVE FreshRecords'
<1> SUFFICES ASSUME NEW y \in Exchanges, ~Meddled(y)', exp'[y].pc \in {"idle", "find", "pep"},
                    NEW s \in Sides
             PROVE  status'[y][s] \notin Outcomes
  BY DEF FreshRecords
<1>m. ~Meddled(y)
  BY MeddledLasts
<1>f. exp[y].pc \in {"idle", "find", "pep"} => status[y][s] \notin Outcomes
  BY <1>m DEF FreshRecords
<1>1. ASSUME NEW x \in Exchanges, StartMove(x), StartEffect(x)
      PROVE  status'[y][s] \notin Outcomes
  BY <1>1, <1>f DEF StartMove, StartEffect, Outcomes, ConsumerOutcomes, ProviderOutcomes
<1>2. ASSUME NEW x \in Exchanges, ExportEffect(x) PROVE status'[y][s] \notin Outcomes
  BY <1>2, <1>f DEF ExportEffect
<1>3. ASSUME NEW x \in Exchanges, NEW r \in Resources, ImportEffect(x, r)
      PROVE  status'[y][s] \notin Outcomes
  <2>1. exp[x].pc \notin {"idle", "find", "pep"}
    BY <1>3 DEF ImportEffect, IInv, PermissionFollowsExport
  <2>2. exp[y].pc \in {"idle", "find", "pep"} /\ y # x
    BY <1>3, <2>1 DEF ImportEffect, HandlersMayDie
  <2> QED
    BY <1>3, <1>f, <1>m, <2>2, OwnWrites
<1>4. CASE CrashMove
  BY <1>4, <1>f DEF CrashMove, HandlersMayDie
<1>5. CASE UNCHANGED <<status, exp>>
  BY <1>5, <1>f
<1> QED
  BY <1>1, <1>2, <1>3, <1>4, <1>5 DEF Move

\* The records of an export that has just begun.
LEMMA OpenRecords ==
    ASSUME IInv, FreshRecords, NEW x \in Exchanges, ~Meddled(x), exp[x].pc \in {"find", "pep"}
    PROVE  \A s \in Sides : status[x][s] = "PENDING"
<1>1. \A s \in Sides : status[x][s] \in Statuses /\ status[x][s] \notin Outcomes
  BY HandlerTypes DEF IInv, FreshRecords
<1>2. \A s \in Sides : status[x][s] # "absent"
  BY RecordsExist
<1> QED
  BY <1>1, <1>2 DEF Statuses

\* No call has failed, nobody has crashed, no stray error has ended a process
\* that works for x, and no other exchange has reached for its records.
Calm(x) ==
    /\ faults = 0 /\ ~Meddled(x) /\ exp[x].pc # "dead"
    /\ \A r \in Resources : imp[x][r].pc # "dead"

LEMMA CalmBefore ==
    ASSUME IInv, Move, NEW x \in Exchanges, Calm(x)' PROVE Calm(x)
<1>f. /\ faults \in Nat /\ faults' = 0 /\ exp'[x].pc # "dead"
      /\ \A q \in Resources : imp'[x][q].pc # "dead"
  BY DEF IInv, TypeOK, Calm
<1>m. ~Meddled(x)
  BY MeddledLasts DEF Calm
<1> SUFFICES ASSUME NEW q \in Resources
             PROVE  faults' >= faults /\ exp[x].pc # "dead" /\ imp[x][q].pc # "dead"
  BY <1>f, <1>m, ArraysAssumption DEF Calm, Resources
<1>1. ASSUME NEW z \in Exchanges, StartMove(z)
      PROVE  faults' >= faults /\ exp[x].pc # "dead" /\ imp[x][q].pc # "dead"
  BY <1>1, <1>f DEF StartMove
<1>2. ASSUME NEW z \in Exchanges, ExportMove(z), ExportEffect(z)
      PROVE  faults' >= faults /\ exp[x].pc # "dead" /\ imp[x][q].pc # "dead"
  <2>1. imp'[x][q] = imp[x][q] \/ imp[x][q].pc = "idle"
    <3>1. exp[z].r \in Resources
      BY HandlerTypes DEF IInv, ExportHandler
    <3>2. exp[z].pc = "send" => imp[z][exp[z].r].pc = "idle"
      BY <3>1 DEF IInv, SentInOrder, Sending
    <3> QED
      BY <1>2, <3>2 DEF ExportEffect
  <2>2. exp[x].pc # "dead"
    BY <1>2, <1>f DEF ExportEffect, ExportEnds
  <2> QED
    BY <1>2, <1>f, <2>1, <2>2 DEF ExportMove
<1>3. ASSUME NEW z \in Exchanges, NEW r \in Resources, ImportEffect(z, r)
      PROVE  exp[x].pc # "dead" /\ imp[x][q].pc # "dead"
  BY <1>3, <1>f DEF ImportEffect, HandlersMayDie, Remains, ImportEnds
<1>4. ~CrashMove
  BY <1>f DEF CrashMove
<1>5. CASE UNCHANGED <<exp, imp, faults>>
  BY <1>5, <1>f
<1> QED
  BY <1>1, <1>2, <1>3, <1>4, <1>5 DEF Move

\* An import runs while the export handler waits for it.
InTurn(x) ==
    \A r \in Resources :
        imp[x][r].pc \notin {"idle"} \cup ImportEnds => exp[x].pc = "await" /\ r = exp[x].r

\* The export handler's document: as it was found, or as it was last saved.  A
\* handler about to save has told the consumer.
ExportIsCurrent(x) ==
    /\ exp[x].pc # "threw"
    /\ \/ exp[x].clean = "PENDING"
       \/ exp[x].pc \in {"catch", "put", "save", "done"} /\ exp[x].clean = status[x]["provider"]
    /\ exp[x].pc = "save" => status[x]["consumer"] = exp[x].want

\* The import handlers' documents, as far as they are records of x.
ImportIsCurrent(x) ==
    \A r \in Resources :
        imp[x][r].doc = x =>
            /\ imp[x][r].pc \in {"purpose", "api", "put", "save"} =>
                  imp[x][r].clean = status[x]["consumer"]
            /\ imp[x][r].pc = "save" => status[x]["provider"] = imp[x][r].want

\* Between telling and saving the records may differ, at other times they agree.
SidesAgree(x) ==
    \/ exp[x].pc \in {"idle", "save"}
    \/ \E r \in Resources : imp[x][r].pc = "save" /\ imp[x][r].doc = x
    \/ status[x]["consumer"] = status[x]["provider"]

Turns(x) == InTurn(x) /\ ExportIsCurrent(x) /\ ImportIsCurrent(x) /\ SidesAgree(x)
TakeTurns == \A x \in Exchanges : Calm(x) => Turns(x)

\* A step that another exchange takes, or that changes no record and no handler.
LEMMA TurnsStay ==
    ASSUME NEW x \in Exchanges, Turns(x), exp'[x] = exp[x],
           \A q \in Resources : imp'[x][q] = imp[x][q],
           \A s \in Sides : status'[x][s] = status[x][s]
    PROVE  Turns(x)'
BY DEF Turns, InTurn, ExportIsCurrent, ImportIsCurrent, SidesAgree, Sides

\* The trigger starts the export when both records are open.
LEMMA StartTurns ==
    ASSUME IInv, IInv', FreshRecords, FreshRecords', NEW z \in Exchanges, NEW x \in Exchanges,
           StartMove(z), StartEffect(z), Turns(x), ~Meddled(x)'
    PROVE  Turns(x)'
<1>1. \A q \in Resources : imp'[x][q] = imp[x][q]
  BY DEF StartMove
<1>2. CASE exp[x].pc # "idle"
  <2>1. exp'[x] = exp[x]
    BY <1>2 DEF StartMove
  <2>2. \A s \in Sides : status[x][s] # "absent"
    <3>1. Sides = {origin[x], Peer(origin[x])}
      BY SidesType DEF IInv
    <3> QED
      BY <1>2, <3>1 DEF IInv, RecordsFollowHandlers, Progress
  <2>3. \A s \in Sides : status'[x][s] = status[x][s]
    BY <2>2 DEF StartEffect
  <2> QED
    BY <1>1, <2>1, <2>3, TurnsStay
<1>3. CASE exp[x].pc = "idle"
  <2>1. \A q \in Resources : imp[x][q].pc = "idle"
    BY <1>3 DEF IInv, PermissionFollowsExport
  <2>2. exp'[x].pc \in {"idle", "find"} /\ exp'[x].clean = exp[x].clean
    BY <1>3 DEF StartMove
  <2>3. exp'[x].clean = "PENDING"
    BY <1>3, <2>2 DEF Turns, ExportIsCurrent
  <2>4. exp'[x].pc = "find" => \A s \in Sides : status'[x][s] = "PENDING"
    <3> SUFFICES ASSUME exp'[x].pc = "find" PROVE \A s \in Sides : status'[x][s] = "PENDING"
      OBVIOUS
    <3>1. \A s \in Sides : status'[x][s] \in Statuses /\ status'[x][s] \notin Outcomes
      BY DEF IInv, TypeOK, FreshRecords
    <3>2. Sides = {origin'[x], Peer(origin'[x])}
      BY DEF IInv, TypeOK, Sides, Peer
    <3>3. \A s \in Sides : status'[x][s] # "absent"
      BY <3>2 DEF IInv, RecordsFollowHandlers, Progress, Peer
    <3> QED
      BY <3>1, <3>3 DEF Statuses
  <2>5. InTurn(x)' /\ ImportIsCurrent(x)'
    BY <1>1, <2>1 DEF InTurn, ImportIsCurrent
  <2>6. ExportIsCurrent(x)'
    BY <2>2, <2>3 DEF ExportIsCurrent
  <2>7. SidesAgree(x)'
    BY <2>2, <2>4 DEF SidesAgree, Sides
  <2> QED
    BY <2>5, <2>6, <2>7 DEF Turns
<1> QED
  BY <1>2, <1>3

\* While the export handler is not waiting, no import runs.
LEMMA NoImportRuns ==
    ASSUME NEW x \in Exchanges, InTurn(x), exp[x].pc # "await"
    PROVE  \A r \in Resources : imp[x][r].pc \in {"idle"} \cup ImportEnds
BY DEF InTurn

\* A step of the export handler without a fault.
LEMMA ExportTurns ==
    ASSUME IInv, FreshRecords, NEW x \in Exchanges, ExportMove(x), faults' = 0, Turns(x),
           ~Meddled(x)
    PROVE  Turns(x)'
<1> DEFINE h == exp[x]
           k == exp'[x]
<1>t. /\ TypeOK /\ h \in ExportHandler /\ h.r \in Resources /\ h.want \in ProviderOutcomes
      /\ h.want # "PENDING"
  BY HandlerTypes DEF IInv, ExportHandler, ProviderOutcomes
<1>i. InTurn(x) /\ ExportIsCurrent(x) /\ ImportIsCurrent(x) /\ SidesAgree(x)
  BY DEF Turns
<1>p. h.pc # "await" => \A r \in Resources : imp[x][r].pc \in {"idle"} \cup ImportEnds
  BY <1>i, NoImportRuns
<1>a. h.pc \notin {"idle", "save", "await"} => status[x]["consumer"] = status[x]["provider"]
  BY <1>i, <1>p DEF SidesAgree, ImportEnds
<1>1. CASE Prepares(x, h, k)
  <2>1. /\ \A r \in Resources : imp'[x][r] = imp[x][r] /\ imp[x][r].pc \in {"idle"} \cup ImportEnds
        /\ status' = status
    BY <1>1, <1>p DEF Prepares
  <2>2. InTurn(x)' /\ ImportIsCurrent(x)'
    BY <2>1 DEF InTurn, ImportIsCurrent, ImportEnds
  <2>3. SidesAgree(x)'
    BY <1>1, <1>a, <2>1 DEF Prepares, SidesAgree
  <2>4. h.pc = "find" => status[x]["provider"] = "PENDING"
    BY OpenRecords DEF Sides
  <2>5. ExportIsCurrent(x)'
    BY <1>1, <1>i, <2>1, <2>4 DEF Prepares, ExportIsCurrent
  <2> QED
    BY <2>2, <2>3, <2>5 DEF Turns
<1>2. CASE Sends(x, h, k)
  <2>1. \A r \in Resources \ {h.r} :
            imp'[x][r] = imp[x][r] /\ imp[x][r].pc \in {"idle"} \cup ImportEnds
    BY <1>2, <1>p DEF Sends
  <2>2. imp'[x][h.r].pc \in {"verify", "find"} /\ status' = status
        /\ k.pc = "await" /\ k.r = h.r /\ h.pc = "send" /\ k.clean = h.clean
    BY <1>2 DEF Sends
  <2>3. InTurn(x)' /\ ImportIsCurrent(x)'
    BY <2>1, <2>2 DEF InTurn, ImportIsCurrent, ImportEnds
  <2>4. SidesAgree(x)'
    BY <1>a, <2>2 DEF SidesAgree
  <2>5. ExportIsCurrent(x)'
    BY <1>i, <2>2 DEF ExportIsCurrent
  <2> QED
    BY <2>3, <2>4, <2>5 DEF Turns
<1>3. CASE GoesOn(x, h, k)
  <2>1. h.pc \in {"await", "count"} /\ (h.pc = "await" => imp[x][h.r].pc \in ImportEnds)
    BY <1>3 DEF GoesOn
  <2>2. status' = status /\ imp' = imp /\ k.clean = h.clean /\ k.pc \in {"done", "fetch"}
    BY <1>3 DEF GoesOn, Advances
  <2>3. \A r \in Resources : imp[x][r].pc \in {"idle"} \cup ImportEnds
    BY <1>i, <2>1 DEF InTurn
  <2>4. InTurn(x)' /\ ImportIsCurrent(x)'
    BY <2>2, <2>3 DEF InTurn, ImportIsCurrent, ImportEnds
  <2>5. SidesAgree(x)'
    BY <1>i, <2>1, <2>2, <2>3 DEF SidesAgree, ImportEnds
  <2>6. ExportIsCurrent(x)'
    BY <1>i, <2>1, <2>2 DEF ExportIsCurrent
  <2> QED
    BY <2>4, <2>5, <2>6 DEF Turns
<1>4. CASE Succeeds(x, h, k)
  <2>1. /\ status' = status /\ imp' = imp /\ k.clean = h.clean /\ k.pc = "count"
        /\ h.pc = "await" /\ imp[x][h.r].pc \in ImportEnds
    BY <1>4 DEF Succeeds, ImportEnds
  <2>2. \A r \in Resources : imp[x][r].pc \in {"idle"} \cup ImportEnds
    BY <1>i, <2>1 DEF InTurn
  <2>3. InTurn(x)' /\ ImportIsCurrent(x)'
    BY <2>1, <2>2 DEF InTurn, ImportIsCurrent, ImportEnds
  <2>4. SidesAgree(x)'
    BY <1>i, <2>1, <2>2 DEF SidesAgree, ImportEnds
  <2>5. ExportIsCurrent(x)'
    BY <1>i, <2>1 DEF ExportIsCurrent
  <2> QED
    BY <2>3, <2>4, <2>5 DEF Turns
<1>5. CASE Tells(x, h, k)
  <2>1. /\ imp' = imp /\ h.pc = "put" /\ k.pc = "save" /\ k.clean = h.clean /\ k.want = h.want
        /\ status' = WithStatus(x, "consumer", h.want)
    BY <1>5 DEF Tells
  <2>2. status'[x]["consumer"] = h.want /\ status'[x]["provider"] = status[x]["provider"]
    BY <1>t, <2>1, RecordWrites DEF Sides
  <2>3. \A r \in Resources : imp[x][r].pc \in {"idle"} \cup ImportEnds
    BY <1>p, <2>1
  <2>4. InTurn(x)' /\ ImportIsCurrent(x)'
    BY <2>1, <2>3 DEF InTurn, ImportIsCurrent, ImportEnds
  <2>5. SidesAgree(x)' /\ ExportIsCurrent(x)'
    BY <1>i, <2>1, <2>2 DEF SidesAgree, ExportIsCurrent
  <2> QED
    BY <2>4, <2>5 DEF Turns
<1>6. CASE Saves(x, h, k)
  <2>1. /\ imp' = imp /\ h.pc = "save" /\ k.pc \in {"done", "catch"} /\ k.clean = h.want
        /\ status' = IF h.want = h.clean THEN status ELSE WithStatus(x, "provider", h.want)
    BY <1>6 DEF Saves
  <2>2. status[x]["consumer"] = h.want
    BY <1>i, <2>1 DEF ExportIsCurrent
  <2>3. h.want = h.clean => status[x]["provider"] = h.want
    BY <1>i, <1>t DEF ExportIsCurrent
  <2>4. status'[x]["consumer"] = h.want /\ status'[x]["provider"] = h.want
    BY <1>t, <2>1, <2>2, <2>3, RecordWrites DEF Sides
  <2>5. \A r \in Resources : imp[x][r].pc \in {"idle"} \cup ImportEnds
    BY <1>p, <2>1
  <2>6. InTurn(x)' /\ ImportIsCurrent(x)'
    BY <2>1, <2>5 DEF InTurn, ImportIsCurrent, ImportEnds
  <2>7. SidesAgree(x)' /\ ExportIsCurrent(x)'
    BY <2>1, <2>4 DEF SidesAgree, ExportIsCurrent
  <2> QED
    BY <2>6, <2>7 DEF Turns
<1> QED
  BY <1>1, <1>2, <1>3, <1>4, <1>5, <1>6 DEF ExportMove

\* A step of the import handler of r without a fault.
LEMMA ImportTurns ==
    ASSUME IInv, NEW x \in Exchanges, NEW r \in Resources, ImportMove(x, r), ImportEffect(x, r),
           faults' = 0, Turns(x)
    PROVE  Turns(x)'
<1> DEFINE h == imp[x][r]
           k == imp'[x][r]
<1>i. InTurn(x) /\ ExportIsCurrent(x) /\ ImportIsCurrent(x) /\ SidesAgree(x) /\ TypeOK
  BY DEF Turns, IInv
<1>m. /\ Works(x, h, k) \/ Calls(x, h, k) \/ ImportSaves(x, h, k)
      /\ exp' = exp
      /\ \A q \in Resources \ {r} : imp'[x][q] = imp[x][q]
  BY DEF ImportMove
<1>1. h.pc \notin {"idle"} \cup ImportEnds
  BY DEF ImportEffect
<1>2. exp[x].pc = "await" /\ r = exp[x].r
  BY <1>1, <1>i DEF InTurn
<1>3. \A q \in Resources \ {r} : imp[x][q].pc \in {"idle"} \cup ImportEnds
  BY <1>2, <1>i DEF InTurn
<1>4. InTurn(x)'
  BY <1>m, <1>2, <1>3 DEF InTurn
<1>5. \A s \in Sides : status'[x][s] # status[x][s] => h.doc = x
  BY ImportWrites DEF ImportWrite
<1>6. ExportIsCurrent(x)'
  BY <1>i, <1>m, <1>2 DEF ExportIsCurrent
<1>7. \A q \in Resources \ {r} : imp'[x][q].pc \notin {"purpose", "api", "put", "save"}
  BY <1>m, <1>3 DEF ImportEnds
<1>8. h.pc # "save" \/ h.doc # x => status[x]["consumer"] = status[x]["provider"]
  BY <1>i, <1>2, <1>3 DEF SidesAgree, ImportEnds
<1>9. CASE Works(x, h, k)
  <2>1. status' = status /\ h.pc # "save" /\ k.pc # "save"
    BY <1>9 DEF Works
  <2>2. h.doc = x
    BY <1>1, <1>9 DEF IInv, DocsOf, Misled, Works, ImportEnds
  <2>3. k.doc = x /\ k.pc \in {"purpose", "api", "put"} => k.clean = status[x]["consumer"]
    BY <1>9, <1>i, <2>2 DEF Works, ImportIsCurrent
  <2>4. ImportIsCurrent(x)'
    BY <1>7, <2>1, <2>3 DEF ImportIsCurrent
  <2>5. SidesAgree(x)'
    BY <1>8, <2>1 DEF SidesAgree
  <2> QED
    BY <1>4, <1>6, <2>4, <2>5 DEF Turns
<1>10. CASE Calls(x, h, k) /\ h.doc = x
  <2>1. /\ h.pc = "put" /\ k.pc = "save" /\ k.want = h.want /\ k.clean = h.clean /\ k.doc = x
        /\ status' = WithStatus(x, Peer(DocSide(x, h)), h.want)
    BY <1>10 DEF Calls, ImportTells, SameErrand
  <2>2. Peer(DocSide(x, h)) = "provider"
    BY <1>10 DEF DocSide, Peer
  <2>3. status'[x]["provider"] = h.want /\ status'[x]["consumer"] = status[x]["consumer"]
    BY <1>i, <2>1, <2>2, RecordWrites DEF Sides
  <2>4. h.clean = status[x]["consumer"]
    BY <1>10, <1>i, <2>1 DEF ImportIsCurrent
  <2>5. ImportIsCurrent(x)'
    BY <1>7, <2>1, <2>3, <2>4 DEF ImportIsCurrent
  <2>6. SidesAgree(x)'
    BY <2>1 DEF SidesAgree
  <2> QED
    BY <1>4, <1>6, <2>5, <2>6 DEF Turns
<1>11. CASE ImportSaves(x, h, k) /\ h.doc = x
  <2>1. /\ h.pc = "save" /\ k.pc \notin {"save", "put"} /\ k.clean = h.want
        /\ status' = IF h.want = h.clean THEN status ELSE WithStatus(x, DocSide(x, h), h.want)
    BY <1>11 DEF ImportSaves
  <2>2. DocSide(x, h) = "consumer"
    BY <1>11 DEF DocSide
  <2>3. status[x]["provider"] = h.want /\ h.clean = status[x]["consumer"]
    BY <1>11, <1>i, <2>1 DEF ImportIsCurrent
  <2>4. status'[x]["consumer"] = h.want /\ status'[x]["provider"] = h.want
    BY <1>i, <2>1, <2>2, <2>3, RecordWrites DEF Sides
  <2>5. ImportIsCurrent(x)'
    BY <1>7, <2>1, <2>4 DEF ImportIsCurrent
  <2>6. SidesAgree(x)'
    BY <2>4 DEF SidesAgree
  <2> QED
    BY <1>4, <1>6, <2>5, <2>6 DEF Turns
<1>12. CASE (Calls(x, h, k) \/ ImportSaves(x, h, k)) /\ h.doc # x
  <2>1. k.doc # x
    BY <1>12 DEF Calls, ImportTells, ImportSaves, SameErrand
  <2>2. \A s \in Sides : status'[x][s] = status[x][s]
    BY <1>5, <1>12
  <2>3. ImportIsCurrent(x)'
    BY <1>7, <2>1 DEF ImportIsCurrent
  <2>4. SidesAgree(x)'
    BY <1>8, <1>12, <2>2 DEF SidesAgree, Sides
  <2> QED
    BY <1>4, <1>6, <2>3, <2>4 DEF Turns
<1> QED
  BY <1>m, <1>9, <1>10, <1>11, <1>12

LEMMA TakeTurnsStep ==
    ASSUME IInv, IInv', FreshRecords, FreshRecords', TakeTurns, Move
    PROVE  TakeTurns'
<1> SUFFICES ASSUME NEW x \in Exchanges, Calm(x)' PROVE Turns(x)'
  BY DEF TakeTurns
<1>c. /\ Calm(x) /\ Turns(x) /\ faults' = 0 /\ exp'[x].pc # "dead"
      /\ \A q \in Resources : imp'[x][q].pc # "dead"
      /\ ~Meddled(x) /\ ~Meddled(x)'
  BY CalmBefore DEF TakeTurns, Calm
<1>1. ASSUME NEW z \in Exchanges, StartMove(z), StartEffect(z) PROVE Turns(x)'
  BY <1>1, <1>c, StartTurns
<1>2. ASSUME NEW z \in Exchanges, z # x, ExportMove(z), ExportEffect(z) PROVE Turns(x)'
  BY <1>2, <1>c, TurnsStay DEF ExportEffect
<1>3. ASSUME ExportMove(x) PROVE Turns(x)'
  BY <1>3, <1>c, ExportTurns
<1>4. ASSUME NEW z \in Exchanges, NEW r \in Resources, z # x, ImportMove(z, r), ImportEffect(z, r)
      PROVE  Turns(x)'
  <2>1. \A s \in Sides : status'[x][s] = status[x][s]
    BY <1>4, <1>c, OwnWrites
  <2> QED
    BY <1>4, <1>c, <2>1, TurnsStay DEF ImportMove
<1>5. ASSUME NEW r \in Resources, ImportMove(x, r), ImportEffect(x, r) PROVE Turns(x)'
  BY <1>5, <1>c, ImportTurns
<1>6. CASE ProcessEnds
  BY <1>6, <1>c, TurnsStay DEF ProcessEnds, HandlersMayDie, ImportsMayDie, Remains
<1>7. ~CrashMove
  BY <1>c DEF CrashMove
<1>8. CASE UNCHANGED <<status, exp, imp>>
  BY <1>8, <1>c, TurnsStay
<1> QED
  BY <1>1, <1>2, <1>3, <1>4, <1>5, <1>6, <1>7, <1>8 DEF Move

-----------------------------------------------------------------------------
(* Theorems *)

\* IInv, and what was added to it.
AInv == IInv /\ CountedOnce /\ FreshRecords /\ TakeTurns

LEMMA AgreementInit == Init => AInv
<1> SUFFICES ASSUME Init PROVE AInv
  OBVIOUS
<1>1. IInv
  BY InitInvariant
<1>2. \A x \in Exchanges :
          /\ exp[x].pc = "idle" /\ exp[x].clean = "PENDING" /\ count[x] = 0
          /\ \A r \in Resources : imp[x][r].pc = "idle"
          /\ \A s \in Sides : status[x][s] = "absent"
  BY DEF Init, IdleExport, IdleImport
<1>3. FreshRecords
  BY <1>2 DEF FreshRecords, Outcomes, ConsumerOutcomes, ProviderOutcomes
<1>4. CountedOnce
  <2>1. \A x \in Exchanges : Cardinality(Ok(x)) = 0
    BY <1>2, FS_EmptySet DEF Ok
  <2> QED
    BY <1>2, <2>1 DEF CountedOnce
<1>5. TakeTurns
  BY <1>2 DEF TakeTurns, Turns, InTurn, ExportIsCurrent, ImportIsCurrent, SidesAgree
<1> QED
  BY <1>1, <1>3, <1>4, <1>5 DEF AInv

\* The parts together hold of every behaviour.
THEOREM AgreementInvariant == Spec => []AInv
<1>1. AInv /\ [Next]_vars => AInv'
  <2> SUFFICES ASSUME AInv, [Next]_vars PROVE AInv'
    OBVIOUS
  <2>1. IInv' /\ Move /\ TypeOK /\ TypeOK'
    BY InvariantStep, Moves DEF AInv, IInv
  <2>2. CountedOnce' /\ FreshRecords'
    BY <2>1, CountedOnceStep, FreshRecordsStep DEF AInv
  <2> QED
    BY <2>1, <2>2, TakeTurnsStep DEF AInv
<1> QED
  BY <1>1, AgreementInit, PTL DEF Spec

\* However many answers are lost, a policy's counter never counts a resource
\* whose import did not answer with success.
THEOREM UsageIsNotOvercounted == Spec => []UsageNotOvercounted
<1>1. AInv => UsageNotOvercounted
  BY DEF AInv, CountedOnce, Ok, UsageNotOvercounted
<1> QED
  BY <1>1, AgreementInvariant, PTL

\* Two connectors that lose no call and do not crash end an exchange with the
\* same status, whatever errors the data and the applications caused, unless the
\* failed import of another exchange wrote into their records.
THEOREM FaultFreeSidesAgree == Spec => []FaultFreeAgreement
<1>1. AInv => FaultFreeAgreement
  <2> SUFFICES ASSUME AInv, NEW x \in Exchanges,
                      faults = 0, AllEnded(x), NobodyDied(x), Started(x),
                      ~Meddled(x)
               PROVE  status[x]["consumer"] = status[x]["provider"]
    BY DEF FaultFreeAgreement
  <2>1. Turns(x)
    BY DEF AInv, TakeTurns, Calm, NobodyDied
  <2>2. /\ exp[x].pc \notin {"idle", "save"}
        /\ \A r \in Resources : imp[x][r].pc # "save"
    BY DEF AllEnded, ExportEnds, ImportEnds
  <2> QED
    BY <2>1, <2>2 DEF Turns, SidesAgree
<1> QED
  BY <1>1, AgreementInvariant, PTL
=============================================================================
