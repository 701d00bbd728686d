------------------------ MODULE ConfigurationProofs -------------------------
(***************************************************************************)
(* Proofs about the configuration of a connector (ConnectorConfiguration)  *)
(* that also serves its users (UserRegistry), for every number of          *)
(* handlers, keys, origins, users, requests and faults: until a reset      *)
(* there is one configuration with an appKey, the catalogue's registration *)
(* holds it, and a login gives a token that verifies.                      *)
(***************************************************************************)
EXTENDS UserRegistry, SequenceTheorems, WellFoundedInduction, TLAPS

Requests == {Idle} \cup ConfigurationRequest
\* All that the configuration has to know of a request on the users.
OnUsers(r) == "op" \in DOMAIN r /\ r.op \in UserOps
RequestsTyped ==
    /\ DOMAIN req = Handlers
    /\ \A s \in Handlers : req[s] \in Requests \/ OnUsers(req[s])

IdsArePositive == \A n \in 1..Len(confs) : confs[n].id > 0

\* A registration that is about to tell the catalogue no appKey read it after
\* a reset.
Grounded(r) ==
    r.op = "register" /\ r.pc \in {"check", "post", "list"} /\ r.self.app = 0 => everReset
RegistersGrounded == \A s \in Handlers : Grounded(req[s])

(* The inductive invariant, in the parts that the actions disturb together. *)
StoreOK ==
    /\ confs \in Seq(Document) /\ serial \in Nat /\ everReset \in BOOLEAN
    /\ IdsArePositive
    /\ OneConfiguration
HandlersOK == RequestsTyped /\ RegistersGrounded
CatalogueOK ==
    /\ reg \in Registration \cup {NotRegistered}
    /\ RegisteredWithAppKey
    /\ catalog \in Seq(BOOLEAN)
ProcessOK ==
    /\ up \in BOOLEAN /\ ended \in BOOLEAN
    /\ started \in 0..MaxRequests /\ faults \in 0..MaxFaults
AccessOK == cred \in {"file", "edited"} /\ token \in Keys \cup {NoKeys}

CInv == StoreOK /\ HandlersOK /\ CatalogueOK /\ ProcessOK /\ AccessOK

-----------------------------------------------------------------------------
(* Selecting in a sequence *)

LEMMA MinIn == ASSUME NEW S \in SUBSET Nat, S # {} PROVE Min(S) \in S
<1>1. PICK x \in S : \A y \in S : ~(<<y, x>> \in OpToRel(<, Nat))
  BY NatLessThanWellFounded, WFMin
<1>2. OpToRel(<, Nat) = {p \in Nat \X Nat : p[1] < p[2]}
  BY DEF OpToRel
<1>3. \A y \in S : x =< y
  <2> TAKE y \in S
  <2>1. <<y, x>> \notin {p \in Nat \X Nat : p[1] < p[2]}
    BY <1>1, <1>2
  <2> QED
    BY <2>1
<1> QED
  BY <1>3 DEF Min

LEMMA FirstIn ==
    ASSUME NEW n \in Nat, NEW I \in SUBSET (1..n)
    PROVE  (IF I # {} THEN Min(I) ELSE 0) \in 0..n
<1>1. I \in SUBSET Nat
  OBVIOUS
<1>2. CASE I = {}
  BY <1>2
<1>3. CASE I # {}
  <2>1. Min(I) \in I
    BY <1>1, <1>3, MinIn
  <2>2. Min(I) \in 1..n
    BY <2>1
  <2> QED
    BY <1>3, <2>2
<1> QED
  BY <1>2, <1>3

Entry == [id : Nat, name : Origins, by : Keys]

LEMMA DocumentOrigins == ASSUME NEW doc \in Document PROVE doc.origins \in Seq(Entry)
BY DEF Document, Entry

LEMMA NamedAtIsNat == ASSUME NEW doc \in Document, NEW name PROVE NamedAt(doc, name) \in Nat
<1> DEFINE os == doc.origins
           I == {i \in 1..Len(os) : os[i].name = name}
<1>1. NamedAt(doc, name) = IF I # {} THEN Min(I) ELSE 0
  BY DEF NamedAt, SelectInSeq
<1>2. Len(os) \in Nat
  BY DocumentOrigins, LenProperties
<1>3. I \in SUBSET (1..Len(os))
  OBVIOUS
<1> HIDE DEF I, os
<1>4. (IF I # {} THEN Min(I) ELSE 0) \in 0..Len(os)
  BY <1>2, <1>3, FirstIn
<1> QED
  BY <1>1, <1>2, <1>4

LEMMA PositionInRange ==
    ASSUME confs \in Seq(Document), NEW id
    PROVE  Position(id) \in 0..Len(confs)
<1> DEFINE I == {i \in 1..Len(confs) : confs[i].id = id}
<1>1. Position(id) = IF I # {} THEN Min(I) ELSE 0
  BY DEF Position, SelectInSeq
<1>2. Len(confs) \in Nat
  BY LenProperties
<1>3. I \in SUBSET (1..Len(confs))
  OBVIOUS
<1> HIDE DEF I
<1> QED
  BY <1>1, <1>2, <1>3, FirstIn

LEMMA SplicedTyped ==
    ASSUME NEW doc \in Document, NEW target PROVE Spliced(doc, target) \in Seq(Entry)
<1> DEFINE os == doc.origins
           n == Len(os)
           I == {i \in 1..n : os[i].id = target}
           at == IF I # {} THEN Min(I) ELSE 0
           gone == IF at = 0 THEN n ELSE at
<1>1. Spliced(doc, target) = IF os = <<>> THEN <<>> ELSE RemoveAt(os, gone)
  BY DEF Spliced, SelectInSeq
<1>2. os \in Seq(Entry) /\ n \in Nat /\ (os # <<>> => n # 0)
  BY DocumentOrigins, LenProperties, EmptySeq
<1>3. I \in SUBSET (1..n)
  OBVIOUS
<1>4. \A i \in 1..n : os[i] \in Entry
  BY <1>2, ElementOfSeq
<1> HIDE DEF I, os
<1>5. at \in 0..n
  <2> HIDE DEF n
  <2> QED
    BY <1>2, <1>3, FirstIn
<1> HIDE DEF at
<1>6. CASE os = <<>>
  BY <1>1, <1>6, EmptySeq
<1>7. CASE os # <<>>
  <2> HIDE DEF n
  <2>1. gone \in 1..n
    BY <1>2, <1>5, <1>7
  <2> HIDE DEF gone
  <2>2. /\ gone - 1 \in Int /\ gone + 1 \in Int /\ n \in Int
        /\ \A i \in 1..(gone - 1) : os[i] \in Entry
        /\ \A i \in (gone + 1)..n : os[i] \in Entry
    BY <1>2, <1>4, <2>1
  <2>3. SubSeq(os, 1, gone - 1) \in Seq(Entry)
    BY <2>2, SubSeqProperties
  <2>4. SubSeq(os, gone + 1, n) \in Seq(Entry)
    BY <2>2, SubSeqProperties
  <2>5. RemoveAt(os, gone) = SubSeq(os, 1, gone - 1) \o SubSeq(os, gone + 1, n)
    BY DEF RemoveAt, n
  <2> QED
    BY <1>1, <1>7, <2>3, <2>4, <2>5, ConcatProperties
<1> QED
  BY <1>6, <1>7

-----------------------------------------------------------------------------
(* The first document and what is read from it *)

\* A look-up that finds something finds a document.
LEMMA FoundInStore ==
    ASSUME StoreOK, NEW id, Position(id) # 0
    PROVE  Position(id) \in 1..Len(confs) /\ confs[Position(id)] \in Document
<1>1. confs \in Seq(Document) /\ Len(confs) \in Nat
  BY LenProperties DEF StoreOK
<1>2. Position(id) \in 0..Len(confs)
  BY <1>1, PositionInRange
<1>3. Position(id) \in 1..Len(confs)
  BY <1>1, <1>2
<1> QED
  BY <1>1, <1>3, ElementOfSeq

LEMMA FirstDocument ==
    ASSUME StoreOK
    PROVE  /\ Len(confs) \in Nat /\ DOMAIN confs = 1..Len(confs)
           /\ NoConf <=> Len(confs) = 0
           /\ ~NoConf => confs[1] \in Document /\ confs[1].id > 0
           /\ ~everReset => ~NoConf /\ Len(confs) = 1 /\ confs[1].keyed
<1>1. Len(confs) \in Nat /\ DOMAIN confs = 1..Len(confs) /\ (NoConf <=> Len(confs) = 0)
  BY LenProperties, EmptySeq DEF StoreOK, NoConf
<1>2. ~NoConf => confs[1] \in Document /\ confs[1].id > 0
  BY <1>1, ElementOfSeq DEF StoreOK, IdsArePositive
<1> QED
  BY <1>1, <1>2 DEF StoreOK, OneConfiguration

LEMMA KeysRead ==
    ASSUME StoreOK
    PROVE  EffectiveKeys \in Keys /\ AppKey \in Nat /\ (AppKey = 0 => everReset)
<1>1. FileKeys \in Keys
  BY KeysAssumption
<1> QED
  BY <1>1, FirstDocument DEF EffectiveKeys, AppKey, Document

LEMMA FreshTyped ==
    ASSUME serial \in Nat, NEW keyed \in BOOLEAN, NEW keys \in Keys \cup {NoKeys}
    PROVE  /\ Fresh(keyed, keys) \in Document
           /\ Fresh(keyed, keys).id = serial + 1 /\ Fresh(keyed, keys).keyed = keyed
<1>1. <<>> \in Seq(Entry)
  BY EmptySeq
<1> QED
  BY <1>1 DEF Fresh, Document, Entry

(* What the steps do to the collection. *)

\* A document is written over with one of the same identity and appKey.
LEMMA Overwritten ==
    ASSUME StoreOK, NEW p \in 1..Len(confs), NEW d \in Document,
           d.id = confs[p].id, d.keyed = confs[p].keyed,
           confs' = [confs EXCEPT ![p] = d], serial' \in Nat, everReset' = everReset
    PROVE  StoreOK'
<1>1. /\ confs' \in Seq(Document) /\ Len(confs') = Len(confs)
      /\ \A j \in 1..Len(confs) : confs'[j] = IF j = p THEN d ELSE confs[j]
  BY ExceptSeq DEF StoreOK
<1>2. IdsArePositive'
  BY <1>1 DEF StoreOK, IdsArePositive
<1>3. OneConfiguration'
  BY <1>1 DEF StoreOK, OneConfiguration
<1> QED
  BY <1>1, <1>2, <1>3 DEF StoreOK

\* A document is appended after a reset.
LEMMA Appended ==
    ASSUME StoreOK, everReset, NEW d \in Document, d.id > 0,
           confs' = Append(confs, d), serial' \in Nat, everReset' = everReset
    PROVE  StoreOK'
<1>1. /\ confs' \in Seq(Document) /\ Len(confs') = Len(confs) + 1
      /\ \A j \in 1..Len(confs') : confs'[j] = IF j <= Len(confs) THEN confs[j] ELSE d
  BY AppendProperties, LenProperties DEF StoreOK
<1>2. IdsArePositive'
  BY <1>1, FirstDocument DEF StoreOK, IdsArePositive
<1> QED
  BY <1>1, <1>2 DEF StoreOK, OneConfiguration

LEMMA UpsertKeeps ==
    ASSUME StoreOK, NEW keys \in Keys \cup {NoKeys}, UpsertFirst(keys), everReset' = everReset
    PROVE  StoreOK'
<1>1. CASE NoConf
  <2>1. everReset
    BY <1>1, FirstDocument
  <2> DEFINE d == Fresh(FALSE, keys)
  <2>2. d \in Document /\ d.id > 0 /\ serial + 1 \in Nat
    <3>1. serial \in Nat /\ FALSE \in BOOLEAN
      BY DEF StoreOK
    <3>2. d \in Document /\ d.id = serial + 1
      BY <3>1, FreshTyped, Zenon
    <3> HIDE DEF d
    <3> QED
      BY <3>1, <3>2
  <2>3. confs = <<>> /\ confs' = <<d>> /\ serial' = serial + 1
    BY <1>1 DEF UpsertFirst, NoConf
  <2> HIDE DEF d
  <2>4. confs' = Append(confs, d)
    BY <2>3
  <2> QED
    BY <2>1, <2>2, <2>3, <2>4, Appended
<1>2. CASE ~NoConf
  <2> DEFINE d == [confs[1] EXCEPT !.keys = keys]
  <2>1. 1 \in 1..Len(confs) /\ confs[1] \in Document
    BY <1>2, FirstDocument
  <2>2. d \in Document /\ d.id = confs[1].id /\ d.keyed = confs[1].keyed
    BY <2>1 DEF Document
  <2>3. serial' \in Nat /\ (confs' = confs \/ confs' = [confs EXCEPT ![1] = d])
    BY <1>2 DEF UpsertFirst, StoreOK
  <2>4. CASE confs' = confs
    BY <2>3, <2>4 DEF StoreOK, IdsArePositive, OneConfiguration
  <2>5. CASE confs' = [confs EXCEPT ![1] = d]
    <3> HIDE DEF d
    <3> QED
      BY <2>1, <2>2, <2>3, <2>5, Overwritten
  <2> QED
    BY <2>3, <2>4, <2>5
<1> QED
  BY <1>1, <1>2

-----------------------------------------------------------------------------
(* What the steps do to the handlers *)

LEMMA HandlerDoes ==
    ASSUME HandlersOK, everReset => everReset', NEW s \in Handlers, NEW r,
           r \in Requests \/ OnUsers(r), Grounded(r), Do(s, r)
    PROVE  HandlersOK'
<1>1. DOMAIN req' = Handlers /\ \A t \in Handlers : req'[t] = IF t = s THEN r ELSE req[t]
  BY DEF HandlersOK, RequestsTyped, Do
<1>2. RequestsTyped'
  <2> SUFFICES ASSUME NEW t \in Handlers PROVE req'[t] \in Requests \/ OnUsers(req'[t])
    BY <1>1 DEF RequestsTyped, OnUsers
  <2> QED
    BY <1>1 DEF HandlersOK, RequestsTyped
<1>3. RegistersGrounded'
  BY <1>1 DEF HandlersOK, RegistersGrounded, Grounded
<1> QED
  BY <1>2, <1>3 DEF HandlersOK

LEMMA HandlersStay ==
    ASSUME HandlersOK, everReset => everReset', req' = req PROVE HandlersOK'
BY DEF HandlersOK, RequestsTyped, OnUsers, RegistersGrounded, Grounded

LEMMA HandlersVanish == ASSUME req' = [s \in Handlers |-> Idle] PROVE HandlersOK'
BY DEF HandlersOK, RequestsTyped, RegistersGrounded, Grounded, Requests, Idle

LEMMA IdleRequest == Idle \in Requests /\ Grounded(Idle)
BY DEF Requests, Idle, Grounded

LEMMA HandlerEnds ==
    ASSUME HandlersOK, everReset => everReset', NEW s \in Handlers, Ends(s)
    PROVE  HandlersOK'
BY IdleRequest, HandlerDoes DEF Ends

LEMMA HandlerRegisters ==
    ASSUME HandlersOK, everReset => everReset', NEW s \in Handlers, Registers(s)
    PROVE  HandlersOK'
<1>1. [op |-> "register", pc |-> "read"] \in Requests
      /\ Grounded([op |-> "register", pc |-> "read"])
  BY DEF Requests, ConfigurationRequest, Grounded
<1> QED
  BY <1>1, HandlerDoes DEF Registers

\* What a handler holds, by what it is doing.
LEMMA RequestShapes ==
    ASSUME HandlersOK, NEW s \in Handlers,
           req[s].op \in {"register", "addOrigin", "push", "resign", "splice"}
    PROVE  /\ Grounded(req[s])
           /\ req[s].op = "register" /\ req[s].pc # "read" =>
                req[s] \in [op : {"register"}, pc : {"check", "post", "list"}, self : Registration]
           /\ req[s].op = "addOrigin" =>
                req[s] \in [op : {"addOrigin"}, pc : {"sign"}, doc : Document, name : Origins]
           /\ req[s].op = "push" =>
                req[s] \in [op : {"push"}, doc : Nat, name : Origins, by : Keys]
           /\ req[s].op = "resign" =>
                req[s] \in [op : {"resign"}, doc : Nat, v : Nat, at : Nat, by : Keys]
           /\ req[s].op = "splice" =>
                req[s] \in [op : {"splice"}, doc : Document, target : Nat]
<1>1. req[s] \in Requests /\ Grounded(req[s])
  BY DEF HandlersOK, RequestsTyped, OnUsers, UserOps, RegistersGrounded
<1>2. req[s] \in ConfigurationRequest
  BY <1>1 DEF Requests, Idle
<1> QED
  BY <1>1, <1>2 DEF ConfigurationRequest

-----------------------------------------------------------------------------
(* Parts of the invariant that an action leaves alone *)

LEMMA StoreStays ==
    ASSUME StoreOK, confs' = confs, serial' = serial, everReset' = everReset PROVE StoreOK'
BY DEF StoreOK, IdsArePositive, OneConfiguration

LEMMA CatalogueStays ==
    ASSUME CatalogueOK, reg' = reg, catalog' = catalog, everReset => everReset'
    PROVE  CatalogueOK'
BY DEF CatalogueOK, RegisteredWithAppKey

LEMMA AccessStays == ASSUME AccessOK, cred' = cred, token' = token PROVE AccessOK'
BY DEF AccessOK

LEMMA BeginStep == ASSUME ProcessOK, NEW s, Begin(s) PROVE ProcessOK'
BY BoundsAssumption DEF ProcessOK, Begin, Free

LEMMA GoStep == ASSUME ProcessOK, Goes \/ Fails PROVE ProcessOK'
BY BoundsAssumption DEF ProcessOK, Goes, Lives, Fails, Faulty

LEMMA SaveStep ==
    ASSUME ProcessOK, started' = started, faults' = faults, Lives \/ ProcessEnds
    PROVE  ProcessOK'
BY DEF ProcessOK, Lives, ProcessEnds

-----------------------------------------------------------------------------
(* The initial states and the start *)

LEMMA InitHolds == ASSUME ConfigurationInit PROVE CInv
<1> DEFINE o == CHOOSE x \in Origins : TRUE
           e == [id |-> 2, name |-> o, by |-> FileKeys]
           d == [id |-> 1, keyed |-> TRUE, keys |-> FileKeys, session |-> NoKeys,
                 origins |-> <<e>>, v |-> 1]
<1>1. FileKeys \in Keys /\ o \in Origins
  BY KeysAssumption, OriginsAssumption
<1>2. e \in Entry
  BY <1>1 DEF Entry
<1>3. <<e>> \in Seq(Entry)
  <2> HIDE DEF e
  <2> QED
    BY <1>2
<1>4. d \in Document /\ d.id = 1 /\ d.keyed = TRUE
  <2> DEFINE es == <<e>>
  <2> HIDE DEF es
  <2>1. es \in Seq(Entry)
    BY <1>3 DEF es
  <2>2. [id |-> 1, keyed |-> TRUE, keys |-> FileKeys, session |-> NoKeys,
         origins |-> es, v |-> 1] \in Document
    BY <1>1, <2>1 DEF Document, Entry
  <2> QED
    BY <2>2 DEF es
<1>5. confs = <<d>> /\ serial = 2 /\ everReset = FALSE
  BY DEF ConfigurationInit
<1>6. StoreOK
  <2> HIDE DEF d
  <2>1. confs \in Seq(Document) /\ Len(confs) = 1 /\ confs[1] = d
    BY <1>4, <1>5
  <2>2. IdsArePositive /\ OneConfiguration
    BY <1>4, <2>1 DEF IdsArePositive, OneConfiguration
  <2>3. serial \in Nat /\ everReset \in BOOLEAN
    BY <1>5
  <2> QED
    BY <2>1, <2>2, <2>3 DEF StoreOK
<1>7. HandlersOK
  BY DEF ConfigurationInit, HandlersOK, RequestsTyped, RegistersGrounded, Requests, Grounded, Idle
<1>8. CatalogueOK
  <2>1. reg \in Registration \cup {NotRegistered} /\ RegisteredWithAppKey
    BY <1>1 DEF ConfigurationInit, RegisteredWithAppKey, Registration, NotRegistered
  <2>2. catalog \in Seq(BOOLEAN)
    <3>1. <<>> \in Seq(BOOLEAN) /\ <<TRUE>> \in Seq(BOOLEAN)
      OBVIOUS
    <3> QED
      BY <3>1 DEF ConfigurationInit
  <2> QED
    BY <2>1, <2>2 DEF CatalogueOK
<1>9. ProcessOK
  <2>1. up \in BOOLEAN /\ ended \in BOOLEAN
    BY DEF ConfigurationInit
  <2>2. started \in 0..MaxRequests /\ faults \in 0..MaxFaults
    BY BoundsAssumption DEF ConfigurationInit
  <2> QED
    BY <2>1, <2>2 DEF ProcessOK
<1>10. AccessOK
  BY DEF ConfigurationInit, AccessOK
<1> QED
  BY <1>6, <1>7, <1>8, <1>9, <1>10 DEF CInv

LEMMA StartKeeps == ASSUME CInv, StartServer PROVE CInv'
<1> USE DEF CInv
<1>1. StoreOK'
  <2>1. CASE AppKey = 0
    <3> DEFINE d == Fresh(TRUE, EffectiveKeys)
    <3>1. everReset /\ EffectiveKeys \in Keys /\ serial \in Nat /\ TRUE \in BOOLEAN
      BY <2>1, KeysRead DEF StoreOK
    <3>2. d \in Document /\ d.id = serial + 1
      BY <3>1, FreshTyped, Zenon
    <3>3. confs' = Append(confs, d) /\ serial' = serial + 1 /\ everReset' = everReset
      BY <2>1 DEF StartServer, ConfigurationSetUp
    <3> HIDE DEF d
    <3> QED
      BY <3>1, <3>2, <3>3, Appended
  <2>2. CASE AppKey # 0
    <3>1. confs' = confs /\ serial' = serial + 1 /\ everReset' = everReset
      BY <2>2 DEF StartServer, ConfigurationSetUp
    <3> QED
      BY <3>1 DEF StoreOK, IdsArePositive, OneConfiguration
  <2> QED
    BY <2>1, <2>2
<1>2. HandlersOK'
  <2>1. Registers(Boot) /\ Boot \in Handlers /\ everReset' = everReset
    BY DEF StartServer, Registers, Handlers
  <2> QED
    BY <2>1, HandlerRegisters
<1>3. CatalogueOK' /\ ProcessOK' /\ AccessOK'
  BY CatalogueStays DEF StartServer, ProcessOK, AccessOK
<1> QED
  BY <1>1, <1>2, <1>3

LEMMA CrashKeeps == ASSUME CInv, Crash PROVE CInv'
<1> USE DEF CInv
<1>1. StoreOK' /\ CatalogueOK' /\ AccessOK'
  BY StoreStays, CatalogueStays, AccessStays DEF Crash, confVars
<1>2. HandlersOK'
  BY HandlersVanish DEF Crash, ProcessEnds
<1>3. ProcessOK'
  <2>1. up' \in BOOLEAN /\ ended' \in BOOLEAN
    BY DEF Crash, ProcessEnds
  <2>2. started' \in 0..MaxRequests /\ faults' \in 0..MaxFaults
    BY BoundsAssumption DEF Crash, Faulty, ProcessOK
  <2> QED
    BY <2>1, <2>2 DEF ProcessOK
<1> QED
  BY <1>1, <1>2, <1>3

-----------------------------------------------------------------------------
(* Registering *)

LEMMA RegisterReadKeeps == ASSUME CInv, NEW s \in Handlers, RegisterRead(s) PROVE CInv'
<1> USE DEF CInv
<1> DEFINE self == [app |-> AppKey, by |-> EffectiveKeys]
           r == [op |-> "register", pc |-> "check", self |-> self]
<1>1. self \in Registration /\ (self.app = 0 => everReset)
  BY KeysRead DEF Registration
<1>2. Do(s, r) /\ Goes /\ UNCHANGED confVars
  BY DEF RegisterRead
<1>3. r \in Requests /\ Grounded(r)
  <2> HIDE DEF self
  <2> QED
    BY <1>1 DEF Requests, ConfigurationRequest, Grounded
<1> HIDE DEF r
<1>4. StoreOK' /\ CatalogueOK' /\ AccessOK' /\ ProcessOK'
  BY <1>2, StoreStays, CatalogueStays, AccessStays, GoStep DEF confVars
<1>5. HandlersOK'
  BY <1>2, <1>3, HandlerDoes DEF confVars
<1> QED
  BY <1>4, <1>5

LEMMA RegisterCheckKeeps == ASSUME CInv, NEW s \in Handlers, RegisterCheck(s) PROVE CInv'
<1> USE DEF CInv
<1>1. UNCHANGED confVars /\ req[s].op = "register" /\ req[s].pc = "check"
  BY DEF RegisterCheck
<1>2. StoreOK' /\ CatalogueOK' /\ AccessOK' /\ ProcessOK'
  BY <1>1, StoreStays, CatalogueStays, AccessStays, GoStep DEF confVars, RegisterCheck
<1>3. HandlersOK'
  <2> DEFINE r == [req[s] EXCEPT !.pc = "post"]
  <2>1. Do(s, r) \/ Ends(s)
    BY DEF RegisterCheck
  <2>2. r \in Requests /\ Grounded(r)
    BY <1>1, RequestShapes DEF Requests, ConfigurationRequest, Grounded
  <2> HIDE DEF r
  <2> QED
    BY <1>1, <2>1, <2>2, HandlerDoes, HandlerEnds DEF confVars
<1> QED
  BY <1>2, <1>3

LEMMA RegisterPostKeeps == ASSUME CInv, NEW s \in Handlers, RegisterPost(s) PROVE CInv'
<1> USE DEF CInv
<1>1. UNCHANGED <<confs, catalog, cred, token, serial, everReset>>
      /\ req[s].op = "register" /\ req[s].pc = "post" /\ (Goes \/ Fails)
  BY DEF RegisterPost
<1>2. StoreOK' /\ AccessOK' /\ ProcessOK'
  BY <1>1, StoreStays, AccessStays, GoStep
<1>3. req[s].self \in Registration /\ (req[s].self.app = 0 => everReset)
  BY <1>1, RequestShapes DEF Grounded
<1>4. CatalogueOK'
  BY <1>1, <1>3 DEF RegisterPost, CatalogueOK, RegisteredWithAppKey
<1>5. HandlersOK'
  <2> DEFINE r == [req[s] EXCEPT !.pc = "list"]
  <2>1. Do(s, r) \/ Ends(s)
    BY DEF RegisterPost
  <2>2. r \in Requests /\ Grounded(r)
    BY <1>1, RequestShapes DEF Requests, ConfigurationRequest, Grounded
  <2> HIDE DEF r
  <2> QED
    BY <1>1, <2>1, <2>2, HandlerDoes, HandlerEnds
<1> QED
  BY <1>2, <1>4, <1>5

LEMMA RegisterListKeeps == ASSUME CInv, NEW s \in Handlers, RegisterList(s) PROVE CInv'
<1> USE DEF CInv
<1>1. UNCHANGED <<confs, reg, cred, token, serial, everReset>> /\ Goes /\ Ends(s)
      /\ catalog' = Listed(s)
  BY DEF RegisterList
<1>2. StoreOK' /\ AccessOK' /\ ProcessOK' /\ HandlersOK'
  BY <1>1, StoreStays, AccessStays, GoStep, HandlerEnds
<1>3. catalog' \in Seq(BOOLEAN)
  <2>1. CASE catalog = <<>>
    BY <1>1, <2>1 DEF Listed
  <2>2. CASE catalog # <<>>
    <3>1. 1 \in 1..Len(catalog) /\ TRUE \in BOOLEAN /\ catalog \in Seq(BOOLEAN)
      BY <2>2, EmptySeq DEF CatalogueOK
    <3>2. [catalog EXCEPT ![1] = TRUE] \in Seq(BOOLEAN)
      BY <3>1, ExceptSeq, Zenon
    <3> QED
      BY <1>1, <2>2, <3>2 DEF Listed
  <2> QED
    BY <2>1, <2>2
<1>4. CatalogueOK'
  BY <1>1, <1>3 DEF CatalogueOK, RegisteredWithAppKey
<1> QED
  BY <1>2, <1>4

-----------------------------------------------------------------------------
(* Requests on the configuration *)

LEMMA UpdateKeeps ==
    ASSUME CInv, NEW s \in Handlers, NEW keys \in Keys \cup {NoKeys},
           UpdateConfiguration(s, keys)
    PROVE  CInv'
<1> USE DEF CInv
<1>1. Begin(s) /\ UpsertFirst(keys) /\ Registers(s)
      /\ UNCHANGED <<reg, catalog, cred, token, everReset>>
  BY DEF UpdateConfiguration
<1> QED
  BY <1>1, UpsertKeeps, HandlerRegisters, CatalogueStays, AccessStays, BeginStep

LEMMA UpdateConsentKeeps ==
    ASSUME CInv, NEW s \in Handlers, UpdateConsentConfiguration(s) PROVE CInv'
<1> USE DEF CInv
<1>1. Begin(s) /\ UpsertFirst(NoKeys)
      /\ UNCHANGED <<req, reg, catalog, cred, token, everReset>>
  BY DEF UpdateConsentConfiguration
<1> QED
  BY <1>1, UpsertKeeps, HandlersStay, CatalogueStays, AccessStays, BeginStep

LEMMA ResetKeeps == ASSUME CInv, NEW s \in Handlers, ResetConfiguration(s) PROVE CInv'
<1> USE DEF CInv
<1>1. Begin(s) /\ UNCHANGED <<req, reg, catalog, cred, token, serial>>
      /\ (everReset => everReset') /\ (~NoConf => everReset')
      /\ confs' = IF NoConf THEN confs ELSE Tail(confs)
  BY DEF ResetConfiguration
<1>2. everReset' \in BOOLEAN /\ everReset'
  BY <1>1, FirstDocument DEF ResetConfiguration, StoreOK
<1>3. confs' \in Seq(Document) /\ IdsArePositive'
  <2>1. CASE NoConf
    BY <1>1, <2>1 DEF StoreOK, IdsArePositive
  <2>2. CASE ~NoConf
    <3>1. confs' = Tail(confs) /\ confs \in Seq(Document) /\ confs # <<>>
      BY <1>1, <2>2 DEF StoreOK, NoConf
    <3>2. /\ confs' \in Seq(Document) /\ Len(confs') = Len(confs) - 1
          /\ \A i \in 1..Len(confs') : confs'[i] = confs[i + 1]
      BY <3>1, HeadTailProperties
    <3>3. \A i \in 1..Len(confs') : i + 1 \in 1..Len(confs)
      BY <3>2, FirstDocument
    <3> QED
      BY <3>2, <3>3 DEF StoreOK, IdsArePositive
  <2> QED
    BY <2>1, <2>2
<1>4. StoreOK'
  BY <1>1, <1>2, <1>3 DEF StoreOK, OneConfiguration
<1> QED
  BY <1>1, <1>4, HandlersStay, CatalogueStays, AccessStays, BeginStep

LEMMA ReloadKeeps ==
    ASSUME CInv, NEW s \in Handlers, ReloadConfigurationFromFile(s) PROVE CInv'
<1> USE DEF CInv
<1>1. Begin(s) /\ Registers(s) /\ UNCHANGED <<reg, catalog, cred, token, serial, everReset>>
  BY DEF ReloadConfigurationFromFile
<1>2. StoreOK'
  <2>1. CASE NoConf
    BY <1>1, <2>1, StoreStays DEF ReloadConfigurationFromFile
  <2>2. CASE ~NoConf
    <3> DEFINE d == [confs[1] EXCEPT !.keys = FileKeys, !.session = NoKeys]
    <3>1. 1 \in 1..Len(confs) /\ confs[1] \in Document /\ FileKeys \in Keys
      BY <2>2, FirstDocument, KeysAssumption
    <3>2. d \in Document /\ d.id = confs[1].id /\ d.keyed = confs[1].keyed
      BY <3>1 DEF Document
    <3>3. confs' = [confs EXCEPT ![1] = d]
      BY <2>2 DEF ReloadConfigurationFromFile
    <3>4. serial' \in Nat
      BY <1>1 DEF StoreOK
    <3> HIDE DEF d
    <3> QED
      BY <1>1, <3>1, <3>2, <3>3, <3>4, Overwritten
  <2> QED
    BY <2>1, <2>2
<1> QED
  BY <1>1, <1>2, HandlerRegisters, CatalogueStays, AccessStays, BeginStep

LEMMA AddCorsKeeps ==
    ASSUME CInv, NEW s \in Handlers, NEW name \in Origins, AddCorsOrigin(s, name) PROVE CInv'
<1> USE DEF CInv
<1>1. Begin(s) /\ UNCHANGED confVars
  BY DEF AddCorsOrigin
<1>2. HandlersOK'
  <2>1. CASE NoConf
    BY <1>1, <2>1, HandlersStay DEF AddCorsOrigin, confVars
  <2>2. CASE ~NoConf
    <3> DEFINE r == [op |-> "addOrigin", pc |-> "sign", doc |-> confs[1], name |-> name]
    <3>1. confs[1] \in Document
      BY <2>2, FirstDocument
    <3>2. r \in Requests /\ Grounded(r)
      BY <3>1 DEF Requests, ConfigurationRequest, Grounded
    <3>3. Do(s, r)
      BY <2>2 DEF AddCorsOrigin
    <3> HIDE DEF r
    <3> QED
      BY <1>1, <3>2, <3>3, HandlerDoes DEF confVars
  <2> QED
    BY <2>1, <2>2
<1> QED
  BY <1>1, <1>2, StoreStays, CatalogueStays, AccessStays, BeginStep DEF confVars

LEMMA SignOriginKeeps == ASSUME CInv, NEW s \in Handlers, SignOrigin(s) PROVE CInv'
<1> USE DEF CInv
<1>1. Goes /\ UNCHANGED confVars /\ req[s].op = "addOrigin"
  BY DEF SignOrigin
<1>2. HandlersOK'
  <2> DEFINE doc == req[s].doc
             at == NamedAt(doc, req[s].name)
             push == [op |-> "push", doc |-> doc.id, name |-> req[s].name, by |-> EffectiveKeys]
             resign == [op |-> "resign", doc |-> doc.id, v |-> doc.v, at |-> at,
                        by |-> EffectiveKeys]
  <2>1. doc \in Document /\ req[s].name \in Origins /\ EffectiveKeys \in Keys
    BY <1>1, RequestShapes, KeysRead
  <2>2. at \in Nat
    BY <2>1, NamedAtIsNat
  <2>3. Do(s, push) \/ Do(s, resign)
    BY DEF SignOrigin
  <2>4. doc.id \in Nat /\ doc.v \in Nat
    BY <2>1 DEF Document
  <2> HIDE DEF at
  <2>5. push \in Requests /\ Grounded(push)
    BY <2>1, <2>4 DEF Requests, ConfigurationRequest, Grounded
  <2>6. resign \in Requests /\ Grounded(resign)
    BY <2>1, <2>2, <2>4 DEF Requests, ConfigurationRequest, Grounded
  <2> HIDE DEF push, resign
  <2> QED
    BY <1>1, <2>3, <2>5, <2>6, HandlerDoes DEF confVars
<1> QED
  BY <1>1, <1>2, StoreStays, CatalogueStays, AccessStays, GoStep DEF confVars

LEMMA RemoveCorsKeeps ==
    ASSUME CInv, NEW s \in Handlers, NEW target \in Nat, RemoveCorsOrigin(s, target) PROVE CInv'
<1> USE DEF CInv
<1>1. Begin(s) /\ UNCHANGED confVars
  BY DEF RemoveCorsOrigin
<1>2. HandlersOK'
  <2>1. CASE NoConf
    BY <1>1, <2>1, HandlersStay DEF RemoveCorsOrigin, confVars
  <2>2. CASE ~NoConf
    <3> DEFINE r == [op |-> "splice", doc |-> confs[1], target |-> target]
    <3>1. confs[1] \in Document
      BY <2>2, FirstDocument
    <3>2. r \in Requests /\ Grounded(r)
      BY <3>1 DEF Requests, ConfigurationRequest, Grounded
    <3>3. Do(s, r)
      BY <2>2 DEF RemoveCorsOrigin
    <3> HIDE DEF r
    <3> QED
      BY <1>1, <3>2, <3>3, HandlerDoes DEF confVars
  <2> QED
    BY <2>1, <2>2
<1> QED
  BY <1>1, <1>2, StoreStays, CatalogueStays, AccessStays, BeginStep DEF confVars

LEMMA OriginIdsTyped == ASSUME StoreOK PROVE OriginIds \subseteq Nat
<1>1. \A n \in DOMAIN confs : \A e \in ToSet(confs[n].origins) : e.id \in Nat
  <2> TAKE n \in DOMAIN confs
  <2> DEFINE os == confs[n].origins
  <2>1. os \in Seq(Entry)
    BY FirstDocument, ElementOfSeq, DocumentOrigins DEF StoreOK
  <2> HIDE DEF os
  <2>2. \A e \in ToSet(os) : e \in Entry
    BY <2>1, ElementOfSeq, LenProperties DEF ToSet
  <2> QED
    BY <2>2 DEF Entry, os
<1> QED
  BY <1>1 DEF OriginIds

-----------------------------------------------------------------------------
(* The saves *)

\* A save writes over the document it loaded, or finds none and ends the process.
LEMMA Saved ==
    ASSUME CInv, NEW s \in Handlers,
           started' = started, faults' = faults,
           UNCHANGED <<reg, catalog, cred, token, everReset>>,
           (Ends(s) /\ Lives) \/ ProcessEnds,
           StoreOK'
    PROVE  CInv'
BY HandlerEnds, HandlersVanish, SaveStep, CatalogueStays, AccessStays
   DEF CInv, ProcessEnds

\* A new array of origins and a new version of it make a document again.
LEMMA WithOriginsTyped ==
    ASSUME NEW c \in Document, NEW os \in Seq(Entry)
    PROVE  /\ WithOrigins(c, os) \in Document
           /\ WithOrigins(c, os).id = c.id /\ WithOrigins(c, os).keyed = c.keyed
<1>1. c = [id |-> c.id, keyed |-> c.keyed, keys |-> c.keys, session |-> c.session,
           origins |-> c.origins, v |-> c.v]
  BY DEF Document
<1>2. WithOrigins(c, os) =
        [id |-> c.id, keyed |-> c.keyed, keys |-> c.keys, session |-> c.session,
         origins |-> os, v |-> c.v + 1]
  <2> DEFINE d == WithOrigins(c, os)
  <2>1. d = [c EXCEPT !.v = c.v + 1, !.origins = os]
    BY DEF WithOrigins
  <2> HIDE DEF d
  <2>2. d = [id |-> c.id, keyed |-> c.keyed, keys |-> c.keys, session |-> c.session,
             origins |-> os, v |-> c.v + 1]
    BY <1>1, <2>1
  <2> QED
    BY <2>2 DEF d
<1>3. /\ c.id \in Nat /\ c.keyed \in BOOLEAN /\ c.keys \in Keys \cup {NoKeys}
      /\ c.session \in Keys \cup {NoKeys} /\ c.v + 1 \in Nat
  BY DEF Document
<1>4. WithOrigins(c, os) \in Document
  BY <1>2, <1>3 DEF Document, Entry
<1> QED
  BY <1>2, <1>4

LEMMA Rewritten ==
    ASSUME StoreOK, NEW p \in 1..Len(confs), NEW os \in Seq(Entry),
           confs' = [confs EXCEPT ![p] = WithOrigins(@, os)],
           serial' \in Nat, everReset' = everReset
    PROVE  StoreOK'
<1> DEFINE d == WithOrigins(confs[p], os)
<1>1. confs[p] \in Document
  BY ElementOfSeq DEF StoreOK
<1>2. d \in Document /\ d.id = confs[p].id /\ d.keyed = confs[p].keyed
  BY <1>1, WithOriginsTyped
<1>3. confs' = [confs EXCEPT ![p] = d]
  OBVIOUS
<1> HIDE DEF d
<1> QED
  BY <1>2, <1>3, Overwritten

LEMMA PushKeeps == ASSUME CInv, NEW s \in Handlers, SavePush(s) PROVE CInv'
<1> USE DEF CInv
<1> DEFINE p == Position(req[s].doc)
<1>1. /\ started' = started /\ faults' = faults
      /\ UNCHANGED <<reg, catalog, cred, token, everReset>>
      /\ (Ends(s) /\ Lives) \/ ProcessEnds
  BY DEF SavePush
<1>2. StoreOK'
  <2>1. CASE p = 0
    BY <1>1, <2>1, StoreStays DEF SavePush
  <2>2. CASE p # 0
    <3> DEFINE e == [id |-> serial + 1, name |-> req[s].name, by |-> req[s].by]
               os == Append(confs[p].origins, e)
    <3>1. p \in 1..Len(confs)
      BY <2>2, PositionInRange, FirstDocument DEF StoreOK
    <3>2. confs[p] \in Document
      BY <3>1, ElementOfSeq DEF StoreOK
    <3>3. e \in Entry /\ serial + 1 \in Nat
      BY RequestShapes DEF SavePush, Entry, StoreOK
    <3>4. os \in Seq(Entry)
      <4> HIDE DEF e
      <4> QED
        BY <3>2, <3>3, DocumentOrigins, AppendProperties
    <3>5. confs' = [confs EXCEPT ![p] = WithOrigins(@, os)] /\ serial' = serial + 1
      BY <2>2 DEF SavePush
    <3> HIDE DEF os, p
    <3> QED
      BY <1>1, <3>1, <3>3, <3>4, <3>5, Rewritten
  <2> QED
    BY <2>1, <2>2
<1> QED
  BY <1>1, <1>2, Saved

LEMMA SpliceKeeps == ASSUME CInv, NEW s \in Handlers, SaveSplice(s) PROVE CInv'
<1> USE DEF CInv
<1> DEFINE p == Position(req[s].doc.id)
           os == Spliced(req[s].doc, req[s].target)
<1>1. /\ started' = started /\ faults' = faults /\ serial' = serial
      /\ UNCHANGED <<reg, catalog, cred, token, everReset>>
      /\ (Ends(s) /\ Lives) \/ ProcessEnds
  BY DEF SaveSplice
<1>2. os \in Seq(Entry)
  <2>1. req[s].doc \in Document
    BY RequestShapes DEF SaveSplice
  <2> QED
    BY <2>1, SplicedTyped
<1>3. StoreOK'
  <2>1. CASE confs' = confs
    BY <1>1, <2>1, StoreStays
  <2>2. CASE confs' # confs
    <3>1. p # 0 /\ confs' = [confs EXCEPT ![p] = WithOrigins(@, os)]
      BY <2>2 DEF SaveSplice, Current
    <3>2. p \in 1..Len(confs) /\ serial' \in Nat
      BY <1>1, <3>1, PositionInRange, FirstDocument DEF StoreOK
    <3> HIDE DEF p, os
    <3> QED
      BY <1>1, <1>2, <3>1, <3>2, Rewritten
  <2> QED
    BY <2>1, <2>2
<1> QED
  BY <1>1, <1>3, Saved

LEMMA ResignKeeps == ASSUME CInv, NEW s \in Handlers, SaveResign(s) PROVE CInv'
<1> USE DEF CInv
<1> DEFINE p == Position(req[s].doc)
           at == req[s].at
           os == confs[p].origins
           new == [os EXCEPT ![at] = [@ EXCEPT !.by = req[s].by]]
           d == [confs[p] EXCEPT !.origins = new]
<1>1. /\ started' = started /\ faults' = faults /\ serial' = serial
      /\ UNCHANGED <<reg, catalog, cred, token, everReset>>
      /\ (Ends(s) /\ Lives) \/ ProcessEnds
  BY DEF SaveResign
<1>2. req[s].by \in Keys
  BY RequestShapes DEF SaveResign
<1>3. CASE confs' = confs
  BY <1>1, <1>3, StoreStays, Saved
<1>4. CASE confs' # confs
  <2>1. p # 0 /\ confs' = [confs EXCEPT ![p].origins[at].by = req[s].by]
    BY <1>4 DEF SaveResign, Current
  <2>2. p \in 1..Len(confs) /\ confs[p] \in Document
    BY <2>1, FoundInStore
  <2>3. os \in Seq(Entry) /\ Len(os) \in Nat /\ DOMAIN os = 1..Len(os)
    BY <2>2, DocumentOrigins, LenProperties
  <2>4. new \in Seq(Entry)
    <3> HIDE DEF os
    <3>1. CASE at \in 1..Len(os)
      <4>1. os[at] \in Entry
        BY <2>3, <3>1, ElementOfSeq
      <4>2. [os[at] EXCEPT !.by = req[s].by] \in Entry
        BY <1>2, <4>1 DEF Entry
      <4> QED
        BY <2>3, <3>1, <4>2, ExceptSeq
    <3>2. CASE at \notin 1..Len(os)
      <4>1. new = os
        BY <2>3, <3>2
      <4> QED
        BY <2>3, <4>1
    <3> QED
      BY <3>1, <3>2
  <2>5. confs' = [confs EXCEPT ![p] = d]
    BY <2>1
  <2>6. d \in Document /\ d.id = confs[p].id /\ d.keyed = confs[p].keyed
    <3> HIDE DEF new, p
    <3> QED
      BY <2>2, <2>4 DEF Document, Entry
  <2>7. StoreOK'
    <3> HIDE DEF d, p
    <3> QED
      BY <1>1, <2>2, <2>5, <2>6, Overwritten DEF StoreOK
  <2> QED
    BY <1>1, <2>7, Saved
<1> QED
  BY <1>3, <1>4

-----------------------------------------------------------------------------
(* Login, catalogue and credentials *)

LEMMA LoginKeeps ==
    ASSUME CInv, NEW s \in Handlers, NEW keys \in Keys, Login(s, keys) PROVE CInv'
<1> USE DEF CInv
<1>1. Begin(s) /\ UNCHANGED <<req, confs, reg, catalog, cred, serial, everReset>>
      /\ token' \in {keys, token}
  BY DEF Login
<1>2. AccessOK'
  BY <1>1 DEF AccessOK
<1> QED
  BY <1>1, <1>2, StoreStays, HandlersStay, CatalogueStays, BeginStep

LEMMA CatalogueKeeps ==
    ASSUME CInv, NEW s \in Handlers,
           \/ CreateCatalogResource(s)
           \/ \E n \in DOMAIN catalog, e \in BOOLEAN : UpdateCatalogById(s, n, e)
    PROVE  CInv'
<1> USE DEF CInv
<1>1. Begin(s) /\ UNCHANGED <<req, confs, reg, cred, token, serial, everReset>>
  BY DEF CreateCatalogResource, UpdateCatalogById
<1>2. catalog' \in Seq(BOOLEAN)
  <2>1. catalog \in Seq(BOOLEAN) /\ TRUE \in BOOLEAN
    BY DEF CatalogueOK
  <2>2. CASE CreateCatalogResource(s)
    <3>1. Append(catalog, TRUE) \in Seq(BOOLEAN)
      BY <2>1, AppendProperties, Zenon
    <3> QED
      BY <2>2, <3>1 DEF CreateCatalogResource
  <2>3. ASSUME NEW n \in DOMAIN catalog, NEW e \in BOOLEAN, UpdateCatalogById(s, n, e)
        PROVE  catalog' \in Seq(BOOLEAN)
    <3>1. DOMAIN catalog = 1..Len(catalog)
      BY <2>1, LenProperties
    <3>2. [catalog EXCEPT ![n] = e] \in Seq(BOOLEAN)
      BY <2>1, <3>1, ExceptSeq, Zenon
    <3> QED
      BY <2>3, <3>2 DEF UpdateCatalogById
  <2> QED
    BY <2>2, <2>3
<1>3. CatalogueOK'
  BY <1>1, <1>2 DEF CatalogueOK, RegisteredWithAppKey
<1> QED
  BY <1>1, <1>3, StoreStays, HandlersStay, AccessStays, BeginStep

LEMMA CredentialKeeps == ASSUME CInv, NEW s \in Handlers, UpdateCredential(s) PROVE CInv'
<1> USE DEF CInv
<1>1. Begin(s) /\ UNCHANGED <<req, confs, reg, catalog, token, serial, everReset>>
  BY DEF UpdateCredential
<1>2. AccessOK'
  BY DEF AccessOK, UpdateCredential
<1> QED
  BY <1>1, <1>2, StoreStays, HandlersStay, CatalogueStays, BeginStep

-----------------------------------------------------------------------------
(* Every step on the configuration *)

LEMMA ConfigurationKeeps == ASSUME CInv, ConfigurationNext PROVE CInv'
<1>2. CASE StartServer \/ Crash
  BY <1>2, StartKeeps, CrashKeeps
<1>3. ASSUME NEW s \in Handlers, ConfigurationStep(s) PROVE CInv'
  <2>1. CASE RegisterSelfDescription(s)
    BY <2>1, RegisterReadKeeps, RegisterCheckKeeps, RegisterPostKeeps, RegisterListKeeps
       DEF RegisterSelfDescription
  <2>2. ASSUME NEW k \in Keys \cup {NoKeys}, UpdateConfiguration(s, k) PROVE CInv'
    BY <2>2, UpdateKeeps
  <2>3. CASE UpdateConsentConfiguration(s) \/ ResetConfiguration(s)
               \/ ReloadConfigurationFromFile(s)
    BY <2>3, UpdateConsentKeeps, ResetKeeps, ReloadKeeps
  <2>4. ASSUME NEW o \in Origins, AddCorsOrigin(s, o) PROVE CInv'
    BY <2>4, AddCorsKeeps
  <2>5. ASSUME NEW i \in OriginIds, RemoveCorsOrigin(s, i) PROVE CInv'
    BY <2>5, OriginIdsTyped, RemoveCorsKeeps DEF CInv
  <2>6. CASE SignOrigin(s) \/ SavePush(s) \/ SaveResign(s) \/ SaveSplice(s)
    BY <2>6, SignOriginKeeps, PushKeeps, ResignKeeps, SpliceKeeps
  <2>7. ASSUME NEW k \in Keys, Login(s, k) PROVE CInv'
    BY <2>7, LoginKeeps
  <2>8. CASE CreateCatalogResource(s) \/ UpdateCredential(s)
    BY <2>8, CatalogueKeeps, CredentialKeeps
  <2>9. ASSUME NEW n \in DOMAIN catalog, NEW e \in BOOLEAN, UpdateCatalogById(s, n, e)
        PROVE  CInv'
    BY <2>9, CatalogueKeeps
  <2> QED
    BY <1>3, <2>1, <2>2, <2>3, <2>4, <2>5, <2>6, <2>7, <2>8, <2>9 DEF ConfigurationStep
<1> QED
  BY <1>2, <1>3 DEF ConfigurationNext

-----------------------------------------------------------------------------
(* The requests on the users: they leave the configuration alone, but for    *)
(* the session that a login at the manager stores.                           *)

UserMoves(s) ==
    /\ UNCHANGED confVars
    /\ Begin(s) \/ Goes \/ Fails
    /\ req' = req \/ Ends(s) \/ \E r : OnUsers(r) /\ Do(s, r)

LEMMA OnUsersGrounded == ASSUME NEW r, OnUsers(r) PROVE Grounded(r)
BY DEF OnUsers, UserOps, Grounded

LEMMA UserMoveKeeps == ASSUME CInv, NEW s \in Handlers, UserMoves(s) PROVE CInv'
<1> USE DEF CInv, UserMoves
<1>1. StoreOK' /\ CatalogueOK' /\ AccessOK' /\ ProcessOK'
  BY StoreStays, CatalogueStays, AccessStays, BeginStep, GoStep DEF confVars
<1>2. HandlersOK'
  <2>1. CASE req' = req \/ Ends(s)
    BY <2>1, HandlersStay, HandlerEnds DEF confVars
  <2>2. ASSUME NEW r, OnUsers(r), Do(s, r) PROVE HandlersOK'
    BY <2>2, OnUsersGrounded, HandlerDoes DEF confVars
  <2> QED
    BY <2>1, <2>2
<1> QED
  BY <1>1, <1>2

LEMMA AtWork ==
    ASSUME CInv, NEW s \in Handlers, req[s].op \in UserOps PROVE OnUsers(req[s])
BY DEF CInv, HandlersOK, RequestsTyped, Requests, Idle, ConfigurationRequest, UserOps

LEMMA RequestOnUsers ==
    ASSUME NEW op \in UserOps, NEW pc, NEW who, NEW idf, NEW rows
    PROVE  /\ OnUsers(Request(op, pc, who))
           /\ OnUsers([Request(op, pc, who) EXCEPT !.idf = idf])
           /\ OnUsers([Request(op, pc, who) EXCEPT !.rows = rows])
BY DEF Request, OnUsers

\* Requests that begin.
LEMMA UserBegun ==
    ASSUME CInv, NEW s \in Handlers,
           \/ \E u \in Users :
                 \/ CreateUser(s, u) \/ CreateUserFromConsent(s, u) \/ CreateUserToApp(s, u)
                 \/ ConsentServiceMe(s, u) \/ GetUserConsent(s, u)
                 \/ \E v \in Users \ {u} : ExcelImport(s, <<u, v>>)
           \/ \E n \in DOMAIN users :
                 DeleteUser(s, n) \/ \E w, e \in Users : UpdateUser(s, n, w, e)
    PROVE  UserMoves(s)
<1>1. Begin(s) /\ UNCHANGED confVars
  BY DEF BeginsWith, UserBegins, CreateUser, CreateUserFromConsent, CreateUserToApp, ConsentServiceMe,
         GetUserConsent, ExcelImport, DeleteUser, UpdateUser
<1>2. req' = req \/ \E r : OnUsers(r) /\ Do(s, r)
  BY RequestOnUsers DEF UserOps, CreateUser, CreateUserFromConsent, CreateUserToApp,
     ConsentServiceMe, GetUserConsent, ExcelImport, DeleteUser, UpdateUser
<1> QED
  BY <1>1, <1>2 DEF UserMoves

\* Requests that go on: each hands on what it was doing, changed, or ends.
LEMMA UserGoesOn ==
    ASSUME CInv, NEW s \in Handlers,
           \/ ManagerLogin(s)
           \/ CreateInsert(s) \/ CreateRegister(s) \/ CreateUndo(s)
           \/ UpdateIdentifier(s) \/ DeleteIdentifier(s)
           \/ ImportRegister(s) \/ ImportFind(s) \/ ImportUpsert(s)
           \/ AppRegister(s) \/ AppFind(s) \/ AppInsert(s)
           \/ ResumeFind(s) \/ VerifyConsentAuth(s)
           \/ ConsentServiceResume(s) \/ ResumeSave(s) \/ ConsentAsk(s)
    PROVE  UserMoves(s)
<1> DEFINE r == req[s]
<1>1. OnUsers(r)
  <2>1. req[s].op \in UserOps
    BY DEF ManagerLogin, CreateInsert, CreateRegister, CreateUndo, UpdateIdentifier,
           DeleteIdentifier, ImportRegister, ImportFind, ImportUpsert, AppRegister, AppFind,
           AppInsert, ResumeFind, VerifyConsentAuth, ConsentServiceResume, ResumeSave,
           ConsentAsk, At, UserOps
  <2> QED
    BY <2>1, AtWork
<1>2. UNCHANGED confVars /\ (Goes \/ Fails)
  BY DEF ManagerLogin, CreateInsert, CreateRegister, CreateUndo, UpdateIdentifier,
         DeleteIdentifier, ImportRegister, ImportFind, ImportUpsert, AppRegister, AppFind,
         AppInsert, ResumeFind, VerifyConsentAuth, ConsentServiceResume, ResumeSave,
         ConsentAsk, Continues, Calls
<1>3. /\ \A pc : OnUsers([r EXCEPT !.pc = pc])
      /\ \A pc, v : /\ OnUsers([r EXCEPT !.pc = pc, !.jwt = v])
                    /\ OnUsers([r EXCEPT !.pc = pc, !.doc = v])
                    /\ OnUsers([r EXCEPT !.pc = pc, !.ids = v])
                    /\ OnUsers([r EXCEPT !.pc = pc, !.idf = v])
                    /\ OnUsers([r EXCEPT !.pc = pc, !.who = v])
      /\ \A pc, v, w : OnUsers([r EXCEPT !.pc = pc, !.rows = v, !.who = w])
  <2> HIDE DEF r
  <2> QED
    BY <1>1 DEF OnUsers
<1> HIDE DEF r
<1>4. req' = req \/ Ends(s) \/ \E q : OnUsers(q) /\ Do(s, q)
  <2>1. CASE ManagerLogin(s)
    BY <1>3, <2>1 DEF ManagerLogin, To, r
  <2>2. CASE CreateInsert(s) \/ CreateRegister(s) \/ CreateUndo(s)
    BY <1>3, <2>2 DEF CreateInsert, CreateRegister, CreateUndo, Calls, To, r
  <2>3. CASE UpdateIdentifier(s) \/ DeleteIdentifier(s)
    BY <2>3 DEF UpdateIdentifier, DeleteIdentifier, Calls
  <2>4. CASE ImportRegister(s)
    BY <1>3, <2>4 DEF ImportRegister, Calls, r
  <2>5. CASE ImportFind(s) \/ ImportUpsert(s)
    BY <1>3, <2>5 DEF ImportFind, ImportUpsert, NextRow, To, r
  <2>6. CASE AppRegister(s) \/ AppFind(s) \/ AppInsert(s)
    BY <1>3, <2>6 DEF AppRegister, AppFind, AppInsert, To, r
  <2>7. CASE ResumeFind(s) \/ VerifyConsentAuth(s)
    BY <1>3, <2>7 DEF ResumeFind, VerifyConsentAuth, To, r
  <2>8. CASE ConsentServiceResume(s) \/ ResumeSave(s) \/ ConsentAsk(s)
    BY <1>3, <2>8 DEF ConsentServiceResume, ResumeSave, ConsentAsk, Calls, r
  <2> QED
    BY <2>1, <2>2, <2>3, <2>4, <2>5, <2>6, <2>7, <2>8
<1> QED
  BY <1>2, <1>4 DEF UserMoves

LEMMA ParticipantLoginKeeps ==
    ASSUME CInv, NEW s \in Handlers, ConsentServiceParticipantLogin(s) PROVE CInv'
<1> USE DEF CInv
<1>1. /\ UNCHANGED <<reg, catalog, cred, token, serial, everReset>>
      /\ Goes \/ Fails
      /\ req[s].op \in UserOps
  BY DEF ConsentServiceParticipantLogin, At, UserOps
<1>2. HandlersOK'
  <2> DEFINE r == req[s]
  <2>1. OnUsers(r)
    BY <1>1, AtWork
  <2> HIDE DEF r
  <2>2. \A v : /\ OnUsers([r EXCEPT !.pc = "ask", !.jwt = v])
              /\ OnUsers([r EXCEPT !.pc = "ask"])
    BY <2>1 DEF OnUsers
  <2>3. \E q : OnUsers(q) /\ Do(s, q)
    BY <2>2 DEF ConsentServiceParticipantLogin, To, r
  <2> QED
    BY <1>1, <2>3, OnUsersGrounded, HandlerDoes
<1>3. StoreOK'
  <2>1. CASE confs' = confs
    BY <1>1, <2>1, StoreStays
  <2>2. CASE confs' # confs
    <3> DEFINE d == [confs[1] EXCEPT !.session = EffectiveKeys]
    <3>1. ~NoConf /\ confs' = [confs EXCEPT ![1] = d]
      BY <2>2 DEF ConsentServiceParticipantLogin
    <3>2. 1 \in 1..Len(confs) /\ confs[1] \in Document /\ EffectiveKeys \in Keys
      BY <3>1, FirstDocument, KeysRead
    <3>3. d \in Document /\ d.id = confs[1].id /\ d.keyed = confs[1].keyed
      BY <3>2 DEF Document
    <3>4. serial' \in Nat
      BY <1>1 DEF StoreOK
    <3> HIDE DEF d
    <3> QED
      BY <1>1, <3>1, <3>2, <3>3, <3>4, Overwritten
  <2> QED
    BY <2>1, <2>2
<1> QED
  BY <1>1, <1>2, <1>3, CatalogueStays, AccessStays, GoStep

LEMMA SaveIdentifierKeeps == ASSUME CInv, NEW v, SaveIdentifier(v) PROVE CInv'
<1> USE DEF CInv
<1>1. /\ UNCHANGED confVars
      /\ started' = started /\ faults' = faults
      /\ (Lives /\ req' = req) \/ ProcessEnds
  BY DEF SaveIdentifier
<1> QED
  BY <1>1, StoreStays, HandlersStay, HandlersVanish, CatalogueStays, AccessStays, SaveStep
     DEF confVars, ProcessEnds

-----------------------------------------------------------------------------
(* The theorems *)

LEMMA NextKeeps == ASSUME CInv, [Next]_vars PROVE CInv'
<1>1. CASE UNCHANGED vars
  BY <1>1, StoreStays, HandlersStay, CatalogueStays, AccessStays
     DEF CInv, vars, confVars, ProcessOK
<1>2. CASE ConfigurationNext
  BY <1>2, ConfigurationKeeps
<1>3. ASSUME NEW s \in Slots, UserStep(s) PROVE CInv'
  <2>1. s \in Handlers
    BY DEF Handlers
  <2>2. UserMoves(s) \/ ConsentServiceParticipantLogin(s)
    BY <1>3, <2>1, UserBegun, UserGoesOn DEF UserStep
  <2> QED
    BY <2>1, <2>2, UserMoveKeeps, ParticipantLoginKeeps
<1>4. ASSUME NEW v \in saves, SaveIdentifier(v) PROVE CInv'
  BY <1>4, SaveIdentifierKeeps
<1> QED
  BY <1>1, <1>2, <1>3, <1>4 DEF Next

\* The invariant is inductive: every state of every behaviour satisfies it,
\* whatever requests, saves, failed calls and crashes it is made of.
THEOREM InvariantHolds == Spec => []CInv
<1>1. Init => CInv
  BY InitHolds DEF Init
<1>2. CInv /\ [Next]_vars => CInv'
  BY NextKeeps
<1> QED
  BY <1>1, <1>2, PTL DEF Spec

\* The configurations, the catalogue's registration and the process keep their
\* types: what any handler writes to the collection is a configuration again.
THEOREM ConfigurationTypeCorrect == Spec => []ConfigurationTypeOK
<1>1. CInv => ConfigurationTypeOK
  BY DEF CInv, StoreOK, CatalogueOK, ProcessOK, AccessOK, ConfigurationTypeOK
<1> QED
  BY <1>1, InvariantHolds, PTL

\* As long as no reset deletes a configuration there is exactly one, and it holds
\* an appKey: updates, consent updates, reloads, saves that land late, sessions of
\* the consent manager, crashes and restarts, in any number and any order, never
\* make a second one (configuration.ts, configuration.private.service.ts).
THEOREM ConfigurationIsOne == Spec => []OneConfiguration
<1>1. CInv => OneConfiguration
  BY DEF CInv, StoreOK
<1> QED
  BY <1>1, InvariantHolds, PTL

\* What registerSelfDescription tells the catalogue holds an appKey unless it read
\* the configuration after a reset, however many registrations overlap.
THEOREM RegistrationHasAppKey == Spec => []RegisteredWithAppKey
<1>1. CInv => RegisteredWithAppKey
  BY DEF CInv, CatalogueOK
<1> QED
  BY <1>1, InvariantHolds, PTL

LEMMA OnlyLoginGivesTokens ==
    ASSUME Next, token' # token
    PROVE  \E s \in Handlers, k \in Keys : Login(s, k)
<1>1. ConfigurationNext
  <2>1. ASSUME NEW s, UserStep(s) PROVE token' = token
    BY <2>1 DEF UserStep, CreateUser, CreateUserFromConsent, CreateUserToApp,
       ConsentServiceMe, GetUserConsent, ExcelImport, DeleteUser, UpdateUser, BeginsWith, UserBegins,
       ManagerLogin, CreateInsert, CreateRegister, CreateUndo, UpdateIdentifier,
       DeleteIdentifier, ImportRegister, ImportFind, ImportUpsert, AppRegister, AppFind,
       AppInsert, ResumeFind, VerifyConsentAuth, ConsentServiceParticipantLogin,
       ConsentServiceResume, ResumeSave, ConsentAsk, Continues, confVars
  <2>2. ASSUME NEW v, SaveIdentifier(v) PROVE token' = token
    BY <2>2 DEF SaveIdentifier, confVars
  <2> QED
    BY <2>1, <2>2 DEF Next
<1> QED
  BY <1>1 DEF ConfigurationNext, StartServer, Crash, confVars, ConfigurationStep,
     RegisterSelfDescription, RegisterRead, RegisterCheck, RegisterPost, RegisterList,
     UpdateConfiguration, UpdateConsentConfiguration, ResetConfiguration,
     ReloadConfigurationFromFile, AddCorsOrigin, SignOrigin, RemoveCorsOrigin,
     SavePush, SaveResign, SaveSplice, CreateCatalogResource, UpdateCatalogById,
     UpdateCredential

\* A login that finds its keys in the collection gives a token that the middlewares
\* verify with the first document, as long as no reset was made.
THEOREM TokensVerify == Spec => LoginTokenVerifies
<1> DEFINE LoggedIn == token' # token => VerifyToken(token') \/ everReset
<1>1. CInv /\ [Next]_vars => [LoggedIn]_<<token, confs, everReset>>
  <2> SUFFICES ASSUME CInv, Next, token' # token, ~everReset
               PROVE  VerifyToken(token')
    BY DEF vars, confVars
  <2>1. PICK s \in Handlers, k \in Keys : Login(s, k)
    BY OnlyLoginGivesTokens
  <2>2. PICK n \in DOMAIN confs : confs[n].keys = k
    BY <2>1 DEF Login
  <2>3. token' = k /\ k # NoKeys
    BY <2>1, <2>2, KeysAssumption DEF Login
  <2>4. StoreOK
    BY DEF CInv
  <2>5. DOMAIN confs = 1..1 /\ ~NoConf
    BY <2>4, FirstDocument
  <2>6. n = 1
    BY <2>5
  <2> QED
    BY <2>2, <2>3, <2>5, <2>6 DEF VerifyToken, EffectiveKeys
<1> QED
  BY <1>1, InvariantHolds, PTL DEF Spec, LoginTokenVerifies
-----------------------------------------------------------------------------
(* A connector that the catalogue knows has entries *)

\* The resources that the catalogue answered are on their way into the catalogue
\* of the connector.
ListsIt(r) == r.op = "register" /\ r.pc = "list"
Listing ==
    /\ ~up => ended
    /\ faults = 0 /\ ~ended /\ reg.by # NoKeys =>
           catalog # <<>> \/ \E s \in Handlers : ListsIt(req[s])

NoFaultTaken ==
    (faults' = 0 => faults = 0) /\ (~ended' => ~ended) /\ (~up' => ~up \/ ended')
ListersStay == ~ended' => \A s \in Handlers : ListsIt(req[s]) => ListsIt(req'[s])
LeavesListing ==
    /\ NoFaultTaken /\ ListersStay
    /\ reg' = reg
    /\ catalog # <<>> => catalog' # <<>>

LEMMA NotHeld ==
    ASSUME ProcessOK, NEW s, Begin(s) \/ Goes \/ Fails \/ Faulty PROVE faults' = 0 => faults = 0
BY BoundsAssumption DEF ProcessOK, Begin, Free, Goes, Fails, Faulty

LEMMA NoneTaken ==
    ASSUME ProcessOK, NEW s, Begin(s) \/ Goes \/ Fails PROVE NoFaultTaken
BY NotHeld DEF NoFaultTaken, Begin, Free, Goes, Fails, Lives

\* A handler that does not list goes on to something else.
LEMMA OthersList ==
    ASSUME HandlersOK, NEW s \in Handlers, ~ListsIt(req[s]), NEW r, Do(s, r) \/ req' = req
    PROVE  ListersStay
<1>1. \A t \in Handlers \ {s} : req'[t] = req[t]
  BY DEF HandlersOK, RequestsTyped, Do
<1> QED
  BY <1>1 DEF ListersStay

LEMMA NotListing ==
    ASSUME NEW s, Begin(s) \/ req[s].op # "register" \/ req[s].pc # "list"
    PROVE  ~ListsIt(req[s])
BY DEF Begin, Free, Idle, ListsIt

LEMMA UserMovesLeave ==
    ASSUME CInv, NEW s \in Handlers, req[s] = Idle \/ req[s].op \in UserOps, UserMoves(s)
    PROVE  LeavesListing
<1>1. ~ListsIt(req[s])
  BY DEF Idle, UserOps, ListsIt
<1>2. ListersStay /\ NoFaultTaken
  BY <1>1, OthersList, NoneTaken DEF CInv, UserMoves, Ends
<1> QED
  BY <1>2 DEF UserMoves, confVars, LeavesListing

LEMMA RegistersLeave ==
    ASSUME CInv, NEW s \in Handlers, RegisterRead(s) \/ RegisterCheck(s) PROVE LeavesListing
<1>1. UNCHANGED confVars /\ (Goes \/ Fails) /\ ~ListsIt(req[s])
  BY DEF RegisterRead, RegisterCheck, ListsIt
<1>2. \E r : Do(s, r)
  BY DEF RegisterRead, RegisterCheck, Ends
<1> QED
  BY <1>1, <1>2, OthersList, NoneTaken DEF CInv, confVars, LeavesListing

LEMMA RequestsLeave ==
    ASSUME CInv, NEW s \in Handlers,
           \/ \E k \in Keys \cup {NoKeys} : UpdateConfiguration(s, k)
           \/ UpdateConsentConfiguration(s) \/ ResetConfiguration(s)
           \/ ReloadConfigurationFromFile(s)
           \/ \E o \in Origins : AddCorsOrigin(s, o)
           \/ \E i \in OriginIds : RemoveCorsOrigin(s, i)
           \/ \E k \in Keys : Login(s, k)
           \/ UpdateCredential(s)
    PROVE  LeavesListing
<1>1. Begin(s) /\ reg' = reg /\ catalog' = catalog
  BY DEF UpdateConfiguration, UpdateConsentConfiguration, ResetConfiguration,
     ReloadConfigurationFromFile, AddCorsOrigin, RemoveCorsOrigin, Login,
     UpdateCredential, confVars
<1>2. \E r : Do(s, r) \/ req' = req
  BY DEF UpdateConfiguration, UpdateConsentConfiguration, ResetConfiguration,
     ReloadConfigurationFromFile, AddCorsOrigin, RemoveCorsOrigin, Login,
     UpdateCredential, Registers
<1> QED
  BY <1>1, <1>2, NotListing, OthersList, NoneTaken DEF CInv, LeavesListing

LEMMA NotEmptied ==
    ASSUME NEW S, NEW q \in Seq(S), NEW e \in S
    PROVE  Append(q, e) # <<>> /\ \A n \in DOMAIN q : [q EXCEPT ![n] = e] # <<>>
<1>1. Append(q, e) # <<>>
  BY AppendProperties
<1>2. \A n \in DOMAIN q : [q EXCEPT ![n] = e] # <<>>
  <2> TAKE n \in DOMAIN q
  <2>1. Len(q) \in Nat /\ n \in 1..Len(q)
    BY LenProperties
  <2>2. Len([q EXCEPT ![n] = e]) = Len(q)
    BY <2>1, ExceptSeq
  <2> QED
    BY <2>1, <2>2
<1> QED
  BY <1>1, <1>2

LEMMA EntriesLeave ==
    ASSUME CInv, NEW s \in Handlers,
           \/ CreateCatalogResource(s)
           \/ \E n \in DOMAIN catalog, e \in BOOLEAN : UpdateCatalogById(s, n, e)
    PROVE  LeavesListing
<1>1. Begin(s) /\ reg' = reg /\ req' = req
  BY DEF CreateCatalogResource, UpdateCatalogById
<1>2. catalog' # <<>>
  <2>1. catalog \in Seq(BOOLEAN) /\ TRUE \in BOOLEAN
    BY DEF CInv, CatalogueOK
  <2>2. CASE CreateCatalogResource(s)
    BY <2>1, <2>2, NotEmptied DEF CreateCatalogResource
  <2>3. ASSUME NEW n \in DOMAIN catalog, NEW e \in BOOLEAN, UpdateCatalogById(s, n, e)
        PROVE  catalog' # <<>>
    BY <2>1, <2>3, NotEmptied DEF UpdateCatalogById
  <2> QED
    BY <2>2, <2>3
<1> QED
  BY <1>1, <1>2, NotListing, OthersList, NoneTaken DEF CInv, LeavesListing

LEMMA SavesLeave ==
    ASSUME CInv, NEW s \in Handlers,
           SignOrigin(s) \/ SavePush(s) \/ SaveResign(s) \/ SaveSplice(s)
    PROVE  LeavesListing
<1>1. /\ reg' = reg /\ catalog' = catalog /\ faults' = faults
      /\ ~ListsIt(req[s])
  BY DEF SignOrigin, SavePush, SaveResign, SaveSplice, Goes, confVars, ListsIt
<1>2. (Lives /\ \E r : Do(s, r)) \/ ProcessEnds
  BY DEF SignOrigin, SavePush, SaveResign, SaveSplice, Goes, Ends
<1>3. NoFaultTaken
  BY <1>1, <1>2 DEF NoFaultTaken, Lives, ProcessEnds
<1>4. ListersStay
  BY <1>1, <1>2, OthersList DEF CInv, ProcessEnds, ListersStay
<1> QED
  BY <1>1, <1>3, <1>4 DEF LeavesListing

LEMMA ListingLeft == ASSUME Listing, LeavesListing PROVE Listing'
BY DEF Listing, LeavesListing, NoFaultTaken, ListersStay

LEMMA PostLists ==
    ASSUME CInv, Listing, NEW s \in Handlers, RegisterPost(s) \/ RegisterList(s) PROVE Listing'
<1>0. up'
  BY DEF RegisterPost, RegisterList, Goes, Fails, Faulty, Lives
<1>1. CASE RegisterPost(s) /\ Goes
  <2>1. Do(s, [req[s] EXCEPT !.pc = "list"]) \/ faults' # 0
    BY <1>1, BoundsAssumption DEF RegisterPost, Goes, Fails, Faulty, CInv, ProcessOK
  <2>2. CASE Do(s, [req[s] EXCEPT !.pc = "list"])
    <3>1. /\ req[s].op = "register" /\ req[s].pc = "post"
          /\ req'[s] = [req[s] EXCEPT !.pc = "list"]
      BY <1>1, <2>2 DEF RegisterPost, Do, CInv, HandlersOK, RequestsTyped
    <3>2. req[s] \in [op : {"register"}, pc : {"check", "post", "list"}, self : Registration]
      BY <3>1, RequestShapes DEF CInv
    <3>3. ListsIt(req'[s])
      BY <3>1, <3>2 DEF ListsIt
    <3> QED
      BY <1>0, <3>3 DEF Listing, ListsIt
  <2> QED
    BY <1>0, <2>1, <2>2 DEF Listing
<1>2. CASE RegisterPost(s) /\ ~Goes
  <2>1. faults' # 0
    BY <1>2, BoundsAssumption DEF RegisterPost, Fails, Faulty, CInv, ProcessOK
  <2> QED
    BY <1>0, <2>1 DEF Listing
<1>3. CASE RegisterList(s)
  <2>1. catalog' # <<>>
    <3>1. CASE catalog = <<>>
      BY <1>3, <3>1 DEF RegisterList, Listed
    <3>2. CASE catalog # <<>>
      <4>1. catalog' = [catalog EXCEPT ![1] = TRUE]
        BY <1>3, <3>2 DEF RegisterList, Listed
      <4>2. 1 \in DOMAIN catalog
        BY <3>2, EmptySeq, LenProperties DEF CInv, CatalogueOK
      <4>3. 1 \in DOMAIN catalog'
        BY <4>1, <4>2
      <4> QED
        BY <4>3
    <3> QED
      BY <3>1, <3>2
  <2> QED
    BY <1>0, <2>1 DEF Listing
<1> QED
  BY <1>1, <1>2, <1>3

LEMMA ListingStep == ASSUME CInv, Listing, [Next]_vars PROVE Listing'
<1>1. CASE UNCHANGED vars
  BY <1>1 DEF vars, confVars, Listing
<1>2. CASE StartServer
  <2>1. CASE ListsIt(req[Boot])
    BY <1>2, <2>1 DEF StartServer, Listing
  <2>2. CASE ~ListsIt(req[Boot])
    <3>1. Boot \in Handlers /\ Do(Boot, [op |-> "register", pc |-> "read"])
      BY <1>2 DEF StartServer, Handlers
    <3>2. ListersStay
      BY <2>2, <3>1, OthersList DEF CInv
    <3> QED
      BY <1>2, <3>2, ListingLeft DEF StartServer, LeavesListing, NoFaultTaken
  <2> QED
    BY <2>1, <2>2
<1>3. CASE Crash
  BY <1>3 DEF Crash, ProcessEnds, Listing
<1>4. ASSUME NEW s \in Handlers, ConfigurationStep(s) PROVE Listing'
  <2>1. CASE RegisterPost(s) \/ RegisterList(s)
    BY <2>1, PostLists
  <2>2. CASE ~(RegisterPost(s) \/ RegisterList(s))
    BY <1>4, <2>2, RegistersLeave, RequestsLeave, EntriesLeave, SavesLeave, ListingLeft
       DEF ConfigurationStep, RegisterSelfDescription
  <2> QED
    BY <2>1, <2>2
<1>5. ASSUME NEW s \in Slots, UserStep(s) PROVE Listing'
  <2>1. s \in Handlers
    BY DEF Handlers
  <2>2. CASE ConsentServiceParticipantLogin(s)
    <3>1. /\ reg' = reg /\ catalog' = catalog /\ (Goes \/ Fails)
          /\ ~ListsIt(req[s]) /\ \E r : Do(s, r)
      BY <2>2 DEF ConsentServiceParticipantLogin, At, ListsIt, To
    <3>2. LeavesListing
      BY <2>1, <3>1, OthersList, NoneTaken DEF CInv, LeavesListing
    <3> QED
      BY <3>2, ListingLeft
  <2>3. CASE ~ConsentServiceParticipantLogin(s)
    <3>1. UserMoves(s)
      BY <1>5, <2>1, <2>3, UserBegun, UserGoesOn DEF UserStep
    <3>2. req[s] = Idle \/ req[s].op \in UserOps
      BY <1>5 DEF UserStep, CreateUser, CreateUserFromConsent, CreateUserToApp,
         ConsentServiceMe, GetUserConsent, ExcelImport, DeleteUser, UpdateUser,
         UserBegins, BeginsWith, Begin, Free, ManagerLogin, CreateInsert, CreateRegister, CreateUndo,
         UpdateIdentifier, DeleteIdentifier, ImportRegister, ImportFind, ImportUpsert,
         AppRegister, AppFind, AppInsert, ResumeFind, VerifyConsentAuth,
         ConsentServiceParticipantLogin, ConsentServiceResume, ResumeSave, ConsentAsk,
         At, UserOps
    <3> QED
      BY <2>1, <3>1, <3>2, UserMovesLeave, ListingLeft
  <2> QED
    BY <2>2, <2>3
<1>6. ASSUME NEW v \in saves, SaveIdentifier(v) PROVE Listing'
  BY <1>6 DEF SaveIdentifier, confVars, Lives, ProcessEnds, Listing
<1> QED
  BY <1>1, <1>2, <1>3, <1>4, <1>5, <1>6 DEF Next, ConfigurationNext

\* A connector that the catalogue knows has entries once it is at rest, unless a
\* call failed or the process ended: no request takes the entries away again, and
\* no other registration overtakes the one that has their list (configuration.ts).
THEOREM RegisteredHasEntries == Spec => []RegisteredIsListed
<1>1. Init => Listing
  BY DEF Init, ConfigurationInit, NotRegistered, Listing
<1>2. CInv /\ Listing /\ [Next]_vars => Listing'
  BY ListingStep
<1>3. Listing => RegisteredIsListed
  BY DEF Listing, ListsIt, Idle, RegisteredIsListed
<1> QED
  BY <1>1, <1>2, <1>3, InvariantHolds, PTL DEF Spec
=============================================================================
