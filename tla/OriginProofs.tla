---------------------------- MODULE OriginProofs ----------------------------
(***************************************************************************)
(* Proof that an origin leaves a configuration only by a removal that      *)
(* named it, for every number of handlers, keys, origins, users, requests  *)
(* and faults: RemovalTakesTheNamed of ConnectorConfiguration, in the      *)
(* behaviours of UserRegistry.                                             *)
(*                                                                         *)
(* A removal writes a whole array that it loaded earlier.  What makes this *)
(* safe is the version: while it is the one that was loaded, the array     *)
(* holds the same entries at the same places, re-signed at most.           *)
(***************************************************************************)
EXTENDS ConfigurationProofs

\* The entries of two documents have the same identities, place by place.
SameIds(c, d) ==
    /\ Len(c.origins) = Len(d.origins)
    /\ \A i \in 1..Len(c.origins) : c.origins[i].id = d.origins[i].id

\* d is what a step made of c.
Follows(c, d) == d.id = c.id /\ c.v =< d.v /\ (c.v = d.v => SameIds(c, d))
Keeps(c, d) == Follows(c, d) /\ Ids(c) \subseteq Ids(d)

\* What is still known of a document that was loaded.
InDate(doc) ==
    /\ doc.id =< serial
    /\ \A n \in 1..Len(confs) :
          confs[n].id = doc.id =>
              doc.v =< confs[n].v /\ (doc.v = confs[n].v => SameIds(doc, confs[n]))
OInv ==
    /\ \A n \in 1..Len(confs) : confs[n].id =< serial
    /\ \A m, n \in 1..Len(confs) : confs[m].id = confs[n].id => m = n
    /\ \A s \in Handlers : req[s].op = "splice" => InDate(req[s].doc)

\* What a step does to the collection: each document follows the one at its
\* place, or at the next place when the first is gone, or is new and the last.
NewLast(n) == n = Len(confs) + 1 /\ confs'[n].id > serial /\ confs'[n].id =< serial'
Evolves ==
    /\ serial' \in Nat /\ serial =< serial'
    /\ \E k \in {0, 1} : \A n \in 1..Len(confs') :
          NewLast(n) \/ (n + k \in 1..Len(confs) /\ Follows(confs[n + k], confs'[n]))
Grows ==
    /\ serial' \in Nat /\ serial =< serial'
    /\ \E k \in {0, 1} : \A n \in 1..Len(confs') :
          NewLast(n) \/ (n + k \in 1..Len(confs) /\ Keeps(confs[n + k], confs'[n]))
\* What a removal holds: what it held, or the first document.
HoldsFirst ==
    \A s \in Handlers :
        req'[s].op = "splice" => req'[s] = req[s] \/ (~NoConf /\ req'[s].doc = confs[1])

-----------------------------------------------------------------------------
(* Documents *)

LEMMA DocumentFields ==
    ASSUME NEW c \in Document
    PROVE  /\ c.id \in Nat /\ c.v \in Nat /\ Len(c.origins) \in Nat
           /\ \A i \in 1..Len(c.origins) : c.origins[i].id \in Nat
           /\ Ids(c) = {c.origins[i].id : i \in 1..Len(c.origins)}
<1> DEFINE os == c.origins
<1>1. os \in Seq(Entry) /\ c.id \in Nat /\ c.v \in Nat
  BY DocumentOrigins DEF Document
<1> HIDE DEF os
<1>2. Len(os) \in Nat /\ DOMAIN os = 1..Len(os) /\ \A i \in 1..Len(os) : os[i].id \in Nat
  <2>1. Len(os) \in Nat /\ DOMAIN os = 1..Len(os) /\ \A i \in 1..Len(os) : os[i] \in Entry
    BY <1>1, LenProperties, ElementOfSeq
  <2> QED
    BY <2>1 DEF Entry
<1>3. {e.id : e \in ToSet(os)} = {os[i].id : i \in 1..Len(os)}
  BY <1>2 DEF ToSet
<1> QED
  BY <1>1, <1>2, <1>3 DEF Ids, os

LEMMA SameIdsKeep ==
    ASSUME NEW c \in Document, NEW d \in Document, d.id = c.id, c.v =< d.v, SameIds(c, d)
    PROVE  Keeps(c, d)
BY DocumentFields DEF Keeps, Follows, SameIds

LEMMA SameOriginsKeep ==
    ASSUME NEW c \in Document, NEW d \in Document,
           d.id = c.id, d.v = c.v, d.origins = c.origins
    PROVE  Keeps(c, d)
<1>1. c.v =< d.v
  BY DocumentFields
<1> QED
  BY <1>1, SameIdsKeep DEF SameIds

LEMMA AllDocuments ==
    ASSUME StoreOK
    PROVE  /\ Len(confs) \in Nat /\ serial \in Nat
           /\ \A n \in 1..Len(confs) : confs[n] \in Document
BY LenProperties, ElementOfSeq DEF StoreOK

LEMMA GrowsEvolves == ASSUME Grows PROVE Evolves
BY DEF Grows, Evolves, Keeps

-----------------------------------------------------------------------------
(* A step that evolves the collection preserves the invariant. *)

LEMMA EvolvingKeeps ==
    ASSUME StoreOK, StoreOK', HandlersOK, OInv, Evolves, HoldsFirst PROVE OInv'
<1>1. PICK k \in {0, 1} : \A n \in 1..Len(confs') :
          NewLast(n) \/ (n + k \in 1..Len(confs) /\ Follows(confs[n + k], confs'[n]))
  BY DEF Evolves
<1>2. /\ Len(confs) \in Nat /\ serial \in Nat /\ serial' \in Nat /\ serial =< serial'
      /\ \A n \in 1..Len(confs) : confs[n].id \in Nat /\ confs[n].id =< serial
      /\ \A n \in 1..Len(confs') : confs'[n].id \in Nat
  BY AllDocuments, DocumentFields, ElementOfSeq DEF StoreOK, OInv, Evolves
<1>3. \A n \in 1..Len(confs') : confs'[n].id =< serial'
  <2> TAKE n \in 1..Len(confs')
  <2>1. CASE NewLast(n)
    BY <2>1 DEF NewLast
  <2>2. CASE n + k \in 1..Len(confs) /\ Follows(confs[n + k], confs'[n])
    BY <1>2, <2>2 DEF Follows
  <2> QED
    BY <1>1, <2>1, <2>2
<1>4. \A n \in 1..Len(confs') : NewLast(n) \/ confs'[n].id =< serial
  <2> TAKE n \in 1..Len(confs')
  <2>1. CASE n + k \in 1..Len(confs) /\ Follows(confs[n + k], confs'[n])
    BY <1>2, <2>1 DEF Follows
  <2> QED
    BY <1>1, <2>1
<1>5. ASSUME NEW m \in 1..Len(confs'), NEW n \in 1..Len(confs'), confs'[m].id = confs'[n].id
      PROVE  m = n
  <2>1. CASE NewLast(m) \/ NewLast(n)
    BY <1>2, <1>4, <1>5, <2>1 DEF NewLast
  <2>2. CASE ~NewLast(m) /\ ~NewLast(n)
    <3>1. m + k \in 1..Len(confs) /\ n + k \in 1..Len(confs)
          /\ confs[m + k].id = confs[n + k].id
      BY <1>1, <1>5, <2>2 DEF Follows
    <3>2. m + k = n + k
      BY <3>1 DEF OInv
    <3> QED
      BY <3>2
  <2> QED
    BY <2>1, <2>2
<1>6. ASSUME NEW doc \in Document, InDate(doc) PROVE InDate(doc)'
  <2>1. doc.id =< serial'
    BY <1>2, <1>6, DocumentFields DEF InDate
  <2>2. ASSUME NEW n \in 1..Len(confs'), confs'[n].id = doc.id
        PROVE  doc.v =< confs'[n].v /\ (doc.v = confs'[n].v => SameIds(doc, confs'[n]))
    <3>1. ~NewLast(n)
      BY <1>2, <1>6, <2>2, DocumentFields DEF InDate, NewLast
    <3> DEFINE c == confs[n + k]
    <3>2. n + k \in 1..Len(confs) /\ Follows(c, confs'[n]) /\ c.id = doc.id
      BY <1>1, <2>2, <3>1 DEF Follows
    <3>3. c \in Document /\ confs'[n] \in Document
      BY <3>2, ElementOfSeq DEF StoreOK
    <3>4. doc.v =< c.v /\ (doc.v = c.v => SameIds(doc, c))
      BY <1>6, <3>2 DEF InDate
    <3> HIDE DEF c
    <3> QED
      BY <3>2, <3>3, <3>4, DocumentFields DEF Follows, SameIds
  <2> QED
    BY <2>1, <2>2 DEF InDate
<1>7. ~NoConf => confs[1] \in Document /\ InDate(confs[1])
  <2> SUFFICES ASSUME ~NoConf PROVE confs[1] \in Document /\ InDate(confs[1])
    OBVIOUS
  <2>1. confs[1] \in Document /\ 1 \in 1..Len(confs)
    BY FirstDocument
  <2>2. \A n \in 1..Len(confs) : confs[n].id = confs[1].id => n = 1
    BY <2>1 DEF OInv
  <2>3. SameIds(confs[1], confs[1]) /\ confs[1].v =< confs[1].v
    BY <2>1, DocumentFields DEF SameIds
  <2> QED
    BY <1>2, <2>1, <2>2, <2>3 DEF InDate
<1>8. ASSUME NEW s \in Handlers, req'[s].op = "splice" PROVE InDate(req[s].doc)'
  <2>1. PICK doc \in Document : doc = req'[s].doc /\ InDate(doc)
    <3>1. CASE req'[s] = req[s]
      BY <1>8, <3>1, RequestShapes DEF OInv
    <3>2. CASE ~NoConf /\ req'[s].doc = confs[1]
      BY <1>7, <3>2
    <3> QED
      BY <1>8, <3>1, <3>2 DEF HoldsFirst
  <2>2. InDate(doc)'
    BY <1>6, <2>1
  <2> QED
    BY <2>1, <2>2 DEF InDate
<1> QED
  BY <1>3, <1>5, <1>8 DEF OInv

-----------------------------------------------------------------------------
(* The ways in which a step lets the collection grow *)

LEMMA Unchanged ==
    ASSUME StoreOK, confs' = confs, serial' \in Nat, serial =< serial' PROVE Grows
<1>1. \A n \in 1..Len(confs) : n + 0 = n /\ Keeps(confs[n], confs[n])
  BY AllDocuments, DocumentFields, SameOriginsKeep
<1>2. \A n \in 1..Len(confs') :
          n + 0 \in 1..Len(confs) /\ Keeps(confs[n + 0], confs'[n])
  BY <1>1
<1> QED
  BY <1>2 DEF Grows

LEMMA WithNewLast ==
    ASSUME StoreOK, NEW d \in Document, d.id = serial + 1,
           confs' = Append(confs, d), serial' = serial + 1
    PROVE  Grows
<1>1. /\ Len(confs') = Len(confs) + 1
      /\ \A j \in 1..Len(confs) : confs'[j] = confs[j]
      /\ confs'[Len(confs) + 1] = d
  BY AppendProperties DEF StoreOK
<1>2. \A n \in 1..Len(confs) : Keeps(confs[n], confs[n])
  BY AllDocuments, DocumentFields, SameOriginsKeep
<1>3. \A n \in 1..Len(confs') :
          NewLast(n) \/ (n + 0 \in 1..Len(confs) /\ Keeps(confs[n + 0], confs'[n]))
  BY <1>1, <1>2, AllDocuments DEF NewLast
<1> QED
  BY <1>3, AllDocuments DEF Grows

LEMMA WithoutFirst ==
    ASSUME StoreOK, ~NoConf, confs' = Tail(confs), serial' = serial PROVE Grows
<1>1. Len(confs') = Len(confs) - 1 /\ \A j \in 1..Len(confs') : confs'[j] = confs[j + 1]
  BY HeadTailProperties DEF StoreOK, NoConf
<1>2. \A n \in 1..Len(confs) : Keeps(confs[n], confs[n])
  BY AllDocuments, DocumentFields, SameOriginsKeep
<1>3. \A n \in 1..Len(confs') :
          n + 1 \in 1..Len(confs) /\ Keeps(confs[n + 1], confs'[n])
  BY <1>1, <1>2, AllDocuments
<1> QED
  BY <1>3, AllDocuments DEF Grows

LEMMA PlaceByPlace ==
    ASSUME StoreOK, NEW p \in 1..Len(confs), NEW d \in Document,
           confs' = [confs EXCEPT ![p] = d]
    PROVE  /\ Len(confs') = Len(confs)
           /\ \A j \in 1..Len(confs) :
                 confs'[j] = IF j = p THEN d ELSE confs[j]
BY ExceptSeq DEF StoreOK

LEMMA WithKept ==
    ASSUME StoreOK, NEW p \in 1..Len(confs), NEW d \in Document, Keeps(confs[p], d),
           confs' = [confs EXCEPT ![p] = d], serial' \in Nat, serial =< serial'
    PROVE  Grows
<1>1. \A n \in 1..Len(confs) : Keeps(confs[n], confs[n])
  BY AllDocuments, DocumentFields, SameOriginsKeep
<1>2. \A n \in 1..Len(confs') :
          n + 0 \in 1..Len(confs) /\ Keeps(confs[n + 0], confs'[n])
  BY <1>1, PlaceByPlace, AllDocuments
<1> QED
  BY <1>2 DEF Grows

LEMMA UpsertGrows ==
    ASSUME StoreOK, NEW keys \in Keys \cup {NoKeys}, UpsertFirst(keys) PROVE Grows
<1>1. CASE NoConf
  <2> DEFINE d == Fresh(FALSE, keys)
  <2>1. serial \in Nat /\ FALSE \in BOOLEAN
    BY DEF StoreOK
  <2>2. d \in Document /\ d.id = serial + 1
    BY <2>1, FreshTyped, Zenon
  <2>3. confs = <<>> /\ confs' = <<d>> /\ serial' = serial + 1
    BY <1>1 DEF UpsertFirst, NoConf
  <2> HIDE DEF d
  <2>4. confs' = Append(confs, d)
    BY <2>3
  <2> QED
    BY <2>2, <2>3, <2>4, WithNewLast
<1>2. CASE ~NoConf
  <2> DEFINE d == [confs[1] EXCEPT !.keys = keys]
  <2>1. 1 \in 1..Len(confs) /\ confs[1] \in Document
    BY <1>2, FirstDocument
  <2>2. d \in Document /\ d.id = confs[1].id /\ d.v = confs[1].v
        /\ d.origins = confs[1].origins
    BY <2>1 DEF Document
  <2>3. serial' \in Nat /\ serial =< serial'
        /\ (confs' = confs \/ confs' = [confs EXCEPT ![1] = d])
    BY <1>2 DEF UpsertFirst, StoreOK
  <2> HIDE DEF d
  <2>4. Keeps(confs[1], d)
    BY <2>1, <2>2, SameOriginsKeep
  <2> QED
    BY <2>1, <2>2, <2>3, <2>4, Unchanged, WithKept
<1> QED
  BY <1>1, <1>2

-----------------------------------------------------------------------------
(* Every step but the save of a removal lets the collection grow. *)

LEMMA StartGrows == ASSUME StoreOK, StartServer PROVE Grows
<1>1. CASE AppKey = 0
  <2> DEFINE d == Fresh(TRUE, EffectiveKeys)
  <2>1. EffectiveKeys \in Keys /\ serial \in Nat /\ TRUE \in BOOLEAN
    BY KeysRead DEF StoreOK
  <2>2. d \in Document /\ d.id = serial + 1
    BY <2>1, FreshTyped, Zenon
  <2>3. confs' = Append(confs, d) /\ serial' = serial + 1
    BY <1>1 DEF StartServer, ConfigurationSetUp
  <2> HIDE DEF d
  <2> QED
    BY <2>2, <2>3, WithNewLast
<1>2. CASE AppKey # 0
  <2>1. confs' = confs /\ serial' \in Nat /\ serial =< serial'
    BY <1>2 DEF StartServer, ConfigurationSetUp, StoreOK
  <2> QED
    BY <2>1, Unchanged
<1> QED
  BY <1>1, <1>2

LEMMA ResetGrows == ASSUME StoreOK, NEW s, ResetConfiguration(s) PROVE Grows
BY Unchanged, WithoutFirst, AllDocuments DEF ResetConfiguration

LEMMA ReloadGrows == ASSUME StoreOK, NEW s, ReloadConfigurationFromFile(s) PROVE Grows
<1>1. serial' \in Nat /\ serial =< serial'
  BY DEF ReloadConfigurationFromFile, StoreOK
<1>2. CASE NoConf
  BY <1>1, <1>2, Unchanged DEF ReloadConfigurationFromFile
<1>3. CASE ~NoConf
  <2> DEFINE d == [confs[1] EXCEPT !.keys = FileKeys, !.session = NoKeys]
  <2>1. 1 \in 1..Len(confs) /\ confs[1] \in Document /\ FileKeys \in Keys
    BY <1>3, FirstDocument, KeysAssumption
  <2>2. d \in Document /\ d.id = confs[1].id /\ d.v = confs[1].v
        /\ d.origins = confs[1].origins
    BY <2>1 DEF Document
  <2>3. confs' = [confs EXCEPT ![1] = d]
    BY <1>3 DEF ReloadConfigurationFromFile
  <2> HIDE DEF d
  <2>4. Keeps(confs[1], d)
    BY <2>1, <2>2, SameOriginsKeep
  <2> QED
    BY <1>1, <2>1, <2>2, <2>3, <2>4, WithKept
<1> QED
  BY <1>2, <1>3

LEMMA SessionGrows == ASSUME StoreOK, NEW s, ConsentServiceParticipantLogin(s) PROVE Grows
<1>1. serial' \in Nat /\ serial =< serial'
  BY DEF ConsentServiceParticipantLogin, StoreOK
<1>2. CASE confs' = confs
  BY <1>1, <1>2, Unchanged
<1>3. CASE confs' # confs
  <2> DEFINE d == [confs[1] EXCEPT !.session = EffectiveKeys]
  <2>1. ~NoConf /\ confs' = [confs EXCEPT ![1] = d]
    BY <1>3 DEF ConsentServiceParticipantLogin
  <2>2. 1 \in 1..Len(confs) /\ confs[1] \in Document /\ EffectiveKeys \in Keys
    BY <2>1, FirstDocument, KeysRead
  <2>3. d \in Document /\ d.id = confs[1].id /\ d.v = confs[1].v
        /\ d.origins = confs[1].origins
    BY <2>2 DEF Document
  <2> HIDE DEF d
  <2>4. Keeps(confs[1], d)
    BY <2>2, <2>3, SameOriginsKeep
  <2> QED
    BY <1>1, <2>1, <2>2, <2>3, <2>4, WithKept
<1> QED
  BY <1>2, <1>3

LEMMA WithOriginsFields ==
    ASSUME NEW c \in Document, NEW os
    PROVE  /\ WithOrigins(c, os).id = c.id /\ WithOrigins(c, os).v = c.v + 1
           /\ WithOrigins(c, os).origins = os
<1> DEFINE d == WithOrigins(c, os)
<1>1. d = [c EXCEPT !.v = c.v + 1, !.origins = os]
  BY DEF WithOrigins
<1> HIDE DEF d
<1>2. d.id = c.id /\ d.v = c.v + 1 /\ d.origins = os
  BY <1>1 DEF Document
<1> QED
  BY <1>2 DEF d

LEMMA PushGrows ==
    ASSUME StoreOK, HandlersOK, NEW s \in Handlers, SavePush(s) PROVE Grows
<1> DEFINE p == Position(req[s].doc)
<1>1. CASE p = 0
  BY <1>1, Unchanged, AllDocuments DEF SavePush
<1>2. CASE p # 0
  <2> DEFINE e == [id |-> serial + 1, name |-> req[s].name, by |-> req[s].by]
             c == confs[p]
             os == Append(c.origins, e)
             d == WithOrigins(c, os)
  <2>1. p \in 1..Len(confs) /\ c \in Document
    BY <1>2, PositionInRange, FirstDocument, AllDocuments DEF StoreOK
  <2>2. e \in Entry /\ serial + 1 \in Nat /\ serial =< serial + 1
    BY RequestShapes DEF SavePush, Entry, StoreOK
  <2>3. confs' = [confs EXCEPT ![p] = d] /\ serial' = serial + 1
    BY <1>2 DEF SavePush
  <2> HIDE DEF e, c
  <2>4. c.origins \in Seq(Entry)
    BY <2>1, DocumentOrigins
  <2>5. /\ os \in Seq(Entry) /\ Len(os) = Len(c.origins) + 1
        /\ \A i \in 1..Len(c.origins) : os[i] = c.origins[i]
    BY <2>2, <2>4, AppendProperties
  <2> HIDE DEF os
  <2>6. d \in Document /\ d.id = c.id /\ d.v = c.v + 1 /\ d.origins = os
    BY <2>1, <2>5, WithOriginsTyped, WithOriginsFields
  <2> HIDE DEF d
  <2>7. Ids(c) \subseteq Ids(d)
    BY <2>1, <2>5, <2>6, DocumentFields
  <2>8. Keeps(c, d)
    BY <2>1, <2>6, <2>7, DocumentFields DEF Keeps, Follows
  <2> HIDE DEF p
  <2> QED
    BY <2>1, <2>2, <2>3, <2>6, <2>8, WithKept DEF c
<1> QED
  BY <1>1, <1>2

LEMMA ResignGrows ==
    ASSUME StoreOK, HandlersOK, NEW s \in Handlers, SaveResign(s) PROVE Grows
<1> DEFINE p == Position(req[s].doc)
           at == req[s].at
           os == confs[p].origins
           new == [os EXCEPT ![at] = [@ EXCEPT !.by = req[s].by]]
           d == [confs[p] EXCEPT !.origins = new]
<1>1. serial' \in Nat /\ serial =< serial' /\ req[s].by \in Keys
  <2>1. req[s].op = "resign" /\ serial' = serial /\ serial \in Nat
    BY DEF SaveResign, StoreOK
  <2>2. req[s] \in [op : {"resign"}, doc : Nat, v : Nat, at : Nat, by : Keys]
    BY <2>1, RequestShapes
  <2> QED
    BY <2>1, <2>2
<1>2. CASE confs' = confs
  BY <1>1, <1>2, Unchanged
<1>3. CASE confs' # confs
  <2>1. p # 0 /\ confs' = [confs EXCEPT ![p].origins[at].by = req[s].by]
    BY <1>3 DEF SaveResign, Current
  <2>2. p \in 1..Len(confs) /\ confs[p] \in Document
    BY <2>1, FoundInStore
  <2>3. os \in Seq(Entry) /\ Len(os) \in Nat /\ DOMAIN os = 1..Len(os)
    BY <2>2, DocumentOrigins, LenProperties
  <2>4. /\ new \in Seq(Entry) /\ Len(new) = Len(os)
        /\ \A i \in 1..Len(os) : new[i].id = os[i].id
    <3> HIDE DEF os
    <3>1. CASE at \in 1..Len(os)
      <4> DEFINE e == [os[at] EXCEPT !.by = req[s].by]
      <4>1. e \in Entry /\ e.id = os[at].id
        <5>1. os[at] \in Entry
          BY <2>3, <3>1, ElementOfSeq
        <5> QED
          BY <1>1, <5>1 DEF Entry
      <4>2. new = [os EXCEPT ![at] = e]
        OBVIOUS
      <4> HIDE DEF e, new
      <4> QED
        BY <2>3, <3>1, <4>1, <4>2, ExceptSeq
    <3>2. CASE at \notin 1..Len(os)
      <4>1. new = os
        BY <2>3, <3>2
      <4> QED
        BY <2>3, <4>1
    <3> QED
      BY <3>1, <3>2
  <2>5. confs' = [confs EXCEPT ![p] = d]
    BY <2>1
  <2>6. d \in Document /\ d.id = confs[p].id /\ d.v = confs[p].v /\ d.origins = new
    <3> HIDE DEF new, p
    <3> QED
      BY <2>2, <2>4 DEF Document, Entry
  <2>7. Keeps(confs[p], d)
    <3> HIDE DEF new, d, p
    <3> QED
      BY <2>2, <2>4, <2>6, DocumentFields, SameIdsKeep DEF SameIds
  <2> HIDE DEF d, p
  <2> QED
    BY <1>1, <2>2, <2>5, <2>6, <2>7, WithKept
<1> QED
  BY <1>2, <1>3

-----------------------------------------------------------------------------
(* The save of a removal *)

LEMMA PositionFinds ==
    ASSUME StoreOK, NEW id, Position(id) # 0
    PROVE  Position(id) \in 1..Len(confs) /\ confs[Position(id)].id = id
<1> DEFINE I == {i \in 1..Len(confs) : confs[i].id = id}
<1>1. Position(id) = IF I # {} THEN Min(I) ELSE 0
  BY DEF Position, SelectInSeq
<1>2. I \in SUBSET Nat
  BY AllDocuments
<1>3. Position(id) \in I
  <2> HIDE DEF I
  <2> QED
    BY <1>1, <1>2, MinIn
<1> QED
  BY <1>3

\* A splice takes one entry: a named one, or the last if none is named so.
LEMMA SplicedLosesOne ==
    ASSUME NEW doc \in Document, NEW target, doc.origins # <<>>
    PROVE  \E gone \in 1..Len(doc.origins) :
              /\ \/ doc.origins[gone].id = target
                 \/ /\ gone = Len(doc.origins)
                    /\ \A i \in 1..Len(doc.origins) : doc.origins[i].id # target
              /\ \A i \in 1..Len(doc.origins) \ {gone} :
                    \E j \in 1..Len(Spliced(doc, target)) :
                        Spliced(doc, target)[j] = doc.origins[i]
<1> DEFINE os == doc.origins
           n == Len(os)
           I == {i \in 1..n : os[i].id = target}
           at == IF I # {} THEN Min(I) ELSE 0
           gone == IF at = 0 THEN n ELSE at
           after == RemoveAt(os, gone)
<1>1. Spliced(doc, target) = after
  BY DEF Spliced, SelectInSeq
<1>2. os \in Seq(Entry) /\ n \in Nat /\ n # 0
  BY DocumentOrigins, LenProperties, EmptySeq
<1>3. I \in SUBSET Nat /\ \A i \in I : i \in 1..n /\ os[i].id = target
  BY <1>2
<1>4. \A i \in 1..n : i \notin I => os[i].id # target
  OBVIOUS
<1>5. \A i \in 1..n : os[i] \in Entry
  BY <1>2, ElementOfSeq
<1> HIDE DEF I, os
<1>6. (I # {} => at \in I) /\ (I = {} => at = 0)
  BY <1>3, MinIn
<1> HIDE DEF at, n
<1>7. /\ gone \in 1..n
      /\ os[gone].id = target \/ (gone = n /\ \A i \in 1..n : os[i].id # target)
  <2>1. CASE I = {}
    <3>1. gone = n /\ n \in 1..n
      BY <1>2, <1>6, <2>1
    <3>2. \A i \in 1..n : os[i].id # target
      BY <1>4, <2>1
    <3> QED
      BY <3>1, <3>2
  <2>2. CASE I # {}
    <3>1. at \in 1..n /\ os[at].id = target
      BY <1>3, <1>6, <2>2
    <3>2. gone = at
      BY <1>2, <3>1
    <3> QED
      BY <3>1, <3>2
  <2> QED
    BY <2>1, <2>2
<1> HIDE DEF gone
<1>8. \A i \in 1..n \ {gone} : \E j \in 1..Len(after) : after[j] = os[i]
  <2> DEFINE a == SubSeq(os, 1, gone - 1)
             b == SubSeq(os, gone + 1, n)
  <2>1. /\ gone - 1 \in Int /\ gone + 1 \in Int /\ n \in Int
        /\ \A i \in 1..(gone - 1) : os[i] \in Entry
        /\ \A i \in (gone + 1)..n : os[i] \in Entry
    BY <1>2, <1>5, <1>7
  <2>2. /\ a \in Seq(Entry) /\ Len(a) = gone - 1
        /\ \A i \in 1..(gone - 1) : a[i] = os[i]
    <3>1. /\ a \in Seq(Entry) /\ Len(a) = IF 1 =< gone - 1 THEN (gone - 1) - 1 + 1 ELSE 0
          /\ \A i \in 1..((gone - 1) - 1 + 1) : a[i] = os[1 + i - 1]
      BY <2>1, SubSeqProperties
    <3> HIDE DEF a
    <3> QED
      BY <1>7, <3>1
  <2>3. /\ b \in Seq(Entry) /\ Len(b) = n - gone
        /\ \A i \in 1..(n - gone) : b[i] = os[gone + i]
    <3>1. /\ b \in Seq(Entry)
          /\ Len(b) = IF gone + 1 =< n THEN n - (gone + 1) + 1 ELSE 0
          /\ \A i \in 1..(n - (gone + 1) + 1) : b[i] = os[(gone + 1) + i - 1]
      BY <2>1, SubSeqProperties
    <3> HIDE DEF b
    <3> QED
      BY <1>2, <1>7, <3>1
  <2>4. after = a \o b
    BY DEF RemoveAt, n
  <2> HIDE DEF a, b, after
  <2>5. /\ Len(after) = n - 1
        /\ \A j \in 1..(n - 1) : after[j] = IF j =< gone - 1 THEN a[j] ELSE b[j - (gone - 1)]
    BY <1>2, <1>7, <2>2, <2>3, <2>4, ConcatProperties
  <2> TAKE i \in 1..n \ {gone}
  <2>6. CASE i < gone
    <3>1. i \in 1..(n - 1) /\ i \in 1..(gone - 1) /\ i =< gone - 1
      BY <1>2, <1>7, <2>6
    <3>2. after[i] = os[i]
      BY <2>2, <2>5, <3>1
    <3> QED
      BY <2>5, <3>1, <3>2
  <2>7. CASE i > gone
    <3>1. i - 1 \in 1..(n - 1) /\ after[i - 1] = b[i - gone] /\ i - gone \in 1..(n - gone)
      BY <1>2, <1>7, <2>5, <2>7
    <3>2. b[i - gone] = os[i]
      BY <1>7, <2>3, <3>1
    <3> QED
      BY <2>5, <3>1, <3>2
  <2> QED
    BY <1>7, <2>6, <2>7
<1> HIDE DEF after
<1> QED
  BY <1>1, <1>7, <1>8 DEF n, os

LEMMA SpliceWrites ==
    ASSUME StoreOK, HandlersOK, NEW s \in Handlers, SaveSplice(s), confs' # confs
    PROVE  LET doc == req[s].doc
               p == Position(doc.id)
               d == WithOrigins(confs[p], Spliced(doc, req[s].target))
           IN  /\ doc \in Document /\ d \in Document
               /\ p \in 1..Len(confs) /\ confs[p].id = doc.id /\ confs[p].v = doc.v
               /\ confs' = [confs EXCEPT ![p] = d]
               /\ d.id = confs[p].id /\ d.v = confs[p].v + 1
               /\ d.origins = Spliced(doc, req[s].target)
<1> DEFINE doc == req[s].doc
           os == Spliced(doc, req[s].target)
           p == Position(doc.id)
           d == WithOrigins(confs[p], os)
<1>1. doc \in Document
  BY RequestShapes DEF SaveSplice
<1>2. p # 0 /\ confs[p].v = doc.v /\ confs' = [confs EXCEPT ![p] = d]
  BY DEF SaveSplice, Current
<1>3. p \in 1..Len(confs) /\ confs[p].id = doc.id /\ confs[p] \in Document
  BY <1>2, PositionFinds, AllDocuments
<1>4. os \in Seq(Entry)
  BY <1>1, SplicedTyped
<1>5. d \in Document /\ d.id = confs[p].id /\ d.v = confs[p].v + 1 /\ d.origins = os
  BY <1>3, <1>4, WithOriginsTyped, WithOriginsFields
<1> QED
  BY <1>1, <1>2, <1>3, <1>5

LEMMA SpliceEvolves ==
    ASSUME StoreOK, HandlersOK, NEW s \in Handlers, SaveSplice(s) PROVE Evolves
<1>1. serial' = serial /\ serial \in Nat
  BY DEF SaveSplice, StoreOK
<1>2. CASE confs' = confs
  BY <1>1, <1>2, Unchanged, GrowsEvolves
<1>3. CASE confs' # confs
  <2> DEFINE p == Position(req[s].doc.id)
             d == WithOrigins(confs[p], Spliced(req[s].doc, req[s].target))
  <2>1. /\ p \in 1..Len(confs) /\ d \in Document /\ confs' = [confs EXCEPT ![p] = d]
        /\ d.id = confs[p].id /\ d.v = confs[p].v + 1
    BY <1>3, SpliceWrites
  <2> HIDE DEF d, p
  <2>2. Follows(confs[p], d)
    BY <2>1, AllDocuments, DocumentFields DEF Follows
  <2>3. \A n \in 1..Len(confs) : Follows(confs[n], confs[n])
    BY AllDocuments, DocumentFields, SameOriginsKeep DEF Keeps
  <2>4. \A n \in 1..Len(confs') :
            n + 0 \in 1..Len(confs) /\ Follows(confs[n + 0], confs'[n])
    BY <2>1, <2>2, <2>3, PlaceByPlace, AllDocuments
  <2> QED
    BY <1>1, <2>4 DEF Evolves
<1> QED
  BY <1>2, <1>3

\* What the save takes from the collection: what it named, and if that is not
\* there, the last entry.
Taken(n, s) ==
    /\ req[s].op = "splice"
    /\ \/ Lost(n) = {req[s].target}
       \/ /\ req[s].target \notin Ids(confs[n])
          /\ Lost(n) = {Last(confs[n].origins).id}

LEMMA SpliceTakes ==
    ASSUME StoreOK, HandlersOK, OInv, NEW s \in Handlers, SaveSplice(s),
           NEW n \in 1..Len(confs), Lost(n) # {}
    PROVE  Taken(n, s)
<1> DEFINE doc == req[s].doc
           target == req[s].target
           p == Position(doc.id)
           d == WithOrigins(confs[p], Spliced(doc, target))
           os == confs[n].origins
<1>1. confs' # confs
  BY DEF Lost
<1>2. /\ doc \in Document /\ d \in Document
      /\ p \in 1..Len(confs) /\ confs[p].id = doc.id /\ confs[p].v = doc.v
      /\ confs' = [confs EXCEPT ![p] = d]
      /\ d.origins = Spliced(doc, target)
  BY <1>1, SpliceWrites
<1>3. req[s].op = "splice" /\ InDate(doc)
  BY DEF SaveSplice, OInv
<1> HIDE DEF d, p, doc, target
<1>4. n = p /\ confs'[n] = d
  <2>1. confs'[n] = IF n = p THEN d ELSE confs[n]
    BY <1>2, PlaceByPlace
  <2> QED
    BY <2>1 DEF Lost
<1>5. SameIds(doc, confs[n]) /\ confs[n] \in Document
  BY <1>2, <1>3, <1>4, AllDocuments DEF InDate
<1>6. /\ Ids(confs[n]) = {os[i].id : i \in 1..Len(os)}
      /\ Len(os) \in Nat
      /\ Len(os) = Len(doc.origins) /\ \A i \in 1..Len(os) : os[i].id = doc.origins[i].id
      /\ Ids(d) = {d.origins[j].id : j \in 1..Len(d.origins)}
  BY <1>2, <1>5, DocumentFields DEF SameIds
<1>7. Lost(n) = Ids(confs[n]) \ Ids(d)
  BY <1>4 DEF Lost
<1>8. doc.origins # <<>>
  <2>1. Len(os) # 0
    BY <1>6, <1>7
  <2> QED
    BY <1>6, <2>1
<1>9. PICK gone \in 1..Len(doc.origins) :
        /\ \/ doc.origins[gone].id = target
           \/ /\ gone = Len(doc.origins)
              /\ \A i \in 1..Len(doc.origins) : doc.origins[i].id # target
        /\ \A i \in 1..Len(doc.origins) \ {gone} :
              \E j \in 1..Len(d.origins) : d.origins[j] = doc.origins[i]
  <2> DEFINE after == Spliced(doc, target)
  <2>1. doc \in Document /\ d.origins = after
    BY <1>2
  <2>2. \E gone \in 1..Len(doc.origins) :
          /\ \/ doc.origins[gone].id = target
             \/ /\ gone = Len(doc.origins)
                /\ \A i \in 1..Len(doc.origins) : doc.origins[i].id # target
          /\ \A i \in 1..Len(doc.origins) \ {gone} :
                \E j \in 1..Len(after) : after[j] = doc.origins[i]
    BY <1>8, <2>1, SplicedLosesOne
  <2> HIDE DEF after
  <2> QED
    BY <2>1, <2>2
<1> HIDE DEF os
<1>10. \A i \in 1..Len(os) \ {gone} : os[i].id \in Ids(d)
  <2> SUFFICES ASSUME NEW i \in 1..Len(os), i # gone PROVE os[i].id \in Ids(d)
    OBVIOUS
  <2>1. i \in 1..Len(doc.origins) \ {gone} /\ os[i].id = doc.origins[i].id
    BY <1>6
  <2>2. PICK j \in 1..Len(d.origins) : d.origins[j] = doc.origins[i]
    BY <1>9, <2>1
  <2> QED
    BY <1>6, <2>1, <2>2
<1>11. Lost(n) = {os[gone].id}
  <2>1. Lost(n) \subseteq {os[gone].id}
    BY <1>6, <1>7, <1>10
  <2> QED
    BY <2>1
<1>12. CASE os[gone].id = target
  BY <1>3, <1>11, <1>12 DEF Taken, target
<1>13. CASE gone = Len(os) /\ \A i \in 1..Len(os) : os[i].id # target
  <2>1. target \notin Ids(confs[n])
    BY <1>6, <1>13
  <2>2. Last(os) = os[gone]
    BY <1>13 DEF Last
  <2> QED
    BY <1>3, <1>11, <2>1, <2>2 DEF Taken, target, os
<1> QED
  BY <1>6, <1>9, <1>12, <1>13

LEMMA GrowingLosesNothing ==
    ASSUME StoreOK, OInv, Grows, NEW n \in 1..Len(confs), n \in 1..Len(confs'),
           confs'[n].id = confs[n].id
    PROVE  Lost(n) = {}
<1>1. PICK k \in {0, 1} :
        NewLast(n) \/ (n + k \in 1..Len(confs) /\ Keeps(confs[n + k], confs'[n]))
  BY DEF Grows
<1>2. ~NewLast(n)
  BY AllDocuments DEF NewLast
<1>3. n + k \in 1..Len(confs) /\ Keeps(confs[n + k], confs'[n])
  BY <1>1, <1>2
<1>4. n + k = n
  BY <1>3 DEF OInv, Keeps, Follows
<1> QED
  BY <1>3, <1>4 DEF Keeps, Lost

-----------------------------------------------------------------------------
(* What the removals hold after a step *)

LEMMA HoldsAfterDo ==
    ASSUME HandlersOK, NEW s \in Handlers, NEW r, Do(s, r),
           r.op = "splice" => ~NoConf /\ r.doc = confs[1]
    PROVE  HoldsFirst
<1>1. \A t \in Handlers : req'[t] = IF t = s THEN r ELSE req[t]
  BY DEF Do, HandlersOK, RequestsTyped
<1> QED
  BY <1>1 DEF HoldsFirst

LEMMA HoldsAfterEnd == ASSUME HandlersOK, NEW s \in Handlers, Ends(s) PROVE HoldsFirst
BY HoldsAfterDo DEF Ends, Idle

LEMMA HoldsAfterRegisters ==
    ASSUME HandlersOK, NEW s \in Handlers, Registers(s) PROVE HoldsFirst
<1>1. [op |-> "register", pc |-> "read"].op # "splice"
  OBVIOUS
<1> QED
  BY <1>1, HoldsAfterDo DEF Registers

LEMMA HoldsWhenSame == ASSUME req' = req \/ req' = [s \in Handlers |-> Idle] PROVE HoldsFirst
BY DEF HoldsFirst, Idle

LEMMA HoldsAfterUserMove == ASSUME HandlersOK, NEW s \in Handlers, UserMoves(s) PROVE HoldsFirst
<1>1. ASSUME NEW r, OnUsers(r), Do(s, r) PROVE HoldsFirst
  BY <1>1, HoldsAfterDo DEF OnUsers, UserOps
<1> QED
  BY <1>1, HoldsWhenSame, HoldsAfterEnd DEF UserMoves

LEMMA HoldsAfterRegistration ==
    ASSUME HandlersOK, NEW s \in Handlers, RegisterSelfDescription(s) PROVE HoldsFirst
<1>1. CASE RegisterRead(s)
  <2> DEFINE r == [op |-> "register", pc |-> "check",
                   self |-> [app |-> AppKey, by |-> EffectiveKeys]]
  <2>1. Do(s, r) /\ r.op # "splice"
    BY <1>1 DEF RegisterRead
  <2> HIDE DEF r
  <2> QED
    BY <2>1, HoldsAfterDo
<1>2. CASE RegisterCheck(s) \/ RegisterPost(s)
  <2> DEFINE r(pc) == [req[s] EXCEPT !.pc = pc]
  <2>1. Do(s, r("post")) \/ Do(s, r("list")) \/ Ends(s)
    BY <1>2 DEF RegisterCheck, RegisterPost
  <2>2. \A pc : r(pc).op # "splice"
    <3>1. req[s] \in [op : {"register"}, pc : {"check", "post", "list"}, self : Registration]
      BY <1>2, RequestShapes DEF RegisterCheck, RegisterPost
    <3> QED
      BY <3>1
  <2> HIDE DEF r
  <2> QED
    BY <2>1, <2>2, HoldsAfterDo, HoldsAfterEnd
<1>3. CASE RegisterList(s)
  BY <1>3, HoldsAfterEnd DEF RegisterList
<1> QED
  BY <1>1, <1>2, <1>3 DEF RegisterSelfDescription

LEMMA HoldsAfterOrigins ==
    ASSUME StoreOK, HandlersOK, NEW s \in Handlers,
           \/ \E o \in Origins : AddCorsOrigin(s, o)
           \/ SignOrigin(s)
           \/ \E i \in OriginIds : RemoveCorsOrigin(s, i)
    PROVE  HoldsFirst
<1>1. ASSUME NEW o \in Origins, AddCorsOrigin(s, o) PROVE HoldsFirst
  <2> DEFINE r == [op |-> "addOrigin", pc |-> "sign", doc |-> confs[1], name |-> o]
  <2>1. req' = req \/ Do(s, r)
    BY <1>1 DEF AddCorsOrigin
  <2>2. r.op # "splice"
    OBVIOUS
  <2> HIDE DEF r
  <2> QED
    BY <2>1, <2>2, HoldsAfterDo, HoldsWhenSame
<1>2. CASE SignOrigin(s)
  <2> DEFINE doc == req[s].doc
             push == [op |-> "push", doc |-> doc.id, name |-> req[s].name,
                      by |-> EffectiveKeys]
             resign == [op |-> "resign", doc |-> doc.id, v |-> doc.v,
                        at |-> NamedAt(doc, req[s].name), by |-> EffectiveKeys]
  <2>1. Do(s, push) \/ Do(s, resign)
    BY <1>2 DEF SignOrigin
  <2>2. push.op # "splice" /\ resign.op # "splice"
    OBVIOUS
  <2> HIDE DEF push, resign
  <2> QED
    BY <2>1, <2>2, HoldsAfterDo
<1>3. ASSUME NEW i \in OriginIds, RemoveCorsOrigin(s, i) PROVE HoldsFirst
  <2> DEFINE r == [op |-> "splice", doc |-> confs[1], target |-> i]
  <2>1. req' = req \/ (~NoConf /\ Do(s, r))
    BY <1>3 DEF RemoveCorsOrigin
  <2>2. r.doc = confs[1]
    OBVIOUS
  <2> HIDE DEF r
  <2> QED
    BY <2>1, <2>2, HoldsAfterDo, HoldsWhenSame
<1> QED
  BY <1>1, <1>2, <1>3

-----------------------------------------------------------------------------
(* The steps *)

Removes == \E s \in Handlers : SaveSplice(s)

LEMMA StayGrows == ASSUME StoreOK, confs' = confs, serial' = serial PROVE Grows
<1>1. serial' \in Nat /\ serial =< serial'
  BY DEF StoreOK
<1> QED
  BY <1>1, Unchanged

LEMMA ConfigurationSteps ==
    ASSUME StoreOK, HandlersOK, NEW s \in Handlers, ConfigurationStep(s)
    PROVE  HoldsFirst /\ (Grows \/ Removes)
<1>1. CASE RegisterSelfDescription(s)
  <2>1. confs' = confs /\ serial' = serial
    BY <1>1 DEF RegisterSelfDescription, RegisterRead, RegisterCheck, RegisterPost,
                RegisterList, confVars
  <2> QED
    BY <1>1, <2>1, HoldsAfterRegistration, StayGrows
<1>2. ASSUME NEW k \in Keys \cup {NoKeys}, UpdateConfiguration(s, k)
      PROVE  HoldsFirst /\ Grows
  BY <1>2, HoldsAfterRegisters, UpsertGrows DEF UpdateConfiguration
<1>3. CASE UpdateConsentConfiguration(s) \/ ResetConfiguration(s)
  <2>1. req' = req
    BY <1>3 DEF UpdateConsentConfiguration, ResetConfiguration
  <2>2. ASSUME UpdateConsentConfiguration(s) PROVE Grows
    BY <2>2, UpsertGrows DEF UpdateConsentConfiguration
  <2> QED
    BY <1>3, <2>1, <2>2, HoldsWhenSame, ResetGrows
<1>4. CASE ReloadConfigurationFromFile(s)
  BY <1>4, HoldsAfterRegisters, ReloadGrows DEF ReloadConfigurationFromFile
<1>5. CASE \/ \E o \in Origins : AddCorsOrigin(s, o)
           \/ SignOrigin(s)
           \/ \E i \in OriginIds : RemoveCorsOrigin(s, i)
  <2>1. confs' = confs /\ serial' = serial
    BY <1>5 DEF AddCorsOrigin, SignOrigin, RemoveCorsOrigin, confVars
  <2> QED
    BY <1>5, <2>1, HoldsAfterOrigins, StayGrows
<1>6. CASE SavePush(s) \/ SaveResign(s) \/ SaveSplice(s)
  <2>1. Ends(s) \/ ProcessEnds
    BY <1>6 DEF SavePush, SaveResign, SaveSplice
  <2>2. HoldsFirst
    BY <2>1, HoldsAfterEnd, HoldsWhenSame DEF ProcessEnds
  <2> QED
    BY <1>6, <2>2, PushGrows, ResignGrows DEF Removes
<1>7. CASE \/ \E k \in Keys : Login(s, k)
           \/ CreateCatalogResource(s)
           \/ \E n \in DOMAIN catalog, e \in BOOLEAN : UpdateCatalogById(s, n, e)
           \/ UpdateCredential(s)
  <2>1. req' = req /\ confs' = confs /\ serial' = serial
    BY <1>7 DEF Login, CreateCatalogResource, UpdateCatalogById, UpdateCredential
  <2> QED
    BY <2>1, HoldsWhenSame, StayGrows
<1> QED
  BY <1>1, <1>2, <1>3, <1>4, <1>5, <1>6, <1>7 DEF ConfigurationStep

LEMMA StepsGrow == ASSUME CInv, [Next]_vars PROVE HoldsFirst /\ (Grows \/ Removes)
<1> USE DEF CInv
<1>1. CASE UNCHANGED vars
  BY <1>1, HoldsWhenSame, StayGrows DEF vars, confVars
<1>2. CASE StartServer
  <2>1. Registers(Boot) /\ Boot \in Handlers
    BY <1>2 DEF StartServer, Registers, Handlers
  <2> QED
    BY <1>2, <2>1, HoldsAfterRegisters, StartGrows
<1>3. CASE Crash
  BY <1>3, HoldsWhenSame, StayGrows DEF Crash, ProcessEnds, confVars
<1>4. ASSUME NEW s \in Handlers, ConfigurationStep(s)
      PROVE  HoldsFirst /\ (Grows \/ Removes)
  BY <1>4, ConfigurationSteps
<1>5. ASSUME NEW s \in Slots, UserStep(s) PROVE HoldsFirst /\ Grows
  <2>1. s \in Handlers
    BY DEF Handlers
  <2>2. CASE UserMoves(s)
    BY <2>1, <2>2, HoldsAfterUserMove, StayGrows DEF UserMoves, confVars
  <2>3. CASE ConsentServiceParticipantLogin(s)
    <3> DEFINE r == req[s]
    <3>1. OnUsers(r)
      BY <2>1, <2>3, AtWork DEF ConsentServiceParticipantLogin, At, UserOps
    <3> HIDE DEF r
    <3>2. \A v : /\ [r EXCEPT !.pc = "ask", !.jwt = v].op # "splice"
                /\ [r EXCEPT !.pc = "ask"].op # "splice"
      BY <3>1 DEF OnUsers, UserOps
    <3>3. \E q : q.op # "splice" /\ Do(s, q)
      BY <2>3, <3>2 DEF ConsentServiceParticipantLogin, To, r
    <3>4. HoldsFirst
      BY <2>1, <3>3, HoldsAfterDo
    <3> QED
      BY <2>3, <3>4, SessionGrows
  <2> QED
    BY <1>5, <2>1, <2>2, <2>3, UserBegun, UserGoesOn DEF UserStep
<1>6. ASSUME NEW v \in saves, SaveIdentifier(v) PROVE HoldsFirst /\ Grows
  BY <1>6, HoldsWhenSame, StayGrows DEF SaveIdentifier, ProcessEnds, confVars
<1> QED
  BY <1>1, <1>2, <1>3, <1>4, <1>5, <1>6 DEF Next, ConfigurationNext

LEMMA InitInDate == ASSUME Init PROVE OInv
<1>1. StoreOK
  BY InitHolds DEF Init, CInv
<1>2. Len(confs) = 1 /\ confs[1].id = 1 /\ serial = 2
  BY DEF Init, ConfigurationInit
<1>3. \A s \in Handlers : req[s].op = "idle"
  BY DEF Init, ConfigurationInit, Idle
<1> QED
  BY <1>2, <1>3 DEF OInv

\* Origins leave a configuration one at a time, and only by the save of a removal:
\* it takes the entry it named or, when no such entry is there, the last one; an
\* origin that was added after the removal loaded the array is never dropped with
\* it, for the save is refused then (removeCorsOriginService, addCorsOriginService).
THEOREM RemovalIsExact == Spec => RemovalTakesTheNamed
<1> DEFINE Exact ==
             \A n \in DOMAIN confs \cap DOMAIN confs' :
                confs[n].id = confs'[n].id /\ Lost(n) # {} => \E s \in Handlers : Taken(n, s)
<1>1. Init => OInv
  BY InitInDate
<1>2. CInv /\ CInv' /\ OInv /\ [Next]_vars => OInv'
  <2> SUFFICES ASSUME CInv, CInv', OInv, [Next]_vars PROVE OInv'
    OBVIOUS
  <2>1. HoldsFirst /\ Evolves
    BY StepsGrow, GrowsEvolves, SpliceEvolves DEF Removes, CInv
  <2> QED
    BY <2>1, EvolvingKeeps DEF CInv
<1>3. CInv /\ CInv' /\ OInv /\ [Next]_vars => [Exact]_<<confs, req>>
  <2> SUFFICES ASSUME CInv, CInv', OInv, [Next]_vars,
                      NEW n \in DOMAIN confs \cap DOMAIN confs',
                      confs[n].id = confs'[n].id, Lost(n) # {}
               PROVE  \E s \in Handlers : Taken(n, s)
    OBVIOUS
  <2>1. n \in 1..Len(confs) /\ n \in 1..Len(confs')
    BY LenProperties DEF CInv, StoreOK
  <2>2. CASE Grows
    BY <2>1, <2>2, GrowingLosesNothing DEF CInv
  <2>3. CASE Removes
    BY <2>1, <2>3, SpliceTakes DEF CInv, Removes
  <2> QED
    BY <2>2, <2>3, StepsGrow
<1>4. [][Exact]_<<confs, req>> => RemovalTakesTheNamed
  BY PTL DEF RemovalTakesTheNamed, Taken
<1> QED
  BY <1>1, <1>2, <1>3, <1>4, InvariantHolds, PTL DEF Spec
=============================================================================
