------------------------- MODULE UserRegistryProofs -------------------------
(***************************************************************************)
(* Proofs about the users of a connector and their identifiers at the      *)
(* consent manager (UserRegistry), for every number of handlers, users,    *)
(* requests and faults: no user carries the identifier of another unless   *)
(* an update changed an internal id, none carries a deleted one unless     *)
(* something disturbed the requests, and the two stores agree at rest      *)
(* unless something in StoresAgree's list happened.                        *)
(***************************************************************************)
EXTENDS ConfigurationProofs

-----------------------------------------------------------------------------
(* Facts that hold in every state. *)

\* An update changed the internal id of a user, which parts it from its identifier.
Astray == "renamed" \in rough
\* Identifier i was given for user u; document d, if it is there, is one of user u.
Owned(i, u) == i \in 1..Len(cm) /\ (Astray \/ cm[i].who = u)
Names(d, u) ==
    /\ d \in 1..nextDoc
    /\ Astray \/ \A n \in 1..Len(users) : users[n].id = d => users[n].who = u

StoresTyped ==
    /\ users \in Seq(User) /\ nextDoc \in Nat /\ cm \in Seq(Identifier)
    /\ saves \subseteq [doc : Nat, idf : Nat]
    /\ rough \subseteq Causes
UserRequestsTyped ==
    /\ req = [s \in Handlers |-> req[s]]
    /\ \A s \in Handlers : req[s].op \in UserOps => req[s] \in UserRequest

DocumentsDiffer ==
    /\ \A n \in 1..Len(users) : users[n].id \in 1..nextDoc
    /\ \A m, n \in 1..Len(users) : users[m].id = users[n].id => m = n
OneLiveEach ==
    \A i, j \in 1..Len(cm) : cm[i].live /\ cm[j].live /\ cm[i].who = cm[j].who => i = j

UsersOwn ==
    \A n \in 1..Len(users) :
        users[n].idf # NoIdentifier => Owned(users[n].idf, users[n].who)
SavesOwn == \A v \in saves : v.idf \in 1..Len(cm) /\ Names(v.doc, cm[v.idf].who)

\* What a request on the users holds.
HasDocument(r) ==
    \/ r.op = "create" /\ r.pc \in {"login", "call", "undo"}
    \/ r.op = "app" /\ r.pc \in {"auth", "login", "ask", "save"}
HasAnswer(r) == r.op = "import" /\ r.pc \in {"row", "upsert"} /\ r.jwt
Holds(r) ==
    /\ HasDocument(r) => Names(r.doc, r.who)
    /\ r.op = "app" /\ r.pc = "save" => Owned(r.idf, r.who)
    /\ r.op = "consent" /\ r.idf # NoIdentifier => Owned(r.idf, r.who)
    /\ r.op = "import" => Len(r.rows) > 0 /\ r.who = r.rows[1]
    /\ HasAnswer(r) => \A k \in 1..Len(r.rows) : Owned(r.ids[r.rows[k]], r.rows[k])
RequestsHold == \A s \in Slots : Holds(req[s])

(* Facts that hold as long as nothing disturbed the requests on the users. *)

Busy(s) == req[s].op \in UserOps
Live(i) == cm[i].live
\* Document d is there, and the first one of its user.
IsFirst(d) ==
    \E n \in 1..Len(users) :
        /\ users[n].id = d
        /\ \A m \in 1..(n - 1) : users[m].who # users[n].who

OneAtWork ==
    /\ \A s, t \in Slots : Busy(s) /\ Busy(t) => s = t
    /\ saves # {} => \A s \in Slots :
           Busy(s) => req[s].op = "import" /\ req[s].pc \in {"row", "upsert"}
OnlyFirstHasOne ==
    \A m, n \in 1..Len(users) :
        m < n /\ users[m].who = users[n].who => users[n].idf = NoIdentifier
UsersLive == \A n \in 1..Len(users) : users[n].idf # NoIdentifier => Live(users[n].idf)
SavesLive == \A v \in saves : IsFirst(v.doc) /\ Live(v.idf)
Certain(r) ==
    /\ r.op = "create" /\ r.pc = "insert" =>
           \A n \in 1..Len(users) : users[n].who # r.who
    /\ HasDocument(r) => IsFirst(r.doc)
    /\ r.op = "app" /\ r.pc = "save" => Live(r.idf)
    /\ HasAnswer(r) => \A k \in 1..Len(r.rows) : Live(r.ids[r.rows[k]])
    /\ r.op = "delete" /\ r.idf # NoIdentifier =>
           \A n \in 1..Len(users) : users[n].idf # r.idf
RequestsCertain == \A s \in Slots : Certain(req[s])
CalmFacts == OneAtWork /\ OnlyFirstHasOne /\ UsersLive /\ SavesLive /\ RequestsCertain
Calm == Undisturbed => CalmFacts

(* Facts that hold as long as nothing went wrong at all. *)

Claims(r, i) ==
    \/ r.op = "delete" /\ r.idf = i
    \/ r.op = "app" /\ r.pc = "save" /\ r.idf = i
    \/ HasAnswer(r) /\ \E k \in 1..Len(r.rows) : r.ids[r.rows[k]] = i
Accounted(i) ==
    \/ \E n \in 1..Len(users) : users[n].idf = i
    \/ \E v \in saves : v.idf = i
    \/ \E s \in Slots : Claims(req[s], i)
LoggedIn(r) ==
    /\ r.op \in {"create", "delete", "import"} /\ r.pc = "call" => r.jwt
    /\ r.op = "import" /\ r.pc \in {"row", "upsert"} => r.jwt
    /\ ~(r.op = "create" /\ r.pc = "undo")
Smooth == faults = 0 /\ ~ended /\ rough = {}
SmoothFacts ==
    /\ \A i \in 1..Len(cm) : Live(i) => Accounted(i)
    /\ \A s \in Slots : LoggedIn(req[s])
Accord == Smooth => SmoothFacts

-----------------------------------------------------------------------------
(* Selecting in a sequence *)

LEMMA MinLeast ==
    ASSUME NEW S \in SUBSET Nat, S # {} PROVE Min(S) \in S /\ \A y \in S : Min(S) =< y
<1>1. PICK x \in S : \A y \in S : ~(<<y, x>> \in OpToRel(<, Nat))
  BY NatLessThanWellFounded, WFMin
<1>2. OpToRel(<, Nat) = {p \in Nat \X Nat : p[1] < p[2]}
  BY DEF OpToRel
<1>3. \A y \in S : x =< y
  <2> TAKE y \in S
  <2>1. <<y, x>> \notin {p \in Nat \X Nat : p[1] < p[2]}
    BY <1>1, <1>2
  <2> QED
    BY <2>1
<1> QED
  BY <1>3 DEF Min

\* Induction over the natural numbers, for a set in place of a predicate.
LEMMA NatInductiveSet ==
    ASSUME NEW S \in SUBSET Nat, 0 \in S, \A n \in S : n + 1 \in S
    PROVE  S = Nat
<1> SUFFICES ASSUME Nat \ S # {} PROVE FALSE
  OBVIOUS
<1>1. PICK x \in Nat \ S : \A y \in Nat \ S : x =< y
  <2>1. Nat \ S \in SUBSET Nat
    OBVIOUS
  <2> QED
    BY <2>1, MinLeast
<1>2. x # 0 /\ x - 1 \in Nat
  BY <1>1
<1>3. x - 1 \in S
  BY <1>1, <1>2
<1> QED
  BY <1>1, <1>2, <1>3

\* What SelectInSeq gives: the first place of a set, or 0.
LEMMA FirstMatch ==
    ASSUME NEW n \in Nat, NEW I \in SUBSET (1..n), NEW p,
           p = IF I # {} THEN Min(I) ELSE 0
    PROVE  /\ p \in 0..n
           /\ p = 0 => I = {}
           /\ p # 0 => p \in 1..n /\ p \in I /\ \A j \in 1..(p - 1) : j \notin I
<1>1. I \in SUBSET Nat
  OBVIOUS
<1>2. CASE I = {}
  BY <1>2
<1>3. CASE I # {}
  <2>1. p \in I /\ \A j \in I : p =< j
    BY <1>1, <1>3, MinLeast
  <2>2. p \in 1..n
    BY <2>1
  <2> QED
    BY <1>3, <2>1, <2>2
<1> QED
  BY <1>2, <1>3

LEMMA DocOfFinds ==
    ASSUME users \in Seq(User), NEW u
    PROVE  /\ DocOf(u) \in 0..Len(users)
           /\ DocOf(u) = 0 => \A n \in 1..Len(users) : users[n].who # u
           /\ DocOf(u) # 0 => /\ DocOf(u) \in 1..Len(users)
                              /\ users[DocOf(u)].who = u
                              /\ \A m \in 1..(DocOf(u) - 1) : users[m].who # u
<1> DEFINE I == {i \in 1..Len(users) : users[i].who = u}
<1>1. DocOf(u) = IF I # {} THEN Min(I) ELSE 0
  BY DEF DocOf, SelectInSeq
<1>2. Len(users) \in Nat /\ I \in SUBSET (1..Len(users))
  BY LenProperties
<1>3. \A i : i \in I <=> i \in 1..Len(users) /\ users[i].who = u
  OBVIOUS
<1> HIDE DEF I
<1>4. /\ DocOf(u) \in 0..Len(users)
      /\ DocOf(u) = 0 => I = {}
      /\ DocOf(u) # 0 => /\ DocOf(u) \in 1..Len(users) /\ DocOf(u) \in I
                         /\ \A j \in 1..(DocOf(u) - 1) : j \notin I
  BY <1>1, <1>2, FirstMatch
<1>5. DocOf(u) # 0 => \A m \in 1..(DocOf(u) - 1) : m \in 1..Len(users)
  BY <1>2, <1>4
<1> QED
  BY <1>3, <1>4, <1>5

LEMMA DocAtFinds ==
    ASSUME users \in Seq(User), NEW d
    PROVE  /\ DocAt(d) \in 0..Len(users)
           /\ DocAt(d) = 0 => \A n \in 1..Len(users) : users[n].id # d
           /\ DocAt(d) # 0 => DocAt(d) \in 1..Len(users) /\ users[DocAt(d)].id = d
<1> DEFINE I == {i \in 1..Len(users) : users[i].id = d}
<1>1. DocAt(d) = IF I # {} THEN Min(I) ELSE 0
  BY DEF DocAt, SelectInSeq
<1>2. Len(users) \in Nat /\ I \in SUBSET (1..Len(users))
  BY LenProperties
<1>3. \A i : i \in I <=> i \in 1..Len(users) /\ users[i].id = d
  OBVIOUS
<1> HIDE DEF I
<1> QED
  BY <1>1, <1>2, <1>3, FirstMatch

LEMMA DocWithEmailFinds ==
    ASSUME users \in Seq(User), NEW e
    PROVE  DocWithEmail(e) \in 0..Len(users)
<1> DEFINE I == {i \in 1..Len(users) : users[i].email = e}
<1>1. DocWithEmail(e) = IF I # {} THEN Min(I) ELSE 0
  BY DEF DocWithEmail, SelectInSeq
<1>2. Len(users) \in Nat /\ I \in SUBSET (1..Len(users))
  BY LenProperties
<1> HIDE DEF I
<1> QED
  BY <1>1, <1>2, FirstMatch

LEMMA IdentifierOfFinds ==
    ASSUME NEW c \in Seq(Identifier), NEW u
    PROVE  /\ IdentifierOf(c, u) \in 0..Len(c) /\ IdentifierOf(c, u) \in Nat
           /\ IdentifierOf(c, u) = 0 => \A i \in 1..Len(c) : ~(c[i].who = u /\ c[i].live)
           /\ IdentifierOf(c, u) # 0 =>
                /\ IdentifierOf(c, u) \in 1..Len(c)
                /\ c[IdentifierOf(c, u)].who = u /\ c[IdentifierOf(c, u)].live
<1> DEFINE I == {i \in 1..Len(c) : c[i].who = u /\ c[i].live}
<1>1. IdentifierOf(c, u) = IF I # {} THEN Min(I) ELSE 0
  BY DEF IdentifierOf, SelectInSeq
<1>2. Len(c) \in Nat /\ I \in SUBSET (1..Len(c))
  BY LenProperties
<1>3. \A i : i \in I <=> i \in 1..Len(c) /\ c[i].who = u /\ c[i].live
  OBVIOUS
<1> HIDE DEF I
<1> QED
  BY <1>1, <1>2, <1>3, FirstMatch

-----------------------------------------------------------------------------
(* What the manager's registration makes of its identifiers *)

Unique(c) ==
    \A i, j \in 1..Len(c) : c[i].live /\ c[j].live /\ c[i].who = c[j].who => i = j
\* d has what c has, and new live identifiers, and no user got a second live one.
Extends(c, d) ==
    /\ c \in Seq(Identifier) /\ d \in Seq(Identifier)
    /\ Len(c) =< Len(d)
    /\ \A i \in 1..Len(c) : d[i] = c[i]
    /\ \A i \in 1..Len(d) : i > Len(c) => d[i].live
    /\ Unique(c) => Unique(d)
\* Every new identifier of d is of a user in W.
NewOf(c, d, W) == \A i \in 1..Len(d) : i > Len(c) => d[i].who \in W

LEMMA LengthsAreNumbers ==
    ASSUME NEW S, NEW c \in Seq(S) PROVE Len(c) \in Nat
BY LenProperties

LEMMA ExtendsTransitive ==
    ASSUME NEW c, NEW d, NEW e, Extends(c, d), Extends(d, e) PROVE Extends(c, e)
<1>1. Len(c) \in Nat /\ Len(d) \in Nat /\ Len(e) \in Nat
  BY LengthsAreNumbers DEF Extends
<1>2. \A i \in 1..Len(c) : e[i] = c[i]
  BY <1>1 DEF Extends
<1>3. ASSUME NEW i \in 1..Len(e), i > Len(c) PROVE e[i].live
  <2>1. CASE i > Len(d)
    BY <1>3, <2>1 DEF Extends
  <2>2. CASE ~(i > Len(d))
    <3>1. i \in 1..Len(d) /\ e[i] = d[i]
      BY <1>1, <2>2 DEF Extends
    <3> QED
      BY <1>3, <3>1 DEF Extends
  <2> QED
    BY <2>1, <2>2
<1> QED
  BY <1>1, <1>2, <1>3 DEF Extends

LEMMA RegisteredGives ==
    ASSUME NEW c \in Seq(Identifier), NEW u \in Users
    PROVE  /\ Extends(c, Registered(c, u)) /\ NewOf(c, Registered(c, u), {u})
           /\ IdentifierOf(Registered(c, u), u) # 0
<1> DEFINE new == [who |-> u, email |-> u, live |-> TRUE]
           d == Registered(c, u)
<1>1. Len(c) \in Nat /\ new \in Identifier /\ new.who = u /\ new.live
  BY LenProperties DEF Identifier
<1>2. d = IF IdentifierOf(c, u) # 0 THEN c ELSE Append(c, new)
  BY DEF Registered
<1> HIDE DEF new, d
<1>3. CASE IdentifierOf(c, u) # 0
  <2>1. d = c
    BY <1>2, <1>3
  <2>2. Extends(c, c) /\ NewOf(c, c, {u})
    BY <1>1 DEF Extends, NewOf
  <2> QED
    BY <1>3, <2>1, <2>2 DEF d
<1>4. CASE IdentifierOf(c, u) = 0
  <2>1. d = Append(c, new)
    BY <1>2, <1>4
  <2>2. /\ d \in Seq(Identifier) /\ Len(d) = Len(c) + 1
        /\ \A i \in 1..Len(c) : d[i] = c[i]
        /\ d[Len(c) + 1] = new
    BY <1>1, <2>1, AppendProperties
  <2>3. \A i \in 1..Len(d) : i > Len(c) => i = Len(c) + 1 /\ d[i] = new
    BY <1>1, <2>2
  <2>4. \A i \in 1..Len(c) : ~(c[i].who = u /\ c[i].live)
    BY <1>4, IdentifierOfFinds
  <2>5. Unique(c) => Unique(d)
    BY <1>1, <2>2, <2>3, <2>4 DEF Unique
  <2>6. Extends(c, d)
    BY <1>1, <2>2, <2>3, <2>5 DEF Extends
  <2>7. NewOf(c, d, {u})
    BY <1>1, <2>3 DEF NewOf
  <2>8. IdentifierOf(d, u) # 0
    BY <1>1, <2>2, IdentifierOfFinds
  <2> QED
    BY <2>6, <2>7, <2>8 DEF d
<1> QED
  BY <1>3, <1>4

\* A user that has a live identifier keeps it when others are registered.
LEMMA IdentifierStays ==
    ASSUME NEW c, NEW d, Extends(c, d), NEW u, IdentifierOf(c, u) # 0
    PROVE  IdentifierOf(d, u) # 0
<1> DEFINE i == IdentifierOf(c, u)
<1>1. i \in 1..Len(c) /\ c[i].who = u /\ c[i].live
  BY IdentifierOfFinds DEF Extends
<1>2. i \in 1..Len(d) /\ d[i].who = u /\ d[i].live
  BY <1>1, LengthsAreNumbers DEF Extends
<1> HIDE DEF i
<1> QED
  BY <1>2, IdentifierOfFinds DEF Extends

\* f[k] is what the manager has after the first k rows of a sheet.
AfterRows(c, rows, n, f) ==
    /\ f \in [0..n -> Seq(Identifier)]
    /\ f[0] = c
    /\ \A k \in 1..n : f[k] = Registered(f[k - 1], rows[k])

LEMMA AfterRowsExists ==
    ASSUME NEW c \in Seq(Identifier), NEW rows \in Seq(Users)
    PROVE  \E f : AfterRows(c, rows, Len(rows), f)
<1> DEFINE S == {n \in Nat : n =< Len(rows) => \E f : AfterRows(c, rows, n, f)}
<1>1. Len(rows) \in Nat /\ \A k \in 1..Len(rows) : rows[k] \in Users
  BY LenProperties, ElementOfSeq
<1>2. 0 \in S
  <2>1. AfterRows(c, rows, 0, [k \in 0..0 |-> c])
    BY DEF AfterRows
  <2> QED
    BY <2>1
<1>3. ASSUME NEW n \in S PROVE n + 1 \in S
  <2> SUFFICES ASSUME n + 1 =< Len(rows) PROVE \E f : AfterRows(c, rows, n + 1, f)
    OBVIOUS
  <2>1. n \in Nat /\ n + 1 \in 1..Len(rows)
    BY <1>1
  <2>2. PICK f : AfterRows(c, rows, n, f)
    BY <1>1
  <2> DEFINE new == Registered(f[n], rows[n + 1])
             g == [k \in 0..(n + 1) |-> IF k = n + 1 THEN new ELSE f[k]]
  <2>3. f[n] \in Seq(Identifier) /\ rows[n + 1] \in Users
    BY <1>1, <2>1, <2>2 DEF AfterRows
  <2>4. new \in Seq(Identifier)
    BY <2>3, RegisteredGives DEF Extends
  <2> HIDE DEF new
  <2>5. g \in [0..(n + 1) -> Seq(Identifier)] /\ g[0] = c
    BY <2>1, <2>2, <2>4 DEF AfterRows
  <2>6. ASSUME NEW k \in 1..(n + 1) PROVE g[k] = Registered(g[k - 1], rows[k])
    <3>1. CASE k = n + 1
      <4>1. g[k] = new /\ g[k - 1] = f[n]
        BY <2>1, <3>1
      <4> QED
        BY <3>1, <4>1 DEF new
    <3>2. CASE k # n + 1
      <4>1. k \in 1..n /\ g[k] = f[k] /\ g[k - 1] = f[k - 1]
        BY <2>1, <3>2
      <4> QED
        BY <2>2, <4>1 DEF AfterRows
    <3> QED
      BY <3>1, <3>2
  <2>7. AfterRows(c, rows, n + 1, g)
    BY <2>5, <2>6 DEF AfterRows
  <2> QED
    BY <2>7
<1>4. S = Nat
  <2>1. S \in SUBSET Nat
    OBVIOUS
  <2> HIDE DEF S
  <2> QED
    BY <1>2, <1>3, <2>1, NatInductiveSet
<1> QED
  BY <1>1, <1>4

\* A sheet registers its users one by one: in the end each of them has a live
\* identifier, old ones are as they were, and new ones are of these users.
LEMMA AllRegisteredGives ==
    ASSUME NEW c \in Seq(Identifier), NEW rows \in Seq(Users)
    PROVE  LET d == AllRegistered(c, rows) IN
           /\ Extends(c, d)
           /\ NewOf(c, d, {rows[k] : k \in 1..Len(rows)})
           /\ \A k \in 1..Len(rows) : IdentifierOf(d, rows[k]) # 0
<1> DEFINE n == Len(rows)
           Recurses(h) ==
               h = [k \in 0..n |-> IF k = 0 THEN c ELSE Registered(h[k - 1], rows[k])]
           after == CHOOSE h : Recurses(h)
           W == {rows[k] : k \in 1..n}
<1>1. n \in Nat /\ \A k \in 1..n : rows[k] \in Users
  BY LenProperties, ElementOfSeq
<1>2. Recurses(after)
  <2>1. PICK f : AfterRows(c, rows, n, f)
    BY AfterRowsExists
  <2>2. Recurses(f)
    BY <1>1, <2>1 DEF AfterRows
  <2> QED
    BY <2>2
<1>3. AllRegistered(c, rows) = after[n]
  BY DEF AllRegistered
<1>4. /\ after[0] = c
      /\ \A k \in 1..n : after[k] = Registered(after[k - 1], rows[k])
  <2>1. after = [k \in 0..n |-> IF k = 0 THEN c ELSE Registered(after[k - 1], rows[k])]
    BY <1>2
  <2> HIDE DEF after
  <2>2. \A k \in 0..n : after[k] = IF k = 0 THEN c ELSE Registered(after[k - 1], rows[k])
    BY <2>1
  <2> QED
    BY <1>1, <2>2
<1> HIDE DEF after
<1> DEFINE Good(k) == /\ Extends(c, after[k])
                      /\ NewOf(c, after[k], W)
                      /\ \A j \in 1..k : IdentifierOf(after[k], rows[j]) # 0
           S == {k \in Nat : k =< n => Good(k)}
<1>5. 0 \in S
  <2>1. Extends(c, c) /\ NewOf(c, c, W)
    BY LengthsAreNumbers DEF Extends, NewOf
  <2>2. Good(0)
    BY <1>4, <2>1
  <2> QED
    BY <2>2
<1>6. ASSUME NEW k \in S PROVE k + 1 \in S
  <2> SUFFICES ASSUME k + 1 =< n PROVE Good(k + 1)
    BY <1>6
  <2>1. k \in Nat /\ k =< n /\ k + 1 \in 1..n
    BY <1>1
  <2>2. Good(k)
    BY <1>6, <2>1
  <2> DEFINE b == after[k]
             d == after[k + 1]
             u == rows[k + 1]
  <2>3. d = Registered(b, u) /\ u \in Users /\ b \in Seq(Identifier)
    <3>1. after[k + 1] = Registered(after[(k + 1) - 1], rows[k + 1])
      BY <1>4, <2>1
    <3>2. (k + 1) - 1 = k
      BY <2>1
    <3> QED
      BY <1>1, <2>1, <2>2, <3>1, <3>2 DEF Extends
  <2>4. Extends(b, d) /\ NewOf(b, d, {u}) /\ IdentifierOf(d, u) # 0
    BY <2>3, RegisteredGives
  <2>5. Extends(c, d)
    BY <2>2, <2>4, ExtendsTransitive
  <2>6. NewOf(c, d, W)
    <3> SUFFICES ASSUME NEW i \in 1..Len(d), i > Len(c) PROVE d[i].who \in W
      BY DEF NewOf
    <3>1. CASE i > Len(b)
      BY <2>1, <2>4, <3>1 DEF NewOf
    <3>2. CASE ~(i > Len(b))
      <4>1. Len(b) \in Nat /\ i \in 1..Len(b)
        BY <2>3, <3>2, LengthsAreNumbers
      <4>2. d[i] = b[i]
        BY <2>4, <4>1 DEF Extends
      <4> QED
        BY <2>2, <4>1, <4>2 DEF NewOf
    <3> QED
      BY <3>1, <3>2
  <2>7. ASSUME NEW j \in 1..(k + 1) PROVE IdentifierOf(d, rows[j]) # 0
    <3>1. CASE j = k + 1
      BY <2>4, <3>1
    <3>2. CASE j # k + 1
      <4>1. j \in 1..k
        BY <2>1, <3>2
      <4> HIDE DEF b, d
      <4>2. IdentifierOf(b, rows[j]) # 0
        BY <2>2, <4>1 DEF b
      <4> QED
        BY <2>4, <4>2, IdentifierStays
    <3> QED
      BY <3>1, <3>2
  <2> QED
    BY <2>5, <2>6, <2>7
<1>7. S = Nat
  <2>1. S \in SUBSET Nat
    OBVIOUS
  <2> HIDE DEF S
  <2> QED
    BY <1>5, <1>6, <2>1, NatInductiveSet
<1>8. Good(n)
  <2>1. n \in S
    BY <1>1, <1>7
  <2>2. n =< n
    BY <1>1
  <2> QED
    BY <2>1, <2>2
<1> QED
  BY <1>3, <1>8
-----------------------------------------------------------------------------
(* What the steps do to the user collection *)

\* The documents stay; that at p, if p is one of their places, gets identifier i.
Rewrites(p, i) ==
    /\ users' \in Seq(User) /\ nextDoc' = nextDoc
    /\ Len(users') = Len(users)
    /\ \A n \in 1..Len(users) :
          /\ users'[n].id = users[n].id /\ users'[n].who = users[n].who
          /\ users'[n].idf = IF n = p THEN i ELSE users[n].idf
KeepsUsers == Rewrites(0, 0)
\* The documents stay, but somebody's internal id changes.
Renames ==
    /\ Astray'
    /\ users' \in Seq(User) /\ nextDoc' = nextDoc
    /\ Len(users') = Len(users)
    /\ \A n \in 1..Len(users) : users'[n].id = users[n].id /\ users'[n].idf = users[n].idf
\* A new document of user u, with identifier i, comes last.
Adds(u, i) ==
    /\ users' \in Seq(User) /\ nextDoc' = nextDoc + 1
    /\ Len(users') = Len(users) + 1
    /\ \A n \in 1..Len(users) : users'[n] = users[n]
    /\ users'[Len(users) + 1].id = nextDoc + 1
    /\ users'[Len(users) + 1].who = u
    /\ users'[Len(users) + 1].idf = i
\* The document at p goes, and the later ones move up.
Drops(p) ==
    /\ users' \in Seq(User) /\ nextDoc' = nextDoc
    /\ p \in 1..Len(users) /\ Len(users') = Len(users) - 1
    /\ \A n \in 1..Len(users') : users'[n] = users[IF n < p THEN n ELSE n + 1]
UsersMove ==
    \/ \E p, i : Rewrites(p, i)
    \/ Renames
    \/ \E u, i : Adds(u, i)
    \/ \E p : Drops(p)

LEMMA UserFields ==
    ASSUME users \in Seq(User)
    PROVE  /\ Len(users) \in Nat /\ DOMAIN users = 1..Len(users)
           /\ \A n \in 1..Len(users) :
                 /\ users[n] \in User
                 /\ users[n].id \in Nat /\ users[n].who \in Users
                 /\ users[n].email \in Users /\ users[n].idf \in Nat
<1>1. \A n \in 1..Len(users) : users[n] \in User
  BY ElementOfSeq
<1> QED
  BY <1>1, LenProperties DEF User

LEMMA SameUsers ==
    ASSUME users \in Seq(User), users' = users, nextDoc' = nextDoc PROVE KeepsUsers
BY UserFields DEF KeepsUsers, Rewrites

LEMMA DocumentReplaced ==
    ASSUME users \in Seq(User), NEW p \in 1..Len(users), NEW d \in User,
           users' = [users EXCEPT ![p] = d], nextDoc' = nextDoc,
           d.id = users[p].id, d.who = users[p].who
    PROVE  Rewrites(p, d.idf)
BY ExceptSeq, UserFields DEF Rewrites

LEMMA EmailSet ==
    ASSUME users \in Seq(User), NEW p \in 1..Len(users), NEW e \in Users,
           users' \in {[users EXCEPT ![p].email = e],
                       [users EXCEPT ![p].who = users[p].who, ![p].email = e]},
           nextDoc' = nextDoc
    PROVE  KeepsUsers
<1> DEFINE d == [users[p] EXCEPT !.email = e]
<1>1. users[p] \in User
  BY UserFields
<1>2. d \in User /\ d.id = users[p].id /\ d.who = users[p].who /\ d.idf = users[p].idf
  BY <1>1 DEF User
<1>3. users' = [users EXCEPT ![p] = d]
  <2>1. CASE users' = [users EXCEPT ![p].email = e]
    BY <2>1
  <2>2. CASE users' = [users EXCEPT ![p].who = users[p].who, ![p].email = e]
    <3>1. [users EXCEPT ![p].who = users[p].who] = users
      BY <1>1, UserFields DEF User
    <3> QED
      BY <2>2, <3>1
  <2> QED
    BY <2>1, <2>2
<1> HIDE DEF d
<1>4. Rewrites(p, d.idf)
  BY <1>2, <1>3, DocumentReplaced
<1> QED
  BY <1>2, <1>4, UserFields DEF KeepsUsers, Rewrites

LEMMA DocumentChanged ==
    ASSUME users \in Seq(User), NEW p \in 1..Len(users), NEW d \in User,
           users' = [users EXCEPT ![p] = d], nextDoc' = nextDoc,
           d.id = users[p].id, d.idf = users[p].idf, Astray'
    PROVE  Renames
BY ExceptSeq, UserFields DEF Renames

LEMMA DocumentRenamed ==
    ASSUME users \in Seq(User), NEW p \in 1..Len(users), NEW w \in Users, NEW e \in Users,
           users' = [users EXCEPT ![p].who = w, ![p].email = e], nextDoc' = nextDoc, Astray'
    PROVE  Renames
<1> DEFINE d == [users[p] EXCEPT !.who = w, !.email = e]
<1>1. users[p] \in User
  BY UserFields
<1>2. d \in User /\ d.id = users[p].id /\ d.idf = users[p].idf
  BY <1>1 DEF User
<1>3. users' = [users EXCEPT ![p] = d]
  BY UserFields
<1> HIDE DEF d
<1> QED
  BY <1>2, <1>3, DocumentChanged

LEMMA IdentifierSet ==
    ASSUME users \in Seq(User), NEW p \in 1..Len(users), NEW i \in Nat,
           users' = [users EXCEPT ![p].idf = i], nextDoc' = nextDoc
    PROVE  Rewrites(p, i)
<1> DEFINE d == [users[p] EXCEPT !.idf = i]
<1>1. users[p] \in User
  BY UserFields
<1>2. d \in User /\ d.id = users[p].id /\ d.who = users[p].who /\ d.idf = i
  BY <1>1 DEF User
<1>3. users' = [users EXCEPT ![p] = d]
  OBVIOUS
<1> HIDE DEF d
<1> QED
  BY <1>2, <1>3, DocumentReplaced

LEMMA DocumentAdded ==
    ASSUME users \in Seq(User), nextDoc \in Nat, NEW u \in Users, NEW i \in Nat,
           users' = Added(u, i), nextDoc' = nextDoc + 1
    PROVE  Adds(u, i)
<1> DEFINE d == [id |-> nextDoc + 1, who |-> u, email |-> u, idf |-> i]
<1>1. d \in User /\ d.id = nextDoc + 1 /\ d.who = u /\ d.idf = i
  BY DEF User
<1>2. users' = Append(users, d)
  BY DEF Added
<1> HIDE DEF d
<1> QED
  BY <1>1, <1>2, AppendProperties, UserFields DEF Adds

LEMMA RemovedAt ==
    ASSUME NEW S, NEW q \in Seq(S), NEW p \in 1..Len(q)
    PROVE  /\ RemoveAt(q, p) \in Seq(S)
           /\ Len(RemoveAt(q, p)) = Len(q) - 1
           /\ \A n \in 1..(Len(q) - 1) :
                 RemoveAt(q, p)[n] = q[IF n < p THEN n ELSE n + 1]
<1> DEFINE n == Len(q)
           a == SubSeq(q, 1, p - 1)
           b == SubSeq(q, p + 1, n)
<1>1. n \in Nat /\ p \in 1..n /\ \A i \in 1..n : q[i] \in S
  BY LenProperties, ElementOfSeq
<1>2. RemoveAt(q, p) = a \o b
  BY DEF RemoveAt
<1> HIDE DEF n
<1>3. /\ p - 1 \in Int /\ p + 1 \in Int /\ n \in Int
      /\ \A i \in 1..(p - 1) : q[i] \in S
      /\ \A i \in (p + 1)..n : q[i] \in S
  BY <1>1
<1>4. /\ a \in Seq(S) /\ Len(a) = p - 1
      /\ \A i \in 1..(p - 1) : a[i] = q[i]
  <2>1. /\ a \in Seq(S) /\ Len(a) = IF 1 =< p - 1 THEN (p - 1) - 1 + 1 ELSE 0
        /\ \A i \in 1..((p - 1) - 1 + 1) : a[i] = q[1 + i - 1]
    BY <1>3, SubSeqProperties
  <2> HIDE DEF a
  <2> QED
    BY <1>1, <2>1
<1>5. /\ b \in Seq(S) /\ Len(b) = n - p
      /\ \A i \in 1..(n - p) : b[i] = q[p + i]
  <2>1. /\ b \in Seq(S)
        /\ Len(b) = IF p + 1 =< n THEN n - (p + 1) + 1 ELSE 0
        /\ \A i \in 1..(n - (p + 1) + 1) : b[i] = q[(p + 1) + i - 1]
    BY <1>3, SubSeqProperties
  <2> HIDE DEF b
  <2> QED
    BY <1>1, <2>1
<1> HIDE DEF a, b
<1>6. /\ a \o b \in Seq(S)
      /\ Len(a \o b) = Len(a) + Len(b)
      /\ \A i \in 1..(Len(a) + Len(b)) :
            (a \o b)[i] = IF i =< Len(a) THEN a[i] ELSE b[i - Len(a)]
  BY <1>4, <1>5, ConcatProperties
<1>7. Len(a) + Len(b) = n - 1
  BY <1>1, <1>4, <1>5
<1>8. ASSUME NEW i \in 1..(n - 1)
      PROVE  (a \o b)[i] = q[IF i < p THEN i ELSE i + 1]
  <2>1. CASE i < p
    <3>1. i \in 1..(p - 1) /\ i =< Len(a) /\ i \in 1..(Len(a) + Len(b))
      BY <1>1, <1>4, <1>7, <2>1
    <3>2. (a \o b)[i] = a[i]
      BY <1>6, <3>1
    <3> QED
      BY <1>4, <2>1, <3>1, <3>2
  <2>2. CASE ~(i < p)
    <3>1. i - (p - 1) \in 1..(n - p) /\ p + (i - (p - 1)) = i + 1
          /\ ~(i =< Len(a)) /\ i \in 1..(Len(a) + Len(b))
      BY <1>1, <1>4, <1>7, <2>2
    <3>2. (a \o b)[i] = b[i - (p - 1)]
      BY <1>4, <1>6, <3>1
    <3> QED
      BY <1>5, <2>2, <3>1, <3>2
  <2> QED
    BY <2>1, <2>2
<1> QED
  BY <1>2, <1>6, <1>7, <1>8 DEF n

LEMMA DocumentDropped ==
    ASSUME users \in Seq(User), NEW d, users' = Without(d), nextDoc' = nextDoc
    PROVE  IF DocAt(d) = 0 THEN KeepsUsers ELSE Drops(DocAt(d))
<1>1. CASE DocAt(d) = 0
  BY <1>1, SameUsers DEF Without
<1>2. CASE DocAt(d) # 0
  <2> DEFINE p == DocAt(d)
  <2>1. p \in 1..Len(users) /\ users' = RemoveAt(users, p)
    BY <1>2, DocAtFinds DEF Without
  <2> HIDE DEF p
  <2>2. Drops(p)
    BY <2>1, RemovedAt DEF Drops
  <2> QED
    BY <1>2, <2>2 DEF p
<1> QED
  BY <1>1, <1>2

\* Each document was there before, at a place q(n) that keeps the order, or is new.
LEMMA WhereFrom ==
    ASSUME StoresTyped, UsersMove, NEW n \in 1..Len(users')
    PROVE  \/ /\ users'[n].id = nextDoc + 1 /\ nextDoc' = nextDoc + 1
              /\ n = Len(users) + 1
           \/ \E m \in 1..Len(users) :
                 /\ users'[n].id = users[m].id
                 /\ Astray' \/ users'[n].who = users[m].who
<1>1. Len(users) \in Nat
  BY UserFields DEF StoresTyped
<1>2. ASSUME NEW p, NEW i, Rewrites(p, i)
      PROVE  \E m \in 1..Len(users) :
                 /\ users'[n].id = users[m].id
                 /\ Astray' \/ users'[n].who = users[m].who
  BY <1>2 DEF Rewrites
<1>3. ASSUME NEW u, NEW i, Adds(u, i), n # Len(users) + 1
      PROVE  \E m \in 1..Len(users) :
                 /\ users'[n].id = users[m].id
                 /\ Astray' \/ users'[n].who = users[m].who
  <2>1. n \in 1..Len(users)
    BY <1>1, <1>3 DEF Adds
  <2> QED
    BY <1>3, <2>1 DEF Adds
<1>4. ASSUME NEW p, Drops(p)
      PROVE  \E m \in 1..Len(users) :
                 /\ users'[n].id = users[m].id
                 /\ Astray' \/ users'[n].who = users[m].who
  <2> DEFINE m == IF n < p THEN n ELSE n + 1
  <2>1. m \in 1..Len(users)
    BY <1>1, <1>4 DEF Drops
  <2>2. users'[n] = users[m]
    BY <1>4 DEF Drops
  <2> HIDE DEF m
  <2> QED
    BY <2>1, <2>2
<1>5. ASSUME Renames
      PROVE  \E m \in 1..Len(users) :
                 /\ users'[n].id = users[m].id
                 /\ Astray' \/ users'[n].who = users[m].who
  BY <1>5 DEF Renames
<1> QED
  BY <1>2, <1>3, <1>4, <1>5 DEF UsersMove, Adds

LEMMA CountGrows ==
    ASSUME StoresTyped, UsersMove PROVE nextDoc' \in Nat /\ nextDoc =< nextDoc'
BY DEF StoresTyped, UsersMove, Rewrites, Renames, Adds, Drops

LEMMA DocumentsStep ==
    ASSUME StoresTyped, DocumentsDiffer, UsersMove PROVE DocumentsDiffer'
<1>1. Len(users) \in Nat /\ nextDoc \in Nat /\ nextDoc' \in Nat /\ nextDoc =< nextDoc'
      /\ \A m \in 1..Len(users) : users[m].id \in 1..nextDoc
  BY UserFields, CountGrows DEF StoresTyped, DocumentsDiffer
<1>2. \A n \in 1..Len(users') : users'[n].id \in 1..nextDoc'
  <2> TAKE n \in 1..Len(users')
  <2> QED
    BY <1>1, WhereFrom
<1>3. ASSUME NEW m \in 1..Len(users'), NEW n \in 1..Len(users'),
             users'[m].id = users'[n].id
      PROVE  m = n
  <2>1. ASSUME NEW p, NEW i, Rewrites(p, i) PROVE m = n
    <3>1. users[m].id = users[n].id /\ m \in 1..Len(users) /\ n \in 1..Len(users)
      BY <1>3, <2>1 DEF Rewrites
    <3> QED
      BY <3>1 DEF DocumentsDiffer
  <2>2. ASSUME NEW u, NEW i, Adds(u, i) PROVE m = n
    <3>1. \A k \in 1..Len(users') :
              \/ k = Len(users) + 1 /\ users'[k].id = nextDoc + 1
              \/ k \in 1..Len(users) /\ users'[k].id = users[k].id
      BY <1>1, <2>2 DEF Adds
    <3>2. \A k \in 1..Len(users) : users[k].id # nextDoc + 1
      BY <1>1
    <3> QED
      BY <1>3, <3>1, <3>2 DEF DocumentsDiffer
  <2>3. ASSUME NEW p, Drops(p) PROVE m = n
    <3> DEFINE q(k) == IF k < p THEN k ELSE k + 1
    <3>1. q(m) \in 1..Len(users) /\ q(n) \in 1..Len(users)
      BY <1>1, <2>3 DEF Drops
    <3>2. users[q(m)].id = users[q(n)].id
      BY <1>3, <2>3 DEF Drops
    <3>3. q(m) = q(n)
      <4> HIDE DEF q
      <4> QED
        BY <3>1, <3>2 DEF DocumentsDiffer
    <3>4. p \in Int /\ m \in Int /\ n \in Int
      BY <2>3 DEF Drops
    <3> QED
      BY <3>3, <3>4
  <2>4. ASSUME Renames PROVE m = n
    <3>1. users[m].id = users[n].id /\ m \in 1..Len(users) /\ n \in 1..Len(users)
      BY <1>3, <2>4 DEF Renames
    <3> QED
      BY <3>1 DEF DocumentsDiffer
  <2> QED
    BY <2>1, <2>2, <2>3, <2>4 DEF UsersMove
<1> QED
  BY <1>2, <1>3 DEF DocumentsDiffer
-----------------------------------------------------------------------------
(* What the steps do to the manager's identifiers *)

\* Those that are there stay whose they are, and live, but for k, which is deleted.
Kept(k) ==
    /\ cm \in Seq(Identifier) /\ cm' \in Seq(Identifier)
    /\ Len(cm) =< Len(cm')
    /\ \A j \in 1..Len(cm) : cm'[j].who = cm[j].who
    /\ \A j \in 1..Len(cm) : cm'[j].live => cm[j].live
    /\ \A j \in 1..Len(cm) : cm[j].live /\ j # k => cm'[j].live
    /\ \A j \in 1..Len(cm') : j > Len(cm) => cm'[j].live
    /\ OneLiveEach => OneLiveEach'
    /\ Astray => Astray'
SameIdentifiers == Kept(0) /\ Len(cm') = Len(cm)

LEMMA IdentifierFields ==
    ASSUME cm \in Seq(Identifier)
    PROVE  /\ Len(cm) \in Nat
           /\ \A j \in 1..Len(cm) :
                 cm[j] \in Identifier /\ cm[j].who \in Users
<1>1. \A j \in 1..Len(cm) : cm[j] \in Identifier
  BY ElementOfSeq
<1> QED
  BY <1>1, LenProperties DEF Identifier

LEMMA IdentifiersStay ==
    ASSUME cm \in Seq(Identifier), cm' = cm, rough \subseteq rough' PROVE SameIdentifiers
BY IdentifierFields DEF SameIdentifiers, Kept, OneLiveEach, Astray

LEMMA IdentifierReplaced ==
    ASSUME cm \in Seq(Identifier), NEW p \in 1..Len(cm), NEW d \in Identifier,
           cm' = [cm EXCEPT ![p] = d], d.who = cm[p].who, d.live => cm[p].live,
           rough \subseteq rough'
    PROVE  Len(cm') = Len(cm) /\ cm'[p] = d /\ Kept(p) /\ ((cm[p].live => d.live) => Kept(0))
<1>1. /\ cm' \in Seq(Identifier) /\ Len(cm') = Len(cm) /\ Len(cm) \in Nat
      /\ \A j \in 1..Len(cm) : cm'[j] = IF j = p THEN d ELSE cm[j]
  BY ExceptSeq, IdentifierFields
<1>2. /\ \A j \in 1..Len(cm) : cm'[j].who = cm[j].who
      /\ \A j \in 1..Len(cm) : cm'[j].live => cm[j].live
      /\ \A j \in 1..Len(cm) : cm[j].live /\ j # p => cm'[j].live
  BY <1>1
<1>3. OneLiveEach => OneLiveEach'
  BY <1>1, <1>2 DEF OneLiveEach
<1>4. Kept(p)
  BY <1>1, <1>2, <1>3 DEF Kept, Astray
<1>5. (cm[p].live => d.live) => Kept(0)
  BY <1>1, <1>2, <1>4 DEF Kept
<1> QED
  BY <1>1, <1>4, <1>5

LEMMA IdentifierEmailSet ==
    ASSUME cm \in Seq(Identifier), NEW p \in 1..Len(cm), NEW e \in Users,
           cm' = [cm EXCEPT ![p].email = e], rough \subseteq rough'
    PROVE  SameIdentifiers
<1> DEFINE d == [cm[p] EXCEPT !.email = e]
<1>1. cm[p] \in Identifier
  BY IdentifierFields
<1>2. d \in Identifier /\ d.who = cm[p].who /\ d.live = cm[p].live
  BY <1>1 DEF Identifier
<1>3. cm' = [cm EXCEPT ![p] = d]
  OBVIOUS
<1> HIDE DEF d
<1> QED
  BY <1>2, <1>3, IdentifierReplaced DEF SameIdentifiers

LEMMA IdentifierKilled ==
    ASSUME cm \in Seq(Identifier), NEW p \in 1..Len(cm),
           cm' = [cm EXCEPT ![p].live = FALSE], rough \subseteq rough'
    PROVE  Kept(p) /\ Len(cm') = Len(cm) /\ ~cm'[p].live
<1> DEFINE d == [cm[p] EXCEPT !.live = FALSE]
<1>1. cm[p] \in Identifier
  BY IdentifierFields
<1>2. d \in Identifier /\ d.who = cm[p].who /\ ~d.live
  BY <1>1 DEF Identifier
<1>3. cm' = [cm EXCEPT ![p] = d]
  OBVIOUS
<1> HIDE DEF d
<1>4. Len(cm') = Len(cm) /\ cm'[p] = d /\ Kept(p)
  BY <1>2, <1>3, IdentifierReplaced
<1> QED
  BY <1>2, <1>4

LEMMA IdentifiersAdded == ASSUME Extends(cm, cm'), rough \subseteq rough' PROVE Kept(0)
BY DEF Extends, Kept, Unique, OneLiveEach, Astray

\* Identifier i is one of user u after the step.
OwnedNext(i, u) == i \in 1..Len(cm') /\ (Astray' \/ cm'[i].who = u)

LEMMA OwnedStep ==
    ASSUME NEW k, Kept(k), NEW i, NEW u, Owned(i, u) PROVE OwnedNext(i, u)
<1>1. Len(cm) \in Nat /\ Len(cm') \in Nat
  BY LengthsAreNumbers DEF Kept
<1> QED
  BY <1>1 DEF Kept, Owned, OwnedNext

\* Document d, if it is there after the step, is one of user u.
NamesNext(d, u) ==
    /\ d \in 1..nextDoc'
    /\ Astray' \/ \A n \in 1..Len(users') : users'[n].id = d => users'[n].who = u

LEMMA NamesStep ==
    ASSUME StoresTyped, UsersMove, NEW k, Kept(k), NEW d, NEW u, Names(d, u)
    PROVE  NamesNext(d, u)
<1>1. d \in 1..nextDoc /\ nextDoc \in Nat /\ nextDoc' \in Nat /\ nextDoc =< nextDoc'
  BY CountGrows DEF StoresTyped, Names
<1>2. ASSUME ~Astray', NEW n \in 1..Len(users'), users'[n].id = d PROVE users'[n].who = u
  <2>1. users'[n].id # nextDoc + 1
    BY <1>1, <1>2
  <2>2. PICK m \in 1..Len(users) :
            users'[n].id = users[m].id /\ (Astray' \/ users'[n].who = users[m].who)
    BY <2>1, WhereFrom
  <2>3. ~Astray
    BY <1>2 DEF Kept
  <2> QED
    BY <1>2, <2>2, <2>3 DEF Names
<1> QED
  BY <1>1, <1>2 DEF NamesNext

-----------------------------------------------------------------------------
(* Whose identifiers and documents are: the part of the invariant that holds  *)
(* in every state                                                            *)

\* A new document of user u comes with identifier i: none, or one of that user, who had
\* no other document and whose identifier lives, unless something disturbed that.
Comes(u, i) ==
    /\ Adds(u, i)
    /\ i # NoIdentifier =>
          /\ OwnedNext(i, u)
          /\ Undisturbed' => cm'[i].live /\ \A n \in 1..Len(users) : users[n].who # u
NewSave(v) == v.idf \in 1..Len(cm') /\ NamesNext(v.doc, cm'[v.idf].who)

LEMMA UsersOwnKept ==
    ASSUME StoresTyped, UsersOwn, NEW k, Kept(k),
           KeepsUsers \/ (\E u, i : Comes(u, i)) \/ (\E p : Drops(p))
    PROVE  UsersOwn'
<1>1. Len(users) \in Nat
  BY UserFields DEF StoresTyped
<1>2. SUFFICES ASSUME NEW n \in 1..Len(users'), users'[n].idf # NoIdentifier
               PROVE  OwnedNext(users'[n].idf, users'[n].who)
  BY DEF UsersOwn, Owned, OwnedNext
<1>3. \/ OwnedNext(users'[n].idf, users'[n].who)
      \/ \E m \in 1..Len(users) :
            users'[n].idf = users[m].idf /\ users'[n].who = users[m].who
  <2>1. CASE KeepsUsers
    BY <1>1, <2>1 DEF KeepsUsers, Rewrites
  <2>2. ASSUME NEW u, NEW i, Comes(u, i)
        PROVE  \/ OwnedNext(users'[n].idf, users'[n].who)
               \/ \E m \in 1..Len(users) :
                     users'[n].idf = users[m].idf /\ users'[n].who = users[m].who
    <3>1. CASE n = Len(users) + 1
      BY <1>2, <2>2, <3>1 DEF Adds, Comes
    <3>2. CASE n # Len(users) + 1
      <4>1. n \in 1..Len(users)
        BY <1>1, <2>2, <3>2 DEF Adds, Comes
      <4> QED
        BY <2>2, <4>1 DEF Adds, Comes
    <3> QED
      BY <3>1, <3>2
  <2>3. ASSUME NEW p, Drops(p)
        PROVE  \E m \in 1..Len(users) :
                   users'[n].idf = users[m].idf /\ users'[n].who = users[m].who
    <3> DEFINE m == IF n < p THEN n ELSE n + 1
    <3>1. m \in 1..Len(users) /\ users'[n] = users[m]
      BY <1>1, <2>3 DEF Drops
    <3> HIDE DEF m
    <3> QED
      BY <3>1
  <2> QED
    BY <2>1, <2>2, <2>3
<1>4. PICK i, u : i = users'[n].idf /\ u = users'[n].who
  OBVIOUS
<1>5. Owned(i, u) \/ OwnedNext(i, u)
  BY <1>2, <1>3, <1>4 DEF UsersOwn
<1> QED
  BY <1>4, <1>5, OwnedStep

\* An internal id that changed parts its document from its identifier, and says so.
LEMMA UsersOwnRenamed ==
    ASSUME StoresTyped, UsersOwn, NEW k, Kept(k), Renames PROVE UsersOwn'
<1>1. SUFFICES ASSUME NEW n \in 1..Len(users'), users'[n].idf # NoIdentifier
               PROVE  OwnedNext(users'[n].idf, users'[n].who)
  BY DEF UsersOwn, Owned, OwnedNext
<1>2. n \in 1..Len(users) /\ users'[n].idf = users[n].idf
  BY DEF Renames
<1>3. PICK j, u : j = users[n].idf /\ u = users[n].who
  OBVIOUS
<1>4. OwnedNext(j, u)
  BY <1>1, <1>2, <1>3, OwnedStep DEF UsersOwn
<1> QED
  BY <1>2, <1>3, <1>4 DEF OwnedNext, Renames

LEMMA UsersOwnSet ==
    ASSUME StoresTyped, UsersOwn, NEW k, Kept(k), NEW p \in 1..Len(users), NEW i,
           Rewrites(p, i), OwnedNext(i, users[p].who)
    PROVE  UsersOwn'
<1>2. SUFFICES ASSUME NEW n \in 1..Len(users'), users'[n].idf # NoIdentifier
               PROVE  OwnedNext(users'[n].idf, users'[n].who)
  BY DEF UsersOwn, Owned, OwnedNext
<1>3. CASE n = p
  BY <1>3 DEF Rewrites, OwnedNext
<1>4. CASE n # p
  <2>1. n \in 1..Len(users) /\ users'[n].idf = users[n].idf /\ users'[n].who = users[n].who
    BY <1>4 DEF Rewrites
  <2>2. PICK j, u : j = users'[n].idf /\ u = users'[n].who
    OBVIOUS
  <2>3. Owned(j, u)
    BY <1>2, <2>1, <2>2 DEF UsersOwn
  <2> QED
    BY <2>2, <2>3, OwnedStep
<1> QED
  BY <1>3, <1>4

LEMMA SavesOwnStep ==
    ASSUME StoresTyped, SavesOwn, UsersMove, NEW k, Kept(k),
           \A v \in saves' : v \in saves \/ NewSave(v)
    PROVE  SavesOwn'
<1> SUFFICES ASSUME NEW v \in saves' PROVE NewSave(v)
  BY DEF SavesOwn, NewSave, Names, NamesNext
<1>1. CASE v \in saves
  <2>1. PICK d, u, i : d = v.doc /\ i = v.idf /\ u = cm[i].who
    OBVIOUS
  <2>2. Owned(i, u) /\ Names(d, u)
    BY <1>1, <2>1 DEF SavesOwn, Owned
  <2>3. OwnedNext(i, u) /\ NamesNext(d, u)
    BY <2>2, OwnedStep, NamesStep
  <2> QED
    BY <2>1, <2>2, <2>3 DEF NewSave, OwnedNext, Owned, Kept
<1> QED
  BY <1>1

LEMMA HoldsStep ==
    ASSUME StoresTyped, UsersMove, NEW k, Kept(k), NEW r, Holds(r) PROVE Holds(r)'
<1>1. HasDocument(r) => NamesNext(r.doc, r.who)
  BY NamesStep DEF Holds
<1>2. r.op = "app" /\ r.pc = "save" => OwnedNext(r.idf, r.who)
  BY OwnedStep DEF Holds
<1>3. r.op = "consent" /\ r.idf # NoIdentifier => OwnedNext(r.idf, r.who)
  BY OwnedStep DEF Holds
<1>4. HasAnswer(r) => \A j \in 1..Len(r.rows) : OwnedNext(r.ids[r.rows[j]], r.rows[j])
  BY OwnedStep DEF Holds
<1> QED
  BY <1>1, <1>2, <1>3, <1>4 DEF Holds, HasDocument, HasAnswer, Names, NamesNext, Owned,
     OwnedNext

LEMMA IdleHolds == Holds(Idle)' /\ ~(Idle.op \in UserOps)
BY DEF Holds, Idle, UserOps, HasDocument, HasAnswer

\* The other requests hold what they held.
LEMMA RequestsHoldStep ==
    ASSUME StoresTyped, RequestsHold, UsersMove, NEW k, Kept(k),
           NEW s, NEW r, Holds(r)', DOMAIN req = Handlers, Do(s, r)
    PROVE  RequestsHold'
<1> SUFFICES ASSUME NEW t \in Slots PROVE Holds(req[t])'
  BY DEF RequestsHold
<1>1. t \in DOMAIN req
  BY DEF Handlers
<1>2. PICK q : q = req'[t]
  OBVIOUS
<1>3. q = r \/ (q = req[t] /\ Holds(q))
  BY <1>1, <1>2 DEF Do, RequestsHold
<1>4. Holds(q)'
  BY <1>3, HoldsStep
<1> QED
  BY <1>2, <1>4 DEF Holds, Names, Owned, HasDocument, HasAnswer

LEMMA RequestsHoldStay ==
    ASSUME StoresTyped, RequestsHold, UsersMove, NEW k, Kept(k), req' = req
    PROVE  RequestsHold'
<1> SUFFICES ASSUME NEW t \in Slots PROVE Holds(req[t])'
  BY DEF RequestsHold
<1>2. PICK q : q = req'[t]
  OBVIOUS
<1>3. Holds(q)'
  BY <1>2, HoldsStep DEF RequestsHold
<1> QED
  BY <1>2, <1>3 DEF Holds, Names, Owned, HasDocument, HasAnswer

Own ==
    /\ StoresTyped /\ UserRequestsTyped /\ DocumentsDiffer /\ OneLiveEach
    /\ UsersOwn /\ SavesOwn /\ RequestsHold
UserSet == UserRequest \cup {Idle}

LEMMA TypedStep ==
    ASSUME UserRequestsTyped, NEW s, NEW r, r \in UserSet \/ ~(r.op \in UserOps), Do(s, r)
    PROVE  UserRequestsTyped' /\ DOMAIN req = Handlers
<1>1. DOMAIN req = Handlers
  BY DEF UserRequestsTyped
<1>2. req' = [t \in Handlers |-> req'[t]]
  BY DEF UserRequestsTyped, Do
<1>3. ASSUME NEW t \in Handlers, req'[t].op \in UserOps PROVE req'[t] \in UserRequest
  <2>1. req'[t] = r \/ req'[t] = req[t]
    BY <1>1 DEF Do
  <2>2. ~(Idle.op \in UserOps)
    BY IdleHolds
  <2> QED
    BY <1>3, <2>1, <2>2 DEF UserRequestsTyped, UserSet
<1> QED
  BY <1>1, <1>2, <1>3 DEF UserRequestsTyped

\* A step of handler s that leaves it with r.
LEMMA OwnStep ==
    ASSUME Own, StoresTyped', UsersMove, UsersOwn', NEW k, Kept(k),
           \A v \in saves' : v \in saves \/ NewSave(v),
           NEW s, NEW r, r \in UserSet, Holds(r)', Do(s, r)
    PROVE  Own'
<1>1. UserRequestsTyped' /\ DOMAIN req = Handlers
  BY TypedStep DEF Own
<1>2. DocumentsDiffer' /\ OneLiveEach' /\ SavesOwn'
  BY DocumentsStep, SavesOwnStep DEF Own, Kept
<1>3. RequestsHold'
  BY <1>1, RequestsHoldStep DEF Own
<1> QED
  BY <1>1, <1>2, <1>3 DEF Own

\* A step that leaves the handlers alone.
LEMMA OwnStay ==
    ASSUME Own, StoresTyped', UsersMove, UsersOwn', NEW k, Kept(k),
           \A v \in saves' : v \in saves \/ NewSave(v), req' = req
    PROVE  Own'
<1>1. UserRequestsTyped'
  BY DEF Own, UserRequestsTyped
<1>2. DocumentsDiffer' /\ OneLiveEach' /\ SavesOwn'
  BY DocumentsStep, SavesOwnStep DEF Own, Kept
<1>3. RequestsHold'
  BY RequestsHoldStay DEF Own
<1> QED
  BY <1>1, <1>2, <1>3 DEF Own
-----------------------------------------------------------------------------
(* What a request becomes *)

Pcs == {"insert", "login", "call", "undo", "row", "upsert", "post", "find",
        "resume", "auth", "ask", "save"}
\* r is q, but for the fields in but.
Alike(q, r, but) ==
    /\ r.op = q.op
    /\ "pc" \notin but => r.pc = q.pc
    /\ "who" \notin but => r.who = q.who
    /\ "doc" \notin but => r.doc = q.doc
    /\ "idf" \notin but => r.idf = q.idf
    /\ "rows" \notin but => r.rows = q.rows
    /\ "ids" \notin but => r.ids = q.ids
    /\ "jwt" \notin but => r.jwt = q.jwt

LEMMA RequestFields ==
    ASSUME NEW q \in UserRequest
    PROVE  /\ q.op \in UserOps /\ q.pc \in Pcs /\ q.who \in Users
           /\ q.doc \in Nat /\ q.idf \in Nat /\ q.rows \in Seq(Users)
           /\ q.ids \in [Users -> Nat]
           /\ q = [op |-> q.op, pc |-> q.pc, who |-> q.who, doc |-> q.doc, idf |-> q.idf,
                   rows |-> q.rows, ids |-> q.ids, jwt |-> q.jwt]
BY DEF UserRequest, UserOps, Pcs

LEMMA RequestMade ==
    ASSUME NEW op \in UserOps, NEW pc \in Pcs, NEW who \in Users, NEW doc \in Nat,
           NEW idf \in Nat, NEW rows \in Seq(Users), NEW ids \in [Users -> Nat],
           NEW jwt \in BOOLEAN
    PROVE  [op |-> op, pc |-> pc, who |-> who, doc |-> doc, idf |-> idf,
            rows |-> rows, ids |-> ids, jwt |-> jwt] \in UserRequest
BY DEF UserRequest, UserOps, Pcs

LEMMA JwtField == ASSUME NEW q \in UserRequest PROVE q.jwt \in BOOLEAN
BY DEF UserRequest

LEMMA SetPc ==
    ASSUME NEW q \in UserRequest, NEW x \in Pcs
    PROVE  LET r == [q EXCEPT !.pc = x] IN
           r \in UserRequest /\ r.pc = x /\ Alike(q, r, {"pc"})
<1> DEFINE r == [q EXCEPT !.pc = x]
<1>1. r = [op |-> q.op, pc |-> x, who |-> q.who, doc |-> q.doc, idf |-> q.idf,
           rows |-> q.rows, ids |-> q.ids, jwt |-> q.jwt]
  BY RequestFields
<1>2. r \in UserRequest
  BY <1>1, RequestFields, RequestMade, JwtField
<1>3. r.pc = x /\ Alike(q, r, {"pc"})
  BY <1>1 DEF Alike
<1> QED
  BY <1>2, <1>3

LEMMA SetWho ==
    ASSUME NEW q \in UserRequest, NEW x \in Users
    PROVE  LET r == [q EXCEPT !.who = x] IN
           r \in UserRequest /\ r.who = x /\ Alike(q, r, {"who"})
<1> DEFINE r == [q EXCEPT !.who = x]
<1>1. r = [op |-> q.op, pc |-> q.pc, who |-> x, doc |-> q.doc, idf |-> q.idf,
           rows |-> q.rows, ids |-> q.ids, jwt |-> q.jwt]
  BY RequestFields
<1>2. r \in UserRequest
  BY <1>1, RequestFields, RequestMade, JwtField
<1>3. r.who = x /\ Alike(q, r, {"who"})
  BY <1>1 DEF Alike
<1> QED
  BY <1>2, <1>3

LEMMA SetDoc ==
    ASSUME NEW q \in UserRequest, NEW x \in Nat
    PROVE  LET r == [q EXCEPT !.doc = x] IN
           r \in UserRequest /\ r.doc = x /\ Alike(q, r, {"doc"})
<1> DEFINE r == [q EXCEPT !.doc = x]
<1>1. r = [op |-> q.op, pc |-> q.pc, who |-> q.who, doc |-> x, idf |-> q.idf,
           rows |-> q.rows, ids |-> q.ids, jwt |-> q.jwt]
  BY RequestFields
<1>2. r \in UserRequest
  BY <1>1, RequestFields, RequestMade, JwtField
<1>3. r.doc = x /\ Alike(q, r, {"doc"})
  BY <1>1 DEF Alike
<1> QED
  BY <1>2, <1>3

LEMMA SetIdf ==
    ASSUME NEW q \in UserRequest, NEW x \in Nat
    PROVE  LET r == [q EXCEPT !.idf = x] IN
           r \in UserRequest /\ r.idf = x /\ Alike(q, r, {"idf"})
<1> DEFINE r == [q EXCEPT !.idf = x]
<1>1. r = [op |-> q.op, pc |-> q.pc, who |-> q.who, doc |-> q.doc, idf |-> x,
           rows |-> q.rows, ids |-> q.ids, jwt |-> q.jwt]
  BY RequestFields
<1>2. r \in UserRequest
  BY <1>1, RequestFields, RequestMade, JwtField
<1>3. r.idf = x /\ Alike(q, r, {"idf"})
  BY <1>1 DEF Alike
<1> QED
  BY <1>2, <1>3

LEMMA SetRows ==
    ASSUME NEW q \in UserRequest, NEW x \in Seq(Users)
    PROVE  LET r == [q EXCEPT !.rows = x] IN
           r \in UserRequest /\ r.rows = x /\ Alike(q, r, {"rows"})
<1> DEFINE r == [q EXCEPT !.rows = x]
<1>1. r = [op |-> q.op, pc |-> q.pc, who |-> q.who, doc |-> q.doc, idf |-> q.idf,
           rows |-> x, ids |-> q.ids, jwt |-> q.jwt]
  BY RequestFields
<1>2. r \in UserRequest
  BY <1>1, RequestFields, RequestMade, JwtField
<1>3. r.rows = x /\ Alike(q, r, {"rows"})
  BY <1>1 DEF Alike
<1> QED
  BY <1>2, <1>3

LEMMA SetIds ==
    ASSUME NEW q \in UserRequest, NEW x \in [Users -> Nat]
    PROVE  LET r == [q EXCEPT !.ids = x] IN
           r \in UserRequest /\ r.ids = x /\ Alike(q, r, {"ids"})
<1> DEFINE r == [q EXCEPT !.ids = x]
<1>0. q = [op |-> q.op, pc |-> q.pc, who |-> q.who, doc |-> q.doc, idf |-> q.idf,
           rows |-> q.rows, ids |-> q.ids, jwt |-> q.jwt]
  BY RequestFields
<1>1. r = [op |-> q.op, pc |-> q.pc, who |-> q.who, doc |-> q.doc, idf |-> q.idf,
           rows |-> q.rows, ids |-> x, jwt |-> q.jwt]
  BY <1>0
<1>2. r \in UserRequest
  BY <1>1, RequestFields, RequestMade, JwtField
<1>3. r.ids = x /\ Alike(q, r, {"ids"})
  BY <1>1 DEF Alike
<1> QED
  BY <1>2, <1>3

LEMMA SetJwt ==
    ASSUME NEW q \in UserRequest, NEW x \in BOOLEAN
    PROVE  LET r == [q EXCEPT !.jwt = x] IN
           r \in UserRequest /\ r.jwt = x /\ Alike(q, r, {"jwt"})
<1> DEFINE r == [q EXCEPT !.jwt = x]
<1>1. r = [op |-> q.op, pc |-> q.pc, who |-> q.who, doc |-> q.doc, idf |-> q.idf,
           rows |-> q.rows, ids |-> q.ids, jwt |-> x]
  BY RequestFields
<1>2. [op |-> q.op, pc |-> q.pc, who |-> q.who, doc |-> q.doc, idf |-> q.idf,
       rows |-> q.rows, ids |-> q.ids, jwt |-> x] \in UserRequest
  BY RequestFields, RequestMade
<1>3. r \in UserRequest
  BY <1>1, <1>2, Zenon
<1>4. r.jwt = x /\ Alike(q, r, {"jwt"})
  BY <1>1 DEF Alike
<1> QED
  BY <1>3, <1>4

\* A request that goes on at pc with one field, or two, changed.
WithUser(q, pc, u) == [q EXCEPT !.pc = pc, !.who = u]
WithDocument(q, pc, d) == [q EXCEPT !.pc = pc, !.doc = d]
WithIdentifier(q, pc, i) == [q EXCEPT !.pc = pc, !.idf = i]
WithAnswer(q, pc, ids) == [q EXCEPT !.pc = pc, !.ids = ids]
WithToken(q, pc, b) == [q EXCEPT !.pc = pc, !.jwt = b]
WithRows(q, rows, u) == [q EXCEPT !.pc = "row", !.rows = rows, !.who = u]

LEMMA GoesWithUser ==
    ASSUME NEW q \in UserRequest, NEW pc \in Pcs, NEW x \in Users
    PROVE  LET r == WithUser(q, pc, x) IN
           r \in UserRequest /\ r.pc = pc /\ r.who = x /\ Alike(q, r, {"pc", "who"})
<1> DEFINE p == [q EXCEPT !.pc = pc]
           r == [p EXCEPT !.who = x]
<1>1. WithUser(q, pc, x) = r
  BY DEF WithUser
<1>2. p \in UserRequest /\ p.pc = pc /\ Alike(q, p, {"pc"})
  BY SetPc
<1> HIDE DEF p
<1>3. r \in UserRequest /\ r.who = x /\ Alike(p, r, {"who"})
  BY <1>2, SetWho
<1> HIDE DEF r
<1>4. r.pc = pc /\ Alike(q, r, {"pc", "who"})
  BY <1>2, <1>3 DEF Alike
<1> QED
  BY <1>1, <1>3, <1>4

LEMMA GoesWithDocument ==
    ASSUME NEW q \in UserRequest, NEW pc \in Pcs, NEW x \in Nat
    PROVE  LET r == WithDocument(q, pc, x) IN
           r \in UserRequest /\ r.pc = pc /\ r.doc = x /\ Alike(q, r, {"pc", "doc"})
<1> DEFINE p == [q EXCEPT !.pc = pc]
           r == [p EXCEPT !.doc = x]
<1>1. WithDocument(q, pc, x) = r
  BY DEF WithDocument
<1>2. p \in UserRequest /\ p.pc = pc /\ Alike(q, p, {"pc"})
  BY SetPc
<1> HIDE DEF p
<1>3. r \in UserRequest /\ r.doc = x /\ Alike(p, r, {"doc"})
  BY <1>2, SetDoc
<1> HIDE DEF r
<1>4. r.pc = pc /\ Alike(q, r, {"pc", "doc"})
  BY <1>2, <1>3 DEF Alike
<1> QED
  BY <1>1, <1>3, <1>4

LEMMA GoesWithIdentifier ==
    ASSUME NEW q \in UserRequest, NEW pc \in Pcs, NEW x \in Nat
    PROVE  LET r == WithIdentifier(q, pc, x) IN
           r \in UserRequest /\ r.pc = pc /\ r.idf = x /\ Alike(q, r, {"pc", "idf"})
<1> DEFINE p == [q EXCEPT !.pc = pc]
           r == [p EXCEPT !.idf = x]
<1>1. WithIdentifier(q, pc, x) = r
  BY DEF WithIdentifier
<1>2. p \in UserRequest /\ p.pc = pc /\ Alike(q, p, {"pc"})
  BY SetPc
<1> HIDE DEF p
<1>3. r \in UserRequest /\ r.idf = x /\ Alike(p, r, {"idf"})
  BY <1>2, SetIdf
<1> HIDE DEF r
<1>4. r.pc = pc /\ Alike(q, r, {"pc", "idf"})
  BY <1>2, <1>3 DEF Alike
<1> QED
  BY <1>1, <1>3, <1>4

LEMMA GoesWithAnswer ==
    ASSUME NEW q \in UserRequest, NEW pc \in Pcs, NEW x \in [Users -> Nat]
    PROVE  LET r == WithAnswer(q, pc, x) IN
           r \in UserRequest /\ r.pc = pc /\ r.ids = x /\ Alike(q, r, {"pc", "ids"})
<1> DEFINE p == [q EXCEPT !.pc = pc]
           r == [p EXCEPT !.ids = x]
<1>1. WithAnswer(q, pc, x) = r
  BY DEF WithAnswer
<1>2. p \in UserRequest /\ p.pc = pc /\ Alike(q, p, {"pc"})
  BY SetPc
<1> HIDE DEF p
<1>3. r \in UserRequest /\ r.ids = x /\ Alike(p, r, {"ids"})
  BY <1>2, SetIds
<1> HIDE DEF r
<1>4. r.pc = pc /\ Alike(q, r, {"pc", "ids"})
  BY <1>2, <1>3 DEF Alike
<1> QED
  BY <1>1, <1>3, <1>4

LEMMA GoesWithToken ==
    ASSUME NEW q \in UserRequest, NEW pc \in Pcs, NEW x \in BOOLEAN
    PROVE  LET r == WithToken(q, pc, x) IN
           r \in UserRequest /\ r.pc = pc /\ r.jwt = x /\ Alike(q, r, {"pc", "jwt"})
<1> DEFINE p == [q EXCEPT !.pc = pc]
           r == [p EXCEPT !.jwt = x]
<1>1. WithToken(q, pc, x) = r
  BY DEF WithToken
<1>2. p \in UserRequest /\ p.pc = pc /\ Alike(q, p, {"pc"})
  BY SetPc
<1> HIDE DEF p
<1>3. r \in UserRequest /\ r.jwt = x /\ Alike(p, r, {"jwt"})
  BY <1>2, SetJwt
<1> HIDE DEF r
<1>4. r.pc = pc /\ Alike(q, r, {"pc", "jwt"})
  BY <1>2, <1>3 DEF Alike
<1> QED
  BY <1>1, <1>3, <1>4

LEMMA GoesToNextRow ==
    ASSUME NEW q \in UserRequest, NEW rows \in Seq(Users), NEW u \in Users
    PROVE  LET r == WithRows(q, rows, u) IN
           /\ r \in UserRequest /\ r.pc = "row" /\ r.rows = rows /\ r.who = u
           /\ Alike(q, r, {"pc", "rows", "who"})
<1> DEFINE o == [q EXCEPT !.pc = "row"]
           p == [o EXCEPT !.rows = rows]
           r == [p EXCEPT !.who = u]
<1>1. WithRows(q, rows, u) = r
  BY DEF WithRows
<1>2. "row" \in Pcs
  BY DEF Pcs
<1>3. o \in UserRequest /\ o.pc = "row" /\ Alike(q, o, {"pc"})
  BY <1>2, SetPc
<1> HIDE DEF o
<1>4. p \in UserRequest /\ p.rows = rows /\ Alike(o, p, {"rows"})
  BY <1>3, SetRows
<1> HIDE DEF p
<1>5. r \in UserRequest /\ r.who = u /\ Alike(p, r, {"who"})
  BY <1>4, SetWho
<1> HIDE DEF r
<1>6. r.pc = "row" /\ r.rows = rows /\ Alike(q, r, {"pc", "rows", "who"})
  BY <1>3, <1>4, <1>5 DEF Alike
<1> QED
  BY <1>1, <1>5, <1>6

LEMMA NewRequest ==
    ASSUME NEW op \in UserOps, NEW pc \in Pcs, NEW u \in Users
    PROVE  LET r == Request(op, pc, u) IN
           r \in UserRequest /\ r.op = op /\ r.pc = pc /\ r.who = u /\ r.idf = NoIdentifier
<1> DEFINE none == [v \in Users |-> 0]
<1>1. none \in [Users -> Nat] /\ <<>> \in Seq(Users) /\ FALSE \in BOOLEAN
  BY EmptySeq
<1>2. Request(op, pc, u)
        = [op |-> op, pc |-> pc, who |-> u, doc |-> 0, idf |-> 0,
           rows |-> <<>>, ids |-> none, jwt |-> FALSE]
  BY DEF Request
<1> HIDE DEF none
<1>3. [op |-> op, pc |-> pc, who |-> u, doc |-> 0, idf |-> 0,
       rows |-> <<>>, ids |-> none, jwt |-> FALSE] \in UserRequest
  BY <1>1, RequestMade
<1>4. Request(op, pc, u) \in UserRequest
  BY <1>2, <1>3, Zenon
<1> QED
  BY <1>2, <1>4 DEF NoIdentifier
-----------------------------------------------------------------------------
(* What every step of a request on the users has in common.  Handler s does   *)
(* the step and is left with r.                                               *)

InRows(r) == r.op = "import" /\ r.pc \in {"row", "upsert"}
Took(s, r) ==
    /\ s \in Slots /\ r \in UserSet /\ Do(s, r)
    /\ rough \subseteq rough' /\ rough' \subseteq Causes
    /\ Smooth' => Smooth
    /\ Undisturbed' => \A t \in Slots : Busy(t) => t = s

LEMMA SameAsIdle ==
    ASSUME UserRequestsTyped, NEW s \in Slots, req[s] = Idle, req' = req PROVE Do(s, Idle)
<1>1. req = [t \in Handlers |-> req[t]] /\ s \in Handlers
  BY DEF UserRequestsTyped, Handlers
<1> QED
  BY <1>1 DEF Do

LEMMA BeganWith ==
    ASSUME Own, NEW s \in Slots, NEW more \in SUBSET Causes, BeginsWith(s, more),
           NEW r \in UserSet, Do(s, r)
    PROVE  /\ Took(s, r) /\ req[s] = Idle /\ more \subseteq rough'
           /\ Undisturbed' => saves = {}
<1>1. /\ req[s] = Idle /\ faults' = faults /\ ended' = ended
      /\ rough' = more \cup (IF saves # {} \/ \E h \in Handlers : req[h].op \in UserOps
                             THEN rough \cup {"overlap"} ELSE rough)
  BY DEF BeginsWith, Begin, Free
<1>2. rough \subseteq rough' /\ rough' \subseteq Causes /\ more \subseteq rough'
  BY <1>1 DEF Own, StoresTyped, Causes
<1>3. Smooth' => Smooth
  BY <1>1, <1>2 DEF Smooth
<1>4. Undisturbed' => saves = {} /\ \A h \in Handlers : ~(req[h].op \in UserOps)
  BY <1>1 DEF Undisturbed
<1>5. Undisturbed' => \A t \in Slots : Busy(t) => t = s
  BY <1>4 DEF Busy, Handlers
<1> QED
  BY <1>1, <1>2, <1>3, <1>4, <1>5 DEF Took

LEMMA Began ==
    ASSUME Own, NEW s \in Slots, UserBegins(s), NEW r \in UserSet, Do(s, r)
    PROVE  Took(s, r) /\ req[s] = Idle /\ (Undisturbed' => saves = {})
BY BeganWith DEF UserBegins

LEMMA CalmBefore ==
    ASSUME Calm, rough \subseteq rough', Undisturbed' PROVE CalmFacts /\ ~Astray
BY DEF Calm, Undisturbed, Astray

LEMMA SmoothStep ==
    ASSUME ProcessOK, Goes \/ Fails, rough \subseteq rough'
    PROVE  /\ Smooth' => Smooth
           /\ Fails => ~Smooth'
<1>1. CASE Goes
  <2>1. faults' = faults /\ ended' = ended
    BY <1>1 DEF Goes, Lives
  <2>2. Fails => ~Smooth'
    BY <2>1 DEF Fails, Faulty, ProcessOK
  <2> QED
    BY <2>1, <2>2 DEF Smooth
<1>2. CASE Fails
  <2>1. faults' # 0
    BY <1>2, BoundsAssumption DEF Fails, Faulty, ProcessOK
  <2> QED
    BY <2>1 DEF Smooth
<1> QED
  BY <1>1, <1>2

LEMMA WentOn ==
    ASSUME Own, Calm, Accord, ProcessOK, NEW s \in Slots, Busy(s), Goes \/ Fails,
           rough \subseteq rough', rough' \subseteq Causes,
           NEW r \in UserSet, Do(s, r)
    PROVE  /\ Took(s, r) /\ req[s] \in UserRequest /\ Holds(req[s])
           /\ Undisturbed' => Certain(req[s]) /\ (saves # {} => InRows(req[s]))
           /\ Smooth' => LoggedIn(req[s])
<1>1. Undisturbed' => CalmFacts
  BY CalmBefore
<1>2. Undisturbed' => \A t \in Slots : Busy(t) => t = s
  BY <1>1 DEF CalmFacts, OneAtWork
<1>3. Undisturbed' => Certain(req[s]) /\ (saves # {} => InRows(req[s]))
  BY <1>1 DEF CalmFacts, RequestsCertain, OneAtWork, InRows
<1>4. Smooth' => Smooth
  BY SmoothStep
<1>5. req[s] \in UserRequest
  BY DEF Own, UserRequestsTyped, Busy, Handlers
<1>6. Holds(req[s])
  BY DEF Own, RequestsHold
<1>7. Smooth' => LoggedIn(req[s])
  BY <1>4 DEF Accord, SmoothFacts
<1> QED
  BY <1>2, <1>3, <1>4, <1>5, <1>6, <1>7 DEF Took

-----------------------------------------------------------------------------
(* Steps after which every document, identifier and save is still there       *)

\* Document d is there after the step, and the first one of its user.
IsFirstNext(d) ==
    \E n \in 1..Len(users') :
        /\ users'[n].id = d
        /\ \A m \in 1..(n - 1) : users'[m].who # users'[n].who
\* A save that the step leaves to be made.
MakesSave(v) ==
    /\ v \in [doc : Nat, idf : Nat] /\ NewSave(v)
    /\ Undisturbed' => IsFirstNext(v.doc) /\ cm'[v.idf].live
Grows(s, r) ==
    /\ KeepsUsers \/ \E u, i : Comes(u, i)
    /\ Kept(0)
    /\ saves \subseteq saves' /\ \A v \in saves' : v \in saves \/ MakesSave(v)
    /\ Holds(r)'
    /\ Undisturbed' => Certain(r)' /\ (saves' # {} /\ r.op \in UserOps => InRows(r))
    /\ Smooth' =>
          /\ LoggedIn(r)
          /\ \A i \in 1..Len(cm') : cm'[i].live =>
                \/ i \in 1..Len(cm) /\ ~Claims(req[s], i)
                \/ Claims(r, i)
                \/ \E v \in saves' : v.idf = i
                \/ \E n \in 1..Len(users') : users'[n].idf = i
\* The same where no save and, without a fault, no identifier is new: what has to
\* be known of r can be said of the state before.
Quiet(s, r) ==
    /\ KeepsUsers /\ Kept(0) /\ saves' = saves
    /\ Holds(r)
    /\ Undisturbed' => Certain(r) /\ (saves # {} /\ r.op \in UserOps => InRows(r))
    /\ Smooth' =>
          /\ LoggedIn(r) /\ Len(cm') = Len(cm)
          /\ \A i \in 1..Len(cm) : Live(i) /\ Claims(req[s], i) => Claims(r, i)

LEMMA IsFirstKept ==
    ASSUME StoresTyped, KeepsUsers \/ (\E u, i : Comes(u, i)), NEW d, IsFirst(d)
    PROVE  IsFirstNext(d)
<1>1. Len(users) \in Nat
  BY UserFields DEF StoresTyped
<1>2. PICK n \in 1..Len(users) :
          users[n].id = d /\ \A m \in 1..(n - 1) : users[m].who # users[n].who
  BY DEF IsFirst
<1>3. /\ n \in 1..Len(users')
      /\ \A m \in 1..n : users'[m].id = users[m].id /\ users'[m].who = users[m].who
  <2>1. CASE KeepsUsers
    BY <1>1, <2>1 DEF KeepsUsers, Rewrites
  <2>2. ASSUME NEW u, NEW i, Comes(u, i)
        PROVE  /\ n \in 1..Len(users')
               /\ \A m \in 1..n : users'[m].id = users[m].id /\ users'[m].who = users[m].who
    BY <1>1, <2>2 DEF Adds, Comes
  <2> QED
    BY <2>1, <2>2
<1>4. users'[n].id = d /\ \A m \in 1..(n - 1) : users'[m].who # users'[n].who
  BY <1>1, <1>2, <1>3
<1> QED
  BY <1>3, <1>4 DEF IsFirstNext

LEMMA LiveKept ==
    ASSUME Kept(0), NEW i \in 1..Len(cm), Live(i)
    PROVE  i \in 1..Len(cm') /\ cm'[i].live
<1>1. Len(cm) \in Nat /\ Len(cm') \in Nat /\ i # 0
  BY LengthsAreNumbers DEF Kept
<1> QED
  BY <1>1 DEF Kept, Live

LEMMA CertainKept ==
    ASSUME StoresTyped, KeepsUsers, Kept(0), NEW r, Holds(r), Certain(r) PROVE Certain(r)'
<1>1. Len(users) \in Nat /\ Len(users') = Len(users)
      /\ \A n \in 1..Len(users) : users'[n].who = users[n].who /\ users'[n].idf = users[n].idf
  BY UserFields DEF StoresTyped, KeepsUsers, Rewrites
<1>2. HasDocument(r) => IsFirstNext(r.doc)
  BY IsFirstKept DEF Certain
<1>3. r.op = "app" /\ r.pc = "save" => cm'[r.idf].live
  BY LiveKept DEF Certain, Holds, Owned
<1>4. HasAnswer(r) => \A k \in 1..Len(r.rows) : cm'[r.ids[r.rows[k]]].live
  BY LiveKept DEF Certain, Holds, Owned
<1> QED
  BY <1>1, <1>2, <1>3, <1>4 DEF Certain, HasDocument, HasAnswer, IsFirst, IsFirstNext, Live

LEMMA QuietGrows ==
    ASSUME Own, NEW s, NEW r, Took(s, r), Quiet(s, r) PROVE Grows(s, r)
<1>1. Holds(r)'
  BY HoldsStep DEF Own, Quiet, UsersMove, KeepsUsers
<1>2. Undisturbed' => Certain(r)'
  BY CertainKept DEF Own, Quiet
<1>3. Smooth' => \A i \in 1..Len(cm') : cm'[i].live =>
                     \/ i \in 1..Len(cm) /\ ~Claims(req[s], i)
                     \/ Claims(r, i)
  <2> SUFFICES ASSUME Smooth', NEW i \in 1..Len(cm'), cm'[i].live, Claims(req[s], i)
               PROVE  i \in 1..Len(cm) /\ Claims(r, i)
    BY DEF Quiet
  <2>1. i \in 1..Len(cm)
    BY DEF Quiet
  <2>2. Live(i)
    BY <2>1 DEF Quiet, Kept, Live
  <2> QED
    BY <2>1, <2>2 DEF Quiet
<1> QED
  BY <1>1, <1>2, <1>3 DEF Quiet, Grows
-----------------------------------------------------------------------------
(* What such steps keep *)

LEMMA HandlerNow ==
    ASSUME UserRequestsTyped, NEW s \in Slots, NEW r, Do(s, r)
    PROVE  req'[s] = r /\ \A t \in Slots : t # s => req'[t] = req[t]
<1>1. DOMAIN req = Handlers /\ Slots \subseteq Handlers
  BY DEF UserRequestsTyped, Handlers
<1> QED
  BY <1>1 DEF Do

LEMMA StoresKept ==
    ASSUME Own, UsersMove, NEW k, Kept(k), saves' \subseteq [doc : Nat, idf : Nat],
           rough' \subseteq Causes
    PROVE  StoresTyped'
<1>1. users' \in Seq(User)
  BY DEF UsersMove, Rewrites, Renames, Adds, Drops
<1>2. nextDoc' \in Nat
  BY CountGrows DEF Own
<1> QED
  BY <1>1, <1>2 DEF StoresTyped, Kept

LEMMA GrowsOwn ==
    ASSUME Own, NEW s, NEW r, Took(s, r), Grows(s, r) PROVE Own'
<1>1. UsersMove
  BY DEF Grows, UsersMove, KeepsUsers, Comes
<1>2. saves' \subseteq [doc : Nat, idf : Nat]
  BY DEF Grows, MakesSave, Own, StoresTyped
<1>3. StoresTyped'
  BY <1>1, <1>2, StoresKept DEF Grows, Took
<1>4. UsersOwn'
  BY UsersOwnKept DEF Own, Grows
<1>5. \A v \in saves' : v \in saves \/ NewSave(v)
  BY DEF Grows, MakesSave
<1> QED
  BY <1>1, <1>3, <1>4, <1>5, OwnStep DEF Grows, Took

\* As long as the requests take turns, the others hold nothing.
LEMMA NothingCertain == ASSUME NEW r, ~(r.op \in UserOps) PROVE Certain(r)'
BY DEF Certain, UserOps, HasDocument, HasAnswer

LEMMA OthersIdle ==
    ASSUME Own, NEW s, NEW r, Took(s, r), Undisturbed', Certain(r)',
           saves' # {} /\ r.op \in UserOps => InRows(r)
    PROVE  OneAtWork' /\ RequestsCertain'
<1>1. /\ s \in Slots /\ req'[s] = r
      /\ \A t \in Slots : t # s => req'[t] = req[t] /\ ~Busy(t)
  BY HandlerNow DEF Took, Own
<1>2. \A t \in Slots : req'[t].op \in UserOps => t = s
  BY <1>1 DEF Busy
<1>3. OneAtWork'
  BY <1>1, <1>2 DEF OneAtWork, Busy, InRows
<1>4. ASSUME NEW t \in Slots PROVE Certain(req[t])'
  <2>1. PICK q : q = req'[t]
    OBVIOUS
  <2>2. Certain(q)'
    <3>1. CASE t = s
      BY <1>1, <2>1, <3>1
    <3>2. CASE t # s
      BY <1>2, <2>1, <3>2, NothingCertain
    <3> QED
      BY <3>1, <3>2
  <2> QED
    BY <2>1, <2>2 DEF Certain, HasDocument, HasAnswer, IsFirst, Live
<1> QED
  BY <1>3, <1>4 DEF RequestsCertain

LEMMA OnlyFirstKept ==
    ASSUME StoresTyped, OnlyFirstHasOne, Undisturbed', KeepsUsers \/ (\E u, i : Comes(u, i))
    PROVE  OnlyFirstHasOne'
<1>1. Len(users) \in Nat
  BY UserFields DEF StoresTyped
<1> SUFFICES ASSUME NEW m \in 1..Len(users'), NEW n \in 1..Len(users'), m < n,
                    users'[m].who = users'[n].who
             PROVE  users'[n].idf = NoIdentifier
  BY DEF OnlyFirstHasOne
<1>2. CASE KeepsUsers
  <2>1. /\ m \in 1..Len(users) /\ n \in 1..Len(users)
        /\ users'[m].who = users[m].who /\ users'[n].who = users[n].who
        /\ users'[n].idf = users[n].idf
    BY <1>1, <1>2 DEF KeepsUsers, Rewrites
  <2> QED
    BY <2>1 DEF OnlyFirstHasOne
<1>3. ASSUME NEW u, NEW i, Comes(u, i) PROVE users'[n].idf = NoIdentifier
  <2>1. CASE n = Len(users) + 1
    <3>1. users'[n].who = u /\ users'[n].idf = i
      BY <1>3, <2>1 DEF Adds, Comes
    <3>2. m \in 1..Len(users) /\ users[m].who = u
      BY <1>1, <1>3, <2>1, <3>1 DEF Adds, Comes
    <3> QED
      BY <1>3, <3>1, <3>2 DEF Comes
  <2>2. CASE n # Len(users) + 1
    <3>1. /\ m \in 1..Len(users) /\ n \in 1..Len(users)
          /\ users'[m] = users[m] /\ users'[n] = users[n]
      BY <1>1, <1>3, <2>2 DEF Adds, Comes
    <3> QED
      BY <3>1 DEF OnlyFirstHasOne
  <2> QED
    BY <2>1, <2>2
<1> QED
  BY <1>2, <1>3

LEMMA UsersLiveKept ==
    ASSUME StoresTyped, UsersOwn, UsersLive, Kept(0), Undisturbed',
           KeepsUsers \/ (\E u, i : Comes(u, i)) \/ (\E p : Drops(p))
    PROVE  UsersLive'
<1>1. Len(users) \in Nat
  BY UserFields DEF StoresTyped
<1> SUFFICES ASSUME NEW n \in 1..Len(users'), users'[n].idf # NoIdentifier
             PROVE  cm'[users'[n].idf].live
  BY DEF UsersLive, Live
<1>2. \/ cm'[users'[n].idf].live
      \/ \E m \in 1..Len(users) : users'[n].idf = users[m].idf
  <2>1. CASE KeepsUsers
    BY <1>1, <2>1 DEF KeepsUsers, Rewrites
  <2>2. ASSUME NEW u, NEW i, Comes(u, i)
        PROVE  \/ cm'[users'[n].idf].live
               \/ \E m \in 1..Len(users) : users'[n].idf = users[m].idf
    <3>1. CASE n = Len(users) + 1
      BY <2>2, <3>1 DEF Adds, Comes
    <3>2. CASE n # Len(users) + 1
      <4>1. n \in 1..Len(users) /\ users'[n] = users[n]
        BY <1>1, <2>2, <3>2 DEF Adds, Comes
      <4> QED
        BY <4>1
    <3> QED
      BY <3>1, <3>2
  <2>3. ASSUME NEW p, Drops(p) PROVE \E m \in 1..Len(users) : users'[n].idf = users[m].idf
    <3> DEFINE m == IF n < p THEN n ELSE n + 1
    <3>1. m \in 1..Len(users) /\ users'[n] = users[m]
      BY <1>1, <2>3 DEF Drops
    <3> HIDE DEF m
    <3> QED
      BY <3>1
  <2> QED
    BY <2>1, <2>2, <2>3
<1>3. ASSUME NEW m \in 1..Len(users), users'[n].idf = users[m].idf
      PROVE  cm'[users'[n].idf].live
  <2>1. users[m].idf \in 1..Len(cm) /\ Live(users[m].idf)
    BY <1>3 DEF UsersOwn, UsersLive, Owned
  <2> QED
    BY <1>3, <2>1, LiveKept
<1> QED
  BY <1>2, <1>3

LEMMA GrowsCalm ==
    ASSUME Own, Calm, NEW s, NEW r, Took(s, r), Grows(s, r) PROVE Calm'
<1> SUFFICES ASSUME Undisturbed' PROVE CalmFacts'
  BY DEF Calm, Undisturbed
<1>1. CalmFacts
  BY CalmBefore DEF Took
<1>2. OneAtWork' /\ RequestsCertain'
  BY OthersIdle DEF Grows
<1>3. OnlyFirstHasOne' /\ UsersLive'
  BY <1>1, OnlyFirstKept, UsersLiveKept DEF CalmFacts, Own, Grows
<1>4. ASSUME NEW v \in saves' PROVE IsFirstNext(v.doc) /\ cm'[v.idf].live
  <2>1. CASE v \in saves
    <3>1. IsFirst(v.doc) /\ Live(v.idf) /\ v.idf \in 1..Len(cm)
      BY <1>1, <2>1 DEF CalmFacts, SavesLive, Own, SavesOwn
    <3> QED
      BY <3>1, IsFirstKept, LiveKept DEF Own, Grows
  <2>2. CASE v \notin saves
    BY <2>2 DEF Grows, MakesSave
  <2> QED
    BY <2>1, <2>2
<1>5. SavesLive'
  BY <1>4 DEF SavesLive, IsFirst, IsFirstNext, Live
<1> QED
  BY <1>2, <1>3, <1>5 DEF CalmFacts

\* The identifiers that were accounted for otherwise than by handler s still are.
LEMMA LoggedInKept ==
    ASSUME Own, Accord, NEW s, NEW r, Took(s, r), Smooth', LoggedIn(r)
    PROVE  \A t \in Slots : LoggedIn(req'[t])
<1>1. req'[s] = r /\ \A t \in Slots : t # s => req'[t] = req[t]
  BY HandlerNow DEF Took, Own
<1>2. \A t \in Slots : LoggedIn(req[t])
  BY DEF Took, Accord, SmoothFacts
<1> QED
  BY <1>1, <1>2

LEMMA NothingClaimed == ASSUME NEW r, NEW i, Claims(r, i) PROVE r.op \in UserOps
BY DEF Claims, HasAnswer, UserOps

AccountedNext(i) ==
    \/ \E n \in 1..Len(users') : users'[n].idf = i
    \/ \E v \in saves' : v.idf = i
    \/ \E s \in Slots : Claims(req'[s], i)

LEMMA AccordFrom ==
    ASSUME Smooth' => /\ \A i \in 1..Len(cm') : cm'[i].live => AccountedNext(i)
                      /\ \A t \in Slots : LoggedIn(req'[t])
    PROVE  Accord'
<1>1. ASSUME Smooth' PROVE SmoothFacts'
  BY <1>1 DEF SmoothFacts, Live, Accounted, AccountedNext, Claims, LoggedIn, HasAnswer
<1> QED
  BY <1>1 DEF Accord

LEMMA GrowsAccord ==
    ASSUME Own, Accord, NEW s, NEW r, Took(s, r), Grows(s, r) PROVE Accord'
<1> SUFFICES ASSUME Smooth'
             PROVE  /\ \A i \in 1..Len(cm') : cm'[i].live => AccountedNext(i)
                    /\ \A t \in Slots : LoggedIn(req'[t])
  BY AccordFrom
<1>1. \A t \in Slots : LoggedIn(req'[t])
  BY LoggedInKept DEF Grows
<1>2. ASSUME NEW i \in 1..Len(cm'), cm'[i].live PROVE AccountedNext(i)
  <2>1. \/ i \in 1..Len(cm) /\ ~Claims(req[s], i)
        \/ Claims(r, i)
        \/ \E v \in saves' : v.idf = i
        \/ \E n \in 1..Len(users') : users'[n].idf = i
    BY <1>2 DEF Grows
  <2>2. CASE Claims(r, i)
    <3>1. req'[s] = r /\ s \in Slots
      BY HandlerNow DEF Took, Own
    <3> QED
      BY <2>2, <3>1 DEF AccountedNext
  <2>3. CASE \E v \in saves' : v.idf = i
    BY <2>3 DEF AccountedNext
  <2>5. CASE \E n \in 1..Len(users') : users'[n].idf = i
    BY <2>5 DEF AccountedNext
  <2>4. CASE i \in 1..Len(cm) /\ ~Claims(req[s], i)
    <3>1. Live(i)
      BY <1>2, <2>4 DEF Grows, Kept, Live
    <3>2. Accounted(i)
      BY <2>4, <3>1 DEF Took, Accord, SmoothFacts
    <3>3. \A t \in Slots : Claims(req[t], i) => t = s
      <4>1. Undisturbed'
        BY DEF Smooth, Undisturbed
      <4> QED
        BY <4>1, NothingClaimed DEF Took, Busy
    <3>4. CASE \E n \in 1..Len(users) : users[n].idf = i
      <4>1. Len(users) \in Nat
        BY UserFields DEF Own, StoresTyped
      <4>2. \A n \in 1..Len(users) :
                n \in 1..Len(users') /\ users'[n].idf = users[n].idf
        BY <4>1 DEF Grows, KeepsUsers, Rewrites, Adds, Comes
      <4> QED
        BY <3>4, <4>2 DEF AccountedNext
    <3>5. CASE \E v \in saves : v.idf = i
      BY <3>5 DEF Grows, AccountedNext
    <3> QED
      BY <2>4, <3>2, <3>3, <3>4, <3>5 DEF Accounted
  <2> QED
    BY <2>1, <2>2, <2>3, <2>4, <2>5
<1> QED
  BY <1>1, <1>2
-----------------------------------------------------------------------------
(* Requests that begin *)

GrowsBy(s) == \E r : Took(s, r) /\ Grows(s, r)

LEMMA IdleIsFree ==
    /\ Idle \in UserSet /\ Holds(Idle) /\ Certain(Idle) /\ LoggedIn(Idle)
    /\ ~(Idle.op \in UserOps) /\ \A i : ~Claims(Idle, i)
BY DEF UserSet, Idle, Holds, Certain, LoggedIn, Claims, UserOps, HasDocument, HasAnswer

LEMMA BeginsQuietly ==
    ASSUME Own, NEW s \in Slots, UserBegins(s), KeepsUsers, cm' = cm, saves' = saves,
           NEW r \in UserSet, Do(s, r), Holds(r), Certain(r), LoggedIn(r)
    PROVE  GrowsBy(s)
<1>1. Took(s, r) /\ req[s] = Idle /\ (Undisturbed' => saves = {})
  BY Began
<1>2. Kept(0) /\ Len(cm') = Len(cm)
  BY <1>1, IdentifiersStay DEF Own, StoresTyped, SameIdentifiers, Took
<1>3. \A i : ~Claims(req[s], i)
  BY <1>1, IdleIsFree
<1>4. Quiet(s, r)
  BY <1>1, <1>2, <1>3 DEF Quiet
<1> QED
  BY <1>1, <1>4, QuietGrows DEF GrowsBy

LEMMA UsersStay == ASSUME Own, UNCHANGED <<users, nextDoc>> PROVE KeepsUsers
BY SameUsers DEF Own, StoresTyped

LEMMA CreateBegins ==
    ASSUME Own, NEW s \in Slots, NEW u \in Users, CreateUser(s, u) PROVE GrowsBy(s)
<1>1. UserBegins(s) /\ KeepsUsers /\ cm' = cm /\ saves' = saves
  BY UsersStay DEF CreateUser
<1>2. CASE DocOf(u) # 0
  <2>1. req[s] = Idle /\ req' = req
    BY <1>2 DEF CreateUser, UserBegins, BeginsWith, Begin, Free
  <2>2. Do(s, Idle)
    BY <2>1, SameAsIdle DEF Own
  <2> QED
    BY <1>1, <2>2, IdleIsFree, BeginsQuietly
<1>3. CASE DocOf(u) = 0
  <2>1. PICK r : r = Request("create", "insert", u)
    OBVIOUS
  <2>2. r \in UserRequest /\ r.op = "create" /\ r.pc = "insert" /\ r.who = u
    BY <2>1, NewRequest DEF UserOps, Pcs
  <2>3. Do(s, r)
    BY <1>3, <2>1 DEF CreateUser
  <2>4. \A n \in 1..Len(users) : users[n].who # u
    BY <1>3, DocOfFinds DEF Own, StoresTyped
  <2>5. Holds(r) /\ Certain(r) /\ LoggedIn(r)
    BY <2>2, <2>4 DEF Holds, Certain, LoggedIn, HasDocument, HasAnswer
  <2> QED
    BY <1>1, <2>2, <2>3, <2>5, BeginsQuietly DEF UserSet
<1> QED
  BY <1>2, <1>3

LEMMA ToAppBegins ==
    ASSUME Own, NEW s \in Slots, NEW u \in Users, CreateUserToApp(s, u) PROVE GrowsBy(s)
<1>1. UserBegins(s) /\ KeepsUsers /\ cm' = cm /\ saves' = saves
  BY UsersStay DEF CreateUserToApp
<1>2. PICK r : r = Request("app", "post", u)
  OBVIOUS
<1>3. r \in UserRequest /\ r.op = "app" /\ r.pc = "post"
  BY <1>2, NewRequest DEF UserOps, Pcs
<1>4. Do(s, r)
  BY <1>2 DEF CreateUserToApp
<1>5. Holds(r) /\ Certain(r) /\ LoggedIn(r)
  BY <1>3 DEF Holds, Certain, LoggedIn, HasDocument, HasAnswer
<1> QED
  BY <1>1, <1>3, <1>4, <1>5, BeginsQuietly DEF UserSet

LEMMA IdentifierFound ==
    ASSUME Own, NEW u
    PROVE  /\ GetUserIdentifier(u) \in Nat
           /\ GetUserIdentifier(u) # NoIdentifier => Owned(GetUserIdentifier(u), u)
<1>1. users \in Seq(User)
  BY DEF Own, StoresTyped
<1>2. CASE DocOf(u) = 0
  BY <1>2 DEF GetUserIdentifier, NoIdentifier
<1>3. CASE DocOf(u) # 0
  <2>1. DocOf(u) \in 1..Len(users) /\ users[DocOf(u)].who = u
    BY <1>1, <1>3, DocOfFinds
  <2>2. GetUserIdentifier(u) = users[DocOf(u)].idf
    BY <1>3 DEF GetUserIdentifier
  <2>3. users[DocOf(u)].idf \in Nat
    BY <1>1, <2>1, UserFields
  <2> QED
    BY <2>1, <2>2, <2>3 DEF Own, UsersOwn
<1> QED
  BY <1>2, <1>3

\* A call on the consents of a user, with the identifier found for that user.
LEMMA ConsentBegins ==
    ASSUME Own, NEW s \in Slots, NEW u \in Users, ConsentServiceMe(s, u) \/ GetUserConsent(s, u)
    PROVE  GrowsBy(s)
<1>1. UserBegins(s) /\ KeepsUsers /\ cm' = cm /\ saves' = saves
  BY UsersStay DEF ConsentServiceMe, GetUserConsent
<1>2. ASSUME NEW pc \in {"ask", "auth"},
             Do(s, [Request("consent", pc, u) EXCEPT !.idf = GetUserIdentifier(u)])
      PROVE  GrowsBy(s)
  <2>1. PICK q : q = Request("consent", pc, u)
    OBVIOUS
  <2>2. q \in UserRequest /\ q.op = "consent" /\ q.who = u
    BY <2>1, NewRequest DEF UserOps, Pcs
  <2>3. PICK r : r = [q EXCEPT !.idf = GetUserIdentifier(u)]
    OBVIOUS
  <2>4. r \in UserRequest /\ r.op = "consent" /\ r.who = u /\ r.idf = GetUserIdentifier(u)
    BY <2>2, <2>3, IdentifierFound, SetIdf DEF Alike
  <2>5. Do(s, r)
    BY <1>2, <2>1, <2>3
  <2>6. Holds(r) /\ Certain(r) /\ LoggedIn(r)
    BY <2>4, IdentifierFound DEF Holds, Certain, LoggedIn, HasDocument, HasAnswer
  <2> QED
    BY <1>1, <2>4, <2>5, <2>6, BeginsQuietly DEF UserSet
<1>3. CASE req' = req
  <2>1. Do(s, Idle)
    BY <1>1, <1>3, SameAsIdle DEF UserBegins, BeginsWith, Begin, Free, Own
  <2> QED
    BY <1>1, <2>1, IdleIsFree, BeginsQuietly
<1> QED
  BY <1>2, <1>3 DEF ConsentServiceMe, GetUserConsent

LEMMA ImportBegins ==
    ASSUME Own, NEW s \in Slots, NEW u \in Users, NEW v \in Users, ExcelImport(s, <<u, v>>)
    PROVE  GrowsBy(s)
<1>1. UserBegins(s) /\ KeepsUsers /\ cm' = cm /\ saves' = saves
  BY UsersStay DEF ExcelImport
<1>2. PICK rows : rows = <<u, v>>
  OBVIOUS
<1>3. rows \in Seq(Users) /\ Len(rows) = 2 /\ rows[1] = u /\ Head(rows) = u
  BY <1>2
<1>4. PICK q : q = Request("import", "login", u)
  OBVIOUS
<1>5. q \in UserRequest /\ q.op = "import" /\ q.pc = "login" /\ q.who = u
  BY <1>4, NewRequest DEF UserOps, Pcs
<1>6. PICK r : r = [q EXCEPT !.rows = rows]
  OBVIOUS
<1>7. /\ r \in UserRequest /\ r.op = "import" /\ r.pc = "login" /\ r.who = u
      /\ r.rows = rows
  BY <1>3, <1>5, <1>6, SetRows DEF Alike
<1>8. Do(s, r)
  BY <1>2, <1>3, <1>4, <1>6 DEF ExcelImport
<1>9. ~HasDocument(r) /\ ~HasAnswer(r) /\ LoggedIn(r)
  BY <1>7 DEF HasDocument, HasAnswer, LoggedIn
<1>10. Len(r.rows) > 0 /\ r.who = r.rows[1]
  <2>1. r.rows = rows /\ r.who = u
    BY <1>7
  <2>2. Len(rows) > 0 /\ u = rows[1]
    BY <1>3
  <2> QED
    BY <2>1, <2>2, Zenon
<1>11. Holds(r) /\ Certain(r)
  BY <1>7, <1>9, <1>10 DEF Holds, Certain
<1> QED
  BY <1>1, <1>7, <1>8, <1>9, <1>11, BeginsQuietly DEF UserSet
-----------------------------------------------------------------------------
(* Requests that go on, and leave the documents and the identifiers alone     *)

UInv == CInv /\ Own /\ Calm /\ Accord

\* What r took over from q is all that has to be known of it.
Carries(q, r) ==
    /\ Alike(q, r, {"pc", "jwt"})
    /\ HasDocument(r) => HasDocument(q)
    /\ ~(q.op = "app" /\ q.pc = "save") /\ ~(r.op = "app" /\ r.pc = "save")
    /\ ~(r.op = "create" /\ r.pc = "insert")
    /\ HasAnswer(r) <=> HasAnswer(q)
    /\ InRows(q) => InRows(r)

LEMMA CarriesOn ==
    ASSUME NEW q, NEW r, Carries(q, r)
    PROVE  /\ Holds(q) => Holds(r)
           /\ Certain(q) => Certain(r)
           /\ \A i : Claims(q, i) => Claims(r, i)
<1>1. /\ r.op = q.op /\ r.who = q.who /\ r.doc = q.doc /\ r.idf = q.idf
      /\ r.rows = q.rows /\ r.ids = q.ids
  BY DEF Carries, Alike
<1>2. Holds(q) => Holds(r)
  BY <1>1, Zenon DEF Carries, Holds
<1>3. Certain(q) => Certain(r)
  BY <1>1, Zenon DEF Carries, Certain
<1>4. \A i : Claims(q, i) => Claims(r, i)
  BY <1>1, Zenon DEF Carries, Claims
<1> QED
  BY <1>2, <1>3, <1>4

LEMMA GoesOnWith ==
    ASSUME UInv, NEW s \in Slots, Busy(s), Goes \/ Fails, KeepsUsers, Kept(0), saves' = saves,
           rough \subseteq rough', rough' \subseteq Causes,
           NEW r \in UserRequest, Do(s, r),
           Holds(req[s]) => Holds(r), InRows(req[s]) => InRows(r),
           Certain(req[s]) /\ CalmFacts => Certain(r),
           Smooth' => /\ LoggedIn(r) /\ Len(cm') = Len(cm)
                      /\ \A i : Claims(req[s], i) => Claims(r, i)
    PROVE  GrowsBy(s)
<1>1. /\ Took(s, r) /\ Holds(req[s])
      /\ Undisturbed' => Certain(req[s]) /\ (saves # {} => InRows(req[s]))
  BY WentOn DEF UInv, CInv, UserSet
<1>2. Undisturbed' => CalmFacts
  BY <1>1, CalmBefore DEF UInv, Took
<1>3. Quiet(s, r)
  BY <1>1, <1>2 DEF Quiet
<1> QED
  BY <1>1, <1>3, QuietGrows DEF GrowsBy, UInv

LEMMA GoesOnQuietly ==
    ASSUME UInv, NEW s \in Slots, Busy(s), Goes \/ Fails, KeepsUsers, Kept(0), saves' = saves,
           rough \subseteq rough', rough' \subseteq Causes,
           NEW r \in UserRequest, Do(s, r), Carries(req[s], r),
           Smooth' => LoggedIn(r) /\ Len(cm') = Len(cm)
    PROVE  GrowsBy(s)
<1>1. InRows(req[s]) => InRows(r)
  BY DEF Carries
<1> QED
  BY <1>1, CarriesOn, GoesOnWith

LEMMA EndsQuietly ==
    ASSUME UInv, NEW s \in Slots, Busy(s), Goes \/ Fails, KeepsUsers, Kept(0), saves' = saves,
           rough \subseteq rough', rough' \subseteq Causes, Ends(s),
           Smooth' => /\ Len(cm') = Len(cm)
                      /\ \A i \in 1..Len(cm) : Live(i) => ~Claims(req[s], i)
    PROVE  GrowsBy(s)
<1>1. Do(s, Idle)
  BY DEF Ends
<1>2. Took(s, Idle)
  BY <1>1, IdleIsFree, WentOn DEF UInv, CInv
<1>3. Quiet(s, Idle)
  BY IdleIsFree DEF Quiet
<1> QED
  BY <1>2, <1>3, QuietGrows DEF GrowsBy, UInv

LEMMA RoughTyped ==
    ASSUME Own
    PROVE  /\ rough \subseteq Causes
           /\ rough' = rough => rough \subseteq rough' /\ rough' \subseteq Causes
           /\ \A x \in {"refused", "skipped"} : rough' = rough \cup {x} =>
                  /\ rough \subseteq rough' /\ rough' \subseteq Causes
                  /\ ~Smooth'
<1>1. rough \subseteq Causes
  BY DEF Own, StoresTyped
<1> QED
  BY <1>1 DEF Smooth, Causes

LEMMA StoresStay ==
    ASSUME Own, UNCHANGED <<users, nextDoc, cm>>, rough \subseteq rough'
    PROVE  KeepsUsers /\ Kept(0) /\ Len(cm') = Len(cm)
BY UsersStay, IdentifiersStay DEF Own, StoresTyped, SameIdentifiers

LEMMA AtWorkOn ==
    ASSUME Own, NEW s \in Slots, NEW ops \in SUBSET UserOps, NEW pc, At(s, ops, pc)
    PROVE  Busy(s) /\ req[s] \in UserRequest /\ req[s].op \in ops /\ req[s].pc = pc
BY DEF At, Busy, Own, UserRequestsTyped, Handlers

LEMMA ManagerLoginGrows ==
    ASSUME UInv, NEW s \in Slots, ManagerLogin(s) PROVE GrowsBy(s)
<1>1. Own /\ ProcessOK
  BY DEF UInv, CInv
<1> DEFINE q == req[s]
<1>2. /\ Busy(s) /\ q \in UserRequest
      /\ q.op \in {"create", "update", "delete", "import"} /\ q.pc = "login"
  BY <1>1, AtWorkOn DEF ManagerLogin, UserOps
<1>3. KeepsUsers /\ Kept(0) /\ Len(cm') = Len(cm) /\ saves' = saves
  BY <1>1, StoresStay DEF ManagerLogin
<1>4. "call" \in Pcs
  BY DEF Pcs
<1>5. ASSUME NEW ok, ok \in BOOLEAN, Goes, Do(s, [q EXCEPT !.pc = "call", !.jwt = ok]),
             ok => rough' = rough, ~ok => rough' = rough \cup {"refused"}
      PROVE  GrowsBy(s)
  <2>1. PICK r : r = WithToken(q, "call", ok)
    OBVIOUS
  <2>2. r \in UserRequest /\ r.pc = "call" /\ r.jwt = ok /\ Alike(q, r, {"pc", "jwt"})
    BY <1>2, <1>4, <1>5, <2>1, GoesWithToken
  <2>3. r.op = q.op
    BY <2>2 DEF Alike
  <2>4. Carries(q, r)
    BY <1>2, <2>2, <2>3 DEF Carries, HasDocument, HasAnswer, InRows
  <2>5. /\ rough \subseteq rough' /\ rough' \subseteq Causes
        /\ Smooth' => ok
    BY <1>1, <1>5, RoughTyped
  <2>6. Smooth' => LoggedIn(r)
    BY <2>2, <2>5 DEF LoggedIn
  <2> QED
    BY <1>2, <1>3, <1>5, <2>1, <2>2, <2>4, <2>5, <2>6, GoesOnQuietly DEF WithToken
<1>6. CASE Fails /\ To(s, "call") /\ UNCHANGED rough
  <2>1. PICK r : r = [q EXCEPT !.pc = "call"]
    OBVIOUS
  <2>2. r \in UserRequest /\ r.pc = "call" /\ Alike(q, r, {"pc"})
    BY <1>2, <1>4, <2>1, SetPc
  <2>3. r.op = q.op /\ Alike(q, r, {"pc", "jwt"})
    BY <2>2 DEF Alike
  <2>4. Carries(q, r)
    BY <1>2, <2>2, <2>3 DEF Carries, HasDocument, HasAnswer, InRows
  <2>5. rough \subseteq rough' /\ rough' \subseteq Causes /\ ~Smooth'
    BY <1>1, <1>6, RoughTyped, SmoothStep
  <2> QED
    BY <1>2, <1>3, <1>6, <2>1, <2>2, <2>4, <2>5, GoesOnQuietly DEF To
<1>7. CASE EffectiveKeys \in KnownKeys
  <2>1. (EffectiveKeys \in KnownKeys) = TRUE
    BY <1>7
  <2>2. \/ /\ Goes /\ Do(s, [q EXCEPT !.pc = "call", !.jwt = TRUE])
           /\ rough' = rough
        \/ Fails /\ To(s, "call") /\ UNCHANGED rough
    BY <2>1 DEF ManagerLogin
  <2> QED
    BY <1>5, <1>6, <2>2
<1>8. CASE EffectiveKeys \notin KnownKeys
  <2>1. (EffectiveKeys \in KnownKeys) = FALSE
    BY <1>8
  <2>2. \/ /\ Goes /\ Do(s, [q EXCEPT !.pc = "call", !.jwt = FALSE])
           /\ rough' = rough \cup {"refused"}
        \/ Fails /\ To(s, "call") /\ UNCHANGED rough
    BY <2>1 DEF ManagerLogin
  <2> QED
    BY <1>5, <1>6, <2>2
<1> QED
  BY <1>7, <1>8

LEMMA LoggedInBefore ==
    ASSUME UInv, Goes \/ Fails, rough \subseteq rough', Smooth', NEW s \in Slots
    PROVE  LoggedIn(req[s])
BY SmoothStep DEF UInv, CInv, Accord, SmoothFacts

\* What is left of a sheet without its first row, and who comes next.
Following(rows, tail, u) ==
    /\ tail \in Seq(Users) /\ u \in Users
    /\ Len(rows) \in Nat /\ Len(tail) \in Nat /\ Len(tail) = Len(rows) - 1 /\ Len(tail) > 0
    /\ u = tail[1]
    /\ \A k \in 1..Len(tail) : tail[k] = rows[k + 1]

LEMMA RowsFollow ==
    ASSUME NEW rows \in Seq(Users), Len(rows) > 0, Len(rows) # 1
    PROVE  Following(rows, Tail(rows), rows[2])
<1>1. Len(rows) \in Nat
  BY LenProperties
<1>2. PICK n \in Nat : n = Len(rows)
  BY <1>1
<1>3. n > 1
  BY <1>2
<1>4. rows # <<>>
  BY <1>2, <1>3
<1>5. /\ Tail(rows) \in Seq(Users) /\ Len(Tail(rows)) = Len(rows) - 1
      /\ \A k \in 1..Len(Tail(rows)) : Tail(rows)[k] = rows[k + 1]
  BY <1>4, HeadTailProperties
<1>6. rows[2] \in Users
  BY <1>2, <1>3, ElementOfSeq
<1>7. Len(Tail(rows)) \in Nat /\ Len(Tail(rows)) > 0
  BY <1>2, <1>3, <1>5
<1>8. rows[2] = Tail(rows)[1]
  BY <1>5, <1>7
<1> QED
  BY <1>1, <1>5, <1>6, <1>7, <1>8 DEF Following

\* The row of a sheet that comes next.
LEMMA RowAfter ==
    ASSUME NEW q \in UserRequest, InRows(q), Holds(q),
           NEW tail, NEW u, Following(q.rows, tail, u), NEW r, r = WithRows(q, tail, u)
    PROVE  /\ r \in UserRequest /\ InRows(r) /\ r.jwt = q.jwt
           /\ Holds(r) /\ (Certain(q) => Certain(r)) /\ (LoggedIn(q) => LoggedIn(r))
           /\ \A i : Claims(q, i) => i = q.ids[q.rows[1]] \/ Claims(r, i)
<1> DEFINE rows == q.rows
<1>1. Len(rows) \in Nat /\ Len(tail) \in Nat /\ Len(tail) = Len(rows) - 1 /\ Len(tail) > 0
  BY DEF Following
<1>3. tail \in Seq(Users) /\ u \in Users /\ tail[1] = u
  BY DEF Following
<1>4. /\ r \in UserRequest /\ r.pc = "row" /\ r.rows = tail /\ r.who = u
      /\ Alike(q, r, {"pc", "rows", "who"})
  BY <1>3, GoesToNextRow
<1>5. r.op = "import" /\ r.ids = q.ids /\ r.jwt = q.jwt /\ InRows(r)
  BY <1>4 DEF Alike, InRows
<1>6. ~HasDocument(r) /\ (HasAnswer(r) <=> HasAnswer(q))
  BY <1>4, <1>5 DEF HasDocument, HasAnswer, InRows
<1>7. \A k \in 1..Len(tail) : k + 1 \in 1..Len(rows) /\ tail[k] = rows[k + 1]
  BY <1>1 DEF Following
<1>8. Holds(r)
  <2>1. r.rows[1] = r.who /\ Len(r.rows) > 0
    BY <1>1, <1>3, <1>4
  <2>2. HasAnswer(r) => \A k \in 1..Len(r.rows) : Owned(r.ids[r.rows[k]], r.rows[k])
    BY <1>4, <1>5, <1>6, <1>7 DEF Holds
  <2> QED
    BY <1>5, <1>6, <2>1, <2>2 DEF Holds
<1>9. Certain(q) => Certain(r)
  <2>1. HasAnswer(r) /\ Certain(q) => \A k \in 1..Len(r.rows) : Live(r.ids[r.rows[k]])
    BY <1>4, <1>5, <1>6, <1>7 DEF Certain
  <2> QED
    BY <1>5, <1>6, <2>1 DEF Certain
<1>10. LoggedIn(q) => LoggedIn(r)
  BY <1>4, <1>5 DEF LoggedIn, InRows
<1>11. ASSUME NEW i, Claims(q, i), i # q.ids[rows[1]] PROVE Claims(r, i)
  <2>1. HasAnswer(q) /\ \E k \in 1..Len(rows) : q.ids[rows[k]] = i
    BY <1>11 DEF Claims, InRows
  <2>2. PICK k \in 1..Len(rows) : q.ids[rows[k]] = i
    BY <2>1
  <2>3. k # 1
    BY <1>11, <2>2
  <2>4. k - 1 \in 1..Len(tail) /\ (k - 1) + 1 = k
    BY <1>1, <2>3
  <2>5. tail[k - 1] = rows[k]
    BY <1>7, <2>4
  <2>6. r.ids[r.rows[k - 1]] = i
    BY <1>4, <1>5, <2>2, <2>5
  <2> QED
    BY <1>4, <1>6, <2>1, <2>4, <2>6 DEF Claims
<1>12. \A i : Claims(q, i) => i = q.ids[q.rows[1]] \/ Claims(r, i)
  BY <1>11
<1> QED
  BY <1>4, <1>5, <1>8, <1>9, <1>10, <1>12

LEMMA ImportFindGrows ==
    ASSUME UInv, NEW s \in Slots, ImportFind(s) PROVE GrowsBy(s)
<1>1. Own /\ ProcessOK /\ Goes
  BY DEF UInv, CInv, ImportFind, Continues
<1> DEFINE q == req[s]
<1>2. Busy(s) /\ q \in UserRequest /\ q.op = "import" /\ q.pc = "row"
  BY <1>1, AtWorkOn DEF ImportFind, UserOps
<1>3. InRows(q) /\ Holds(q)
  BY <1>1, <1>2 DEF InRows, Own, RequestsHold
<1>4. KeepsUsers /\ Kept(0) /\ Len(cm') = Len(cm) /\ saves' = saves
  BY <1>1, StoresStay DEF ImportFind
<1>5. CASE DocOf(q.who) = 0
  <2>1. To(s, "upsert") /\ rough' = rough
    BY <1>5 DEF ImportFind
  <2>2. PICK r : r = [q EXCEPT !.pc = "upsert"]
    OBVIOUS
  <2>3. r \in UserRequest /\ r.pc = "upsert" /\ Alike(q, r, {"pc"})
    BY <1>2, <2>2, SetPc DEF Pcs
  <2>4. r.op = q.op /\ r.jwt = q.jwt /\ Alike(q, r, {"pc", "jwt"})
    BY <2>3 DEF Alike
  <2>5. Carries(q, r)
    BY <1>2, <2>3, <2>4 DEF Carries, HasDocument, HasAnswer, InRows
  <2>6. rough \subseteq rough' /\ rough' \subseteq Causes
    BY <1>1, <2>1, RoughTyped
  <2>7. Smooth' => LoggedIn(r)
    <3>1. Smooth' => LoggedIn(q)
      BY <1>1, <2>6, LoggedInBefore
    <3> QED
      BY <1>2, <2>3, <2>4, <3>1 DEF LoggedIn
  <2> QED
    BY <1>1, <1>2, <1>4, <2>1, <2>2, <2>3, <2>5, <2>6, <2>7, GoesOnQuietly DEF To
<1>6. CASE DocOf(q.who) # 0
  <2>1. NextRow(s) /\ rough' = rough \cup {"skipped"}
    BY <1>6 DEF ImportFind
  <2>2. rough \subseteq rough' /\ rough' \subseteq Causes /\ ~Smooth'
    BY <1>1, <2>1, RoughTyped
  <2>3. CASE Len(q.rows) = 1
    <3>1. Ends(s)
      BY <2>1, <2>3 DEF NextRow
    <3> QED
      BY <1>1, <1>2, <1>4, <2>2, <3>1, EndsQuietly
  <2>4. CASE Len(q.rows) # 1
    <3>1. PICK tail, u : tail = Tail(q.rows) /\ u = q.rows[2]
      OBVIOUS
    <3>2. q.rows \in Seq(Users) /\ Len(q.rows) > 0
      BY <1>2, <1>3, RequestFields DEF Holds
    <3>3. Following(q.rows, tail, u)
      BY <2>4, <3>1, <3>2, RowsFollow
    <3>4. PICK r : r = WithRows(q, tail, u)
      OBVIOUS
    <3>5. r \in UserRequest /\ InRows(r) /\ Holds(r) /\ (Certain(q) => Certain(r))
      BY <1>2, <1>3, <3>3, <3>4, RowAfter
    <3>6. Do(s, r)
      BY <2>1, <2>4, <3>1, <3>4 DEF NextRow, WithRows
    <3> QED
      BY <1>1, <1>2, <1>4, <2>2, <3>5, <3>6, GoesOnWith
  <2> QED
    BY <2>3, <2>4
<1> QED
  BY <1>5, <1>6

\* Steps of a request on the application or on consents: nothing of theirs is of
\* any account until the manager has answered.
LEMMA AppNeedsLittle ==
    ASSUME NEW r, r.op \in {"app", "consent"}
    PROVE  /\ LoggedIn(r) /\ ~InRows(r) /\ ~HasAnswer(r)
           /\ ~(r.op = "app" /\ r.pc = "save") => \A i : ~Claims(r, i)
           /\ r.op = "app" /\ r.pc \in {"find", "insert", "resume"} => Holds(r) /\ Certain(r)
BY DEF LoggedIn, InRows, HasAnswer, Claims, Holds, Certain, HasDocument

LEMMA AppGoesOn ==
    ASSUME UInv, NEW s \in Slots, At(s, {"app", "consent"}, req[s].pc), req[s].pc # "save",
           Goes \/ Fails, UNCHANGED <<users, nextDoc, cm, saves>>,
           rough \subseteq rough', rough' \subseteq Causes,
           NEW r \in UserRequest, r.op = req[s].op, Do(s, r),
           Holds(req[s]) => Holds(r), Certain(req[s]) /\ CalmFacts => Certain(r)
    PROVE  GrowsBy(s)
<1>1. Busy(s) /\ req[s].op \in {"app", "consent"}
  BY DEF At, Busy, UserOps
<1>2. KeepsUsers /\ Kept(0) /\ Len(cm') = Len(cm)
  BY StoresStay DEF UInv
<1>3. ~InRows(req[s]) /\ (\A i : ~Claims(req[s], i)) /\ LoggedIn(r)
  BY <1>1, AppNeedsLittle
<1> QED
  BY <1>1, <1>2, <1>3, GoesOnWith

LEMMA AppEnds ==
    ASSUME UInv, NEW s \in Slots, At(s, {"app", "consent"}, req[s].pc), req[s].pc # "save",
           Goes \/ Fails, UNCHANGED <<users, nextDoc, cm, saves, rough>>, Ends(s)
    PROVE  GrowsBy(s)
<1>1. Busy(s) /\ req[s].op \in {"app", "consent"}
  BY DEF At, Busy, UserOps
<1>2. KeepsUsers /\ Kept(0) /\ Len(cm') = Len(cm)
  BY StoresStay DEF UInv
<1>3. \A i : ~Claims(req[s], i)
  BY <1>1, AppNeedsLittle
<1>4. rough \subseteq rough' /\ rough' \subseteq Causes
  BY RoughTyped DEF UInv
<1> QED
  BY <1>1, <1>2, <1>3, <1>4, EndsQuietly

\* The same request at another place, with nothing more to hold there.
LEMMA AppMovesTo ==
    ASSUME UInv, NEW s \in Slots, NEW pc, At(s, {"app", "consent"}, pc), pc # "save",
           Goes \/ Fails, UNCHANGED <<users, nextDoc, cm, saves>>,
           rough \subseteq rough', rough' \subseteq Causes,
           NEW there \in {"find", "insert", "login", "ask"}, To(s, there),
           there \in {"login", "ask"} => pc \in {"auth", "login"}
    PROVE  GrowsBy(s)
<1> DEFINE q == req[s]
<1>1. q \in UserRequest /\ q.op \in {"app", "consent"} /\ q.pc = pc
  BY DEF UInv, At, Own, UserRequestsTyped, Handlers, UserOps
<1>2. PICK r : r = [q EXCEPT !.pc = there]
  OBVIOUS
<1>3. r \in UserRequest /\ r.pc = there /\ Alike(q, r, {"pc"})
  <2>1. there \in Pcs
    BY DEF Pcs
  <2> QED
    BY <1>1, <1>2, <2>1, SetPc
<1>4. r.op = q.op /\ Alike(q, r, {"pc", "jwt"})
  BY <1>3 DEF Alike
<1>5. Carries(q, r)
  BY <1>1, <1>3, <1>4 DEF Carries, HasDocument, HasAnswer, InRows
<1>6. (Holds(q) => Holds(r)) /\ (Certain(q) => Certain(r))
  BY <1>5, CarriesOn
<1>7. Do(s, r)
  BY <1>2 DEF To
<1> QED
  BY <1>1, <1>3, <1>4, <1>6, <1>7, AppGoesOn DEF At

LEMMA AppRegisterGrows ==
    ASSUME UInv, NEW s \in Slots, AppRegister(s) PROVE GrowsBy(s)
<1>1. /\ At(s, {"app", "consent"}, "post") /\ req[s].pc = "post"
      /\ UNCHANGED <<users, nextDoc, cm, saves, rough>>
  BY DEF AppRegister, At, userVars
<1>2. rough \subseteq rough' /\ rough' \subseteq Causes
  BY <1>1, RoughTyped DEF UInv
<1>3. CASE Goes /\ To(s, "find")
  BY <1>1, <1>2, <1>3, AppMovesTo
<1>4. CASE Fails /\ Ends(s)
  BY <1>1, <1>4, AppEnds
<1> QED
  BY <1>3, <1>4 DEF AppRegister

LEMMA ConsentAskGrows ==
    ASSUME UInv, NEW s \in Slots, ConsentAsk(s) PROVE GrowsBy(s)
<1>1. /\ At(s, {"app", "consent"}, req[s].pc) /\ req[s].pc # "save" /\ Ends(s)
      /\ UNCHANGED <<users, nextDoc, cm, saves, rough>> /\ (Goes \/ Fails)
  BY DEF ConsentAsk, At, userVars
<1> QED
  BY <1>1, AppEnds

LEMMA AppFindGrows ==
    ASSUME UInv, NEW s \in Slots, AppFind(s) PROVE GrowsBy(s)
<1> DEFINE q == req[s]
           n == DocWithEmail(q.who)
<1>1. /\ At(s, {"app", "consent"}, "find") /\ q.pc = "find" /\ q.op = "app"
      /\ UNCHANGED <<users, nextDoc, cm, saves, rough>> /\ Goes
  BY DEF AppFind, At, userVars, Continues
<1>2. rough \subseteq rough' /\ rough' \subseteq Causes
  BY <1>1, RoughTyped DEF UInv
<1>3. CASE n = 0
  <2>1. To(s, "insert")
    BY <1>3 DEF AppFind, To
  <2> QED
    BY <1>1, <1>2, <2>1, AppMovesTo
<1>4. CASE n # 0
  <2>1. users \in Seq(User) /\ q \in UserRequest
    BY <1>1 DEF UInv, Own, StoresTyped, UserRequestsTyped, UserOps, Handlers
  <2>2. n \in 1..Len(users)
    BY <1>4, <2>1, DocWithEmailFinds, UserFields
  <2>3. PICK u : u = users[n].who
    OBVIOUS
  <2>4. u \in Users
    BY <2>1, <2>2, <2>3, UserFields
  <2>5. PICK r : r = WithUser(q, "resume", u)
    OBVIOUS
  <2>6. r \in UserRequest /\ r.pc = "resume" /\ Alike(q, r, {"pc", "who"})
    <3>1. "resume" \in Pcs
      BY DEF Pcs
    <3> QED
      BY <2>1, <2>4, <2>5, <3>1, GoesWithUser
  <2>7. r.op = "app"
    BY <1>1, <2>6 DEF Alike
  <2>8. Holds(r) /\ Certain(r)
    BY <2>6, <2>7, AppNeedsLittle
  <2>9. Do(s, r)
    BY <1>4, <2>3, <2>5 DEF AppFind, WithUser
  <2> QED
    BY <1>1, <1>2, <2>6, <2>7, <2>8, <2>9, AppGoesOn
<1> QED
  BY <1>3, <1>4

LEMMA ResumeFindGrows ==
    ASSUME UInv, NEW s \in Slots, ResumeFind(s) PROVE GrowsBy(s)
<1> DEFINE q == req[s]
           n == DocOf(q.who)
<1>1. /\ At(s, {"app", "consent"}, "resume") /\ q.pc = "resume" /\ q.op = "app"
      /\ UNCHANGED <<users, nextDoc, cm, saves, rough>> /\ Goes
  BY DEF ResumeFind, At, userVars, Continues
<1>2. rough \subseteq rough' /\ rough' \subseteq Causes
  BY <1>1, RoughTyped DEF UInv
<1>3. CASE n = 0
  <2>1. Ends(s)
    BY <1>3 DEF ResumeFind
  <2> QED
    BY <1>1, <2>1, AppEnds
<1>4. CASE n # 0
  <2>1. users \in Seq(User) /\ q \in UserRequest
    BY <1>1 DEF UInv, Own, StoresTyped, UserRequestsTyped, UserOps, Handlers
  <2>2. /\ n \in 1..Len(users) /\ users[n].who = q.who
        /\ \A m \in 1..(n - 1) : users[m].who # q.who
    BY <1>4, <2>1, DocOfFinds
  <2>3. PICK d : d = users[n].id
    OBVIOUS
  <2>4. d \in Nat
    BY <2>1, <2>2, <2>3, UserFields
  <2>5. PICK r : r = WithDocument(q, "auth", d)
    OBVIOUS
  <2>6. r \in UserRequest /\ r.pc = "auth" /\ r.doc = d /\ Alike(q, r, {"pc", "doc"})
    <3>1. "auth" \in Pcs
      BY DEF Pcs
    <3> QED
      BY <2>1, <2>4, <2>5, <3>1, GoesWithDocument
  <2>7. r.op = "app" /\ r.who = q.who
    BY <1>1, <2>6 DEF Alike
  <2>8. Names(d, q.who)
    BY <2>2, <2>3 DEF Names, UInv, Own, DocumentsDiffer
  <2>9. IsFirst(d)
    BY <2>2, <2>3 DEF IsFirst
  <2>10. ~HasAnswer(r)
    BY <2>7 DEF HasAnswer
  <2>11. Holds(r) /\ Certain(r)
    BY <2>6, <2>7, <2>8, <2>9, <2>10 DEF Holds, Certain
  <2>12. Do(s, r)
    BY <1>4, <2>3, <2>5 DEF ResumeFind, WithDocument
  <2> QED
    BY <1>1, <1>2, <2>6, <2>7, <2>11, <2>12, AppGoesOn
<1> QED
  BY <1>3, <1>4

\* Asking for the consents, with or without a token.
LEMMA AppAsks ==
    ASSUME UInv, NEW s \in Slots, NEW pc \in {"auth", "login"},
           At(s, {"app", "consent"}, pc), Goes,
           UNCHANGED <<users, nextDoc, cm, saves, rough>>,
           NEW b \in BOOLEAN, Do(s, WithToken(req[s], "ask", b))
    PROVE  GrowsBy(s)
<1> DEFINE q == req[s]
<1>1. q \in UserRequest /\ q.op \in {"app", "consent"} /\ q.pc = pc
  BY DEF UInv, At, Own, UserRequestsTyped, Handlers, UserOps
<1>2. PICK r : r = WithToken(q, "ask", b)
  OBVIOUS
<1>3. r \in UserRequest /\ r.pc = "ask" /\ Alike(q, r, {"pc", "jwt"})
  <2>1. "ask" \in Pcs
    BY DEF Pcs
  <2> QED
    BY <1>1, <1>2, <2>1, GoesWithToken
<1>4. r.op = q.op
  BY <1>3 DEF Alike
<1>5. Carries(q, r)
  BY <1>1, <1>3, <1>4 DEF Carries, HasDocument, HasAnswer, InRows
<1>6. (Holds(q) => Holds(r)) /\ (Certain(q) => Certain(r))
  BY <1>5, CarriesOn
<1>7. rough \subseteq rough' /\ rough' \subseteq Causes
  BY RoughTyped DEF UInv
<1>8. Do(s, r)
  BY <1>2
<1> QED
  BY <1>1, <1>3, <1>4, <1>6, <1>7, <1>8, AppGoesOn DEF At

LEMMA VerifyAuthGrows ==
    ASSUME UInv, NEW s \in Slots, VerifyConsentAuth(s) PROVE GrowsBy(s)
<1>1. /\ At(s, {"app", "consent"}, "auth")
      /\ UNCHANGED <<users, nextDoc, cm, saves, rough>> /\ Goes
  BY DEF VerifyConsentAuth, userVars, Continues
<1>2. rough \subseteq rough' /\ rough' \subseteq Causes
  BY <1>1, RoughTyped DEF UInv
<1>3. CASE To(s, "login") \/ To(s, "ask")
  BY <1>1, <1>2, <1>3, AppMovesTo
<1>4. CASE Do(s, [req[s] EXCEPT !.pc = "ask", !.jwt = TRUE])
  <2>1. Do(s, WithToken(req[s], "ask", TRUE))
    BY <1>4 DEF WithToken
  <2> QED
    BY <1>1, <2>1, AppAsks
<1> QED
  BY <1>3, <1>4 DEF VerifyConsentAuth

LEMMA ParticipantLoginGrows ==
    ASSUME UInv, NEW s \in Slots, ConsentServiceParticipantLogin(s) PROVE GrowsBy(s)
<1>1. At(s, {"app", "consent"}, "login") /\ UNCHANGED <<users, nextDoc, cm, saves>>
  BY DEF ConsentServiceParticipantLogin
<1>2. ASSUME rough' = rough \/ rough' = rough \cup {"refused"}, Goes \/ Fails, To(s, "ask")
      PROVE  GrowsBy(s)
  <2>1. rough \subseteq rough' /\ rough' \subseteq Causes
    BY <1>2, RoughTyped DEF UInv
  <2> QED
    BY <1>1, <1>2, <2>1, AppMovesTo
<1>3. ASSUME NEW b \in BOOLEAN, Goes, rough' = rough, Do(s, WithToken(req[s], "ask", b))
      PROVE  GrowsBy(s)
  BY <1>1, <1>3, AppAsks
<1>4. CASE NoConf
  <2>1. (~NoConf) = FALSE
    BY <1>4
  <2> QED
    BY <1>2, <1>3, <2>1 DEF ConsentServiceParticipantLogin, WithToken
<1>5. CASE ~NoConf
  <2>1. (~NoConf) = TRUE
    BY <1>5
  <2> QED
    BY <1>2, <1>3, <2>1 DEF ConsentServiceParticipantLogin, WithToken
<1> QED
  BY <1>4, <1>5

LEMMA OutsideStays ==
    ASSUME NEW S, NEW c \in Seq(S), NEW i, i \notin 1..Len(c), NEW x PROVE [c EXCEPT ![i] = x] = c
<1>1. DOMAIN c = 1..Len(c) /\ c = [j \in 1..Len(c) |-> c[j]]
  BY LenProperties
<1> QED
  BY <1>1

LEMMA UpdateGrows ==
    ASSUME UInv, NEW s \in Slots, UpdateIdentifier(s) PROVE GrowsBy(s)
<1> DEFINE q == req[s]
<1>1. Own /\ cm \in Seq(Identifier)
  BY DEF UInv, Own, StoresTyped
<1>2. Busy(s) /\ q \in UserRequest /\ q.op = "update"
  <2>1. {"update"} \in SUBSET UserOps /\ At(s, {"update"}, "call")
    BY DEF UserOps, UpdateIdentifier
  <2> QED
    BY <1>1, <2>1, AtWorkOn
<1>3. KeepsUsers /\ saves' = saves
  BY <1>1, UsersStay DEF UpdateIdentifier
<1>4. rough \subseteq rough' /\ rough' \subseteq Causes
  BY <1>1, RoughTyped DEF UpdateIdentifier
<1>5. /\ Goes \/ Fails
      /\ Ends(s)
      /\ cm' = cm \/ cm' = [cm EXCEPT ![q.idf].email = q.who]
  BY DEF UpdateIdentifier, Calls
<1>6. \A i : ~Claims(q, i)
  BY <1>2 DEF Claims, HasAnswer
<1>7. Kept(0) /\ Len(cm') = Len(cm)
  <2>1. CASE cm' = cm
    BY <1>1, <1>4, <2>1, IdentifiersStay DEF SameIdentifiers
  <2>2. CASE cm' = [cm EXCEPT ![q.idf].email = q.who] /\ q.idf \in 1..Len(cm)
    <3>1. q.who \in Users
      BY <1>2, RequestFields
    <3> QED
      BY <1>1, <1>4, <2>2, <3>1, IdentifierEmailSet DEF SameIdentifiers
  <2>3. CASE cm' = [cm EXCEPT ![q.idf].email = q.who] /\ q.idf \notin 1..Len(cm)
    <3>1. cm' = cm
      BY <1>1, <2>3, OutsideStays
    <3> QED
      BY <2>1, <3>1
  <2> QED
    BY <1>5, <2>1, <2>2, <2>3
<1> QED
  BY <1>2, <1>3, <1>4, <1>5, <1>6, <1>7, EndsQuietly
-----------------------------------------------------------------------------
(* Requests that store a new document, or that the manager answers            *)

LEMMA NewDocument ==
    ASSUME Own, NEW u, NEW i, Adds(u, i)
    PROVE  /\ NamesNext(nextDoc + 1, u)
           /\ (\A n \in 1..Len(users) : users[n].who # u) => IsFirstNext(nextDoc + 1)
<1>1. Len(users) \in Nat /\ nextDoc \in Nat
  BY UserFields DEF Own, StoresTyped
<1>2. \A n \in 1..Len(users) : users[n].id \in 1..nextDoc /\ users'[n] = users[n]
  BY DEF Own, DocumentsDiffer, Adds
<1>3. \A n \in 1..Len(users) : users'[n].id # nextDoc + 1
  BY <1>1, <1>2
<1>4. NamesNext(nextDoc + 1, u)
  <2>1. nextDoc + 1 \in 1..nextDoc'
    BY <1>1 DEF Adds
  <2>2. ASSUME NEW n \in 1..Len(users'), users'[n].id = nextDoc + 1 PROVE users'[n].who = u
    <3>1. n = Len(users) + 1
      BY <1>1, <1>3, <2>2 DEF Adds
    <3> QED
      BY <3>1 DEF Adds
  <2> QED
    BY <2>1, <2>2 DEF NamesNext
<1>5. ASSUME \A n \in 1..Len(users) : users[n].who # u PROVE IsFirstNext(nextDoc + 1)
  <2>1. /\ Len(users) + 1 \in 1..Len(users') /\ users'[Len(users) + 1].id = nextDoc + 1
        /\ users'[Len(users) + 1].who = u
        /\ \A m \in 1..((Len(users) + 1) - 1) : m \in 1..Len(users)
    BY <1>1 DEF Adds
  <2>2. \A m \in 1..((Len(users) + 1) - 1) : users'[m].who # users'[Len(users) + 1].who
    BY <1>2, <1>5, <2>1
  <2> QED
    BY <2>1, <2>2 DEF IsFirstNext
<1> QED
  BY <1>4, <1>5

LEMMA CreateInsertGrows ==
    ASSUME UInv, NEW s \in Slots, CreateInsert(s) PROVE GrowsBy(s)
<1> DEFINE q == req[s]
<1>1. Own /\ ProcessOK /\ Goes /\ users \in Seq(User) /\ nextDoc \in Nat
  BY DEF UInv, CInv, CreateInsert, Continues, Own, StoresTyped
<1>2. Busy(s) /\ q \in UserRequest /\ q.op = "create" /\ q.pc = "insert"
  <2>1. {"create"} \in SUBSET UserOps /\ At(s, {"create"}, "insert")
    BY DEF UserOps, CreateInsert
  <2> QED
    BY <1>1, <2>1, AtWorkOn
<1>3. PICK u, d : u = q.who /\ d = nextDoc + 1
  OBVIOUS
<1>4. u \in Users /\ d \in Nat
  BY <1>1, <1>2, <1>3, RequestFields
<1>5. Adds(u, NoIdentifier) /\ Comes(u, NoIdentifier)
  BY <1>1, <1>3, <1>4, DocumentAdded DEF CreateInsert, Comes, NoIdentifier
<1>6. PICK r : r = WithDocument(q, "login", d)
  OBVIOUS
<1>7. r \in UserRequest /\ r.pc = "login" /\ r.doc = d /\ Alike(q, r, {"pc", "doc"})
  <2>1. "login" \in Pcs
    BY DEF Pcs
  <2> QED
    BY <1>2, <1>4, <1>6, <2>1, GoesWithDocument
<1>8. r.op = "create" /\ r.who = u
  BY <1>2, <1>3, <1>7 DEF Alike
<1>9. Do(s, r) /\ cm' = cm /\ saves' = saves /\ rough' = rough
  BY <1>3, <1>6 DEF CreateInsert, WithDocument
<1>10. /\ Took(s, r)
       /\ Undisturbed' => Certain(q) /\ (saves # {} => InRows(q))
  BY <1>1, <1>2, <1>7, <1>9, RoughTyped, WentOn DEF UInv, UserSet
<1>11. Kept(0) /\ Len(cm') = Len(cm)
  BY <1>9, IdentifiersStay DEF Own, UInv, StoresTyped, SameIdentifiers
<1>12. ~HasAnswer(r) /\ LoggedIn(r) /\ ~InRows(q) /\ \A i : ~Claims(q, i)
  BY <1>2, <1>7, <1>8 DEF HasAnswer, LoggedIn, InRows, Claims
<1>13. Holds(r)'
  <2>1. NamesNext(r.doc, r.who)
    BY <1>1, <1>3, <1>5, <1>7, <1>8, NewDocument
  <2> QED
    BY <1>8, <2>1, <1>12 DEF Holds, Names, NamesNext, HasAnswer
<1>14. Undisturbed' => Certain(r)'
  <2>1. Undisturbed' => IsFirstNext(r.doc)
    BY <1>1, <1>2, <1>3, <1>5, <1>7, <1>10, NewDocument DEF Certain
  <2> QED
    BY <1>7, <1>8, <2>1, <1>12 DEF Certain, IsFirst, IsFirstNext, HasAnswer
<1>15. Grows(s, r)
  BY <1>5, <1>9, <1>10, <1>11, <1>12, <1>13, <1>14 DEF Grows
<1> QED
  BY <1>10, <1>15 DEF GrowsBy

LEMMA AppInsertGrows ==
    ASSUME UInv, NEW s \in Slots, AppInsert(s) PROVE GrowsBy(s)
<1> DEFINE q == req[s]
<1>1. Own /\ ProcessOK /\ Goes /\ users \in Seq(User) /\ nextDoc \in Nat
  BY DEF UInv, CInv, AppInsert, Continues, Own, StoresTyped
<1>2. Busy(s) /\ q \in UserRequest /\ q.op = "app" /\ q.pc = "insert"
  <2>1. {"app"} \in SUBSET UserOps /\ At(s, {"app"}, "insert")
    BY DEF UserOps, AppInsert
  <2> QED
    BY <1>1, <2>1, AtWorkOn
<1>3. PICK u : u = q.who
  OBVIOUS
<1>4. u \in Users
  BY <1>2, <1>3, RequestFields
<1>5. Adds(u, NoIdentifier) /\ Comes(u, NoIdentifier)
  BY <1>1, <1>3, <1>4, DocumentAdded DEF AppInsert, Comes, NoIdentifier
<1>6. PICK r : r = [q EXCEPT !.pc = "resume"]
  OBVIOUS
<1>7. r \in UserRequest /\ r.pc = "resume" /\ Alike(q, r, {"pc"})
  BY <1>2, <1>6, SetPc DEF Pcs
<1>8. r.op = "app"
  BY <1>2, <1>7 DEF Alike
<1>9. Do(s, r) /\ cm' = cm /\ saves' = saves /\ rough' = rough
  BY <1>6 DEF AppInsert, To
<1>10. Took(s, r) /\ (Undisturbed' => (saves # {} => InRows(q)))
  BY <1>1, <1>2, <1>7, <1>9, RoughTyped, WentOn DEF UInv, UserSet
<1>11. Kept(0) /\ Len(cm') = Len(cm)
  BY <1>9, IdentifiersStay DEF Own, UInv, StoresTyped, SameIdentifiers
<1>12. LoggedIn(r) /\ ~InRows(q) /\ (\A i : ~Claims(q, i)) /\ Holds(r)
  BY <1>2, <1>7, <1>8, AppNeedsLittle
<1>13. Holds(r)'
  BY <1>1, <1>5, <1>11, <1>12, HoldsStep DEF UsersMove, Own
<1>14. Certain(r)'
  BY <1>7, <1>8 DEF Certain, HasDocument, HasAnswer
<1>15. Grows(s, r)
  BY <1>5, <1>9, <1>10, <1>11, <1>12, <1>13, <1>14 DEF Grows
<1> QED
  BY <1>10, <1>15 DEF GrowsBy

\* The manager has registered user u: i is the live identifier it answers.
LEMMA RegisteredOne ==
    ASSUME Own, rough \subseteq rough', NEW u \in Users, cm' = Registered(cm, u),
           NEW i, i = IdentifierOf(cm', u)
    PROVE  /\ Kept(0) /\ OwnedNext(i, u) /\ i \in Nat /\ cm'[i].live /\ cm'[i].who = u
           /\ \A j \in 1..Len(cm') : cm'[j].live => j \in 1..Len(cm) \/ j = i
<1>1. cm \in Seq(Identifier) /\ Unique(cm)
  BY DEF Own, StoresTyped, OneLiveEach, Unique
<1>2. Extends(cm, cm') /\ NewOf(cm, cm', {u}) /\ i # 0
  BY <1>1, RegisteredGives
<1>3. cm' \in Seq(Identifier) /\ Unique(cm')
  BY <1>1, <1>2 DEF Extends
<1>4. i \in Nat /\ i \in 1..Len(cm') /\ cm'[i].who = u /\ cm'[i].live
  BY <1>2, <1>3, IdentifierOfFinds
<1>5. ASSUME NEW j \in 1..Len(cm'), cm'[j].live, j \notin 1..Len(cm) PROVE j = i
  <2>1. Len(cm) \in Nat
    BY <1>1, LengthsAreNumbers
  <2>2. j > Len(cm)
    BY <1>5, <2>1
  <2>3. cm'[j].who = u
    BY <1>2, <2>2 DEF NewOf
  <2> QED
    BY <1>3, <1>4, <1>5, <2>3 DEF Unique
<1> QED
  BY <1>2, <1>4, <1>5, IdentifiersAdded DEF OwnedNext

LEMMA Refused ==
    ASSUME UInv, NEW s \in Slots, LoggedIn(req[s]) => req[s].jwt,
           Fails \/ (Goes /\ ~req[s].jwt), rough' = rough
    PROVE  ~Smooth'
<1>1. ProcessOK /\ Accord /\ rough \subseteq rough'
  BY DEF UInv, CInv
<1>2. CASE Fails
  BY <1>1, <1>2, SmoothStep
<1>3. CASE Goes /\ ~req[s].jwt
  BY <1>1, <1>3, SmoothStep DEF Accord, SmoothFacts
<1> QED
  BY <1>2, <1>3

LEMMA MaybeRegistered ==
    ASSUME Own, rough \subseteq rough', NEW u \in Users, cm' \in {cm, Registered(cm, u)}
    PROVE  Kept(0)
BY IdentifiersStay, RegisteredOne DEF Own, StoresTyped, SameIdentifiers

LEMMA CreateRegisterGrows ==
    ASSUME UInv, NEW s \in Slots, CreateRegister(s) PROVE GrowsBy(s)
<1> DEFINE q == req[s]
<1>1. Own /\ (Goes \/ Fails) /\ rough' = rough
  BY DEF UInv, CreateRegister, Calls
<1>2. Busy(s) /\ q \in UserRequest /\ q.op = "create" /\ q.pc = "call"
  <2>1. {"create"} \in SUBSET UserOps /\ At(s, {"create"}, "call")
    BY DEF UserOps, CreateRegister
  <2> QED
    BY <1>1, <2>1, AtWorkOn
<1>3. PICK u, d : u = q.who /\ d = q.doc
  OBVIOUS
<1>4. u \in Users /\ d \in Nat
  BY <1>2, <1>3, RequestFields
<1>5. KeepsUsers
  BY <1>1, UsersStay DEF CreateRegister
<1>6. rough \subseteq rough' /\ rough' \subseteq Causes
  BY <1>1, RoughTyped
<1>7. CASE /\ Goes /\ cm' = Registered(cm, u) /\ Ends(s)
           /\ saves' = saves \cup {[doc |-> d, idf |-> IdentifierOf(Registered(cm, u), u)]}
  <2>1. PICK i : i = IdentifierOf(cm', u)
    OBVIOUS
  <2>2. /\ Kept(0) /\ OwnedNext(i, u) /\ i \in Nat /\ cm'[i].live
        /\ \A j \in 1..Len(cm') : cm'[j].live => j \in 1..Len(cm) \/ j = i
    BY <1>1, <1>4, <1>7, <1>6, <2>1, RegisteredOne
  <2>3. PICK v : v = [doc |-> d, idf |-> i]
    OBVIOUS
  <2>4. v \in [doc : Nat, idf : Nat] /\ v.doc = d /\ v.idf = i
    BY <1>4, <2>2, <2>3
  <2>5. saves' = saves \cup {v}
    BY <1>7, <2>1, <2>3
  <2>6. /\ Took(s, Idle) /\ Holds(q)
        /\ Undisturbed' => Certain(q) /\ (saves # {} => InRows(q))
    BY <1>1, <1>2, <1>6, <1>7, IdleIsFree, WentOn DEF UInv, CInv, Ends
  <2>7. HasDocument(q)
    BY <1>2 DEF HasDocument
  <2>8. NamesNext(d, u)
    BY <1>1, <1>3, <1>5, <2>2, <2>6, <2>7, NamesStep DEF Holds, Own, UsersMove, KeepsUsers
  <2>9. Undisturbed' => IsFirstNext(d)
    BY <1>1, <1>3, <1>5, <2>6, <2>7, IsFirstKept DEF Certain, Own
  <2>10. MakesSave(v)
    BY <2>2, <2>4, <2>8, <2>9 DEF MakesSave, NewSave, OwnedNext, NamesNext
  <2>11. Holds(Idle)' /\ Certain(Idle)'
    BY IdleHolds, IdleIsFree, NothingCertain
  <2>12. \A j : ~Claims(q, j)
    BY <1>2 DEF Claims, HasAnswer
  <2>13. \A j \in 1..Len(cm') : cm'[j].live =>
              (j \in 1..Len(cm) /\ ~Claims(q, j)) \/ \E w \in saves' : w.idf = j
    BY <2>2, <2>4, <2>5, <2>12
  <2>14. Grows(s, Idle)
    BY <1>5, <2>2, <2>5, <2>10, <2>11, <2>13, IdleIsFree DEF Grows
  <2> QED
    BY <2>6, <2>14 DEF GrowsBy
<1>8. CASE /\ (Goes /\ ~q.jwt) \/ Fails
           /\ cm' \in {cm, Registered(cm, u)} /\ To(s, "undo") /\ saves' = saves
  <2>1. Kept(0)
    BY <1>1, <1>4, <1>6, <1>8, MaybeRegistered
  <2>2. LoggedIn(q) => q.jwt
    BY <1>2 DEF LoggedIn
  <2>3. ~Smooth'
    BY <1>1, <1>8, <2>2, Refused
  <2>4. PICK r : r = [q EXCEPT !.pc = "undo"]
    OBVIOUS
  <2>5. r \in UserRequest /\ r.pc = "undo" /\ Alike(q, r, {"pc"})
    BY <1>2, <2>4, SetPc DEF Pcs
  <2>6. r.op = q.op /\ Alike(q, r, {"pc", "jwt"})
    BY <2>5 DEF Alike
  <2>7. Carries(q, r)
    BY <1>2, <2>5, <2>6 DEF Carries, HasDocument, HasAnswer, InRows
  <2>8. Do(s, r)
    BY <1>8, <2>4 DEF To
  <2> QED
    BY <1>1, <1>2, <1>5, <1>6, <1>8, <2>1, <2>3, <2>5, <2>7, <2>8, GoesOnQuietly
<1> QED
  BY <1>3, <1>7, <1>8 DEF CreateRegister, Calls

LEMMA ResumeGrows ==
    ASSUME UInv, NEW s \in Slots, ConsentServiceResume(s) PROVE GrowsBy(s)
<1> DEFINE q == req[s]
<1>1. Own /\ (Goes \/ Fails) /\ rough' = rough /\ saves' = saves
  BY DEF UInv, ConsentServiceResume, Calls
<1>2. Busy(s) /\ q \in UserRequest /\ q.op = "app" /\ q.pc = "ask"
  <2>1. {"app"} \in SUBSET UserOps /\ At(s, {"app"}, "ask")
    BY DEF UserOps, ConsentServiceResume
  <2> QED
    BY <1>1, <2>1, AtWorkOn
<1>3. PICK u : u = q.who
  OBVIOUS
<1>4. u \in Users
  BY <1>2, <1>3, RequestFields
<1>5. KeepsUsers
  BY <1>1, UsersStay DEF ConsentServiceResume
<1>6. rough \subseteq rough' /\ rough' \subseteq Causes
  BY <1>1, RoughTyped
<1>7. \A j : ~Claims(q, j)
  BY <1>2, AppNeedsLittle
<1>8. CASE /\ Goes /\ cm' = Registered(cm, u)
           /\ Do(s, WithIdentifier(q, "save", IdentifierOf(Registered(cm, u), u)))
  <2>1. PICK i : i = IdentifierOf(cm', u)
    OBVIOUS
  <2>2. /\ Kept(0) /\ OwnedNext(i, u) /\ i \in Nat /\ cm'[i].live
        /\ \A j \in 1..Len(cm') : cm'[j].live => j \in 1..Len(cm) \/ j = i
    BY <1>1, <1>4, <1>8, <1>6, <2>1, RegisteredOne
  <2>3. PICK r : r = WithIdentifier(q, "save", i)
    OBVIOUS
  <2>4. r \in UserRequest /\ r.pc = "save" /\ r.idf = i /\ Alike(q, r, {"pc", "idf"})
    <3>1. "save" \in Pcs
      BY DEF Pcs
    <3> QED
      BY <1>2, <2>2, <2>3, <3>1, GoesWithIdentifier
  <2>5. r.op = "app" /\ r.who = u /\ r.doc = q.doc
    BY <1>2, <1>3, <2>4 DEF Alike
  <2>6. Do(s, r)
    BY <1>8, <2>1, <2>3
  <2>7. /\ Took(s, r) /\ Holds(q)
        /\ Undisturbed' => Certain(q) /\ (saves # {} => InRows(q))
    BY <1>1, <1>2, <1>6, <2>4, <2>6, WentOn DEF UInv, CInv, UserSet
  <2>8. HasDocument(q)
    BY <1>2 DEF HasDocument
  <2>9. NamesNext(r.doc, u)
    BY <1>1, <1>3, <1>5, <2>2, <2>5, <2>7, <2>8, NamesStep DEF Holds, Own, UsersMove, KeepsUsers
  <2>10. Undisturbed' => IsFirstNext(r.doc)
    BY <1>1, <1>5, <2>5, <2>7, <2>8, IsFirstKept DEF Certain, Own
  <2>11. ~HasAnswer(r) /\ LoggedIn(r) /\ ~InRows(q) /\ Claims(r, i)
    BY <1>2, <2>4, <2>5 DEF HasAnswer, LoggedIn, InRows, Claims
  <2>12. Holds(r)'
    BY <2>2, <2>4, <2>5, <2>9, <2>11
       DEF Holds, Names, NamesNext, Owned, OwnedNext, HasAnswer
  <2>13. Undisturbed' => Certain(r)'
    BY <2>2, <2>4, <2>5, <2>10, <2>11 DEF Certain, IsFirst, IsFirstNext, Live, HasAnswer
  <2>14. Grows(s, r)
    BY <1>1, <1>5, <1>7, <2>2, <2>7, <2>11, <2>12, <2>13 DEF Grows
  <2> QED
    BY <2>7, <2>14 DEF GrowsBy
<1>9. CASE /\ Ends(s)
           /\ \/ Goes /\ ~q.jwt /\ cm' = cm
              \/ Fails /\ cm' \in {cm, Registered(cm, u)}
  <2>1. Kept(0)
    BY <1>1, <1>4, <1>6, <1>9, MaybeRegistered
  <2>2. Smooth' => Len(cm') = Len(cm)
    BY <1>6, <1>9, SmoothStep DEF UInv, CInv
  <2> QED
    BY <1>1, <1>2, <1>5, <1>6, <1>7, <1>9, <2>1, <2>2, EndsQuietly
<1> QED
  BY <1>1, <1>3, <1>8, <1>9 DEF ConsentServiceResume, Calls, WithIdentifier

\* The manager names a user u, with identifier i of that user.
LEMMA FromConsentBegins ==
    ASSUME Own, NEW s \in Slots, NEW u \in Users, CreateUserFromConsent(s, u) PROVE GrowsBy(s)
<1>1. PICK c : c = Registered(cm, u)
  OBVIOUS
<1>2. PICK i \in DOMAIN c :
          /\ c[i].who = u
          /\ BeginsWith(s, IF DocOf(u) # 0 \/ ~c[i].live THEN {"named"} ELSE {})
          /\ cm' = IF c[i].live THEN c ELSE cm
          /\ users' = Added(u, i) /\ nextDoc' = nextDoc + 1 /\ req' = req /\ saves' = saves
  BY <1>1 DEF CreateUserFromConsent
<1>3. PICK more : more = IF DocOf(u) # 0 \/ ~c[i].live THEN {"named"} ELSE {}
  OBVIOUS
<1>4. more \in SUBSET Causes /\ BeginsWith(s, more)
  BY <1>2, <1>3 DEF Causes
<1>5. req[s] = Idle /\ Do(s, Idle)
  BY <1>2, SameAsIdle DEF Own, BeginsWith, Begin, Free
<1>6. Took(s, Idle) /\ more \subseteq rough' /\ (Undisturbed' => saves = {})
  BY <1>4, <1>5, IdleIsFree, BeganWith
<1>7. rough \subseteq rough'
  BY <1>6 DEF Took
<1>8. Undisturbed' \/ Smooth' => DocOf(u) = 0 /\ c[i].live
  BY <1>3, <1>6 DEF Undisturbed, Smooth
<1>9. users \in Seq(User) /\ nextDoc \in Nat /\ cm \in Seq(Identifier) /\ Unique(cm)
  BY DEF Own, StoresTyped, OneLiveEach, Unique
<1>10. Extends(cm, c) /\ NewOf(cm, c, {u})
  BY <1>1, <1>9, RegisteredGives
<1>11. c \in Seq(Identifier) /\ Unique(c) /\ Len(c) \in Nat /\ Len(cm) \in Nat
  BY <1>9, <1>10, LengthsAreNumbers DEF Extends
<1>12. i \in 1..Len(c) /\ i \in Nat
  BY <1>11, LenProperties
\* The manager's answer: an identifier it may have made for u, live or not.
<1>13. /\ Kept(0) /\ OwnedNext(i, u) /\ (c[i].live => cm'[i].live)
       /\ \A j \in 1..Len(cm') : cm'[j].live => j \in 1..Len(cm) \/ j = i
  <2>1. CASE c[i].live
    <3>1. cm' = c
      BY <1>2, <2>1
    <3>2. \A j \in 1..Len(c) : c[j].live => j \in 1..Len(cm) \/ j = i
      <4> SUFFICES ASSUME NEW j \in 1..Len(c), c[j].live, j \notin 1..Len(cm) PROVE j = i
        OBVIOUS
      <4>1. c[j].who = u
        BY <1>10, <1>11 DEF NewOf
      <4> QED
        BY <1>2, <1>11, <1>12, <2>1, <4>1 DEF Unique
    <3> QED
      BY <1>2, <1>7, <1>10, <1>12, <3>1, <3>2, IdentifiersAdded DEF OwnedNext
  <2>2. CASE ~c[i].live
    <3>1. cm' = cm
      BY <1>2, <2>2
    <3>2. i \in 1..Len(cm) /\ cm[i].who = u
      <4>1. ~(i > Len(cm))
        BY <1>10, <1>12, <2>2 DEF Extends
      <4>2. i \in 1..Len(cm)
        BY <1>11, <1>12, <4>1
      <4> QED
        BY <1>2, <1>10, <4>2 DEF Extends
    <3> QED
      BY <1>7, <1>9, <2>2, <3>1, <3>2, IdentifiersStay DEF OwnedNext, SameIdentifiers
  <2> QED
    BY <2>1, <2>2
<1>14. Adds(u, i)
  BY <1>2, <1>9, <1>12, DocumentAdded
<1>15. Comes(u, i)
  BY <1>8, <1>9, <1>13, <1>14, DocOfFinds DEF Comes
<1>16. Holds(Idle)' /\ Certain(Idle)'
  BY IdleHolds, IdleIsFree, NothingCertain
<1>17. \A j : ~Claims(req[s], j)
  BY <1>5, IdleIsFree
<1>18. \E n \in 1..Len(users') : users'[n].idf = i
  <2>1. Len(users) \in Nat
    BY <1>9, UserFields
  <2> QED
    BY <1>14, <2>1 DEF Adds
<1>19. Grows(s, Idle)
  BY <1>2, <1>13, <1>15, <1>16, <1>17, <1>18, IdleIsFree DEF Grows
<1> QED
  BY <1>6, <1>19 DEF GrowsBy

\* The manager has registered the rows of a sheet; ids is what it answers.
AnswerFor(c, rows) == [u \in Users |-> IF u \in ToSet(rows) THEN IdentifierOf(c, u) ELSE 0]

LEMMA RegisteredRows ==
    ASSUME Own, rough \subseteq rough', NEW rows \in Seq(Users), cm' = AllRegistered(cm, rows),
           NEW ids, ids = AnswerFor(cm', rows)
    PROVE  /\ Kept(0) /\ ids \in [Users -> Nat]
           /\ \A k \in 1..Len(rows) : OwnedNext(ids[rows[k]], rows[k]) /\ cm'[ids[rows[k]]].live
           /\ \A j \in 1..Len(cm') : cm'[j].live =>
                  j \in 1..Len(cm) \/ \E k \in 1..Len(rows) : ids[rows[k]] = j
<1>1. cm \in Seq(Identifier) /\ Unique(cm)
  BY DEF Own, StoresTyped, OneLiveEach, Unique
<1>2. /\ Extends(cm, cm') /\ NewOf(cm, cm', {rows[k] : k \in 1..Len(rows)})
      /\ \A k \in 1..Len(rows) : IdentifierOf(cm', rows[k]) # 0
  BY <1>1, AllRegisteredGives
<1>3. cm' \in Seq(Identifier) /\ Unique(cm')
  BY <1>1, <1>2 DEF Extends
<1>4. ids \in [Users -> Nat]
  BY <1>3, IdentifierOfFinds DEF AnswerFor
<1>5. \A k \in 1..Len(rows) : rows[k] \in Users /\ rows[k] \in ToSet(rows)
  BY ElementOfSeq, LenProperties DEF ToSet
<1>6. ASSUME NEW k \in 1..Len(rows)
      PROVE  /\ OwnedNext(ids[rows[k]], rows[k])
             /\ cm'[ids[rows[k]]].live /\ cm'[ids[rows[k]]].who = rows[k]
  <2>1. ids[rows[k]] = IdentifierOf(cm', rows[k])
    BY <1>5 DEF AnswerFor
  <2> QED
    BY <1>2, <1>3, <2>1, IdentifierOfFinds DEF OwnedNext
<1>7. ASSUME NEW j \in 1..Len(cm'), cm'[j].live, j \notin 1..Len(cm)
      PROVE  \E k \in 1..Len(rows) : ids[rows[k]] = j
  <2>1. Len(cm) \in Nat
    BY <1>1, LengthsAreNumbers
  <2>2. j > Len(cm)
    BY <1>7, <2>1
  <2>3. PICK k \in 1..Len(rows) : cm'[j].who = rows[k]
    BY <1>2, <2>2 DEF NewOf
  <2>4. PICK i : i = ids[rows[k]]
    OBVIOUS
  <2>5. i \in 1..Len(cm') /\ cm'[i].who = rows[k] /\ cm'[i].live
    BY <1>6, <2>4 DEF OwnedNext
  <2>6. i = j
    BY <1>3, <1>7, <2>3, <2>5 DEF Unique
  <2> QED
    BY <2>4, <2>6
<1> QED
  BY <1>2, <1>4, <1>6, <1>7, IdentifiersAdded

LEMMA MaybeAllRegistered ==
    ASSUME Own, rough \subseteq rough', NEW rows \in Seq(Users),
           cm' \in {cm, AllRegistered(cm, rows)}
    PROVE  Kept(0)
BY IdentifiersStay, AllRegisteredGives, IdentifiersAdded DEF Own, StoresTyped, SameIdentifiers

LEMMA ImportRegisterGrows ==
    ASSUME UInv, NEW s \in Slots, ImportRegister(s) PROVE GrowsBy(s)
<1> DEFINE q == req[s]
<1>1. Own /\ (Goes \/ Fails) /\ rough' = rough /\ saves' = saves
  BY DEF UInv, ImportRegister, Calls
<1>2. Busy(s) /\ q \in UserRequest /\ q.op = "import" /\ q.pc = "call"
  <2>1. {"import"} \in SUBSET UserOps /\ At(s, {"import"}, "call")
    BY DEF UserOps, ImportRegister
  <2> QED
    BY <1>1, <2>1, AtWorkOn
<1>3. PICK rows : rows = q.rows
  OBVIOUS
<1>4. rows \in Seq(Users)
  BY <1>2, <1>3, RequestFields
<1>5. KeepsUsers
  BY <1>1, UsersStay DEF ImportRegister
<1>6. rough \subseteq rough' /\ rough' \subseteq Causes
  BY <1>1, RoughTyped
<1>7. ~HasAnswer(q) /\ ~InRows(q) /\ (LoggedIn(q) => q.jwt) /\ \A j : ~Claims(q, j)
  BY <1>2 DEF HasAnswer, InRows, LoggedIn, Claims
<1>8. ASSUME NEW ids, Goes, q.jwt, cm' = AllRegistered(cm, rows),
             ids = AnswerFor(cm', rows),
             Do(s, WithAnswer(q, "row", ids))
      PROVE  GrowsBy(s)
  <2>1. /\ Kept(0) /\ ids \in [Users -> Nat]
        /\ \A k \in 1..Len(rows) : OwnedNext(ids[rows[k]], rows[k]) /\ cm'[ids[rows[k]]].live
        /\ \A j \in 1..Len(cm') : cm'[j].live =>
               j \in 1..Len(cm) \/ \E k \in 1..Len(rows) : ids[rows[k]] = j
    BY <1>1, <1>4, <1>6, <1>8, RegisteredRows
  <2>2. PICK r : r = WithAnswer(q, "row", ids)
    OBVIOUS
  <2>3. r \in UserRequest /\ r.pc = "row" /\ r.ids = ids /\ Alike(q, r, {"pc", "ids"})
    <3>1. "row" \in Pcs
      BY DEF Pcs
    <3> QED
      BY <1>2, <2>1, <2>2, <3>1, GoesWithAnswer
  <2>4. r.op = "import" /\ r.who = q.who /\ r.rows = rows /\ r.jwt = q.jwt
    BY <1>2, <1>3, <2>3 DEF Alike
  <2>5. Do(s, r)
    BY <1>8, <2>2
  <2>6. /\ Took(s, r) /\ Holds(q)
        /\ Undisturbed' => Certain(q) /\ (saves # {} => InRows(q))
    BY <1>1, <1>2, <1>6, <2>3, <2>5, WentOn DEF UInv, CInv, UserSet
  <2>7. ~HasDocument(r) /\ HasAnswer(r) /\ InRows(r) /\ LoggedIn(r)
    BY <1>8, <2>3, <2>4 DEF HasDocument, HasAnswer, InRows, LoggedIn
  <2>8. Len(r.rows) > 0 /\ r.who = r.rows[1]
    BY <1>2, <1>3, <2>4, <2>6 DEF Holds
  <2>9. Holds(r)'
    BY <2>1, <2>3, <2>4, <2>7, <2>8 DEF Holds, Owned, OwnedNext, HasDocument, HasAnswer
  <2>10. Certain(r)'
    BY <2>1, <2>3, <2>4, <2>7 DEF Certain, Live, HasDocument, HasAnswer
  <2>11. \A j \in 1..Len(cm') : cm'[j].live =>
             (j \in 1..Len(cm) /\ ~Claims(q, j)) \/ Claims(r, j)
    BY <1>7, <2>1, <2>3, <2>4, <2>7 DEF Claims
  <2>12. Grows(s, r)
    BY <1>1, <1>5, <2>1, <2>7, <2>9, <2>10, <2>11 DEF Grows
  <2> QED
    BY <2>6, <2>12 DEF GrowsBy
<1>9. CASE /\ (Goes /\ ~q.jwt) \/ Fails
           /\ cm' \in {cm, AllRegistered(cm, rows)} /\ Do(s, WithToken(q, "row", FALSE))
  <2>1. Kept(0)
    BY <1>1, <1>4, <1>6, <1>9, MaybeAllRegistered
  <2>2. ~Smooth'
    BY <1>1, <1>7, <1>9, Refused
  <2>3. PICK r : r = WithToken(q, "row", FALSE)
    OBVIOUS
  <2>4. r \in UserRequest /\ r.pc = "row" /\ r.jwt = FALSE /\ Alike(q, r, {"pc", "jwt"})
    <3>1. "row" \in Pcs /\ FALSE \in BOOLEAN
      BY DEF Pcs
    <3> QED
      BY <1>2, <2>3, <3>1, GoesWithToken
  <2>5. r.op = "import"
    BY <1>2, <2>4 DEF Alike
  <2>6. Carries(q, r)
    BY <1>2, <1>7, <2>4, <2>5 DEF Carries, HasDocument, HasAnswer, InRows
  <2>7. Do(s, r)
    BY <1>9, <2>3
  <2> QED
    BY <1>1, <1>2, <1>5, <1>6, <2>1, <2>2, <2>4, <2>6, <2>7, GoesOnQuietly
<1>10. CASE Goes /\ q.jwt /\ cm' = AllRegistered(cm, rows)
  <2>1. PICK ids : ids = AnswerFor(cm', rows)
    OBVIOUS
  <2>2. CASE Do(s, WithAnswer(q, "row", ids))
    BY <1>8, <1>10, <2>1, <2>2
  <2> QED
    BY <1>3, <1>9, <1>10, <2>1, <2>2
       DEF ImportRegister, Calls, WithAnswer, WithToken, AnswerFor
<1> QED
  BY <1>3, <1>9, <1>10 DEF ImportRegister, Calls, WithAnswer, WithToken

LEMMA ImportUpsertGrows ==
    ASSUME UInv, NEW s \in Slots, ImportUpsert(s) PROVE GrowsBy(s)
<1> DEFINE q == req[s]
<1>1. /\ Own /\ Goes /\ rough' = rough /\ cm' = cm
      /\ users \in Seq(User) /\ nextDoc \in Nat /\ cm \in Seq(Identifier)
  BY DEF UInv, ImportUpsert, Continues, Own, StoresTyped
<1>2. Busy(s) /\ q \in UserRequest /\ q.op = "import" /\ q.pc = "upsert"
  <2>1. {"import"} \in SUBSET UserOps /\ At(s, {"import"}, "upsert")
    BY DEF UserOps, ImportUpsert
  <2> QED
    BY <1>1, <2>1, AtWorkOn
<1>3. PICK u, n, id : u = q.who /\ n = DocOf(u) /\ id = IF n = 0 THEN nextDoc + 1 ELSE users[n].id
  OBVIOUS
<1>4. u \in Users /\ InRows(q) /\ Holds(q)
  BY <1>1, <1>2, <1>3, RequestFields DEF InRows, Own, RequestsHold
<1>5. rough \subseteq rough' /\ rough' \subseteq Causes
  BY <1>1, RoughTyped
<1>6. Kept(0) /\ Len(cm') = Len(cm)
  BY <1>1, IdentifiersStay DEF SameIdentifiers
\* The document that the row has now.
<1>7. /\ KeepsUsers \/ Comes(u, NoIdentifier)
      /\ id \in Nat /\ NamesNext(id, u) /\ IsFirstNext(id)
  <2>1. CASE n = 0
    <3>1. users' = Added(u, NoIdentifier) /\ nextDoc' = nextDoc + 1 /\ id = nextDoc + 1
      BY <1>3, <2>1 DEF ImportUpsert
    <3>2. Adds(u, NoIdentifier) /\ Comes(u, NoIdentifier)
      BY <1>1, <1>4, <3>1, DocumentAdded DEF Comes, NoIdentifier
    <3>3. \A m \in 1..Len(users) : users[m].who # u
      BY <1>1, <1>3, <2>1, DocOfFinds
    <3> QED
      BY <1>1, <3>1, <3>2, <3>3, NewDocument
  <2>2. CASE n # 0
    <3>1. /\ n \in 1..Len(users) /\ users[n].who = u
          /\ \A m \in 1..(n - 1) : users[m].who # u
      BY <1>1, <1>3, <2>2, DocOfFinds
    <3>2. users' = [users EXCEPT ![n].email = u] /\ nextDoc' = nextDoc /\ id = users[n].id
      BY <1>3, <2>2 DEF ImportUpsert
    <3>3. KeepsUsers
      BY <1>1, <1>4, <3>1, <3>2, EmailSet
    <3>4. id \in Nat /\ IsFirst(id) /\ Names(id, u)
      BY <1>1, <3>1, <3>2, UserFields DEF IsFirst, Names, Own, DocumentsDiffer
    <3>5. IsFirstNext(id)
      BY <1>1, <3>3, <3>4, IsFirstKept DEF Own
    <3>6. NamesNext(id, u)
      BY <1>1, <1>6, <3>3, <3>4, NamesStep DEF Own, UsersMove, KeepsUsers
    <3> QED
      BY <3>3, <3>4, <3>5, <3>6
  <2> QED
    BY <2>1, <2>2
<1>8. CASE ~q.jwt
  <2>1. Ends(s) /\ saves' = saves
    BY <1>8 DEF ImportUpsert
  <2>2. Took(s, Idle)
    BY <1>1, <1>2, <1>5, <2>1, IdleIsFree, WentOn DEF UInv, CInv, Ends
  <2>3. LoggedIn(q) => q.jwt
    BY <1>2 DEF LoggedIn
  <2>4. ~Smooth'
    BY <1>1, <1>8, <2>3, Refused
  <2>5. Holds(Idle)' /\ Certain(Idle)'
    BY IdleHolds, IdleIsFree, NothingCertain
  <2>6. Grows(s, Idle)
    BY <1>6, <1>7, <2>1, <2>4, <2>5, IdleIsFree DEF Grows
  <2> QED
    BY <2>2, <2>6 DEF GrowsBy
<1>9. CASE q.jwt
  <2>1. HasAnswer(q)
    BY <1>2, <1>9 DEF HasAnswer
  <2>2. PICK i : i = q.ids[u]
    OBVIOUS
  <2>3. 1 \in 1..Len(q.rows) /\ q.rows \in Seq(Users) /\ q.rows[1] = u
    <3>1. q.rows \in Seq(Users) /\ q.ids \in [Users -> Nat]
      BY <1>2, RequestFields
    <3>2. Len(q.rows) > 0 /\ Len(q.rows) \in Nat /\ q.rows[1] = u
      BY <1>2, <1>3, <1>4, <3>1, LenProperties DEF Holds
    <3> QED
      BY <3>1, <3>2
  <2>4. Owned(i, u) /\ i \in Nat
    <3>1. Owned(q.ids[q.rows[1]], q.rows[1])
      BY <1>4, <2>1, <2>3 DEF Holds
    <3> QED
      BY <2>2, <2>3, <3>1 DEF Owned
  <2>5. OwnedNext(i, u)
    BY <1>6, <2>4, OwnedStep
  <2>6. PICK v : v = [doc |-> id, idf |-> i]
    OBVIOUS
  <2>7. v \in [doc : Nat, idf : Nat] /\ v.doc = id /\ v.idf = i
    BY <1>7, <2>4, <2>6
  <2>8. saves' = saves \cup {v}
    BY <1>3, <1>9, <2>2, <2>6 DEF ImportUpsert, OfAnswer
  <2>9. Certain(q) => cm'[i].live
    <3>1. Certain(q) => Live(i)
      BY <2>1, <2>2, <2>3 DEF Certain
    <3> QED
      BY <1>6, <2>4, <3>1, LiveKept DEF Owned
  <2>10. (Undisturbed' => Certain(q)) => MakesSave(v)
    BY <1>7, <2>5, <2>7, <2>9 DEF MakesSave, NewSave, OwnedNext, NamesNext
  <2>11. CASE Len(q.rows) = 1
    <3>1. Ends(s)
      BY <1>9, <2>11 DEF ImportUpsert, NextRow
    <3>2. Took(s, Idle) /\ (Undisturbed' => Certain(q))
      BY <1>1, <1>2, <1>5, <3>1, IdleIsFree, WentOn DEF UInv, CInv, Ends
    <3>3. Holds(Idle)' /\ Certain(Idle)'
      BY IdleHolds, IdleIsFree, NothingCertain
    <3>4. \A j : Claims(q, j) => j = i
      <4>1. \A k \in 1..Len(q.rows) : k = 1
        BY <2>11
      <4> QED
        BY <1>2, <2>2, <2>3, <4>1 DEF Claims
    <3>5. \A j \in 1..Len(cm') : (j \in 1..Len(cm) /\ ~Claims(q, j)) \/ \E w \in saves' : w.idf = j
      BY <1>6, <2>7, <2>8, <3>4
    <3>6. Grows(s, Idle)
      BY <1>6, <1>7, <2>8, <2>10, <3>2, <3>3, <3>5, IdleIsFree DEF Grows
    <3> QED
      BY <3>2, <3>6 DEF GrowsBy
  <2>12. CASE Len(q.rows) # 1
    <3>1. PICK tail, next : tail = Tail(q.rows) /\ next = q.rows[2]
      OBVIOUS
    <3>2. Following(q.rows, tail, next)
      <4>1. Len(q.rows) > 0
        BY <2>3
      <4> QED
        BY <2>3, <2>12, <3>1, <4>1, RowsFollow
    <3>3. PICK r : r = WithRows(q, tail, next)
      OBVIOUS
    <3>4. /\ r \in UserRequest /\ InRows(r)
          /\ Holds(r) /\ (Certain(q) => Certain(r)) /\ (LoggedIn(q) => LoggedIn(r))
          /\ \A j : Claims(q, j) => j = q.ids[q.rows[1]] \/ Claims(r, j)
      BY <1>2, <1>4, <3>2, <3>3, RowAfter
    <3>5. Do(s, r)
      BY <1>9, <2>12, <3>1, <3>3 DEF ImportUpsert, NextRow, WithRows
    <3>6. Took(s, r) /\ (Undisturbed' => Certain(q)) /\ (Smooth' => LoggedIn(q))
      BY <1>1, <1>2, <1>5, <3>4, <3>5, WentOn DEF UInv, CInv, UserSet
    <3>7. Holds(r)'
      BY <1>1, <1>6, <1>7, <3>4, HoldsStep DEF Own, UsersMove, KeepsUsers, Comes
    <3>8. Undisturbed' => Certain(r)'
      <4>1. r.op = "import" /\ ~HasDocument(r)
        BY <3>4 DEF InRows, HasDocument
      <4>2. Undisturbed' /\ HasAnswer(r) => \A k \in 1..Len(r.rows) : cm'[r.ids[r.rows[k]]].live
        BY <1>6, <3>4, <3>6, LiveKept DEF Certain, Holds, Owned
      <4> QED
        BY <4>1, <4>2 DEF Certain, Live, HasDocument, HasAnswer
    <3>9. \A j \in 1..Len(cm') : \/ j \in 1..Len(cm) /\ ~Claims(q, j)
                                 \/ Claims(r, j)
                                 \/ \E w \in saves' : w.idf = j
      BY <1>6, <2>2, <2>3, <2>7, <2>8, <3>4
    <3>10. Grows(s, r)
      BY <1>6, <1>7, <2>8, <2>10, <3>4, <3>6, <3>7, <3>8, <3>9 DEF Grows
    <3> QED
      BY <3>6, <3>10 DEF GrowsBy
  <2> QED
    BY <2>11, <2>12
<1> QED
  BY <1>8, <1>9
-----------------------------------------------------------------------------
(* Steps after which a document is gone, or an identifier deleted             *)

Keeps == Own' /\ Calm' /\ Accord'

LEMMA GrowsKeeps ==
    ASSUME UInv, NEW s \in Slots, GrowsBy(s) PROVE Keeps
<1>1. PICK r : Took(s, r) /\ Grows(s, r)
  BY DEF GrowsBy
<1> QED
  BY <1>1, GrowsOwn, GrowsCalm, GrowsAccord DEF UInv, Keeps

\* An update that leaves the internal id is like any other request that begins; one
\* that changes it leaves the stores to their invariants of every state.
LEMMA UserUpdateKeeps ==
    ASSUME UInv, NEW s \in Slots, NEW n \in DOMAIN users, NEW w \in Users, NEW e \in Users,
           UpdateUser(s, n, w, e)
    PROVE  Keeps
<1>1. /\ Own /\ users \in Seq(User) /\ cm \in Seq(Identifier) /\ n \in 1..Len(users)
      /\ users[n].email \in Users /\ users[n].idf \in Nat
  BY UserFields DEF UInv, Own, StoresTyped
<1>2. /\ cm' = cm /\ saves' = saves /\ nextDoc' = nextDoc
      /\ users' = [users EXCEPT ![n].who = w, ![n].email = e]
  BY DEF UpdateUser
<1>3. PICK q : q = Request("update", "login", users[n].email)
  OBVIOUS
<1>4. q \in UserRequest /\ q.op = "update" /\ q.pc = "login"
  BY <1>1, <1>3, NewRequest DEF UserOps, Pcs
<1>5. PICK r : r = [q EXCEPT !.idf = users[n].idf]
  OBVIOUS
<1>6. r \in UserRequest /\ r.op = "update"
  BY <1>1, <1>4, <1>5, SetIdf DEF Alike
<1>7. Do(s, r)
  BY <1>3, <1>5 DEF UpdateUser
<1>8. Holds(r) /\ Certain(r) /\ LoggedIn(r)
  BY <1>6 DEF Holds, Certain, LoggedIn, HasDocument, HasAnswer
<1>9. CASE w = users[n].who
  <2>1. UserBegins(s)
    BY <1>9 DEF UpdateUser, UserBegins
  <2>2. KeepsUsers
    BY <1>1, <1>2, <1>9, EmailSet
  <2> QED
    BY <1>1, <1>2, <1>6, <1>7, <1>8, <2>1, <2>2, BeginsQuietly, GrowsKeeps DEF UserSet
<1>10. CASE w # users[n].who
  <2>1. BeginsWith(s, {"renamed"}) /\ {"renamed"} \in SUBSET Causes
    BY <1>10 DEF UpdateUser, Causes
  <2>2. Took(s, r) /\ "renamed" \in rough'
    BY <1>1, <1>6, <1>7, <2>1, BeganWith DEF UserSet
  <2>3. Astray' /\ ~Undisturbed' /\ ~Smooth'
    BY <2>2 DEF Astray, Undisturbed, Smooth
  <2>4. Renames
    BY <1>1, <1>2, <2>3, DocumentRenamed
  <2>5. UsersMove /\ Kept(0)
    BY <1>1, <1>2, <2>2, <2>4, IdentifiersStay DEF UsersMove, SameIdentifiers, Took
  <2>6. StoresTyped' /\ UsersOwn'
    BY <1>1, <1>2, <2>2, <2>4, <2>5, StoresKept, UsersOwnRenamed DEF Own, StoresTyped, Took
  <2>7. Holds(r)'
    BY <1>6 DEF Holds, HasDocument, HasAnswer
  <2>8. Own'
    BY <1>1, <1>2, <1>6, <1>7, <2>5, <2>6, <2>7, OwnStep DEF UserSet
  <2> QED
    BY <2>3, <2>8 DEF Keeps, Calm, Accord
<1> QED
  BY <1>9, <1>10

LEMMA OnlyFirstDropped ==
    ASSUME StoresTyped, OnlyFirstHasOne, NEW p, Drops(p) PROVE OnlyFirstHasOne'
<1>1. Len(users) \in Nat
  BY UserFields DEF StoresTyped
<1> SUFFICES ASSUME NEW m \in 1..Len(users'), NEW n \in 1..Len(users'), m < n,
                    users'[m].who = users'[n].who
             PROVE  users'[n].idf = NoIdentifier
  BY DEF OnlyFirstHasOne
<1> DEFINE a == IF m < p THEN m ELSE m + 1
           b == IF n < p THEN n ELSE n + 1
<1>2. a \in 1..Len(users) /\ b \in 1..Len(users) /\ a < b
  BY <1>1 DEF Drops
<1>3. users'[m] = users[a] /\ users'[n] = users[b]
  BY DEF Drops
<1> HIDE DEF a, b
<1> QED
  BY <1>2, <1>3 DEF OnlyFirstHasOne

LEMMA DroppedFrom ==
    ASSUME StoresTyped, NEW p, Drops(p)
    PROVE  /\ \A n \in 1..Len(users') : \E m \in 1..Len(users) : m # p /\ users'[n] = users[m]
           /\ \A m \in 1..Len(users) : m # p => \E n \in 1..Len(users') : users'[n] = users[m]
<1>1. Len(users) \in Nat /\ p \in 1..Len(users) /\ Len(users') = Len(users) - 1
  BY UserFields DEF StoresTyped, Drops
<1>2. ASSUME NEW n \in 1..Len(users')
      PROVE  \E m \in 1..Len(users) : m # p /\ users'[n] = users[m]
  <2> DEFINE m == IF n < p THEN n ELSE n + 1
  <2>1. m \in 1..Len(users) /\ m # p
    BY <1>1
  <2>2. users'[n] = users[m]
    BY DEF Drops
  <2> HIDE DEF m
  <2> QED
    BY <2>1, <2>2
<1>3. ASSUME NEW m \in 1..Len(users), m # p
      PROVE  \E n \in 1..Len(users') : users'[n] = users[m]
  <2> DEFINE n == IF m < p THEN m ELSE m - 1
  <2>1. n \in 1..Len(users') /\ (IF n < p THEN n ELSE n + 1) = m
    BY <1>1, <1>3
  <2>2. users'[n] = users[IF n < p THEN n ELSE n + 1]
    BY <2>1 DEF Drops
  <2>3. users'[n] = users[m]
    BY <2>1, <2>2
  <2> HIDE DEF n
  <2> QED
    BY <2>1, <2>3
<1> QED
  BY <1>2, <1>3

\* As long as requests take turns, no other document has the identifier of a document.
LEMMA IdentifierAlone ==
    ASSUME Own, ~Astray, OnlyFirstHasOne, NEW m \in 1..Len(users), NEW n \in 1..Len(users), m # n,
           users[n].idf # NoIdentifier
    PROVE  users[m].idf # users[n].idf
<1>1. SUFFICES ASSUME users[m].idf = users[n].idf PROVE FALSE
  OBVIOUS
<1>2. Owned(users[m].idf, users[m].who) /\ Owned(users[n].idf, users[n].who)
  BY <1>1 DEF Own, UsersOwn
<1>3. users[m].who = users[n].who
  BY <1>1, <1>2 DEF Owned
<1>4. m < n \/ n < m
  BY UserFields DEF Own, StoresTyped
<1> QED
  BY <1>1, <1>3, <1>4 DEF OnlyFirstHasOne

\* What is gone with document p is accounted for by r, the request that took it.
LEMMA DropsKeeps ==
    ASSUME UInv, NEW s \in Slots, NEW r, Took(s, r), NEW p, Drops(p), cm' = cm, saves' = saves,
           Undisturbed' => saves = {}, Holds(r)', Undisturbed' => Certain(r)',
           Smooth' => /\ LoggedIn(r) /\ (\A i : ~Claims(req[s], i))
                      /\ users[p].idf # NoIdentifier => Claims(r, users[p].idf)
    PROVE  Keeps
<1>1. Own /\ Calm /\ Accord /\ StoresTyped
  BY DEF UInv, Own
<1>2. UsersMove /\ Kept(0) /\ Len(cm') = Len(cm)
  BY <1>1, IdentifiersStay DEF UsersMove, StoresTyped, SameIdentifiers, Took
<1>3. StoresTyped'
  BY <1>1, <1>2, StoresKept DEF Own, StoresTyped, Took
<1>4. UsersOwn'
  BY <1>1, <1>2, UsersOwnKept DEF Own
<1>5. Own'
  BY <1>1, <1>2, <1>3, <1>4, OwnStep DEF Took
<1>6. ASSUME Undisturbed' PROVE CalmFacts'
  <2>1. CalmFacts
    BY <1>1, <1>6, CalmBefore DEF Took
  <2>2. OneAtWork' /\ RequestsCertain'
    BY <1>1, <1>6, OthersIdle
  <2>3. OnlyFirstHasOne' /\ UsersLive'
    BY <1>1, <1>2, <1>6, <2>1, OnlyFirstDropped, UsersLiveKept DEF CalmFacts, Own
  <2>4. SavesLive'
    BY <1>6 DEF SavesLive
  <2> QED
    BY <2>2, <2>3, <2>4 DEF CalmFacts
<1>7. Calm'
  BY <1>6 DEF Calm, Undisturbed
<1>8. ASSUME Smooth', NEW i \in 1..Len(cm'), cm'[i].live PROVE AccountedNext(i)
  <2>1. i \in 1..Len(cm) /\ Live(i) /\ i # NoIdentifier
    BY <1>1, <1>2, <1>8, LengthsAreNumbers DEF Live, StoresTyped, NoIdentifier
  <2>2. Accounted(i)
    BY <1>1, <1>8, <2>1 DEF Took, Accord, SmoothFacts
  <2>3. req'[s] = r /\ \A t \in Slots : t # s => req'[t] = req[t]
    BY <1>1, HandlerNow DEF Took, Own
  <2>4. CASE \E n \in 1..Len(users) : users[n].idf = i
    <3>1. PICK n \in 1..Len(users) : users[n].idf = i
      BY <2>4
    <3>2. CASE n = p
      BY <1>8, <2>1, <2>3, <3>1, <3>2 DEF AccountedNext
    <3>3. CASE n # p
      BY <1>1, <3>1, <3>3, DroppedFrom DEF AccountedNext
    <3> QED
      BY <3>2, <3>3
  <2>5. CASE \E v \in saves : v.idf = i
    BY <2>5 DEF AccountedNext
  <2>6. CASE \E t \in Slots : Claims(req[t], i)
    <3>1. PICK t \in Slots : Claims(req[t], i)
      BY <2>6
    <3>2. t # s
      BY <1>8, <3>1
    <3> QED
      BY <2>3, <3>1, <3>2 DEF AccountedNext
  <2> QED
    BY <2>2, <2>4, <2>5, <2>6 DEF Accounted
<1>9. Smooth' => \A t \in Slots : LoggedIn(req'[t])
  BY <1>1, LoggedInKept
<1>10. Accord'
  BY <1>8, <1>9, AccordFrom
<1> QED
  BY <1>5, <1>7, <1>10 DEF Keeps

LEMMA DeleteUserKeeps ==
    ASSUME UInv, NEW s \in Slots, NEW n \in DOMAIN users, DeleteUser(s, n) PROVE Keeps
<1>1. /\ Own /\ Calm /\ Accord /\ users \in Seq(User) /\ n \in 1..Len(users) /\ UserBegins(s)
      /\ cm' = cm /\ saves' = saves /\ nextDoc' = nextDoc
  BY UserFields DEF UInv, Own, StoresTyped, DeleteUser
<1>2. users[n].who \in Users /\ users[n].idf \in Nat
  BY <1>1, UserFields
<1>3. Drops(n)
  <2>1. users' = Without(users[n].id)
    BY DEF DeleteUser, FindByIdAndDelete
  <2>2. DocAt(users[n].id) = n
    <3>1. DocAt(users[n].id) # 0
      BY <1>1, DocAtFinds
    <3>2. DocAt(users[n].id) \in 1..Len(users) /\ users[DocAt(users[n].id)].id = users[n].id
      BY <1>1, <3>1, DocAtFinds
    <3> QED
      BY <1>1, <3>2 DEF Own, DocumentsDiffer
  <2>3. n # 0
    BY <1>1
  <2> QED
    BY <1>1, <2>1, <2>2, <2>3, DocumentDropped
<1>4. PICK q : q = Request("delete", "login", users[n].who)
  OBVIOUS
<1>5. q \in UserRequest /\ q.op = "delete" /\ q.pc = "login"
  BY <1>2, <1>4, NewRequest DEF UserOps, Pcs
<1>6. PICK r : r = [q EXCEPT !.idf = users[n].idf]
  OBVIOUS
<1>7. r \in UserRequest /\ r.op = "delete" /\ r.pc = "login" /\ r.idf = users[n].idf
  BY <1>2, <1>5, <1>6, SetIdf DEF Alike
<1>8. Do(s, r)
  BY <1>4, <1>6 DEF DeleteUser
<1>9. Took(s, r) /\ req[s] = Idle /\ (Undisturbed' => saves = {})
  BY <1>1, <1>7, <1>8, Began DEF UserSet
<1>10. Holds(r)'
  BY <1>7 DEF Holds, HasDocument, HasAnswer
<1>11. Undisturbed' => Certain(r)'
  <2>1. Undisturbed' => OnlyFirstHasOne /\ ~Astray
    BY <1>1, <1>9, CalmBefore DEF Took, CalmFacts
  <2>2. Undisturbed' /\ r.idf # NoIdentifier => \A m \in 1..Len(users') : users'[m].idf # r.idf
    <3> SUFFICES ASSUME Undisturbed', r.idf # NoIdentifier, NEW m \in 1..Len(users')
                 PROVE  users'[m].idf # r.idf
      OBVIOUS
    <3>1. PICK k \in 1..Len(users) : k # n /\ users'[m] = users[k]
      BY <1>1, <1>3, DroppedFrom DEF Own
    <3> QED
      BY <1>1, <1>7, <2>1, <3>1, IdentifierAlone
  <2> QED
    BY <1>7, <2>2 DEF Certain, HasDocument, HasAnswer
<1>12. LoggedIn(r) /\ Claims(r, users[n].idf) /\ \A i : ~Claims(req[s], i)
  BY <1>7, <1>9, IdleIsFree DEF LoggedIn, Claims
<1> QED
  BY <1>1, <1>3, <1>9, <1>10, <1>11, <1>12, DropsKeeps

LEMMA CreateUndoKeeps ==
    ASSUME UInv, NEW s \in Slots, CreateUndo(s) PROVE Keeps
<1> DEFINE q == req[s]
<1>1. /\ Own /\ Goes /\ Ends(s) /\ rough' = rough /\ cm' = cm /\ saves' = saves
      /\ nextDoc' = nextDoc /\ users \in Seq(User) /\ users' = Without(q.doc)
  BY DEF UInv, Own, StoresTyped, CreateUndo, Continues
<1>2. Busy(s) /\ q \in UserRequest /\ q.op = "create" /\ q.pc = "undo"
  <2>1. {"create"} \in SUBSET UserOps /\ At(s, {"create"}, "undo")
    BY DEF UserOps, CreateUndo
  <2> QED
    BY <1>1, <2>1, AtWorkOn
<1>3. rough \subseteq rough' /\ rough' \subseteq Causes
  BY <1>1, RoughTyped
<1>4. ~Smooth'
  BY <1>1, <1>2, <1>3, LoggedInBefore DEF LoggedIn
<1>5. CASE DocAt(q.doc) = 0
  <2>1. KeepsUsers
    BY <1>1, <1>5, DocumentDropped
  <2>2. Kept(0)
    BY <1>1, IdentifiersStay DEF Own, StoresTyped, SameIdentifiers
  <2> QED
    BY <1>1, <1>2, <1>3, <1>4, <2>1, <2>2, EndsQuietly, GrowsKeeps
<1>6. CASE DocAt(q.doc) # 0
  <2>1. Drops(DocAt(q.doc))
    BY <1>1, <1>6, DocumentDropped
  <2>2. Took(s, Idle) /\ (Undisturbed' => (saves # {} => InRows(q)))
    BY <1>1, <1>2, <1>3, IdleIsFree, WentOn DEF UInv, CInv, Ends
  <2>3. ~InRows(q)
    BY <1>2 DEF InRows
  <2>4. Holds(Idle)' /\ Certain(Idle)'
    BY IdleHolds, IdleIsFree, NothingCertain
  <2> QED
    BY <1>1, <1>4, <2>1, <2>2, <2>3, <2>4, DropsKeeps
<1> QED
  BY <1>5, <1>6

LEMMA DeleteIdentifierKeeps ==
    ASSUME UInv, NEW s \in Slots, DeleteIdentifier(s) PROVE Keeps
<1> DEFINE q == req[s]
<1>1. /\ Own /\ Calm /\ Accord /\ cm \in Seq(Identifier) /\ (Goes \/ Fails) /\ Ends(s)
      /\ rough' = rough /\ saves' = saves
  BY DEF UInv, Own, StoresTyped, DeleteIdentifier, Calls
<1>2. Busy(s) /\ q \in UserRequest /\ q.op = "delete" /\ q.pc = "call"
  <2>1. {"delete"} \in SUBSET UserOps /\ At(s, {"delete"}, "call")
    BY DEF UserOps, DeleteIdentifier
  <2> QED
    BY <1>1, <2>1, AtWorkOn
<1>3. KeepsUsers
  BY <1>1, UsersStay DEF DeleteIdentifier
<1>4. rough \subseteq rough' /\ rough' \subseteq Causes
  BY <1>1, RoughTyped
<1>5. PICK p : p = q.idf
  OBVIOUS
<1>6. Took(s, Idle) /\ (Undisturbed' => Certain(q) /\ (saves # {} => InRows(q)))
  BY <1>1, <1>2, <1>4, IdleIsFree, WentOn DEF UInv, CInv, Ends
<1>7. (LoggedIn(q) => q.jwt) /\ ~InRows(q) /\ \A i : Claims(q, i) => i = p
  BY <1>2, <1>5 DEF LoggedIn, InRows, Claims, HasAnswer
<1>8. CASE cm' = [cm EXCEPT ![p].live = FALSE] /\ p \in 1..Len(cm)
  <2>1. Kept(p) /\ Len(cm') = Len(cm) /\ ~cm'[p].live
    BY <1>1, <1>8, IdentifierKilled
  <2>2. UsersMove /\ UsersOwn'
    BY <1>1, <1>3, <2>1, UsersOwnKept DEF UsersMove, KeepsUsers, Own
  <2>3. StoresTyped'
    BY <1>1, <1>4, <2>1, <2>2, StoresKept DEF Own, StoresTyped
  <2>4. Own'
    BY <1>1, <1>6, <2>1, <2>2, <2>3, OwnStep, IdleHolds, IdleIsFree DEF Ends
  <2>5. ASSUME Undisturbed' PROVE CalmFacts'
    <3>1. CalmFacts /\ Certain(q) /\ saves = {}
      BY <1>1, <1>6, <1>7, <2>5, CalmBefore DEF Took
    <3>2. Certain(Idle)'
      BY IdleIsFree, NothingCertain
    <3>3. OneAtWork' /\ RequestsCertain'
      BY <1>1, <1>6, <2>5, <3>1, <3>2, OthersIdle, IdleIsFree
    <3>4. OnlyFirstHasOne'
      BY <1>1, <1>3, <2>5, <3>1, OnlyFirstKept DEF CalmFacts, Own
    <3>5. ASSUME NEW n \in 1..Len(users'), users'[n].idf # NoIdentifier
          PROVE  cm'[users'[n].idf].live
      <4>1. n \in 1..Len(users) /\ users'[n].idf = users[n].idf
        BY <1>3 DEF KeepsUsers, Rewrites
      <4>2. PICK i : i = users[n].idf
        OBVIOUS
      <4>3. i \in 1..Len(cm) /\ cm[i].live
        BY <1>1, <3>1, <3>5, <4>1, <4>2 DEF Own, UsersOwn, Owned, CalmFacts, UsersLive, Live
      <4>4. p # NoIdentifier
        BY <1>1, <1>8, LengthsAreNumbers DEF NoIdentifier
      <4>5. i # p
        BY <1>2, <1>5, <3>1, <4>1, <4>2, <4>4 DEF Certain
      <4> QED
        BY <2>1, <4>1, <4>2, <4>3, <4>5 DEF Kept
    <3>6. UsersLive'
      BY <3>5 DEF UsersLive, Live
    <3>7. SavesLive'
      BY <1>1, <3>1 DEF SavesLive
    <3> QED
      BY <3>3, <3>4, <3>6, <3>7 DEF CalmFacts
  <2>6. Calm'
    BY <2>5 DEF Calm, Undisturbed
  <2>7. ASSUME Smooth', NEW i \in 1..Len(cm'), cm'[i].live PROVE AccountedNext(i)
    <3>1. i \in 1..Len(cm) /\ Live(i) /\ i # p
      BY <2>1, <2>7 DEF Kept, Live
    <3>2. Accounted(i)
      BY <1>1, <1>6, <2>7, <3>1 DEF Took, Accord, SmoothFacts
    <3>3. \A t \in Slots : t # s => req'[t] = req[t]
      BY <1>1, <1>6, HandlerNow DEF Took, Own
    <3>4. \A t \in Slots : Claims(req[t], i) => t # s
      BY <1>7, <3>1
    <3>5. \A n \in 1..Len(users) : n \in 1..Len(users') /\ users'[n].idf = users[n].idf
      BY <1>3 DEF KeepsUsers, Rewrites
    <3> QED
      BY <1>1, <3>2, <3>3, <3>4, <3>5 DEF Accounted, AccountedNext
  <2>8. Smooth' => \A t \in Slots : LoggedIn(req'[t])
    BY <1>1, <1>6, IdleIsFree, LoggedInKept
  <2>9. Accord'
    BY <2>7, <2>8, AccordFrom
  <2> QED
    BY <2>4, <2>6, <2>9 DEF Keeps
<1>9. CASE cm' = cm
  <2>1. Kept(0) /\ Len(cm') = Len(cm)
    BY <1>1, <1>9, IdentifiersStay DEF SameIdentifiers
  <2>2. Smooth' => \A i \in 1..Len(cm) : Live(i) => ~Claims(q, i)
    <3> SUFFICES ASSUME Smooth', NEW i \in 1..Len(cm), Live(i), i = p PROVE FALSE
      BY <1>7
    <3>1. Goes /\ q.jwt
      BY <1>1, <1>7, Refused DEF DeleteIdentifier, Calls
    <3>2. ~Fails
      BY <1>4, SmoothStep DEF UInv, CInv
    <3>3. cm' = IF Known(q.idf) THEN [cm EXCEPT ![q.idf].live = FALSE] ELSE cm
      BY <3>1, <3>2 DEF DeleteIdentifier, Calls
    <3>4. Known(q.idf)
      BY <1>1, <1>5, LengthsAreNumbers DEF Known, Live, NoIdentifier
    <3>5. ~cm'[p].live
      BY <1>1, <1>5, <3>3, <3>4, IdentifierKilled
    <3> QED
      BY <1>9, <3>5 DEF Live
  <2> QED
    BY <1>1, <1>2, <1>3, <1>4, <2>1, <2>2, EndsQuietly, GrowsKeeps
<1>10. CASE cm' = [cm EXCEPT ![p].live = FALSE] /\ p \notin 1..Len(cm)
  <2>1. cm' = cm
    BY <1>1, <1>10, OutsideStays
  <2> QED
    BY <1>9, <2>1
<1> QED
  BY <1>5, <1>8, <1>9, <1>10 DEF DeleteIdentifier, Calls

-----------------------------------------------------------------------------
(* Steps that give a document its identifier: identifier i of user u goes to  *)
(* the first document of u, which is at p.                                    *)

Gives(p, i, u) ==
    /\ Rewrites(p, i) /\ p \in 1..Len(users) /\ (Astray \/ users[p].who = u)
    /\ i \in Nat /\ Owned(i, u) /\ cm' = cm /\ rough' = rough
GivesLive(p, i, d) == users[p].id = d /\ IsFirst(d) /\ Live(i)

LEMMA GivesOwn ==
    ASSUME Own, NEW p, NEW i, NEW u, Gives(p, i, u)
    PROVE  UsersMove /\ UsersOwn' /\ Kept(0) /\ Len(cm') = Len(cm)
<1>1. Kept(0) /\ Len(cm') = Len(cm)
  BY IdentifiersStay DEF Own, StoresTyped, SameIdentifiers, Gives
<1>2. OwnedNext(i, u)
  BY <1>1, OwnedStep DEF Gives
<1>3. UsersOwn'
  <2>1. OwnedNext(i, users[p].who)
    BY <1>1, <1>2 DEF Gives, OwnedNext, Kept
  <2> QED
    BY <1>1, <2>1, UsersOwnSet DEF Own, Gives
<1> QED
  BY <1>1, <1>3 DEF UsersMove, Gives

LEMMA FirstAt ==
    ASSUME Own, NEW p \in 1..Len(users), IsFirst(users[p].id)
    PROVE  \A m \in 1..(p - 1) : users[m].who # users[p].who
BY DEF Own, DocumentsDiffer, IsFirst

LEMMA IsFirstGiven ==
    ASSUME StoresTyped, NEW p, NEW i, Rewrites(p, i), NEW d, IsFirst(d) PROVE IsFirstNext(d)
<1>1. Len(users) \in Nat
  BY UserFields DEF StoresTyped
<1>2. PICK n \in 1..Len(users) :
          users[n].id = d /\ \A m \in 1..(n - 1) : users[m].who # users[n].who
  BY DEF IsFirst
<1>3. /\ n \in 1..Len(users')
      /\ \A m \in 1..n : users'[m].id = users[m].id /\ users'[m].who = users[m].who
  BY <1>1 DEF Rewrites
<1>4. users'[n].id = d /\ \A m \in 1..(n - 1) : users'[m].who # users'[n].who
  BY <1>1, <1>2, <1>3
<1> QED
  BY <1>3, <1>4 DEF IsFirstNext

LEMMA GivesCalm ==
    ASSUME Own, OnlyFirstHasOne, UsersLive, NEW p, NEW i, NEW u, NEW d,
           Gives(p, i, u), GivesLive(p, i, d)
    PROVE  OnlyFirstHasOne' /\ UsersLive'
<1>1. /\ Len(users) \in Nat /\ Len(users') = Len(users) /\ p \in 1..Len(users)
      /\ \A n \in 1..Len(users) :
             /\ users'[n].who = users[n].who
             /\ users'[n].idf = IF n = p THEN i ELSE users[n].idf
  BY UserFields DEF Own, StoresTyped, Gives, Rewrites
<1>2. \A m \in 1..(p - 1) : users[m].who # users[p].who
  BY <1>1, FirstAt DEF GivesLive
<1>3. ASSUME NEW m \in 1..Len(users), NEW n \in 1..Len(users), m < n,
             users[m].who = users[n].who
      PROVE  users'[n].idf = NoIdentifier
  <2>1. n # p
    BY <1>1, <1>2, <1>3
  <2> QED
    BY <1>1, <1>3, <2>1 DEF OnlyFirstHasOne
<1>4. OnlyFirstHasOne'
  BY <1>1, <1>3 DEF OnlyFirstHasOne
<1>5. UsersLive'
  BY <1>1 DEF UsersLive, Live, Gives, GivesLive
<1> QED
  BY <1>4, <1>5

\* Whatever the document had before is i, or not live.
LEMMA GivesAccounts ==
    ASSUME Own, ~Astray, NEW p, NEW i, NEW u, NEW d, Gives(p, i, u), GivesLive(p, i, d),
           NEW j \in 1..Len(cm), Live(j), \E n \in 1..Len(users) : users[n].idf = j
    PROVE  \E n \in 1..Len(users') : users'[n].idf = j
<1>1. /\ Len(users') = Len(users) /\ p \in 1..Len(users)
      /\ \A n \in 1..Len(users) : users'[n].idf = IF n = p THEN i ELSE users[n].idf
  BY DEF Gives, Rewrites
<1>2. PICK n \in 1..Len(users) : users[n].idf = j
  OBVIOUS
<1>3. CASE n # p
  BY <1>1, <1>2, <1>3
<1>4. CASE n = p
  <2>1. j # NoIdentifier
    BY LengthsAreNumbers DEF Own, StoresTyped, NoIdentifier
  <2>2. Owned(j, u)
    BY <1>2, <1>4, <2>1 DEF Own, UsersOwn, Gives
  <2>3. i = j
    BY <2>2 DEF Own, OneLiveEach, Owned, Gives, GivesLive, Live
  <2> QED
    BY <1>1, <2>3
<1> QED
  BY <1>3, <1>4

\* The document that a save or a resumed request names.
LEMMA NamedDocument ==
    ASSUME Own, NEW d, NEW i \in Nat, NEW u, Names(d, u), Owned(i, u), DocAt(d) # 0,
           users' = [users EXCEPT ![DocAt(d)].idf = i], nextDoc' = nextDoc, cm' = cm,
           rough' = rough
    PROVE  Gives(DocAt(d), i, u) /\ users[DocAt(d)].id = d
<1>1. users \in Seq(User)
  BY DEF Own, StoresTyped
<1>2. DocAt(d) \in 1..Len(users) /\ users[DocAt(d)].id = d
  BY <1>1, DocAtFinds
<1>3. Rewrites(DocAt(d), i)
  BY <1>1, <1>2, IdentifierSet
<1> QED
  BY <1>2, <1>3 DEF Gives, Names

LEMMA ResumeSaveKeeps ==
    ASSUME UInv, NEW s \in Slots, ResumeSave(s) PROVE Keeps
<1> DEFINE q == req[s]
<1>1. /\ Own /\ Calm /\ Accord /\ Goes /\ Ends(s) /\ rough' = rough /\ cm' = cm
      /\ saves' = saves /\ nextDoc' = nextDoc /\ users \in Seq(User)
  BY DEF UInv, Own, StoresTyped, ResumeSave, Continues
<1>2. Busy(s) /\ q \in UserRequest /\ q.op = "app" /\ q.pc = "save"
  <2>1. {"app"} \in SUBSET UserOps /\ At(s, {"app"}, "save")
    BY DEF UserOps, ResumeSave
  <2> QED
    BY <1>1, <2>1, AtWorkOn
<1>3. rough \subseteq rough' /\ rough' \subseteq Causes
  BY <1>1, RoughTyped
<1>4. /\ Took(s, Idle) /\ Holds(q)
      /\ Undisturbed' => Certain(q) /\ (saves # {} => InRows(q))
  BY <1>1, <1>2, <1>3, IdleIsFree, WentOn DEF UInv, CInv, Ends
<1>5. PICK d, i, u : d = q.doc /\ i = q.idf /\ u = q.who
  OBVIOUS
<1>6. i \in Nat /\ Names(d, u) /\ Owned(i, u)
  BY <1>2, <1>4, <1>5 DEF Holds, HasDocument, UserRequest
<1>7. ~InRows(q) /\ (Undisturbed' => IsFirst(d) /\ Live(i)) /\ \A j : Claims(q, j) => j = i
  BY <1>2, <1>4, <1>5 DEF InRows, Certain, HasDocument, Claims, HasAnswer
<1>8. CASE DocAt(d) = 0
  <2>1. KeepsUsers
    BY <1>1, <1>5, <1>8, UsersStay DEF ResumeSave
  <2>2. Kept(0) /\ Len(cm') = Len(cm)
    BY <1>1, IdentifiersStay DEF Own, StoresTyped, SameIdentifiers
  <2>3. ~IsFirst(d)
    BY <1>1, <1>8, DocAtFinds DEF IsFirst
  <2>4. ~Smooth'
    BY <1>7, <2>3 DEF Smooth, Undisturbed
  <2> QED
    BY <1>1, <1>2, <1>3, <2>1, <2>2, <2>4, EndsQuietly, GrowsKeeps
<1>9. CASE DocAt(d) # 0
  <2>1. users' = [users EXCEPT ![DocAt(d)].idf = i]
    BY <1>5, <1>9 DEF ResumeSave
  <2>2. PICK p : p = DocAt(d)
    OBVIOUS
  <2>3. Gives(p, i, u) /\ users[p].id = d
    BY <1>1, <1>6, <1>9, <2>1, <2>2, NamedDocument
  <2>4. UsersMove /\ UsersOwn' /\ Kept(0) /\ Len(cm') = Len(cm)
    BY <1>1, <2>3, GivesOwn
  <2>5. StoresTyped'
    BY <1>1, <1>3, <2>4, StoresKept DEF Own, StoresTyped
  <2>6. Own'
    BY <1>1, <1>4, <2>4, <2>5, OwnStep, IdleHolds, IdleIsFree DEF Ends
  <2>7. ASSUME Undisturbed' PROVE CalmFacts'
    <3>1. CalmFacts /\ saves = {} /\ GivesLive(p, i, d)
      BY <1>1, <1>4, <1>7, <2>3, <2>7, CalmBefore DEF Took, GivesLive
    <3>2. Certain(Idle)'
      BY IdleIsFree, NothingCertain
    <3>3. OneAtWork' /\ RequestsCertain'
      BY <1>1, <1>4, <2>7, <3>1, <3>2, OthersIdle, IdleIsFree
    <3>4. OnlyFirstHasOne' /\ UsersLive'
      BY <1>1, <2>3, <3>1, GivesCalm DEF CalmFacts
    <3>5. SavesLive'
      BY <1>1, <3>1 DEF SavesLive
    <3> QED
      BY <3>3, <3>4, <3>5 DEF CalmFacts
  <2>8. Calm'
    BY <2>7 DEF Calm, Undisturbed
  <2>9. ASSUME Smooth', NEW j \in 1..Len(cm'), cm'[j].live PROVE AccountedNext(j)
    <3>1. j \in 1..Len(cm) /\ Live(j)
      BY <1>1, <2>4, <2>9 DEF Live
    <3>2. Accounted(j)
      BY <1>1, <1>4, <2>9, <3>1 DEF Took, Accord, SmoothFacts
    <3>3. GivesLive(p, i, d)
      BY <1>7, <2>3, <2>9 DEF Smooth, Undisturbed, GivesLive
    <3>8. ~Astray
      BY <1>1, <2>9 DEF Smooth, Astray
    <3>4. \A t \in Slots : t # s => req'[t] = req[t]
      BY <1>1, <1>4, HandlerNow DEF Took, Own
    <3>5. CASE \E n \in 1..Len(users) : users[n].idf = j
      BY <1>1, <2>3, <3>1, <3>3, <3>5, <3>8, GivesAccounts DEF AccountedNext
    <3>6. CASE \E v \in saves : v.idf = j
      BY <1>1, <3>6 DEF AccountedNext
    <3>7. CASE \E t \in Slots : Claims(req[t], j)
      <4>1. PICK t \in Slots : Claims(req[t], j)
        BY <3>7
      <4>2. CASE t = s
        <5>1. p \in 1..Len(users') /\ users'[p].idf = j
          BY <1>7, <2>3, <4>1, <4>2 DEF Gives, Rewrites
        <5> QED
          BY <5>1 DEF AccountedNext
      <4>3. CASE t # s
        BY <3>4, <4>1, <4>3 DEF AccountedNext
      <4> QED
        BY <4>2, <4>3
    <3> QED
      BY <3>2, <3>5, <3>6, <3>7 DEF Accounted
  <2>10. Smooth' => \A t \in Slots : LoggedIn(req'[t])
    BY <1>1, <1>4, IdleIsFree, LoggedInKept
  <2>11. Accord'
    BY <2>9, <2>10, AccordFrom
  <2> QED
    BY <2>6, <2>8, <2>11 DEF Keeps
<1> QED
  BY <1>8, <1>9

-----------------------------------------------------------------------------
(* The end of the process, and the steps on the configuration                 *)

\* Every request and every save vanishes; the stores stay.
LEMMA VanishKeeps ==
    ASSUME Own, Calm, UNCHANGED <<users, nextDoc, cm, rough>>, ProcessEnds, saves' = {}
    PROVE  Keeps
<1>1. KeepsUsers /\ Kept(0) /\ Len(cm') = Len(cm) /\ StoresTyped
  BY StoresStay DEF Own
<1>2. UsersMove
  BY <1>1 DEF UsersMove, KeepsUsers
<1>3. req' = [s \in Handlers |-> Idle] /\ ended' = TRUE /\ \A s \in Slots : req'[s] = Idle
  BY DEF ProcessEnds, Handlers
<1>4. StoresTyped' /\ UsersOwn'
  BY <1>1, <1>2, StoresKept, UsersOwnKept DEF Own, StoresTyped
<1>5. UserRequestsTyped'
  BY <1>3, IdleHolds DEF UserRequestsTyped
<1>6. DocumentsDiffer' /\ OneLiveEach' /\ SavesOwn'
  BY <1>1, <1>2, DocumentsStep, SavesOwnStep DEF Own, Kept
<1>7. RequestsHold'
  <2> SUFFICES ASSUME NEW s \in Slots PROVE Holds(req[s])'
    BY DEF RequestsHold
  <2>1. ~(req'[s].op \in UserOps)
    BY <1>3, IdleHolds
  <2> QED
    BY <2>1 DEF Holds, HasDocument, HasAnswer, UserOps
<1>8. Own'
  BY <1>4, <1>5, <1>6, <1>7 DEF Own
<1>9. ASSUME Undisturbed' PROVE CalmFacts'
  <2>1. CalmFacts
    BY <1>9 DEF Calm, Undisturbed
  <2>2. \A s \in Slots : ~(req'[s].op \in UserOps)
    BY <1>3, IdleHolds
  <2>3. OneAtWork'
    BY <2>2 DEF OneAtWork, Busy
  <2>4. RequestsCertain'
    BY <2>2 DEF RequestsCertain, Certain, HasDocument, HasAnswer, UserOps
  <2>5. OnlyFirstHasOne' /\ UsersLive'
    BY <2>1 DEF CalmFacts, OnlyFirstHasOne, UsersLive, Live
  <2>6. SavesLive'
    BY DEF SavesLive
  <2> QED
    BY <2>3, <2>4, <2>5, <2>6 DEF CalmFacts
<1>10. Calm'
  BY <1>9 DEF Calm, Undisturbed
<1>11. Accord'
  BY <1>3 DEF Accord, Smooth
<1> QED
  BY <1>8, <1>10, <1>11 DEF Keeps

\* A step beside the requests on the users.
Aside ==
    /\ UNCHANGED <<users, nextDoc, cm, saves, rough>>
    /\ Smooth' => Smooth
    /\ req' = [s \in Handlers |-> req'[s]]
    /\ \A s \in Handlers : req'[s] = req[s] \/ ~(req'[s].op \in UserOps)
    /\ \A s \in Slots : req'[s] = req[s] \/ ~Busy(s)

LEMMA AsideKeeps == ASSUME Own, Calm, Accord, Aside PROVE Keeps
<1>1. KeepsUsers /\ Kept(0) /\ Len(cm') = Len(cm) /\ StoresTyped
  BY StoresStay DEF Own, Aside
<1>2. UsersMove
  BY <1>1 DEF UsersMove, KeepsUsers
<1>3. \A s \in Slots : req'[s] = req[s] \/ (~Busy(s) /\ ~(req'[s].op \in UserOps))
  BY DEF Aside, Handlers
<1>4. StoresTyped' /\ UsersOwn'
  BY <1>1, <1>2, StoresKept, UsersOwnKept DEF Own, StoresTyped, Aside
<1>5. UserRequestsTyped'
  BY DEF Own, UserRequestsTyped, Aside
<1>6. DocumentsDiffer' /\ OneLiveEach' /\ SavesOwn'
  BY <1>1, <1>2, DocumentsStep, SavesOwnStep DEF Own, Kept, Aside
<1>7. RequestsHold'
  <2> SUFFICES ASSUME NEW s \in Slots PROVE Holds(req[s])'
    BY DEF RequestsHold
  <2>1. CASE ~(req'[s].op \in UserOps)
    BY <2>1 DEF Holds, HasDocument, HasAnswer, UserOps
  <2>2. CASE req'[s].op \in UserOps
    <3>1. PICK q : q = req[s]
      OBVIOUS
    <3>2. req'[s] = q
      BY <1>3, <2>2, <3>1
    <3>3. Holds(q)'
      BY <1>1, <1>2, <3>1, HoldsStep DEF Own, RequestsHold
    <3> QED
      BY <3>2, <3>3 DEF Holds, HasDocument, HasAnswer, Names, Owned
  <2> QED
    BY <2>1, <2>2
<1>8. Own'
  BY <1>4, <1>5, <1>6, <1>7 DEF Own
<1>9. ASSUME Undisturbed' PROVE CalmFacts'
  <2>1. CalmFacts
    BY <1>9 DEF Calm, Undisturbed, Aside
  <2>2. OneAtWork'
    BY <1>3, <2>1 DEF CalmFacts, OneAtWork, Busy, Aside
  <2>3. ASSUME NEW s \in Slots PROVE Certain(req[s])'
    <3>1. CASE ~(req'[s].op \in UserOps)
      BY <3>1 DEF Certain, HasDocument, HasAnswer, UserOps
    <3>2. CASE req'[s].op \in UserOps
      <4>1. PICK q : q = req[s]
        OBVIOUS
      <4>2. req'[s] = q /\ Holds(q) /\ Certain(q)
        BY <1>3, <2>1, <3>2, <4>1 DEF Own, RequestsHold, CalmFacts, RequestsCertain
      <4>3. Certain(q)'
        BY <1>1, <4>2, CertainKept
      <4> QED
        BY <4>2, <4>3 DEF Certain, HasDocument, HasAnswer, IsFirst, Live
    <3> QED
      BY <3>1, <3>2
  <2>4. RequestsCertain'
    BY <2>3 DEF RequestsCertain
  <2>5. OnlyFirstHasOne' /\ UsersLive' /\ SavesLive'
    BY <2>1 DEF CalmFacts, OnlyFirstHasOne, UsersLive, SavesLive, IsFirst, Live, Aside
  <2> QED
    BY <2>2, <2>4, <2>5 DEF CalmFacts
<1>10. Calm'
  BY <1>9 DEF Calm, Undisturbed
<1>11. ASSUME Smooth' PROVE SmoothFacts
  BY <1>11 DEF Aside, Accord
<1>12. ASSUME Smooth', NEW i \in 1..Len(cm'), cm'[i].live PROVE AccountedNext(i)
  <2>1. Accounted(i)
    BY <1>11, <1>12 DEF SmoothFacts, Live, Aside
  <2>2. \A t \in Slots : Claims(req[t], i) => req'[t] = req[t]
    BY <1>3, NothingClaimed DEF Busy
  <2> QED
    BY <2>1, <2>2 DEF Accounted, AccountedNext, Aside
<1>13. Smooth' => \A t \in Slots : LoggedIn(req'[t])
  <2> SUFFICES ASSUME Smooth', NEW t \in Slots PROVE LoggedIn(req'[t])
    OBVIOUS
  <2>1. CASE req'[t] = req[t]
    BY <1>11, <2>1 DEF SmoothFacts
  <2>2. CASE ~(req'[t].op \in UserOps)
    BY <2>2 DEF LoggedIn, UserOps
  <2> QED
    BY <1>3, <2>1, <2>2
<1>14. Accord'
  BY <1>12, <1>13, AccordFrom
<1> QED
  BY <1>8, <1>10, <1>14 DEF Keeps

\* A request on the configuration that goes on, or begins.
LEMMA OneAside ==
    ASSUME UserRequestsTyped, UNCHANGED <<users, nextDoc, cm, saves, rough>>, Smooth' => Smooth,
           NEW s \in Handlers, ~Busy(s), NEW r, ~(r.op \in UserOps), Do(s, r) \/ req' = req
    PROVE  Aside
<1>1. DOMAIN req = Handlers
  BY DEF UserRequestsTyped
<1>2. req' = [t \in Handlers |-> req'[t]]
  BY <1>1 DEF UserRequestsTyped, Do
<1>3. \A t \in Handlers : req'[t] = req[t] \/ (t = s /\ req'[t] = r)
  BY <1>1 DEF Do
<1>4. Slots \subseteq Handlers
  BY DEF Handlers
<1> QED
  BY <1>2, <1>3, <1>4 DEF Aside

\* What Next says of the users when the configuration takes a step.
UsersAside ==
    saves' = (IF up' THEN saves ELSE {}) /\ UNCHANGED <<users, nextDoc, cm, rough>>

LEMMA SideStep ==
    ASSUME UInv, UsersAside, NEW s \in Handlers, Begin(s) \/ Goes \/ Fails, ~Busy(s),
           NEW r, ~(r.op \in UserOps), Do(s, r) \/ req' = req
    PROVE  Keeps
<1>1. NoFaultTaken
  BY NoneTaken DEF UInv, CInv
<1>2. up'
  BY DEF Begin, Free, Goes, Fails, Faulty, Lives
<1>3. saves' = saves /\ UNCHANGED <<users, nextDoc, cm, rough>>
  BY <1>2 DEF UsersAside
<1>4. Smooth' => Smooth
  BY <1>1, <1>3 DEF NoFaultTaken, Smooth
<1>5. Aside
  BY <1>3, <1>4, OneAside DEF UInv, Own
<1> QED
  BY <1>5, AsideKeeps DEF UInv

LEMMA SideVanishes == ASSUME UInv, UsersAside, ProcessEnds PROVE Keeps
<1>1. saves' = {} /\ UNCHANGED <<users, nextDoc, cm, rough>>
  BY DEF UsersAside, ProcessEnds
<1> QED
  BY <1>1, VanishKeeps DEF UInv

LEMMA RegistrationAside ==
    ASSUME UInv, UsersAside, NEW s \in Handlers, RegisterSelfDescription(s) PROVE Keeps
<1>1. (Goes \/ Fails) /\ req[s].op = "register"
  BY DEF RegisterSelfDescription, RegisterRead, RegisterCheck, RegisterPost, RegisterList
<1>2. ~Busy(s)
  BY <1>1 DEF Busy, UserOps
<1>3. \E r : ~(r.op \in UserOps) /\ Do(s, r)
  <2>1. CASE Ends(s)
    BY <2>1, IdleIsFree DEF Ends
  <2>2. CASE RegisterRead(s)
    BY <2>2 DEF RegisterRead, UserOps
  <2>3. CASE ~Ends(s) /\ ~RegisterRead(s)
    <3>1. PICK pc \in {"post", "list"} :
              Do(s, [req[s] EXCEPT !.pc = pc]) /\ req[s].pc \in {"check", "post"}
      BY <2>3 DEF RegisterSelfDescription, RegisterCheck, RegisterPost, RegisterList
    <3>2. req[s] \in [op : {"register"}, pc : {"check", "post", "list"}, self : Registration]
      BY <1>1, <3>1, RequestShapes DEF UInv, CInv
    <3>3. [req[s] EXCEPT !.pc = pc].op = "register"
      BY <3>2
    <3> QED
      BY <3>1, <3>3 DEF UserOps
  <2> QED
    BY <2>1, <2>2, <2>3
<1> QED
  BY <1>1, <1>2, <1>3, SideStep

LEMMA BeginsAside ==
    ASSUME UInv, UsersAside, NEW s \in Handlers,
           \/ \E k \in Keys \cup {NoKeys} : UpdateConfiguration(s, k)
           \/ UpdateConsentConfiguration(s) \/ ResetConfiguration(s)
           \/ ReloadConfigurationFromFile(s)
           \/ \E o \in Origins : AddCorsOrigin(s, o)
           \/ \E i \in OriginIds : RemoveCorsOrigin(s, i)
           \/ \E k \in Keys : Login(s, k)
           \/ CreateCatalogResource(s)
           \/ \E n \in DOMAIN catalog, e \in BOOLEAN : UpdateCatalogById(s, n, e)
           \/ UpdateCredential(s)
    PROVE  Keeps
<1>1. Begin(s) /\ req[s] = Idle
  BY DEF UpdateConfiguration, UpdateConsentConfiguration, ResetConfiguration,
     ReloadConfigurationFromFile, AddCorsOrigin, RemoveCorsOrigin, Login,
     CreateCatalogResource, UpdateCatalogById, UpdateCredential, Begin, Free
<1>2. ~Busy(s)
  BY <1>1, IdleIsFree DEF Busy
<1>3. \E r : ~(r.op \in UserOps) /\ (Do(s, r) \/ req' = req)
  BY IdleIsFree
     DEF UpdateConfiguration, UpdateConsentConfiguration, ResetConfiguration,
     ReloadConfigurationFromFile, AddCorsOrigin, RemoveCorsOrigin, Login,
     CreateCatalogResource, UpdateCatalogById, UpdateCredential, Registers, UserOps
<1> QED
  BY <1>1, <1>2, <1>3, SideStep

LEMMA OriginsAside ==
    ASSUME UInv, UsersAside, NEW s \in Handlers,
           SignOrigin(s) \/ SavePush(s) \/ SaveResign(s) \/ SaveSplice(s)
    PROVE  Keeps
<1>1. ~Busy(s)
  BY DEF SignOrigin, SavePush, SaveResign, SaveSplice, Busy, UserOps
<1>2. CASE SignOrigin(s)
  <2>1. Goes /\ \E r : ~(r.op \in UserOps) /\ Do(s, r)
    BY <1>2 DEF SignOrigin, UserOps
  <2> QED
    BY <1>1, <2>1, SideStep
<1>3. CASE ~SignOrigin(s)
  <2>1. ProcessEnds \/ (Goes /\ Do(s, Idle))
    BY <1>3 DEF SavePush, SaveResign, SaveSplice, Goes, Ends
  <2> QED
    BY <1>1, <2>1, SideStep, SideVanishes, IdleIsFree
<1> QED
  BY <1>2, <1>3

LEMMA StartAside == ASSUME UInv, UsersAside, StartServer PROVE Keeps
<1>1. UserRequestsTyped /\ DOMAIN req = Handlers /\ Boot \in Handlers
  BY DEF UInv, Own, UserRequestsTyped, Handlers
<1>2. PICK r : r = [op |-> "register", pc |-> "read"]
  OBVIOUS
<1>3. Do(Boot, r) /\ ~(r.op \in UserOps)
  BY <1>2 DEF StartServer, UserOps
<1>4. saves' = saves /\ UNCHANGED <<users, nextDoc, cm, rough>> /\ (Smooth' => Smooth)
  BY DEF UsersAside, StartServer, Smooth
<1>5. Slots \subseteq Handlers \ {Boot}
  BY BootAssumption DEF Handlers
<1>6. req' = [t \in Handlers |-> req'[t]]
  BY <1>1, <1>3 DEF Do, UserRequestsTyped
<1>7. \A t \in Handlers : req'[t] = IF t = Boot THEN r ELSE req[t]
  BY <1>1, <1>3 DEF Do
<1>8. Aside
  BY <1>3, <1>4, <1>5, <1>6, <1>7 DEF Aside
<1> QED
  BY <1>8, AsideKeeps DEF UInv

LEMMA ConfigurationAside == ASSUME UInv, UsersAside, ConfigurationNext PROVE Keeps
<1>1. CASE StartServer
  BY <1>1, StartAside
<1>2. CASE Crash
  BY <1>2, SideVanishes DEF Crash
<1>3. ASSUME NEW s \in Handlers, ConfigurationStep(s) PROVE Keeps
  BY <1>3, RegistrationAside, BeginsAside, OriginsAside DEF ConfigurationStep
<1> QED
  BY <1>1, <1>2, <1>3 DEF ConfigurationNext

-----------------------------------------------------------------------------
(* The save of an identifier that nobody awaits                               *)

LEMMA AnswerSavedKeeps ==
    ASSUME UInv, NEW v \in saves, SaveIdentifier(v), DocAt(v.doc) # 0 PROVE Keeps
<1>1. /\ Own /\ Calm /\ Accord /\ users \in Seq(User) /\ v \in [doc : Nat, idf : Nat]
      /\ Lives /\ req' = req /\ faults' = faults /\ saves' = saves \ {v}
      /\ nextDoc' = nextDoc /\ cm' = cm /\ rough' = rough
  BY DEF UInv, Own, StoresTyped, SaveIdentifier
<1>2. PICK d, i, u : d = v.doc /\ i = v.idf /\ u = cm[i].who
  OBVIOUS
<1>3. i \in Nat /\ Names(d, u) /\ Owned(i, u)
  BY <1>1, <1>2 DEF Own, SavesOwn, Owned
<1>4. PICK p : p = DocAt(d)
  OBVIOUS
<1>5. Gives(p, i, u) /\ users[p].id = d
  <2>1. DocAt(d) # 0 /\ users' = [users EXCEPT ![DocAt(d)].idf = i]
    BY <1>2 DEF SaveIdentifier
  <2> QED
    BY <1>1, <1>3, <1>4, <2>1, NamedDocument
<1>6. UsersMove /\ UsersOwn' /\ Kept(0) /\ Len(cm') = Len(cm)
  BY <1>1, <1>5, GivesOwn
<1>7. rough' \subseteq Causes
  BY <1>1, RoughTyped
<1>8. StoresTyped'
  BY <1>1, <1>6, <1>7, StoresKept DEF Own, StoresTyped
<1>9. Own'
  BY <1>1, <1>6, <1>8, OwnStay
<1>10. Undisturbed' => CalmFacts /\ GivesLive(p, i, d)
  BY <1>1, <1>2, <1>5 DEF Calm, Undisturbed, CalmFacts, SavesLive, GivesLive
<1>11. ASSUME Undisturbed' PROVE CalmFacts'
  <2>1. CalmFacts
    BY <1>10, <1>11
  <2>2. OneAtWork'
    BY <1>1, <2>1 DEF CalmFacts, OneAtWork, Busy
  <2>3. OnlyFirstHasOne' /\ UsersLive'
    BY <1>1, <1>5, <1>10, <1>11, GivesCalm DEF CalmFacts
  <2>4. \A w \in saves' : IsFirstNext(w.doc) /\ cm'[w.idf].live
    <3> SUFFICES ASSUME NEW w \in saves' PROVE IsFirstNext(w.doc) /\ cm'[w.idf].live
      OBVIOUS
    <3>1. IsFirst(w.doc) /\ Live(w.idf)
      BY <1>1, <2>1 DEF CalmFacts, SavesLive
    <3>2. IsFirstNext(w.doc)
      BY <1>1, <1>5, <3>1, IsFirstGiven DEF Gives, Own
    <3> QED
      BY <1>1, <3>1, <3>2 DEF Live
  <2>5. SavesLive'
    BY <2>4 DEF SavesLive, IsFirst, IsFirstNext, Live
  <2>6. ASSUME NEW s \in Slots PROVE Certain(req[s])'
    <3>1. PICK q : q = req[s]
      OBVIOUS
    <3>2. CASE ~Busy(s)
      BY <1>1, <3>2 DEF Busy, Certain, HasDocument, HasAnswer, UserOps
    <3>3. CASE Busy(s)
      <4>1. q.op = "import" /\ q.pc \in {"row", "upsert"}
        BY <2>1, <3>1, <3>3 DEF CalmFacts, OneAtWork
      <4>2. Certain(q)
        BY <2>1, <3>1 DEF CalmFacts, RequestsCertain
      <4>3. Certain(q)'
        BY <1>1, <4>1, <4>2 DEF Certain, HasDocument, HasAnswer, Live
      <4>4. req'[s] = q
        BY <1>1, <3>1
      <4> QED
        BY <4>3, <4>4 DEF Certain, HasDocument, HasAnswer, IsFirst, Live
    <3> QED
      BY <3>2, <3>3
  <2>7. RequestsCertain'
    BY <2>6 DEF RequestsCertain
  <2> QED
    BY <2>2, <2>3, <2>5, <2>7 DEF CalmFacts
<1>12. Calm'
  BY <1>11 DEF Calm, Undisturbed
<1>13. Smooth' => SmoothFacts /\ Undisturbed' /\ ~Astray
  BY <1>1 DEF Smooth, Accord, Lives, Undisturbed, Astray
<1>14. ASSUME Smooth', NEW j \in 1..Len(cm'), cm'[j].live PROVE AccountedNext(j)
  <2>1. j \in 1..Len(cm) /\ Live(j) /\ Accounted(j)
    BY <1>1, <1>13, <1>14 DEF SmoothFacts, Live
  <2>2. GivesLive(p, i, d)
    BY <1>10, <1>13, <1>14
  <2>3. CASE \E n \in 1..Len(users) : users[n].idf = j
    BY <1>1, <1>5, <1>13, <1>14, <2>1, <2>2, <2>3, GivesAccounts DEF AccountedNext
  <2>4. CASE \E w \in saves : w.idf = j
    <3>1. CASE i = j
      <4>1. p \in 1..Len(users') /\ users'[p].idf = j
        BY <1>5, <3>1 DEF Gives, Rewrites
      <4> QED
        BY <4>1 DEF AccountedNext
    <3>2. CASE i # j
      BY <1>1, <1>2, <2>4, <3>2 DEF AccountedNext
    <3> QED
      BY <3>1, <3>2
  <2>5. CASE \E t \in Slots : Claims(req[t], j)
    BY <1>1, <2>5 DEF AccountedNext
  <2> QED
    BY <2>1, <2>3, <2>4, <2>5 DEF Accounted
<1>15. Smooth' => \A t \in Slots : LoggedIn(req'[t])
  BY <1>1, <1>13 DEF SmoothFacts
<1>16. Accord'
  BY <1>14, <1>15, AccordFrom
<1> QED
  BY <1>9, <1>12, <1>16 DEF Keeps

LEMMA SaveKeeps == ASSUME UInv, NEW v \in saves, SaveIdentifier(v) PROVE Keeps
<1>1. CASE DocAt(v.doc) # 0
  BY <1>1, AnswerSavedKeeps
<1>2. CASE DocAt(v.doc) = 0
  <2>1. ProcessEnds /\ saves' = {} /\ UNCHANGED <<users, nextDoc, cm, rough>>
    BY <1>2 DEF SaveIdentifier
  <2> QED
    BY <2>1, VanishKeeps DEF UInv
<1> QED
  BY <1>1, <1>2

-----------------------------------------------------------------------------
(* Every step, and the theorems                                               *)

LEMMA UserStepKeeps == ASSUME UInv, NEW s \in Slots, UserStep(s) PROVE Keeps
<1>1. ASSUME GrowsBy(s) PROVE Keeps
  BY <1>1, GrowsKeeps
<1>2. ASSUME NEW u \in Users,
             \/ CreateUser(s, u) \/ CreateUserFromConsent(s, u) \/ CreateUserToApp(s, u)
             \/ ConsentServiceMe(s, u) \/ GetUserConsent(s, u)
             \/ \E v \in Users \ {u} : ExcelImport(s, <<u, v>>)
      PROVE  Keeps
  BY <1>1, <1>2, CreateBegins, FromConsentBegins, ToAppBegins, ConsentBegins, ImportBegins
     DEF UInv
<1>3. ASSUME NEW n \in DOMAIN users,
             DeleteUser(s, n) \/ \E w, e \in Users : UpdateUser(s, n, w, e)
      PROVE  Keeps
  BY <1>3, DeleteUserKeeps, UserUpdateKeeps
<1>4. CASE \/ ManagerLogin(s) \/ CreateInsert(s) \/ CreateRegister(s) \/ UpdateIdentifier(s)
           \/ ImportRegister(s) \/ ImportFind(s) \/ ImportUpsert(s)
           \/ AppRegister(s) \/ AppFind(s) \/ AppInsert(s)
           \/ ResumeFind(s) \/ VerifyConsentAuth(s) \/ ConsentServiceParticipantLogin(s)
           \/ ConsentServiceResume(s) \/ ConsentAsk(s)
  BY <1>1, <1>4, ManagerLoginGrows, CreateInsertGrows, CreateRegisterGrows, UpdateGrows,
     ImportRegisterGrows, ImportFindGrows, ImportUpsertGrows, AppRegisterGrows, AppFindGrows,
     AppInsertGrows, ResumeFindGrows, VerifyAuthGrows, ParticipantLoginGrows, ResumeGrows,
     ConsentAskGrows
<1>5. CASE CreateUndo(s) \/ DeleteIdentifier(s) \/ ResumeSave(s)
  BY <1>5, CreateUndoKeeps, DeleteIdentifierKeeps, ResumeSaveKeeps
<1> QED
  BY <1>2, <1>3, <1>4, <1>5 DEF UserStep

LEMMA UsersNextKeep == ASSUME UInv, [Next]_vars PROVE UInv'
<1>1. CInv'
  BY NextKeeps DEF UInv
<1>2. CASE UNCHANGED vars
  <2>1. /\ UNCHANGED <<users, nextDoc, cm, saves, rough>> /\ req' = req
        /\ faults' = faults /\ ended' = ended
    BY <1>2 DEF vars, userVars
  <2>2. req' = [s \in Handlers |-> req'[s]]
    BY <2>1 DEF UInv, Own, UserRequestsTyped
  <2>3. Aside
    BY <2>1, <2>2 DEF Aside, Smooth
  <2> QED
    BY <1>1, <2>3, AsideKeeps DEF UInv, Keeps
<1>3. CASE ConfigurationNext /\ UsersAside
  BY <1>1, <1>3, ConfigurationAside DEF UInv, Keeps
<1>4. ASSUME NEW s \in Slots, UserStep(s) PROVE UInv'
  BY <1>1, <1>4, UserStepKeeps DEF UInv, Keeps
<1>5. ASSUME NEW v \in saves, SaveIdentifier(v) PROVE UInv'
  BY <1>1, <1>5, SaveKeeps DEF UInv, Keeps
<1> QED
  BY <1>2, <1>3, <1>4, <1>5 DEF Next, UsersAside

LEMMA UsersInitHolds == ASSUME Init PROVE UInv
<1>1. CInv
  BY InitHolds DEF Init
<1>2. PICK w \in Users :
          /\ users = <<[id |-> 1, who |-> w, email |-> w, idf |-> 1]>>
          /\ cm = <<[who |-> w, email |-> w, live |-> TRUE]>>
  BY DEF Init
<1>3. PICK d, i : /\ d = [id |-> 1, who |-> w, email |-> w, idf |-> 1]
                  /\ i = [who |-> w, email |-> w, live |-> TRUE]
  OBVIOUS
<1>4. d \in User /\ d.id = 1 /\ d.who = w /\ d.idf = 1
  BY <1>3 DEF User
<1>5. i \in Identifier /\ i.who = w /\ i.live
  BY <1>3 DEF Identifier
<1>6. users \in Seq(User) /\ Len(users) = 1 /\ users[1] = d
  BY <1>2, <1>3, <1>4
<1>7. cm \in Seq(Identifier) /\ Len(cm) = 1 /\ cm[1] = i
  BY <1>2, <1>3, <1>5
<1>8. nextDoc = 1 /\ saves = {} /\ rough = {} /\ req = [s \in Handlers |-> Idle]
  BY DEF Init, ConfigurationInit
<1>9. \A s \in Slots : req[s] = Idle
  BY <1>8 DEF Handlers
<1>10. 1..Len(users) = {1} /\ 1..Len(cm) = {1}
  BY <1>6, <1>7
<1>11. StoresTyped
  BY <1>6, <1>7, <1>8 DEF StoresTyped
<1>12. UserRequestsTyped
  BY <1>8, IdleIsFree DEF UserRequestsTyped
<1>13. DocumentsDiffer /\ OneLiveEach /\ UsersOwn
  BY <1>4, <1>5, <1>6, <1>7, <1>8, <1>10 DEF DocumentsDiffer, OneLiveEach, UsersOwn, Owned
<1>14. SavesOwn /\ RequestsHold
  BY <1>8, <1>9, IdleIsFree DEF SavesOwn, RequestsHold
<1>15. Own
  BY <1>11, <1>12, <1>13, <1>14 DEF Own
<1>16. OneAtWork /\ RequestsCertain /\ SavesLive
  BY <1>8, <1>9, IdleIsFree DEF OneAtWork, Busy, RequestsCertain, SavesLive
<1>17. UsersLive
  BY <1>4, <1>5, <1>6, <1>7, <1>10 DEF UsersLive, Live
<1>18. OnlyFirstHasOne
  BY <1>10 DEF OnlyFirstHasOne
<1>19. Calm
  BY <1>16, <1>17, <1>18 DEF Calm, CalmFacts
<1>20. \A j \in 1..Len(cm) : Accounted(j)
  BY <1>4, <1>6, <1>10 DEF Accounted
<1>21. \A s \in Slots : LoggedIn(req[s])
  BY <1>9, IdleIsFree
<1>22. Accord
  BY <1>20, <1>21 DEF Accord, SmoothFacts
<1> QED
  BY <1>1, <1>15, <1>19, <1>22 DEF UInv

LEMMA UsersInvariant == Spec => []UInv
<1>1. Init => UInv
  BY UsersInitHolds
<1>2. UInv /\ [Next]_vars => UInv'
  BY UsersNextKeep
<1> QED
  BY <1>1, <1>2, PTL DEF Spec

\* Users, identifiers and saves keep their types, whatever an import, a resumed
\* consent or an answer of the manager puts into a request on its way.
THEOREM UsersTypeCorrect == Spec => []TypeOK
<1>1. UInv => TypeOK
  <2> SUFFICES ASSUME UInv PROVE TypeOK
    OBVIOUS
  <2>1. ConfigurationTypeOK
    BY DEF UInv, CInv, StoreOK, CatalogueOK, ProcessOK, AccessOK, ConfigurationTypeOK
  <2>2. req = [s \in Handlers |-> req[s]]
    BY DEF UInv, Own, UserRequestsTyped
  <2>3. \A s \in Handlers : req[s] \in {Idle} \cup ConfigurationRequest \cup UserRequest
    <3> SUFFICES ASSUME NEW s \in Handlers, ~(req[s] \in Requests)
                 PROVE  req[s] \in UserRequest
      BY DEF Requests
    <3>1. req[s].op \in UserOps
      BY DEF UInv, CInv, HandlersOK, RequestsTyped, OnUsers
    <3> QED
      BY <3>1 DEF UInv, Own, UserRequestsTyped
  <2>4. req \in [Handlers -> {Idle} \cup ConfigurationRequest \cup UserRequest]
    BY <2>2, <2>3
  <2> QED
    BY <2>1, <2>4 DEF UInv, Own, StoresTyped, TypeOK
<1> QED
  BY <1>1, UsersInvariant, PTL

\* Unless an update changed an internal id, no user ever carries an identifier that the
\* manager gave for another user: not in the collection, not in a save under way, not
\* as the key of a consent call, however creations, imports, deletions, resumed
\* consents and users that the manager names overlap, fail and vanish.
THEOREM IdentifiersAreOwn == Spec => []IdentifierIsOwn
<1>1. UInv => IdentifierIsOwn
  <2> SUFFICES ASSUME UInv, ~Astray PROVE IdentifierIsOwn
    BY DEF IdentifierIsOwn, Astray
  <2>1. Own /\ users \in Seq(User) /\ DOMAIN users = 1..Len(users)
    BY UserFields DEF UInv, Own, StoresTyped
  <2>2. \A n \in DOMAIN users : users[n].idf # NoIdentifier => cm[users[n].idf].who = users[n].who
    BY <2>1 DEF Own, UsersOwn, Owned
  <2>3. ASSUME NEW v \in saves, DocAt(v.doc) # 0
        PROVE  cm[v.idf].who = users[DocAt(v.doc)].who
    <3>1. PICK d, p : d = v.doc /\ p = DocAt(d)
      OBVIOUS
    <3>2. p \in 1..Len(users) /\ users[p].id = d
      BY <2>1, <2>3, <3>1, DocAtFinds
    <3>3. Names(d, cm[v.idf].who)
      BY <2>1, <3>1 DEF Own, SavesOwn
    <3> QED
      BY <3>1, <3>2, <3>3 DEF Names
  <2>4. ASSUME NEW s \in Slots, req[s].op = "consent", req[s].idf # NoIdentifier
        PROVE  cm[req[s].idf].who = req[s].who
    <3>1. Holds(req[s])
      BY <2>1 DEF Own, RequestsHold
    <3> QED
      BY <2>4, <3>1 DEF Holds, Owned
  <2> QED
    BY <2>2, <2>3, <2>4 DEF IdentifierIsOwn
<1> QED
  BY <1>1, UsersInvariant, PTL

\* Where no two requests on users overlapped, no update changed an internal id and the
\* manager named no user twice and none too late, no user carries an identifier that
\* the manager has deleted, whichever calls failed and whenever the process ended.
THEOREM NoneIsDead == Spec => []NoDeadIdentifier
<1>1. UInv => NoDeadIdentifier
  <2> SUFFICES ASSUME UInv, Undisturbed PROVE NoDeadIdentifier
    BY DEF NoDeadIdentifier
  <2>1. DOMAIN users = 1..Len(users)
    BY UserFields DEF UInv, Own, StoresTyped
  <2>2. UsersLive
    BY DEF UInv, Calm, CalmFacts
  <2> QED
    BY <2>1, <2>2 DEF UsersLive, Live, NoDeadIdentifier
<1> QED
  BY <1>1, UsersInvariant, PTL

\* At rest, the manager's live identifiers are exactly those of the users, unless a
\* call failed, the process ended, the manager refused the keys, two requests on users
\* overlapped, an import met a user it knew, an update changed an internal id, or the
\* manager named a user twice or too late.
THEOREM StoresAgreeAtRest == Spec => []StoresAgree
<1>1. UInv => StoresAgree
  <2> SUFFICES ASSUME UInv, Smooth, Undisturbed, saves = {}, \A s \in Slots : req[s].op \notin UserOps
               PROVE  {i \in DOMAIN cm : cm[i].live}
                        = {users[n].idf : n \in DOMAIN users} \ {NoIdentifier}
    BY DEF StoresAgree, Smooth, AtRest, Undisturbed
  <2>1. /\ DOMAIN users = 1..Len(users) /\ DOMAIN cm = 1..Len(cm)
        /\ \A i \in 1..Len(cm) : i # NoIdentifier
    BY UserFields, LenProperties, LengthsAreNumbers DEF UInv, Own, StoresTyped, NoIdentifier
  <2>2. ASSUME NEW i \in 1..Len(cm), cm[i].live PROVE \E n \in 1..Len(users) : users[n].idf = i
    <3>1. Accounted(i)
      BY <2>2 DEF UInv, Accord, SmoothFacts, Live
    <3>2. \A s \in Slots : ~Claims(req[s], i)
      BY NothingClaimed
    <3> QED
      BY <3>1, <3>2 DEF Accounted
  <2>3. ASSUME NEW n \in 1..Len(users), users[n].idf # NoIdentifier
        PROVE  users[n].idf \in 1..Len(cm) /\ cm[users[n].idf].live
    <3>1. UsersOwn /\ UsersLive
      BY DEF UInv, Own, Calm, CalmFacts, Smooth
    <3> QED
      BY <2>3, <3>1 DEF UsersOwn, UsersLive, Owned, Live
  <2> QED
    BY <2>1, <2>2, <2>3
<1> QED
  BY <1>1, UsersInvariant, PTL
=============================================================================
