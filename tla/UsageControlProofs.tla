------------------------- MODULE UsageControlProofs -------------------------
(***************************************************************************)
(* Proofs about UsageControl, for every set of requests and contracts and  *)
(* every limit: its type, that nothing is counted that was not delivered,  *)
(* and that serial use is counted exactly and overruns the limit by less   *)
(* than one export.                                                        *)
(*                                                                         *)
(* The counter is a sum over a sequence.  Running totals exist (SumsExist, *)
(* by induction over a set of positions) and Total is the last of them     *)
(* (TotalIsSum), so what one increment or one more document does to the    *)
(* total is a fact about two functions.  The deliveries that are still to be counted are   *)
(* the requests in a counting state: their number and the total never      *)
(* exceed the deliveries (CountedOrPending).                               *)
(***************************************************************************)
EXTENDS UsageControl, FiniteSets, FiniteSetTheorems, SequenceTheorems,
        WellFoundedInduction, TLAPS

-----------------------------------------------------------------------------
(* Running totals *)

LEMMA LeastElement ==
    ASSUME NEW S \in SUBSET Nat, S # {} PROVE \E x \in S : \A y \in S : x <= y
<1>1. PICK x \in S : \A y \in S : ~(<<y, x>> \in OpToRel(<, Nat))
  BY NatLessThanWellFounded, WFMin
<1>2. OpToRel(<, Nat) = {p \in Nat \X Nat : p[1] < p[2]}
  BY DEF OpToRel
<1>3. ASSUME NEW y \in S PROVE x <= y
  <2>1. <<y, x>> \notin {p \in Nat \X Nat : p[1] < p[2]}
    BY <1>1, <1>2
  <2> QED
    BY <2>1
<1> QED
  BY <1>3

\* Induction over the natural numbers, for a set in place of a predicate.
LEMMA NatInductiveSet ==
    ASSUME NEW S \in SUBSET Nat, 0 \in S, \A n \in S : n + 1 \in S
    PROVE  S = Nat
<1> SUFFICES ASSUME Nat \ S # {} PROVE FALSE
  OBVIOUS
<1>1. PICK x \in Nat \ S : \A y \in Nat \ S : x <= y
  BY LeastElement
<1>2. x # 0 /\ x - 1 \in Nat
  BY <1>1
<1>3. x - 1 \in S
  BY <1>1, <1>2
<1> QED
  BY <1>1, <1>2, <1>3

\* f holds the totals of the first 0, 1, ... n entries of s.
SumsTo(s, n, f) ==
    /\ f \in [0..n -> Nat]
    /\ f[0] = 0
    /\ \A i \in 1..n : f[i] = f[i - 1] + s[i]

LEMMA SumsExist ==
    ASSUME NEW s \in Seq(Nat) PROVE \E f : SumsTo(s, Len(s), f)
<1> DEFINE S == {n \in Nat : n <= Len(s) => \E f : SumsTo(s, n, f)}
<1>1. Len(s) \in Nat /\ \A i \in 1..Len(s) : s[i] \in Nat
  BY LenProperties, ElementOfSeq
<1>2. 0 \in S
  <2>1. SumsTo(s, 0, [i \in 0..0 |-> 0])
    BY DEF SumsTo
  <2> QED
    BY <2>1
<1>3. ASSUME NEW n \in S PROVE n + 1 \in S
  <2> SUFFICES ASSUME n + 1 <= Len(s) PROVE \E f : SumsTo(s, n + 1, f)
    OBVIOUS
  <2>1. PICK f : SumsTo(s, n, f)
    BY <1>1
  <2> DEFINE g == [i \in 0..(n + 1) |-> IF i = n + 1 THEN f[n] + s[n + 1] ELSE f[i]]
  <2>2. s[n + 1] \in Nat /\ n \in Nat
    BY <1>1
  <2>3. SumsTo(s, n + 1, g)
    BY <2>1, <2>2 DEF SumsTo
  <2> QED
    BY <2>3
<1>4. S = Nat
  <2>1. S \in SUBSET Nat
    OBVIOUS
  <2> HIDE DEF S
  <2> QED
    BY <1>2, <1>3, <2>1, NatInductiveSet
<1> QED
  BY <1>1, <1>4

\* Total is the last of the running totals, whichever function has them.
LEMMA TotalIsSum ==
    ASSUME NEW s \in Seq(Nat), NEW f, SumsTo(s, Len(s), f)
    PROVE  Total(s) = f[Len(s)] /\ Total(s) \in Nat
<1> DEFINE n == Len(s)
           Recurses(h) == h = [i \in 0..n |-> IF i = 0 THEN 0 ELSE h[i - 1] + s[i]]
           sum == CHOOSE h : Recurses(h)
<1>1. n \in Nat
  BY LenProperties
<1>2. Recurses(f)
  BY <1>1 DEF SumsTo
<1>3. Recurses(sum)
  BY <1>2
<1>4. Total(s) = sum[n]
  BY DEF Total
<1>5. \A i \in 0..n : sum[i] = IF i = 0 THEN 0 ELSE sum[i - 1] + s[i]
  BY <1>3
<1> HIDE DEF sum
<1>6. \A i \in 0..n : sum[i] = f[i]
  <2> DEFINE S == {i \in 0..n : sum[i] # f[i]}
  <2> SUFFICES ASSUME S # {} PROVE FALSE
    OBVIOUS
  <2>0. S \in SUBSET Nat
    BY <1>1
  <2>1. PICK i \in S : \A j \in S : i <= j
    <3> HIDE DEF S
    <3> QED
      BY <2>0, LeastElement
  <2>2. i \in 1..n /\ i - 1 \in 0..n
    BY <1>1, <1>5, <2>1 DEF SumsTo
  <2>3. sum[i - 1] = f[i - 1]
    BY <2>1, <2>2
  <2> QED
    BY <1>5, <2>1, <2>2, <2>3 DEF SumsTo
<1> QED
  BY <1>1, <1>4, <1>6 DEF SumsTo

LEMMA TotalOfNone == Total(<<>>) = 0
<1>1. SumsTo(<<>>, 0, [i \in 0..0 |-> 0])
  BY DEF SumsTo
<1>2. <<>> \in Seq(Nat) /\ Len(<<>>) = 0
  OBVIOUS
<1> QED
  BY <1>1, <1>2, TotalIsSum

LEMMA TotalOfOneMore ==
    ASSUME NEW s \in Seq(Nat), NEW v \in Nat
    PROVE  /\ Append(s, v) \in Seq(Nat)
           /\ Total(s) \in Nat /\ Total(Append(s, v)) = Total(s) + v
<1> DEFINE n == Len(s)
           t == Append(s, v)
<1>1. /\ n \in Nat /\ t \in Seq(Nat) /\ Len(t) = n + 1 /\ t[n + 1] = v
      /\ \A i \in 1..n : t[i] = s[i]
  BY LenProperties, AppendProperties
<1>2. PICK f : SumsTo(s, n, f)
  BY SumsExist
<1> DEFINE g == [i \in 0..(n + 1) |-> IF i = n + 1 THEN f[n] + v ELSE f[i]]
<1> HIDE DEF t, n
<1>3. SumsTo(t, n + 1, g)
  <2>1. g \in [0..(n + 1) -> Nat] /\ g[0] = 0
    BY <1>1, <1>2 DEF SumsTo
  <2>2. ASSUME NEW i \in 1..(n + 1) PROVE g[i] = g[i - 1] + t[i]
    <3>1. CASE i = n + 1
      BY <1>1, <3>1
    <3>2. CASE i # n + 1
      BY <1>1, <1>2, <3>2 DEF SumsTo
    <3> QED
      BY <3>1, <3>2
  <2> QED
    BY <2>1, <2>2 DEF SumsTo
<1>4. Total(t) = g[n + 1] /\ Total(s) = f[n] /\ Total(s) \in Nat
  <2> HIDE DEF g
  <2> QED
    BY <1>1, <1>2, <1>3, TotalIsSum DEF n
<1>5. g[n + 1] = f[n] + v
  BY <1>1
<1> QED
  BY <1>1, <1>4, <1>5 DEF t

LEMMA TotalOfIncrement ==
    ASSUME NEW s \in Seq(Nat), s # <<>>
    PROVE  /\ Incremented(s) \in Seq(Nat)
           /\ Len(Incremented(s)) = Len(s)
           /\ Total(Incremented(s)) = Total(s) + 1
<1> DEFINE n == Len(s)
           t == Incremented(s)
<1>1. n \in Nat /\ n >= 1 /\ \A i \in 1..n : s[i] \in Nat
  BY LenProperties, ElementOfSeq, EmptySeq
<1>2. s[1] + 1 \in Nat
  BY <1>1
<1>3. /\ t \in Seq(Nat) /\ Len(t) = n
      /\ t[1] = s[1] + 1 /\ \A i \in 2..n : t[i] = s[i]
  BY <1>1, <1>2, ExceptSeq DEF Incremented
<1>4. PICK f : SumsTo(s, n, f)
  BY SumsExist
<1> DEFINE g == [i \in 0..n |-> IF i = 0 THEN 0 ELSE f[i] + 1]
<1> HIDE DEF t, n
<1>5. SumsTo(t, n, g)
  <2>1. g \in [0..n -> Nat] /\ g[0] = 0
    BY <1>1, <1>4 DEF SumsTo
  <2>2. ASSUME NEW i \in 1..n PROVE g[i] = g[i - 1] + t[i]
    <3>1. f[i] = f[i - 1] + s[i] /\ f[0] = 0 /\ f[i] \in Nat /\ f[i - 1] \in Nat
      BY <1>1, <1>4 DEF SumsTo
    <3>2. CASE i = 1
      BY <1>1, <1>3, <3>1, <3>2
    <3>3. CASE i # 1
      BY <1>1, <1>3, <3>1, <3>3
    <3> QED
      BY <3>2, <3>3
  <2> QED
    BY <2>1, <2>2 DEF SumsTo
<1>6. Total(t) = g[n] /\ Total(s) = f[n]
  <2> HIDE DEF g
  <2> QED
    BY <1>3, <1>4, <1>5, TotalIsSum DEF n
<1>7. g[n] = f[n] + 1
  BY <1>1
<1> QED
  BY <1>3, <1>6, <1>7 DEF t, n

-----------------------------------------------------------------------------
(* The type invariant *)

\* A request that has not been sent has something to send.
LeftToSend ==
    \A q \in Requests : pc[q] \in {"idle", "load", "decide", "send"} => left[q] >= 1

Typed == TypeOK /\ LeftToSend

\* What processCount does to the documents of a contract keeps them a sequence.
LEMMA CountersTyped ==
    ASSUME TypeOK, NEW q \in Requests, ProcessCount(q)
    PROVE  counters' \in [Contracts -> Seq(Nat)]
<1> DEFINE c == contract[q]
<1>1. c \in Contracts /\ counters[c] \in Seq(Nat)
  BY DEF TypeOK
<1>2. CASE UNCHANGED counters
  BY <1>2 DEF TypeOK
<1>3. CASE counters[c] # <<>> /\ counters' = [counters EXCEPT ![c] = Incremented(@)]
  <2>1. Incremented(counters[c]) \in Seq(Nat)
    BY <1>1, <1>3, TotalOfIncrement
  <2> QED
    BY <1>1, <1>3, <2>1 DEF TypeOK
<1>4. CASE counters' = [counters EXCEPT ![c] = Append(@, 1)]
  <2>1. Append(counters[c], 1) \in Seq(Nat)
    BY <1>1
  <2> QED
    BY <1>1, <1>4, <2>1 DEF TypeOK
<1> QED
  BY <1>2, <1>3, <1>4 DEF ProcessCount

LEMMA TypedInit == Init => Typed
<1> SUFFICES ASSUME Init PROVE Typed
  OBVIOUS
<1>1. counters \in [Contracts -> Seq(Nat)]
  <2>1. <<>> \in Seq(Nat)
    OBVIOUS
  <2> QED
    BY <2>1 DEF Init
<1>2. /\ pc \in [Requests -> {"idle", "load", "decide", "send"} \cup Counting \cup Ended]
      /\ left \in [Requests -> 0..NResources]
      /\ served \in [Contracts -> Nat]
  BY SizesAssumption DEF Init
<1>3. losses \in 0..MaxLosses
  BY SizesAssumption DEF Init
<1>4. TypeOK
  BY <1>1, <1>2, <1>3 DEF Init, TypeOK
<1>5. LeftToSend
  BY SizesAssumption DEF Init, LeftToSend
<1> QED
  BY <1>4, <1>5 DEF Typed

LEMMA TypedStep ==
    ASSUME Typed, [Next]_vars PROVE Typed'
<1> USE SizesAssumption DEF Typed, Ended, Counting
<1>1. CASE UNCHANGED vars
  BY <1>1 DEF vars, TypeOK, LeftToSend
<1>2. ASSUME NEW q \in Requests, RequestAction(q) PROVE Typed'
  BY <1>2 DEF RequestAction, Goto, TypeOK, LeftToSend
<1>3. ASSUME NEW q \in Requests, LoadPolicies(q) PROVE Typed'
  BY <1>3 DEF LoadPolicies, Goto, TypeOK, LeftToSend
<1>4. ASSUME NEW q \in Requests, Decide(q) PROVE Typed'
  BY <1>4 DEF Decide, Goto, TypeOK, LeftToSend
<1>5. ASSUME NEW q \in Requests, Deliver(q) PROVE Typed'
  <2>1. left[q] >= 1 /\ left[q] \in 0..NResources /\ contract[q] \in Contracts
    BY <1>5 DEF Deliver, TypeOK, LeftToSend
  <2>2. left' = [left EXCEPT ![q] = left[q] - 1] /\ left[q] - 1 \in 0..NResources
    BY <1>5, <2>1 DEF Deliver
  <2>3. served' \in [Contracts -> Nat] /\ losses' \in 0..MaxLosses
    <3>1. served' = served \/ served' = [served EXCEPT ![contract[q]] = @ + 1]
      BY <1>5 DEF Deliver
    <3>2. losses' = losses \/ (losses < MaxLosses /\ losses' = losses + 1)
      BY <1>5 DEF Deliver
    <3>3. served' \in [Contracts -> Nat]
      BY <2>1, <3>1 DEF TypeOK
    <3> QED
      BY <3>2, <3>3 DEF TypeOK
  <2>4. \E place \in {"list", "done", "send"} :
            Goto(q, place) /\ (place = "send" => left[q] # 1)
    BY <1>5 DEF Deliver
  <2>5. TypeOK'
    BY <1>5, <2>2, <2>3, <2>4 DEF Deliver, Goto, TypeOK
  <2>6. LeftToSend'
    BY <2>1, <2>2, <2>4 DEF Goto, TypeOK, LeftToSend
  <2> QED
    BY <2>5, <2>6
<1>6. ASSUME NEW q \in Requests, ListLeftOperands(q) PROVE Typed'
  BY <1>6 DEF ListLeftOperands, After, Goto, TypeOK, LeftToSend
<1>7. ASSUME NEW q \in Requests, ProcessCount(q) PROVE Typed'
  <2>1. counters' \in [Contracts -> Seq(Nat)]
    BY <1>7, CountersTyped
  <2>2. \E place \in {"insert", "done", "send"} :
            Goto(q, place) /\ (place = "send" => left[q] # 0)
    BY <1>7 DEF ProcessCount, After
  <2>3. TypeOK'
    BY <1>7, <2>1, <2>2 DEF ProcessCount, Goto, TypeOK
  <2>4. LeftToSend'
    BY <1>7, <2>2 DEF ProcessCount, Goto, TypeOK, LeftToSend
  <2> QED
    BY <2>3, <2>4
<1>8. CASE Crash
  BY <1>8, NoneAssumption DEF Crash, InProgress, TypeOK, LeftToSend
<1> QED
  BY <1>1, <1>2, <1>3, <1>4, <1>5, <1>6, <1>7, <1>8 DEF Next

-----------------------------------------------------------------------------
(* Nothing is counted that was not delivered *)

CountedOrPending ==
    \A c \in Contracts :
        /\ IsFiniteSet(Pending(c))
        /\ Total(counters[c]) + Cardinality(Pending(c)) <= served[c]

LEMMA CountedInit == Init => CountedOrPending
<1> SUFFICES ASSUME Init, NEW c \in Contracts
             PROVE  /\ IsFiniteSet(Pending(c))
                    /\ Total(counters[c]) + Cardinality(Pending(c)) <= served[c]
  BY DEF CountedOrPending
<1>1. Pending(c) = {} /\ counters[c] = <<>> /\ served[c] = 0
  BY DEF Init, Pending, Counting
<1> QED
  BY <1>1, TotalOfNone, FS_EmptySet

\* A step that only takes requests out of counting.
LEMMA FewerPending ==
    ASSUME Typed, CountedOrPending, NEW c \in Contracts, Pending(c)' \subseteq Pending(c),
           counters'[c] = counters[c], served'[c] \in Nat, served'[c] >= served[c]
    PROVE  /\ IsFiniteSet(Pending(c)')
           /\ Total(counters'[c]) + Cardinality(Pending(c)') <= served'[c]
<1>1. IsFiniteSet(Pending(c)) /\ Total(counters[c]) + Cardinality(Pending(c)) <= served[c]
  BY DEF CountedOrPending
<1>2. /\ IsFiniteSet(Pending(c)') /\ Cardinality(Pending(c)') <= Cardinality(Pending(c))
      /\ Cardinality(Pending(c)') \in Nat /\ Cardinality(Pending(c)) \in Nat
  BY <1>1, FS_Subset, FS_CardinalityType
<1>3. Total(counters[c]) \in Nat /\ served[c] \in Nat
  BY TotalOfOneMore DEF Typed, TypeOK
<1> QED
  BY <1>1, <1>2, <1>3

LEMMA CountedStep ==
    ASSUME Typed, Typed', CountedOrPending, [Next]_vars PROVE CountedOrPending'
<1> SUFFICES ASSUME NEW c \in Contracts
             PROVE  /\ IsFiniteSet(Pending(c)')
                    /\ Total(counters'[c]) + Cardinality(Pending(c)') <= served'[c]
  BY DEF CountedOrPending
<1>t. /\ counters[c] \in Seq(Nat) /\ served[c] \in Nat /\ served'[c] \in Nat
      /\ Total(counters[c]) \in Nat
  BY TotalOfOneMore DEF Typed, TypeOK
<1>h. /\ IsFiniteSet(Pending(c)) /\ Cardinality(Pending(c)) \in Nat
      /\ Total(counters[c]) + Cardinality(Pending(c)) <= served[c]
  BY FS_CardinalityType DEF CountedOrPending
\* The steps that count nothing.
<1> DEFINE Quiet == /\ Pending(c)' \subseteq Pending(c)
                    /\ counters'[c] = counters[c] /\ served'[c] >= served[c]
<1>q. Quiet => /\ IsFiniteSet(Pending(c)')
               /\ Total(counters'[c]) + Cardinality(Pending(c)') <= served'[c]
  BY <1>t, FewerPending
<1>1. CASE UNCHANGED vars
  BY <1>1, <1>q, <1>t DEF vars, Pending
<1>2. ASSUME NEW q \in Requests, RequestAction(q) \/ LoadPolicies(q) \/ Decide(q) PROVE Quiet
  <2>1. /\ contract' = contract /\ counters' = counters /\ served' = served
        /\ \E place \in {"load", "decide", "refused", "send"} : Goto(q, place)
    BY <1>2 DEF RequestAction, LoadPolicies, Decide
  <2>2. Pending(c)' \subseteq Pending(c)
    BY <2>1 DEF Goto, Pending, Counting, Typed, TypeOK
  <2> QED
    BY <1>t, <2>1, <2>2
<1>3. ASSUME NEW q \in Requests, Deliver(q)
      PROVE  /\ IsFiniteSet(Pending(c)')
             /\ Total(counters'[c]) + Cardinality(Pending(c)') <= served'[c]
  <2>1. /\ contract' = contract /\ counters' = counters /\ pc[q] = "send"
        /\ \A r \in Requests \ {q} : pc'[r] = pc[r]
        /\ q \notin Pending(c)
    BY <1>3 DEF Deliver, Goto, Pending, Counting, Typed, TypeOK
  <2>2. CASE contract[q] # c \/ pc'[q] \notin Counting
    <3>1. Pending(c)' \subseteq Pending(c)
      BY <2>1, <2>2 DEF Pending
    <3>2. served'[c] >= served[c]
      <4>1. served' = served \/ served' = [served EXCEPT ![contract[q]] = @ + 1]
        BY <1>3 DEF Deliver
      <4> QED
        <5>1. served \in [Contracts -> Nat] /\ contract[q] \in Contracts
          BY DEF Typed, TypeOK
        <5> QED
          BY <4>1, <5>1
    <3> QED
      BY <1>q, <2>1, <3>1, <3>2
  <2>3. CASE contract[q] = c /\ pc'[q] \in Counting
    <3>1. served'[c] = served[c] + 1
      BY <1>3, <2>3 DEF Deliver, Goto, Counting, Typed, TypeOK
    <3>2. Pending(c)' = Pending(c) \cup {q}
      BY <2>1, <2>3 DEF Pending
    <3>3. IsFiniteSet(Pending(c)') /\ Cardinality(Pending(c)') = Cardinality(Pending(c)) + 1
      BY <1>h, <2>1, <3>2, FS_AddElement
    <3> QED
      BY <1>h, <1>t, <2>1, <3>1, <3>3
  <2> QED
    BY <2>2, <2>3
<1>4. ASSUME NEW q \in Requests, ListLeftOperands(q) PROVE Quiet
  BY <1>4, <1>t DEF ListLeftOperands, After, Goto, Pending, Counting, Typed, TypeOK
<1>5. ASSUME NEW q \in Requests, ProcessCount(q)
      PROVE  /\ IsFiniteSet(Pending(c)')
             /\ Total(counters'[c]) + Cardinality(Pending(c)') <= served'[c]
  <2>1. /\ contract' = contract /\ served' = served /\ pc[q] \in {"match", "insert"}
        /\ \A r \in Requests \ {q} : pc'[r] = pc[r]
    BY <1>5 DEF ProcessCount, Goto, Typed, TypeOK
  <2>2. CASE counters'[c] = counters[c]
    <3>1. Pending(c)' \subseteq Pending(c)
      BY <2>1 DEF Pending, Counting
    <3> QED
      BY <1>q, <1>t, <2>1, <2>2, <3>1
  <2>3. CASE counters'[c] # counters[c]
    <3>1. contract[q] = c
      BY <1>5, <2>3 DEF ProcessCount, Typed, TypeOK
    <3>2. pc'[q] \notin Counting
      BY <1>5, <2>3 DEF ProcessCount, After, Goto, Counting, Typed, TypeOK
    <3>3. Pending(c)' = Pending(c) \ {q} /\ q \in Pending(c)
      BY <2>1, <3>1, <3>2 DEF Pending, Counting
    <3>4. /\ IsFiniteSet(Pending(c)')
          /\ Cardinality(Pending(c)') = Cardinality(Pending(c)) - 1
      BY <1>h, <3>3, FS_RemoveElement
    <3>5. \/ counters[c] # <<>> /\ counters'[c] = Incremented(counters[c])
          \/ counters'[c] = Append(counters[c], 1)
      BY <1>5, <2>3, <3>1 DEF ProcessCount, Typed, TypeOK
    <3>6. Total(counters'[c]) = Total(counters[c]) + 1
      BY <1>t, <3>5, TotalOfIncrement, TotalOfOneMore
    <3> QED
      BY <1>h, <1>t, <2>1, <3>4, <3>6
  <2> QED
    BY <2>2, <2>3
<1>6. CASE Crash
  <2>1. Pending(c)' \subseteq Pending(c)
    BY <1>6 DEF Crash, Pending, InProgress, Counting, Ended
  <2> QED
    BY <1>6, <1>q, <1>t, <2>1 DEF Crash
<1> QED
  BY <1>1, <1>2, <1>3, <1>4, <1>5, <1>6, <1>q DEF Next

\* Serial use: no two requests have overlapped and nothing has been lost.
Alone == ~overlapped /\ losses = 0
Holds(q) == pc[q] \in {"decide", "send"} \cup Counting

\* One request at a time is in progress, the decision point is its own, and
\* holds the policies once they are loaded.
OneAtATime ==
    /\ \A q, r \in Requests : InProgress(q) /\ InProgress(r) => q = r
    /\ \A q \in Requests : InProgress(q) => pdp = q
    /\ \A q \in Requests : Holds(q) => q \in loaded

\* One document at most, behind by the delivery that is being counted.
ExactCount ==
    /\ \A c \in Contracts :
        /\ counters[c] = <<>> \/ Len(counters[c]) = 1
        /\ Count(c) = IF Pending(c) = {} THEN served[c] ELSE served[c] - 1
    /\ \A q \in Requests : pc[q] = "insert" => counters[contract[q]] = <<>>

\* What is served, and what a request that was admitted may still serve.
Bound == Limit - 1 + NResources
WithinLimit ==
    Limit > 0 =>
        /\ \A c \in Contracts : served[c] <= Bound
        /\ \A q \in Requests :
              /\ pc[q] \in {"idle", "load", "decide"} => left[q] = NResources
              /\ pc[q] \in {"send"} \cup Counting => served[contract[q]] + left[q] <= Bound

Serial == Alone => OneAtATime /\ ExactCount /\ WithinLimit

\* Use that is no longer serial stays so.
LEMMA AloneStays ==
    ASSUME Typed, [Next]_vars, Alone' PROVE Alone
<1>1. losses' = losses \/ losses' = losses + 1
  <2>1. ASSUME NEW q \in Requests, Deliver(q) PROVE losses' = losses \/ losses' = losses + 1
    BY <2>1 DEF Deliver
  <2>2. CASE Crash
    BY <2>2 DEF Crash
  <2>3. CASE UNCHANGED losses
    BY <2>3
  <2> QED
    BY <2>1, <2>2, <2>3
       DEF Next, vars, RequestAction, LoadPolicies, Decide, ListLeftOperands, ProcessCount
<1>2. overlapped => overlapped'
  BY DEF Next, vars, RequestAction, LoadPolicies, Decide, Deliver,
         ListLeftOperands, ProcessCount, Crash
<1> QED
  BY <1>1, <1>2 DEF Alone, Typed, TypeOK

LEMMA SerialInit == Init => Serial
<1> SUFFICES ASSUME Init PROVE OneAtATime /\ ExactCount /\ WithinLimit
  BY DEF Serial
<1>1. /\ \A q \in Requests : pc[q] = "idle" /\ left[q] = NResources
      /\ \A c \in Contracts : counters[c] = <<>> /\ served[c] = 0
  BY DEF Init
<1>2. \A c \in Contracts : Pending(c) = {}
  BY <1>1 DEF Pending, Counting
<1> QED
  BY <1>1, <1>2, SizesAssumption
     DEF OneAtATime, ExactCount, WithinLimit, InProgress, Holds, Counting, Ended, Count, Bound

LEMMA OneAtATimeStep ==
    ASSUME Typed, Typed', Alone, Alone', [Next]_vars, OneAtATime PROVE OneAtATime'
<1>1. CASE UNCHANGED vars
  BY <1>1 DEF vars, OneAtATime, InProgress, Holds
<1>2. ASSUME NEW q \in Requests, RequestAction(q) PROVE OneAtATime'
  <2>1. \A r \in Requests \ {q} : ~InProgress(r)
    BY <1>2 DEF RequestAction, Alone
  <2>2. \A r \in Requests \ {q} : pc'[r] = pc[r]
    BY <1>2 DEF RequestAction, Goto, Typed, TypeOK
  <2>3. pc'[q] = "load" /\ pdp' = q
    BY <1>2 DEF RequestAction, Goto, Typed, TypeOK
  <2> QED
    BY <2>1, <2>2, <2>3 DEF OneAtATime, InProgress, Holds, Counting, Ended
<1>3. ASSUME NEW q \in Requests,
             LoadPolicies(q) \/ Decide(q) \/ Deliver(q) \/ ListLeftOperands(q) \/ ProcessCount(q)
      PROVE  OneAtATime'
  <2>1. /\ pdp' = pdp /\ InProgress(q)
        /\ \A r \in Requests \ {q} : pc'[r] = pc[r]
    BY <1>3 DEF LoadPolicies, Decide, Deliver, ListLeftOperands, ProcessCount, Goto,
                InProgress, Ended, Typed, TypeOK
  <2>2. \/ pc[q] = "load" /\ pc'[q] = "decide" /\ loaded' = loaded \cup {q}
        \/ pc[q] = "load" /\ pc'[q] = "refused" /\ loaded' = loaded
        \/ Holds(q) /\ loaded' = loaded
    BY <1>3 DEF LoadPolicies, Decide, Deliver, ListLeftOperands, ProcessCount, Goto,
                Holds, Counting, Typed, TypeOK
  <2> QED
    BY <2>1, <2>2 DEF OneAtATime, InProgress, Holds, Counting, Ended
<1>4. CASE Crash
  BY <1>4 DEF Crash, Alone, Typed, TypeOK
<1> QED
  BY <1>1, <1>2, <1>3, <1>4 DEF Next

\* Under serial use, requests other than the one in progress are not pending.
LEMMA PendingAlone ==
    ASSUME OneAtATime, NEW q \in Requests, InProgress(q), NEW c
    PROVE  Pending(c) = IF contract[q] = c /\ pc[q] \in Counting THEN {q} ELSE {}
BY DEF OneAtATime, Pending, InProgress, Counting, Ended

\* The steps that touch no count and keep a request counting, or not.
LEMMA ExactCountQuiet ==
    ASSUME ExactCount, counters' = counters, served' = served, contract' = contract,
           \A c \in Contracts : Pending(c)' = Pending(c),
           \A r \in Requests : pc'[r] = "insert" => pc[r] = "insert"
    PROVE  ExactCount'
BY DEF ExactCount, Count

\* What the policy reads once a use is counted, of one document or none.
LEMMA OneMoreUse ==
    ASSUME NEW s \in Seq(Nat), NEW t,
           \/ Len(s) = 1 /\ s # <<>> /\ t = Incremented(s)
           \/ s = <<>> /\ t = Append(s, 1)
    PROVE  /\ Len(t) = 1
           /\ (IF t = <<>> THEN 0 ELSE Head(t)) = (IF s = <<>> THEN 0 ELSE Head(s)) + 1
<1>1. CASE s = <<>> /\ t = Append(s, 1)
  BY <1>1
<1>2. CASE Len(s) = 1 /\ s # <<>> /\ t = Incremented(s)
  <2>1. t \in Seq(Nat) /\ Len(t) = 1 /\ t # <<>>
    BY <1>2, TotalOfIncrement
  <2>2. t[1] = s[1] + 1
    BY <1>2, LenProperties DEF Incremented
  <2> QED
    BY <1>2, <2>1, <2>2
<1> QED
  BY <1>1, <1>2

LEMMA ExactCountStep ==
    ASSUME Typed, Typed', Alone, Alone', OneAtATime, OneAtATime', ExactCount, [Next]_vars
    PROVE  ExactCount'
<1>1. CASE UNCHANGED vars
  BY <1>1 DEF vars, ExactCount, Count, Pending
<1>2. ASSUME NEW q \in Requests, RequestAction(q) \/ LoadPolicies(q) \/ Decide(q)
      PROVE  ExactCount'
  <2>1. /\ contract' = contract /\ counters' = counters /\ served' = served
        /\ pc[q] \in {"idle", "load", "decide"}
        /\ \E place \in {"load", "decide", "refused", "send"} : Goto(q, place)
    BY <1>2 DEF RequestAction, LoadPolicies, Decide
  <2>2. \A r \in Requests : pc'[r] = pc[r] \/ {pc[r], pc'[r]} \cap Counting = {}
    BY <2>1 DEF Goto, Counting, Typed, TypeOK
  <2>3. \A c \in Contracts : Pending(c)' = Pending(c)
    BY <2>1, <2>2 DEF Pending
  <2>4. \A r \in Requests : pc'[r] = "insert" => pc[r] = "insert"
    BY <2>2 DEF Counting
  <2> QED
    BY <2>1, <2>3, <2>4, ExactCountQuiet
<1>3. ASSUME NEW q \in Requests, Deliver(q) PROVE ExactCount'
  <2>1. /\ contract' = contract /\ counters' = counters /\ pc[q] = "send"
        /\ contract[q] \in Contracts
        /\ \A r \in Requests \ {q} : pc'[r] = pc[r]
    BY <1>3 DEF Deliver, Goto, Typed, TypeOK
  <2>2. \A c \in Contracts : Pending(c) = {}
    BY <2>1, PendingAlone DEF InProgress, Ended, Counting
  <2>3. \/ served' = served /\ pc'[q] \notin Counting
        \/ served' = [served EXCEPT ![contract[q]] = @ + 1] /\ pc'[q] = "list"
    BY <1>3 DEF Deliver, Goto, Alone, Counting, Typed, TypeOK
  <2>4. \A c \in Contracts : Pending(c)' =
            IF contract[q] = c /\ pc'[q] \in Counting THEN {q} ELSE {}
    BY <2>1, <2>2 DEF Pending
  <2>5. \A c \in Contracts :
            served'[c] = IF Pending(c)' = {} THEN served[c] ELSE served[c] + 1
    <3> SUFFICES ASSUME NEW c \in Contracts
                 PROVE  served'[c] = IF Pending(c)' = {} THEN served[c] ELSE served[c] + 1
      OBVIOUS
    <3>1. served \in [Contracts -> Nat]
      BY DEF Typed, TypeOK
    <3>2. CASE contract[q] = c /\ pc'[q] \in Counting
      BY <2>3, <2>4, <3>1, <3>2
    <3>3. CASE ~(contract[q] = c /\ pc'[q] \in Counting)
      BY <2>3, <2>4, <3>1, <3>3 DEF Counting
    <3> QED
      BY <3>2, <3>3
  <2>6. \A r \in Requests : pc'[r] = "insert" => pc[r] = "insert"
    BY <2>1, <2>3 DEF Counting
  <2>7. \A c \in Contracts :
            /\ counters[c] = <<>> \/ Len(counters[c]) = 1
            /\ Count(c) = served[c] /\ Count(c)' = Count(c)
            /\ served[c] \in Nat
    BY <2>1, <2>2 DEF ExactCount, Count, Typed, TypeOK
  <2>8. \A c \in Contracts :
            Count(c)' = IF Pending(c)' = {} THEN served'[c] ELSE served'[c] - 1
    BY <2>5, <2>7
  <2> QED
    BY <2>1, <2>6, <2>7, <2>8 DEF ExactCount
<1>4. ASSUME NEW q \in Requests, ListLeftOperands(q) PROVE ExactCount'
  <2>1. /\ contract' = contract /\ counters' = counters /\ served' = served
        /\ pc[q] = "list" /\ pc'[q] = "match"
        /\ \A r \in Requests \ {q} : pc'[r] = pc[r]
    <3>1. pc[q] = "list"
      BY <1>4 DEF ListLeftOperands
    <3>2. pdp = q /\ q \in loaded
      BY <3>1 DEF OneAtATime, InProgress, Holds, Counting, Ended
    <3>3. Goto(q, "match")
      BY <1>4, <3>2 DEF ListLeftOperands
    <3> QED
      BY <1>4, <3>1, <3>3 DEF ListLeftOperands, Goto, Typed, TypeOK
  <2>2. \A c \in Contracts : Pending(c)' = Pending(c)
    BY <2>1 DEF Pending, Counting
  <2> QED
    BY <2>1, <2>2, ExactCountQuiet
<1>5. ASSUME NEW q \in Requests, ProcessCount(q) PROVE ExactCount'
  <2> DEFINE d == contract[q]
  <2>1. /\ contract' = contract /\ served' = served /\ pc[q] \in {"match", "insert"}
        /\ d \in Contracts
        /\ \A r \in Requests \ {q} : pc'[r] = pc[r]
    BY <1>5 DEF ProcessCount, Goto, Typed, TypeOK
  <2>2. \A r \in Requests \ {q} : pc[r] \notin Counting /\ pc'[r] \notin Counting
    BY <2>1 DEF OneAtATime, InProgress, Ended, Counting
  <2>3. /\ Pending(d) = {q}
        /\ \A c \in Contracts \ {d} : Pending(c) = {} /\ Pending(c)' = {}
    BY <2>1, <2>2 DEF Pending, Counting
  <2>4. /\ counters[d] \in Seq(Nat) /\ served[d] \in Nat /\ Count(d) = served[d] - 1
        /\ counters[d] = <<>> \/ Len(counters[d]) = 1
    BY <2>1, <2>3 DEF ExactCount, Typed, TypeOK
  <2>5. CASE pc[q] = "match" /\ counters[d] = <<>>
    <3>1. counters' = counters /\ pc'[q] = "insert"
      BY <1>5, <2>5 DEF ProcessCount, Goto, Typed, TypeOK
    <3>2. \A c \in Contracts : Pending(c)' = Pending(c)
      BY <2>1, <3>1 DEF Pending, Counting
    <3>3. \A r \in Requests : pc'[r] = "insert" => r = q
      BY <2>2 DEF Counting
    <3> QED
      BY <2>1, <2>5, <3>1, <3>2, <3>3 DEF ExactCount, Count
  <2>6. CASE ~(pc[q] = "match" /\ counters[d] = <<>>)
    <3>1. /\ pc'[q] \notin Counting
          /\ \A c \in Contracts \ {d} : counters'[c] = counters[c]
          /\ \/ counters[d] # <<>> /\ counters'[d] = Incremented(counters[d])
             \/ counters[d] = <<>> /\ counters'[d] = Append(counters[d], 1)
      BY <1>5, <2>1, <2>6 DEF ProcessCount, After, Goto, Counting, ExactCount, Typed, TypeOK
    <3>2. \A c \in Contracts : Pending(c)' = {}
      BY <2>1, <2>2, <3>1 DEF Pending
    <3>3. Len(counters'[d]) = 1 /\ Count(d)' = Count(d) + 1
      BY <2>1, <2>4, <3>1, OneMoreUse DEF Count
    <3>4. \A c \in Contracts \ {d} : Count(c)' = Count(c) /\ Count(c) = served[c]
      BY <2>3, <3>1 DEF ExactCount, Count
    <3>5. \A r \in Requests : pc'[r] # "insert"
      BY <2>2, <3>1 DEF Counting
    <3>6. \A c \in Contracts :
              /\ counters'[c] = <<>> \/ Len(counters'[c]) = 1
              /\ Count(c)' = served'[c]
      BY <2>1, <2>4, <3>1, <3>3, <3>4 DEF ExactCount
    <3> QED
      BY <3>2, <3>5, <3>6 DEF ExactCount
  <2> QED
    BY <2>5, <2>6
<1>6. CASE Crash
  BY <1>6 DEF Crash, Alone, Typed, TypeOK
<1> QED
  BY <1>1, <1>2, <1>3, <1>4, <1>5, <1>6 DEF Next

\* Once a request is admitted, what it has served and what it has left stay
\* within the bound; the others have not begun, or have ended.
LEMMA WithinLimitStep ==
    ASSUME Typed, Typed', Alone, Alone', OneAtATime, ExactCount, WithinLimit, [Next]_vars
    PROVE  WithinLimit'
<1> SUFFICES ASSUME Limit > 0
             PROVE  /\ \A c \in Contracts : served'[c] <= Bound
                    /\ \A r \in Requests :
                          /\ pc'[r] \in {"idle", "load", "decide"} => left'[r] = NResources
                          /\ pc'[r] \in {"send"} \cup Counting =>
                                served'[contract'[r]] + left'[r] <= Bound
  BY DEF WithinLimit, Bound
<1> DEFINE Early == {"idle", "load", "decide"}
           Late  == {"send"} \cup Counting
<1>h. /\ \A c \in Contracts : served[c] <= Bound
      /\ \A r \in Requests :
            /\ pc[r] \in Early => left[r] = NResources
            /\ pc[r] \in Late => served[contract[r]] + left[r] <= Bound
  BY DEF WithinLimit
<1>b. Bound \in Nat /\ Bound = Limit - 1 + NResources /\ NResources \in Nat
  BY SizesAssumption DEF Bound
\* A step that serves nothing, and admits nobody.
<1> DEFINE Quiet == /\ served' = served /\ left' = left /\ contract' = contract
                    /\ \A r \in Requests : /\ pc'[r] \in Early => pc[r] \in Early
                                           /\ pc'[r] \in Late => pc[r] \in Late
           Goal == /\ \A c \in Contracts : served'[c] <= Bound
                   /\ \A r \in Requests :
                         /\ pc'[r] \in Early => left'[r] = NResources
                         /\ pc'[r] \in Late => served'[contract'[r]] + left'[r] <= Bound
<1>q. Quiet => Goal
  BY <1>h
<1>1. CASE UNCHANGED vars
  BY <1>1, <1>q DEF vars
<1>2. ASSUME NEW q \in Requests, RequestAction(q) \/ LoadPolicies(q) PROVE Quiet
  BY <1>2 DEF RequestAction, LoadPolicies, Goto, Counting, Typed, TypeOK
<1>3. ASSUME NEW q \in Requests, Decide(q) PROVE Goal
  <2>1. /\ served' = served /\ left' = left /\ contract' = contract /\ pc[q] = "decide"
        /\ \A r \in Requests \ {q} : pc'[r] = pc[r]
        /\ contract[q] \in Contracts /\ served[contract[q]] \in Nat
    BY <1>3 DEF Decide, Goto, Typed, TypeOK
  <2>2. CASE Count(contract[q]) < Limit
    <3>1. Pending(contract[q]) = {}
      BY <2>1, PendingAlone DEF InProgress, Ended, Counting
    <3>2. served[contract[q]] <= Limit - 1
      BY <2>1, <2>2, <3>1, SizesAssumption DEF ExactCount
    <3>3. served[contract[q]] + left[q] <= Bound
      BY <1>b, <1>h, <2>1, <3>2, SizesAssumption
    <3>4. pc'[q] = "send"
      BY <1>3, <2>2 DEF Decide, Goto, Typed, TypeOK
    <3> QED
      BY <1>h, <2>1, <3>3, <3>4
  <2>3. CASE ~(Count(contract[q]) < Limit)
    <3>1. pc'[q] = "refused"
      BY <1>3, <2>3 DEF Decide, Goto, Typed, TypeOK
    <3> QED
      BY <1>h, <2>1, <3>1 DEF Counting
  <2> QED
    BY <2>2, <2>3
<1>4. ASSUME NEW q \in Requests, Deliver(q) PROVE Goal
  <2>1. /\ contract' = contract /\ pc[q] = "send" /\ contract[q] \in Contracts
        /\ left[q] \in Nat /\ left[q] >= 1 /\ left'[q] = left[q] - 1
        /\ \A r \in Requests \ {q} : pc'[r] = pc[r] /\ left'[r] = left[r]
        /\ served \in [Contracts -> Nat]
    BY <1>4 DEF Deliver, Goto, Typed, TypeOK, LeftToSend
  <2>2. served' = served \/ served' = [served EXCEPT ![contract[q]] = @ + 1]
    BY <1>4 DEF Deliver
  <2>3. pc'[q] \notin Early
    BY <1>4 DEF Deliver, Goto, Typed, TypeOK
  <2>4. \A r \in Requests \ {q} : pc[r] \notin Late
    BY <2>1 DEF OneAtATime, InProgress, Ended, Counting
  <2>5. served[contract[q]] + left[q] <= Bound
    BY <1>h, <2>1
  <2>6. served'[contract[q]] + left'[q] <= Bound
    BY <1>b, <2>1, <2>2, <2>5
  <2>7. \A c \in Contracts : served'[c] <= Bound
    BY <1>b, <1>h, <2>1, <2>2, <2>5
  <2> QED
    BY <1>h, <2>1, <2>3, <2>4, <2>6, <2>7
<1>5. ASSUME NEW q \in Requests, ListLeftOperands(q) \/ ProcessCount(q) PROVE Quiet
  <2>1. /\ served' = served /\ left' = left /\ contract' = contract /\ pc[q] \in Late
        /\ \E place \in {"match", "insert", "done", "send"} : Goto(q, place)
    BY <1>5 DEF ListLeftOperands, ProcessCount, After, Counting
  <2> QED
    BY <2>1 DEF Goto, Typed, TypeOK
<1>6. CASE Crash
  BY <1>6 DEF Crash, Alone, Typed, TypeOK
<1> QED
  BY <1>1, <1>2, <1>3, <1>4, <1>5, <1>6, <1>q DEF Next

LEMMA SerialStep ==
    ASSUME Typed, Typed', Serial, [Next]_vars PROVE Serial'
<1> SUFFICES ASSUME Alone' PROVE (OneAtATime /\ ExactCount /\ WithinLimit)'
  BY DEF Serial
<1>1. Alone /\ OneAtATime /\ ExactCount /\ WithinLimit
  BY AloneStays DEF Serial
<1> QED
  BY <1>1, OneAtATimeStep, ExactCountStep, WithinLimitStep

-----------------------------------------------------------------------------
(* Theorems *)

\* The inductive invariant.
Inv == Typed /\ CountedOrPending /\ Serial

\* The parts together hold of every behaviour: they are inductive.
THEOREM InvariantHolds == Spec => []Inv
<1>1. Init => Inv
  BY TypedInit, CountedInit, SerialInit DEF Inv
<1>2. Inv /\ [Next]_vars => Inv'
  <2> SUFFICES ASSUME Inv, [Next]_vars PROVE Inv'
    OBVIOUS
  <2>1. Typed'
    BY TypedStep DEF Inv
  <2> QED
    BY <2>1, CountedStep, SerialStep DEF Inv
<1> QED
  BY <1>1, <1>2, PTL DEF Spec

\* Every variable keeps its type: a request never has fewer than no resources
\* left, the documents of a counter are natural numbers.
THEOREM TypeCorrect == Spec => []TypeOK
<1>1. Inv => TypeOK
  BY DEF Inv, Typed
<1> QED
  BY <1>1, InvariantHolds, PTL

\* However exports overlap, lose answers and crash, what processCount has
\* counted of a contract never exceeds what its consumers have imported.
THEOREM NeverOvercounts == Spec => []NeverOvercounted
<1>1. Inv => NeverOvercounted
  <2> SUFFICES ASSUME Inv, NEW c \in Contracts PROVE Total(counters[c]) <= served[c]
    BY DEF NeverOvercounted
  <2>1. /\ IsFiniteSet(Pending(c))
        /\ Total(counters[c]) + Cardinality(Pending(c)) <= served[c]
    BY DEF Inv, CountedOrPending
  <2>2. Cardinality(Pending(c)) \in Nat
    BY <2>1, FS_CardinalityType
  <2>3. Total(counters[c]) \in Nat /\ served[c] \in Nat
    BY TotalOfOneMore DEF Inv, Typed, TypeOK
  <2> QED
    BY <2>1, <2>2, <2>3
<1> QED
  BY <1>1, InvariantHolds, PTL

\* Exports that never overlap and lose nothing count every delivery: between
\* two of them the decision point reads the number of uses itself.
THEOREM SerialUseIsExact == Spec => []SoloCountsAll
<1>1. Inv => SoloCountsAll
  BY DEF Inv, Serial, Alone, ExactCount, SoloCountsAll
<1> QED
  BY <1>1, InvariantHolds, PTL

\* Such exports overrun a positive limit by less than one export: the decision
\* is made before the loop over the resources.
THEOREM SerialUseIsBounded == Spec => []SoloWithinLimit
<1>1. Inv => SoloWithinLimit
  BY DEF Inv, Serial, Alone, WithinLimit, Bound, SoloWithinLimit
<1> QED
  BY <1>1, InvariantHolds, PTL
=============================================================================
