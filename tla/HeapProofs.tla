----------------------------- MODULE HeapProofs -----------------------------
(***************************************************************************)
(* Proofs about the simulator with libstdc++'s heap, for heaps of any size *)
(* and any number of CPUs: the vector is always a heap that holds exactly  *)
(* the pending events, so its top is due first and each step is one of     *)
(* Simulator.                                                              *)
(*                                                                         *)
(* The sifts are recursive functions.  What they compute is established by *)
(* a least counterexample: Climb and Sink are one step, ClimbedFrom and    *)
(* SunkTo say where it ends.                                               *)
(***************************************************************************)
EXTENDS SimulatorProofs, HeapSimulator, SequenceLemmas, FiniteSetTheorems

(* Division by two. *)
LEMMA Halves ==
  ASSUME NEW h \in Nat
  PROVE  /\ h \div 2 \in Nat
         /\ h = 2 * (h \div 2) \/ h = 2 * (h \div 2) + 1
  OBVIOUS

(* What push_heap() computes for the hole h, from the results f for the    *)
(* holes above. *)
Climb(v, x, f, h) ==
  IF h > 1 /\ comparator(v[h \div 2], x)
    THEN [f[h \div 2] EXCEPT ![h] = v[h \div 2]]
    ELSE [v EXCEPT ![h] = x]

Climbed(v, x, n, f) == f = [h \in 1 .. n |-> Climb(v, x, f, h)]

LEMMA ClimbStep ==
  ASSUME NEW v, NEW x, NEW n \in Nat, NEW f, Climbed(v, x, n, f)
  PROVE  \E g : Climbed(v, x, n + 1, g)
<1> DEFINE g == [h \in 1 .. n + 1 |-> Climb(v, x, f, h)]
<1>1. \A h \in 1 .. n : g[h] = f[h]
  BY DEF Climbed
<1>2. \A h \in 1 .. n + 1 : Climb(v, x, g, h) = Climb(v, x, f, h)
  <2> SUFFICES ASSUME NEW h \in 1 .. n + 1
               PROVE  Climb(v, x, g, h) = Climb(v, x, f, h)
    OBVIOUS
  <2>1. h > 1 => h \div 2 \in 1 .. n
    BY Halves
  <2> HIDE DEF g
  <2> QED BY <1>1, <2>1 DEF Climb
<1>3. Climbed(v, x, n + 1, g)
  BY <1>2 DEF Climbed
<1> QED BY <1>3

LEMMA ClimbExists ==
  ASSUME NEW v, NEW x
  PROVE  \A n \in Nat : \E f : Climbed(v, x, n, f)
<1> DEFINE T == {n \in Nat : ~\E f : Climbed(v, x, n, f)}
<1>1. SUFFICES ASSUME T # {} PROVE FALSE
  OBVIOUS
<1>2. PICK m \in T : \A k \in T : m <= k
  BY <1>1, LeastNat
<1>3. CASE m = 0
  <2> DEFINE f == [h \in 1 .. 0 |-> x]
  <2>1. f = [h \in 1 .. 0 |-> Climb(v, x, f, h)]
    OBVIOUS
  <2> HIDE DEF f
  <2>2. Climbed(v, x, 0, f)
    BY <2>1 DEF Climbed
  <2> QED BY <1>3, <2>2
<1>4. CASE m # 0
  <2>1. m - 1 \in Nat /\ m - 1 \notin T /\ m - 1 + 1 = m
    BY <1>2, <1>4
  <2>2. PICK f : Climbed(v, x, m - 1, f)
    BY <2>1
  <2>3. \E g : Climbed(v, x, m - 1 + 1, g)
    BY <2>1, <2>2, ClimbStep
  <2> QED BY <2>1, <2>3
<1> QED BY <1>3, <1>4

LEMMA push_heapIsClimbed ==
  ASSUME NEW v, NEW x, Len(v) \in Nat
  PROVE  \E f : /\ Climbed(v, x, Len(v), f)
                /\ \A hole : push_heap(v, hole, x) = f[hole]
<1> DEFINE f == CHOOSE f : Climbed(v, x, Len(v), f)
<1>1. Climbed(v, x, Len(v), f)
  BY ClimbExists
<1>2. \A hole : push_heap(v, hole, x) = f[hole]
  BY DEF push_heap, Climbed, Climb
<1> QED BY <1>1, <1>2

Times(E) == \A e \in E : e.time \in Nat

(* v is a heap as far as position h. *)
OrderedBelow(v, h) ==
  \A i \in 2 .. Len(v) : i < h => v[i \div 2].time <= v[i].time

Prefix(v, h) == {v[i] : i \in 1 .. h}

DistinctUpTo(v, h) == \A i, j \in 1 .. h : v[i] = v[j] => i = j

(* r is what becomes of v when x has climbed from the hole h. *)
ClimbedFrom(E, v, x, h, r) ==
  /\ r \in Seq(E) /\ Len(r) = Len(v)
  /\ \A i \in 1 .. Len(v) : i > h => r[i] = v[i]
  /\ \A i \in 1 .. h - 1 : r[i].time <= v[i].time
  /\ \/ r[h] = x
     \/ h > 1 /\ r[h] = v[h \div 2] /\ x.time < v[h \div 2].time
  /\ \A i \in 2 .. h : r[i \div 2].time <= r[i].time

ClimbedValues(v, x, h, r) ==
  /\ Prefix(r, h) = Prefix(v, h - 1) \cup {x}
  /\ DistinctUpTo(v, h - 1) /\ x \notin Prefix(v, h - 1) => DistinctUpTo(r, h)

LEMMA ClimbOrder ==
  ASSUME NEW E, Times(E), NEW v \in Seq(E), NEW x \in E,
         NEW f, Climbed(v, x, Len(v), f), NEW h \in 1 .. Len(v),
         OrderedBelow(v, h),
         h > 1 => ClimbedFrom(E, v, x, h \div 2, f[h \div 2])
  PROVE  ClimbedFrom(E, v, x, h, f[h])
<1> DEFINE p == h \div 2
<1>1. f[h] = Climb(v, x, f, h)
  BY DEF Climbed
<1>2. CASE h > 1 /\ comparator(v[p], x)
  <2>1. p \in 1 .. Len(v) /\ p < h /\ (h = 2 * p \/ h = 2 * p + 1)
    BY <1>2, Halves
  <2> DEFINE q == f[p]
  <2>2. f[h] = [q EXCEPT ![h] = v[p]] /\ x.time < v[p].time
    BY <1>1, <1>2, <2>1 DEF Climb, comparator, Times
  <2>3. ClimbedFrom(E, v, x, p, q)
    BY <1>2
  <2> HIDE DEF p, q
  <2>4. q \in Seq(E) /\ Len(q) = Len(v)
    BY <2>3 DEF ClimbedFrom
  <2> DEFINE r == f[h]
  <2>5. /\ r \in Seq(E) /\ Len(r) = Len(v) /\ r[h] = v[p]
        /\ \A i \in 1 .. Len(v) : i # h => r[i] = q[i]
    BY <2>1, <2>2, <2>4
  <2> HIDE DEF r
  <2>6. q[p].time <= v[p].time
    <3>1. CASE q[p] = x
      BY <2>1, <2>2, <3>1 DEF Times
    <3>2. CASE p > 1 /\ q[p] = v[p \div 2]
      <4>1. v[p \div 2].time <= v[p].time
        BY <2>1, <3>2 DEF OrderedBelow
      <4> QED BY <3>2, <4>1
    <3> QED BY <2>3, <3>1, <3>2 DEF ClimbedFrom
  <2>7. \A i \in 1 .. Len(v) : i > h => r[i] = v[i]
    BY <2>1, <2>3, <2>5 DEF ClimbedFrom
  <2>8. \A i \in 1 .. h - 1 : r[i].time <= v[i].time
    <3> SUFFICES ASSUME NEW i \in 1 .. h - 1 PROVE r[i].time <= v[i].time
      OBVIOUS
    <3>1. r[i] = q[i]
      BY <2>5
    <3>2. CASE i < p
      BY <2>1, <2>3, <3>1, <3>2 DEF ClimbedFrom
    <3>3. CASE i = p
      BY <2>6, <3>1, <3>3
    <3>4. CASE i > p
      <4>1. q[i] = v[i]
        BY <2>3, <3>4 DEF ClimbedFrom
      <4>2. v[i].time \in Nat
        BY DEF Times
      <4> QED BY <3>1, <4>1, <4>2
    <3> QED BY <2>1, <3>2, <3>3, <3>4
  <2>9. \A i \in 2 .. h : r[i \div 2].time <= r[i].time
    <3> SUFFICES ASSUME NEW i \in 2 .. h PROVE r[i \div 2].time <= r[i].time
      OBVIOUS
    <3>1. /\ i \div 2 \in 1 .. h - 1
          /\ i = 2 * (i \div 2) \/ i = 2 * (i \div 2) + 1
      BY Halves
    <3> DEFINE k == i \div 2
    <3>a. k \in 1 .. Len(v) /\ k # h
      BY <3>1
    <3> HIDE DEF k
    <3>b. r[k] = q[k]
      BY <2>5, <3>a
    <3>2. r[i \div 2] = q[i \div 2]
      BY <3>b DEF k
    <3>3. CASE i = h
      BY <2>1, <2>5, <2>6, <3>1, <3>2, <3>3
    <3>4. CASE i <= p
      <4>1. i \in 2 .. p /\ r[i] = q[i]
        BY <2>1, <2>5, <3>4
      <4>2. q[i \div 2].time <= q[i].time
        BY <2>3, <4>1 DEF ClimbedFrom
      <4> QED BY <3>2, <4>1, <4>2
    <3>5. CASE p < i /\ i < h
      <4>1. r[i] = v[i] /\ r[i].time \in Nat
        BY <2>3, <2>5, <3>5 DEF ClimbedFrom, Times
      <4>2. r[i \div 2].time <= v[i \div 2].time
        BY <2>8, <3>1
      <4>3. v[i \div 2].time <= v[i].time
        BY <3>5 DEF OrderedBelow
      <4>4. v[i \div 2].time \in Nat /\ r[i \div 2].time \in Nat
        BY <2>5, <3>1 DEF Times
      <4> QED BY <4>1, <4>2, <4>3, <4>4
    <3> QED BY <2>1, <3>3, <3>4, <3>5
  <2> QED BY <1>2, <2>2, <2>5, <2>7, <2>8, <2>9 DEF ClimbedFrom, p, r
<1>3. CASE ~(h > 1 /\ comparator(v[p], x))
  <2> DEFINE r == f[h]
  <2>1. r = [v EXCEPT ![h] = x]
    BY <1>1, <1>3 DEF Climb
  <2> HIDE DEF r
  <2>2. /\ r \in Seq(E) /\ Len(r) = Len(v) /\ r[h] = x
        /\ \A i \in 1 .. Len(v) : i # h => r[i] = v[i]
    BY <2>1
  <2>3. \A i \in 1 .. Len(v) : v[i].time \in Nat
    BY DEF Times
  <2>4. \A i \in 2 .. h : r[i \div 2].time <= r[i].time
    <3> SUFFICES ASSUME NEW i \in 2 .. h PROVE r[i \div 2].time <= r[i].time
      OBVIOUS
    <3>1. i \div 2 \in 1 .. h - 1
      BY Halves
    <3>2. r[i \div 2] = v[i \div 2]
      BY <2>2, <3>1
    <3>3. CASE i < h
      BY <2>2, <3>2, <3>3 DEF OrderedBelow
    <3>4. CASE i = h
      BY <1>3, <2>2, <2>3, <3>1, <3>2, <3>4 DEF comparator, Times
    <3> QED BY <3>3, <3>4
  <2>5. \A i \in 1 .. h - 1 : r[i].time <= v[i].time
    <3> SUFFICES ASSUME NEW i \in 1 .. h - 1 PROVE r[i].time <= v[i].time
      OBVIOUS
    <3>1. r[i] = v[i] /\ v[i].time \in Nat
      BY <2>2, <2>3
    <3> QED BY <3>1
  <2> QED BY <2>2, <2>4, <2>5 DEF ClimbedFrom, r
<1> QED BY <1>2, <1>3

LEMMA InPrefix ==
  ASSUME NEW v, NEW h, NEW i \in 1 .. h
  PROVE  v[i] \in Prefix(v, h)
  BY DEF Prefix

LEMMA ClimbValues ==
  ASSUME NEW E, Times(E), NEW v \in Seq(E), NEW x \in E,
         NEW f, Climbed(v, x, Len(v), f), NEW h \in 1 .. Len(v),
         h > 1 => /\ ClimbedFrom(E, v, x, h \div 2, f[h \div 2])
                  /\ ClimbedValues(v, x, h \div 2, f[h \div 2])
  PROVE  ClimbedValues(v, x, h, f[h])
<1> DEFINE p == h \div 2
           r == f[h]
<1>1. r = Climb(v, x, f, h)
  BY DEF Climbed
<1>2. CASE h > 1 /\ comparator(v[p], x)
  <2>1. p \in 1 .. Len(v) /\ p < h
    BY <1>2, Halves
  <2> DEFINE q == f[p]
  <2>2. r = [q EXCEPT ![h] = v[p]]
    BY <1>1, <1>2 DEF Climb
  <2>3. ClimbedFrom(E, v, x, p, q) /\ ClimbedValues(v, x, p, q)
    BY <1>2
  <2> HIDE DEF p, q, r
  <2>4. q \in Seq(E) /\ Len(q) = Len(v) /\ \A i \in 1 .. Len(v) : i > p => q[i] = v[i]
    BY <2>3 DEF ClimbedFrom
  <2>5. r[h] = v[p] /\ \A i \in 1 .. h - 1 : r[i] = q[i]
    BY <2>1, <2>2, <2>4
  <2>6. \A i \in p + 1 .. h - 1 : r[i] = v[i]
    BY <2>1, <2>4, <2>5
  <2>7. \A i \in 1 .. p : r[i] \in Prefix(v, p - 1) \cup {x}
    <3> SUFFICES ASSUME NEW i \in 1 .. p
                 PROVE  r[i] \in Prefix(v, p - 1) \cup {x}
      OBVIOUS
    <3>1. r[i] = q[i] /\ q[i] \in Prefix(q, p)
      BY <2>1, <2>5 DEF Prefix
    <3> QED BY <2>3, <3>1 DEF ClimbedValues
  <2>8. Prefix(v, p - 1) \cup {x} \subseteq {r[i] : i \in 1 .. p}
    <3> SUFFICES ASSUME NEW e \in Prefix(v, p - 1) \cup {x}
                 PROVE  \E i \in 1 .. p : e = r[i]
      OBVIOUS
    <3>1. PICK i \in 1 .. p : e = q[i]
      BY <2>3 DEF ClimbedValues, Prefix
    <3> QED BY <2>1, <2>5, <3>1
  <2>9. Prefix(r, h) = Prefix(v, h - 1) \cup {x}
    <3>1. ASSUME NEW e \in Prefix(r, h) PROVE e \in Prefix(v, h - 1) \cup {x}
      <4>1. PICK i \in 1 .. h : e = r[i]
        BY DEF Prefix
      <4>2. CASE i <= p
        BY <2>1, <2>7, <4>1, <4>2 DEF Prefix
      <4>3. CASE p < i /\ i < h
        BY <2>1, <2>6, <4>1, <4>3 DEF Prefix
      <4>4. CASE i = h
        BY <2>1, <2>5, <4>1, <4>4 DEF Prefix
      <4> QED BY <2>1, <4>2, <4>3, <4>4
    <3>2. ASSUME NEW e \in Prefix(v, h - 1) \cup {x} PROVE e \in Prefix(r, h)
      <4>1. CASE e \in Prefix(v, p - 1) \cup {x}
        <5>1. PICK i \in 1 .. p : e = r[i]
          BY <2>8, <4>1
        <5>2. r[i] \in Prefix(r, h)
          BY <2>1, InPrefix
        <5> QED BY <5>1, <5>2
      <4>2. CASE e = v[p]
        <5>1. h \in 1 .. h
          OBVIOUS
        <5>2. r[h] \in Prefix(r, h)
          BY <5>1, InPrefix
        <5> QED BY <2>5, <4>2, <5>2
      <4>3. ASSUME NEW i \in p + 1 .. h - 1, e = v[i] PROVE e \in Prefix(r, h)
        BY <2>1, <2>6, <4>3 DEF Prefix
      <4> QED BY <2>1, <4>1, <4>2, <4>3 DEF Prefix
    <3> QED BY <3>1, <3>2
  <2>10. ASSUME DistinctUpTo(v, h - 1), x \notin Prefix(v, h - 1)
         PROVE  DistinctUpTo(r, h)
    <3>1. DistinctUpTo(q, p)
      BY <2>1, <2>3, <2>10 DEF ClimbedValues, DistinctUpTo, Prefix
    <3>2. ASSUME NEW i \in 1 .. h, NEW j \in 1 .. h, r[i] = r[j], i < j
          PROVE  FALSE
      <4>1. CASE j <= p
        BY <2>1, <2>5, <3>1, <3>2, <4>1 DEF DistinctUpTo
      <4>2. CASE i <= p /\ p < j
        <5>1. PICK k \in p .. h - 1 : r[j] = v[k]
          BY <2>1, <2>5, <2>6, <4>2
        <5>2. CASE r[i] = x
          <6>1. k \in 1 .. h - 1
            BY <2>1
          <6>2. v[k] \in Prefix(v, h - 1)
            BY <6>1, InPrefix
          <6>3. x = v[k]
            BY <3>2, <5>1, <5>2
          <6> QED BY <2>10, <6>2, <6>3
        <5>3. ASSUME NEW l \in 1 .. p - 1, r[i] = v[l] PROVE FALSE
          <6>1. k \in 1 .. h - 1 /\ l \in 1 .. h - 1 /\ l # k
            BY <2>1
          <6>2. v[k] = v[l]
            BY <3>2, <5>1, <5>3
          <6> QED BY <2>10, <6>1, <6>2 DEF DistinctUpTo
        <5>4. r[i] \in Prefix(v, p - 1) \cup {x}
          BY <2>1, <2>7, <4>2
        <5> QED BY <5>2, <5>3, <5>4 DEF Prefix
      <4>3. CASE p < i
        <5>1. r[i] = v[i] /\ i \in p + 1 .. h - 1
          BY <2>1, <2>6, <3>2, <4>3
        <5>2. CASE j = h
          <6>1. v[i] = v[p]
            BY <2>5, <3>2, <5>1, <5>2
          <6> QED BY <2>1, <2>10, <5>1, <6>1 DEF DistinctUpTo
        <5>3. CASE j < h
          <6>1. j \in p + 1 .. h - 1
            BY <2>1, <3>2, <4>3, <5>3
          <6>2. v[i] = v[j]
            BY <2>6, <3>2, <5>1, <6>1
          <6> QED BY <2>1, <2>10, <3>2, <5>1, <5>3, <6>2 DEF DistinctUpTo
        <5> QED BY <2>1, <5>2, <5>3
      <4> QED BY <2>1, <4>1, <4>2, <4>3
    <3> QED BY <3>2 DEF DistinctUpTo
  <2> QED BY <2>9, <2>10 DEF ClimbedValues, r
<1>3. CASE ~(h > 1 /\ comparator(v[p], x))
  <2>1. r = [v EXCEPT ![h] = x]
    BY <1>1, <1>3 DEF Climb
  <2> HIDE DEF r
  <2>2. r[h] = x /\ \A i \in 1 .. h - 1 : r[i] = v[i]
    BY <2>1
  <2>3. Prefix(r, h) = Prefix(v, h - 1) \cup {x}
    <3>1. ASSUME NEW e \in Prefix(r, h) PROVE e \in Prefix(v, h - 1) \cup {x}
      <4>1. PICK i \in 1 .. h : e = r[i]
        BY DEF Prefix
      <4> QED BY <2>2, <4>1 DEF Prefix
    <3>2. ASSUME NEW e \in Prefix(v, h - 1) \cup {x} PROVE e \in Prefix(r, h)
      <4>1. CASE e = x
        BY <2>2, <4>1 DEF Prefix
      <4>2. CASE e \in Prefix(v, h - 1)
        BY <2>2, <4>2 DEF Prefix
      <4> QED BY <4>1, <4>2
    <3> QED BY <3>1, <3>2
  <2>4. ASSUME DistinctUpTo(v, h - 1), x \notin Prefix(v, h - 1)
        PROVE  DistinctUpTo(r, h)
    <3>1. ASSUME NEW i \in 1 .. h, NEW j \in 1 .. h, r[i] = r[j], i < j
          PROVE  FALSE
      <4>1. i \in 1 .. h - 1 /\ r[i] = v[i]
        BY <2>2, <3>1
      <4>2. CASE j = h
        <5>1. x = v[i]
          BY <2>2, <3>1, <4>1, <4>2
        <5>2. v[i] \in Prefix(v, h - 1)
          BY <4>1, InPrefix
        <5> QED BY <2>4, <5>1, <5>2
      <4>3. CASE j # h
        <5>1. j \in 1 .. h - 1
          BY <4>3
        <5>2. v[i] = v[j]
          BY <2>2, <3>1, <4>1, <5>1
        <5> QED BY <2>4, <3>1, <4>1, <4>3, <5>2 DEF DistinctUpTo
      <4> QED BY <4>2, <4>3
    <3> QED BY <3>1 DEF DistinctUpTo
  <2> QED BY <2>3, <2>4 DEF ClimbedValues, r
<1> QED BY <1>2, <1>3

(* What push_heap() leaves of v, whose positions before the hole are in    *)
(* heap order. *)
LEMMA push_heapEffect ==
  ASSUME NEW E, Times(E), NEW v \in Seq(E), NEW x \in E,
         NEW hole \in 1 .. Len(v), OrderedBelow(v, hole)
  PROVE  /\ ClimbedFrom(E, v, x, hole, push_heap(v, hole, x))
         /\ ClimbedValues(v, x, hole, push_heap(v, hole, x))
<1>1. PICK f : /\ Climbed(v, x, Len(v), f)
               /\ \A h : push_heap(v, h, x) = f[h]
  BY push_heapIsClimbed
<1> DEFINE Done(h) == ClimbedFrom(E, v, x, h, f[h]) /\ ClimbedValues(v, x, h, f[h])
           T == {h \in 1 .. hole : ~Done(h)}
<1>2. SUFFICES ASSUME T # {} PROVE FALSE
  BY <1>1
<1> HIDE DEF Done
<1>3. PICK m \in T : \A k \in T : m <= k
  <2>1. T \in SUBSET Nat
    OBVIOUS
  <2> HIDE DEF T
  <2> QED BY <1>2, <2>1, LeastNat
<1>4. OrderedBelow(v, m) /\ m \in 1 .. Len(v)
  BY DEF OrderedBelow
<1>5. m > 1 => Done(m \div 2)
  <2>1. m > 1 => m \div 2 \in 1 .. hole /\ m \div 2 < m
    BY Halves
  <2>2. m > 1 => m \div 2 \notin T
    BY <1>3, <2>1
  <2> QED BY <2>1, <2>2
<1>6. ClimbedFrom(E, v, x, m, f[m])
  BY <1>1, <1>4, <1>5, ClimbOrder DEF Done
<1>7. ClimbedValues(v, x, m, f[m])
  BY <1>1, <1>4, <1>5, ClimbValues DEF Done
<1> QED BY <1>6, <1>7 DEF Done

-----------------------------------------------------------------------------

(* v is a heap of the events of E, each of them once. *)
Heap(E, v) ==
  /\ v \in Seq(E)
  /\ \A i \in 2 .. Len(v) : v[i \div 2].time <= v[i].time
  /\ DistinctUpTo(v, Len(v))

LEMMA EmptyHeap ==
  ASSUME NEW E
  PROVE  Heap(E, <<>>) /\ ToSet(<<>>) = {}
  BY DEF Heap, DistinctUpTo, ToSet

LEMMA ToSetIsPrefix ==
  ASSUME NEW E, NEW v \in Seq(E)
  PROVE  ToSet(v) = Prefix(v, Len(v))
  BY DEF ToSet, Prefix

(* push() keeps the heap and adds the event to it. *)
LEMMA pushEffect ==
  ASSUME NEW E, Times(E), NEW v, Heap(E, v), NEW x \in E, x \notin ToSet(v)
  PROVE  /\ Heap(E, push(v, x)) /\ ToSet(push(v, x)) = ToSet(v) \cup {x}
<1> DEFINE w == Append(v, x)
           n == Len(v)
           r == push_heap(w, n + 1, x)
<1>1. v \in Seq(E) /\ n \in Nat
  BY DEF Heap
<1>2. w \in Seq(E) /\ Len(w) = n + 1 /\ \A i \in 1 .. n : w[i] = v[i]
  BY <1>1
<1>3. OrderedBelow(w, n + 1)
  <2> SUFFICES ASSUME NEW i \in 2 .. n PROVE w[i \div 2].time <= w[i].time
    BY <1>1, <1>2 DEF OrderedBelow
  <2>1. i \div 2 \in 1 .. n
    BY Halves
  <2>2. w[i \div 2] = v[i \div 2] /\ w[i] = v[i]
    BY <1>2, <2>1
  <2> QED BY <2>2 DEF Heap
<1> HIDE DEF w, n
<1>4. n + 1 \in 1 .. Len(w)
  BY <1>1, <1>2
<1>5. ClimbedFrom(E, w, x, n + 1, r) /\ ClimbedValues(w, x, n + 1, r)
  BY <1>2, <1>3, <1>4, push_heapEffect
<1>6. push(v, x) = r
  BY DEF push, w, n, r
<1> HIDE DEF r
<1>7. r \in Seq(E) /\ Len(r) = n + 1 /\ \A i \in 2 .. n + 1 : r[i \div 2].time <= r[i].time
  BY <1>2, <1>5 DEF ClimbedFrom
<1>8. Prefix(w, n) = ToSet(v)
  <2>1. Prefix(w, n) = Prefix(v, n)
    <3>1. ASSUME NEW e \in Prefix(w, n) PROVE e \in Prefix(v, n)
      BY <1>2, <3>1 DEF Prefix
    <3>2. ASSUME NEW e \in Prefix(v, n) PROVE e \in Prefix(w, n)
      BY <1>2, <3>2 DEF Prefix
    <3> QED BY <3>1, <3>2
  <2> QED BY <1>1, <2>1, ToSetIsPrefix DEF n
<1>9. (n + 1) - 1 = n
  BY <1>1
<1>10. DistinctUpTo(w, n)
  <2> SUFFICES ASSUME NEW i \in 1 .. n, NEW j \in 1 .. n, w[i] = w[j] PROVE i = j
    BY DEF DistinctUpTo
  <2>1. v[i] = v[j]
    BY <1>2
  <2> QED BY <2>1 DEF Heap, DistinctUpTo, n
<1>11. DistinctUpTo(r, n + 1) /\ Prefix(r, n + 1) = ToSet(v) \cup {x}
  <2>1. /\ Prefix(r, n + 1) = Prefix(w, n) \cup {x}
        /\ DistinctUpTo(w, n) /\ x \notin Prefix(w, n) => DistinctUpTo(r, n + 1)
    <3> DEFINE m == (n + 1) - 1
    <3>1. /\ Prefix(r, n + 1) = Prefix(w, m) \cup {x}
          /\ DistinctUpTo(w, m) /\ x \notin Prefix(w, m) => DistinctUpTo(r, n + 1)
      BY <1>5 DEF ClimbedValues
    <3>2. m = n
      BY <1>9
    <3> HIDE DEF m
    <3> QED BY <3>1, <3>2
  <2> QED BY <1>8, <1>10, <2>1
<1>12. ToSet(r) = ToSet(v) \cup {x}
  BY <1>7, <1>11, ToSetIsPrefix
<1> QED BY <1>6, <1>7, <1>11, <1>12 DEF Heap

-----------------------------------------------------------------------------

(* What __adjust_heap() makes of the hole h, from the results f for the    *)
(* holes below. *)
Sink(v, f, h) ==
  IF 2 * h > Len(v)
    THEN [vector |-> v, hole |-> h]
    ELSE [f[firstChild(v, h)] EXCEPT !.vector[h] = v[firstChild(v, h)]]

Sunken(v, m, f) == f = [h \in m .. Len(v) |-> Sink(v, f, h)]

LEMMA FirstChildBelow ==
  ASSUME NEW v, Len(v) \in Nat, NEW h \in 1 .. Len(v), 2 * h <= Len(v)
  PROVE  /\ firstChild(v, h) \in h + 1 .. Len(v)
         /\ firstChild(v, h) \in 2 * h .. 2 * h + 1
  BY DEF firstChild

LEMMA SinkStep ==
  ASSUME NEW v, Len(v) \in Nat, NEW m \in 1 .. Len(v),
         NEW f, Sunken(v, m + 1, f)
  PROVE  \E g : Sunken(v, m, g)
<1> DEFINE g == [h \in m .. Len(v) |-> Sink(v, f, h)]
<1>1. \A h \in m + 1 .. Len(v) : g[h] = f[h]
  BY DEF Sunken
<1>2. \A h \in m .. Len(v) : Sink(v, g, h) = Sink(v, f, h)
  <2> SUFFICES ASSUME NEW h \in m .. Len(v)
               PROVE  Sink(v, g, h) = Sink(v, f, h)
    OBVIOUS
  <2>1. 2 * h <= Len(v) => firstChild(v, h) \in m + 1 .. Len(v)
    BY FirstChildBelow
  <2> HIDE DEF g
  <2> QED BY <1>1, <2>1 DEF Sink
<1>3. Sunken(v, m, g)
  BY <1>2 DEF Sunken
<1> QED BY <1>3

LEMMA SunkenExists ==
  ASSUME NEW v, Len(v) \in Nat, Len(v) > 0
  PROVE  \E f : Sunken(v, 1, f)
<1> DEFINE n == Len(v)
           T == {k \in 0 .. n : ~\E f : Sunken(v, n + 1 - k, f)}
<1>1. SUFFICES ASSUME T # {} PROVE FALSE
  <2>1. n \notin T => \E f : Sunken(v, n + 1 - n, f)
    OBVIOUS
  <2>2. n + 1 - n = 1
    OBVIOUS
  <2> QED BY <2>1, <2>2
<1>2. PICK k \in T : \A l \in T : k <= l
  <2>1. T \in SUBSET Nat
    OBVIOUS
  <2> HIDE DEF T
  <2> QED BY <1>1, <2>1, LeastNat
<1>3. CASE k = 0
  <2> DEFINE f == [h \in n + 1 .. n |-> v]
  <2>1. f = [h \in n + 1 .. n |-> Sink(v, f, h)]
    OBVIOUS
  <2> HIDE DEF f
  <2>2. Sunken(v, n + 1 - 0, f)
    BY <2>1 DEF Sunken
  <2> QED BY <1>3, <2>2
<1>4. CASE k # 0
  <2> DEFINE m == n + 1 - k
  <2>1. m \in 1 .. n /\ k - 1 \in 0 .. n /\ n + 1 - (k - 1) = m + 1 /\ k - 1 \notin T
    BY <1>2, <1>4
  <2>2. PICK f : Sunken(v, m + 1, f)
    BY <2>1
  <2>3. \E g : Sunken(v, m, g)
    BY <2>1, <2>2, SinkStep
  <2> QED BY <2>3
<1> QED BY <1>3, <1>4

LEMMA adjust_heapIsSunken ==
  ASSUME NEW v, NEW x, Len(v) \in Nat, Len(v) > 0
  PROVE  \E f : /\ Sunken(v, 1, f)
                /\ adjust_heap(v, x) = push_heap(f[1].vector, f[1].hole, x)
<1> DEFINE f == CHOOSE f : Sunken(v, 1, f)
<1>1. Sunken(v, 1, f)
  BY SunkenExists
<1>2. adjust_heap(v, x) = push_heap(f[1].vector, f[1].hole, x)
  BY DEF adjust_heap, Sunken, Sink
<1> QED BY <1>1, <1>2

(* s is what the hole h of w has become: the hole has reached a leaf, and  *)
(* only positions below h have changed, and h itself. *)
SunkTo(E, w, h, s) ==
  /\ s \in [vector : Seq(E), hole : h .. Len(w)]
  /\ Len(s.vector) = Len(w) /\ 2 * s.hole > Len(w)
  /\ \A i \in 1 .. Len(w) : i < 2 * h /\ i # h => s.vector[i] = w[i]

(* The events below h have moved up, and are in order. *)
SunkOrder(w, h, s) ==
  \A i \in 2 .. Len(w) : i # s.hole =>
    /\ w[i].time <= s.vector[i].time
    /\ i \div 2 >= h => s.vector[i \div 2].time <= s.vector[i].time

(* The event at h is gone from it and below, no other one. *)
SunkValues(w, h, s) ==
  /\ \A i \in h .. Len(w) : i # s.hole => \E j \in h + 1 .. Len(w) : s.vector[i] = w[j]
  /\ \A j \in h + 1 .. Len(w) : \E i \in h .. Len(w) : i # s.hole /\ s.vector[i] = w[j]

SunkDistinct(w, h, s) ==
  \A i, j \in h .. Len(w) :
    i # s.hole /\ j # s.hole /\ s.vector[i] = s.vector[j] => i = j

LEMMA SinkToLeaf ==
  ASSUME NEW E, NEW w \in Seq(E), NEW h \in 1 .. Len(w),
         NEW f, Sunken(w, 1, f), 2 * h > Len(w)
  PROVE  f[h] = [vector |-> w, hole |-> h] /\ SunkTo(E, w, h, f[h])
<1>1. f[h] = [vector |-> w, hole |-> h]
  BY DEF Sunken, Sink
<1> QED BY <1>1 DEF SunkTo

LEMMA SinkToChild ==
  ASSUME NEW E, NEW w \in Seq(E), NEW h \in 1 .. Len(w),
         NEW f, Sunken(w, 1, f), 2 * h <= Len(w),
         SunkTo(E, w, firstChild(w, h), f[firstChild(w, h)])
  PROVE  LET c == firstChild(w, h) IN
         /\ SunkTo(E, w, h, f[h])
         /\ f[h].hole = f[c].hole
         /\ f[h].vector[h] = w[c]
         /\ \A i \in 1 .. Len(w) : i # h => f[h].vector[i] = f[c].vector[i]
<1> DEFINE c == firstChild(w, h)
           q == f[c]
<1>1. c \in h + 1 .. Len(w) /\ c \in 2 * h .. 2 * h + 1
  BY FirstChildBelow
<1>2. f[h] = [q EXCEPT !.vector[h] = w[c]]
  <2>1. f[h] = Sink(w, f, h)
    BY DEF Sunken
  <2>2. ~(2 * h > Len(w))
    OBVIOUS
  <2> QED BY <2>1, <2>2, Zenon DEF Sink
<1>3. SunkTo(E, w, c, q)
  OBVIOUS
<1> HIDE DEF c, q
<1>4. /\ q \in [vector : Seq(E), hole : c .. Len(w)]
      /\ Len(q.vector) = Len(w) /\ 2 * q.hole > Len(w)
      /\ \A i \in 1 .. Len(w) : i < 2 * c /\ i # c => q.vector[i] = w[i]
  BY <1>3 DEF SunkTo
<1> DEFINE u == [q.vector EXCEPT ![h] = w[c]]
<1>5. f[h] = [vector |-> u, hole |-> q.hole]
  BY <1>2, <1>4
<1>6. /\ u \in Seq(E) /\ Len(u) = Len(w) /\ u[h] = w[c]
      /\ \A i \in 1 .. Len(w) : i # h => u[i] = q.vector[i]
  BY <1>1, <1>4
<1> HIDE DEF u
<1>7. \A i \in 1 .. Len(w) : i < 2 * h /\ i # h => u[i] = w[i]
  <2> SUFFICES ASSUME NEW i \in 1 .. Len(w), i < 2 * h, i # h PROVE u[i] = w[i]
    OBVIOUS
  <2>1. i < 2 * c /\ i # c
    BY <1>1
  <2> QED BY <1>4, <1>6, <2>1
<1>8. q.hole \in h .. Len(w)
  BY <1>1, <1>4
<1>9. SunkTo(E, w, h, f[h])
  BY <1>4, <1>5, <1>6, <1>7, <1>8 DEF SunkTo
<1> QED BY <1>5, <1>6, <1>9 DEF c, q

(* The children of a node are not before the first of them. *)
LEMMA FirstChildIsFirst ==
  ASSUME NEW E, Times(E), NEW w \in Seq(E), NEW h \in 1 .. Len(w),
         NEW i \in 2 .. Len(w), i \div 2 = h
  PROVE  w[firstChild(w, h)].time <= w[i].time
<1>1. i = 2 * h \/ i = 2 * h + 1
  BY Halves
<1>2. /\ w[2 * h].time \in Nat
      /\ 2 * h + 1 <= Len(w) => w[2 * h + 1].time \in Nat
  <2>1. \A k \in 1 .. Len(w) : w[k].time \in Nat
    BY DEF Times
  <2>2. /\ 2 * h \in 1 .. Len(w)
        /\ 2 * h + 1 <= Len(w) => 2 * h + 1 \in 1 .. Len(w)
    BY <1>1
  <2> QED BY <2>1, <2>2
<1>3. CASE 2 * h + 1 > Len(w)
  BY <1>1, <1>2, <1>3 DEF firstChild
<1>4. CASE 2 * h + 1 <= Len(w)
  <2>1. CASE comparator(w[2 * h + 1], w[2 * h])
    <3>1. firstChild(w, h) = 2 * h
      BY <2>1 DEF firstChild
    <3>2. w[2 * h].time <= w[2 * h + 1].time /\ w[2 * h].time <= w[2 * h].time
      BY <1>2, <1>4, <2>1 DEF comparator
    <3> QED BY <1>1, <3>1, <3>2
  <2>2. CASE ~comparator(w[2 * h + 1], w[2 * h])
    <3>1. firstChild(w, h) = 2 * h + 1
      BY <1>4, <2>2 DEF firstChild
    <3>2. /\ w[2 * h + 1].time <= w[2 * h].time
          /\ w[2 * h + 1].time <= w[2 * h + 1].time
      BY <1>2, <1>4, <2>2 DEF comparator
    <3> QED BY <1>1, <3>1, <3>2
  <2> QED BY <2>1, <2>2
<1> QED BY <1>3, <1>4

(* Every node but the root is not before its parent.  The children of the  *)
(* root may be before it: another event will take its place. *)
OrderedBelowRoot(w) ==
  \A i \in 4 .. Len(w) : w[i \div 2].time <= w[i].time

LEMMA SinkOrder ==
  ASSUME NEW E, Times(E), NEW w \in Seq(E), NEW h \in 1 .. Len(w),
         OrderedBelowRoot(w), NEW f, Sunken(w, 1, f),
         2 * h <= Len(w) =>
           /\ SunkTo(E, w, firstChild(w, h), f[firstChild(w, h)])
           /\ SunkOrder(w, firstChild(w, h), f[firstChild(w, h)])
  PROVE  SunkOrder(w, h, f[h])
<1>1. CASE 2 * h > Len(w)
  <2>1. f[h] = [vector |-> w, hole |-> h]
    BY <1>1, SinkToLeaf
  <2>2. \A i \in 2 .. Len(w) : i \div 2 < h /\ w[i].time \in Nat
    BY <1>1 DEF Times
  <2> QED BY <2>1, <2>2 DEF SunkOrder
<1>2. CASE 2 * h <= Len(w)
  <2> DEFINE c == firstChild(w, h)
             q == f[c].vector
             r == f[h].vector
             o == f[h].hole
  <2>1. c \in h + 1 .. Len(w) /\ c \in 2 * h .. 2 * h + 1
    BY <1>2, FirstChildBelow
  <2>2. /\ r \in Seq(E) /\ Len(r) = Len(w) /\ o = f[c].hole
        /\ r[h] = w[c] /\ \A i \in 1 .. Len(w) : i # h => r[i] = q[i]
    BY <1>2, SinkToChild DEF SunkTo
  <2>3. o \in c .. Len(w) /\ 2 * o > Len(w)
    BY <1>2, <2>2 DEF SunkTo
  <2>4. \A i \in 1 .. Len(w) : i < 2 * c /\ i # c => q[i] = w[i]
    BY <1>2 DEF SunkTo
  <2>5. \A i \in 2 .. Len(w) : i # o =>
          /\ w[i].time <= q[i].time
          /\ i \div 2 >= c => q[i \div 2].time <= q[i].time
    BY <1>2, <2>2 DEF SunkOrder
  <2>6. \A i \in 1 .. Len(w) : w[i].time \in Nat /\ r[i].time \in Nat
    BY <2>2 DEF Times
  <2>7. w[c].time \in Nat /\ (h >= 2 => w[h].time <= w[c].time)
    <3>1. h >= 2 => c \in 4 .. Len(w) /\ c \div 2 = h
      BY <2>1
    <3> QED BY <2>1, <2>6, <3>1 DEF OrderedBelowRoot
  <2> HIDE DEF c, q, r, o
  <2> SUFFICES ASSUME NEW i \in 2 .. Len(w), i # o
               PROVE  /\ w[i].time <= r[i].time
                      /\ i \div 2 >= h => r[i \div 2].time <= r[i].time
    BY DEF SunkOrder, r, o
  <2>8. w[i].time <= r[i].time
    <3>1. CASE i = h
      BY <2>2, <2>7, <3>1
    <3>2. CASE i # h
      BY <2>2, <2>5, <3>2
    <3> QED BY <3>1, <3>2
  <2>9. ASSUME i \div 2 >= h PROVE r[i \div 2].time <= r[i].time
    <3> DEFINE k == i \div 2
    <3>1. k \in 1 .. Len(w) /\ (i = 2 * k \/ i = 2 * k + 1) /\ k >= h /\ k < i
      BY <2>9, Halves
    <3>2. i # h /\ r[i] = q[i]
      BY <2>2, <3>1
    <3>3. CASE k = h
      <4>1. w[c].time <= w[i].time
        BY <3>3, FirstChildIsFirst DEF c
      <4> QED BY <2>2, <2>6, <2>7, <2>8, <3>1, <3>3, <4>1
    <3>4. CASE k # h
      <4>1. r[k] = q[k]
        BY <2>2, <3>1, <3>4
      <4>4. c \in Nat /\ k \in Nat
        BY <2>1, <3>1
      <4>2. CASE k >= c
        BY <2>5, <3>2, <4>1, <4>2
      <4>3. CASE k < c
        <5>1. q[k] = w[k]
          <6>1. k < 2 * c /\ k # c
            BY <4>3, <4>4
          <6> QED BY <2>4, <3>1, <6>1
        <5>2. w[k].time <= w[i].time
          <6>1. i \in 4 .. Len(w)
            BY <3>1, <3>4
          <6> QED BY <6>1 DEF OrderedBelowRoot
        <5> QED BY <2>6, <2>8, <3>1, <4>1, <5>1, <5>2
      <4> QED BY <4>2, <4>3, <4>4
    <3> QED BY <3>3, <3>4
  <2> QED BY <2>8, <2>9
<1> QED BY <1>1, <1>2

LEMMA SinkValues ==
  ASSUME NEW E, NEW w \in Seq(E), NEW h \in 1 .. Len(w),
         NEW f, Sunken(w, 1, f),
         2 * h <= Len(w) =>
           /\ SunkTo(E, w, firstChild(w, h), f[firstChild(w, h)])
           /\ SunkValues(w, firstChild(w, h), f[firstChild(w, h)])
  PROVE  SunkValues(w, h, f[h])
<1>1. CASE 2 * h > Len(w)
  <2>1. f[h] = [vector |-> w, hole |-> h]
    BY <1>1, SinkToLeaf
  <2> QED BY <2>1 DEF SunkValues
<1>2. CASE 2 * h <= Len(w)
  <2> DEFINE c == firstChild(w, h)
             q == f[c].vector
             r == f[h].vector
             o == f[h].hole
  <2>1. c \in h + 1 .. Len(w) /\ c \in 2 * h .. 2 * h + 1
    BY <1>2, FirstChildBelow
  <2>2. /\ o = f[c].hole
        /\ r[h] = w[c] /\ \A i \in 1 .. Len(w) : i # h => r[i] = q[i]
    BY <1>2, SinkToChild
  <2>3. o \in c .. Len(w)
    BY <1>2, <2>2 DEF SunkTo
  <2>4. \A i \in 1 .. Len(w) : i < 2 * c /\ i # c => q[i] = w[i]
    BY <1>2 DEF SunkTo
  <2>5. /\ \A i \in c .. Len(w) : i # o => \E j \in c + 1 .. Len(w) : q[i] = w[j]
        /\ \A j \in c + 1 .. Len(w) : \E i \in c .. Len(w) : i # o /\ q[i] = w[j]
    BY <1>2, <2>2 DEF SunkValues
  <2> HIDE DEF c, q, r, o
  <2>6. ASSUME NEW i \in h .. Len(w), i # o
        PROVE  \E j \in h + 1 .. Len(w) : r[i] = w[j]
    <3>1. CASE i = h
      BY <2>1, <2>2, <3>1
    <3>2. CASE h < i /\ i < c
      BY <2>1, <2>2, <2>4, <3>2
    <3>3. CASE i >= c
      <4>1. PICK j \in c + 1 .. Len(w) : q[i] = w[j]
        BY <2>1, <2>5, <2>6, <3>3
      <4>2. j \in h + 1 .. Len(w) /\ r[i] = q[i]
        BY <2>1, <2>2, <3>3
      <4> QED BY <4>1, <4>2
    <3> QED BY <2>1, <3>1, <3>2, <3>3
  <2>7. ASSUME NEW j \in h + 1 .. Len(w)
        PROVE  \E i \in h .. Len(w) : i # o /\ r[i] = w[j]
    <3>1. CASE j = c
      <4>1. h \in h .. Len(w) /\ h # o
        BY <2>1, <2>3
      <4> QED BY <2>2, <3>1, <4>1
    <3>2. CASE j < c
      <4>1. j \in h .. Len(w) /\ j # o
        BY <2>1, <2>3, <3>2
      <4>2. r[j] = w[j]
        BY <2>1, <2>2, <2>4, <3>2
      <4> QED BY <4>1, <4>2
    <3>3. CASE j > c
      <4>1. PICK i \in c .. Len(w) : i # o /\ q[i] = w[j]
        BY <2>1, <2>5, <3>3
      <4>2. i \in h .. Len(w) /\ r[i] = q[i]
        BY <2>1, <2>2
      <4> QED BY <4>1, <4>2
    <3> QED BY <2>1, <3>1, <3>2, <3>3
  <2> QED BY <2>6, <2>7 DEF SunkValues, r, o
<1> QED BY <1>1, <1>2

LEMMA SinkDistinct ==
  ASSUME NEW E, NEW w \in Seq(E), NEW h \in 1 .. Len(w),
         \A i, j \in h + 1 .. Len(w) : w[i] = w[j] => i = j,
         NEW f, Sunken(w, 1, f),
         2 * h <= Len(w) =>
           /\ SunkTo(E, w, firstChild(w, h), f[firstChild(w, h)])
           /\ SunkValues(w, firstChild(w, h), f[firstChild(w, h)])
           /\ SunkDistinct(w, firstChild(w, h), f[firstChild(w, h)])
  PROVE  SunkDistinct(w, h, f[h])
<1>1. CASE 2 * h > Len(w)
  <2>1. f[h] = [vector |-> w, hole |-> h]
    BY <1>1, SinkToLeaf
  <2> QED BY <2>1 DEF SunkDistinct
<1>2. CASE 2 * h <= Len(w)
  <2> DEFINE c == firstChild(w, h)
             q == f[c].vector
             r == f[h].vector
             o == f[h].hole
  <2>1. c \in h + 1 .. Len(w) /\ c \in 2 * h .. 2 * h + 1
    BY <1>2, FirstChildBelow
  <2>2. /\ o = f[c].hole
        /\ r[h] = w[c] /\ \A i \in 1 .. Len(w) : i # h => r[i] = q[i]
    BY <1>2, SinkToChild
  <2>3. \A i \in 1 .. Len(w) : i < 2 * c /\ i # c => q[i] = w[i]
    BY <1>2 DEF SunkTo
  <2>4. \A i \in c .. Len(w) : i # o => \E j \in c + 1 .. Len(w) : q[i] = w[j]
    BY <1>2, <2>2 DEF SunkValues
  <2>5. \A i, j \in c .. Len(w) : i # o /\ j # o /\ q[i] = q[j] => i = j
    BY <1>2, <2>2 DEF SunkDistinct
  <2> HIDE DEF c, q, r, o
  (* Where the event at i comes from. *)
  <2>6. ASSUME NEW i \in h .. Len(w), i # o
        PROVE  \/ i = h /\ r[i] = w[c]
               \/ i \in h + 1 .. c - 1 /\ r[i] = w[i]
               \/ i \in c .. Len(w) /\ r[i] = q[i] /\ \E l \in c + 1 .. Len(w) : r[i] = w[l]
    <3>1. CASE i = h
      BY <2>2, <3>1
    <3>2. CASE h < i /\ i < c
      BY <2>1, <2>2, <2>3, <3>2
    <3>3. CASE i >= c
      BY <2>1, <2>2, <2>4, <2>6, <3>3
    <3> QED BY <2>1, <3>1, <3>2, <3>3
  <2>7. ASSUME NEW i \in h .. Len(w), NEW j \in h .. Len(w), i < j,
               i # o, j # o, r[i] = r[j]
        PROVE  FALSE
    <3>1. CASE i >= c
      <4>1. i \in c .. Len(w) /\ j \in c .. Len(w) /\ i # h /\ j # h
        BY <2>1, <2>7, <3>1
      <4>2. q[i] = q[j]
        BY <2>2, <2>7, <4>1
      <4> QED BY <2>5, <2>7, <4>1, <4>2
    <3>2. CASE i < c
      <4>1. PICK k \in h + 1 .. c : r[i] = w[k] /\ (i = h => k = c) /\ (i # h => k = i)
        BY <2>1, <2>6, <2>7, <3>2
      <4>2. CASE j \in h + 1 .. c - 1 /\ r[j] = w[j]
        <5>1. w[k] = w[j]
          BY <2>7, <4>1, <4>2
        <5>2. k # j
          BY <2>1, <2>7, <4>1, <4>2
        <5>3. k \in h + 1 .. Len(w) /\ j \in h + 1 .. Len(w)
          BY <2>1, <4>2
        <5> QED BY <5>1, <5>2, <5>3
      <4>3. ASSUME NEW l \in c + 1 .. Len(w), r[j] = w[l] PROVE FALSE
        <5>1. w[k] = w[l]
          BY <2>7, <4>1, <4>3
        <5>2. k # l /\ k \in h + 1 .. Len(w) /\ l \in h + 1 .. Len(w)
          BY <2>1
        <5> QED BY <5>1, <5>2
      <4> QED BY <2>6, <2>7, <4>2, <4>3
    <3> QED BY <2>1, <3>1, <3>2
  <2> QED BY <2>7 DEF SunkDistinct, r, o
<1> QED BY <1>1, <1>2

(* Induction from the leaves up, for a set of positions. *)
LEMMA FromTheLeavesUp ==
  ASSUME NEW w, Len(w) \in Nat, NEW Done,
         \A h \in 1 .. Len(w) :
           (2 * h <= Len(w) => firstChild(w, h) \in Done) => h \in Done
  PROVE  \A h \in 1 .. Len(w) : h \in Done
<1> DEFINE n == Len(w)
           T == {k \in 0 .. n - 1 : n - k \notin Done}
<1> HIDE DEF n
<1>1. n \in Nat
  BY DEF n
<1>2. SUFFICES ASSUME T # {} PROVE FALSE
  <2>1. ASSUME NEW h \in 1 .. n, h \notin Done PROVE T # {}
    <3>1. n - h \in 0 .. n - 1 /\ n - (n - h) = h
      BY <1>1
    <3>2. n - h \in T
      BY <2>1, <3>1
    <3> QED BY <3>2
  <2> QED BY <2>1 DEF n
<1>3. PICK k \in T : \A l \in T : k <= l
  <2>1. T \in SUBSET Nat
    BY <1>1
  <2> HIDE DEF T
  <2> QED BY <1>2, <2>1, LeastNat
<1> DEFINE h == n - k
           c == firstChild(w, h)
<1>4. h \in 1 .. n /\ k \in 0 .. n - 1 /\ h \notin Done
  BY <1>1, <1>3
<1>5. ASSUME 2 * h <= n PROVE c \in Done
  <2>1. c \in h + 1 .. n
    BY <1>1, <1>4, <1>5, FirstChildBelow DEF n
  <2> HIDE DEF c
  <2>2. n - c \in 0 .. n - 1 /\ n - c < k /\ n - (n - c) = c
    BY <1>1, <1>4, <2>1
  <2>3. n - c \notin T
    BY <1>3, <1>4, <2>2
  <2> QED BY <2>2, <2>3
<1> QED BY <1>4, <1>5 DEF n

LEMMA SunkToEverywhere ==
  ASSUME NEW E, NEW w \in Seq(E), NEW f, Sunken(w, 1, f)
  PROVE  \A h \in 1 .. Len(w) : SunkTo(E, w, h, f[h])
<1> DEFINE Done == {h \in 1 .. Len(w) : SunkTo(E, w, h, f[h])}
<1>1. ASSUME NEW h \in 1 .. Len(w), 2 * h <= Len(w) => firstChild(w, h) \in Done
      PROVE  h \in Done
  <2>1. 2 * h > Len(w) \/ 2 * h <= Len(w)
    OBVIOUS
  <2> QED BY <1>1, <2>1, SinkToLeaf, SinkToChild
<1> HIDE DEF Done
<1>2. \A h \in 1 .. Len(w) : h \in Done
  BY <1>1, FromTheLeavesUp
<1> QED BY <1>2 DEF Done

(* What the hole at the root becomes. *)
LEMMA SunkEffect ==
  ASSUME NEW E, Times(E), NEW w \in Seq(E), Len(w) > 0,
         OrderedBelowRoot(w),
         \A i, j \in 2 .. Len(w) : w[i] = w[j] => i = j,
         NEW f, Sunken(w, 1, f)
  PROVE  /\ SunkTo(E, w, 1, f[1]) /\ SunkOrder(w, 1, f[1])
         /\ SunkValues(w, 1, f[1]) /\ SunkDistinct(w, 1, f[1])
<1> DEFINE Done == {h \in 1 .. Len(w) :
                      /\ SunkTo(E, w, h, f[h]) /\ SunkOrder(w, h, f[h])
                      /\ SunkValues(w, h, f[h]) /\ SunkDistinct(w, h, f[h])}
<1>1. ASSUME NEW h \in 1 .. Len(w), 2 * h <= Len(w) => firstChild(w, h) \in Done
      PROVE  h \in Done
  <2> DEFINE c == firstChild(w, h)
  <2>1. 2 * h <= Len(w) =>
          /\ SunkTo(E, w, c, f[c]) /\ SunkOrder(w, c, f[c])
          /\ SunkValues(w, c, f[c]) /\ SunkDistinct(w, c, f[c])
    BY <1>1
  <2>2. SunkTo(E, w, h, f[h])
    BY SunkToEverywhere
  <2>3. SunkOrder(w, h, f[h])
    BY <2>1, SinkOrder
  <2>4. SunkValues(w, h, f[h])
    BY <2>1, SinkValues
  <2>5. SunkDistinct(w, h, f[h])
    <3>1. \A i, j \in h + 1 .. Len(w) : w[i] = w[j] => i = j
      OBVIOUS
    <3> QED BY <2>1, <3>1, SinkDistinct
  <2> QED BY <2>2, <2>3, <2>4, <2>5
<1>2. 1 \in 1 .. Len(w)
  OBVIOUS
<1> HIDE DEF Done
<1>3. \A h \in 1 .. Len(w) : h \in Done
  BY <1>1, FromTheLeavesUp
<1>4. 1 \in Done
  BY <1>2, <1>3
<1> QED BY <1>4 DEF Done

LEMMA FrontLast ==
  ASSUME NEW E, NEW v \in Seq(E), Len(v) > 0
  PROVE  /\ Front(v) \in Seq(E) /\ Len(Front(v)) = Len(v) - 1
         /\ \A i \in 1 .. Len(v) - 1 : Front(v)[i] = v[i]
         /\ Last(v) = v[Len(v)] /\ Last(v) \in E
<1>1. Len(v) \in Nat /\ Len(v) \in 1 .. Len(v)
  OBVIOUS
<1>2. Last(v) = v[Len(v)] /\ Last(v) \in E
  BY <1>1 DEF Last
<1> DEFINE m == Len(v) - 1
<1>a. m \in Nat /\ m <= Len(v)
  BY <1>1
<1> HIDE DEF m
<1>b. SubSeq(v, 1, m) \in Seq(E) /\ Len(SubSeq(v, 1, m)) = m
  BY <1>1, <1>a
<1>3. Front(v) \in Seq(E) /\ Len(Front(v)) = Len(v) - 1
  BY <1>b DEF Front, m
<1>4. \A i \in 1 .. Len(v) - 1 : Front(v)[i] = v[i]
  BY <1>1 DEF Front
<1> QED BY <1>2, <1>3, <1>4

LEMMA popIsSunken ==
  ASSUME NEW E, NEW v \in Seq(E), Len(v) > 1
  PROVE  \E f : /\ Sunken(Front(v), 1, f)
                /\ pop(v) = push_heap(f[1].vector, f[1].hole, Last(v))
<1> DEFINE w == Front(v)
           x == Last(v)
<1>1. w \in Seq(E) /\ Len(w) \in Nat /\ Len(w) > 0
  BY FrontLast
<1>2. pop(v) = adjust_heap(w, x)
  <2>1. Len(v) \in Nat /\ Len(v) # 1
    OBVIOUS
  <2> QED BY <2>1, Zenon DEF pop
<1> HIDE DEF w, x
<1>3. PICK f : /\ Sunken(w, 1, f)
               /\ adjust_heap(w, x) = push_heap(f[1].vector, f[1].hole, x)
  BY <1>1, adjust_heapIsSunken
<1> QED BY <1>2, <1>3 DEF w, x

(* pop() keeps the heap and takes its first event from it. *)
LEMMA popEffect ==
  ASSUME NEW E, Times(E), NEW v, Heap(E, v), Len(v) > 0
  PROVE  Heap(E, pop(v)) /\ ToSet(pop(v)) = ToSet(v) \ {v[1]}
<1>1. v \in Seq(E) /\ Len(v) \in Nat
  BY DEF Heap
<1>2. CASE Len(v) = 1
  <2>1. pop(v) = <<>>
    BY <1>2 DEF pop
  <2>2. ToSet(v) = {v[1]}
    BY <1>1, <1>2 DEF ToSet
  <2> QED BY <2>1, <2>2, EmptyHeap
<1>3. CASE Len(v) > 1
  <2> DEFINE w == Front(v)
             x == Last(v)
             n == Len(w)
  <2>1. /\ w \in Seq(E) /\ n \in Nat /\ n > 0 /\ Len(v) = n + 1
        /\ \A i \in 1 .. n : w[i] = v[i]
        /\ x = v[n + 1] /\ x \in E
    BY <1>1, <1>3, FrontLast
  <2>2. PICK f : Sunken(w, 1, f) /\ pop(v) = push_heap(f[1].vector, f[1].hole, x)
    BY <1>1, <1>3, popIsSunken
  <2> HIDE DEF w, x
  <2>3. \A i, j \in 1 .. n + 1 : v[i] = v[j] => i = j
    BY <2>1 DEF Heap, DistinctUpTo
  <2>4. OrderedBelowRoot(w)
    <3> SUFFICES ASSUME NEW i \in 4 .. n PROVE w[i \div 2].time <= w[i].time
      BY DEF OrderedBelowRoot
    <3>1. i \div 2 \in 1 .. n
      BY Halves
    <3>2. w[i \div 2] = v[i \div 2] /\ w[i] = v[i]
      BY <2>1, <3>1
    <3>3. v[i \div 2].time <= v[i].time
      BY <2>1 DEF Heap
    <3> QED BY <3>2, <3>3
  <2>5. \A i, j \in 2 .. n : w[i] = w[j] => i = j
    BY <2>1, <2>3
  <2> DEFINE u == f[1].vector
             o == f[1].hole
  <2>6. /\ SunkTo(E, w, 1, f[1]) /\ SunkOrder(w, 1, f[1])
        /\ SunkValues(w, 1, f[1]) /\ SunkDistinct(w, 1, f[1])
    BY <2>1, <2>2, <2>4, <2>5, SunkEffect
  <2>7. u \in Seq(E) /\ o \in 1 .. n /\ Len(u) = n /\ 2 * o > n
    BY <2>6 DEF SunkTo
  <2>8. \A i \in 2 .. n : i # o => u[i \div 2].time <= u[i].time
    <3> SUFFICES ASSUME NEW i \in 2 .. n, i # o PROVE u[i \div 2].time <= u[i].time
      OBVIOUS
    <3>1. i \div 2 >= 1
      BY Halves
    <3> QED BY <2>6, <3>1 DEF SunkOrder
  <2>9. \A i \in 1 .. n : i # o => \E j \in 2 .. n : u[i] = w[j]
    BY <2>6 DEF SunkValues
  <2>10. \A j \in 2 .. n : \E i \in 1 .. n : i # o /\ u[i] = w[j]
    BY <2>6 DEF SunkValues
  <2>11. \A i, j \in 1 .. n : i # o /\ j # o /\ u[i] = u[j] => i = j
    BY <2>6 DEF SunkDistinct
  <2> DEFINE r == push_heap(u, o, x)
  <2> HIDE DEF u, o, n
  <2>12. ClimbedFrom(E, u, x, o, r) /\ ClimbedValues(u, x, o, r)
    <3>1. OrderedBelow(u, o)
      <4> SUFFICES ASSUME NEW i \in 2 .. Len(u), i < o
                   PROVE  u[i \div 2].time <= u[i].time
        BY DEF OrderedBelow
      <4>1. i \in 2 .. n /\ i # o
        BY <2>7
      <4> QED BY <2>8, <4>1
    <3> QED BY <2>1, <2>7, <3>1, push_heapEffect
  <2> HIDE DEF r
  <2>13. /\ r \in Seq(E) /\ Len(r) = n
         /\ \A i \in 1 .. n : i > o => r[i] = u[i]
         /\ \A i \in 1 .. o - 1 : r[i].time <= u[i].time
         /\ \A i \in 2 .. o : r[i \div 2].time <= r[i].time
    BY <2>7, <2>12 DEF ClimbedFrom
  <2>14. Prefix(r, o) = Prefix(u, o - 1) \cup {x}
    BY <2>12 DEF ClimbedValues
  <2>15. \A i \in 1 .. n : i # o => u[i] # x
    BY <2>1, <2>3, <2>9
  <2>16. DistinctUpTo(r, o)
    <3>1. DistinctUpTo(u, o - 1)
      BY <2>7, <2>11 DEF DistinctUpTo
    <3>2. x \notin Prefix(u, o - 1)
      BY <2>7, <2>15 DEF Prefix
    <3> QED BY <2>12, <3>1, <3>2 DEF ClimbedValues
  <2>17. \A i \in 2 .. n : r[i \div 2].time <= r[i].time
    <3> SUFFICES ASSUME NEW i \in 2 .. n, i > o PROVE r[i \div 2].time <= r[i].time
      BY <2>7, <2>13
    <3> DEFINE k == i \div 2
    <3>1. k \in 1 .. o - 1 /\ k \in 1 .. n
      BY <2>1, <2>7, Halves
    <3>2. u[k].time <= u[i].time
      BY <2>7, <2>8
    <3> HIDE DEF k
    <3>3. r[i] = u[i] /\ r[k].time <= u[k].time
      BY <2>13, <3>1
    <3>4. r[k].time \in Nat /\ u[k].time \in Nat /\ u[i].time \in Nat
      BY <2>7, <2>13, <3>1 DEF Times
    <3>5. r[k].time <= r[i].time
      BY <3>2, <3>3, <3>4
    <3> QED BY <3>5 DEF k
  (* An event of r that is not x is one that u has outside its hole. *)
  <2>18. ASSUME NEW i \in 1 .. n
         PROVE  r[i] = x \/ \E j \in 1 .. n : j # o /\ r[i] = u[j]
    <3>1. CASE i > o
      BY <2>7, <2>13, <3>1
    <3>2. CASE i <= o
      <4>1. r[i] \in Prefix(r, o)
        BY <2>7, <3>2, InPrefix
      <4>2. r[i] = x \/ \E j \in 1 .. o - 1 : r[i] = u[j]
        BY <2>14, <4>1 DEF Prefix
      <4> QED BY <2>7, <4>2
    <3> QED BY <2>7, <3>1, <3>2
  <2>19. ASSUME NEW j \in 1 .. n, j # o
         PROVE  \E i \in 1 .. n : r[i] = u[j]
    <3>1. CASE j > o
      BY <2>13, <3>1
    <3>2. CASE j < o
      <4>1. u[j] \in Prefix(u, o - 1)
        BY <2>7, <3>2, InPrefix
      <4>2. PICK i \in 1 .. o : r[i] = u[j]
        BY <2>14, <4>1 DEF Prefix
      <4> QED BY <2>7, <4>2
    <3> QED BY <2>7, <2>19, <3>1, <3>2
  <2>20. \E i \in 1 .. n : r[i] = x
    <3>1. PICK i \in 1 .. o : r[i] = x
      BY <2>14 DEF Prefix
    <3> QED BY <2>7, <3>1
  <2>21. DistinctUpTo(r, n)
    <3> SUFFICES ASSUME NEW i \in 1 .. n, NEW j \in 1 .. n, r[i] = r[j], i < j
                 PROVE  FALSE
      BY <2>1 DEF DistinctUpTo
    <3>1. CASE j <= o
      BY <2>7, <2>16, <3>1 DEF DistinctUpTo
    <3>2. CASE o < i
      <4>1. u[i] = u[j]
        BY <2>7, <2>13, <3>2
      <4> QED BY <2>7, <2>11, <3>2, <4>1
    <3>3. CASE i <= o /\ o < j
      <4>1. r[j] = u[j] /\ u[j] # x
        BY <2>7, <2>13, <2>15, <3>3
      <4>2. r[i] \in Prefix(r, o)
        BY <2>7, <3>3, InPrefix
      <4>3. PICK k \in 1 .. o - 1 : r[i] = u[k]
        BY <2>14, <4>1, <4>2 DEF Prefix
      <4>4. u[k] = u[j]
        BY <4>1, <4>3
      <4> QED BY <2>7, <2>11, <3>3, <4>4
    <3> QED BY <2>7, <3>1, <3>2, <3>3
  <2>22. ToSet(r) = ToSet(v) \ {v[1]}
    <3>1. ASSUME NEW e \in ToSet(r) PROVE e \in ToSet(v) \ {v[1]}
      <4>1. PICK i \in 1 .. n : e = r[i]
        BY <2>13 DEF ToSet
      <4>2. \E l \in 2 .. n + 1 : e = v[l]
        <5>1. CASE r[i] = x
          BY <2>1, <4>1, <5>1 DEF n
        <5>2. ASSUME NEW j \in 1 .. n, j # o, r[i] = u[j]
              PROVE  \E l \in 2 .. n + 1 : e = v[l]
          <6>1. PICK l \in 2 .. n : u[j] = w[l]
            BY <2>9, <5>2
          <6>2. l \in 2 .. n + 1 /\ e = v[l]
            BY <2>1, <4>1, <5>2, <6>1 DEF n
          <6> QED BY <6>2
        <5> QED BY <2>18, <5>1, <5>2
      <4>3. PICK l \in 2 .. n + 1 : e = v[l]
        BY <4>2
      <4>4. l # 1 /\ l \in 1 .. n + 1 /\ 1 \in 1 .. n + 1
        BY <2>1 DEF n
      <4>5. e # v[1]
        BY <2>3, <4>3, <4>4
      <4>6. l \in DOMAIN v
        BY <1>1, <2>1, <4>4 DEF n
      <4> QED BY <4>3, <4>5, <4>6 DEF ToSet
    <3>2. ASSUME NEW e \in ToSet(v) \ {v[1]} PROVE e \in ToSet(r)
      <4>1. PICK l \in 1 .. n + 1 : e = v[l] /\ l # 1
        BY <1>1, <2>1 DEF ToSet, n
      <4>2. \E i \in 1 .. n : e = r[i]
        <5>1. CASE l = n + 1
          BY <2>1, <2>20, <4>1, <5>1 DEF n
        <5>2. CASE l # n + 1
          <6>1. l \in 2 .. n /\ e = w[l]
            BY <2>1, <4>1, <5>2 DEF n
          <6>2. PICK j \in 1 .. n : j # o /\ u[j] = w[l]
            BY <2>10, <6>1
          <6> QED BY <2>19, <6>1, <6>2
        <5> QED BY <5>1, <5>2
      <4> QED BY <2>13, <4>2 DEF ToSet
    <3> QED BY <3>1, <3>2
  <2> QED BY <2>2, <2>13, <2>17, <2>21, <2>22 DEF Heap, r, u, o
<1>4. Len(v) = 1 \/ Len(v) > 1
  BY <1>1
<1> QED BY <1>2, <1>3, <1>4

LEMMA SameSequence ==
  ASSUME NEW E, NEW u \in Seq(E), NEW w \in Seq(E), Len(u) = Len(w),
         \A i \in 1 .. Len(u) : u[i] = w[i]
  PROVE  u = w
  OBVIOUS

LEMMA push_heapOne ==
  ASSUME NEW E, NEW w \in Seq(E), NEW x \in E
  PROVE  Len(w) = 1 => push_heap(w, 1, x) = <<x>>
<1>1. PICK f : /\ Climbed(w, x, Len(w), f)
               /\ \A hole : push_heap(w, hole, x) = f[hole]
  BY push_heapIsClimbed
<1> SUFFICES ASSUME Len(w) = 1 PROVE push_heap(w, 1, x) = <<x>>
  OBVIOUS
<1> DEFINE u == [w EXCEPT ![1] = x]
<1>2. u = [i \in 1 .. 1 |-> IF i = 1 THEN x ELSE w[i]]
  <2>1. DOMAIN w = 1 .. 1
    OBVIOUS
  <2> QED BY <2>1
<1>3. f[1] = u
  BY <1>1 DEF Climbed, Climb
<1> HIDE DEF u
<1>4. u \in Seq(E) /\ Len(u) = 1 /\ u[1] = x
  BY <1>2
<1> QED BY <1>1, <1>3, <1>4

(* pop() does not depend on the event at the root. *)
LEMMA popIgnoresRoot ==
  ASSUME NEW E, NEW v \in Seq(E), Len(v) > 0, NEW a \in E
  PROVE  pop([v EXCEPT ![1] = a]) = pop(v)
<1> DEFINE v2 == [v EXCEPT ![1] = a]
<1>1. /\ v2 \in Seq(E) /\ Len(v2) = Len(v) /\ Len(v) \in Nat
      /\ \A i \in 2 .. Len(v) : v2[i] = v[i]
  OBVIOUS
<1> HIDE DEF v2
<1>2. CASE Len(v) = 1
  BY <1>1, <1>2 DEF pop, v2
<1>3. CASE Len(v) > 1
  <2> DEFINE w == Front(v)
             w2 == Front(v2)
             n == Len(w)
  <2>1. /\ w \in Seq(E) /\ n \in Nat /\ n > 0 /\ Len(v) = n + 1
        /\ \A i \in 1 .. n : w[i] = v[i]
        /\ Last(v) = v[n + 1]
    BY <1>1, <1>3, FrontLast
  <2>2. /\ w2 \in Seq(E) /\ Len(w2) = n
        /\ \A i \in 1 .. n : w2[i] = v2[i]
        /\ Last(v2) = v2[n + 1]
    <3>1. v2 \in Seq(E) /\ Len(v2) > 0 /\ Len(v2) = n + 1 /\ Len(v2) - 1 = n
      BY <1>1, <1>3, <2>1
    <3> QED BY <3>1, FrontLast
  <2>3. PICK f : Sunken(w, 1, f) /\ pop(v) = push_heap(f[1].vector, f[1].hole, Last(v))
    BY <1>1, <1>3, popIsSunken
  <2>4. PICK g : Sunken(w2, 1, g) /\ pop(v2) = push_heap(g[1].vector, g[1].hole, Last(v2))
    BY <1>1, <1>3, popIsSunken
  <2> HIDE DEF w, w2
  <2>5. Last(v2) = Last(v) /\ \A i \in 2 .. n : w2[i] = w[i]
    BY <1>1, <2>1, <2>2
  <2>6. \A h \in 1 .. n : SunkTo(E, w, h, f[h]) /\ SunkTo(E, w2, h, g[h])
    BY <2>1, <2>2, <2>3, <2>4, SunkToEverywhere
  <2>7. \A h \in 1 .. n : /\ f[h] \in [vector : Seq(E), hole : Nat] /\ Len(f[h].vector) = n
                          /\ g[h] \in [vector : Seq(E), hole : Nat] /\ Len(g[h].vector) = n
    <3> SUFFICES ASSUME NEW h \in 1 .. n
                 PROVE  /\ f[h] \in [vector : Seq(E), hole : Nat] /\ Len(f[h].vector) = n
                        /\ g[h] \in [vector : Seq(E), hole : Nat] /\ Len(g[h].vector) = n
      OBVIOUS
    <3>1. h .. Len(w) \subseteq Nat /\ h .. Len(w2) \subseteq Nat
      OBVIOUS
    <3> QED BY <2>2, <2>6, <3>1 DEF SunkTo
  <2> DEFINE Same(h) == /\ g[h].hole = f[h].hole
                        /\ \A i \in 2 .. n : g[h].vector[i] = f[h].vector[i]
  <2>8. ASSUME NEW h \in 1 .. n, 2 * h <= n
        PROVE  firstChild(w2, h) = firstChild(w, h)
    <3>1. w2[2 * h] = w[2 * h] /\ (2 * h + 1 <= n => w2[2 * h + 1] = w[2 * h + 1])
      BY <2>1, <2>5, <2>8
    <3>2. CASE 2 * h + 1 > n
      BY <2>2, <3>2 DEF firstChild
    <3>3. CASE 2 * h + 1 <= n
      BY <2>2, <3>1, <3>3 DEF firstChild
    <3> QED BY <2>1, <3>2, <3>3
  (* A hole that sinks to the same place below leaves the same events. *)
  <2>9. ASSUME NEW h \in 1 .. n, 2 * h <= n, Same(firstChild(w, h))
        PROVE  /\ g[h].hole = f[h].hole
               /\ \A i \in 1 .. n : i # 1 \/ h = 1 => g[h].vector[i] = f[h].vector[i]
    <3> DEFINE c == firstChild(w, h)
    <3>1. c \in h + 1 .. n
      BY <2>1, <2>9, FirstChildBelow
    <3>2. c = firstChild(w2, h)
      BY <2>8, <2>9
    <3> HIDE DEF c
    <3>3. w2[c] = w[c]
      BY <2>5, <3>1
    <3>4. /\ f[h].hole = f[c].hole /\ f[h].vector[h] = w[c]
          /\ \A i \in 1 .. n : i # h => f[h].vector[i] = f[c].vector[i]
      BY <2>1, <2>3, <2>6, <2>9, <3>1, SinkToChild DEF c
    <3>5. /\ g[h].hole = g[c].hole /\ g[h].vector[h] = w2[c]
          /\ \A i \in 1 .. n : i # h => g[h].vector[i] = g[c].vector[i]
      BY <2>2, <2>4, <2>6, <2>9, <3>1, <3>2, SinkToChild
    <3>6. Same(c)
      BY <2>9 DEF c
    <3> QED BY <3>3, <3>4, <3>5, <3>6
  <2> DEFINE Done == {h \in 1 .. n : Same(h)}
  <2>10. ASSUME NEW h \in 1 .. n, 2 * h <= n => firstChild(w, h) \in Done
         PROVE  h \in Done
    <3>1. CASE 2 * h > n
      <4>1. f[h] = [vector |-> w, hole |-> h] /\ g[h] = [vector |-> w2, hole |-> h]
        BY <2>1, <2>2, <2>3, <2>4, <3>1, SinkToLeaf
      <4> QED BY <2>5, <4>1
    <3>2. CASE 2 * h <= n
      BY <2>9, <2>10, <3>2
    <3> QED BY <2>1, <3>1, <3>2
  <2>11. \A h \in 1 .. n : h \in Done
    <3> HIDE DEF Done
    <3> QED BY <2>1, <2>10, FromTheLeavesUp
  <2>12. Same(1) /\ 1 \in 1 .. n
    BY <2>1, <2>11
  <2> HIDE DEF n, Done
  <2>13. CASE n = 1
    <3>1. Last(v) \in E /\ Len(w) = 1 /\ Len(w2) = 1
      BY <1>3, <2>2, <2>13, FrontLast DEF n
    <3>2. f[1] = [vector |-> w, hole |-> 1] /\ g[1] = [vector |-> w2, hole |-> 1]
      <4>1. 1 \in 1 .. Len(w) /\ 2 * 1 > Len(w) /\ 1 \in 1 .. Len(w2) /\ 2 * 1 > Len(w2)
        BY <3>1
      <4> QED BY <2>1, <2>2, <2>3, <2>4, <4>1, SinkToLeaf
    <3>3. push_heap(w, 1, Last(v)) = <<Last(v)>>
      BY <2>1, <3>1, push_heapOne
    <3>4. push_heap(w2, 1, Last(v)) = <<Last(v)>>
      BY <2>2, <3>1, push_heapOne
    <3> QED BY <2>3, <2>4, <2>5, <3>2, <3>3, <3>4 DEF v2
  <2>14. CASE n > 1
    <3>1. firstChild(w, 1) \in 1 .. n /\ 2 * 1 <= n
      BY <2>1, <2>14, FirstChildBelow DEF n
    <3>2. /\ g[1].hole = f[1].hole
          /\ \A i \in 1 .. n : g[1].vector[i] = f[1].vector[i]
      <4>1. Same(firstChild(w, 1))
        BY <2>11, <3>1 DEF Done
      <4> HIDE DEF Same
      <4> QED BY <2>9, <2>12, <3>1, <4>1
    <3>3. g[1].vector = f[1].vector
      <4>1. /\ g[1].vector \in Seq(E) /\ Len(g[1].vector) = n
            /\ f[1].vector \in Seq(E) /\ Len(f[1].vector) = n
        BY <2>7, <2>12
      <4> QED BY <3>2, <4>1, SameSequence
    <3>4. pop(v2) = pop(v)
      BY <2>3, <2>4, <2>5, <3>2, <3>3
    <3> QED BY <3>4 DEF v2
  <2> QED BY <2>1, <2>13, <2>14
<1> QED BY <1>1, <1>2, <1>3 DEF v2

-----------------------------------------------------------------------------

(* What FoldLeft computes over the subsets of 1..n. *)
Folded(v, events, n, f) ==
  f = [s \in SUBSET (1 .. n) |->
         IF s = {} THEN v ELSE push(f[s \ {Max(s)}], events[Max(s)])]

LEMMA MaxOfSome ==
  ASSUME NEW n \in Nat, NEW s \in SUBSET (1 .. n), s # {}
  PROVE  Max(s) \in s /\ \A y \in s : Max(s) >= y
<1> DEFINE T == {n - i : i \in s}
<1>1. T \in SUBSET Nat /\ T # {}
  <2>1. \A i \in s : n - i \in Nat
    OBVIOUS
  <2>2. PICK i \in s : TRUE
    OBVIOUS
  <2>3. n - i \in T
    OBVIOUS
  <2> QED BY <2>1, <2>3
<1>2. PICK m \in T : \A k \in T : m <= k
  <2> HIDE DEF T
  <2> QED BY <1>1, LeastNat
<1>3. PICK i \in s : m = n - i
  BY <1>2
<1>4. \A y \in s : i >= y
  <2> SUFFICES ASSUME NEW y \in s PROVE i >= y
    OBVIOUS
  <2>1. n - y \in T
    OBVIOUS
  <2> QED BY <1>2, <1>3, <2>1
<1> QED BY <1>3, <1>4 DEF Max

LEMMA FoldedExists ==
  ASSUME NEW v, NEW events
  PROVE  \A n \in Nat : \E f : Folded(v, events, n, f)
<1> DEFINE T == {n \in Nat : ~\E f : Folded(v, events, n, f)}
<1>1. SUFFICES ASSUME T # {} PROVE FALSE
  OBVIOUS
<1>2. PICK m \in T : \A k \in T : m <= k
  <2>1. T \in SUBSET Nat
    OBVIOUS
  <2> HIDE DEF T
  <2> QED BY <1>1, <2>1, LeastNat
<1>3. CASE m = 0
  <2> DEFINE f == [s \in SUBSET (1 .. 0) |-> v]
  <2>1. 1 .. 0 = {}
    OBVIOUS
  <2>2. f = [s \in SUBSET (1 .. 0) |->
         IF s = {} THEN v ELSE push(f[s \ {Max(s)}], events[Max(s)])]
    BY <2>1
  <2> HIDE DEF f
  <2>3. Folded(v, events, 0, f)
    BY <2>2 DEF Folded
  <2> QED BY <1>3, <2>3
<1>4. CASE m # 0
  <2> DEFINE n == m - 1
  <2>1. n \in Nat /\ n \notin T /\ m = n + 1
    BY <1>2, <1>4
  <2>2. PICK f : Folded(v, events, n, f)
    BY <2>1
  <2> HIDE DEF n
  <2> DEFINE Step(q, s) == IF s = {} THEN v ELSE push(q[s \ {Max(s)}], events[Max(s)])
             g == [s \in SUBSET (1 .. n + 1) |-> Step(f, s)]
  <2>3. \A s \in SUBSET (1 .. n) : g[s] = f[s]
    <3>1. \A s \in SUBSET (1 .. n) : f[s] = Step(f, s)
      BY <2>2 DEF Folded
    <3>2. \A s \in SUBSET (1 .. n) : s \in SUBSET (1 .. n + 1)
      <4>1. 1 .. n \subseteq 1 .. n + 1
        BY <2>1
      <4> QED BY <4>1
    <3> HIDE DEF Step
    <3> QED BY <3>1, <3>2
  <2>4. \A s \in SUBSET (1 .. n + 1) : Step(g, s) = Step(f, s)
    <3> SUFFICES ASSUME NEW s \in SUBSET (1 .. n + 1), s # {}
                 PROVE  Step(g, s) = Step(f, s)
      OBVIOUS
    <3>1. Max(s) \in s /\ \A y \in s : Max(s) >= y
      BY <2>1, MaxOfSome
    <3>2. s \ {Max(s)} \in SUBSET (1 .. n)
      <4> SUFFICES ASSUME NEW y \in s, y # Max(s) PROVE y \in 1 .. n
        OBVIOUS
      <4>1. y \in 1 .. n + 1 /\ Max(s) \in 1 .. n + 1 /\ Max(s) >= y
        BY <3>1
      <4> QED BY <2>1, <4>1
    <3> HIDE DEF g
    <3> QED BY <2>3, <3>2
  <2>5. g = [s \in SUBSET (1 .. n + 1) |-> Step(g, s)]
    BY <2>4
  <2> HIDE DEF g
  <2>6. Folded(v, events, n + 1, g)
    BY <2>5 DEF Folded
  <2> QED BY <2>1, <2>6
<1> QED BY <1>3, <1>4

LEMMA insertAllIsFolded ==
  ASSUME NEW E, NEW v, NEW events \in Seq(E)
  PROVE  \E f : /\ Folded(v, events, Len(events), f)
                /\ insertAll(v, events) = f[1 .. Len(events)]
<1> DEFINE n == Len(events)
           f == CHOOSE f : Folded(v, events, n, f)
<1>1. n \in Nat /\ DOMAIN events = 1 .. n
  OBVIOUS
<1> HIDE DEF n
<1>2. Folded(v, events, n, f)
  BY <1>1, FoldedExists
<1>3. insertAll(v, events) = f[1 .. n]
  BY <1>1 DEF insertAll, FoldLeft, MapThenFoldSet, Folded
<1> QED BY <1>2, <1>3 DEF n

(* insert() of several events, one after the other. *)
LEMMA insertAllEffect ==
  ASSUME NEW E, Times(E), NEW v, Heap(E, v), NEW events \in Seq(E),
         DistinctUpTo(events, Len(events)), ToSet(events) \cap ToSet(v) = {}
  PROVE  /\ Heap(E, insertAll(v, events))
         /\ ToSet(insertAll(v, events)) = ToSet(v) \cup ToSet(events)
<1> DEFINE n == Len(events)
<1>1. PICK f : Folded(v, events, n, f) /\ insertAll(v, events) = f[1 .. n]
  BY insertAllIsFolded
<1>2. n \in Nat /\ \A i \in 1 .. n : events[i] \in E
  OBVIOUS
<1>3. DistinctUpTo(events, n) /\ ToSet(events) = Prefix(events, n)
  BY ToSetIsPrefix
<1> HIDE DEF n
<1> DEFINE Done(k) == /\ Heap(E, f[1 .. k])
                      /\ ToSet(f[1 .. k]) = ToSet(v) \cup Prefix(events, k)
           T == {k \in 0 .. n : ~Done(k)}
<1>4. SUFFICES ASSUME T # {} PROVE FALSE
  <2>1. SUFFICES Done(n)
    BY <1>1, <1>3 DEF n
  <2> HIDE DEF Done
  <2> QED BY <1>2
<1> HIDE DEF Done
<1>5. PICK k \in T : \A l \in T : k <= l
  <2>1. T \in SUBSET Nat
    OBVIOUS
  <2> HIDE DEF T
  <2> QED BY <1>4, <2>1, LeastNat
<1>6. k \in 0 .. n /\ ~Done(k)
  BY <1>5
<1>7. \A s \in SUBSET (1 .. n) :
        f[s] = IF s = {} THEN v ELSE push(f[s \ {Max(s)}], events[Max(s)])
  BY <1>1 DEF Folded
<1>8. CASE k = 0
  <2>1. 1 .. k = {} /\ 1 .. k \in SUBSET (1 .. n)
    BY <1>8
  <2>2. f[1 .. k] = v
    BY <1>7, <2>1
  <2>3. Prefix(events, k) = {}
    BY <1>8 DEF Prefix
  <2> QED BY <1>6, <2>2, <2>3 DEF Done
<1>9. CASE k # 0
  <2> DEFINE s == 1 .. k
             e == events[k]
  <2>1. k \in 1 .. n /\ k - 1 \in 0 .. n /\ k - 1 \notin T
    BY <1>2, <1>5, <1>9
  <2>2. Done(k - 1)
    BY <2>1
  <2>3. s \in SUBSET (1 .. n) /\ s # {} /\ k \in s
    <3>1. k \in s
      BY <2>1
    <3>2. \A i \in s : i \in 1 .. n
      BY <1>2, <2>1
    <3> QED BY <3>1, <3>2
  <2>4. Max(s) = k
    <3>1. Max(s) \in s /\ Max(s) >= k
      BY <1>2, <2>3, MaxOfSome
    <3> QED BY <2>1, <3>1
  <2>5. s \ {k} = 1 .. (k - 1)
    BY <2>1
  <2>6. f[s] = push(f[1 .. (k - 1)], e)
    BY <1>7, <2>3, <2>4, <2>5
  <2>7. /\ Heap(E, f[1 .. (k - 1)])
        /\ ToSet(f[1 .. (k - 1)]) = ToSet(v) \cup Prefix(events, k - 1)
    BY <2>2 DEF Done
  <2>8. e \in E /\ e \notin ToSet(v)
    <3>1. e \in Prefix(events, n)
      BY <2>1, InPrefix
    <3> QED BY <1>2, <1>3, <2>1, <3>1
  <2>9. e \notin Prefix(events, k - 1)
    <3> SUFFICES ASSUME NEW i \in 1 .. k - 1, e = events[i] PROVE FALSE
      BY DEF Prefix
    <3>1. i \in 1 .. n /\ i # k
      BY <1>2, <2>1
    <3> QED BY <1>3, <2>1, <3>1 DEF DistinctUpTo
  <2>10. /\ Heap(E, f[s])
         /\ ToSet(f[s]) = ToSet(v) \cup Prefix(events, k - 1) \cup {e}
    BY <2>6, <2>7, <2>8, <2>9, pushEffect
  <2>11. Prefix(events, k) = Prefix(events, k - 1) \cup {e}
    <3>1. ASSUME NEW x \in Prefix(events, k) PROVE x \in Prefix(events, k - 1) \cup {e}
      BY <2>1, <3>1 DEF Prefix
    <3>2. ASSUME NEW x \in Prefix(events, k - 1) \cup {e} PROVE x \in Prefix(events, k)
      BY <2>1, <3>2 DEF Prefix
    <3> QED BY <3>1, <3>2
  <2> QED BY <1>6, <2>10, <2>11 DEF Done
<1> QED BY <1>8, <1>9

-----------------------------------------------------------------------------
(* The orders in which a set of events can be inserted *)

LEMMA ListsOfSet ==
  ASSUME NEW S, IsFiniteSet(S), NEW order \in SetToSeqs(S)
  PROVE  /\ order \in Seq(S) /\ Len(order) = Cardinality(S)
         /\ DistinctUpTo(order, Len(order)) /\ ToSet(order) = S
<1> DEFINE n == Cardinality(S)
<1>1. n \in Nat
  BY FS_CardinalityType
<1>2. order \in [1 .. n -> S] /\ \A i, j \in 1 .. n : i # j => order[i] # order[j]
  BY DEF SetToSeqs
<1> HIDE DEF n
<1>3. order \in Seq(S) /\ Len(order) = n
  BY <1>1, <1>2
<1>4. DistinctUpTo(order, Len(order))
  BY <1>2, <1>3 DEF DistinctUpTo
<1>5. order \in Injection(1 .. n, S)
  BY <1>2 DEF Injection, IsInjective
<1>6. Cardinality(1 .. n) = n
  BY <1>1, FS_Interval
<1>7. order \in Surjection(1 .. n, S)
  BY <1>5, <1>6, FS_Injection DEF n
<1>8. ToSet(order) = S
  BY <1>2, <1>7 DEF ToSet, Surjection
<1> QED BY <1>3, <1>4, <1>8 DEF n

(* What a handler can send. *)
AtMostTwo(new) ==
  \/ new = {}
  \/ \E a : new = {a}
  \/ \E a, b : new = {a, b} /\ a.ptr \in Nat /\ b.ptr \in Nat /\ a.ptr < b.ptr

LEMMA OrderOfNewEvents ==
  ASSUME NEW new, AtMostTwo(new)
  PROVE  /\ InOrderSent(new) \in Seq(new)
         /\ DistinctUpTo(InOrderSent(new), Len(InOrderSent(new)))
         /\ ToSet(InOrderSent(new)) = new
         /\ \A j, k \in DOMAIN InOrderSent(new) : j < k =>
              InOrderSent(new)[j].ptr < InOrderSent(new)[k].ptr
<1> DEFINE Sorted(order) ==
             \A j, k \in DOMAIN order : j < k => order[j].ptr < order[k].ptr
<1>1. IsFiniteSet(new) /\ \E order \in SetToSeqs(new) : Sorted(order)
  <2>1. CASE new = {}
    <3>1. IsFiniteSet(new) /\ Cardinality(new) = 0
      BY <2>1, FS_EmptySet
    <3>2. <<>> \in SetToSeqs(new)
      BY <3>1 DEF SetToSeqs
    <3> QED BY <3>1, <3>2
  <2>2. ASSUME NEW a, new = {a}
        PROVE  IsFiniteSet(new) /\ \E order \in SetToSeqs(new) : Sorted(order)
    <3>1. IsFiniteSet(new) /\ Cardinality(new) = 1
      BY <2>2, FS_Singleton
    <3>2. <<a>> \in SetToSeqs(new)
      BY <2>2, <3>1 DEF SetToSeqs
    <3>3. Sorted(<<a>>)
      OBVIOUS
    <3> QED BY <3>1, <3>2, <3>3
  <2>3. ASSUME NEW a, NEW b, new = {a, b}, a.ptr \in Nat, b.ptr \in Nat, a.ptr < b.ptr
        PROVE  IsFiniteSet(new) /\ \E order \in SetToSeqs(new) : Sorted(order)
    <3>1. a # b /\ new = {a} \cup {b}
      BY <2>3
    <3>2. IsFiniteSet({a}) /\ Cardinality({a}) = 1
      BY FS_Singleton
    <3>3. IsFiniteSet(new) /\ Cardinality(new) = 2
      BY <3>1, <3>2, FS_AddElement
    <3>4. <<a, b>> \in SetToSeqs(new)
      <4>1. 1 .. 2 = {1, 2}
        OBVIOUS
      <4>2. <<a, b>> \in [1 .. 2 -> new]
        BY <2>3, <4>1
      <4>3. \A i, j \in 1 .. 2 : i # j => <<a, b>>[i] # <<a, b>>[j]
        BY <3>1, <4>1
      <4> QED BY <3>3, <4>2, <4>3 DEF SetToSeqs
    <3>5. Sorted(<<a, b>>)
      <4>1. DOMAIN <<a, b>> = {1, 2}
        OBVIOUS
      <4> QED BY <2>3, <4>1
    <3> QED BY <3>3, <3>4, <3>5
  <2> QED BY <2>1, <2>2, <2>3 DEF AtMostTwo
<1>2. InOrderSent(new) \in SetToSeqs(new) /\ Sorted(InOrderSent(new))
  BY <1>1 DEF InOrderSent
<1>3. /\ InOrderSent(new) \in Seq(new)
      /\ DistinctUpTo(InOrderSent(new), Len(InOrderSent(new)))
      /\ ToSet(InOrderSent(new)) = new
  BY <1>1, <1>2, ListsOfSet
<1> QED BY <1>2, <1>3

-----------------------------------------------------------------------------
(* The invariant *)

HInv ==
  /\ IInv
  /\ Heap(EventType, heap)
  /\ ToSet(heap) = queue

LEMMA EventTimes == Times(EventType)
  BY DEF Times, EventType

(* What an iteration of run() does to the queue. *)
LEMMA TickAdds ==
  ASSUME IInv, NEW e \in queue, notify_all(e)
  PROVE  \/ ~Running' /\ queue' = queue
         \/ /\ Running'
            /\ \E new \in SUBSET EventType :
                 /\ queue' = (queue \ {e}) \cup new
                 /\ \A x \in new : x.ptr \in Free
                 /\ AtMostTwo(new)
<1> DEFINE Adds == \E new \in SUBSET EventType :
                     /\ queue' = (queue \ {e}) \cup new
                     /\ \A x \in new : x.ptr \in Free
                     /\ AtMostTwo(new)
<1>1. \/ \E c \in CPUs : CPUStep(c, e) /\ UNCHANGED memVars
      \/ MemoryStep(e) /\ UNCHANGED cpuVars
  BY DEF notify_all
<1>2. MEM \in CPUs \cup {MEM} /\ CPUs \subseteq CPUs \cup {MEM}
  OBVIOUS
<1>3. ASSUME NEW m, Notifies(e, m) PROVE Running /\ e.time \in Nat
  BY <1>3, Dispatched
<1>4. ASSUME NEW p \in Free, NEW t \in Nat,
             NEW src \in CPUs \cup {MEM}, NEW dst \in CPUs \cup {MEM},
             queue' = (queue \ {e}) \cup {Event(p, t, src, dst)}
      PROVE  Adds
  <2> DEFINE x == Event(p, t, src, dst)
  <2>1. p \in Pointers
    BY DEF Free
  <2>2. x \in EventType /\ x.ptr = p
    BY <2>1, EventFields
  <2> HIDE DEF x
  <2>3. {x} \in SUBSET EventType /\ AtMostTwo({x}) /\ \A y \in {x} : y.ptr \in Free
    BY <2>2 DEF AtMostTwo
  <2> QED BY <1>4, <2>3 DEF x
<1>5. ASSUME NEW c \in CPUs, Finish(c, e) PROVE ~Running' /\ queue' = queue
  BY <1>5 DEF Finish, Exits, Running
<1>6. ASSUME NEW c \in CPUs, BackOff(c, e) PROVE Running' /\ Adds
  <2>1. PICK p \in Free :
          queue' = (queue \ {e}) \cup {Event(p, e.time + 1, c, c)}
    BY <1>6, BackOffEffect
  <2>2. Running /\ e.time + 1 \in Nat
    BY <1>3, <1>6 DEF BackOff
  <2>3. Running'
    BY <1>6, <2>2, BackOffEffect DEF Running
  <2> QED BY <1>2, <1>4, <2>1, <2>2, <2>3
<1>7. ASSUME NEW c \in CPUs, IssueRead(c, e) PROVE Running' /\ Adds
  <2>1. PICK p \in Free :
          queue' = (queue \ {e}) \cup {Event(p, e.time + 1, c, MEM)}
    BY <1>7, IssueReadEffect
  <2>2. Running /\ e.time + 1 \in Nat
    BY <1>3, <1>7 DEF IssueRead
  <2>3. Running'
    BY <1>7, <2>2, IssueReadEffect DEF Running
  <2> QED BY <1>2, <1>4, <2>1, <2>2, <2>3
<1>8. ASSUME NEW c \in CPUs, IssueWrite(c, e) PROVE Running' /\ Adds
  <2>1. PICK p \in Free, q \in Free :
          /\ p # q
          /\ queue' = (queue \ {e}) \cup {Event(p, e.time + 1, c, MEM),
                                         Event(q, e.time + 1, c, c)}
    BY <1>8, IssueWriteEffect
  <2>2. Running /\ e.time + 1 \in Nat
    BY <1>3, <1>8 DEF IssueWrite
  <2>3. Running'
    BY <1>8, <2>2, IssueWriteEffect DEF Running
  <2> DEFINE x == Event(p, e.time + 1, c, MEM)
             y == Event(q, e.time + 1, c, c)
  <2>4. p \in Pointers /\ q \in Pointers /\ p \in Nat /\ q \in Nat
    BY PointersAssumption DEF Free
  <2>5. x \in EventType /\ x.ptr = p /\ y \in EventType /\ y.ptr = q
    BY <1>2, <2>2, <2>4, EventFields
  <2> HIDE DEF x, y
  <2>6. AtMostTwo({x, y})
    <3>1. p < q \/ q < p
      BY <2>1, <2>4
    <3>2. CASE p < q
      BY <2>4, <2>5, <3>2 DEF AtMostTwo
    <3>3. CASE q < p
      <4>1. {x, y} = {y, x}
        OBVIOUS
      <4> QED BY <2>4, <2>5, <3>3, <4>1 DEF AtMostTwo
    <3> QED BY <3>1, <3>2, <3>3
  <2>7. {x, y} \in SUBSET EventType /\ \A z \in {x, y} : z.ptr \in Free
    BY <2>5
  <2>8. queue' = (queue \ {e}) \cup {x, y}
    BY <2>1 DEF x, y
  <2> QED BY <2>3, <2>6, <2>7, <2>8
<1>9. ASSUME startRefresh(e) PROVE Running' /\ Adds
  <2>1. PICK p \in Free :
          queue' = (queue \ {e})
                     \cup {Event(p, e.time + REFRESHING_TIME, MEM, MEM)}
    BY <1>9, startRefreshEffect
  <2>2. Running /\ e.time + REFRESHING_TIME \in Nat
    BY <1>3, <1>9, MemoryAssumption DEF startRefresh
  <2>3. Running'
    BY <1>9, <2>2, startRefreshEffect DEF Running
  <2> QED BY <1>2, <1>4, <2>1, <2>2, <2>3
<1>10. ASSUME endRefresh(e) PROVE Running' /\ Adds
  <2>1. PICK p \in Free :
          queue' = (queue \ {e})
                     \cup {Event(p, e.time + REFRESHING_INTERVAL, MEM, MEM)}
    BY <1>10, endRefreshEffect
  <2>2. Running /\ e.time + REFRESHING_INTERVAL \in Nat
    BY <1>3, <1>10, MemoryAssumption DEF endRefresh
  <2>3. Running'
    BY <1>10, <2>2, endRefreshEffect DEF Running
  <2> QED BY <1>2, <1>4, <2>1, <2>2, <2>3
<1>11. ASSUME PostponeRequest(e) PROVE Running' /\ Adds
  <2> DEFINE t == refreshing_phase_started_at + REFRESHING_TIME
  <2>1. PICK c \in CPUs, p \in Free :
          queue' = (queue \ {e}) \cup {Event(p, t, c, MEM)}
    BY <1>11, PostponeEffect
  <2>2. Running /\ t \in Nat
    BY <1>3, <1>11, PostponeEffect DEF PostponeRequest
  <2>3. Running'
    BY <1>11, <2>2, PostponeEffect DEF Running
  <2> HIDE DEF t
  <2> QED BY <1>2, <1>4, <2>1, <2>2, <2>3
<1>12. ASSUME onReadRequest(e) PROVE Running' /\ Adds
  <2>1. PICK c \in CPUs, p \in Free, t \in Nat :
          queue' = (queue \ {e}) \cup {Event(p, t, MEM, c)}
    BY <1>12, onReadRequestEffect
  <2>2. Running
    BY <1>3, <1>12 DEF onReadRequest
  <2>3. Running'
    BY <1>12, <2>2, onReadRequestEffect DEF Running
  <2> QED BY <1>2, <1>4, <2>1, <2>3
<1>13. ASSUME onOtherRequest(e) PROVE Running' /\ Adds
  <2>1. queue' = (queue \ {e}) \cup {}
    BY <1>13, onOtherRequestEffect
  <2>2. Running
    BY <1>3, <1>13 DEF onOtherRequest
  <2>3. Running'
    BY <1>13, <2>2, onOtherRequestEffect DEF Running
  <2>4. AtMostTwo({})
    BY DEF AtMostTwo
  <2> QED BY <2>1, <2>3, <2>4
<1> HIDE DEF Adds
<1>14. (~Running' /\ queue' = queue) \/ (Running' /\ Adds)
  BY <1>1, <1>5, <1>6, <1>7, <1>8, <1>9, <1>10, <1>11, <1>12, <1>13
     DEF CPUStep, MemoryStep
<1> QED BY <1>14 DEF Adds

(* The root of a heap is one of its first events. *)
LEMMA TopIsFirst ==
  ASSUME NEW E, Times(E), NEW v, Heap(E, v), Len(v) > 0
  PROVE  top(v) \in ToSet(v) /\ \A e \in ToSet(v) : top(v).time <= e.time
<1>1. v \in Seq(E) /\ Len(v) \in Nat /\ \A i \in 1 .. Len(v) : v[i].time \in Nat
  BY DEF Heap, Times
<1> DEFINE T == {i \in 1 .. Len(v) : ~(v[1].time <= v[i].time)}
<1>2. ASSUME T # {} PROVE FALSE
  <2>1. PICK i \in T : \A k \in T : i <= k
    <3>1. T \in SUBSET Nat
      OBVIOUS
    <3> HIDE DEF T
    <3> QED BY <1>2, <3>1, LeastNat
  <2>2. i \in 2 .. Len(v)
    BY <1>1, <2>1
  <2> DEFINE k == i \div 2
  <2>3. k \in 1 .. Len(v) /\ k < i
    BY <2>2, Halves
  <2>4. v[k].time <= v[i].time
    BY <2>2 DEF Heap
  <2> HIDE DEF k
  <2>5. k \notin T
    BY <2>1, <2>3
  <2>6. v[1].time <= v[k].time
    BY <2>3, <2>5
  <2>7. 1 \in 1 .. Len(v)
    BY <1>1
  <2> QED BY <1>1, <2>1, <2>3, <2>4, <2>6, <2>7
<1>3. \A e \in ToSet(v) : \E i \in 1 .. Len(v) : e = v[i]
  BY <1>1 DEF ToSet
<1>4. \A i \in 1 .. Len(v) : v[1].time <= v[i].time
  BY <1>2
<1>5. v[1] \in ToSet(v)
  BY <1>1 DEF ToSet
<1> QED BY <1>3, <1>4, <1>5 DEF top

LEMMA InitHInv == HeapInit => HInv
<1> SUFFICES ASSUME HeapInit PROVE HInv
  OBVIOUS
<1>1. IInv /\ queue \subseteq EventType
  BY InitIInv DEF HeapInit, IInv, TypeOK
<1>2. IsFiniteSet(queue)
  <2> DEFINE f == [e \in queue |-> e.source]
  <2>1. \A e \in queue : e.source \in CPUs \cup {MEM}
    BY <1>1 DEF EventType
  <2>2. \A e, g \in queue : e.source = g.source => e = g
    BY InitialQueue DEF HeapInit, Init
  <2>3. f \in Injection(queue, CPUs \cup {MEM})
    BY <2>1, <2>2 DEF Injection, IsInjective
  <2>4. IsFiniteSet(CPUs \cup {MEM})
    BY HeapAssumption, FS_AddElement
  <2> HIDE DEF f
  <2> QED BY <2>3, <2>4, FS_Injection
<1>3. PICK order \in SetToSeqs(queue) : heap = insertAll(<<>>, order)
  BY DEF HeapInit
<1>4. /\ order \in Seq(EventType) /\ DistinctUpTo(order, Len(order))
      /\ ToSet(order) = queue
  BY <1>1, <1>2, ListsOfSet
<1>5. Heap(EventType, <<>>) /\ ToSet(<<>>) = {}
  BY EmptyHeap
<1>6. DistinctUpTo(order, Len(order)) /\ ToSet(order) \cap ToSet(<<>>) = {}
  BY <1>4, <1>5
<1>7. PICK empty : empty = <<>>
  OBVIOUS
<1>8. Heap(EventType, empty)
  BY <1>5, <1>7
<1>9. ToSet(empty) = {} /\ heap = insertAll(empty, order)
  BY <1>3, <1>5, <1>7
<1>10. ToSet(order) \cap ToSet(empty) = {}
  BY <1>6, <1>7
<1>11. order \in Seq(EventType) /\ DistinctUpTo(order, Len(order))
  BY <1>4
<1>12. /\ Heap(EventType, insertAll(empty, order))
       /\ ToSet(insertAll(empty, order)) = ToSet(empty) \cup ToSet(order)
  BY <1>8, <1>10, <1>11, EventTimes, insertAllEffect
<1> QED BY <1>1, <1>4, <1>9, <1>12 DEF HInv

(* run() dispatches a pending event. *)
LEMMA TopIsPending ==
  ASSUME HInv, heap # <<>>
  PROVE  /\ top(heap) \in queue /\ Len(heap) > 0
         /\ \A e \in queue : top(heap).time <= e.time
<1>1. Len(heap) > 0
  BY DEF HInv, Heap
<1> QED BY <1>1, EventTimes, TopIsFirst DEF HInv

LEMMA HeapTickIsTick ==
  ASSUME HInv, HeapTick
  PROVE  tick
  BY TopIsPending DEF HeapTick, tick

LEMMA HeapTickHeap ==
  ASSUME HInv, HeapTick
  PROVE  Heap(EventType, heap') /\ ToSet(heap') = queue'
<1> DEFINE e == top(heap)
<1>1. /\ e \in queue /\ Len(heap) > 0 /\ notify_all(e)
      /\ heap' = IF Running' THEN insertAll(pop(heap), InOrderSent(queue' \ queue))
                             ELSE heap
  BY TopIsPending DEF HeapTick
<1>2. IInv /\ Heap(EventType, heap) /\ ToSet(heap) = queue
  BY DEF HInv
<1> HIDE DEF e
<1>3. CASE ~Running' /\ queue' = queue
  BY <1>1, <1>2, <1>3
<1>4. ASSUME NEW new \in SUBSET EventType, Running',
             queue' = (queue \ {e}) \cup new,
             \A x \in new : x.ptr \in Free,
             AtMostTwo(new)
      PROVE  Heap(EventType, heap') /\ ToSet(heap') = queue'
  <2> DEFINE v == pop(heap)
             events == InOrderSent(new)
  <2>1. new \cap queue = {}
    BY <1>4, FreeIsFree
  <2>2. queue' \ queue = new
    BY <1>4, <2>1
  <2>3. heap' = insertAll(v, events)
    BY <1>1, <1>4, <2>2
  <2>4. Heap(EventType, v) /\ ToSet(v) = queue \ {e}
    BY <1>1, <1>2, EventTimes, popEffect DEF top, e
  <2>5. /\ events \in Seq(EventType) /\ DistinctUpTo(events, Len(events))
        /\ ToSet(events) = new
    BY <1>4, OrderOfNewEvents
  <2> HIDE DEF v, events
  <2>6. /\ Heap(EventType, insertAll(v, events))
        /\ ToSet(insertAll(v, events)) = (queue \ {e}) \cup new
    BY <2>1, <2>4, <2>5, EventTimes, insertAllEffect
  <2> QED BY <1>4, <2>3, <2>6
<1> QED BY <1>1, <1>2, <1>3, <1>4, TickAdds

LEMMA NextHInv == HInv /\ [HeapNext]_hvars => HInv' /\ [Next]_vars
<1> SUFFICES ASSUME HInv, [HeapNext]_hvars PROVE HInv' /\ [Next]_vars
  OBVIOUS
<1>1. CASE HeapTick
  <2>1. Next
    BY <1>1, HeapTickIsTick DEF Next
  <2>2. IInv'
    BY <2>1, NextIInv DEF HInv
  <2>3. Heap(EventType, heap') /\ ToSet(heap') = queue'
    BY <1>1, HeapTickHeap
  <2> QED BY <2>1, <2>2, <2>3 DEF HInv
<1>2. CASE UNCHANGED hvars
  <2>1. UNCHANGED vars /\ heap' = heap
    BY <1>2 DEF hvars
  <2>2. IInv'
    BY <2>1, NextIInv DEF HInv
  <2>3. queue' = queue
    BY <2>1 DEF vars, systemVars
  <2> QED BY <2>1, <2>2, <2>3 DEF HInv
<1> QED BY <1>1, <1>2 DEF HeapNext, Exited, hvars

-----------------------------------------------------------------------------
(* The results *)

(* The inductive invariant: the vector is a heap of the pending events. *)
THEOREM HeapInvariance == HeapSpec => []HInv
<1>1. HInv /\ [HeapNext]_hvars => HInv'
  BY NextHInv
<1> QED BY <1>1, InitHInv, PTL DEF HeapSpec

(* Every behaviour of the simulator with the library's heap is one of the  *)
(* simulator whose queue is a set: what is proved of Simulator holds of    *)
(* the program as it is built. *)
THEOREM HeapImplements == HeapSpec => Spec
<1>1. HeapInit => Init
  BY DEF HeapInit
<1> QED BY <1>1, HeapInvariance, NextHInv, PTL DEF HeapSpec, Spec

LEMMA HInvHeapIsTheQueue == HInv => HeapIsTheQueue
<1> SUFFICES ASSUME HInv PROVE HeapIsTheQueue
  OBVIOUS
<1>1. /\ heap \in Seq(EventType) /\ DistinctUpTo(heap, Len(heap))
      /\ ToSet(heap) = queue /\ Len(heap) \in Nat
      /\ \A i \in 2 .. Len(heap) : heap[i \div 2].time <= heap[i].time
  BY DEF HInv, Heap
<1>2. heap \in Bijection(1 .. Len(heap), queue)
  <2>1. heap \in [1 .. Len(heap) -> queue]
    BY <1>1 DEF ToSet
  <2>2. \A e \in queue : \E i \in 1 .. Len(heap) : heap[i] = e
    BY <1>1 DEF ToSet
  <2>3. \A i, j \in 1 .. Len(heap) : heap[i] = heap[j] => i = j
    BY <1>1 DEF DistinctUpTo
  <2> QED BY <2>1, <2>2, <2>3 DEF Bijection, Injection, Surjection, IsInjective
<1>3. Cardinality(queue) = Len(heap)
  BY <1>1, <1>2, FS_CountingElements DEF ExistsBijection
<1> QED BY <1>1, <1>3 DEF HeapIsTheQueue

(* The heap holds the pending events, each of them once and in the order   *)
(* of a heap, through every sequence of pushes and pops. *)
THEOREM HeapIsTheQueueHolds == HeapSpec => []HeapIsTheQueue
  BY HeapInvariance, HInvHeapIsTheQueue, PTL

(* The event that run() takes from the heap is pending, and due first. *)
THEOREM TopIsDueFirst ==
  HeapSpec => [](heap # <<>> => /\ top(heap) \in queue
                                /\ \A e \in queue : top(heap).time <= e.time)
<1>1. HInv => (heap # <<>> => /\ top(heap) \in queue
                              /\ \A e \in queue : top(heap).time <= e.time)
  BY TopIsPending
<1> QED BY <1>1, HeapInvariance, PTL

LEMMA HInvPopIgnoresFreedEvent == HInv => PopIgnoresFreedEvent
<1> SUFFICES ASSUME HInv,
                    NEW garbage \in {0} \cup UNION {{e.time, e.time + 1} : e \in queue}
             PROVE  pop([heap EXCEPT ![1].time = garbage]) = pop(heap)
  BY DEF PopIgnoresFreedEvent
<1>1. heap \in Seq(EventType) /\ queue \subseteq EventType
  BY DEF HInv, Heap, IInv, TypeOK
<1>2. garbage \in Nat
  BY <1>1 DEF EventType
<1>3. CASE heap = <<>>
  <2>1. [heap EXCEPT ![1].time = garbage] = heap
    BY <1>3
  <2> QED BY <2>1
<1>4. CASE heap # <<>>
  <2> DEFINE a == [heap[1] EXCEPT !.time = garbage]
  <2>1. Len(heap) > 0 /\ heap[1] \in EventType
    BY <1>1, <1>4
  <2>2. a \in EventType
    BY <1>2, <2>1 DEF EventType
  <2>3. [heap EXCEPT ![1].time = garbage] = [heap EXCEPT ![1] = a]
    BY <1>1, <2>1
  <2> HIDE DEF a
  <2>4. pop([heap EXCEPT ![1] = a]) = pop(heap)
    BY <1>1, <2>1, <2>2, popIgnoresRoot
  <2> QED BY <2>3, <2>4
<1> QED BY <1>3, <1>4

(* What the freed memory under the root's pointer holds never matters. *)
THEOREM PopIgnoresFreedEventHolds == HeapSpec => []PopIgnoresFreedEvent
  BY HeapInvariance, HInvPopIgnoresFreedEvent, PTL
====
