---------------------------- MODULE TimingProofs ----------------------------
(***************************************************************************)
(* Proof that the time the simulator prints, for a program of one CPU, is  *)
(* one that ReferenceTiming computes request by request.                   *)
(*                                                                         *)
(* It goes by the inductive invariant TInv: the refreshing phases are on   *)
(* schedule, and at every moment the CPU is about to go on when the        *)
(* reference says, or its request is on its way to the memory and will be  *)
(* served when the reference says.  That a request which ties with the     *)
(* refresh timer comes out of the heap right after it needs the contents   *)
(* of the heap, of at most three events; the module starts with those.     *)
(***************************************************************************)
EXTENDS HeapProofs

-----------------------------------------------------------------------------
(* Heaps of at most three events *)

LEMMA HalfOfTwo == 2 \div 2 = 1 /\ 3 \div 2 = 1
  OBVIOUS

(* An event that is due no earlier than the root stays below it. *)
LEMMA pushBelowRoot ==
  ASSUME NEW E, NEW v \in Seq(E), Len(v) = 1 \/ Len(v) = 2, NEW x \in E,
         ~(v[1].time > x.time)
  PROVE  push(v, x) = Append(v, x)
<1> DEFINE w == Append(v, x)
           n == Len(v)
<1>1. n = 1 \/ n = 2
  OBVIOUS
<1>2. w \in Seq(E) /\ Len(w) = n + 1 /\ w[1] = v[1] /\ w[n + 1] = x
  OBVIOUS
<1> HIDE DEF w, n
<1>3. /\ n + 1 > 1 /\ (n + 1) \div 2 = 1
      /\ n + 1 \in 1 .. Len(w) /\ Len(w) \in Nat
  BY <1>1, <1>2, HalfOfTwo
<1>4. PICK f : /\ Climbed(w, x, Len(w), f)
               /\ \A hole : push_heap(w, hole, x) = f[hole]
  BY <1>3, push_heapIsClimbed
<1>5. f[n + 1] = [w EXCEPT ![n + 1] = x]
  BY <1>2, <1>3, <1>4 DEF Climbed, Climb, comparator
<1>6. [w EXCEPT ![n + 1] = x] = w
  BY <1>2
<1>7. push(v, x) = f[n + 1]
  BY <1>4 DEF push, w, n
<1> QED BY <1>5, <1>6, <1>7 DEF w

LEMMA AppendElements ==
  ASSUME NEW E, NEW v \in Seq(E), NEW x \in E
  PROVE  /\ Append(v, x) \in Seq(E) /\ Len(Append(v, x)) = Len(v) + 1
         /\ Append(v, x)[Len(v) + 1] = x
         /\ \A i \in 1 .. Len(v) : Append(v, x)[i] = v[i]
  OBVIOUS

LEMMA AppendKeepsFirst ==
  ASSUME NEW E, NEW v \in Seq(E), NEW x \in E, 1 <= Len(v)
  PROVE  Append(v, x)[1] = v[1]
  OBVIOUS

(* An event that is due before the only one becomes the root. *)
LEMMA pushOverRoot ==
  ASSUME NEW E, NEW v \in Seq(E), Len(v) = 1, NEW x \in E, v[1].time > x.time
  PROVE  push(v, x) = <<x, v[1]>>
<1> DEFINE w == Append(v, x)
           n == Len(v)
<1>a. n = 1
  OBVIOUS
<1>1. w \in Seq(E) /\ Len(w) = n + 1 /\ w[1] = v[1] /\ w[n + 1] = x
  <2>1. 1 <= Len(v)
    BY <1>a
  <2> HIDE DEF n
  <2>2. w \in Seq(E)
    BY AppendElements
  <2>3. Len(w) = n + 1
    BY AppendElements DEF n
  <2>4. w[n + 1] = x
    BY AppendElements DEF n
  <2>5. w[1] = v[1]
    BY <2>1, AppendKeepsFirst, Zenon
  <2> QED BY <2>2, <2>3, <2>4, <2>5
<1>b. push(v, x) = push_heap(w, n + 1, x)
  BY DEF push
<1> HIDE DEF w, n
<1>2. /\ Len(w) = 2 /\ Len(w) \in Nat /\ w[2] = x
      /\ push(v, x) = push_heap(w, 2, x)
  BY <1>a, <1>b, <1>1
<1>3. PICK f : /\ Climbed(w, x, Len(w), f)
               /\ \A hole : push_heap(w, hole, x) = f[hole]
  BY <1>1, <1>2, push_heapIsClimbed
<1>4. f[1] = Climb(w, x, f, 1) /\ f[2] = Climb(w, x, f, 2)
  BY <1>2, <1>3 DEF Climbed
<1>5. f[1] = [w EXCEPT ![1] = x]
  BY <1>4 DEF Climb
<1>6. f[2] = [f[1] EXCEPT ![2] = v[1]]
  <2>1. 2 > 1 /\ comparator(w[2 \div 2], x) /\ w[2 \div 2] = v[1]
    BY <1>1, HalfOfTwo DEF comparator
  <2> QED BY <1>4, <2>1, HalfOfTwo DEF Climb
<1>7. f[2] = <<x, v[1]>>
  <2>1. w = <<v[1], x>>
    <3>1. w \in Seq(E) /\ Len(w) = 2 /\ w[1] = v[1] /\ w[2] = x
      BY <1>1, <1>2
    <3> QED BY <3>1
  <2>2. f[1] = <<x, x>>
    BY <1>5, <2>1
  <2> QED BY <1>6, <2>2
<1> QED BY <1>2, <1>3, <1>7

LEMMA push_heapBelowRoot ==
  ASSUME NEW E, NEW u \in Seq(E), NEW x, ~(u[1].time > x.time)
  PROVE  Len(u) = 2 => push_heap(u, 2, x) = [u EXCEPT ![2] = x]
<1>1. PICK f : /\ Climbed(u, x, Len(u), f)
               /\ \A hole : push_heap(u, hole, x) = f[hole]
  BY push_heapIsClimbed
<1>2. Len(u) = 2 => f[2] = Climb(u, x, f, 2)
  BY <1>1 DEF Climbed
<1> QED BY <1>1, <1>2, HalfOfTwo DEF Climb, comparator

(* Of two events below the root, the second is due no earlier. *)
LEMMA popThree ==
  ASSUME NEW E, NEW v \in Seq(E), Len(v) = 3, ~(v[2].time > v[3].time)
  PROVE  pop(v) = <<v[2], v[3]>>
<1> DEFINE w == Front(v)
           x == Last(v)
<1>a. Len(v) > 0 /\ Len(v) > 1
  OBVIOUS
<1>1. /\ w \in Seq(E) /\ Len(w) = 2 /\ x = v[3] /\ x \in E
      /\ w[1] = v[1] /\ w[2] = v[2]
  <2>1. /\ w \in Seq(E) /\ Len(w) = Len(v) - 1 /\ x = v[Len(v)] /\ x \in E
        /\ \A i \in 1 .. Len(v) - 1 : w[i] = v[i]
    BY <1>a, FrontLast
  <2> HIDE DEF w, x
  <2> QED BY <2>1
<1>2. PICK f : Sunken(w, 1, f) /\ pop(v) = push_heap(f[1].vector, f[1].hole, x)
  BY <1>a, popIsSunken
<1> HIDE DEF w, x
<1>3. firstChild(w, 1) = 2
  BY <1>1 DEF firstChild
<1>b. f[1] = Sink(w, f, 1) /\ f[2] = Sink(w, f, 2)
  <2>1. 1 \in 1 .. Len(w) /\ 2 \in 1 .. Len(w)
    BY <1>1
  <2> QED BY <1>2, <2>1 DEF Sunken
<1>4. f[2] = [vector |-> w, hole |-> 2]
  BY <1>1, <1>b DEF Sink
<1>5. f[1] = [f[2] EXCEPT !.vector[1] = w[2]]
  <2>1. ~(2 * 1 > Len(w))
    BY <1>1
  <2> QED BY <1>3, <1>b, <2>1 DEF Sink
<1> DEFINE u == <<v[2], v[2]>>
<1>6. f[1] = [vector |-> u, hole |-> 2]
  <2>1. w = <<v[1], v[2]>>
    BY <1>1
  <2>2. [w EXCEPT ![1] = w[2]] = u
    BY <2>1
  <2>3. f[1] = [vector |-> [w EXCEPT ![1] = w[2]], hole |-> 2]
    BY <1>4, <1>5
  <2> QED BY <2>2, <2>3
<1>7. pop(v) = push_heap(u, 2, x)
  BY <1>2, <1>6
<1>8. u \in Seq(E) /\ Len(u) = 2 /\ Len(u) \in Nat /\ u[1] = v[2]
  <2>1. v[2] \in E
    OBVIOUS
  <2>2. \A y \in E : /\ <<y, y>> \in Seq(E) /\ Len(<<y, y>>) = 2
                     /\ <<y, y>>[1] = y
    OBVIOUS
  <2> HIDE DEF u
  <2>3. u \in Seq(E) /\ Len(u) = 2 /\ u[1] = v[2]
    BY <2>1, <2>2 DEF u
  <2> QED BY <2>3
<1> HIDE DEF u
<1>9. push_heap(u, 2, x) = [u EXCEPT ![2] = x]
  BY <1>1, <1>8, push_heapBelowRoot
<1>10. [u EXCEPT ![2] = x] = <<v[2], v[3]>>
  <2>1. [u EXCEPT ![2] = x] = <<v[2], x>>
    BY DEF u
  <2> QED BY <1>1, <2>1
<1> QED BY <1>7, <1>9, <1>10

(* insert() of one event, and of two. *)
LEMMA insertOne ==
  ASSUME NEW v, NEW x
  PROVE  insertAll(v, <<x>>) = push(v, x)
<1> DEFINE events == <<x>>
<1>1. events \in Seq({x}) /\ Len(events) = 1 /\ events[1] = x
  OBVIOUS
<1> HIDE DEF events
<1>2. PICK f : Folded(v, events, 1, f) /\ insertAll(v, events) = f[1 .. 1]
  <2>1. \E f : /\ Folded(v, events, Len(events), f)
               /\ insertAll(v, events) = f[1 .. Len(events)]
    BY <1>1, insertAllIsFolded
  <2> QED BY <1>1, <2>1
<1>3. 1 .. 1 = {1} /\ {1} \ {1} = {}
  OBVIOUS
<1>4. Max({1}) = 1
  BY <1>3, MaxOfSome
<1>5. f[{}] = v
  BY <1>2 DEF Folded
<1>6. f[{1}] = push(f[{}], events[1])
  BY <1>2, <1>3, <1>4 DEF Folded
<1> QED BY <1>1, <1>2, <1>3, <1>5, <1>6 DEF events

LEMMA insertTwo ==
  ASSUME NEW v, NEW x, NEW y
  PROVE  insertAll(v, <<x, y>>) = push(push(v, x), y)
<1> DEFINE events == <<x, y>>
           S == {x, y}
<1>1. events \in Seq(S) /\ Len(events) = 2 /\ events[1] = x /\ events[2] = y
  OBVIOUS
<1> HIDE DEF events, S
<1>2. PICK f : Folded(v, events, 2, f) /\ insertAll(v, events) = f[1 .. 2]
  <2>1. \E f : /\ Folded(v, events, Len(events), f)
               /\ insertAll(v, events) = f[1 .. Len(events)]
    BY <1>1, insertAllIsFolded
  <2> QED BY <1>1, <2>1
<1>3. 1 .. 2 = {1, 2} /\ {1, 2} \ {2} = {1} /\ {1} \ {1} = {}
  OBVIOUS
<1>4. Max({1}) = 1 /\ Max({1, 2}) = 2
  <2>1. {1} \in SUBSET (1 .. 2) /\ {1, 2} \in SUBSET (1 .. 2)
    OBVIOUS
  <2>2. Max({1}) \in {1}
    BY <2>1, MaxOfSome
  <2>3. Max({1, 2}) \in {1, 2} /\ Max({1, 2}) >= 2
    BY <2>1, MaxOfSome
  <2> QED BY <2>2, <2>3
<1>5. f[{}] = v
  BY <1>2 DEF Folded
<1>6. f[{1}] = push(f[{}], events[1])
  <2>1. {1} \in SUBSET (1 .. 2) /\ {1} # {}
    OBVIOUS
  <2>2. \A s \in SUBSET (1 .. 2) :
          s # {} => f[s] = push(f[s \ {Max(s)}], events[Max(s)])
    BY <1>2 DEF Folded
  <2>3. f[{1}] = push(f[{1} \ {Max({1})}], events[Max({1})])
    BY <2>1, <2>2
  <2> QED BY <1>3, <1>4, <2>3
<1>7. f[{1, 2}] = push(f[{1}], events[2])
  BY <1>2, <1>3, <1>4 DEF Folded
<1> QED BY <1>1, <1>2, <1>3, <1>5, <1>6, <1>7 DEF events

(* The events of a handler, in the order they are inserted in. *)
LEMMA OrderOfOne ==
  ASSUME NEW x
  PROVE  InOrderSent({x}) = <<x>>
<1> DEFINE o == InOrderSent({x})
<1>1. AtMostTwo({x})
  BY DEF AtMostTwo
<1>2. o \in Seq({x}) /\ DistinctUpTo(o, Len(o)) /\ ToSet(o) = {x}
  BY <1>1, OrderOfNewEvents
<1> HIDE DEF o
<1>3. \A i \in 1 .. Len(o) : o[i] = x
  BY <1>2
<1>4. \E i \in 1 .. Len(o) : TRUE
  BY <1>2 DEF ToSet
<1>5. ASSUME Len(o) # 1 PROVE FALSE
  <2>1. 1 \in 1 .. Len(o) /\ 2 \in 1 .. Len(o)
    <3>1. Len(o) \in Nat
      BY <1>2
    <3>2. Len(o) >= 1
      BY <1>4, <3>1
    <3> QED BY <1>5, <3>1, <3>2
  <2>2. o[1] = o[2]
    BY <1>3, <2>1
  <2> QED BY <1>2, <2>1, <2>2 DEF DistinctUpTo
<1>6. o[1] = x
  BY <1>3, <1>5
<1> QED BY <1>2, <1>5, <1>6 DEF o

LEMMA OrderOfTwo ==
  ASSUME NEW x, NEW y, x.ptr \in Nat, y.ptr \in Nat, x.ptr < y.ptr
  PROVE  InOrderSent({x, y}) = <<x, y>>
<1> DEFINE o == InOrderSent({x, y})
<1>1. AtMostTwo({x, y})
  BY DEF AtMostTwo
<1>2. /\ o \in Seq({x, y}) /\ DistinctUpTo(o, Len(o)) /\ ToSet(o) = {x, y}
      /\ \A j, k \in DOMAIN o : j < k => o[j].ptr < o[k].ptr
  BY <1>1, OrderOfNewEvents
<1> HIDE DEF o
<1>3. DOMAIN o = 1 .. Len(o) /\ Len(o) \in Nat
  BY <1>2
<1>4. \A j \in 1 .. Len(o) : o[j] = x \/ o[j] = y
  BY <1>2
<1>5. PICK i \in 1 .. Len(o) : o[i] = x
  BY <1>2, <1>3 DEF ToSet
<1>6. PICK k \in 1 .. Len(o) : o[k] = y
  BY <1>2, <1>3 DEF ToSet
<1>7. i < k
  <2>1. i # k
    BY <1>5, <1>6
  <2>2. ~(k < i)
    BY <1>2, <1>3, <1>5, <1>6
  <2> QED BY <2>1, <2>2
<1>8. \A j \in 1 .. Len(o) : j = i \/ j = k
  BY <1>2, <1>4, <1>5, <1>6 DEF DistinctUpTo
<1>9. i = 1 /\ k = 2 /\ Len(o) = 2
  <2>1. 1 \in 1 .. Len(o) /\ 2 \in 1 .. Len(o)
    BY <1>3, <1>7
  <2>2. i = 1 /\ k = 2
    BY <1>7, <1>8, <2>1
  <2>3. Len(o) \in 1 .. Len(o)
    BY <1>3, <1>7
  <2>4. Len(o) = 1 \/ Len(o) = 2
    BY <1>8, <2>2, <2>3
  <2> QED BY <1>3, <2>1, <2>2, <2>4
<1>10. o = <<x, y>>
  BY <1>2, <1>5, <1>6, <1>9
<1> QED BY <1>10 DEF o

-----------------------------------------------------------------------------
(* The reference *)

Period == REFRESHING_INTERVAL + REFRESHING_TIME

(* When the CPU of the reference issues its next request. *)
GoesOn(s) == IF s.cpu < s.bus THEN s.bus ELSE s.cpu

RowsOpen == IF first_access THEN {} ELSE {last_row_addressed}

States(c) == Reference!StatesAfter(test_requests[c])

(* What the reference computes for the first k of n requests. *)
StatesUpTo(requests, n, f) ==
  f = [k \in 0 .. n |->
         IF k = 0 THEN {[open |-> {}, cpu |-> 0, bus |-> 0]}
         ELSE UNION {Reference!After(s, requests[k]) : s \in f[k - 1]}]

LEMMA StatesExist ==
  ASSUME NEW requests
  PROVE  \A n \in Nat : \E f : StatesUpTo(requests, n, f)
<1> DEFINE T == {n \in Nat : ~\E f : StatesUpTo(requests, n, f)}
           Step(f, k) == IF k = 0 THEN {[open |-> {}, cpu |-> 0, bus |-> 0]}
                         ELSE UNION {Reference!After(s, requests[k]) : s \in f[k - 1]}
<1>0. \A n, f : StatesUpTo(requests, n, f) <=> f = [k \in 0 .. n |-> Step(f, k)]
  BY DEF StatesUpTo
<1>e. \A f, g, k : k # 0 /\ f[k - 1] = g[k - 1] => Step(f, k) = Step(g, k)
  OBVIOUS
<1>z. \A f, g : Step(f, 0) = Step(g, 0)
  OBVIOUS
<1> HIDE DEF Step
<1>1. SUFFICES ASSUME T # {} PROVE FALSE
  OBVIOUS
<1>2. PICK m \in T : \A k \in T : m <= k
  <2>1. T \in SUBSET Nat
    OBVIOUS
  <2> HIDE DEF T
  <2> QED BY <1>1, <2>1, LeastNat
<1>3. CASE m = 0
  <2> DEFINE f == [k \in 0 .. 0 |-> Step(<<>>, 0)]
  <2>1. f = [k \in 0 .. 0 |-> Step(f, k)]
    <3>1. \A k \in 0 .. 0 : Step(f, k) = Step(<<>>, 0)
      <4>1. Step(f, 0) = Step(<<>>, 0)
        BY <1>z
      <4>2. \A k \in 0 .. 0 : k = 0
        OBVIOUS
      <4> HIDE DEF f
      <4> QED BY <4>1, <4>2
    <3> QED BY <3>1
  <2> HIDE DEF f
  <2> QED BY <1>0, <1>2, <1>3, <2>1
<1>4. CASE m # 0
  <2> DEFINE n == m - 1
  <2>1. n \in Nat /\ n \notin T /\ m = n + 1
    BY <1>2, <1>4
  <2>2. PICK f : StatesUpTo(requests, n, f)
    BY <2>1
  <2> HIDE DEF n
  <2> DEFINE g == [k \in 0 .. n + 1 |-> Step(f, k)]
  <2>3. \A k \in 0 .. n : g[k] = f[k]
    <3>1. \A k \in 0 .. n : f[k] = Step(f, k)
      <4>1. f = [k \in 0 .. n |-> Step(f, k)]
        BY <1>0, <2>2
      <4> QED BY <4>1
    <3> QED BY <2>1, <3>1
  <2>4. \A k \in 0 .. n + 1 : Step(g, k) = Step(f, k)
    <3> SUFFICES ASSUME NEW k \in 0 .. n + 1 PROVE Step(g, k) = Step(f, k)
      OBVIOUS
    <3> HIDE DEF g
    <3>1. CASE k = 0
      BY <1>z, <3>1
    <3>2. CASE k # 0
      <4>1. k - 1 \in 0 .. n
        BY <2>1, <3>2
      <4> QED BY <1>e, <2>3, <3>2, <4>1
    <3> QED BY <3>1, <3>2
  <2>5. g = [k \in 0 .. n + 1 |-> Step(g, k)]
    BY <2>4
  <2> HIDE DEF g
  <2> QED BY <1>0, <1>2, <2>1, <2>5
<1> QED BY <1>3, <1>4

LEMMA StatesAre ==
  ASSUME NEW requests, Len(requests) \in Nat
  PROVE  StatesUpTo(requests, Len(requests), Reference!StatesAfter(requests))
<1> DEFINE n == Len(requests)
           f == CHOOSE f : StatesUpTo(requests, n, f)
<1>1. StatesUpTo(requests, n, f)
  BY StatesExist
<1>2. Reference!StatesAfter(requests) = f
  BY DEF Reference!StatesAfter, StatesUpTo
<1> QED BY <1>1, <1>2

LEMMA StatesSteps ==
  ASSUME NEW requests, Len(requests) \in Nat
  PROVE  /\ Reference!StatesAfter(requests)[0] = {[open |-> {}, cpu |-> 0, bus |-> 0]}
         /\ \A k \in 1 .. Len(requests) :
              Reference!StatesAfter(requests)[k] =
                UNION {Reference!After(s, requests[k]) :
                         s \in Reference!StatesAfter(requests)[k - 1]}
<1> DEFINE f == Reference!StatesAfter(requests)
           n == Len(requests)
<1>1. StatesUpTo(requests, n, f)
  BY StatesAre
<1> HIDE DEF f, n
<1>2. n \in Nat
  BY DEF n
<1>3. f[0] = {[open |-> {}, cpu |-> 0, bus |-> 0]}
  BY <1>1, <1>2 DEF StatesUpTo
<1>4. \A k \in 1 .. n : f[k] = UNION {Reference!After(s, requests[k]) : s \in f[k - 1]}
  <2>1. \A k \in 1 .. n : k \in 0 .. n /\ k # 0
    BY <1>2
  <2> DEFINE Step(k) == UNION {Reference!After(s, requests[k]) : s \in f[k - 1]}
  <2>2. \A k \in 0 .. n : f[k] = IF k = 0 THEN {[open |-> {}, cpu |-> 0, bus |-> 0]}
                                 ELSE Step(k)
    BY <1>1 DEF StatesUpTo
  <2> HIDE DEF Step
  <2>3. \A k \in 1 .. n : f[k] = Step(k)
    BY <2>1, <2>2
  <2> QED BY <2>3 DEF Step
<1> QED BY <1>3, <1>4 DEF f, n

(* The memory's timing in the program's terms. *)
LEMMA AfterRead ==
  ASSUME NEW s, NEW r, r.request = "READ"
  PROVE  LET answer == Reference!ServedAt(GoesOn(s) + 1)
                         + Reference!Delay(s.open, RowOfAddress(r.address))
         IN  Reference!After(s, r) = {[open |-> {RowOfAddress(r.address)},
                                       cpu |-> answer, bus |-> answer]}
  BY DEF Reference!After, GoesOn

LEMMA AfterWrite ==
  ASSUME NEW s, NEW r, r.request = "WRITE", NEW free,
         LET due == GoesOn(s) + 1
         IN  \/ free = Reference!ServedAt(due)
             \/ free = Reference!ServedAt(due) + 1 /\ Reference!ServedAt(due) > due
  PROVE  [open |-> {RowOfAddress(r.address)}, cpu |-> GoesOn(s) + 1, bus |-> free]
           \in Reference!After(s, r)
  BY DEF Reference!After, GoesOn

LEMMA DelayIsAccessTime ==
  ASSUME NEW row
  PROVE  Reference!Delay(RowsOpen, row) = AccessTime(row)
  BY MemoryAssumption
     DEF Reference!Delay, RowsOpen, AccessTime, defaultBehavior, optimizedBehavior

(* The cycle of t. *)
LEMMA Cycles ==
  ASSUME NEW p \in Nat \ {0}, NEW cycle \in Nat, NEW t \in Nat,
         cycle * p <= t, t < cycle * p + p
  PROVE  t % p = t - cycle * p /\ t \div p = cycle
  OBVIOUS

LEMMA ServedInCycle ==
  ASSUME NEW cycle \in Nat, NEW t \in Nat,
         cycle * Period <= t, t < cycle * Period + Period
  PROVE  Reference!ServedAt(t) =
           IF t < cycle * Period + REFRESHING_INTERVAL
             THEN t ELSE cycle * Period + Period
<1>1. Period \in Nat \ {0} /\ REFRESHING_INTERVAL \in Nat
  BY MemoryAssumption DEF Period
<1>2. t % Period = t - cycle * Period /\ t \div Period = cycle
  BY <1>1, Cycles
<1>3. cycle * Period \in Nat /\ (cycle + 1) * Period = cycle * Period + Period
  BY <1>1
<1>4. Reference!Period = Period
  BY DEF Reference!Period, Period
<1>5. Reference!ServedAt(t) = IF t % Period < REFRESHING_INTERVAL
                                THEN t ELSE (t \div Period + 1) * Period
  BY <1>4 DEF Reference!ServedAt
<1> DEFINE start == cycle * Period
<1> HIDE DEF start
<1>6. start \in Nat /\ t % Period = t - start
  BY <1>2, <1>3 DEF start
<1>7. t % Period < REFRESHING_INTERVAL <=> t < start + REFRESHING_INTERVAL
  BY <1>1, <1>6
<1> QED BY <1>2, <1>3, <1>5, <1>7 DEF start

-----------------------------------------------------------------------------
(* The heap of a program with one CPU *)

(* A heap with one event, and push() onto small heaps. *)
LEMMA HeapOfOne ==
  ASSUME NEW E, NEW v, Heap(E, v), NEW x, ToSet(v) = {x}
  PROVE  v = <<x>>
<1>1. v \in Seq(E) /\ DistinctUpTo(v, Len(v)) /\ Len(v) \in Nat
  BY DEF Heap
<1>2. \A i \in 1 .. Len(v) : v[i] = x
  BY <1>1 DEF ToSet
<1>3. \E i \in 1 .. Len(v) : TRUE
  BY <1>1 DEF ToSet
<1>4. Len(v) >= 1 /\ 1 \in 1 .. Len(v)
  BY <1>1, <1>3
<1>5. \A n \in Nat : n >= 1 /\ n # 1 => 2 \in 1 .. n
  OBVIOUS
<1>6. ASSUME Len(v) # 1 PROVE FALSE
  <2>1. 2 \in 1 .. Len(v)
    BY <1>1, <1>4, <1>5, <1>6
  <2>2. v[1] = v[2]
    BY <1>2, <1>4, <2>1
  <2> QED BY <1>1, <1>4, <2>1, <2>2 DEF DistinctUpTo
<1>7. v[1] = x
  BY <1>2, <1>4
<1> QED BY <1>1, <1>6, <1>7

LEMMA pushOnOne ==
  ASSUME NEW E, NEW t \in E, NEW x \in E
  PROVE  push(<<t>>, x) = IF t.time > x.time THEN <<x, t>> ELSE <<t, x>>
<1> DEFINE v == <<t>>
<1>1. v \in Seq(E) /\ Len(v) = 1 /\ v[1] = t
  OBVIOUS
<1>2. Append(v, x) = <<t, x>>
  <2> DEFINE w == Append(v, x)
  <2>1. w \in Seq(E) /\ Len(w) = 2 /\ w[2] = x /\ w[1] = t
    BY <1>1, AppendElements
  <2> HIDE DEF w
  <2>2. w = <<t, x>>
    BY <2>1
  <2> QED BY <2>2 DEF w
<1> HIDE DEF v
<1>3. t.time > x.time => push(v, x) = <<x, t>>
  BY <1>1, pushOverRoot
<1>4. ~(t.time > x.time) => push(v, x) = <<t, x>>
  BY <1>1, <1>2, pushBelowRoot
<1> QED BY <1>3, <1>4 DEF v

LEMMA pushOnTwo ==
  ASSUME NEW E, NEW t \in E, NEW u \in E, NEW x \in E, ~(t.time > x.time)
  PROVE  push(<<t, u>>, x) = <<t, u, x>>
<1> DEFINE v == <<t, u>>
<1>1. v \in Seq(E) /\ Len(v) = 2 /\ v[1] = t
  OBVIOUS
<1>2. Append(v, x) = <<t, u, x>>
  <2> DEFINE w == Append(v, x)
  <2>0. 1 \in 1 .. 2 /\ 2 \in 1 .. 2 /\ v[2] = u
    OBVIOUS
  <2>1. w \in Seq(E) /\ Len(w) = 3 /\ w[3] = x /\ w[1] = t /\ w[2] = u
    BY <1>1, <2>0, AppendElements
  <2> HIDE DEF w
  <2>2. w = <<t, u, x>>
    BY <2>1
  <2> QED BY <2>2 DEF w
<1> HIDE DEF v
<1>3. push(v, x) = Append(v, x)
  BY <1>1, pushBelowRoot
<1> QED BY <1>2, <1>3 DEF v

(* The heap after an iteration that sends one event, and two. *)
LEMMA HeapAfterOne ==
  ASSUME HInv, HeapTick, Running', NEW x, x.ptr \in Free,
         queue' = (queue \ {top(heap)}) \cup {x}
  PROVE  heap' = push(pop(heap), x)
<1>1. x \notin queue
  BY FreeIsFree
<1>2. queue' \ queue = {x}
  BY <1>1
<1>3. heap' = insertAll(pop(heap), <<x>>)
  BY <1>2, OrderOfOne DEF HeapTick
<1> QED BY <1>3, insertOne

LEMMA HeapAfterTwo ==
  ASSUME HInv, HeapTick, Running', NEW x, NEW y, x.ptr \in Free, y.ptr \in Free,
         x.ptr < y.ptr, queue' = (queue \ {top(heap)}) \cup {x, y}
  PROVE  heap' = push(push(pop(heap), x), y)
<1>1. x \notin queue /\ y \notin queue
  BY FreeIsFree
<1>2. queue' \ queue = {x, y}
  BY <1>1
<1>3. x.ptr \in Nat /\ y.ptr \in Nat
  BY PointersAssumption DEF Free
<1>4. heap' = insertAll(pop(heap), <<x, y>>)
  BY <1>2, <1>3, OrderOfTwo DEF HeapTick
<1> QED BY <1>4, insertTwo

(* With two events pending, the other one is left. *)
LEMMA OtherIsLeft ==
  ASSUME HInv, heap # <<>>, NEW t, queue = {top(heap), t}, t # top(heap)
  PROVE  pop(heap) = <<t>>
<1>1. Len(heap) > 0 /\ Heap(EventType, heap) /\ ToSet(heap) = queue
  BY TopIsPending DEF HInv
<1>2. Heap(EventType, pop(heap)) /\ ToSet(pop(heap)) = queue \ {heap[1]}
  BY <1>1, EventTimes, popEffect
<1>3. ToSet(pop(heap)) = {t}
  BY <1>2 DEF top
<1> QED BY <1>2, <1>3, HeapOfOne

-----------------------------------------------------------------------------
(* The inductive invariant, for a program with one CPU c *)

(* The refreshing phases follow one another on schedule. *)
OnSchedule(timer) ==
  \E cycle \in Nat :
    LET start == cycle * Period
    IN  IF refreshing_phase
          THEN /\ timer.time = start + Period
               /\ refreshing_phase_started_at = start + REFRESHING_INTERVAL
               /\ start + REFRESHING_INTERVAL <= currentTime
          ELSE /\ timer.time = start + REFRESHING_INTERVAL
               /\ start <= currentTime

(* The next event of c is the beep or the answer with which it goes on, at *)
(* the time the reference gives.                                           *)
GoingOn(c, timer) ==
  \E e \in queue : \E s \in States(c)[op_counter[c]] :
    /\ Beep(e, c) \/ Response(e, c)
    /\ queue = {e, timer}
    /\ s.open = RowsOpen
    /\ e.time = GoesOn(s)
    /\ AllIssued(c) => e.time = s.cpu

Beeps(c) == {e \in queue : Beep(e, c)}

(* Nothing has happened to the request since it was sent: the memory takes *)
(* it before the CPU goes on, but not before the timer of the same tick.   *)
Fresh(c, timer, request, due) ==
  /\ request.time = due
  /\ \A e \in Beeps(c) : e.time = due
  /\ due <= currentTime + 1
  /\ timer.time > due => top(heap) = request
  /\ timer.time <= due =>
       \/ heap = <<timer, request>>
       \/ \E beep \in Beeps(c) : heap = <<timer, request, beep>>

(* The memory has sent it again, for the end of the refreshing phase. *)
Postponed(c, timer, request, due) ==
  /\ request.time = Reference!ServedAt(due) /\ due < request.time
  /\ IF refreshing_phase THEN timer.time = request.time
                         ELSE timer.time > request.time
  /\ \A e \in Beeps(c) : /\ due <= e.time /\ e.time <= request.time + 1
                         /\ AllIssued(c) => e.time = due

(* The request that c issued last is on its way to the memory. *)
Pending(c, timer, request, s) ==
  /\ Request(request, c)
  /\ queue = {request, timer} \cup Beeps(c)
  /\ s.open = RowsOpen
  /\ \E due \in Nat :
       /\ due = GoesOn(s) + 1
       /\ Fresh(c, timer, request, due) \/ Postponed(c, timer, request, due)

Waiting(c, timer) ==
  /\ op_counter[c] > 0
  /\ \E request \in queue : \E s \in States(c)[op_counter[c] - 1] :
       Pending(c, timer, request, s)

OnTime(c) ==
  /\ op_counter[c] \in 0 .. Len(test_requests[c])
  /\ \E timer \in queue :
       /\ RefreshTimer(timer)
       /\ OnSchedule(timer)
       /\ GoingOn(c, timer) \/ Waiting(c, timer)

Timed(c) ==
  /\ Running => OnTime(c)
  /\ exit_status = "success" =>
       currentTime \in Reference!TotalTimes(test_requests[c])

TInv == \A c \in CPUs : CPUs = {c} => Timed(c)

-----------------------------------------------------------------------------
(* The refreshing phases *)

LEMMA PeriodNat ==
  /\ Period \in Nat \ {0} /\ Period = REFRESHING_INTERVAL + REFRESHING_TIME
  /\ REFRESHING_INTERVAL \in Nat \ {0} /\ REFRESHING_TIME \in Nat \ {0}
  /\ \A cycle \in Nat : /\ cycle * Period \in Nat
                        /\ (cycle + 1) * Period = cycle * Period + Period
<1>1. /\ REFRESHING_INTERVAL \in Nat \ {0} /\ REFRESHING_TIME \in Nat \ {0}
      /\ Period = REFRESHING_INTERVAL + REFRESHING_TIME
  BY MemoryAssumption DEF Period
<1>2. Period \in Nat \ {0}
  BY <1>1
<1>3. \A p \in Nat \ {0} : \A cycle \in Nat :
        cycle * p \in Nat /\ (cycle + 1) * p = cycle * p + p
  OBVIOUS
<1> QED BY <1>1, <1>2, <1>3

(* The memory serves a request at once, unless it is in the refreshing     *)
(* phase: then when the timer ends it. *)
LEMMA ServedOnSchedule ==
  ASSUME NEW timer, OnSchedule(timer), currentTime \in Nat,
         NEW t \in Nat, currentTime <= t, t < timer.time
  PROVE  Reference!ServedAt(t) = IF refreshing_phase THEN timer.time ELSE t
<1>1. PICK cycle \in Nat :
        LET start == cycle * Period
        IN  IF refreshing_phase
              THEN /\ timer.time = start + Period
                   /\ start + REFRESHING_INTERVAL <= currentTime
              ELSE /\ timer.time = start + REFRESHING_INTERVAL
                   /\ start <= currentTime
  BY DEF OnSchedule
<1> DEFINE start == cycle * Period
<1>2. start \in Nat
  BY PeriodNat
<1>3. Reference!ServedAt(t) = IF t < start + REFRESHING_INTERVAL
                                THEN t ELSE start + Period
  <2>1. start <= t /\ t < start + Period
    <3> HIDE DEF start
    <3>1. IF refreshing_phase
            THEN /\ timer.time = start + Period
                 /\ start + REFRESHING_INTERVAL <= currentTime
            ELSE /\ timer.time = start + REFRESHING_INTERVAL
                 /\ start <= currentTime
      BY <1>1 DEF start
    <3> QED BY <1>2, <3>1, PeriodNat
  <2> QED BY <2>1, ServedInCycle
<1>4. IF refreshing_phase
        THEN /\ timer.time = start + Period
             /\ start + REFRESHING_INTERVAL <= currentTime
        ELSE /\ timer.time = start + REFRESHING_INTERVAL
             /\ start <= currentTime
  BY <1>1
<1> HIDE DEF start
<1> QED BY <1>2, <1>3, <1>4, PeriodNat

(* The schedule stays the same while the phase lasts. *)
LEMMA SameSchedule ==
  ASSUME NEW timer, OnSchedule(timer), currentTime \in Nat, currentTime' \in Nat,
         currentTime <= currentTime', UNCHANGED refreshVars
  PROVE  OnSchedule(timer)'
<1>1. PICK cycle \in Nat :
        LET start == cycle * Period
        IN  IF refreshing_phase
              THEN /\ timer.time = start + Period
                   /\ refreshing_phase_started_at = start + REFRESHING_INTERVAL
                   /\ start + REFRESHING_INTERVAL <= currentTime
              ELSE /\ timer.time = start + REFRESHING_INTERVAL
                   /\ start <= currentTime
  BY DEF OnSchedule
<1>2. /\ cycle * Period \in Nat
      /\ cycle * Period + REFRESHING_INTERVAL \in Nat
  BY PeriodNat
<1>3. \A t \in Nat : t <= currentTime => t <= currentTime'
  OBVIOUS
<1> QED BY <1>1, <1>2, <1>3 DEF OnSchedule, refreshVars

(* A phase ends, and the next one is scheduled: not for the next tick. *)
LEMMA TimerStep ==
  ASSUME IInv, REFRESHING_INTERVAL > 1, REFRESHING_TIME > 1,
         NEW e \in queue, OnSchedule(e), startRefresh(e) \/ endRefresh(e)
  PROVE  \E p \in Free, t \in Nat :
           /\ queue' = (queue \ {e}) \cup {Event(p, t, MEM, MEM)}
           /\ t > e.time + 1
           /\ OnSchedule(Event(p, t, MEM, MEM))'
<1>1. PICK cycle \in Nat :
        LET start == cycle * Period
        IN  IF refreshing_phase
              THEN /\ e.time = start + Period
                   /\ refreshing_phase_started_at = start + REFRESHING_INTERVAL
              ELSE e.time = start + REFRESHING_INTERVAL
  BY DEF OnSchedule
<1> DEFINE start == cycle * Period
<1>2. start \in Nat /\ (cycle + 1) * Period = start + Period
  BY PeriodNat
<1>3. \A p, t : Event(p, t, MEM, MEM).time = t
  BY DEF Event
<1>4. CASE startRefresh(e)
  <2>1. /\ ~refreshing_phase /\ refreshing_phase' = TRUE
        /\ currentTime' = e.time /\ refreshing_phase_started_at' = e.time
    BY <1>4, startRefreshEffect
  <2>2. PICK p \in Free :
          queue' = (queue \ {e}) \cup {Event(p, e.time + REFRESHING_TIME, MEM, MEM)}
    BY <1>4, startRefreshEffect
  <2>3. e.time = start + REFRESHING_INTERVAL
    BY <1>1, <2>1
  <2> DEFINE t == e.time + REFRESHING_TIME
  <2>4. /\ t \in Nat /\ t > e.time + 1 /\ t = start + Period
        /\ start + REFRESHING_INTERVAL <= e.time
    <3> HIDE DEF start
    <3> QED BY <1>2, <2>3, PeriodNat
  <2> HIDE DEF t
  <2>5. OnSchedule(Event(p, t, MEM, MEM))'
    BY <1>3, <2>1, <2>3, <2>4 DEF OnSchedule
  <2>6. queue' = (queue \ {e}) \cup {Event(p, t, MEM, MEM)}
    BY <2>2 DEF t
  <2> QED BY <2>4, <2>5, <2>6
<1>5. CASE endRefresh(e)
  <2>1. /\ refreshing_phase /\ refreshing_phase' = FALSE
        /\ currentTime' = e.time
    BY <1>5, endRefreshEffect
  <2>2. PICK p \in Free :
          queue' = (queue \ {e})
                     \cup {Event(p, e.time + REFRESHING_INTERVAL, MEM, MEM)}
    BY <1>5, endRefreshEffect
  <2>3. e.time = start + Period
    BY <1>1, <2>1
  <2> DEFINE t == e.time + REFRESHING_INTERVAL
             next == cycle + 1
  <2>4. /\ t \in Nat /\ t > e.time + 1
        /\ t = (start + Period) + REFRESHING_INTERVAL /\ start + Period <= e.time
    <3> HIDE DEF start
    <3> QED BY <1>2, <2>3, PeriodNat
  <2>5. next \in Nat /\ next * Period = start + Period
    BY <1>2
  <2> HIDE DEF t, next, start
  <2>6. OnSchedule(Event(p, t, MEM, MEM))'
    BY <1>3, <2>1, <2>4, <2>5 DEF OnSchedule
  <2>7. queue' = (queue \ {e}) \cup {Event(p, t, MEM, MEM)}
    BY <2>2 DEF t
  <2> QED BY <2>4, <2>6, <2>7
<1> QED BY <1>4, <1>5

-----------------------------------------------------------------------------
(* The invariant is preserved, by the modules that act *)

(* What the invariant says of the pending events: the CPU goes on, or its  *)
(* request waits, and the beeps are those of its writes. *)
LEMMA PendingEvents ==
  ASSUME IInv, Running, NEW c \in CPUs, NEW timer, RefreshTimer(timer)
  PROVE  /\ timer.dest = MEM /\ timer.source = MEM /\ c # MEM
         /\ \A e : Beep(e, c) \/ Response(e, c) => e # timer /\ e.dest = c
         /\ \A e \in queue : Request(e, c) =>
              /\ e # timer /\ e.dest = MEM /\ BusEvents = {e} /\ bus.busy
              /\ op_counter[c] \in DOMAIN test_requests[c]
              /\ \A f \in queue : ~Response(f, c)
              /\ Current(c).request = "READ" =>
                   Beeps(c) = {} /\ Continuations(c) = {e}
              /\ Current(c).request = "WRITE" =>
                   \E beep \in queue : Beeps(c) = {beep}
<1>1. c # MEM /\ timer.dest = MEM /\ timer.source = MEM
  BY BusAssumption DEF RefreshTimer
<1>2. \A e : Beep(e, c) \/ Response(e, c) => e # timer /\ e.dest = c
  BY <1>1 DEF Beep, Response
<1>3. ASSUME NEW e \in queue, Request(e, c)
      PROVE  /\ e # timer /\ e.dest = MEM /\ BusEvents = {e} /\ bus.busy
             /\ op_counter[c] \in DOMAIN test_requests[c]
             /\ \A f \in queue : ~Response(f, c)
             /\ Current(c).request = "READ" =>
                  Beeps(c) = {} /\ Continuations(c) = {e}
             /\ Current(c).request = "WRITE" =>
                  \E beep \in queue : Beeps(c) = {beep}
  <2>1. e # timer /\ e.dest = MEM /\ e.source = c /\ ~Beep(e, c)
    BY <1>1, <1>3 DEF Request, Beep
  <2>2. e \in BusEvents
    BY <1>1, <2>1 DEF BusEvents, BusEvent
  <2>3. BusEvents = {e} /\ bus.busy
    BY <2>2 DEF IInv, BusProtocol
  <2>4. op_counter[c] \in DOMAIN test_requests[c]
    <3>1. PICK d \in CPUs : /\ Request(e, d) \/ Response(e, d)
                            /\ op_counter[d] \in DOMAIN test_requests[d]
      BY <2>2 DEF IInv, BusProtocol
    <3>2. d = c
      BY <1>1, <2>1, <3>1 DEF Request, Response
    <3> QED BY <3>1, <3>2
  <2>5. \A f \in queue : ~Response(f, c)
    <3>1. \A f \in queue : Response(f, c) => f \in BusEvents /\ f # e
      BY <1>1, <2>1 DEF BusEvents, BusEvent, Response
    <3> QED BY <2>3, <3>1
  <2>6. PICK f \in Continuations(c) : Continuations(c) = {f}
    BY DEF IInv, OneContinuation
  <2>7. \A g : g \in Beeps(c) <=> g \in queue /\ Beep(g, c)
    BY DEF Beeps
  <2>8. \A g : g \in Continuations(c) <=> g \in queue /\ (Beep(g, c) \/ CarriesRead(g, c))
    BY DEF Continuations
  <2>9. ASSUME Current(c).request = "READ"
        PROVE  Beeps(c) = {} /\ Continuations(c) = {e}
    <3>1. e \in Continuations(c)
      BY <1>3, <2>8, <2>9 DEF CarriesRead
    <3> QED BY <2>1, <2>6, <2>7, <2>8, <3>1
  <2>10. ASSUME Current(c).request = "WRITE"
         PROVE  \E beep \in queue : Beeps(c) = {beep}
    <3>1. \A g : ~CarriesRead(g, c)
      BY <2>10 DEF CarriesRead
    <3>2. Beeps(c) = Continuations(c) /\ f \in queue
      BY <2>6, <2>7, <2>8, <3>1
    <3> QED BY <2>6, <3>2
  <2> QED BY <2>1, <2>3, <2>4, <2>5, <2>9, <2>10
<1> QED BY <1>1, <1>2, <1>3

(* The first state of the reference, and how one follows from another. *)
LEMMA FirstState ==
  ASSUME IInv, NEW c \in CPUs
  PROVE  States(c)[0] = {[open |-> {}, cpu |-> 0, bus |-> 0]}
<1>1. Len(test_requests[c]) \in Nat
  BY DEF IInv, TypeOK
<1> QED BY <1>1, StatesSteps DEF States

LEMMA NextState ==
  ASSUME IInv, NEW c \in CPUs, NEW k \in 1 .. Len(test_requests[c]),
         NEW s \in States(c)[k - 1],
         NEW next \in Reference!After(s, test_requests[c][k])
  PROVE  next \in States(c)[k]
<1>1. Len(test_requests[c]) \in Nat
  BY DEF IInv, TypeOK
<1> DEFINE f == States(c)
           A(r) == Reference!After(r, test_requests[c][k])
<1>2. f[k] = UNION {A(r) : r \in f[k - 1]}
  BY <1>1, StatesSteps DEF States
<1>3. s \in f[k - 1] /\ next \in A(s)
  OBVIOUS
<1> HIDE DEF f, A
<1>4. next \in f[k]
  BY <1>2, <1>3
<1> QED BY <1>4 DEF f

(* The index of the request on its way, and its state in the reference. *)
LEMMA CurrentRequest ==
  ASSUME IInv, NEW c \in CPUs, op_counter[c] \in 0 .. Len(test_requests[c]),
         op_counter[c] > 0
  PROVE  /\ op_counter[c] \in 1 .. Len(test_requests[c])
         /\ Current(c) = test_requests[c][op_counter[c]]
         /\ Current(c).request \in {"READ", "WRITE"}
<1>1. Len(test_requests[c]) \in Nat /\ test_requests[c] \in Seq(Transaction)
  BY DEF IInv, TypeOK
<1>2. op_counter[c] \in 1 .. Len(test_requests[c])
  BY <1>1
<1>3. test_requests[c][op_counter[c]] \in Transaction
  BY <1>1, <1>2
<1> QED BY <1>2, <1>3 DEF Current, Transaction

(* A CPU that is told to finish prints the time of the reference. *)
LEMMA FinishOnTime ==
  ASSUME IInv, NEW c \in CPUs, OnTime(c), NEW e \in queue, Finish(c, e)
  PROVE  e.time \in Reference!TotalTimes(test_requests[c])
<1>1. Notifies(e, c) /\ AllIssued(c)
  BY DEF Finish
<1>2. Running /\ e.dest = c
  BY <1>1, Dispatched
<1>3. PICK timer \in queue :
        /\ RefreshTimer(timer)
        /\ GoingOn(c, timer) \/ Waiting(c, timer)
  BY DEF OnTime
<1>4. op_counter[c] = Len(test_requests[c])
  <2>1. Len(test_requests[c]) \in Nat
    BY DEF IInv, TypeOK
  <2> QED BY <1>1, <2>1 DEF OnTime, AllIssued
<1>5. \A s \in States(c)[op_counter[c]] :
        s.cpu \in Reference!TotalTimes(test_requests[c])
  BY <1>4 DEF Reference!TotalTimes, States
<1>6. CASE GoingOn(c, timer)
  <2>1. PICK f \in queue, s \in States(c)[op_counter[c]] :
          /\ queue = {f, timer}
          /\ AllIssued(c) => f.time = s.cpu
    BY <1>6 DEF GoingOn
  <2>2. e = f
    BY <1>2, <1>3, <2>1, PendingEvents
  <2> QED BY <1>1, <1>5, <2>1, <2>2
<1>7. CASE Waiting(c, timer)
  <2>1. op_counter[c] > 0
    BY <1>7 DEF Waiting
  <2>2. PICK request \in queue, s \in States(c)[op_counter[c] - 1] :
          Pending(c, timer, request, s)
    BY <1>7 DEF Waiting
  <2>3. Request(request, c) /\ Beep(e, c)
    BY <1>1, <1>2, <1>3, <2>2, DispatchedToCPU, PendingEvents DEF Pending
  <2>4. e \in Beeps(c)
    BY <2>3 DEF Beeps
  <2>5. PICK due \in Nat :
          /\ due = GoesOn(s) + 1
          /\ Fresh(c, timer, request, due) \/ Postponed(c, timer, request, due)
    BY <2>2 DEF Pending
  <2>6. e.time = due
    BY <1>1, <2>4, <2>5 DEF Fresh, Postponed
  <2>7. /\ op_counter[c] \in 1 .. Len(test_requests[c])
        /\ Current(c) = test_requests[c][op_counter[c]]
        /\ Current(c).request \in {"READ", "WRITE"}
    BY <2>1, CurrentRequest DEF OnTime
  <2>8. Current(c).request = "WRITE"
    BY <1>2, <1>3, <2>3, <2>4, <2>7, PendingEvents
  <2> DEFINE next == [open |-> {RowOfAddress(Current(c).address)},
                      cpu |-> GoesOn(s) + 1,
                      bus |-> Reference!ServedAt(due)]
  <2>9. next \in Reference!After(s, Current(c)) /\ next.cpu = due
    BY <2>5, <2>8, AfterWrite
  <2> HIDE DEF next
  <2>10. next \in States(c)[op_counter[c]]
    BY <2>7, <2>9, NextState
  <2> QED BY <1>5, <2>6, <2>9, <2>10
<1> QED BY <1>3, <1>6, <1>7

(* The reference does not change. *)
LEMMA SameStates ==
  ASSUME NEW c, UNCHANGED test_requests
  PROVE  States(c)' = States(c)
  BY DEF States, Reference!StatesAfter, Reference!After

LEMMA SameRows ==
  UNCHANGED <<first_access, last_row_addressed>> => RowsOpen' = RowsOpen
  BY DEF RowsOpen

(* A CPU finds the bus busy only when its request has been postponed. *)
LEMMA BackOffOnTime ==
  ASSUME HInv, NEW c \in CPUs, OnTime(c), heap # <<>>,
         NEW e \in queue, e = top(heap), BackOff(c, e), UNCHANGED memVars
  PROVE  OnTime(c)'
<1>1. Notifies(e, c) /\ ~AllIssued(c) /\ IInv
  BY DEF BackOff, HInv
<1>2. /\ Running /\ e.dest = c /\ e.time \in Nat /\ currentTime \in Nat
      /\ currentTime <= e.time /\ \A f \in queue : e.time <= f.time
  BY <1>1, Dispatched
<1>3. PICK p \in Free : queue' = (queue \ {e}) \cup {Event(p, e.time + 1, c, c)}
  BY <1>1, BackOffEffect
<1>4. /\ Beep(e, c) /\ bus.busy /\ currentTime' = e.time
      /\ UNCHANGED <<exit_status, bus, test_requests, op_counter>>
  BY <1>1, BackOffEffect
<1> DEFINE beep == Event(p, e.time + 1, c, c)
<1>5. Beep(beep, c) /\ beep.time = e.time + 1 /\ beep.dest = c
  BY DEF Beep, Event
<1>6. queue' = (queue \ {e}) \cup {beep}
  BY <1>3
<1> HIDE DEF beep
<1>7. PICK timer \in queue :
        /\ RefreshTimer(timer)
        /\ OnSchedule(timer)
        /\ GoingOn(c, timer) \/ Waiting(c, timer)
  BY DEF OnTime
<1>8. ~GoingOn(c, timer)
  <2> SUFFICES ASSUME NEW f \in queue, queue = {f, timer} PROVE FALSE
    BY DEF GoingOn
  <2>1. f = e
    BY <1>1, <1>2, <1>7, PendingEvents
  <2>2. BusEvents = {}
    BY <1>4, <1>7, <2>1 DEF BusEvents, BusEvent, Beep, RefreshTimer
  <2> QED BY <1>1, <1>2, <1>4, <2>2 DEF IInv, BusProtocol
<1>9. PICK request \in queue, s \in States(c)[op_counter[c] - 1] :
        Pending(c, timer, request, s)
  BY <1>7, <1>8 DEF Waiting
<1>10. /\ Request(request, c) /\ request # timer /\ request.dest = MEM
       /\ timer.dest = MEM /\ c # MEM
  BY <1>1, <1>2, <1>7, <1>9, PendingEvents DEF Pending
<1>11. Beeps(c) = {e}
  BY <1>1, <1>4, DispatchedToCPU DEF Beeps, Continuations
<1>12. queue' = {request, timer, beep} /\ Beeps(c)' = {beep}
  <2>1. queue = {request, timer, e} /\ e # request /\ e # timer
    BY <1>2, <1>9, <1>10, <1>11 DEF Pending
  <2>2. queue' = {request, timer, beep}
    BY <1>6, <2>1
  <2>3. ~Beep(request, c) /\ ~Beep(timer, c)
    BY <1>10 DEF Beep
  <2> QED BY <1>5, <2>2, <2>3 DEF Beeps
<1>13. PICK due \in Nat :
         /\ due = GoesOn(s) + 1
         /\ Fresh(c, timer, request, due) \/ Postponed(c, timer, request, due)
  BY <1>9 DEF Pending
<1>14. request.time \in Nat /\ timer.time \in Nat
  BY <1>1 DEF IInv, TypeOK, EventType
<1>15. Postponed(c, timer, request, due)
  <2> SUFFICES ASSUME Fresh(c, timer, request, due) PROVE FALSE
    BY <1>13
  <2>1. e = request \/ e = timer
    BY <1>14 DEF Fresh, top
  <2> QED BY <1>2, <1>10, <2>1
<1>16. Postponed(c, timer, request, due)'
  <2>1. ~AllIssued(c)'
    BY <1>1, <1>4 DEF AllIssued
  <2>2. due <= e.time /\ e.time <= request.time
    BY <1>2, <1>11, <1>15 DEF Postponed
  <2>3. due <= beep.time /\ beep.time <= request.time + 1
    BY <1>2, <1>5, <1>14, <2>2
  <2>4. refreshing_phase' = refreshing_phase
    BY DEF memVars, refreshVars
  <2> QED BY <1>12, <1>15, <2>1, <2>3, <2>4 DEF Postponed
<1>17. Pending(c, timer, request, s)'
  <2>1. s.open = RowsOpen'
    BY <1>9, SameRows DEF Pending, memVars, accessVars
  <2>2. queue' = {request, timer} \cup Beeps(c)'
    BY <1>12
  <2> QED BY <1>10, <1>13, <1>16, <2>1, <2>2 DEF Pending
<1>18. Waiting(c, timer)'
  <2>1. States(c)' = States(c)
    BY <1>4, SameStates
  <2>2. s \in States(c)'[op_counter'[c] - 1] /\ op_counter'[c] > 0
    BY <1>4, <1>7, <1>8, <1>9, <2>1 DEF Waiting
  <2> QED BY <1>12, <1>17, <2>2 DEF Waiting
<1>19. OnSchedule(timer)'
  BY <1>2, <1>4, <1>7, SameSchedule DEF memVars
<1> QED BY <1>4, <1>7, <1>12, <1>18, <1>19 DEF OnTime

(* A CPU that finds the bus free goes on when the reference does. *)
LEMMA IssuesInTurn ==
  ASSUME HInv, NEW c \in CPUs, OnTime(c), heap # <<>>,
         NEW e \in queue, e = top(heap), Notifies(e, c), BusEvents \subseteq {e}
  PROVE  \E timer \in queue, s \in States(c)[op_counter[c]] :
           /\ RefreshTimer(timer) /\ OnSchedule(timer)
           /\ queue = {e, timer} /\ timer # e
           /\ s.open = RowsOpen /\ e.time = GoesOn(s)
           /\ pop(heap) = <<timer>>
<1>1. IInv /\ Running /\ e.dest = c
  BY Dispatched DEF HInv
<1>2. PICK timer \in queue :
        /\ RefreshTimer(timer)
        /\ OnSchedule(timer)
        /\ GoingOn(c, timer) \/ Waiting(c, timer)
  BY DEF OnTime
<1>3. ~Waiting(c, timer)
  <2> SUFFICES ASSUME NEW request \in queue, Request(request, c) PROVE FALSE
    BY DEF Waiting, Pending
  <2>1. BusEvents = {request} /\ request.dest = MEM /\ c # MEM
    BY <1>1, <1>2, PendingEvents
  <2> QED BY <1>1, <2>1
<1>4. PICK f \in queue, s \in States(c)[op_counter[c]] :
        /\ queue = {f, timer}
        /\ s.open = RowsOpen /\ f.time = GoesOn(s)
  BY <1>2, <1>3 DEF GoingOn
<1>5. timer # e /\ f = e
  BY <1>1, <1>2, <1>4, PendingEvents
<1>6. pop(heap) = <<timer>>
  BY <1>4, <1>5, OtherIsLeft
<1> QED BY <1>2, <1>4, <1>5, <1>6

(* What it sends is due at the next tick. *)
LEMMA IssueReadOnTime ==
  ASSUME HInv, HeapTick, NEW c \in CPUs, OnTime(c), heap # <<>>,
         NEW e \in queue, e = top(heap), IssueRead(c, e), UNCHANGED memVars
  PROVE  OnTime(c)'
<1>1. Notifies(e, c) /\ IInv
  BY DEF IssueRead, HInv
<1>2. /\ Running /\ e.time \in Nat /\ currentTime \in Nat
      /\ currentTime <= e.time /\ c # MEM
  BY <1>1, Dispatched, BusAssumption
<1>3. /\ BusEvents \subseteq {e}
      /\ op_counter[c] \in Nat
      /\ op_counter[c] + 1 \in DOMAIN test_requests[c]
      /\ currentTime' = e.time
      /\ op_counter' = [op_counter EXCEPT ![c] = @ + 1]
      /\ UNCHANGED <<exit_status, test_requests>>
  BY <1>1, IssueReadEffect
<1>4. PICK p \in Free :
        queue' = (queue \ {e}) \cup {Event(p, e.time + 1, c, MEM)}
  BY <1>1, IssueReadEffect
<1> DEFINE request == Event(p, e.time + 1, c, MEM)
           due     == e.time + 1
<1>5. /\ Request(request, c) /\ request.time = due /\ request.ptr \in Free
      /\ request \in EventType /\ request.dest = MEM
  BY <1>2, EventFields DEF Request, Event, Free, EventType
<1>6. queue' = (queue \ {e}) \cup {request} /\ due \in Nat
  BY <1>2, <1>4
<1> HIDE DEF request
<1>7. PICK timer \in queue, s \in States(c)[op_counter[c]] :
        /\ RefreshTimer(timer) /\ OnSchedule(timer)
        /\ queue = {e, timer} /\ timer # e
        /\ s.open = RowsOpen /\ e.time = GoesOn(s)
        /\ pop(heap) = <<timer>>
  BY <1>1, <1>3, IssuesInTurn
<1>8. timer \in EventType /\ timer.dest = MEM
  BY <1>1, <1>7 DEF IInv, TypeOK, RefreshTimer
<1>9. queue' = {request, timer} /\ Beeps(c)' = {}
  <2>1. queue' = {request, timer}
    BY <1>6, <1>7
  <2> QED BY <1>2, <1>5, <1>8, <2>1 DEF Beeps, Beep
<1>10. heap' = IF timer.time > due THEN <<request, timer>> ELSE <<timer, request>>
  <2>1. heap' = push(<<timer>>, request)
    BY <1>2, <1>3, <1>5, <1>6, <1>7, HeapAfterOne DEF Running
  <2> QED BY <1>5, <1>8, <2>1, pushOnOne
<1>11. timer.time \in Nat
  BY <1>8 DEF EventType
<1>12. Fresh(c, timer, request, due)'
  <2>1. due <= currentTime' + 1
    BY <1>2, <1>3
  <2>2. timer.time > due => top(heap') = request
    BY <1>10 DEF top
  <2>3. timer.time <= due => heap' = <<timer, request>>
    BY <1>6, <1>10, <1>11
  <2> QED BY <1>5, <1>9, <2>1, <2>2, <2>3 DEF Fresh
<1>13. Pending(c, timer, request, s)'
  <2>1. s.open = RowsOpen'
    BY <1>7, SameRows DEF memVars, accessVars
  <2>2. queue' = {request, timer} \cup Beeps(c)'
    BY <1>9
  <2> QED BY <1>5, <1>6, <1>7, <1>12, <2>1, <2>2 DEF Pending
<1>14. op_counter'[c] = op_counter[c] + 1 /\ op_counter'[c] - 1 = op_counter[c]
       /\ op_counter'[c] > 0 /\ op_counter'[c] \in 0 .. Len(test_requests'[c])
  <2>1. op_counter'[c] = op_counter[c] + 1
    BY <1>1, <1>3 DEF IInv, TypeOK
  <2>2. Len(test_requests[c]) \in Nat
        /\ DOMAIN test_requests[c] = 1 .. Len(test_requests[c])
    BY <1>1 DEF IInv, TypeOK
  <2> QED BY <1>3, <2>1, <2>2
<1>15. Waiting(c, timer)'
  <2>1. States(c)' = States(c)
    BY <1>3, SameStates
  <2> QED BY <1>7, <1>9, <1>13, <1>14, <2>1 DEF Waiting
<1>16. OnSchedule(timer)'
  BY <1>2, <1>3, <1>7, SameSchedule DEF memVars
<1> QED BY <1>7, <1>9, <1>14, <1>15, <1>16 DEF OnTime

(* The request is sent before the beep, so it comes out of the heap first. *)
LEMMA IssueWriteOnTime ==
  ASSUME HInv, HeapTick, NEW c \in CPUs, OnTime(c), heap # <<>>,
         NEW e \in queue, e = top(heap), IssueWrite(c, e), UNCHANGED memVars
  PROVE  OnTime(c)'
<1>1. Notifies(e, c) /\ IInv
  BY DEF IssueWrite, HInv
<1>2. /\ Running /\ e.time \in Nat /\ currentTime \in Nat
      /\ currentTime <= e.time /\ c # MEM
  BY <1>1, Dispatched, BusAssumption
<1>3. /\ BusEvents \subseteq {e}
      /\ op_counter[c] \in Nat
      /\ op_counter[c] + 1 \in DOMAIN test_requests[c]
      /\ currentTime' = e.time
      /\ op_counter' = [op_counter EXCEPT ![c] = @ + 1]
      /\ UNCHANGED <<exit_status, test_requests>>
  BY <1>1, IssueWriteEffect
<1>4. PICK p \in Free, q \in Free :
        /\ p < q
        /\ queue' = (queue \ {e}) \cup {Event(p, e.time + 1, c, MEM),
                                       Event(q, e.time + 1, c, c)}
  BY <1>1, IssueWriteEffect
<1> DEFINE request == Event(p, e.time + 1, c, MEM)
           beep    == Event(q, e.time + 1, c, c)
           due     == e.time + 1
<1>5. /\ Request(request, c) /\ request.time = due /\ request.ptr = p
      /\ request \in EventType /\ request.dest = MEM
  BY <1>2, EventFields DEF Request, Event, Free, EventType
<1>6. /\ Beep(beep, c) /\ beep.time = due /\ beep.ptr = q
      /\ beep \in EventType
  BY <1>2, EventFields DEF Beep, Event, Free, EventType
<1>7. queue' = (queue \ {e}) \cup {request, beep} /\ due \in Nat
  BY <1>2, <1>4
<1> HIDE DEF request, beep
<1>8. PICK timer \in queue, s \in States(c)[op_counter[c]] :
        /\ RefreshTimer(timer) /\ OnSchedule(timer)
        /\ queue = {e, timer} /\ timer # e
        /\ s.open = RowsOpen /\ e.time = GoesOn(s)
        /\ pop(heap) = <<timer>>
  BY <1>1, <1>3, IssuesInTurn
<1>9. timer \in EventType /\ timer.dest = MEM /\ timer.time \in Nat
  BY <1>1, <1>8 DEF IInv, TypeOK, RefreshTimer, EventType
<1>10. queue' = {request, timer, beep} /\ Beeps(c)' = {beep}
  <2>1. queue' = {request, timer, beep}
    BY <1>7, <1>8
  <2>2. ~Beep(request, c) /\ ~Beep(timer, c)
    BY <1>2, <1>5, <1>9 DEF Beep
  <2> QED BY <1>6, <2>1, <2>2 DEF Beeps
<1>11. heap' = IF timer.time > due THEN <<request, timer, beep>>
                                   ELSE <<timer, request, beep>>
  <2>1. heap' = push(push(<<timer>>, request), beep)
    BY <1>2, <1>3, <1>4, <1>5, <1>6, <1>7, <1>8, HeapAfterTwo DEF Running
  <2>2. CASE timer.time > due
    <3>1. push(<<timer>>, request) = <<request, timer>>
      BY <1>5, <1>9, <2>2, pushOnOne
    <3>2. ~(request.time > beep.time)
      BY <1>5, <1>6, <1>7
    <3> QED BY <1>5, <1>6, <1>9, <2>1, <2>2, <3>1, <3>2, pushOnTwo
  <2>3. CASE ~(timer.time > due)
    <3>1. push(<<timer>>, request) = <<timer, request>>
      BY <1>5, <1>9, <2>3, pushOnOne
    <3>2. ~(timer.time > beep.time)
      BY <1>6, <2>3
    <3> QED BY <1>5, <1>6, <1>9, <2>1, <2>3, <3>1, <3>2, pushOnTwo
  <2> QED BY <2>2, <2>3
<1>12. Fresh(c, timer, request, due)'
  <2>1. due <= currentTime' + 1
    BY <1>2, <1>3
  <2>2. timer.time > due => top(heap') = request
    BY <1>11 DEF top
  <2>3. timer.time <= due => heap' = <<timer, request, beep>>
    BY <1>7, <1>9, <1>11
  <2>4. \A f \in Beeps(c)' : f.time = due
    BY <1>6, <1>10
  <2>5. timer.time <= due => \E f \in Beeps(c)' : heap' = <<timer, request, f>>
    BY <1>10, <2>3
  <2> QED BY <1>5, <2>1, <2>2, <2>4, <2>5 DEF Fresh
<1>13. Pending(c, timer, request, s)'
  <2>1. s.open = RowsOpen'
    BY <1>8, SameRows DEF memVars, accessVars
  <2>2. queue' = {request, timer} \cup Beeps(c)'
    BY <1>10
  <2> QED BY <1>5, <1>7, <1>8, <1>12, <2>1, <2>2 DEF Pending
<1>14. op_counter'[c] = op_counter[c] + 1 /\ op_counter'[c] - 1 = op_counter[c]
       /\ op_counter'[c] > 0 /\ op_counter'[c] \in 0 .. Len(test_requests'[c])
  <2>1. op_counter'[c] = op_counter[c] + 1
    BY <1>1, <1>3 DEF IInv, TypeOK
  <2>2. Len(test_requests[c]) \in Nat
        /\ DOMAIN test_requests[c] = 1 .. Len(test_requests[c])
    BY <1>1 DEF IInv, TypeOK
  <2> QED BY <1>3, <2>1, <2>2
<1>15. Waiting(c, timer)'
  <2>1. States(c)' = States(c)
    BY <1>3, SameStates
  <2> QED BY <1>8, <1>10, <1>13, <1>14, <2>1 DEF Waiting
<1>16. OnSchedule(timer)'
  BY <1>2, <1>3, <1>8, SameSchedule DEF memVars
<1> QED BY <1>8, <1>10, <1>14, <1>15, <1>16 DEF OnTime

(* A request that comes right after the timer is not overtaken by the next *)
(* one, which is at least two ticks away. *)
LEMMA RequestComesFirst ==
  ASSUME HInv, HeapTick, Running', NEW c \in CPUs, NEW timer \in queue,
         NEW request \in queue, NEW due \in Nat, Fresh(c, timer, request, due),
         heap # <<>>, top(heap) = timer, timer # request, timer.time \in Nat,
         NEW next \in EventType, next.ptr \in Free,
         queue' = (queue \ {timer}) \cup {next}, next.time > due
  PROVE  top(heap') = request
<1>1. /\ request \in EventType /\ timer \in EventType /\ request.time = due
      /\ timer.time <= due
      /\ Heap(EventType, heap) /\ ToSet(heap) = queue
  BY DEF HInv, IInv, TypeOK, Fresh
<1>2. heap' = push(pop(heap), next)
  BY HeapAfterOne
<1>3. ~(request.time > next.time)
  BY <1>1 DEF EventType
<1>4. CASE heap = <<timer, request>>
  <2>1. ToSet(heap) = {timer, request}
    <3>1. DOMAIN <<timer, request>> = {1, 2}
      OBVIOUS
    <3> QED BY <1>4, <3>1 DEF ToSet
  <2>2. pop(heap) = <<request>>
    BY <1>1, <2>1, OtherIsLeft
  <2>3. heap' = <<request, next>>
    BY <1>1, <1>2, <1>3, <2>2, pushOnOne
  <2> QED BY <2>3 DEF top
<1>5. ASSUME NEW beep \in Beeps(c), heap = <<timer, request, beep>>
      PROVE  top(heap') = request
  <2>1. beep \in EventType /\ beep.time = due
    BY DEF Beeps, Fresh, HInv, IInv, TypeOK
  <2> DEFINE v == <<timer, request, beep>>
  <2>2. v \in Seq(EventType) /\ Len(v) = 3 /\ v[2] = request /\ v[3] = beep
    BY <1>1, <2>1
  <2> HIDE DEF v
  <2>3. ~(v[2].time > v[3].time)
    BY <1>1, <2>1, <2>2
  <2>4. pop(v) = <<request, beep>>
    BY <2>2, <2>3, popThree
  <2>5. pop(heap) = <<request, beep>>
    BY <1>5, <2>4 DEF v
  <2>6. heap' = <<request, beep, next>>
    BY <1>1, <1>2, <1>3, <2>1, <2>5, pushOnTwo
  <2> QED BY <2>6 DEF top
<1> QED BY <1>1, <1>4, <1>5 DEF Fresh

(* The timer ends a phase and leaves the rest as it is. *)
LEMMA RefreshOnTime ==
  ASSUME HInv, HeapTick, REFRESHING_INTERVAL > 1, REFRESHING_TIME > 1,
         NEW c \in CPUs, OnTime(c), heap # <<>>, NEW e \in queue, e = top(heap),
         startRefresh(e) \/ endRefresh(e), UNCHANGED cpuVars
  PROVE  OnTime(c)'
<1>1. Notifies(e, MEM) /\ isSelfMessage(e) /\ IInv
  BY DEF startRefresh, endRefresh, HInv
<1>2. /\ Running /\ e.time \in Nat /\ currentTime \in Nat
      /\ currentTime <= e.time /\ \A f \in queue : e.time <= f.time
  BY <1>1, Dispatched
<1>3. /\ RefreshTimers = {e} /\ currentTime' = e.time
      /\ UNCHANGED <<accessVars, exit_status>>
      /\ startRefresh(e) => ~refreshing_phase
      /\ endRefresh(e) => refreshing_phase /\ refreshing_phase' = FALSE
  BY <1>1, startRefreshEffect, endRefreshEffect
<1>4. PICK timer \in queue :
        /\ RefreshTimer(timer)
        /\ OnSchedule(timer)
        /\ GoingOn(c, timer) \/ Waiting(c, timer)
  BY DEF OnTime
<1>5. timer = e
  BY <1>3, <1>4 DEF RefreshTimers
<1>6. PICK p \in Free, t \in Nat :
        /\ queue' = (queue \ {e}) \cup {Event(p, t, MEM, MEM)}
        /\ t > e.time + 1
        /\ OnSchedule(Event(p, t, MEM, MEM))'
  BY <1>1, <1>4, <1>5, TimerStep
<1> DEFINE next == Event(p, t, MEM, MEM)
<1>7. /\ RefreshTimer(next) /\ next.time = t /\ next.ptr \in Free
      /\ next \in EventType
  BY EventFields DEF RefreshTimer, Event, Free, EventType
<1>8. queue' = (queue \ {e}) \cup {next} /\ OnSchedule(next)'
  BY <1>6
<1> HIDE DEF next
<1>9. c # MEM /\ next.dest = MEM /\ e.dest = MEM
  BY <1>1, <1>4, <1>5, <1>7, BusAssumption DEF RefreshTimer
<1>10. /\ States(c)' = States(c) /\ RowsOpen' = RowsOpen
       /\ UNCHANGED <<test_requests, op_counter>>
       /\ AllIssued(c)' = AllIssued(c)
  BY <1>3, SameStates, SameRows DEF cpuVars, accessVars, AllIssued
<1>11. CASE GoingOn(c, timer)
  <2>1. PICK f \in queue, s \in States(c)[op_counter[c]] :
          /\ Beep(f, c) \/ Response(f, c)
          /\ queue = {f, timer}
          /\ s.open = RowsOpen
          /\ f.time = GoesOn(s)
          /\ AllIssued(c) => f.time = s.cpu
    BY <1>11 DEF GoingOn
  <2>2. f # e
    BY <1>1, <1>2, <1>4, <1>5, <2>1, PendingEvents
  <2>3. queue' = {f, next}
    BY <1>5, <1>8, <2>1, <2>2
  <2>4. GoingOn(c, next)'
    BY <1>10, <2>1, <2>3 DEF GoingOn
  <2> QED BY <1>7, <1>8, <1>10, <2>3, <2>4 DEF OnTime
<1>12. CASE Waiting(c, timer)
  <2>1. PICK request \in queue, s \in States(c)[op_counter[c] - 1] :
          Pending(c, timer, request, s)
    BY <1>12 DEF Waiting
  <2>2. Request(request, c) /\ request # e /\ request.time \in Nat
    BY <1>1, <1>2, <1>4, <1>5, <2>1, PendingEvents
    DEF Pending, IInv, TypeOK, EventType
  <2>3. Beeps(c)' = Beeps(c) /\ e \notin Beeps(c)
    BY <1>8, <1>9 DEF Beeps, Beep
  <2>4. queue' = {request, next} \cup Beeps(c)
    BY <1>5, <1>8, <2>1, <2>2, <2>3 DEF Pending
  <2>5. PICK due \in Nat :
          /\ due = GoesOn(s) + 1
          /\ Fresh(c, timer, request, due) \/ Postponed(c, timer, request, due)
    BY <2>1 DEF Pending
  <2>6. ASSUME Fresh(c, timer, request, due)
        PROVE  Fresh(c, next, request, due)'
    <3>1. due <= currentTime' + 1 /\ next.time > due
      <4>1. due <= currentTime + 1
        BY <2>6 DEF Fresh
      <4> QED BY <1>2, <1>3, <1>6, <1>7, <4>1
    <3>2. top(heap') = request
      BY <1>2, <1>3, <1>5, <1>7, <1>8, <2>2, <2>6, <3>1, RequestComesFirst
      DEF Running
    <3>3. ~(next.time <= due)
      BY <1>6, <1>7, <3>1
    <3> QED BY <2>3, <2>6, <3>1, <3>2, <3>3 DEF Fresh
  <2>7. ASSUME Postponed(c, timer, request, due)
        PROVE  Postponed(c, next, request, due)'
    <3>1. refreshing_phase
      <4> SUFFICES ASSUME ~refreshing_phase PROVE FALSE
        OBVIOUS
      <4>1. e.time > request.time
        BY <1>5, <2>7 DEF Postponed
      <4> QED BY <1>2, <2>2, <4>1
    <3>2. ~refreshing_phase' /\ e.time = request.time
      BY <1>3, <1>5, <2>7, <3>1 DEF Postponed
    <3>3. next.time > request.time
      BY <1>2, <1>6, <1>7, <3>2
    <3> QED BY <1>10, <2>3, <2>7, <3>2, <3>3 DEF Postponed
  <2>8. Fresh(c, next, request, due)' \/ Postponed(c, next, request, due)'
    BY <2>5, <2>6, <2>7
  <2>9. Pending(c, next, request, s)'
    <3>1. queue' = {request, next} \cup Beeps(c)'
      BY <2>3, <2>4
    <3> QED BY <1>10, <2>1, <2>5, <2>8, <3>1 DEF Pending
  <2>10. Waiting(c, next)'
    BY <1>10, <1>12, <2>1, <2>4, <2>9 DEF Waiting
  <2> QED BY <1>7, <1>8, <1>10, <2>4, <2>10 DEF OnTime
<1> QED BY <1>4, <1>11, <1>12

(* A request that reaches the memory has waited for nothing but the end of *)
(* a refreshing phase. *)
LEMMA RequestReachesMemory ==
  ASSUME HInv, NEW c \in CPUs, CPUs = {c}, OnTime(c), heap # <<>>,
         NEW e \in queue, e = top(heap), Notifies(e, MEM), ~isSelfMessage(e)
  PROVE  /\ op_counter[c] > 0
         /\ Request(e, c)
         /\ \E timer \in queue, s \in States(c)[op_counter[c] - 1], due \in Nat :
              /\ RefreshTimer(timer) /\ OnSchedule(timer) /\ timer.time \in Nat
              /\ queue = {e, timer} \cup Beeps(c) /\ e # timer
              /\ e \notin Beeps(c) /\ timer \notin Beeps(c)
              /\ s.open = RowsOpen
              /\ due = GoesOn(s) + 1
              /\ currentTime <= e.time /\ e.time <= timer.time
              /\ \/ Postponed(c, timer, e, due)
                 \/ /\ e.time = due /\ e.time < timer.time
                    /\ \A beep \in Beeps(c) : beep.time = due
<1>1. /\ IInv /\ Running /\ currentTime <= e.time /\ currentTime \in Nat
      /\ \A f \in queue : e.time <= f.time
  BY Dispatched DEF HInv
<1>2. Request(e, c) /\ BusEvents = {e}
  BY <1>1, DispatchedToMemory
<1>3. PICK timer \in queue :
        /\ RefreshTimer(timer)
        /\ OnSchedule(timer)
        /\ GoingOn(c, timer) \/ Waiting(c, timer)
  BY DEF OnTime
<1>4. e.dest = MEM /\ e # timer /\ c # MEM /\ timer.dest = MEM
  BY <1>1, <1>2, <1>3, PendingEvents
<1>5. ~GoingOn(c, timer)
  <2> SUFFICES ASSUME NEW f \in queue, Beep(f, c) \/ Response(f, c),
                      queue = {f, timer}
               PROVE  FALSE
    BY DEF GoingOn
  <2>1. f.dest = c
    BY DEF Beep, Response
  <2> QED BY <1>4, <2>1
<1>6. op_counter[c] > 0
  BY <1>3, <1>5 DEF Waiting
<1>7. PICK request \in queue, s \in States(c)[op_counter[c] - 1] :
        Pending(c, timer, request, s)
  BY <1>3, <1>5 DEF Waiting
<1>8. request = e
  <2>1. Request(request, c)
    BY <1>7 DEF Pending
  <2>2. BusEvents = {request}
    BY <1>1, <1>3, <2>1, PendingEvents
  <2> QED BY <1>2, <2>2
<1>9. PICK due \in Nat :
        /\ due = GoesOn(s) + 1
        /\ Fresh(c, timer, e, due) \/ Postponed(c, timer, e, due)
  BY <1>7, <1>8 DEF Pending
<1>10. timer.time \in Nat /\ e.time <= timer.time
  BY <1>1 DEF IInv, TypeOK, EventType
<1>11. e \notin Beeps(c) /\ timer \notin Beeps(c)
  BY <1>4 DEF Beeps, Beep
<1>12. ASSUME Fresh(c, timer, e, due)
       PROVE  /\ e.time = due /\ e.time < timer.time
              /\ \A beep \in Beeps(c) : beep.time = due
  <2>1. e.time = due /\ \A beep \in Beeps(c) : beep.time = due
    BY <1>12 DEF Fresh
  <2>2. ~(timer.time <= due)
    <3> SUFFICES ASSUME timer.time <= due PROVE FALSE
      OBVIOUS
    <3>1. top(heap) = timer
      BY <1>12 DEF Fresh, top
    <3> QED BY <1>4, <3>1
  <2> QED BY <1>10, <2>1, <2>2
<1>13. queue = {e, timer} \cup Beeps(c) /\ s.open = RowsOpen
  BY <1>7, <1>8 DEF Pending
<1> QED BY <1>1, <1>2, <1>3, <1>4, <1>6, <1>9, <1>10, <1>11, <1>12, <1>13

(* The memory sends it again for the end of the phase. *)
LEMMA PostponeOnTime ==
  ASSUME HInv, NEW c \in CPUs, CPUs = {c}, OnTime(c), heap # <<>>,
         NEW e \in queue, e = top(heap), PostponeRequest(e), UNCHANGED cpuVars
  PROVE  OnTime(c)'
<1>1. Notifies(e, MEM) /\ ~isSelfMessage(e) /\ IInv
  BY DEF PostponeRequest, HInv
<1>2. /\ Running /\ e.time \in Nat /\ currentTime \in Nat
      /\ currentTime <= e.time /\ c # MEM
  BY <1>1, Dispatched, BusAssumption
<1>3. /\ refreshing_phase /\ currentTime' = e.time
      /\ UNCHANGED <<memVars, bus, exit_status>>
  BY <1>1, PostponeEffect
<1>4. PICK p \in Free, end \in Nat :
        /\ end = refreshing_phase_started_at + REFRESHING_TIME
        /\ queue' = (queue \ {e}) \cup {Event(p, end, c, MEM)}
  <2> DEFINE t == refreshing_phase_started_at + REFRESHING_TIME
  <2>1. t \in Nat /\ \E d \in CPUs, p \in Free :
          queue' = (queue \ {e}) \cup {Event(p, t, d, MEM)}
    BY <1>1, PostponeEffect
  <2> HIDE DEF t
  <2>2. \E p \in Free, end \in Nat :
          end = t /\ queue' = (queue \ {e}) \cup {Event(p, end, c, MEM)}
    BY <2>1
  <2> QED BY <2>2 DEF t
<1> DEFINE request == Event(p, end, c, MEM)
<1>5. Request(request, c) /\ request.time = end /\ request.dest = MEM
  BY DEF Request, Event
<1>6. queue' = (queue \ {e}) \cup {request}
  BY <1>4
<1> HIDE DEF request
<1>7. op_counter[c] > 0
  BY <1>1, RequestReachesMemory
<1>8. PICK timer \in queue, s \in States(c)[op_counter[c] - 1], due \in Nat :
        /\ RefreshTimer(timer) /\ OnSchedule(timer) /\ timer.time \in Nat
        /\ queue = {e, timer} \cup Beeps(c) /\ e # timer
        /\ e \notin Beeps(c) /\ timer \notin Beeps(c)
        /\ s.open = RowsOpen
        /\ due = GoesOn(s) + 1
        /\ \/ Postponed(c, timer, e, due)
           \/ /\ e.time = due /\ e.time < timer.time
              /\ \A beep \in Beeps(c) : beep.time = due
  BY <1>1, RequestReachesMemory
<1>9. end = timer.time
  <2>1. timer \in RefreshTimers
    BY <1>8 DEF RefreshTimers
  <2> QED BY <1>1, <1>2, <1>3, <1>4, <2>1 DEF IInv, RefreshSchedule
<1>10. Beeps(c)' = Beeps(c) /\ queue' = {request, timer} \cup Beeps(c)
  <2>1. Beeps(c)' = Beeps(c)
    BY <1>2, <1>5, <1>6, <1>8 DEF Beeps, Beep
  <2> QED BY <1>6, <1>8, <2>1
<1>11. /\ States(c)' = States(c) /\ RowsOpen' = RowsOpen
       /\ UNCHANGED <<test_requests, op_counter, refreshVars>>
       /\ AllIssued(c)' = AllIssued(c) /\ refreshing_phase' = refreshing_phase
  BY <1>3, SameStates, SameRows
  DEF cpuVars, memVars, accessVars, refreshVars, AllIssued
<1>12. Postponed(c, timer, request, due)'
  <2>1. CASE Postponed(c, timer, e, due)
    <3>1. e.time = timer.time
      BY <1>3, <2>1 DEF Postponed
    <3> QED BY <1>3, <1>5, <1>9, <1>10, <1>11, <2>1, <3>1 DEF Postponed
  <2>2. CASE /\ e.time = due /\ e.time < timer.time
             /\ \A beep \in Beeps(c) : beep.time = due
    <3>1. Reference!ServedAt(due) = timer.time
      BY <1>2, <1>3, <1>8, <2>2, ServedOnSchedule
    <3>2. due < timer.time /\ due <= timer.time + 1
      BY <1>8, <2>2
    <3> QED BY <1>3, <1>5, <1>9, <1>10, <1>11, <2>2, <3>1, <3>2 DEF Postponed
  <2> QED BY <1>8, <2>1, <2>2
<1>13. Pending(c, timer, request, s)'
  <2>1. queue' = {request, timer} \cup Beeps(c)'
    BY <1>10
  <2> QED BY <1>5, <1>8, <1>11, <1>12, <2>1 DEF Pending
<1>14. Waiting(c, timer)'
  BY <1>7, <1>8, <1>10, <1>11, <1>13 DEF Waiting
<1>15. OnSchedule(timer)'
  BY <1>2, <1>3, <1>8, <1>11, SameSchedule
<1> QED BY <1>8, <1>10, <1>11, <1>14, <1>15 DEF OnTime

(* The row of the request is open when the memory has served it. *)
LEMMA RowOpened ==
  ASSUME NEW row, first_access' = FALSE, last_row_addressed' = row
  PROVE  RowsOpen' = {row}
  BY DEF RowsOpen

(* A request that is served reached the memory when the reference says. *)
LEMMA ReachesOnTime ==
  ASSUME NEW timer, OnSchedule(timer), currentTime \in Nat, NEW e, NEW c,
         NEW due \in Nat, currentTime <= e.time, ~refreshing_phase,
         \/ Postponed(c, timer, e, due)
         \/ e.time = due /\ e.time < timer.time
  PROVE  e.time = Reference!ServedAt(due)
  BY ServedOnSchedule DEF Postponed

(* The answer comes after the access time. *)
LEMMA ReadOnTime ==
  ASSUME HInv, NEW c \in CPUs, CPUs = {c}, OnTime(c), heap # <<>>,
         NEW e \in queue, e = top(heap), onReadRequest(e), UNCHANGED cpuVars
  PROVE  OnTime(c)'
<1>1. Notifies(e, MEM) /\ ~isSelfMessage(e) /\ IInv
  BY DEF onReadRequest, HInv
<1>2. /\ Running /\ e.time \in Nat /\ currentTime \in Nat
      /\ currentTime <= e.time /\ c # MEM
  BY <1>1, Dispatched, BusAssumption
<1>3. /\ ~refreshing_phase /\ currentTime' = e.time
      /\ UNCHANGED <<refreshVars, exit_status>>
  BY <1>1, onReadRequestEffect
<1>4. PICK p \in Free, t \in Nat, row \in {RowOfAddress(Current(c).address)} :
        /\ Current(c).request = "READ"
        /\ row = RowOfAddress(Current(c).address)
        /\ t = e.time + AccessTime(row)
        /\ queue' = (queue \ {e}) \cup {Event(p, t, MEM, c)}
        /\ last_row_addressed' = row
        /\ first_access' = FALSE
  <2> DEFINE R == RowOf(CellOf(bus.address))
  <2>1. PICK d \in CPUs, p \in Free, t \in Nat :
          /\ Request(e, d)
          /\ op_counter[d] \in DOMAIN test_requests[d]
          /\ Current(d).request = "READ"
          /\ bus.address = Current(d).address
          /\ t >= e.time
          /\ t = e.time + AccessTime(R)
          /\ queue' = (queue \ {e}) \cup {Event(p, t, MEM, d)}
    BY <1>1, onReadRequestEffect
  <2>2. last_row_addressed' = R /\ first_access' = FALSE
    BY <1>1, onReadRequestEffect
  <2>3. d = c /\ R = RowOfAddress(Current(c).address)
    BY <2>1 DEF RowOfAddress
  <2> HIDE DEF R
  <2>4. \E row \in {RowOfAddress(Current(c).address)} : row = R
    BY <2>3
  <2> QED BY <2>1, <2>2, <2>3, <2>4
<1> DEFINE answer == Event(p, t, MEM, c)
           next   == [open |-> {row}, cpu |-> t, bus |-> t]
<1>5. Response(answer, c) /\ answer.time = t
  BY DEF Response, Event
<1>6. queue' = (queue \ {e}) \cup {answer}
  BY <1>4
<1>7. next.open = {row} /\ next.cpu = t /\ GoesOn(next) = t
  BY DEF GoesOn
<1> HIDE DEF answer
<1>8. op_counter[c] > 0 /\ Request(e, c)
  BY <1>1, RequestReachesMemory
<1>9. PICK timer \in queue, s \in States(c)[op_counter[c] - 1], due \in Nat :
        /\ RefreshTimer(timer) /\ OnSchedule(timer)
        /\ queue = {e, timer} \cup Beeps(c) /\ e # timer
        /\ s.open = RowsOpen
        /\ due = GoesOn(s) + 1
        /\ \/ Postponed(c, timer, e, due)
           \/ e.time = due /\ e.time < timer.time
  BY <1>1, RequestReachesMemory
<1>10. Beeps(c) = {}
  BY <1>1, <1>2, <1>4, <1>8, <1>9, PendingEvents
<1>11. queue' = {answer, timer}
  BY <1>6, <1>9, <1>10
<1>12. /\ op_counter[c] \in 1 .. Len(test_requests[c])
       /\ Current(c) = test_requests[c][op_counter[c]]
  BY <1>1, <1>8, CurrentRequest DEF OnTime
<1>13. next \in States(c)[op_counter[c]]
  <2>1. e.time = Reference!ServedAt(GoesOn(s) + 1)
    <3>1. e.time = Reference!ServedAt(due)
      BY <1>2, <1>3, <1>9, ReachesOnTime
    <3> QED BY <1>9, <3>1
  <2>2. Reference!Delay(s.open, row) = AccessTime(row)
    BY <1>9, DelayIsAccessTime
  <2>3. t = Reference!ServedAt(GoesOn(s) + 1)
              + Reference!Delay(s.open, RowOfAddress(Current(c).address))
    BY <1>4, <2>1, <2>2
  <2>4. next \in Reference!After(s, Current(c))
    BY <1>4, <2>3, AfterRead
  <2> HIDE DEF next
  <2> QED BY <1>1, <1>12, <2>4, NextState
<1> HIDE DEF next
<1>14. /\ States(c)' = States(c) /\ RowsOpen' = {row}
       /\ UNCHANGED <<test_requests, op_counter>>
  BY <1>4, SameStates, RowOpened DEF cpuVars
<1>15. GoingOn(c, timer)'
  BY <1>5, <1>7, <1>11, <1>13, <1>14 DEF GoingOn
<1>16. OnSchedule(timer)'
  BY <1>2, <1>3, <1>9, SameSchedule
<1> QED BY <1>9, <1>11, <1>14, <1>15, <1>16 DEF OnTime

(* A write has let the CPU go on at the next tick; the CPU is back when    *)
(* the write is served, or one tick later if it was postponed.             *)
LEMMA WriteOnTime ==
  ASSUME HInv, NEW c \in CPUs, CPUs = {c}, OnTime(c), heap # <<>>,
         NEW e \in queue, e = top(heap), onOtherRequest(e), UNCHANGED cpuVars
  PROVE  OnTime(c)'
<1>1. Notifies(e, MEM) /\ ~isSelfMessage(e) /\ IInv
  BY DEF onOtherRequest, HInv
<1>2. /\ Running /\ e.time \in Nat /\ currentTime \in Nat
      /\ currentTime <= e.time /\ \A f \in queue : e.time <= f.time
  BY <1>1, Dispatched
<1>3. /\ ~refreshing_phase /\ currentTime' = e.time
      /\ queue' = queue \ {e} /\ first_access' = FALSE
      /\ UNCHANGED <<refreshVars, exit_status>>
  BY <1>1, onOtherRequestEffect
<1>4. PICK row :
        /\ Current(c).request = "WRITE"
        /\ row = RowOfAddress(Current(c).address)
        /\ last_row_addressed' = row
  <2>1. PICK d \in CPUs : /\ Current(d).request = "WRITE"
                          /\ bus.address = Current(d).address
    BY <1>1, onOtherRequestEffect
  <2>2. last_row_addressed' = RowOf(CellOf(bus.address))
    BY <1>1, onOtherRequestEffect
  <2>3. d = c /\ last_row_addressed' = RowOfAddress(Current(c).address)
    BY <2>1, <2>2 DEF RowOfAddress
  <2> QED BY <2>1, <2>3
<1>5. op_counter[c] > 0 /\ Request(e, c)
  BY <1>1, RequestReachesMemory
<1>6. PICK timer \in queue, s \in States(c)[op_counter[c] - 1], due \in Nat :
        /\ RefreshTimer(timer) /\ OnSchedule(timer)
        /\ queue = {e, timer} \cup Beeps(c) /\ e # timer /\ e \notin Beeps(c)
        /\ s.open = RowsOpen
        /\ due = GoesOn(s) + 1
        /\ \/ Postponed(c, timer, e, due)
           \/ /\ e.time = due /\ e.time < timer.time
              /\ \A beep \in Beeps(c) : beep.time = due
  BY <1>1, RequestReachesMemory
<1>7. PICK beep \in queue : Beeps(c) = {beep}
  BY <1>1, <1>2, <1>4, <1>5, <1>6, PendingEvents
<1>8. queue' = {beep, timer} /\ Beep(beep, c) /\ beep.time \in Nat
  <2>1. beep \in Beeps(c)
    BY <1>7
  <2> QED BY <1>1, <1>3, <1>6, <1>7, <2>1 DEF Beeps, IInv, TypeOK, EventType
<1>9. e.time = Reference!ServedAt(due)
  BY <1>2, <1>3, <1>6, ReachesOnTime
<1>10. /\ due <= beep.time
       /\ AllIssued(c) => beep.time = due
       /\ \/ beep.time = e.time
          \/ beep.time = e.time + 1 /\ e.time > due
  <2>1. CASE Postponed(c, timer, e, due)
    <3>1. /\ due < e.time /\ due <= beep.time /\ beep.time <= e.time + 1
          /\ AllIssued(c) => beep.time = due
      BY <1>7, <2>1 DEF Postponed
    <3>2. e.time <= beep.time
      BY <1>2, <1>7
    <3> QED BY <1>2, <1>8, <3>1, <3>2
  <2>2. CASE e.time = due /\ \A b \in Beeps(c) : b.time = due
    BY <1>2, <1>7, <2>2
  <2> QED BY <1>6, <2>1, <2>2
<1> DEFINE free == beep.time
           next == [open |-> {row}, cpu |-> GoesOn(s) + 1, bus |-> free]
<1>11. next.open = {row} /\ next.cpu = due /\ GoesOn(next) = beep.time
  <2>1. next.open = {row} /\ next.cpu = due /\ next.bus = beep.time
    BY <1>6
  <2> HIDE DEF next
  <2> QED BY <1>8, <1>10, <2>1 DEF GoesOn
<1>12. /\ op_counter[c] \in 1 .. Len(test_requests[c])
       /\ Current(c) = test_requests[c][op_counter[c]]
  BY <1>1, <1>5, CurrentRequest DEF OnTime
<1>13. next \in States(c)[op_counter[c]]
  <2>1. \/ free = Reference!ServedAt(GoesOn(s) + 1)
        \/ /\ free = Reference!ServedAt(GoesOn(s) + 1) + 1
           /\ Reference!ServedAt(GoesOn(s) + 1) > GoesOn(s) + 1
    BY <1>6, <1>9, <1>10
  <2> HIDE DEF free
  <2>2. [open |-> {RowOfAddress(Current(c).address)},
         cpu |-> GoesOn(s) + 1, bus |-> free] \in Reference!After(s, Current(c))
    BY <1>4, <2>1, AfterWrite
  <2>3. next \in Reference!After(s, Current(c))
    BY <1>4, <2>2
  <2> HIDE DEF next
  <2> QED BY <1>1, <1>12, <2>3, NextState
<1> HIDE DEF next
<1>14. /\ States(c)' = States(c) /\ RowsOpen' = {row}
       /\ UNCHANGED <<test_requests, op_counter>>
       /\ AllIssued(c)' = AllIssued(c)
  BY <1>3, <1>4, SameStates, RowOpened DEF cpuVars, AllIssued
<1>15. GoingOn(c, timer)'
  BY <1>8, <1>10, <1>11, <1>13, <1>14 DEF GoingOn
<1>16. OnSchedule(timer)'
  BY <1>2, <1>3, <1>6, SameSchedule
<1> QED BY <1>6, <1>8, <1>14, <1>15, <1>16 DEF OnTime

-----------------------------------------------------------------------------
(* The result *)

LEMMA InitTInv ==
  ASSUME HeapInit, OpCounterAtStart \subseteq {0}
  PROVE  TInv
<1> SUFFICES ASSUME NEW c \in CPUs, CPUs = {c} PROVE Timed(c)
  BY DEF TInv
<1>1. /\ IInv /\ Init /\ QueueInit /\ currentTime = 0 /\ exit_status = "running"
      /\ first_access /\ ~refreshing_phase
  BY InitIInv DEF HeapInit, Init, MemoryInit
<1>2. /\ \A f \in queue :
           /\ f.dest = f.source /\ f.source \in {c, MEM}
           /\ f.source = c => f.time = 0
           /\ f.source = MEM => f.time = REFRESHING_INTERVAL
      /\ \A f, g \in queue : f.source = g.source => f = g
      /\ \A m \in {c, MEM} : \E f \in queue : f.source = m
  BY <1>1, InitialQueue DEF EventType
<1>3. PICK beep \in queue : beep.source = c
  BY <1>2
<1>4. PICK timer \in queue : timer.source = MEM
  BY <1>2
<1>5. queue = {beep, timer}
  BY <1>2, <1>3, <1>4
<1>6. op_counter[c] = 0
  BY <1>1 DEF Init, CPUInit
<1> DEFINE s == [open |-> {}, cpu |-> 0, bus |-> 0]
<1>7. s \in States(c)[op_counter[c]]
  BY <1>1, <1>6, FirstState
<1>8. GoingOn(c, timer)
  <2>1. s.open = RowsOpen /\ GoesOn(s) = 0 /\ s.cpu = 0
    BY <1>1 DEF RowsOpen, GoesOn
  <2> HIDE DEF s
  <2> QED BY <1>2, <1>3, <1>5, <1>7, <2>1 DEF GoingOn, Beep
<1>9. OnSchedule(timer)
  <2>1. 0 * Period = 0
    BY PeriodNat
  <2>2. timer.time = 0 + REFRESHING_INTERVAL
    BY <1>2, <1>4, PeriodNat
  <2> QED BY <1>1, <2>1, <2>2 DEF OnSchedule
<1>10. op_counter[c] \in 0 .. Len(test_requests[c])
  <2>1. Len(test_requests[c]) \in Nat
    BY <1>1 DEF IInv, TypeOK
  <2> QED BY <1>6, <2>1
<1>11. RefreshTimer(timer)
  BY <1>2, <1>4 DEF RefreshTimer
<1>12. OnTime(c)
  BY <1>8, <1>9, <1>10, <1>11 DEF OnTime
<1> QED BY <1>1, <1>12 DEF Timed

(* Every step of one handler keeps the program on time. *)
LEMMA TickOnTime ==
  ASSUME HInv, HeapTick, REFRESHING_INTERVAL > 1, REFRESHING_TIME > 1,
         NEW c \in CPUs, CPUs = {c}, OnTime(c), Running'
  PROVE  OnTime(c)'
<1>1. PICK e \in queue : e = top(heap)
  BY TopIsPending DEF HeapTick
<1>2. heap # <<>> /\ notify_all(e)
  BY <1>1 DEF HeapTick
<1>3. \/ CPUStep(c, e) /\ UNCHANGED memVars
      \/ MemoryStep(e) /\ UNCHANGED cpuVars
  BY <1>2 DEF notify_all
<1>4. ~Finish(c, e)
  <2>1. "success" # "running"
    OBVIOUS
  <2> QED BY <2>1 DEF Finish, Exits, Running
<1> QED BY <1>1, <1>2, <1>3, <1>4, BackOffOnTime, IssueReadOnTime,
           IssueWriteOnTime, RefreshOnTime, PostponeOnTime, ReadOnTime,
           WriteOnTime
        DEF CPUStep, MemoryStep

LEMMA StutterOnTime ==
  ASSUME NEW c, UNCHANGED hvars
  PROVE  Timed(c)' <=> Timed(c)
<1>1. UNCHANGED <<currentTime, queue, exit_status, test_requests, op_counter,
                  first_access, last_row_addressed, refreshing_phase,
                  refreshing_phase_started_at, heap>>
  BY DEF hvars, vars, systemVars, cpuVars, memVars, accessVars, refreshVars
<1>2. /\ States(c)' = States(c) /\ RowsOpen' = RowsOpen /\ Beeps(c)' = Beeps(c)
      /\ AllIssued(c)' = AllIssued(c)
  BY <1>1, SameStates, SameRows DEF Beeps, AllIssued
<1>3. \A timer : OnSchedule(timer)' <=> OnSchedule(timer)
  BY <1>1 DEF OnSchedule
<1>4. \A timer : GoingOn(c, timer)' <=> GoingOn(c, timer)
  BY <1>1, <1>2 DEF GoingOn
<1>5. \A timer, request, due :
        /\ Fresh(c, timer, request, due)' <=> Fresh(c, timer, request, due)
        /\ Postponed(c, timer, request, due)' <=> Postponed(c, timer, request, due)
  BY <1>1, <1>2 DEF Fresh, Postponed
<1>6. \A timer : Waiting(c, timer)' <=> Waiting(c, timer)
  BY <1>1, <1>2, <1>5 DEF Waiting, Pending
<1>7. OnTime(c)' <=> OnTime(c)
  BY <1>1, <1>3, <1>4, <1>6 DEF OnTime
<1>8. Reference!TotalTimes(test_requests[c])' = Reference!TotalTimes(test_requests[c])
  BY <1>1 DEF Reference!TotalTimes, Reference!StatesAfter, Reference!After
<1> QED BY <1>1, <1>7, <1>8 DEF Timed, Running

LEMMA NextTInv ==
  ASSUME HInv, TInv, [HeapNext]_hvars, REFRESHING_INTERVAL > 1, REFRESHING_TIME > 1
  PROVE  TInv'
<1> SUFFICES ASSUME NEW c \in CPUs, CPUs = {c} PROVE Timed(c)'
  BY DEF TInv
<1>1. Timed(c)
  BY DEF TInv
<1>2. CASE HeapTick
  <2>1. tick /\ IInv
    BY <1>2, HeapTickIsTick DEF HInv
  <2>2. Running
    BY <2>1 DEF tick, notify_all, CPUStep, Finish, BackOff, IssueRead,
                IssueWrite, MemoryStep, startRefresh, endRefresh,
                PostponeRequest, onReadRequest, onOtherRequest, Notifies
  <2>3. OnTime(c)
    BY <1>1, <2>2 DEF Timed
  <2>4. Running' => OnTime(c)'
    BY <1>2, <2>3, TickOnTime
  <2>5. ASSUME exit_status' = "success"
        PROVE  (currentTime \in Reference!TotalTimes(test_requests[c]))'
    <3>1. PICK e \in queue : Finish(c, e)
      BY <2>1, <2>5, OnlyFinishExits
    <3>2. currentTime' = e.time /\ UNCHANGED test_requests
      BY <3>1 DEF Finish, Exits, cpuVars
    <3>3. e.time \in Reference!TotalTimes(test_requests[c])
      BY <2>1, <2>3, <3>1, FinishOnTime
    <3>4. Reference!TotalTimes(test_requests[c])'
            = Reference!TotalTimes(test_requests[c])
      BY <3>2 DEF Reference!TotalTimes, Reference!StatesAfter, Reference!After
    <3> QED BY <3>2, <3>3, <3>4
  <2> QED BY <2>4, <2>5 DEF Timed
<1>3. CASE UNCHANGED hvars
  BY <1>1, <1>3, StutterOnTime
<1> QED BY <1>2, <1>3 DEF HeapNext, Exited, hvars

(* The time the simulator prints for a program of any length, with any     *)
(* timing, is the one that the timing of the memory gives request by       *)
(* request: ties, retries and refreshing phases never add to it or take    *)
(* from it.  It rests on the library's heap; on op_counter, which no code  *)
(* initialises, being 0; and on phases of more than one tick, with which a *)
(* request that ties with the timer is not overtaken by the next one.      *)
THEOREM ReportsReferenceTimeHolds ==
  ASSUME OpCounterAtStart \subseteq {0},
         REFRESHING_INTERVAL > 1, REFRESHING_TIME > 1
  PROVE  HeapSpec => []ReportsReferenceTime
<1>1. HeapInit => TInv
  BY InitTInv
<1>2. HInv /\ TInv /\ [HeapNext]_hvars => TInv'
  BY NextTInv
<1>3. TInv => ReportsReferenceTime
  BY DEF TInv, Timed, ReportsReferenceTime
<1> QED BY <1>1, <1>2, <1>3, HeapInvariance, PTL DEF HeapSpec
=============================================================================
