------------------------ MODULE ExampleModuleProofs -------------------------
(***************************************************************************)
(* Proofs about the letters: for any number of modules of each name, any   *)
(* priorities and any order of simultaneous letters they alternate, and    *)
(* when run() returns every letter has reached every module of the name it *)
(* is for.  This rests on what OrchestratorProofs shows for any modules.   *)
(*                                                                         *)
(* The letters are counted decade by decade: LInv says how many have been  *)
(* dispatched, how many are in the queue and how many are still on their   *)
(* way to it.                                                              *)
(***************************************************************************)
EXTENDS ExampleModule, OrchestratorProofs, FiniteSetTheorems

Pending == Unsent \cup queue \cup ToSet(newEvents)

(* A send that is in turn now. *)
SendInTurn(s, now) == s.delay = 10 /\ InTurn(s.msg, now)

LEMMA TurnsParts ==
  Turns <=> /\ \A e \in Pending : InTurn(e.msg, e.time - 10)
            /\ phase \in {"constructing", "handling"} =>
                 \A k \in DOMAIN todo : SendInTurn(todo[k], currentTime)
  BY DEF Turns, Pending, SendInTurn

LEMMA TodoInTurn ==
  ASSUME Turns, phase \in {"constructing", "handling"}
  PROVE  \A k \in DOMAIN todo : SendInTurn(todo[k], currentTime)
  BY DEF Turns, SendInTurn

(* The first letter. *)
LEMMA ConstructorInTurn ==
  ASSUME NEW m \in Modules, NEW sends \in FirstSends(m)
  PROVE  \A k \in DOMAIN sends : SendInTurn(sends[k], 0)
<1>1. sends = <<>> \/ (getName[m] = Alice /\ sends = <<Letter(m, Bob, 0)>>)
  BY ExampleClientAssumption DEF ExampleFirstSends
<1>2. getName[m] = Alice => SendInTurn(Letter(m, Bob, 0), 0)
  BY DEF SendInTurn, InTurn, Letter
<1> QED BY <1>1, <1>2

(* An answer to a letter that is in turn is in turn. *)
LEMMA AnswerInTurn ==
  ASSUME NEW m \in Modules, NEW message \in Messages,
         NEW now \in 0 .. IntLimit - 1, InTurn(message, now - 10),
         NEW outcome \in onNotify(m, message, now)
  PROVE  \A k \in DOMAIN outcome.sends : SendInTurn(outcome.sends[k], now)
<1> DEFINE dest == IF getName[m] = Alice THEN Bob ELSE Alice
<1>1. \/ outcome.sends = <<>>
      \/ /\ ForMe(m, message) /\ message.timestamp < 50
         /\ outcome.sends = <<Letter(m, dest, now)>>
  BY ExampleClientAssumption DEF ExampleOnNotify
<1>2. ASSUME ForMe(m, message), message.timestamp < 50
      PROVE  SendInTurn(Letter(m, dest, now), now)
  <2>1. /\ message.timestamp = now - 10 /\ (now - 10) % 10 = 0
        /\ now - 10 \in 0 .. 50 /\ now \in Int
    BY DEF InTurn
  <2>2. now % 10 = 0 /\ now \in 0 .. 50
        /\ ((now - 10) % 20 = 0 <=> now % 20 # 0)
    BY <1>2, <2>1
  <2>3. CASE (now - 10) % 20 = 0
    <3>1. getName[m] = Bob
      BY <1>2, <2>3 DEF ForMe, InTurn
    <3> QED BY <2>2, <2>3, <3>1 DEF SendInTurn, InTurn, Letter, Alice, Bob
  <2>4. CASE (now - 10) % 20 # 0
    <3>1. getName[m] = Alice
      BY <1>2, <2>4 DEF ForMe, InTurn
    <3> QED BY <2>2, <2>4, <3>1 DEF SendInTurn, InTurn, Letter
  <2> QED BY <2>3, <2>4
<1> HIDE DEF dest
<1> QED BY <1>1, <1>2

-----------------------------------------------------------------------------

(* Only sendWithDelay makes new pending events. *)
LEMMA PendingShrinks ==
  ASSUME IInv, [Next]_vars, ~sendWithDelay
  PROVE  Pending' \subseteq Pending
<1>1. CASE UNCHANGED <<events, queue, newEvents>>
  BY <1>1 DEF Pending, Unsent
<1>2. CASE initialize
  <2>1. modules[i] \in Modules
    BY <1>2 DEF initialize, IInv, Emptied, TypeOK
  <2>2. /\ ToSet(events[modules[i]]) \subseteq Unsent
        /\ Unsent' \subseteq Unsent
    BY <1>2, <2>1, HandedOver DEF initialize
  <2> QED BY <1>2, <2>2 DEF initialize, Insertable, Pending
<1>3. CASE notifyReturns
  <2>1. /\ ToSet(events[self]) \subseteq Unsent /\ Unsent' \subseteq Unsent
        /\ ToSet(newEvents') = ToSet(newEvents) \cup ToSet(events[self])
    BY <1>3, HandedOver, NotifyReturnsEffect DEF notifyReturns
  <2> QED BY <1>3, <2>1 DEF notifyReturns, Pending
<1>4. CASE pop
  BY <1>4 DEF pop, senderVars, Pending, Unsent
<1>5. CASE insert
  <2>1. /\ newEvents[Len(newEvents)] \in ToSet(newEvents)
        /\ ToSet(newEvents') \subseteq ToSet(newEvents)
    BY <1>5, LastOnce
  <2>2. Unsent' = Unsent
    BY <1>5 DEF insert, senderVars, Unsent
  <2> QED BY <1>5, <2>1, <2>2 DEF insert, Insertable, Pending
<1> QED
  BY <1>1, <1>2, <1>3, <1>4, <1>5
  DEF Next, Step, Done, vars, mainVars, senderVars, historyVars, Construct,
      addModule, ConstructorReturns, run, Initialized, tick, notify,
      EndOfTick, RunReturns

(* What is sent becomes an event that is due ten ticks later. *)
LEMMA NewLetter ==
  ASSUME IInv, Turns, sendWithDelay
  PROVE  /\ todo \in Seq(Sends) /\ todo # <<>> /\ todo' = Tail(todo)
         /\ phase \in {"constructing", "handling"} /\ self \in Modules
         /\ UNCHANGED <<phase, queue, newEvents, currentTime>>
         /\ SendInTurn(Head(todo), currentTime)
         /\ NewEvent.time = currentTime + 10
         /\ NewEvent \in Events
         /\ events'[self] = Append(events[self], NewEvent)
         /\ \A m \in Modules \ {self} : events'[m] = events[m]
         /\ Unsent' = Unsent \cup {NewEvent}
<1>1. /\ todo # <<>> /\ todo \in Seq(Sends)
      /\ phase \in {"constructing", "handling"}
      /\ todo' = Tail(todo)
      /\ UNCHANGED <<phase, queue, newEvents, currentTime>>
  BY DEF sendWithDelay, IInv, TypeOK
<1>2. SendInTurn(Head(todo), currentTime)
  BY <1>1, TodoInTurn
<1>3. Head(todo).delay = 10 /\ ~(Head(todo).delay < 0)
  BY <1>2 DEF SendInTurn
<1>4. messageId \in Nat /\ messageId' = messageId + 1
  BY <1>3 DEF sendWithDelay, IInv, TypeOK
<1>5. Head(todo).delay >= 0 /\ events' = [events EXCEPT ![self] = Append(@, NewEvent)]
  BY <1>4, SendEffect DEF IInv, senderVars
<1>6. /\ NewEvent \in Events /\ self \in Modules
      /\ events'[self] = Append(events[self], NewEvent)
      /\ \A m \in Modules \ {self} : events'[m] = events[m]
  BY <1>4, <1>5, SendDetails
<1>7. ToSet(events'[self]) = ToSet(events[self]) \cup {NewEvent}
  <2>1. events[self] \in Seq(Events)
    BY <1>6 DEF IInv, TypeOK
  <2> QED BY <1>6, <2>1, AppendElements
<1>8. Unsent' = Unsent \cup {NewEvent}
  BY <1>6, <1>7 DEF Unsent
<1>9. NewEvent.time = currentTime + 10
  <2>1. localTime[self] = currentTime
    BY <1>1, SelfClock
  <2>2. currentTime \in 0 .. 50
    BY <1>2 DEF SendInTurn, InTurn
  <2>3. currentTime + 10 \in 0 .. 2 * IntLimit - 2 /\ currentTime + 10 < IntLimit
    BY <2>2, OrchestratorAssumption, ExampleClientAssumption
  <2>4. Wrap(currentTime + 10) = currentTime + 10
    BY <2>3, WrapOnce
  <2> QED BY <1>3, <2>1, <2>4 DEF NewEvent
<1> QED BY <1>1, <1>2, <1>6, <1>8, <1>9

LEMMA SendKeepsTurns ==
  ASSUME IInv, Turns, sendWithDelay
  PROVE  Turns'
<1>1. \A k \in DOMAIN todo' : SendInTurn(todo'[k], currentTime')
  <2>1. \A k \in DOMAIN todo : SendInTurn(todo[k], currentTime)
    BY NewLetter, TodoInTurn
  <2> QED BY <2>1, NewLetter
<1>2. Pending' = Pending \cup {NewEvent}
  BY NewLetter DEF Pending
<1>3. InTurn(NewEvent.msg, NewEvent.time - 10)
  <2>1. NewEvent.msg = Head(todo).msg
    BY DEF NewEvent
  <2>2. currentTime \in Nat
    BY TimeTypes DEF IInv
  <2>3. NewEvent.time = currentTime + 10
    BY NewLetter
  <2>4. NewEvent.time - 10 = currentTime
    BY <2>2, <2>3
  <2> QED BY <2>1, <2>4, NewLetter DEF SendInTurn
<1>4. \A e \in Pending' : InTurn(e.msg, e.time - 10)
  BY <1>2, <1>3, TurnsParts
<1> QED BY <1>1, <1>4 DEF Turns, Pending, SendInTurn, InTurn

LEMMA TurnsNext == IInv /\ Turns /\ [Next]_vars => Turns'
<1> SUFFICES ASSUME IInv, Turns, [Next]_vars PROVE Turns'
  OBVIOUS
<1>1. CASE sendWithDelay
  BY <1>1, SendKeepsTurns
<1>2. CASE ~sendWithDelay
  <2>1. \A e \in Pending' : InTurn(e.msg, e.time - 10)
    BY <1>2, PendingShrinks, TurnsParts
  <2>2. ASSUME phase' \in {"constructing", "handling"}
        PROVE  \A k \in DOMAIN todo' : SendInTurn(todo'[k], currentTime')
    <3>1. ASSUME NEW m \in Modules, Construct(m)
          PROVE  \A k \in DOMAIN todo' : SendInTurn(todo'[k], currentTime')
      <4>1. currentTime' = 0 /\ todo' \in FirstSends(m)
        BY <3>1 DEF Construct, IInv, Clocks
      <4> QED BY <4>1, ConstructorInTurn
    <3>2. CASE notify
      <4>1. PICK outcome \in onNotify(modules[i], top.msg, top.time) :
              todo' = outcome.sends
        BY <3>2 DEF notify
      <4>2. modules[i] \in Modules /\ top.time = currentTime
        BY <3>2 DEF notify, IInv, Broadcast, TypeOK
      <4>3. /\ top.msg \in Messages /\ top.time \in 0 .. IntLimit - 1
            /\ currentTime' = currentTime
        BY <3>2, <4>2 DEF notify, IInv, TypeOK, Events
      <4>4. PICK e \in queue : e.time = top.time /\ e.msg = top.msg
        BY <3>2 DEF notify, IInv, Broadcast
      <4>5. InTurn(top.msg, top.time - 10)
        BY <4>4, TurnsParts DEF Pending
      <4> QED BY <4>1, <4>2, <4>3, <4>5, AnswerInTurn
    <3>3. CASE UNCHANGED <<phase, todo, currentTime>>
      BY <2>2, <3>3, TodoInTurn
    <3>4. \/ \E m \in Modules : Construct(m)
          \/ notify \/ UNCHANGED <<phase, todo, currentTime>>
      BY <1>2, <2>2
      DEF Next, Step, Done, vars, addModule, ConstructorReturns, run,
          initialize, Initialized, tick, notifyReturns, pop, insert,
          EndOfTick, RunReturns
    <3> QED BY <3>1, <3>2, <3>3, <3>4
  <2> QED BY <2>1, <2>2 DEF Turns, Pending, SendInTurn, InTurn
<1> QED BY <1>1, <1>2

(* Alice's and Bob's letters alternate, ten ticks apart. *)
THEOREM LettersTakeTurns == Spec => []TakesTurns
<1>1. Init => Turns
  <2> SUFFICES ASSUME Init PROVE Turns
    OBVIOUS
  <2>1. Pending = {}
    BY DEF Init, Pending, Unsent, ToSet
  <2> QED BY <2>1, TurnsParts DEF Init
<1>2. IInv /\ Turns => TakesTurns
  <2> SUFFICES ASSUME IInv, NEW e \in Pending, InTurn(e.msg, e.time - 10)
               PROVE  /\ e.msg.timestamp = e.time - 10
                      /\ IF e.time % 20 = 10
                           THEN e.msg.source = Alice /\ e.msg.dest = Bob
                           ELSE e.msg.source = Bob /\ e.msg.dest = Alice
    BY DEF Turns, TakesTurns, Pending
  <2>1. e \in Events
    BY DEF IInv, TypeOK, Pending, Unsent, ToSet
  <2>2. e.time \in Int
    BY <2>1, EventTypes
  <2>3. (e.time - 10) % 20 = 0 <=> e.time % 20 = 10
    BY <2>2
  <2> QED BY <2>3 DEF InTurn
<1> QED BY <1>1, <1>2, TurnsNext, Invariance, PTL DEF Spec

-----------------------------------------------------------------------------
(* Counting the modules *)

First(n) == {modules[k] : k \in 1 .. n}

(* How many of the first n modules are in S. *)
Count(n, S) == Cardinality(First(n) \cap S)

LEMMA FirstFinite ==
  ASSUME TypeOK, NEW n \in 0 .. Len(modules)
  PROVE  IsFiniteSet(First(n))
<1> DEFINE f == [k \in 1 .. n |-> modules[k]]
<1>1. n \in Int
  OBVIOUS
<1>2. IsFiniteSet(1 .. n)
  BY <1>1, FS_Interval
<1>3. f \in Surjection(1 .. n, First(n))
  BY DEF Surjection, First
<1> HIDE DEF f
<1> QED BY <1>2, <1>3, FS_Surjection

LEMMA FirstNone == First(0) = {}
  BY DEF First

LEMMA FirstAll ==
  ASSUME TypeOK
  PROVE  First(Len(modules)) = ToSet(modules)
<1>1. DOMAIN modules = 1 .. Len(modules)
  BY DEF TypeOK
<1> QED BY <1>1 DEF First, ToSet

LEMMA CountType ==
  ASSUME TypeOK, NEW n \in 0 .. Len(modules), NEW S
  PROVE  IsFiniteSet(First(n) \cap S) /\ Count(n, S) \in Nat
<1>1. IsFiniteSet(First(n) \cap S)
  BY FirstFinite, FS_Subset
<1> QED BY <1>1, FS_CardinalityType DEF Count

LEMMA CountNone == \A S : Count(0, S) = 0
  BY FirstNone, FS_EmptySet DEF Count

LEMMA CountNext ==
  ASSUME TypeOK, IsInjective(modules), NEW n \in 1 .. Len(modules), NEW S
  PROVE  Count(n, S) = Count(n - 1, S) + (IF modules[n] \in S THEN 1 ELSE 0)
<1>1. /\ DOMAIN modules = 1 .. Len(modules) /\ Len(modules) \in Nat
      /\ n - 1 \in 0 .. Len(modules)
  BY DEF TypeOK
<1>2. First(n) = First(n - 1) \cup {modules[n]}
  <2>1. \A k \in 1 .. n : k \in 1 .. n - 1 \/ k = n
    OBVIOUS
  <2>2. \A k \in 1 .. n - 1 : k \in 1 .. n
    OBVIOUS
  <2> QED BY <2>1, <2>2 DEF First
<1>3. modules[n] \notin First(n - 1)
  <2> SUFFICES ASSUME NEW k \in 1 .. n - 1, modules[k] = modules[n]
               PROVE  FALSE
    BY DEF First
  <2>1. k \in DOMAIN modules /\ n \in DOMAIN modules /\ k # n
    BY <1>1
  <2> QED BY <2>1 DEF IsInjective
<1> DEFINE A == First(n - 1) \cap S
<1>4. IsFiniteSet(A) /\ Cardinality(A) \in Nat
  BY <1>1, CountType DEF Count
<1>5. CASE modules[n] \in S
  <2>1. First(n) \cap S = A \cup {modules[n]} /\ modules[n] \notin A
    BY <1>2, <1>3, <1>5
  <2> HIDE DEF A
  <2>2. Cardinality(A \cup {modules[n]}) = Cardinality(A) + 1
    BY <1>4, <2>1, FS_AddElement
  <2> QED BY <1>5, <2>1, <2>2 DEF Count, A
<1>6. CASE modules[n] \notin S
  <2>1. First(n) \cap S = A
    BY <1>2, <1>6
  <2> HIDE DEF A
  <2>2. Count(n, S) = Cardinality(A) /\ Count(n - 1, S) = Cardinality(A)
    BY <2>1 DEF Count, A
  <2> QED BY <1>4, <1>6, <2>2
<1> QED BY <1>5, <1>6

-----------------------------------------------------------------------------
(* The numbers that are expected *)

Named(name) == {m \in Modules : getName[m] = name}

(* Who answers a letter that is due at the d-th tenth tick: those it is    *)
(* for, unless it is the last.                                             *)
Answering(d) ==
  IF d \in 1 .. 5 THEN Named(IF d % 2 = 0 THEN Alice ELSE Bob) ELSE {}

(* How many modules are plugged in that answer it. *)
Repliers(d) == Count(Len(modules), Answering(d))

(* The letters due at the tenth ticks before the d-th. *)
Earlier(d) ==
  LET E(k) == IF k < d THEN Expected[k] ELSE 0
  IN  E(1) + E(2) + E(3) + E(4) + E(5) + E(6)

LEMMA PluggedNamed ==
  ASSUME TypeOK, NEW name
  PROVE  Cardinality(Plugged(name)) = Count(Len(modules), Named(name))
<1>1. ToSet(modules) \subseteq Modules
  BY DEF TypeOK, ToSet
<1>2. Plugged(name) = ToSet(modules) \cap Named(name)
  BY <1>1 DEF Plugged, Named
<1> QED BY <1>2, FirstAll DEF Count

LEMMA ExpectedValues ==
  /\ Expected[1] = Cardinality(Plugged(Alice))
  /\ Expected[2] = Expected[1] * Cardinality(Plugged(Bob))
  /\ Expected[3] = Expected[2] * Cardinality(Plugged(Alice))
  /\ Expected[4] = Expected[3] * Cardinality(Plugged(Bob))
  /\ Expected[5] = Expected[4] * Cardinality(Plugged(Alice))
  /\ Expected[6] = Expected[5] * Cardinality(Plugged(Bob))
<1> DEFINE a == Cardinality(Plugged(Alice))
           b == Cardinality(Plugged(Bob))
           Rule(f) == [decade \in 1 .. 6 |->
             IF decade = 1 THEN a
             ELSE f[decade - 1] *
                    Cardinality(Plugged(IF decade % 2 = 0 THEN Bob ELSE Alice))]
           e2 == a * b
           e3 == e2 * a
           e4 == e3 * b
           e5 == e4 * a
           e6 == e5 * b
           g == [decade \in 1 .. 6 |->
                  IF decade = 1 THEN a ELSE IF decade = 2 THEN e2
                  ELSE IF decade = 3 THEN e3 ELSE IF decade = 4 THEN e4
                  ELSE IF decade = 5 THEN e5 ELSE e6]
<1>1. Rule(g) = g
  <2> SUFFICES ASSUME NEW k \in 1 .. 6 PROVE Rule(g)[k] = g[k]
    OBVIOUS
  <2>1. k = 1 \/ k = 2 \/ k = 3 \/ k = 4 \/ k = 5 \/ k = 6
    OBVIOUS
  <2>2. CASE k = 1
    BY <2>2
  <2>3. CASE k = 2
    BY <2>3
  <2>4. CASE k = 3
    BY <2>4
  <2>5. CASE k = 4
    BY <2>5
  <2>6. CASE k = 5
    BY <2>6
  <2>7. CASE k = 6
    BY <2>7
  <2> QED BY <2>1, <2>2, <2>3, <2>4, <2>5, <2>6, <2>7
<1>2. Expected = CHOOSE f : f = Rule(f)
  BY DEF Expected
<1> HIDE DEF g
<1>3. Expected = Rule(Expected)
  <2> HIDE DEF Rule
  <2> QED BY <1>1, <1>2
<1> QED BY <1>3

LEMMA RepliersType ==
  ASSUME TypeOK
  PROVE  /\ \A d \in Nat : Repliers(d) \in Nat
         /\ Cardinality(Plugged(Alice)) \in Nat
         /\ Cardinality(Plugged(Bob)) \in Nat
<1>1. Len(modules) \in 0 .. Len(modules)
  BY DEF TypeOK
<1> QED BY <1>1, CountType, PluggedNamed DEF Repliers

LEMMA ExpectedType ==
  ASSUME TypeOK, NEW d \in 1 .. 6
  PROVE  Expected[d] \in Nat
<1>1. /\ Cardinality(Plugged(Alice)) \in Nat
      /\ Cardinality(Plugged(Bob)) \in Nat
  BY RepliersType
<1> HIDE DEF Expected
<1>2. \A m, n \in Nat : m * n \in Nat
  OBVIOUS
<1>3. Expected[1] \in Nat /\ Expected[2] \in Nat
  BY <1>1, <1>2, ExpectedValues
<1>4. Expected[3] \in Nat /\ Expected[4] \in Nat
  BY <1>1, <1>2, <1>3, ExpectedValues
<1>5. Expected[5] \in Nat /\ Expected[6] \in Nat
  BY <1>1, <1>2, <1>4, ExpectedValues
<1>6. d = 1 \/ d = 2 \/ d = 3 \/ d = 4 \/ d = 5 \/ d = 6
  OBVIOUS
<1> QED BY <1>3, <1>4, <1>5, <1>6

(* Whoever answers the letters of a decade writes those of the next one. *)
LEMMA ExpectedNext ==
  ASSUME TypeOK, NEW d \in 1 .. 5
  PROVE  Expected[d + 1] = Expected[d] * Repliers(d)
<1>1. d = 1 \/ d = 2 \/ d = 3 \/ d = 4 \/ d = 5
  OBVIOUS
<1>2. Repliers(d) = Cardinality(Plugged(IF d % 2 = 0 THEN Alice ELSE Bob))
  BY PluggedNamed DEF Repliers, Answering
<1> DEFINE a == Cardinality(Plugged(Alice))
           b == Cardinality(Plugged(Bob))
<1>3. /\ Expected[2] = Expected[1] * b /\ Expected[3] = Expected[2] * a
      /\ Expected[4] = Expected[3] * b /\ Expected[5] = Expected[4] * a
      /\ Expected[6] = Expected[5] * b
  BY ExpectedValues
<1>4. Repliers(d) = IF d % 2 = 0 THEN a ELSE b
  BY <1>2
<1> HIDE DEF a, b
<1>5. d = 1 => d + 1 = 2 /\ d % 2 # 0
  OBVIOUS
<1>6. d = 2 => d + 1 = 3 /\ d % 2 = 0
  OBVIOUS
<1>7. d = 3 => d + 1 = 4 /\ d % 2 # 0
  OBVIOUS
<1>8. d = 4 => d + 1 = 5 /\ d % 2 = 0
  OBVIOUS
<1>9. d = 5 => d + 1 = 6 /\ d % 2 # 0
  OBVIOUS
<1> QED BY <1>1, <1>3, <1>4, <1>5, <1>6, <1>7, <1>8, <1>9, Zenon

LEMMA EarlierNext ==
  ASSUME TypeOK
  PROVE  /\ Earlier(0) = 0 /\ Earlier(1) = 0
         /\ \A d \in 1 .. 6 : /\ Earlier(d + 1) = Earlier(d) + Expected[d]
                              /\ Earlier(d) \in Nat
         /\ Earlier(7) = Expected[1] + Expected[2] + Expected[3]
                           + Expected[4] + Expected[5] + Expected[6]
<1> DEFINE e1 == Expected[1]
           e2 == Expected[2]
           e3 == Expected[3]
           e4 == Expected[4]
           e5 == Expected[5]
           e6 == Expected[6]
<1>1. /\ e1 \in Nat /\ e2 \in Nat /\ e3 \in Nat
      /\ e4 \in Nat /\ e5 \in Nat /\ e6 \in Nat
  BY ExpectedType
<1>2. \A d : Earlier(d) = (IF 1 < d THEN e1 ELSE 0) + (IF 2 < d THEN e2 ELSE 0)
                        + (IF 3 < d THEN e3 ELSE 0) + (IF 4 < d THEN e4 ELSE 0)
                        + (IF 5 < d THEN e5 ELSE 0) + (IF 6 < d THEN e6 ELSE 0)
  BY DEF Earlier
<1> HIDE DEF e1, e2, e3, e4, e5, e6
<1>3. /\ Earlier(0) = 0 /\ Earlier(1) = 0
      /\ Earlier(2) = e1 /\ Earlier(3) = e1 + e2
      /\ Earlier(4) = e1 + e2 + e3 /\ Earlier(5) = e1 + e2 + e3 + e4
      /\ Earlier(6) = e1 + e2 + e3 + e4 + e5
      /\ Earlier(7) = e1 + e2 + e3 + e4 + e5 + e6
  BY <1>1, <1>2
<1>4. ASSUME NEW d \in 1 .. 6
      PROVE  Earlier(d + 1) = Earlier(d) + Expected[d] /\ Earlier(d) \in Nat
  <2>1. d = 1 \/ d = 2 \/ d = 3 \/ d = 4 \/ d = 5 \/ d = 6
    OBVIOUS
  <2>2. /\ d = 1 => Expected[d] = e1 /\ d + 1 = 2
        /\ d = 2 => Expected[d] = e2 /\ d + 1 = 3
        /\ d = 3 => Expected[d] = e3 /\ d + 1 = 4
        /\ d = 4 => Expected[d] = e4 /\ d + 1 = 5
        /\ d = 5 => Expected[d] = e5 /\ d + 1 = 6
        /\ d = 6 => Expected[d] = e6 /\ d + 1 = 7
    BY DEF e1, e2, e3, e4, e5, e6
  <2> QED BY <1>1, <1>3, <2>1, <2>2
<1> QED BY <1>3, <1>4 DEF e1, e2, e3, e4, e5, e6

-----------------------------------------------------------------------------
(* Why every letter arrives: a strengthening of Turns *)

Early == phase \in {"main", "constructing", "initializing"}

Due(t) == {e \in queue : e.time = t}

(* All letters are valid and due ten ticks after they are sent. *)
Posted ==
  /\ \A e \in Pending : e.valid
  /\ phase \in {"constructing", "handling"} =>
       \A k \in DOMAIN todo : todo[k].valid
  /\ phase \in {"notifying", "handling"} => top.valid
  /\ \A e \in queue : e.time = currentTime \/ e.time = currentTime + 10
  /\ \A e \in ToSet(newEvents) : e.time = currentTime + 10
  /\ Early => \A e \in Unsent : e.time = currentTime + 10
  /\ phase = "handling" =>
       \A e \in ToSet(events[self]) : e.time = currentTime + 10
  /\ phase = "done" => queue = {}

(* Before the loop of run() every Alice that exists has written once. *)
Written ==
  /\ ToSet(modules) \subseteq constructed
  /\ IsFiniteSet(queue) /\ IsFiniteSet(dispatched)
  /\ Early => dispatched = {}
  /\ phase \in {"main", "constructing"} =>
       /\ queue = {}
       /\ \A m \in Modules :
            Len(events[m])
              + (IF phase = "constructing" /\ m = self THEN Len(todo) ELSE 0)
              = IF m \in constructed /\ getName[m] = Alice THEN 1 ELSE 0
  /\ phase = "initializing" =>
       /\ \A k \in i .. Len(modules) :
            Len(events[modules[k]])
              = IF getName[modules[k]] = Alice THEN 1 ELSE 0
       /\ i \in 1 .. Len(modules) + 1
       /\ Cardinality(queue) = Count(i - 1, Named(Alice))

(* The number of modules whose answer to the letter at work is counted. *)
Asked == IF phase = "notifying" THEN i - 1
         ELSE IF phase = "handling" THEN i ELSE 0

(* The answers that are not yet in the queue. *)
Answers ==
  Len(newEvents)
    + (IF phase = "handling" THEN Len(events[self]) + Len(todo) ELSE 0)

(* In the loop, at the d-th tenth tick: n of the letters that are due now  *)
(* have been dispatched and answered, the others are still in the queue.   *)
Account(d, n) ==
  /\ Cardinality(dispatched) = Earlier(d) + n
  /\ d = 0 => /\ phase \in {"looping", "done"} /\ n = 0
              /\ Cardinality(Due(10)) = Expected[1]
  /\ d > 0 => /\ Expected[d] >= 1
              /\ n + Cardinality(Due(10 * d)) = Expected[d]
              /\ Cardinality(Due(10 * d + 10)) + Answers
                   = n * Repliers(d) + Count(Asked, Answering(d))

Accounted ==
  ~Early => \E d \in 0 .. 6 : \E n \in Nat :
              currentTime = 10 * d /\ Account(d, n)

LInv == Turns /\ Posted /\ Written /\ Accounted

-----------------------------------------------------------------------------
(* What the steps do to the letters *)

(* The letter at work is due at the d-th tenth tick. *)
LEMMA AtWork ==
  ASSUME IInv, Turns, phase \in {"notifying", "handling"},
         NEW d \in Nat, currentTime = 10 * d
  PROVE  /\ d \in 1 .. 6 /\ top.msg \in Messages
         /\ top.time = currentTime /\ top.time \in 0 .. IntLimit - 1
         /\ top.msg.timestamp = 10 * d - 10
         /\ top.msg.dest = IF d % 2 = 0 THEN Alice ELSE Bob
         /\ \E e \in queue : e.id = top.id /\ e.time = top.time
<1>1. PICK e \in queue :
        e.id = top.id /\ e.time = top.time /\ e.msg = top.msg
  BY DEF IInv, Broadcast
<1>2. InTurn(top.msg, top.time - 10)
  BY <1>1, TurnsParts DEF Pending
<1>3. top.time = currentTime /\ top.msg \in Messages
  BY DEF IInv, Broadcast, TypeOK, Events
<1>4. top.time \in 0 .. IntLimit - 1
  BY <1>3 DEF IInv, TypeOK
<1>5. /\ top.msg.timestamp = 10 * d - 10 /\ 10 * d - 10 \in 0 .. 50
      /\ IF (10 * d - 10) % 20 = 0 THEN top.msg.dest = Bob
                                   ELSE top.msg.dest = Alice
  BY <1>2, <1>3 DEF InTurn
<1>6. d \in 1 .. 6
  BY <1>5
<1>7. (10 * d - 10) % 20 = 0 <=> d % 2 # 0
  BY <1>6
<1> QED BY <1>1, <1>3, <1>4, <1>5, <1>6, <1>7

(* Whoever it is for answers it with one letter. *)
LEMMA NotifiedAnswers ==
  ASSUME IInv, Turns, notify, NEW d \in Nat, currentTime = 10 * d
  PROVE  /\ modules[i] \in Modules /\ events[modules[i]] = <<>>
         /\ top'.valid = TRUE
         /\ todo' \in Seq(Sends)
         /\ \A k \in DOMAIN todo' : todo'[k].valid
         /\ Len(todo') = IF modules[i] \in Answering(d) THEN 1 ELSE 0
<1>1. phase = "notifying" /\ i <= Len(modules)
  BY DEF notify
<1>2. PICK outcome \in onNotify(modules[i], top.msg, top.time) :
        todo' = outcome.sends /\ top' = [top EXCEPT !.valid = outcome.valid]
  BY DEF notify
<1>3. i \in 1 .. Len(modules) /\ modules[i] \in Modules /\ modules[i] \in ToSet(modules)
  BY <1>1 DEF IInv, Broadcast, TypeOK, ToSet
<1>4. /\ d \in 1 .. 6 /\ top.msg \in Messages /\ top.time \in 0 .. IntLimit - 1
      /\ top.msg.timestamp = 10 * d - 10
      /\ top.msg.dest = IF d % 2 = 0 THEN Alice ELSE Bob
  BY <1>1, AtWork
<1>5. events[modules[i]] = <<>>
  BY <1>1, <1>3 DEF IInv, Emptied
<1> DEFINE m == modules[i]
           other == IF getName[m] = Alice THEN Bob ELSE Alice
           letter == Letter(m, other, top.time)
           asked == ForMe(m, top.msg) /\ top.msg.timestamp < 50
<1>6. outcome = [valid |-> TRUE, sends |-> IF asked THEN <<letter>> ELSE <<>>]
  BY <1>2, <1>3, <1>4, ExampleClientAssumption DEF ExampleOnNotify
<1>7. letter.valid = TRUE
  BY DEF Letter
<1>8. asked <=> m \in Answering(d)
  <2>1. top.msg.timestamp < 50 <=> d \in 1 .. 5
    BY <1>4
  <2>2. m \in Named(top.msg.dest) <=> ForMe(m, top.msg)
    BY <1>3 DEF Named, ForMe
  <2> QED BY <1>4, <2>1, <2>2 DEF Answering
<1>9. outcome.sends \in Seq(Sends)
  <2>1. TypeOK /\ top.time = currentTime
    BY <1>1, AtWork DEF IInv
  <2> QED BY <1>2, <1>3, <2>1, HandlerSends
<1>10. top'.valid = TRUE
  BY <1>2, <1>6 DEF IInv, TypeOK, Events
<1> HIDE DEF asked, letter
<1>11. todo' = IF asked THEN <<letter>> ELSE <<>>
  BY <1>2, <1>6
<1> QED BY <1>2, <1>3, <1>5, <1>7, <1>8, <1>9, <1>10, <1>11

(* A constructor writes one letter if it is Alice's. *)
LEMMA ConstructorWrites ==
  ASSUME NEW m \in Modules, NEW sends \in FirstSends(m)
  PROVE  /\ sends \in Seq(Sends)
         /\ \A k \in DOMAIN sends : sends[k].valid
         /\ Len(sends) = IF getName[m] = Alice THEN 1 ELSE 0
<1> DEFINE letter == Letter(m, Bob, 0)
<1>1. sends = IF getName[m] = Alice THEN <<letter>> ELSE <<>>
  BY ExampleClientAssumption DEF ExampleFirstSends
<1>2. letter.valid = TRUE
  BY DEF Letter
<1>3. sends \in Seq(Sends)
  BY ClientAssumption
<1> HIDE DEF letter
<1> QED BY <1>1, <1>2, <1>3

-----------------------------------------------------------------------------
(* The steps preserve the strengthening *)

LEMMA PostedTick ==
  ASSUME IInv, Turns, Posted, tick
  PROVE  Posted'
<1>1. PICK e \in queue : /\ \A f \in queue : e.time <= f.time
                         /\ top' = e /\ currentTime' = e.time
  BY DEF tick
<1>2. /\ phase = "looping" /\ phase' = "notifying"
      /\ UNCHANGED <<events, queue, newEvents>>
  BY DEF tick, senderVars
<1>3. newEvents = <<>>
  BY <1>2 DEF IInv, SentInTick
<1>4. \A f \in queue : f.time = currentTime' \/ f.time = currentTime' + 10
  <2>1. currentTime \in Nat /\ \A f \in queue : f.time \in Int
    BY TimeTypes, EventTypes DEF IInv, TypeOK
  <2>2. \A f \in queue : f.time = currentTime \/ f.time = currentTime + 10
    BY DEF Posted
  <2> QED BY <1>1, <2>1, <2>2
<1>5. e.valid /\ Pending' = Pending
  BY <1>2 DEF Posted, Pending, Unsent
<1>6. ToSet(newEvents') = {}
  BY <1>2, <1>3 DEF ToSet
<1> QED BY <1>1, <1>2, <1>4, <1>5, <1>6 DEF Posted, Early

LEMMA PostedSend ==
  ASSUME IInv, Turns, Posted, sendWithDelay
  PROVE  Posted'
<1>1. /\ \A k \in DOMAIN todo' : todo'[k].valid
      /\ Head(todo).valid
  <2>1. \A k \in DOMAIN todo : todo[k].valid
    BY NewLetter DEF Posted
  <2> QED BY <2>1, NewLetter
<1>2. NewEvent.valid /\ NewEvent.time = currentTime + 10
  BY <1>1, NewLetter DEF NewEvent
<1>3. /\ UNCHANGED <<phase, queue, newEvents, currentTime, top, self>>
  BY DEF sendWithDelay
<1>4. Pending' = Pending \cup {NewEvent} /\ Unsent' = Unsent \cup {NewEvent}
  BY NewLetter DEF Pending
<1>5. phase' = "handling" =>
        \A e \in ToSet(events'[self]) : e.time = currentTime' + 10
  <2>1. events[self] \in Seq(Events) /\ NewEvent \in Events
    BY NewLetter DEF IInv, TypeOK
  <2>2. ToSet(events'[self]) = ToSet(events[self]) \cup {NewEvent}
    <3>1. events'[self] = Append(events[self], NewEvent)
      BY NewLetter
    <3> HIDE DEF NewEvent
    <3> QED BY <2>1, <3>1, AppendElements
  <2> QED BY <1>2, <1>3, <2>2 DEF Posted
<1>6. phase' # "done"
  BY <1>3, NewLetter
<1> HIDE DEF NewEvent
<1> QED BY <1>1, <1>2, <1>3, <1>4, <1>5, <1>6 DEF Posted, Early

LEMMA PostedNotify ==
  ASSUME IInv, Turns, Posted, notify, NEW d \in Nat, currentTime = 10 * d
  PROVE  Posted'
<1>1. /\ phase = "notifying" /\ phase' = "handling" /\ self' = modules[i]
      /\ UNCHANGED <<events, queue, newEvents, currentTime>>
  BY DEF notify, senderVars
<1>2. /\ top'.valid /\ \A k \in DOMAIN todo' : todo'[k].valid
      /\ events'[self'] = <<>>
  BY <1>1, NotifiedAnswers
<1>3. ToSet(events'[self']) = {}
  BY <1>2 DEF ToSet
<1>4. Pending' = Pending
  BY <1>1 DEF Pending, Unsent
<1> QED BY <1>1, <1>2, <1>3, <1>4 DEF Posted, Early

LEMMA PostedReturns ==
  ASSUME IInv, Posted, notifyReturns
  PROVE  Posted'
<1>1. /\ phase = "handling" /\ phase' = "notifying"
      /\ UNCHANGED <<queue, currentTime, top>>
  BY DEF notifyReturns
<1>2. ToSet(newEvents') = ToSet(newEvents) \cup ToSet(events[self])
  BY NotifyReturnsEffect
<1>3. Pending' \subseteq Pending
  <2>1. [Next]_vars /\ ~sendWithDelay
    BY <1>1 DEF Next, Step, sendWithDelay
  <2> QED BY <2>1, PendingShrinks
<1> QED BY <1>1, <1>2, <1>3 DEF Posted, Early

LEMMA PostedInsert ==
  ASSUME IInv, Posted, insert
  PROVE  Posted'
<1>1. /\ phase = "inserting" /\ phase' = "inserting"
      /\ UNCHANGED <<events, currentTime, top>>
      /\ queue' \subseteq queue \cup {newEvents[Len(newEvents)]}
  BY DEF insert, senderVars, Insertable
<1>2. /\ newEvents[Len(newEvents)] \in ToSet(newEvents)
      /\ ToSet(newEvents') \subseteq ToSet(newEvents)
  BY LastOnce
<1>3. Pending' \subseteq Pending
  BY <1>1, <1>2 DEF Pending, Unsent
<1> QED BY <1>1, <1>2, <1>3 DEF Posted, Early

LEMMA PostedInitialize ==
  ASSUME IInv, Posted, initialize
  PROVE  Posted'
<1> DEFINE first == ToSet(events[modules[i]])
<1>1. /\ phase = "initializing" /\ phase' = "initializing"
      /\ UNCHANGED <<newEvents, currentTime, top>>
      /\ queue' \subseteq queue \cup first
  BY DEF initialize, Insertable
<1>2. first \subseteq Unsent /\ Unsent' \subseteq Unsent
  <2>1. modules[i] \in Modules
    BY DEF initialize, IInv, Emptied, TypeOK
  <2> QED BY <2>1, HandedOver DEF initialize
<1> HIDE DEF first
<1>3. Pending' \subseteq Pending
  BY <1>1, <1>2 DEF Pending
<1> QED BY <1>1, <1>2, <1>3 DEF Posted, Early

LEMMA PostedNext ==
  ASSUME IInv, Turns, Posted, Accounted, [Next]_vars
  PROVE  Posted'
<1>1. CASE tick
  BY <1>1, PostedTick
<1>2. CASE sendWithDelay
  BY <1>2, PostedSend
<1>3. CASE notify
  <2>1. PICK d \in 0 .. 6 : currentTime = 10 * d
    BY <1>3 DEF notify, Accounted, Early
  <2> QED BY <1>3, <2>1, PostedNotify
<1>4. CASE notifyReturns
  BY <1>4, PostedReturns
<1>5. CASE insert
  BY <1>5, PostedInsert
<1>6. CASE initialize
  BY <1>6, PostedInitialize
<1>7. ASSUME NEW m \in Modules, Construct(m) PROVE Posted'
  <2>1. /\ phase = "main" /\ phase' = "constructing" /\ todo' \in FirstSends(m)
        /\ UNCHANGED <<events, queue, newEvents, currentTime>>
    BY <1>7 DEF Construct, senderVars
  <2>2. \A k \in DOMAIN todo' : todo'[k].valid
    BY <2>1, ConstructorWrites
  <2> QED BY <2>1, <2>2 DEF Posted, Early, Pending, Unsent
<1>8. CASE pop
  <2>1. /\ phase' = "inserting" /\ queue' \subseteq queue
        /\ UNCHANGED <<events, newEvents, currentTime, top>>
    BY <1>8 DEF pop, senderVars
  <2> QED BY <2>1 DEF Posted, Early, Pending, Unsent
<1>9. CASE UNCHANGED vars
  BY <1>9 DEF Posted, Early, Pending, Unsent, vars, senderVars
<1>10. CASE RunReturns
  BY <1>10 DEF RunReturns, Posted, Early, Pending, Unsent, senderVars
<1>11. CASE \/ \E m \in Modules : addModule(m)
            \/ ConstructorReturns \/ run \/ Initialized \/ EndOfTick
  <2>1. /\ UNCHANGED <<events, queue, newEvents, currentTime, top, todo>>
        /\ phase' \notin {"constructing", "notifying", "handling", "done"}
        /\ Early' => Early
    BY <1>11 DEF addModule, ConstructorReturns, run, Initialized, EndOfTick,
                 senderVars, Early
  <2> QED BY <2>1 DEF Posted, Pending, Unsent
<1> QED BY <1>1, <1>2, <1>3, <1>4, <1>5, <1>6, <1>7, <1>8, <1>9, <1>10, <1>11
        DEF Next, Step, Done

(* An event that is not in the queue is inserted. *)
LEMMA OneInserted ==
  ASSUME NEW S, IsFiniteSet(S), NEW e, e \notin S
  PROVE  /\ IsFiniteSet(S \cup {e}) /\ Cardinality(S) \in Nat
         /\ Cardinality(S \cup {e}) = Cardinality(S) + 1
  BY FS_AddElement, FS_CardinalityType

LEMMA WrittenSend ==
  ASSUME IInv, Turns, Written, sendWithDelay
  PROVE  Written'
<1>1. /\ UNCHANGED <<phase, modules, constructed, queue, dispatched, self, i>>
      /\ phase \in {"constructing", "handling"}
  BY NewLetter DEF sendWithDelay, mainVars, historyVars
<1>2. /\ Len(todo') = Len(todo) - 1 /\ Len(todo) \in Nat
      /\ Len(events'[self]) = Len(events[self]) + 1 /\ Len(events[self]) \in Nat
      /\ \A m \in Modules \ {self} : events'[m] = events[m]
  <2>1. Len(todo') = Len(todo) - 1 /\ Len(todo) \in Nat
    BY NewLetter
  <2>2. events[self] \in Seq(Events) /\ NewEvent \in Events
    BY NewLetter DEF IInv, TypeOK
  <2>3. /\ events'[self] = Append(events[self], NewEvent)
        /\ \A m \in Modules \ {self} : events'[m] = events[m]
    BY NewLetter
  <2> HIDE DEF NewEvent
  <2> QED BY <2>1, <2>2, <2>3, AppendElements
<1>3. ASSUME phase = "constructing", NEW m \in Modules
      PROVE  Len(events'[m]) + (IF m = self THEN Len(todo') ELSE 0)
               = IF m \in constructed /\ getName[m] = Alice THEN 1 ELSE 0
  <2>1. Len(events[m]) + (IF m = self THEN Len(todo) ELSE 0)
          = IF m \in constructed /\ getName[m] = Alice THEN 1 ELSE 0
    BY <1>3 DEF Written
  <2> DEFINE r == IF m \in constructed /\ getName[m] = Alice THEN 1 ELSE 0
  <2> HIDE DEF r
  <2>2. CASE m = self
    <3>1. \A x, y \in Nat : (x + 1) + (y - 1) = x + y
      OBVIOUS
    <3>2. Len(events'[self]) + Len(todo') = Len(events[self]) + Len(todo)
      BY <1>2, <3>1
    <3> QED BY <2>1, <2>2, <3>2 DEF r
  <2>3. CASE m # self
    BY <1>2, <2>1, <2>3 DEF r
  <2> QED BY <2>2, <2>3 DEF r
<1> QED BY <1>1, <1>3 DEF Written, Early

LEMMA WrittenConstruct ==
  ASSUME IInv, Written, NEW c \in Modules, Construct(c)
  PROVE  Written'
<1>1. /\ phase = "main" /\ phase' = "constructing"
      /\ c \notin constructed /\ constructed' = constructed \cup {c}
      /\ self' = c /\ todo' \in FirstSends(c)
      /\ UNCHANGED <<modules, events, queue, dispatched>>
  BY DEF Construct, senderVars, historyVars
<1>2. Len(todo') = IF getName[c] = Alice THEN 1 ELSE 0
  BY <1>1, ConstructorWrites
<1>3. ASSUME NEW m \in Modules
      PROVE  Len(events[m]) + (IF m = c THEN Len(todo') ELSE 0)
               = IF m \in constructed' /\ getName[m] = Alice THEN 1 ELSE 0
  <2>1. Len(events[m]) + 0
          = IF m \in constructed /\ getName[m] = Alice THEN 1 ELSE 0
    BY <1>1 DEF Written
  <2>2. Len(events[m]) \in Nat
    BY DEF IInv, TypeOK
  <2>3. Len(events[m]) = IF m \in constructed /\ getName[m] = Alice THEN 1 ELSE 0
    BY <2>1, <2>2
  <2>4. CASE m = c
    <3>1. Len(events[m]) = 0
      BY <1>1, <2>3, <2>4
    <3> QED BY <1>1, <1>2, <2>4, <3>1
  <2>5. CASE m # c
    <3>1. m \in constructed' <=> m \in constructed
      BY <1>1, <2>5
    <3> QED BY <2>3, <2>5, <3>1
  <2> QED BY <2>4, <2>5
<1> QED BY <1>1, <1>3 DEF Written, Early

(* The letter that the next Alice wrote, if it is one, gets into the       *)
(* queue.                                                                  *)
LEMMA WrittenInitialize ==
  ASSUME IInv, Turns, Posted, Written, initialize
  PROVE  Written'
<1> DEFINE m == modules[i]
           first == ToSet(events[m])
<1>1. /\ phase = "initializing" /\ i <= Len(modules) /\ phase' = "initializing"
      /\ UNCHANGED <<modules, constructed, dispatched, currentTime>>
      /\ i' = i + 1
      /\ queue' = queue \cup Insertable(first)
      /\ events' = [events EXCEPT ![m] = <<>>]
  BY DEF initialize, mainVars
<1>2. /\ i \in 1 .. Len(modules) /\ Len(modules) \in Nat
      /\ DOMAIN modules = 1 .. Len(modules) /\ IsInjective(modules)
      /\ \A k \in 1 .. Len(modules) : modules[k] \in Modules
      /\ TypeOK
  <2>1. TypeOK /\ i >= 1 /\ IsInjective(modules)
    BY <1>1 DEF IInv, Emptied, Broadcast
  <2>2. modules \in Seq(Modules) /\ i \in Nat
    BY <2>1 DEF TypeOK
  <2>3. /\ DOMAIN modules = 1 .. Len(modules) /\ Len(modules) \in Nat
        /\ \A k \in 1 .. Len(modules) : modules[k] \in Modules
    BY <2>2
  <2>4. i \in 1 .. Len(modules)
    BY <1>1, <2>1, <2>2, <2>3
  <2> QED BY <2>1, <2>3, <2>4
<1>3. /\ first \subseteq Unsent /\ first \cap queue = {}
      /\ Insertable(first) = first
  <2>1. first \subseteq Unsent
    BY <1>1, <1>2, HandedOver
  <2>2. \A e \in first : e.time = currentTime + 10
    BY <1>1, <2>1 DEF Posted, Early
  <2>3. currentTime \in Nat
    BY TimeTypes DEF IInv
  <2>4. Insertable(first) = first
    BY <2>2, <2>3 DEF Insertable, insertable
  <2>5. \A e \in Unsent : e \notin queue
    BY Located DEF IInv, Partition, Ids
  <2> QED BY <2>1, <2>4, <2>5
<1>4. /\ events[m] \in Seq(Events)
      /\ Len(events[m]) = IF getName[m] = Alice THEN 1 ELSE 0
  <2>1. m \in Modules /\ i \in i .. Len(modules)
    BY <1>2
  <2>2. events[m] \in Seq(Events)
    BY <2>1 DEF IInv, TypeOK
  <2> QED BY <1>1, <2>1, <2>2 DEF Written
<1>5. /\ IsFiniteSet(queue) /\ Cardinality(queue) \in Nat
      /\ Cardinality(queue) = Count(i - 1, Named(Alice))
  BY <1>1, FS_CardinalityType DEF Written
<1>6. /\ IsFiniteSet(queue')
      /\ Cardinality(queue') =
           Cardinality(queue) + (IF getName[m] = Alice THEN 1 ELSE 0)
  <2>1. CASE getName[m] = Alice
    <3>1. PICK e : first = {e}
      <4>1. events[m][1] \in first /\ \A x \in first : x = events[m][1]
        BY <1>4, <2>1 DEF ToSet
      <4> QED BY <4>1
    <3>2. queue' = queue \cup {e} /\ e \notin queue
      BY <1>1, <1>3, <3>1
    <3> QED BY <1>5, <2>1, <3>2, OneInserted
  <2>2. CASE getName[m] # Alice
    <3>1. first = {}
      BY <1>4, <2>2 DEF ToSet
    <3>2. queue' = queue
      BY <1>1, <1>3, <3>1
    <3> QED BY <1>5, <2>2, <3>2
  <2> QED BY <2>1, <2>2
<1>7. Count(i, Named(Alice)) =
        Count(i - 1, Named(Alice)) + (IF getName[m] = Alice THEN 1 ELSE 0)
  <2>1. m \in Named(Alice) <=> getName[m] = Alice
    BY <1>2 DEF Named
  <2> HIDE DEF m
  <2>2. Count(i, Named(Alice)) =
          Count(i - 1, Named(Alice)) + (IF m \in Named(Alice) THEN 1 ELSE 0)
    BY <1>2, CountNext DEF m
  <2> QED BY <2>1, <2>2
<1>8. Cardinality(queue') = Count(i - 1, Named(Alice))'
  <2>1. i' - 1 = i
    BY <1>1, <1>2
  <2>2. Count(i - 1, Named(Alice))' = Count(i, Named(Alice))
    BY <1>1, <2>1 DEF Count, First, Named
  <2> QED BY <1>5, <1>6, <1>7, <2>2
<1>9. \A k \in i' .. Len(modules) :
        Len(events'[modules[k]]) = IF getName[modules[k]] = Alice THEN 1 ELSE 0
  <2> SUFFICES ASSUME NEW k \in i' .. Len(modules)
               PROVE  Len(events'[modules[k]])
                        = IF getName[modules[k]] = Alice THEN 1 ELSE 0
    OBVIOUS
  <2>1. k \in i .. Len(modules) /\ k \in DOMAIN modules /\ k # i /\ i \in DOMAIN modules
    BY <1>1, <1>2
  <2>2. modules[k] # m /\ modules[k] \in Modules
    BY <1>2, <2>1 DEF IsInjective
  <2>3. events'[modules[k]] = events[modules[k]]
    BY <1>1, <2>2 DEF IInv, TypeOK
  <2> QED BY <1>1, <2>1, <2>3 DEF Written
<1>10. i' \in 1 .. Len(modules) + 1
  BY <1>1, <1>2
<1> QED BY <1>1, <1>6, <1>8, <1>9, <1>10 DEF Written, Early

LEMMA WrittenNext ==
  ASSUME IInv, Turns, Posted, Written, [Next]_vars
  PROVE  Written'
<1>1. CASE sendWithDelay
  BY <1>1, WrittenSend
<1>2. ASSUME NEW m \in Modules, Construct(m) PROVE Written'
  BY <1>2, WrittenConstruct
<1>3. CASE initialize
  BY <1>3, WrittenInitialize
<1>4. ASSUME NEW m \in Modules, addModule(m) PROVE Written'
  <2>1. /\ phase = "main" /\ m \in constructed
        /\ ToSet(modules') = ToSet(modules) \cup {m}
        /\ UNCHANGED <<phase, constructed, events, queue, dispatched>>
    BY <1>4 DEF addModule, Sorts, senderVars, historyVars
  <2> QED BY <2>1 DEF Written, Early
<1>5. CASE ConstructorReturns
  <2>1. /\ phase = "constructing" /\ phase' = "main" /\ todo = <<>>
        /\ UNCHANGED <<modules, constructed, events, queue, dispatched>>
    BY <1>5 DEF ConstructorReturns, mainVars, senderVars, historyVars
  <2>2. Len(todo) = 0
    BY <2>1
  <2> QED BY <2>1, <2>2 DEF Written, Early
<1>6. CASE run
  <2>1. /\ phase = "main" /\ phase' = "initializing" /\ i' = 1
        /\ UNCHANGED <<modules, constructed, events, queue, dispatched>>
    BY <1>6 DEF run, mainVars, senderVars, historyVars
  <2>2. modules \in Seq(Modules) /\ \A m \in Modules : Len(events[m]) \in Nat
    BY DEF IInv, TypeOK
  <2>3. \A k \in 1 .. Len(modules) :
          modules[k] \in ToSet(modules) /\ modules[k] \in Modules
    BY <2>2 DEF ToSet
  <2>4. \A m \in Modules \cap constructed :
          Len(events[m]) = IF getName[m] = Alice THEN 1 ELSE 0
    BY <2>1, <2>2 DEF Written
  <2>5. \A k \in 1 .. Len(modules) :
          Len(events[modules[k]]) = IF getName[modules[k]] = Alice THEN 1 ELSE 0
    BY <2>3, <2>4 DEF Written
  <2>6. Cardinality(queue) = 0 /\ Count(i - 1, Named(Alice))' = 0
    <3>1. queue = {} /\ i' - 1 = 0
      BY <2>1 DEF Written
    <3>2. Count(i - 1, Named(Alice))' = Count(0, Named(Alice))
      BY <2>1, <3>1 DEF Count, First, Named
    <3> QED BY <3>1, <3>2, CountNone, FS_EmptySet
  <2>7. i' \in 1 .. Len(modules) + 1
    BY <2>1, <2>2
  <2> QED BY <2>1, <2>5, <2>6, <2>7 DEF Written, Early
<1>7. CASE pop
  <2>1. /\ phase' = "inserting" /\ UNCHANGED <<modules, constructed>>
        /\ queue' \subseteq queue /\ dispatched' = dispatched \cup {top.id}
    BY <1>7 DEF pop, mainVars
  <2>2. IsFiniteSet(queue') /\ IsFiniteSet(dispatched')
    BY <2>1, FS_Subset, FS_AddElement DEF Written
  <2> QED BY <2>1, <2>2 DEF Written, Early
<1>8. CASE insert
  <2>1. /\ phase' = "inserting" /\ UNCHANGED <<modules, constructed, dispatched>>
        /\ queue' \subseteq queue \cup {newEvents[Len(newEvents)]}
    BY <1>8 DEF insert, mainVars, Insertable
  <2>2. IsFiniteSet(queue')
    BY <2>1, FS_AddElement, FS_Subset DEF Written
  <2> QED BY <2>1, <2>2 DEF Written, Early
<1>9. CASE Initialized \/ tick \/ notify \/ notifyReturns \/ EndOfTick \/ RunReturns
  <2>1. /\ ~Early' /\ UNCHANGED <<modules, constructed, queue, dispatched>>
    BY <1>9 DEF Initialized, tick, notify, notifyReturns, EndOfTick, RunReturns,
                Early, mainVars, historyVars
  <2> QED BY <2>1 DEF Written, Early
<1>10. CASE UNCHANGED vars
  BY <1>10 DEF Written, Early, vars, mainVars, senderVars, historyVars, Count,
               First
<1> QED BY <1>1, <1>2, <1>3, <1>4, <1>5, <1>6, <1>7, <1>8, <1>9, <1>10
        DEF Next, Step, Done

-----------------------------------------------------------------------------
(* The account is kept *)

LEMMA DueType ==
  ASSUME Written, NEW t
  PROVE  /\ IsFiniteSet(Due(t)) /\ Cardinality(Due(t)) \in Nat
         /\ IsFiniteSet(dispatched) /\ Cardinality(dispatched) \in Nat
<1>1. Due(t) \in SUBSET queue /\ IsFiniteSet(queue) /\ IsFiniteSet(dispatched)
  BY DEF Due, Written
<1>2. IsFiniteSet(Due(t))
  BY <1>1, FS_Subset
<1> QED BY <1>1, <1>2, FS_CardinalityType

LEMMA AnswersType ==
  ASSUME TypeOK
  PROVE  /\ Answers \in Nat /\ Len(newEvents) \in Nat
         /\ Len(todo) \in Nat /\ Len(events[self]) \in Nat
<1>1. /\ Len(newEvents) \in Nat /\ Len(todo) \in Nat
      /\ Len(events[self]) \in Nat
  BY DEF TypeOK
<1> QED BY <1>1 DEF Answers

LEMMA AskedType ==
  ASSUME IInv
  PROVE  Asked \in 0 .. Len(modules)
<1>1. Len(modules) \in Nat
  BY DEF IInv, TypeOK
<1>2. /\ phase \in {"notifying", "handling"} => i \in 1 .. Len(modules) + 1
      /\ phase = "handling" => i <= Len(modules)
  BY DEF IInv, Broadcast
<1> QED BY <1>1, <1>2 DEF Asked

(* Whom letters are expected from does not change while they are sent. *)
LEMMA CountsKept ==
  ASSUME modules' = modules
  PROVE  /\ Expected' = Expected
         /\ \A d : Earlier(d)' = Earlier(d)
         /\ \A d : Repliers(d)' = Repliers(d)
<1>1. Expected' = Expected
  BY DEF Expected, Plugged
<1> HIDE DEF Expected
<1>2. \A d : Earlier(d)' = Earlier(d)
  BY <1>1 DEF Earlier
<1>3. \A d : Repliers(d)' = Repliers(d)
  BY DEF Repliers, Count, First, Answering, Named
<1> QED BY <1>1, <1>2, <1>3

(* A step that concerns one answer at most, and not the queue. *)
LEMMA AccountKept ==
  ASSUME TypeOK, Written, Asked \in 0 .. Len(modules),
         UNCHANGED <<modules, dispatched, queue>>,
         NEW d \in 1 .. 6, NEW n \in Nat, Account(d, n),
         NEW k \in Nat, Answers' = Answers + k,
         Count(Asked, Answering(d))' = Count(Asked, Answering(d)) + k
  PROVE  Account(d, n)'
<1> DEFINE due == Cardinality(Due(10 * d + 10))
           all == n * Repliers(d)
           asked == Count(Asked, Answering(d))
<1>1. due \in Nat /\ Answers \in Nat /\ asked \in Nat /\ all \in Nat
  <2>1. Repliers(d) \in Nat
    <3>1. d \in Nat
      OBVIOUS
    <3> QED BY <3>1, RepliersType
  <2>2. asked \in Nat
    BY CountType
  <2> QED BY <2>1, <2>2, DueType, AnswersType
<1>2. due + Answers = all + asked
  BY DEF Account
<1>3. /\ Expected' = Expected /\ Earlier(d)' = Earlier(d)
      /\ Repliers(d)' = Repliers(d)
  BY CountsKept
<1>4. due' = due /\ Due(10 * d)' = Due(10 * d) /\ all' = all
  BY <1>3 DEF Due
<1>5. asked' = asked + k
  OBVIOUS
<1> HIDE DEF due, all, asked
<1>6. due' + Answers' = all' + asked'
  BY <1>1, <1>2, <1>4, <1>5
<1>7. d > 0 /\ d # 0
  OBVIOUS
<1> QED BY <1>3, <1>4, <1>6, <1>7 DEF Account, due, all, asked

LEMMA AccountSend ==
  ASSUME IInv, Turns, Written, NEW d \in 1 .. 6, NEW n \in Nat, Account(d, n),
         phase = "handling", sendWithDelay
  PROVE  Account(d, n)'
<1>1. UNCHANGED <<phase, modules, dispatched, queue, self, i, newEvents>>
  BY DEF sendWithDelay, mainVars, historyVars
<1>2. /\ Len(todo') = Len(todo) - 1
      /\ Len(events'[self]) = Len(events[self]) + 1
  <2>1. events[self] \in Seq(Events) /\ NewEvent \in Events
    BY NewLetter DEF IInv, TypeOK
  <2>2. events'[self] = Append(events[self], NewEvent) /\ todo' = Tail(todo)
    BY NewLetter
  <2>3. Len(todo') = Len(todo) - 1
    BY NewLetter
  <2> HIDE DEF NewEvent
  <2> QED BY <2>1, <2>2, <2>3, AppendElements
<1>3. Answers' = Answers + 0
  <2>1. TypeOK
    BY DEF IInv
  <2>2. \A x, y, z \in Nat : x + ((y + 1) + (z - 1)) = (x + (y + z)) + 0
    OBVIOUS
  <2>3. /\ Answers = Len(newEvents) + (Len(events[self]) + Len(todo))
        /\ Answers' = Len(newEvents) + (Len(events'[self]) + Len(todo'))
    BY <1>1 DEF Answers
  <2> QED BY <1>2, <2>1, <2>2, <2>3, AnswersType
<1>4. Count(Asked, Answering(d))' = Count(Asked, Answering(d)) + 0
  <2>1. Count(Asked, Answering(d))' = Count(Asked, Answering(d))
    BY <1>1 DEF Asked, Count, First, Answering, Named
  <2>2. Count(Asked, Answering(d)) \in Nat
    BY AskedType, CountType DEF IInv
  <2> QED BY <2>1, <2>2
<1> QED BY <1>1, <1>3, <1>4, AccountKept, AskedType DEF IInv

LEMMA AccountNotify ==
  ASSUME IInv, Turns, Written, NEW d \in 1 .. 6, NEW n \in Nat, Account(d, n),
         currentTime = 10 * d, notify
  PROVE  Account(d, n)'
<1>1. /\ phase = "notifying" /\ phase' = "handling" /\ self' = modules[i]
      /\ UNCHANGED <<modules, dispatched, queue, i, newEvents, events>>
      /\ i <= Len(modules)
  BY DEF notify, mainVars, historyVars, senderVars
<1> DEFINE k == Len(todo')
<1>2. /\ k = IF modules[i] \in Answering(d) THEN 1 ELSE 0
      /\ events[modules[i]] = <<>>
  <2>1. d \in Nat
    OBVIOUS
  <2> QED BY <2>1, NotifiedAnswers
<1>3. Answers' = Answers + k
  <2>1. TypeOK
    BY DEF IInv
  <2>2. Answers = Len(newEvents) + 0
    BY <1>1 DEF Answers
  <2>3. Answers' = Len(newEvents) + (0 + k)
    BY <1>1, <1>2 DEF Answers
  <2> HIDE DEF k
  <2> QED BY <1>2, <2>1, <2>2, <2>3, AnswersType
<1>4. Count(Asked, Answering(d))' = Count(Asked, Answering(d)) + k
  <2>1. Count(Asked, Answering(d))' = Count(i, Answering(d))
    BY <1>1 DEF Asked, Count, First, Answering, Named
  <2>2. Asked = i - 1
    BY <1>1 DEF Asked
  <2>3. TypeOK /\ IsInjective(modules)
    BY DEF IInv, Broadcast
  <2>4. i \in 1 .. Len(modules)
    <3>1. i \in 1 .. Len(modules) + 1 /\ Len(modules) \in Nat
      BY <1>1 DEF IInv, Broadcast, TypeOK
    <3> QED BY <1>1, <3>1
  <2> HIDE DEF k
  <2> QED BY <1>2, <2>1, <2>2, <2>3, <2>4, CountNext
<1>5. k \in Nat
  BY <1>2
<1> HIDE DEF k
<1> QED BY <1>1, <1>3, <1>4, <1>5, AccountKept, AskedType DEF IInv

LEMMA AccountReturns ==
  ASSUME IInv, Written, NEW d \in 1 .. 6, NEW n \in Nat, Account(d, n),
         notifyReturns
  PROVE  Account(d, n)'
<1>1. /\ phase = "handling" /\ phase' = "notifying" /\ i' = i + 1
      /\ todo = <<>> /\ UNCHANGED <<modules, dispatched, queue>>
  BY DEF notifyReturns, mainVars, historyVars
<1>2. TypeOK /\ TypeOK' /\ i \in Nat
  <2>1. [Next]_vars
    BY DEF Next, Step
  <2> QED BY <2>1, NextIInv DEF IInv, TypeOK
<1>3. Len(newEvents') = Len(newEvents) + Len(events[self])
  <2>1. DOMAIN newEvents' = 1 .. Len(newEvents) + Len(events[self])
    BY NotifyReturnsEffect
  <2>2. DOMAIN newEvents' = 1 .. Len(newEvents') /\ Len(newEvents') \in Nat
    BY <1>2 DEF TypeOK
  <2>3. \A x, y \in Nat : 1 .. x = 1 .. y => x = y
    <3> SUFFICES ASSUME NEW x \in Nat, NEW y \in Nat, 1 .. x = 1 .. y, x # y
                 PROVE  FALSE
      OBVIOUS
    <3>1. x < y => y \in 1 .. y /\ y \notin 1 .. x
      OBVIOUS
    <3>2. y < x => x \in 1 .. x /\ x \notin 1 .. y
      OBVIOUS
    <3> QED BY <3>1, <3>2
  <2>4. Len(newEvents) + Len(events[self]) \in Nat
    BY <1>2, AnswersType
  <2> QED BY <2>1, <2>2, <2>3, <2>4
<1>4. Answers' = Answers + 0
  <2>1. Len(todo) = 0
    BY <1>1
  <2>2. Answers = Len(newEvents) + (Len(events[self]) + 0)
    BY <1>1, <2>1 DEF Answers
  <2>3. Answers' = Len(newEvents') + 0
    BY <1>1 DEF Answers
  <2> QED BY <1>2, <1>3, <2>2, <2>3, AnswersType
<1>5. Count(Asked, Answering(d))' = Count(Asked, Answering(d)) + 0
  <2>1. Asked = i /\ Asked' = i
    BY <1>1, <1>2 DEF Asked
  <2>2. Count(Asked, Answering(d))' = Count(Asked, Answering(d))
    BY <1>1, <2>1 DEF Count, First, Answering, Named
  <2>3. Count(Asked, Answering(d)) \in Nat
    BY <1>2, AskedType, CountType
  <2> QED BY <2>2, <2>3
<1> QED BY <1>1, <1>2, <1>4, <1>5, AccountKept, AskedType

(* Steps that change nothing but the phase. *)
LEMMA AccountIdle ==
  ASSUME IInv, Written, NEW d \in 1 .. 6, NEW n \in Nat, Account(d, n),
         \/ EndOfTick \/ RunReturns \/ UNCHANGED vars
  PROVE  Account(d, n)'
<1>1. UNCHANGED <<modules, dispatched, queue>>
  BY DEF EndOfTick, RunReturns, vars, mainVars, historyVars
<1>2. /\ Answers' = Answers
      /\ Count(Asked, Answering(d))' = Count(Asked, Answering(d))
  <2>1. CASE EndOfTick \/ RunReturns
    <3>1. /\ UNCHANGED <<modules, newEvents>>
          /\ phase \notin {"notifying", "handling"}
          /\ phase' \notin {"notifying", "handling"}
      BY <2>1 DEF EndOfTick, RunReturns, mainVars
    <3> QED BY <3>1 DEF Asked, Answers, Count, First, Answering, Named
  <2>2. CASE UNCHANGED vars
    BY <2>2 DEF vars, mainVars, senderVars, Asked, Answers, Count, First,
                Answering, Named
  <2> QED BY <2>1, <2>2
<1>3. /\ Answers \in Nat /\ Count(Asked, Answering(d)) \in Nat /\ TypeOK
      /\ Asked \in 0 .. Len(modules)
  BY AnswersType, AskedType, CountType DEF IInv
<1>4. /\ Answers' = Answers + 0
      /\ Count(Asked, Answering(d))' = Count(Asked, Answering(d)) + 0
  BY <1>2, <1>3
<1> QED BY <1>1, <1>3, <1>4, AccountKept

(* The letter at work has been answered by all who answer it. *)
LEMMA AccountPop ==
  ASSUME IInv, Turns, Posted, Written,
         NEW d \in 1 .. 6, NEW n \in Nat, Account(d, n),
         currentTime = 10 * d, pop
  PROVE  Account(d, n + 1)'
<1>1. /\ phase = "notifying" /\ phase' = "inserting"
      /\ ~(i <= Len(modules) /\ top.valid)
      /\ queue' = {e \in queue : e.id # top.id}
      /\ dispatched' = dispatched \cup {top.id}
      /\ UNCHANGED <<modules, newEvents>>
  BY DEF pop, mainVars
<1>2. Asked = Len(modules)
  <2>1. i \in 1 .. Len(modules) + 1 /\ Len(modules) \in Nat
    BY <1>1 DEF IInv, Broadcast, TypeOK
  <2>2. ~(i <= Len(modules))
    BY <1>1 DEF Posted
  <2> QED BY <1>1, <2>1, <2>2 DEF Asked
<1>3. PICK e \in queue : e.id = top.id /\ e.time = 10 * d
  <2>1. d \in Nat
    OBVIOUS
  <2> QED BY <1>1, <2>1, AtWork
<1>4. \A f \in queue : f.id = top.id <=> f = e
  BY <1>3 DEF IInv, NoMessageLost
<1>5. /\ e \in Due(10 * d) /\ Due(10 * d)' = Due(10 * d) \ {e}
      /\ Due(10 * d + 10)' = Due(10 * d + 10)
  <2>1. queue' = queue \ {e}
    BY <1>1, <1>4
  <2>2. e.time # 10 * d + 10
    BY <1>3
  <2> QED BY <1>3, <2>1, <2>2 DEF Due
<1>6. Cardinality(Due(10 * d)') = Cardinality(Due(10 * d)) - 1
  BY <1>5, DueType, FS_RemoveElement
<1>7. Cardinality(dispatched') = Cardinality(dispatched) + 1
  <2>1. top.id \notin dispatched
    BY <1>3, Located DEF IInv, Partition, Ids
  <2> QED BY <1>1, <2>1, DueType, FS_AddElement
<1>8. Answers' = Answers
  <2>1. Answers = Len(newEvents) + 0
    BY <1>1 DEF Answers
  <2>2. Answers' = Len(newEvents) + 0
    BY <1>1 DEF Answers
  <2> QED BY <2>1, <2>2
<1>9. Count(Asked, Answering(d)) = Repliers(d)
  BY <1>2 DEF Repliers
<1>10. Count(Asked, Answering(d))' = 0
  <2>1. Asked' = 0
    BY <1>1 DEF Asked
  <2>2. Count(Asked, Answering(d))' = Count(0, Answering(d))
    BY <2>1 DEF Count, First, Answering, Named
  <2> QED BY <2>2, CountNone
<1>11. /\ Cardinality(dispatched) = Earlier(d) + n
       /\ Expected[d] >= 1 /\ n + Cardinality(Due(10 * d)) = Expected[d]
       /\ Cardinality(Due(10 * d + 10)) + Answers
            = n * Repliers(d) + Count(Asked, Answering(d))
  BY DEF Account
<1>12. /\ Expected' = Expected /\ Earlier(d)' = Earlier(d)
       /\ Repliers(d)' = Repliers(d)
  BY <1>1, CountsKept
<1>13. /\ Cardinality(Due(10 * d)) \in Nat /\ Cardinality(dispatched) \in Nat
       /\ Earlier(d) \in Nat /\ Repliers(d) \in Nat
  <2>1. d \in Nat /\ TypeOK
    BY DEF IInv
  <2> QED BY <2>1, DueType, EarlierNext, RepliersType
<1>14. Cardinality(dispatched)' = Earlier(d)' + (n + 1)
  BY <1>7, <1>11, <1>12, <1>13
<1>15. (n + 1) + Cardinality(Due(10 * d))' = Expected'[d]
  BY <1>6, <1>11, <1>12, <1>13
<1>16. Cardinality(Due(10 * d + 10))' + Answers'
         = (n + 1) * Repliers(d)' + Count(Asked, Answering(d))'
  <2>1. \A x, y \in Nat : x * y + y = (x + 1) * y + 0
    OBVIOUS
  <2>2. n * Repliers(d) + Repliers(d) = (n + 1) * Repliers(d) + 0
    BY <1>13, <2>1
  <2> QED BY <1>5, <1>8, <1>9, <1>10, <1>11, <1>12, <2>2
<1>17. d # 0 /\ Expected'[d] >= 1
  BY <1>11, <1>12
<1> QED BY <1>14, <1>15, <1>16, <1>17 DEF Account

LEMMA AccountInsert ==
  ASSUME IInv, Turns, Posted, Written,
         NEW d \in 1 .. 6, NEW n \in Nat, Account(d, n),
         currentTime = 10 * d, insert
  PROVE  Account(d, n)'
<1> DEFINE e == newEvents[Len(newEvents)]
<1>1. /\ phase = "inserting" /\ phase' = "inserting" /\ newEvents # <<>>
      /\ queue' = queue \cup Insertable({e})
      /\ newEvents' = SubSeq(newEvents, 1, Len(newEvents) - 1)
      /\ UNCHANGED <<modules, dispatched>>
  BY DEF insert, mainVars
<1>2. e \in ToSet(newEvents) /\ e.time = 10 * d + 10
  BY LastOnce DEF Posted
<1>3. e \notin queue
  <2>1. Ids(queue) \cap Ids(ToSet(newEvents)) = {}
    BY Located DEF IInv, Partition
  <2> HIDE DEF e
  <2> QED BY <1>2, <2>1 DEF Ids
<1>4. Len(newEvents') = Len(newEvents) - 1 /\ Len(newEvents) \in Nat
  <2>1. newEvents \in Seq(Events)
    BY DEF IInv, TypeOK
  <2>2. Len(newEvents) \in Nat \ {0} /\ Len(newEvents) - 1 \in Nat
    BY <1>1, <2>1
  <2> HIDE DEF e
  <2>3. Len(SubSeq(newEvents, 1, Len(newEvents) - 1)) = Len(newEvents) - 1
    <3>1. \A s \in Seq(Events) : \A n1 \in Nat :
            n1 <= Len(s) => Len(SubSeq(s, 1, n1)) = n1
      OBVIOUS
    <3> DEFINE m == Len(newEvents) - 1
    <3>2. m \in Nat /\ m <= Len(newEvents)
      BY <2>2
    <3> HIDE DEF m
    <3>3. Len(SubSeq(newEvents, 1, m)) = m
      BY <2>1, <3>1, <3>2
    <3> QED BY <3>3 DEF m
  <2> QED BY <1>1, <2>2, <2>3
<1> HIDE DEF e
<1>5. queue' = queue \cup {e}
  <2>1. Insertable({e}) = {e}
    BY <1>2 DEF Insertable, insertable
  <2> QED BY <1>1, <2>1
<1>6. /\ Due(10 * d + 10)' = Due(10 * d + 10) \cup {e}
      /\ e \notin Due(10 * d + 10)
      /\ Due(10 * d)' = Due(10 * d)
  <2>1. e.time # 10 * d
    BY <1>2
  <2> QED BY <1>2, <1>3, <1>5, <2>1 DEF Due
<1>7. /\ Cardinality(Due(10 * d + 10)') = Cardinality(Due(10 * d + 10)) + 1
      /\ Cardinality(Due(10 * d + 10)) \in Nat
  BY <1>6, DueType, FS_AddElement
<1>8. Answers = Len(newEvents) /\ Answers' = Answers - 1 /\ Answers \in Nat
  <2>1. Answers = Len(newEvents) + 0
    BY <1>1 DEF Answers
  <2>2. Answers' = Len(newEvents') + 0
    BY <1>1 DEF Answers
  <2> QED BY <1>4, <2>1, <2>2
<1>9. /\ Expected' = Expected /\ Earlier(d)' = Earlier(d)
      /\ Repliers(d)' = Repliers(d)
  BY <1>1, CountsKept
<1>10. Count(Asked, Answering(d))' = Count(Asked, Answering(d))
  BY <1>1 DEF Asked, Count, First, Answering, Named
<1>11. Cardinality(Due(10 * d + 10))' + Answers'
         = Cardinality(Due(10 * d + 10)) + Answers
  BY <1>7, <1>8
<1>12. d # 0 /\ d > 0
  OBVIOUS
<1> QED BY <1>1, <1>6, <1>9, <1>10, <1>11, <1>12 DEF Account

(* The loop of run() begins. *)
LEMMA AccountInitialized ==
  ASSUME IInv, Turns, Posted, Written, Initialized
  PROVE  currentTime' = 0 /\ Account(0, 0)'
<1>1. /\ phase = "initializing" /\ phase' = "looping" /\ i > Len(modules)
      /\ UNCHANGED <<modules, dispatched, queue, currentTime>>
  BY DEF Initialized, mainVars, historyVars
<1>2. currentTime = 0 /\ TypeOK
  BY <1>1 DEF IInv, Clocks
<1>3. \A e \in queue : e.time = 10
  <2> SUFFICES ASSUME NEW e \in queue PROVE e.time = 10
    OBVIOUS
  <2>1. InTurn(e.msg, e.time - 10) /\ (e.time = 0 \/ e.time = 10)
    BY <1>2, TurnsParts DEF Pending, Posted
  <2> QED BY <2>1 DEF InTurn
<1>4. Due(10)' = queue
  BY <1>1, <1>3 DEF Due
<1>5. Cardinality(queue) = Expected[1]
  <2>1. i - 1 = Len(modules)
    <3>1. i \in 1 .. Len(modules) + 1
      BY <1>1 DEF Written
    <3>2. Len(modules) \in Nat
      BY <1>2 DEF TypeOK
    <3> QED BY <1>1, <3>1, <3>2
  <2>2. Cardinality(queue) = Count(Len(modules), Named(Alice))
    BY <1>1, <2>1 DEF Written
  <2> QED BY <1>2, <2>2, PluggedNamed, ExpectedValues
<1>6. Cardinality(dispatched) = 0
  BY <1>1, FS_EmptySet DEF Written, Early
<1>7. Earlier(0)' = 0 /\ Expected' = Expected
  BY <1>1, <1>2, EarlierNext, CountsKept
<1> QED BY <1>1, <1>2, <1>4, <1>5, <1>6, <1>7 DEF Account

(* Another letter is due at the same tick as the last one. *)
LEMMA AccountTick ==
  ASSUME IInv, Turns, Posted, Written, tick,
         NEW d \in 0 .. 6, NEW n \in Nat, Account(d, n),
         currentTime = 10 * d, currentTime' = currentTime
  PROVE  Account(d, n)'
<1>1. /\ phase = "looping" /\ phase' = "notifying" /\ i' = 1
      /\ UNCHANGED <<modules, dispatched, queue, newEvents>>
  BY DEF tick, mainVars, historyVars
<1>2. d \in 1 .. 6
  <2>1. PICK e \in queue : currentTime' = e.time
    BY DEF tick
  <2>2. e.time = 10 * d /\ e.time - 10 \in 0 .. 50
    BY <2>1, TurnsParts DEF Pending, InTurn
  <2> QED BY <2>2
<1>3. Answers \in Nat /\ Answers' = Answers
  <2>1. Answers = Len(newEvents) + 0 /\ Answers' = Len(newEvents) + 0
    BY <1>1 DEF Answers
  <2> QED BY <2>1, AnswersType DEF IInv
<1>4. /\ Count(Asked, Answering(d)) = 0
      /\ Count(Asked, Answering(d))' = 0
  <2>1. Asked = 0 /\ Asked' = 0
    BY <1>1 DEF Asked
  <2>2. Count(Asked, Answering(d))' = Count(0, Answering(d))
    BY <1>1, <2>1 DEF Count, First, Answering, Named
  <2> QED BY <2>1, <2>2, CountNone
<1>5. /\ Answers' = Answers + 0
      /\ Count(Asked, Answering(d))' = Count(Asked, Answering(d)) + 0
  BY <1>3, <1>4
<1> QED BY <1>1, <1>2, <1>5, AccountKept, AskedType DEF IInv

(* Between ticks with no letter left for a decade, all that are due at the *)
(* next one are in the queue.                                              *)
LEMMA DecadeOver ==
  ASSUME IInv, Posted, Written, phase \in {"looping", "done"},
         NEW d \in 0 .. 6, NEW n \in Nat, Account(d, n),
         d > 0 => Due(10 * d) = {}
  PROVE  /\ Cardinality(dispatched) = Earlier(IF d = 0 THEN 1 ELSE d + 1)
         /\ d # 6 => Cardinality(Due(10 * d + 10)) = Expected[d + 1]
         /\ d > 0 => n = Expected[d] /\ Expected[d] >= 1
<1>1. TypeOK
  BY DEF IInv
<1>2. CASE d = 0
  BY <1>1, <1>2, EarlierNext DEF Account
<1>3. CASE d \in 1 .. 6
  <2>1. d > 0 /\ d # 0 /\ d \in Nat
    BY <1>3
  <2>2. /\ Cardinality(dispatched) = Earlier(d) + n
        /\ Expected[d] >= 1 /\ n + Cardinality(Due(10 * d)) = Expected[d]
        /\ Cardinality(Due(10 * d + 10)) + Answers
             = n * Repliers(d) + Count(Asked, Answering(d))
    BY <2>1 DEF Account
  <2>3. Cardinality(Due(10 * d)) = 0
    BY <2>1, FS_EmptySet
  <2>4. n = Expected[d]
    BY <2>2, <2>3
  <2>5. Cardinality(dispatched) = Earlier(d + 1)
    BY <1>1, <1>3, <2>2, <2>4, EarlierNext
  <2>6. Answers = 0
    <3>1. newEvents = <<>>
      BY DEF IInv, SentInTick
    <3>2. Len(newEvents) = 0
      BY <3>1
    <3> QED BY <3>2 DEF Answers
  <2>7. Count(Asked, Answering(d)) = 0
    BY CountNone DEF Asked
  <2>8. Cardinality(Due(10 * d + 10)) = n * Repliers(d)
    <3>1. /\ Cardinality(Due(10 * d + 10)) \in Nat /\ Repliers(d) \in Nat
      BY <1>1, <2>1, DueType, RepliersType
    <3>2. n * Repliers(d) \in Nat
      BY <3>1
    <3> QED BY <2>2, <2>6, <2>7, <3>1, <3>2
  <2>9. d # 6 => Expected[d + 1] = Expected[d] * Repliers(d)
    <3>1. d # 6 => d \in 1 .. 5
      BY <1>3
    <3> QED BY <1>1, <3>1, ExpectedNext
  <2> QED BY <2>1, <2>2, <2>4, <2>5, <2>8, <2>9
<1> QED BY <1>2, <1>3

(* The first letter of the next decade is due. *)
LEMMA AccountNextDecade ==
  ASSUME IInv, Turns, Posted, Written, tick,
         NEW d \in 0 .. 6, NEW n \in Nat, Account(d, n),
         currentTime = 10 * d, currentTime' = currentTime + 10
  PROVE  d + 1 \in 1 .. 6 /\ Account(d + 1, 0)'
<1>1. /\ phase = "looping" /\ phase' = "notifying" /\ i' = 1
      /\ UNCHANGED <<modules, dispatched, queue, newEvents>>
  BY DEF tick, mainVars, historyVars
<1>2. PICK e \in queue : currentTime' = e.time /\ \A f \in queue : e.time <= f.time
  BY DEF tick
<1>3. e.time = 10 * d + 10 /\ d + 1 \in 1 .. 6
  <2>1. e.time = 10 * d + 10 /\ e.time - 10 \in 0 .. 50
    BY <1>2, TurnsParts DEF Pending, InTurn
  <2> QED BY <2>1
<1>4. /\ Due(10 * d) = {} /\ Due(10 * d + 20) = {}
      /\ e \in Due(10 * d + 10)
  <2>1. \A f \in queue : f.time = 10 * d \/ f.time = 10 * d + 10
    BY DEF Posted
  <2>2. ~(10 * d + 10 <= 10 * d) /\ 10 * d + 20 # 10 * d /\ 10 * d + 20 # 10 * d + 10
    OBVIOUS
  <2> QED BY <1>2, <1>3, <2>1, <2>2 DEF Due
<1>5. /\ Cardinality(dispatched) = Earlier(d + 1)
      /\ Cardinality(Due(10 * d + 10)) = Expected[d + 1]
  <2>1. d # 6 /\ (d = 0 => d + 1 = 1)
    BY <1>3
  <2> QED BY <1>1, <1>4, <2>1, DecadeOver
<1>6. Expected[d + 1] >= 1
  <2>1. Cardinality(Due(10 * d + 10)) # 0 /\ Cardinality(Due(10 * d + 10)) \in Nat
    BY <1>4, DueType, FS_EmptySet
  <2> QED BY <1>5, <2>1
<1> DEFINE c == d + 1
<1>7. 10 * c = 10 * d + 10 /\ 10 * c + 10 = 10 * d + 20 /\ c # 0 /\ c > 0 /\ c \in 1 .. 6
  BY <1>3
<1> HIDE DEF c
<1>8. /\ Due(10 * c)' = Due(10 * d + 10) /\ Due(10 * c + 10)' = {}
      /\ Expected' = Expected /\ Earlier(c)' = Earlier(c)
      /\ Repliers(c)' = Repliers(c)
  BY <1>1, <1>4, <1>7, CountsKept DEF Due
<1>9. Answers' = 0
  <2>1. newEvents' = <<>>
    BY <1>1 DEF IInv, SentInTick
  <2>2. Len(newEvents') = 0
    BY <2>1
  <2> QED BY <1>1, <2>2 DEF Answers
<1>10. Count(Asked, Answering(c))' = 0
  <2>1. Asked' = 0
    BY <1>1 DEF Asked
  <2>2. Count(Asked, Answering(c))' = Count(0, Answering(c))
    BY <2>1 DEF Count, First, Answering, Named
  <2> QED BY <2>2, CountNone
<1>11. /\ Earlier(c) \in Nat /\ Expected[c] \in Nat /\ Repliers(c) \in Nat
  <2>1. TypeOK /\ c \in Nat
    BY <1>7 DEF IInv
  <2> QED BY <1>7, <2>1, EarlierNext, ExpectedType, RepliersType
<1>12. Cardinality(dispatched)' = Earlier(c)' + 0
  BY <1>1, <1>5, <1>8, <1>11 DEF c
<1>13. Expected'[c] >= 1 /\ 0 + Cardinality(Due(10 * c))' = Expected'[c]
  <2>1. Cardinality(Due(10 * c))' = Expected[c] /\ Expected[c] >= 1
    BY <1>5, <1>6, <1>8 DEF c
  <2> QED BY <1>8, <1>11, <2>1
<1>14. Cardinality(Due(10 * c + 10))' + Answers'
         = 0 * Repliers(c)' + Count(Asked, Answering(c))'
  <2>1. Cardinality(Due(10 * c + 10))' = 0
    BY <1>8, FS_EmptySet
  <2>2. 0 * Repliers(c) = 0
    BY <1>11
  <2> QED BY <1>8, <1>9, <1>10, <2>1, <2>2
<1>15. Account(c, 0)'
  BY <1>7, <1>12, <1>13, <1>14 DEF Account
<1> QED BY <1>3, <1>15 DEF c

LEMMA AccountedNext ==
  ASSUME IInv, Turns, Posted, Written, Accounted, [Next]_vars
  PROVE  Accounted'
<1> SUFFICES ASSUME ~Early'
             PROVE  \E d \in 0 .. 6 : \E n \in Nat :
                      currentTime' = 10 * d /\ Account(d, n)'
  BY DEF Accounted
<1>1. CASE Initialized
  <2>1. /\ 0 \in 0 .. 6 /\ 0 \in Nat /\ currentTime' = 10 * 0
        /\ Account(0, 0)'
    BY <1>1, AccountInitialized
  <2> QED BY <2>1
<1>2. CASE ~Early
  <2>1. PICK d \in 0 .. 6, n \in Nat : currentTime = 10 * d /\ Account(d, n)
    BY <1>2 DEF Accounted
  <2>2. d # 0 \/ phase \in {"looping", "done"}
    BY <2>1 DEF Account
  <2>3. d # 0 => d \in 1 .. 6
    OBVIOUS
  <2>4. CASE tick
    <3>1. currentTime' = currentTime \/ currentTime' = currentTime + 10
      BY <2>4 DEF tick, Posted
    <3>2. CASE currentTime' = currentTime
      BY <2>1, <2>4, <3>2, AccountTick
    <3>3. CASE currentTime' = currentTime + 10
      <4>1. d + 1 \in 1 .. 6 /\ Account(d + 1, 0)'
        BY <2>1, <2>4, <3>3, AccountNextDecade
      <4>2. d + 1 \in 0 .. 6 /\ 0 \in Nat /\ currentTime' = 10 * (d + 1)
        BY <2>1, <3>3, <4>1
      <4> QED BY <4>1, <4>2
    <3> QED BY <3>1, <3>2, <3>3
  <2>5. CASE pop
    <3>1. d \in 1 .. 6
      BY <2>2, <2>3, <2>5 DEF pop
    <3>2. Account(d, n + 1)'
      BY <2>1, <2>5, <3>1, AccountPop
    <3>3. n + 1 \in Nat /\ currentTime' = currentTime
      BY <2>5 DEF pop
    <3> QED BY <2>1, <3>2, <3>3
  <2>6. CASE \/ sendWithDelay \/ notify \/ notifyReturns \/ insert
             \/ EndOfTick
    <3>1. d \in 1 .. 6
      BY <1>2, <2>2, <2>3, <2>6
      DEF sendWithDelay, notify, notifyReturns, insert, EndOfTick
    <3>2. currentTime' = currentTime
      BY <2>6
      DEF sendWithDelay, notify, notifyReturns, insert, EndOfTick
    <3>3. sendWithDelay => phase = "handling"
      BY <1>2 DEF sendWithDelay, Early
    <3>4. Account(d, n)'
      BY <2>1, <2>6, <3>1, <3>3, AccountSend, AccountNotify, AccountReturns,
         AccountInsert, AccountIdle
    <3> QED BY <2>1, <3>2, <3>4
  <2>7. CASE RunReturns \/ UNCHANGED vars
    <3>1. currentTime' = currentTime
      BY <2>7 DEF RunReturns, vars
    <3>2. CASE d # 0
      <4>1. Account(d, n)'
        BY <2>1, <2>3, <2>7, <3>2, AccountIdle
      <4> QED BY <2>1, <3>1, <4>1
    <3>3. CASE d = 0
      <4>1. /\ UNCHANGED <<modules, dispatched, queue>>
            /\ phase \in {"looping", "done"} => phase' \in {"looping", "done"}
        BY <2>7 DEF RunReturns, vars, mainVars, historyVars
      <4>2. /\ Expected' = Expected /\ Earlier(d)' = Earlier(d)
            /\ Due(10)' = Due(10) /\ ~(d > 0)
        BY <3>3, <4>1, CountsKept DEF Due
      <4>3. Account(d, n)'
        BY <2>1, <3>3, <4>1, <4>2 DEF Account
      <4> QED BY <2>1, <3>1, <4>3
    <3> QED BY <3>2, <3>3
  <2>8. ~run /\ ~initialize /\ ~ConstructorReturns
        /\ \A m \in Modules : ~Construct(m) /\ ~addModule(m)
    BY <1>2 DEF Early, run, initialize, ConstructorReturns, Construct, addModule
  <2> QED BY <1>1, <2>4, <2>5, <2>6, <2>7, <2>8 DEF Next, Step, Done
<1>3. CASE Early /\ ~Initialized
  <2>1. Early'
    BY <1>3
    DEF Early, Next, Step, Done, vars, Construct, addModule,
        ConstructorReturns, sendWithDelay, run, initialize, tick, notify,
        notifyReturns, pop, insert, EndOfTick, RunReturns
  <2> QED BY <2>1
<1> QED BY <1>1, <1>2, <1>3

LEMMA InitLInv == Init => LInv
<1> SUFFICES ASSUME Init PROVE LInv
  OBVIOUS
<1>1. Pending = {} /\ Unsent = {} /\ ToSet(newEvents) = {} /\ ToSet(modules) = {}
  BY DEF Init, Pending, Unsent, ToSet
<1>2. Turns
  BY <1>1, TurnsParts DEF Init
<1>3. Posted
  BY <1>1 DEF Init, Posted, Early
<1>4. Written
  <2>1. IsFiniteSet(queue) /\ IsFiniteSet(dispatched)
    BY FS_EmptySet DEF Init
  <2>2. \A m \in Modules : Len(events[m]) = 0
    BY DEF Init
  <2> QED BY <1>1, <2>1, <2>2 DEF Init, Written, Early
<1>5. Accounted
  BY DEF Init, Accounted, Early
<1> QED BY <1>2, <1>3, <1>4, <1>5 DEF LInv

THEOREM LetterInvariance == Spec => []LInv
<1>1. IInv /\ LInv /\ [Next]_vars => LInv'
  BY TurnsNext, PostedNext, WrittenNext, AccountedNext DEF LInv
<1> QED BY <1>1, InitLInv, Invariance, PTL DEF Spec

(* Two names answer each other until the end, or one is not there. *)
LEMMA ExpectedPattern ==
  ASSUME TypeOK
  PROVE  /\ \A d \in 1 .. 6 : Expected[d] \in Nat
         /\ \A d \in 1 .. 5 : Expected[d] = 0 => Expected[d + 1] = 0
         /\ Expected[2] >= 1 => \A d \in 1 .. 6 : Expected[d] >= 1
<1> DEFINE a == Cardinality(Plugged(Alice))
           b == Cardinality(Plugged(Bob))
<1>1. a \in Nat /\ b \in Nat
  BY RepliersType
<1>2. /\ Expected[1] = a
      /\ Expected[2] = Expected[1] * b /\ Expected[3] = Expected[2] * a
      /\ Expected[4] = Expected[3] * b /\ Expected[5] = Expected[4] * a
      /\ Expected[6] = Expected[5] * b
  BY ExpectedValues
<1> HIDE DEF a, b
<1>3. \A d \in 1 .. 6 : Expected[d] \in Nat
  BY ExpectedType
<1>4. ASSUME NEW d \in 1 .. 5, Expected[d] = 0 PROVE Expected[d + 1] = 0
  <2>1. Repliers(d) \in Nat
    <3>1. d \in Nat
      OBVIOUS
    <3> QED BY <3>1, RepliersType
  <2>2. Expected[d + 1] = 0 * Repliers(d)
    BY <1>4, ExpectedNext
  <2> QED BY <2>1, <2>2
<1>5. ASSUME Expected[2] >= 1 PROVE \A d \in 1 .. 6 : Expected[d] >= 1
  <2>1. \A x, y \in Nat : x * y >= 1 => x >= 1 /\ y >= 1
    <3>1. \A x \in Nat : x * 0 = 0 /\ 0 * x = 0
      OBVIOUS
    <3>2. \A x \in Nat : x = 0 \/ x >= 1
      OBVIOUS
    <3> QED BY <3>1, <3>2
  <2>2. \A x, y \in Nat : x >= 1 /\ y >= 1 => x * y >= 1 /\ x * y \in Nat
    OBVIOUS
  <2>3. a >= 1 /\ b >= 1
    BY <1>1, <1>2, <1>5, <2>1
  <2>4. Expected[3] >= 1 /\ Expected[4] >= 1
    BY <1>1, <1>2, <1>3, <1>5, <2>2, <2>3
  <2>5. Expected[5] >= 1 /\ Expected[6] >= 1
    BY <1>1, <1>2, <1>3, <2>2, <2>3, <2>4
  <2>6. \A d \in 1 .. 6 :
          d = 1 \/ d = 2 \/ d = 3 \/ d = 4 \/ d = 5 \/ d = 6
    OBVIOUS
  <2> QED BY <1>2, <1>5, <2>3, <2>4, <2>5, <2>6
<1> QED BY <1>3, <1>4, <1>5

(* When run() returns, each letter has reached each module of its          *)
(* addressee's name exactly once.                                          *)
THEOREM LettersExchangedHolds == Spec => []LettersExchanged
<1>1. ASSUME IInv, LInv, phase = "done" PROVE LettersExchanged
  <2> DEFINE total == Expected[1] + Expected[2] + Expected[3] + Expected[4]
                        + Expected[5] + Expected[6]
  <2>1. /\ Posted /\ Written /\ Accounted /\ TypeOK
    BY <1>1 DEF LInv, IInv
  <2>2. PICK d \in 0 .. 6, n \in Nat : currentTime = 10 * d /\ Account(d, n)
    BY <1>1, <2>1 DEF Accounted, Early
  <2>3. \A t : Due(t) = {} /\ Cardinality(Due(t)) = 0
    <3>1. \A t : Due(t) = {}
      BY <1>1, <2>1 DEF Posted, Due
    <3> QED BY <3>1, FS_EmptySet
  <2>4. /\ Cardinality(dispatched) = Earlier(IF d = 0 THEN 1 ELSE d + 1)
        /\ d # 6 => Cardinality(Due(10 * d + 10)) = Expected[d + 1]
        /\ d > 0 => n = Expected[d] /\ Expected[d] >= 1
    BY <1>1, <2>1, <2>2, <2>3, DecadeOver
  <2>5. d # 6 => Expected[d + 1] = 0
    BY <2>3, <2>4
  <2>6. /\ Expected[1] \in Nat /\ Expected[2] \in Nat /\ Expected[3] \in Nat
        /\ Expected[4] \in Nat /\ Expected[5] \in Nat /\ Expected[6] \in Nat
        /\ Expected[1] = 0 => Expected[2] = 0
        /\ Expected[2] = 0 => Expected[3] = 0
        /\ Expected[3] = 0 => Expected[4] = 0
        /\ Expected[4] = 0 => Expected[5] = 0
        /\ Expected[5] = 0 => Expected[6] = 0
    <3>1. 1 + 1 = 2 /\ 2 + 1 = 3 /\ 3 + 1 = 4 /\ 4 + 1 = 5 /\ 5 + 1 = 6
      OBVIOUS
    <3> HIDE DEF Expected
    <3>2. \A k \in 1 .. 5 : Expected[k] = 0 => Expected[k + 1] = 0
      BY <2>1, ExpectedPattern
    <3>3. \A k \in 1 .. 6 : Expected[k] \in Nat
      BY <2>1, ExpectedPattern
    <3>4. /\ Expected[1] \in Nat /\ Expected[2] \in Nat /\ Expected[3] \in Nat
          /\ Expected[4] \in Nat /\ Expected[5] \in Nat /\ Expected[6] \in Nat
      BY <3>3
    <3>5. /\ 1 \in 1 .. 5 /\ 2 \in 1 .. 5 /\ 3 \in 1 .. 5 /\ 4 \in 1 .. 5
          /\ 5 \in 1 .. 5
      OBVIOUS
    <3> QED BY <3>1, <3>2, <3>4, <3>5
  <2>7. /\ Earlier(1) = 0 /\ Earlier(2) = Earlier(1) + Expected[1]
        /\ Earlier(7) = total
    <3>1. 1 \in 1 .. 6 /\ 1 + 1 = 2
      OBVIOUS
    <3> QED BY <2>1, <3>1, EarlierNext
  <2>8. d = 0 \/ d = 1 \/ d = 6
    <3> SUFFICES ASSUME d \in 2 .. 5 PROVE FALSE
      OBVIOUS
    <3>1. /\ d + 1 \in 1 .. 6 /\ d # 6 /\ d > 0
          /\ d = 2 \/ d = 3 \/ d = 4 \/ d = 5
      OBVIOUS
    <3>2. Expected[d + 1] = 0 /\ Expected[d] # 0
      BY <2>4, <2>5, <3>1
    <3>3. Expected[2] # 0
      BY <2>6, <3>1, <3>2
    <3>4. Expected[2] >= 1
      BY <2>6, <3>3
    <3>5. Expected[d + 1] >= 1
      BY <2>1, <3>1, <3>4, ExpectedPattern
    <3> QED BY <3>2, <3>5
  <2>9. CASE d = 0
    <3>1. Expected[1] = 0 /\ Cardinality(dispatched) = 0
      BY <2>4, <2>5, <2>7, <2>9
    <3>2. total = 0 /\ Expected[6] = 0
      BY <2>6, <3>1
    <3> QED BY <2>2, <2>9, <3>1, <3>2 DEF LettersExchanged
  <2>10. CASE d = 1
    <3>1. /\ Expected[2] = 0 /\ Expected[1] >= 1
          /\ Cardinality(dispatched) = Expected[1]
      BY <2>4, <2>5, <2>6, <2>7, <2>10
    <3>2. total = Expected[1] /\ Expected[6] = 0 /\ Expected[1] > 0
      BY <2>6, <3>1
    <3> QED BY <2>2, <2>10, <3>1, <3>2 DEF LettersExchanged
  <2>11. CASE d = 6
    <3>1. Cardinality(dispatched) = total /\ Expected[6] >= 1
      BY <2>4, <2>7, <2>11
    <3>2. Expected[6] > 0
      BY <2>6, <3>1
    <3> QED BY <2>2, <2>11, <3>1, <3>2 DEF LettersExchanged
  <2> QED BY <2>8, <2>9, <2>10, <2>11
<1>2. IInv /\ LInv => LettersExchanged
  BY <1>1 DEF LettersExchanged
<1> QED BY <1>2, Invariance, LetterInvariance, PTL
=============================================================================
