------------------------- MODULE OrchestratorProofs -------------------------
(***************************************************************************)
(* Proofs about the orchestrator: for any modules, whatever they send,     *)
(* IInv is an inductive invariant, simulated time is monotone and the      *)
(* ticks are atomic.                                                       *)
(***************************************************************************)
EXTENDS Orchestrator, SequenceTheorems, TLAPS

-----------------------------------------------------------------------------
(* Sequences and integers *)

LEMMA WrapInts == \A n \in Int : Wrap(n) \in Ints
  BY OrchestratorAssumption DEF Wrap, Ints

(* The sum of two ints that are not negative wraps around once at most. *)
LEMMA WrapOnce ==
  \A n \in 0 .. 2 * IntLimit - 2 :
    Wrap(n) = IF n < IntLimit THEN n ELSE n - 2 * IntLimit
<1> SUFFICES ASSUME NEW n \in 0 .. 2 * IntLimit - 2
             PROVE  Wrap(n) = IF n < IntLimit THEN n ELSE n - 2 * IntLimit
  OBVIOUS
<1>1. CASE n < IntLimit
  <2>1. (n + IntLimit) % (2 * IntLimit) = n + IntLimit
    BY <1>1, OrchestratorAssumption
  <2> QED BY <1>1, <2>1, OrchestratorAssumption DEF Wrap
<1>2. CASE n >= IntLimit
  <2>1. (n + IntLimit) % (2 * IntLimit) = n - IntLimit
    BY <1>2, OrchestratorAssumption
  <2> QED BY <1>2, <2>1, OrchestratorAssumption DEF Wrap
<1> QED BY <1>1, <1>2, OrchestratorAssumption

LEMMA AppendElements ==
  ASSUME NEW S, NEW s \in Seq(S), NEW x \in S
  PROVE  /\ Append(s, x) \in Seq(S)
         /\ Len(Append(s, x)) = Len(s) + 1
         /\ DOMAIN Append(s, x) = 1 .. Len(s) + 1
         /\ \A k \in DOMAIN Append(s, x) :
              Append(s, x)[k] = IF k <= Len(s) THEN s[k] ELSE x
         /\ ToSet(Append(s, x)) = ToSet(s) \cup {x}
<1>1. /\ Append(s, x) \in Seq(S)
      /\ Len(Append(s, x)) = Len(s) + 1
      /\ DOMAIN Append(s, x) = 1 .. Len(s) + 1
      /\ \A k \in DOMAIN Append(s, x) :
           Append(s, x)[k] = IF k <= Len(s) THEN s[k] ELSE x
  OBVIOUS
<1> DEFINE a == Append(s, x)
<1> HIDE DEF a
<1>2. \A k \in 1 .. Len(s) : a[k] = s[k]
  BY <1>1 DEF a
<1>3. a[Len(s) + 1] = x
  BY <1>1 DEF a
<1>4. DOMAIN a = 1 .. Len(s) + 1 /\ DOMAIN s = 1 .. Len(s)
  BY <1>1 DEF a
<1>5. ToSet(a) = ToSet(s) \cup {x}
  BY <1>2, <1>3, <1>4 DEF ToSet
<1> QED BY <1>1, <1>5 DEF a

(* A sequence and a second one turned round. *)
LEMMA ConcatReverse ==
  ASSUME NEW S, NEW s \in Seq(S), NEW t \in Seq(S)
  PROVE  /\ s \o Reverse(t) \in Seq(S)
         /\ DOMAIN (s \o Reverse(t)) = 1 .. Len(s) + Len(t)
         /\ \A k \in 1 .. Len(s) + Len(t) :
              (s \o Reverse(t))[k] =
                IF k <= Len(s) THEN s[k] ELSE t[Len(t) + 1 - (k - Len(s))]
         /\ ToSet(s \o Reverse(t)) = ToSet(s) \cup ToSet(t)
<1> DEFINE r == Reverse(t)
<1>1. /\ r \in Seq(S) /\ Len(r) = Len(t)
      /\ \A k \in 1 .. Len(t) : r[k] = t[Len(t) + 1 - k]
  BY DEF Reverse
<1> HIDE DEF r
<1> DEFINE c == s \o r
<1> HIDE DEF c
<1>2. /\ c \in Seq(S)
      /\ Len(c) = Len(s) + Len(t)
      /\ \A k \in 1 .. Len(s) + Len(t) :
           c[k] = IF k <= Len(s) THEN s[k] ELSE r[k - Len(s)]
  <2>1. s \in Seq(S) /\ r \in Seq(S)
    BY <1>1
  <2>2. Len(c) = Len(s) + Len(r) /\ c \in Seq(S)
    BY <2>1, ConcatProperties DEF c
  <2>3. \A k \in 1 .. Len(s) + Len(r) :
          c[k] = IF k <= Len(s) THEN s[k] ELSE r[k - Len(s)]
    BY ONLY <2>1, ConcatProperties, Zenon DEF c
  <2> QED BY <1>1, <2>2, <2>3
<1>20. /\ DOMAIN c = 1 .. Len(s) + Len(t)
      /\ DOMAIN s = 1 .. Len(s) /\ DOMAIN t = 1 .. Len(t)
      /\ Len(s) \in Nat /\ Len(t) \in Nat
  BY <1>2
<1>3. \A k \in 1 .. Len(s) + Len(t) :
        c[k] = IF k <= Len(s) THEN s[k] ELSE t[Len(t) + 1 - (k - Len(s))]
  <2> SUFFICES ASSUME NEW k \in 1 .. Len(s) + Len(t), ~(k <= Len(s))
               PROVE  r[k - Len(s)] = t[Len(t) + 1 - (k - Len(s))]
    BY <1>2
  <2>1. k - Len(s) \in 1 .. Len(t)
    BY <1>20
  <2> QED BY <1>1, <2>1
<1>4. ToSet(c) \subseteq ToSet(s) \cup ToSet(t)
  <2> SUFFICES ASSUME NEW k \in 1 .. Len(s) + Len(t)
               PROVE  c[k] \in ToSet(s) \cup ToSet(t)
    BY <1>20 DEF ToSet
  <2>1. CASE k <= Len(s)
    BY <1>3, <1>20, <2>1 DEF ToSet
  <2>2. CASE ~(k <= Len(s))
    <3>1. Len(t) + 1 - (k - Len(s)) \in DOMAIN t
      BY <1>20, <2>2
    <3> QED BY <1>3, <2>2, <3>1 DEF ToSet
  <2> QED BY <2>1, <2>2
<1>5. ToSet(s) \subseteq ToSet(c)
  BY <1>2, <1>3, <1>20 DEF ToSet
<1>6. ToSet(t) \subseteq ToSet(c)
  <2> SUFFICES ASSUME NEW k \in 1 .. Len(t) PROVE t[k] \in ToSet(c)
    BY DEF ToSet
  <2>1. c[Len(s) + Len(t) + 1 - k] = t[k]
    BY <1>3, <1>20
  <2> QED BY <1>20, <2>1 DEF ToSet
<1>7. ToSet(c) = ToSet(s) \cup ToSet(t)
  BY <1>4, <1>5, <1>6
<1> QED BY <1>2, <1>3, <1>20, <1>7 DEF r, c

IsConcatReverse(c, s, t) ==
  /\ DOMAIN c = 1 .. Len(s) + Len(t)
  /\ \A k \in 1 .. Len(s) + Len(t) :
       c[k] = IF k <= Len(s) THEN s[k] ELSE t[Len(t) + 1 - (k - Len(s))]
  /\ ToSet(c) = ToSet(s) \cup ToSet(t)

LEMMA ConcatReverseIs ==
  ASSUME NEW S, NEW s \in Seq(S), NEW t \in Seq(S)
  PROVE  IsConcatReverse(s \o Reverse(t), s, t)
<1> DEFINE c == s \o Reverse(t)
<1>1. /\ DOMAIN c = 1 .. Len(s) + Len(t)
      /\ \A k \in 1 .. Len(s) + Len(t) :
           c[k] = IF k <= Len(s) THEN s[k] ELSE t[Len(t) + 1 - (k - Len(s))]
      /\ ToSet(c) = ToSet(s) \cup ToSet(t)
  BY ConcatReverse
<1> HIDE DEF c
<1>2. IsConcatReverse(c, s, t)
  BY <1>1 DEF IsConcatReverse
<1> QED BY <1>2 DEF c

(* A sequence without its last element. *)
LEMMA FrontElements ==
  ASSUME NEW S, NEW s \in Seq(S), s # <<>>
  PROVE  /\ SubSeq(s, 1, Len(s) - 1) \in Seq(S)
         /\ Len(s) \in DOMAIN s /\ s[Len(s)] \in S
         /\ DOMAIN s = 1 .. Len(s) /\ Len(s) \in Nat \ {0}
         /\ DOMAIN SubSeq(s, 1, Len(s) - 1) = 1 .. Len(s) - 1
         /\ \A k \in 1 .. Len(s) - 1 : SubSeq(s, 1, Len(s) - 1)[k] = s[k]
  OBVIOUS

LEMMA FrontSet ==
  ASSUME NEW S, NEW s \in Seq(S), s # <<>>
  PROVE  ToSet(s) = ToSet(SubSeq(s, 1, Len(s) - 1)) \cup {s[Len(s)]}
<1> DEFINE f == SubSeq(s, 1, Len(s) - 1)
<1>1. /\ DOMAIN f = 1 .. Len(s) - 1
      /\ \A k \in 1 .. Len(s) - 1 : f[k] = s[k]
      /\ DOMAIN s = 1 .. Len(s) /\ Len(s) \in Nat \ {0}
  BY FrontElements
<1> HIDE DEF f
<1>2. ToSet(s) = ToSet(f) \cup {s[Len(s)]}
  BY <1>1 DEF ToSet
<1> QED BY <1>2 DEF f

(* NoMessageLost without the indices. *)
Partition(n, u, q, w, d, x) ==
  /\ 1 .. n = u \cup q \cup w \cup d \cup x
  /\ u \cap q = {} /\ u \cap w = {} /\ u \cap d = {} /\ u \cap x = {}
  /\ q \cap w = {} /\ q \cap d = {} /\ q \cap x = {}
  /\ w \cap d = {} /\ w \cap x = {}
  /\ d \cap x = {}

LEMMA PartitionByIndex ==
  ASSUME NEW n, NEW u, NEW q, NEW w, NEW d, NEW x, NEW P,
         P[1] = u, P[2] = q, P[3] = w, P[4] = d, P[5] = x
  PROVE  Partition(n, u, q, w, d, x) <=>
           /\ 1 .. n = UNION {P[j] : j \in 1 .. 5}
           /\ \A j, k \in 1 .. 5 : j # k => P[j] \cap P[k] = {}
<1>1. 1 .. 5 = {1, 2, 3, 4, 5}
  OBVIOUS
<1>2. UNION {P[j] : j \in 1 .. 5} = u \cup q \cup w \cup d \cup x
  <2>1. UNION {P[j] : j \in {1, 2, 3, 4, 5}} = P[1] \cup P[2] \cup P[3] \cup P[4] \cup P[5]
    OBVIOUS
  <2> QED BY <1>1, <2>1
<1>3. ASSUME Partition(n, u, q, w, d, x)
      PROVE  \A j, k \in 1 .. 5 : j # k => P[j] \cap P[k] = {}
  <2> SUFFICES ASSUME NEW j \in {1, 2, 3, 4, 5}, NEW k \in {1, 2, 3, 4, 5}, j # k
               PROVE  P[j] \cap P[k] = {}
    BY <1>1
  <2> QED BY <1>3 DEF Partition
<1>4. ASSUME \A j, k \in 1 .. 5 : j # k => P[j] \cap P[k] = {}
      PROVE  /\ u \cap q = {} /\ u \cap w = {} /\ u \cap d = {} /\ u \cap x = {}
             /\ q \cap w = {} /\ q \cap d = {} /\ q \cap x = {}
             /\ w \cap d = {} /\ w \cap x = {}
             /\ d \cap x = {}
  BY <1>4
<1> QED BY <1>2, <1>3, <1>4 DEF Partition

LEMMA PartitionOf ==
  \A n, P : Partition(n, P[1], P[2], P[3], P[4], P[5]) =>
              /\ 1 .. n = UNION {P[j] : j \in 1 .. 5}
              /\ \A j, k \in 1 .. 5 : j # k => P[j] \cap P[k] = {}
  BY PartitionByIndex

-----------------------------------------------------------------------------
(* Types *)

LEMMA TimesAreInts == 0 .. IntLimit - 1 \subseteq Ints
  BY OrchestratorAssumption DEF Ints

LEMMA NoEventIsEvent == NoEvent \in Events
<1>1. 0 \in Ints
  BY OrchestratorAssumption DEF Ints
<1>2. (CHOOSE m \in Modules : TRUE) \in Modules
  BY OrchestratorAssumption
<1>3. PICK n \in Names : TRUE
  BY OrchestratorAssumption
<1>4. [source |-> n, dest |-> n, timestamp |-> 0] \in Messages
  BY <1>1, <1>3 DEF Messages
<1>5. (CHOOSE msg \in Messages : TRUE) \in Messages
  BY <1>4
<1> QED BY <1>1, <1>2, <1>5 DEF NoEvent, Events

LEMMA InitIInv == Init => IInv
<1> SUFFICES ASSUME Init PROVE IInv
  OBVIOUS
<1> USE DEF Init
<1>1. TypeOK
  <2>1. self \in Modules
    BY OrchestratorAssumption
  <2>2. top \in Events
    BY NoEventIsEvent
  <2>3. /\ events \in [Modules -> Seq(Events)]
        /\ localTime \in [Modules -> 0 .. IntLimit - 1]
        /\ currentTime \in 0 .. IntLimit - 1
    BY OrchestratorAssumption
  <2> QED BY <2>1, <2>2, <2>3 DEF TypeOK, Phases
<1>2. Clocks /\ Broadcast /\ HigherPrioritiesFirst
  BY OrchestratorAssumption
  DEF Clocks, Broadcast, HigherPrioritiesFirst, IsInjective
<1>3. ToSet(newEvents) = {} /\ \A m \in Modules : ToSet(events[m]) = {}
  BY DEF ToSet
<1>4. Lists /\ Emptied /\ SentInTick /\ InsertedInOrderSent
  BY <1>3 DEF Lists, Emptied, SentInTick, InsertedInOrderSent
<1>5. EventsAreOnTime
  BY DEF EventsAreOnTime
<1>6. NoMessageLost
  <2>1. Unsent = {}
    BY <1>3 DEF Unsent
  <2>2. Ids({}) = {}
    BY DEF Ids
  <2>3. Partition(messageId, {}, {}, {}, {}, {})
    BY DEF Partition
  <2>4. /\ Places[1] = {} /\ Places[2] = {} /\ Places[3] = {}
        /\ Places[4] = {} /\ Places[5] = {}
    BY <1>3, <2>1, <2>2 DEF Places
  <2>5. /\ 1 .. messageId = UNION {Places[j] : j \in 1 .. 5}
        /\ \A j, k \in 1 .. 5 : j # k => Places[j] \cap Places[k] = {}
    BY <2>3, <2>4, PartitionByIndex
  <2> QED BY <1>3, <2>1, <2>5 DEF NoMessageLost
<1> QED BY <1>1, <1>2, <1>4, <1>5, <1>6 DEF IInv

(* What the two kinds of client code may send. *)
LEMMA ConstructorSends ==
  ASSUME NEW m \in Modules, NEW sends \in FirstSends(m)
  PROVE  sends \in Seq(Sends)
  BY ClientAssumption

LEMMA HandlerSends ==
  ASSUME TypeOK, top.time = currentTime, NEW m \in Modules,
         NEW outcome \in onNotify(m, top.msg, top.time)
  PROVE  outcome.sends \in Seq(Sends) /\ outcome.valid \in BOOLEAN
<1>1. top.msg \in Messages /\ top.time \in 0 .. IntLimit - 1
  BY DEF TypeOK, Events
<1>2. outcome \in Outcomes
  BY <1>1, ClientAssumption
<1> QED BY <1>2 DEF Outcomes

(* The event that sendWithDelay() appends to the list of the module. *)
NewEvent ==
  [id |-> messageId + 1,
   time |-> Wrap(localTime[self] + Head(todo).delay),
   msg |-> Head(todo).msg, valid |-> Head(todo).valid,
   due |-> currentTime + Head(todo).delay, sender |-> self]

LEMMA NewEventIsEvent ==
  ASSUME TypeOK, todo # <<>>
  PROVE  NewEvent \in Events
<1>1. Head(todo) \in Sends
  BY DEF TypeOK
<1>2. localTime[self] \in Int /\ currentTime \in Int /\ self \in Modules
  BY DEF TypeOK
<1>3. /\ Head(todo).delay \in Int /\ Head(todo).msg \in Messages
      /\ Head(todo).valid \in BOOLEAN
  BY <1>1, OrchestratorAssumption DEF Sends, Ints
<1>4. Wrap(localTime[self] + Head(todo).delay) \in Ints
  BY <1>2, <1>3, WrapInts
<1>5. messageId + 1 \in Nat
  BY DEF TypeOK
<1> QED BY <1>2, <1>3, <1>4, <1>5 DEF NewEvent, Events

LEMMA SendEffect ==
  ASSUME TypeOK, sendWithDelay
  PROVE  /\ todo # <<>>
         /\ \/ UNCHANGED senderVars
            \/ /\ messageId' = messageId + 1
               /\ Head(todo).delay >= 0
               /\ events' = [events EXCEPT ![self] = Append(@, NewEvent)]
<1>1. Head(todo) \in Sends
  BY DEF TypeOK, sendWithDelay
<1>2. Head(todo).delay \in Int
  BY <1>1, OrchestratorAssumption DEF Sends, Ints
<1> QED BY <1>2 DEF sendWithDelay, NewEvent

LEMMA TypeNext ==
  ASSUME IInv, [Next]_vars
  PROVE  TypeOK'
<1> USE DEF TypeOK, mainVars, senderVars, historyVars
<1>0. TypeOK
  BY DEF IInv
<1>1. ASSUME NEW m \in Modules, Construct(m) PROVE TypeOK'
  <2>1. todo' \in Seq(Sends)
    BY <1>1, ConstructorSends DEF Construct
  <2> QED BY <1>0, <1>1, <2>1 DEF Construct, Phases
<1>2. ASSUME NEW m \in Modules, addModule(m) PROVE TypeOK'
  <2>1. modules' \in Seq(Modules)
    <3>1. Len(modules) + 1 \in Nat
      BY <1>0
    <3> QED BY <1>2, <3>1, SeqDef DEF addModule
  <2> QED BY <1>0, <1>2, <2>1 DEF addModule
<1>3. CASE ConstructorReturns
  BY <1>0, <1>3 DEF ConstructorReturns, Phases
<1>4. CASE sendWithDelay
  <2>1. todo' \in Seq(Sends)
    BY <1>0, <1>4 DEF sendWithDelay
  <2>2. messageId' \in Nat /\ events' \in [Modules -> Seq(Events)]
    <3>1. CASE UNCHANGED senderVars
      BY <1>0, <3>1
    <3>2. ASSUME messageId' = messageId + 1,
                 events' = [events EXCEPT ![self] = Append(@, NewEvent)]
          PROVE  messageId' \in Nat /\ events' \in [Modules -> Seq(Events)]
      <4>1. NewEvent \in Events
        BY <1>0, <1>4, SendEffect, NewEventIsEvent
      <4>2. Append(events[self], NewEvent) \in Seq(Events)
        BY <1>0, <4>1, AppendElements
      <4> QED BY <1>0, <3>2, <4>2
    <3> QED BY <1>0, <1>4, <3>1, <3>2, SendEffect
  <2> QED BY <1>0, <1>4, <2>1, <2>2 DEF sendWithDelay
<1>5. CASE run
  BY <1>0, <1>5 DEF run, Phases
<1>6. CASE initialize
  <2>1. i \in DOMAIN modules /\ modules[i] \in Modules
    BY <1>0, <1>6 DEF initialize, IInv, Emptied
  <2>2. ToSet(events[modules[i]]) \subseteq Events
    BY <1>0, <2>1 DEF ToSet
  <2>3. queue' \subseteq Events /\ dropped' \subseteq Events
    BY <1>0, <1>6, <2>2 DEF initialize, Insertable
  <2>4. events' \in [Modules -> Seq(Events)]
    <3>1. <<>> \in Seq(Events)
      OBVIOUS
    <3> QED BY <1>0, <1>6, <3>1 DEF initialize
  <2>5. i' \in Nat
    BY <1>0, <1>6 DEF initialize
  <2>6. UNCHANGED <<phase, constructed, modules, self, todo, messageId,
                    localTime, top, newEvents, currentTime, dispatched,
                    lastTime>>
    BY <1>6 DEF initialize
  <2> QED BY <1>0, <2>3, <2>4, <2>5, <2>6
<1>7. CASE Initialized
  BY <1>0, <1>7 DEF Initialized, Phases
<1>8. CASE tick
  <2>1. PICK e \in queue : top' = e /\ currentTime' = e.time
    BY <1>8 DEF tick
  <2>2. e \in Events /\ e.time \in Ints /\ e.time >= currentTime
    BY <1>0, <2>1 DEF IInv, Clocks, Events
  <2>3. currentTime' \in 0 .. IntLimit - 1
    BY <1>0, <2>1, <2>2, OrchestratorAssumption DEF Ints
  <2> QED BY <1>0, <1>8, <2>1, <2>2, <2>3 DEF tick, Phases
<1>9. CASE notify
  <2>1. modules[i] \in Modules /\ top.time = currentTime
    BY <1>0, <1>9 DEF notify, IInv, Broadcast
  <2>2. PICK outcome \in onNotify(modules[i], top.msg, top.time) :
          todo' = outcome.sends /\ top' = [top EXCEPT !.valid = outcome.valid]
    BY <1>9 DEF notify
  <2>3. outcome.sends \in Seq(Sends) /\ outcome.valid \in BOOLEAN
    BY <1>0, <2>1, HandlerSends
  <2>4. top' \in Events
    BY <1>0, <2>2, <2>3 DEF Events
  <2>5. localTime' \in [Modules -> 0 .. IntLimit - 1]
    BY <1>0, <1>9, <2>1 DEF notify
  <2> QED BY <1>0, <1>9, <2>1, <2>2, <2>3, <2>4, <2>5 DEF notify, Phases
<1>10. CASE notifyReturns
  <2>1. newEvents' \in Seq(Events)
    <3>1. events[self] \in Seq(Events)
      BY <1>0
    <3> QED BY <1>0, <1>10, <3>1, ConcatReverse DEF notifyReturns
  <2>2. events' \in [Modules -> Seq(Events)]
    BY <1>0, <1>10 DEF notifyReturns
  <2> QED BY <1>0, <1>10, <2>1, <2>2 DEF notifyReturns, Phases
<1>11. CASE pop
  <2>1. top.id \in Nat
    BY <1>0 DEF Events
  <2> QED BY <1>0, <1>11, <2>1 DEF pop, Phases
<1>12. CASE insert
  <2>1. newEvents[Len(newEvents)] \in Events /\ newEvents' \in Seq(Events)
    BY <1>0, <1>12, FrontElements DEF insert
  <2>2. queue' \subseteq Events /\ dropped' \subseteq Events
    BY <1>0, <1>12, <2>1 DEF insert, Insertable
  <2> QED BY <1>0, <1>12, <2>1, <2>2 DEF insert
<1>13. CASE EndOfTick
  BY <1>0, <1>13 DEF EndOfTick, Phases
<1>14. CASE RunReturns
  BY <1>0, <1>14 DEF RunReturns, Phases
<1>15. CASE UNCHANGED vars
  BY <1>0, <1>15 DEF vars
<1> QED
  BY <1>1, <1>2, <1>3, <1>4, <1>5, <1>6, <1>7, <1>8, <1>9, <1>10, <1>11,
     <1>12, <1>13, <1>14, <1>15 DEF Next, Step, Done

-----------------------------------------------------------------------------
(* Clocks and the broadcast *)

LEMMA EventTypes ==
  ASSUME NEW e \in Events
  PROVE  e.id \in Nat /\ e.time \in Int /\ e.due \in Int /\ e.sender \in Modules
  BY OrchestratorAssumption DEF Events, Ints

LEMMA TimeTypes ==
  ASSUME TypeOK
  PROVE  currentTime \in Nat /\ lastTime \in Nat /\ currentTime < IntLimit
  BY OrchestratorAssumption DEF TypeOK

LEMMA OfferedModules ==
  ASSUME TypeOK, i - 1 <= Len(modules)
  PROVE  Offered \subseteq Modules
<1> SUFFICES ASSUME NEW k \in 1 .. i - 1 PROVE modules[k] \in Modules
  BY DEF Offered
<1>1. modules \in Seq(Modules) /\ k \in 1 .. Len(modules)
  BY DEF TypeOK
<1> QED BY <1>1

LEMMA ClocksNext ==
  ASSUME IInv, [Next]_vars
  PROVE  Clocks'
<1> USE DEF Clocks, mainVars, senderVars, historyVars
<1>0. TypeOK /\ Clocks
  BY DEF IInv
<1>1. ASSUME NEW m \in Modules, Construct(m) PROVE Clocks'
  BY <1>0, <1>1 DEF Construct
<1>2. ASSUME NEW m \in Modules, addModule(m) PROVE Clocks'
  BY <1>0, <1>2 DEF addModule
<1>3. CASE ConstructorReturns
  BY <1>0, <1>3 DEF ConstructorReturns
<1>4. CASE sendWithDelay
  BY <1>0, <1>4 DEF sendWithDelay
<1>5. CASE run
  BY <1>0, <1>5 DEF run
<1>6. CASE initialize
  BY <1>0, <1>6 DEF initialize, Insertable, insertable
<1>7. CASE Initialized
  BY <1>0, <1>7 DEF Initialized
<1>8. CASE tick
  <2>1. PICK e \in queue :
          /\ \A f \in queue : e.time <= f.time
          /\ currentTime' = e.time
    BY <1>8 DEF tick
  <2>2. /\ lastTime' = lastTime /\ lastTime = currentTime
        /\ e.time >= currentTime
        /\ e.time \in Int /\ currentTime \in Int
        /\ \A f \in queue : f.time \in Int
    <3>1. \A f \in queue : f.time \in Int
      BY <1>0, EventTypes DEF TypeOK
    <3> QED BY <1>0, <1>8, <2>1, <3>1, TimeTypes DEF tick
  <2> QED BY <1>8, <2>1, <2>2 DEF tick
<1>9. CASE notify
  BY <1>0, <1>9 DEF notify
<1>10. CASE notifyReturns
  BY <1>0, <1>10 DEF notifyReturns
<1>11. CASE pop
  BY <1>0, <1>11 DEF pop, TypeOK
<1>12. CASE insert
  BY <1>0, <1>12 DEF insert, Insertable, insertable
<1>13. CASE EndOfTick
  BY <1>0, <1>13 DEF EndOfTick
<1>14. CASE RunReturns
  BY <1>0, <1>14 DEF RunReturns
<1>15. CASE UNCHANGED vars
  BY <1>0, <1>15 DEF vars
<1> QED
  BY <1>1, <1>2, <1>3, <1>4, <1>5, <1>6, <1>7, <1>8, <1>9, <1>10, <1>11,
     <1>12, <1>13, <1>14, <1>15 DEF Next, Step, Done

LEMMA BroadcastNext ==
  ASSUME IInv, [Next]_vars
  PROVE  Broadcast'
<1> USE DEF Broadcast, mainVars, senderVars, historyVars, Offered
<1>0. TypeOK /\ Broadcast
  BY DEF IInv
<1>1. ASSUME NEW m \in Modules, Construct(m) PROVE Broadcast'
  BY <1>0, <1>1 DEF Construct
<1>2. ASSUME NEW m \in Modules, addModule(m) PROVE Broadcast'
  BY <1>0, <1>2 DEF addModule, Sorts
<1>3. CASE ConstructorReturns
  BY <1>0, <1>3 DEF ConstructorReturns
<1>4. CASE sendWithDelay
  BY <1>0, <1>4 DEF sendWithDelay
<1>5. CASE run
  BY <1>0, <1>5 DEF run
<1>6. CASE initialize
  BY <1>0, <1>6 DEF initialize
<1>7. CASE Initialized
  BY <1>0, <1>7 DEF Initialized
<1>8. CASE tick
  <2>1. PICK e \in queue : top' = e /\ currentTime' = e.time
    BY <1>8 DEF tick
  <2>2. /\ phase' = "notifying" /\ i' = 1
        /\ modules' = modules /\ queue' = queue
    BY <1>8 DEF tick
  <2>3. 1 .. i' - 1 = {} /\ Len(modules) \in Nat
    BY <1>0, <2>2 DEF TypeOK
  <2> QED BY <1>0, <2>1, <2>2, <2>3
<1>9. CASE notify
  <2>1. /\ phase' = "handling" /\ self' = modules[i]
        /\ UNCHANGED <<modules, i, queue, currentTime>>
        /\ localTime' = [localTime EXCEPT ![modules[i]] = top.time]
        /\ i <= Len(modules) /\ phase = "notifying"
    BY <1>9 DEF notify
  <2>2. top'.id = top.id /\ top'.time = top.time /\ top'.msg = top.msg
    BY <1>0, <1>9 DEF notify, TypeOK, Events
  <2>3. modules[i] \in Modules
    BY <1>0, <2>1 DEF TypeOK
  <2>4. localTime'[modules[i]] = currentTime
    BY <1>0, <2>1, <2>3 DEF TypeOK
  <2>5. \A m \in Offered : localTime'[m] = currentTime
    <3>1. Offered \subseteq Modules
      BY <1>0, <2>1, OfferedModules DEF TypeOK
    <3>2. localTime \in [Modules -> Nat]
      BY <1>0, OrchestratorAssumption DEF TypeOK
    <3> HIDE DEF Offered
    <3>3. \A m \in Offered : localTime[m] = currentTime
      BY <1>0, <2>1
    <3> QED BY <2>1, <2>3, <2>4, <3>1, <3>2, <3>3
  <2> QED BY <1>0, <2>1, <2>2, <2>4, <2>5
<1>10. CASE notifyReturns
  <2>1. /\ phase' = "notifying" /\ i' = i + 1 /\ phase = "handling"
        /\ UNCHANGED <<modules, top, queue, currentTime, localTime>>
    BY <1>10 DEF notifyReturns
  <2>2. i' \in 1 .. Len(modules) + 1
    <3>1. i \in Nat /\ i <= Len(modules) /\ Len(modules) \in Nat
      BY <1>0, <2>1 DEF TypeOK
    <3> QED BY <2>1, <3>1
  <2>3. \A k \in 1 .. i' - 1 : k \in 1 .. i - 1 \/ k = i
    BY <2>1, <1>0 DEF TypeOK
  <2> QED BY <1>0, <2>1, <2>2, <2>3
<1>11. CASE pop
  BY <1>0, <1>11 DEF pop
<1>12. CASE insert
  BY <1>0, <1>12 DEF insert
<1>13. CASE EndOfTick
  BY <1>0, <1>13 DEF EndOfTick
<1>14. CASE RunReturns
  BY <1>0, <1>14 DEF RunReturns
<1>15. CASE UNCHANGED vars
  BY <1>0, <1>15 DEF vars
<1> QED
  BY <1>1, <1>2, <1>3, <1>4, <1>5, <1>6, <1>7, <1>8, <1>9, <1>10, <1>11,
     <1>12, <1>13, <1>14, <1>15 DEF Next, Step, Done

-----------------------------------------------------------------------------
(* The modules' lists *)

(* The other actions leave the lists alone. *)
LEMMA WhoChangesLists ==
  ASSUME [Next]_vars
  PROVE  \/ UNCHANGED senderVars
         \/ sendWithDelay \/ initialize \/ notifyReturns
  BY DEF Next, Step, Done, vars, Construct, addModule, ConstructorReturns, run,
         Initialized, tick, notify, pop, insert, EndOfTick, RunReturns

LEMMA Located ==
  ASSUME NoMessageLost
  PROVE  Partition(messageId, Ids(Unsent), Ids(queue), Ids(ToSet(newEvents)),
                   Ids(dropped), dispatched)
<1>1. /\ Places[1] = Ids(Unsent) /\ Places[2] = Ids(queue)
      /\ Places[3] = Ids(ToSet(newEvents)) /\ Places[4] = Ids(dropped)
      /\ Places[5] = dispatched
  BY DEF Places
<1>2. /\ 1 .. messageId = UNION {Places[j] : j \in 1 .. 5}
      /\ \A j, k \in 1 .. 5 : j # k => Places[j] \cap Places[k] = {}
  BY DEF NoMessageLost
<1> QED BY <1>1, <1>2, PartitionByIndex, Zenon

(* Where an id that is in use can be found is bounded. *)
LEMMA IdsInUse ==
  ASSUME IInv
  PROVE  /\ \A m \in Modules : \A k \in DOMAIN events[m] :
              events[m][k].id \in 1 .. messageId
         /\ \A e \in ToSet(newEvents) : e.id \in 1 .. messageId
         /\ \A e \in queue : e.id \in 1 .. messageId
<1>1. Partition(messageId, Ids(Unsent), Ids(queue), Ids(ToSet(newEvents)),
                Ids(dropped), dispatched)
  BY Located DEF IInv
<1>2. /\ Ids(Unsent) \subseteq 1 .. messageId
      /\ Ids(ToSet(newEvents)) \subseteq 1 .. messageId
      /\ Ids(queue) \subseteq 1 .. messageId
  BY <1>1 DEF Partition
<1>3. \A m \in Modules : \A k \in DOMAIN events[m] : events[m][k] \in Unsent
  BY DEF Unsent, ToSet
<1> QED BY <1>2, <1>3 DEF Ids

LEMMA SelfClock ==
  ASSUME IInv, phase \in {"constructing", "handling"}
  PROVE  localTime[self] = currentTime
  BY DEF IInv, TypeOK, Clocks, Broadcast

(* What is known of a message that is sent. *)
LEMMA SendDetails ==
  ASSUME IInv, sendWithDelay, messageId' = messageId + 1,
         Head(todo).delay >= 0,
         events' = [events EXCEPT ![self] = Append(@, NewEvent)]
  PROVE  /\ NewEvent \in Events /\ Timed(NewEvent)
         /\ NewEvent.due >= currentTime /\ NewEvent.sender = self
         /\ NewEvent.id = messageId + 1
         /\ self \in Modules
         /\ events'[self] = Append(events[self], NewEvent)
         /\ \A m \in Modules \ {self} : events'[m] = events[m]
<1>0. TypeOK
  BY DEF IInv
<1>1. NewEvent \in Events
  BY <1>0, NewEventIsEvent DEF sendWithDelay
<1>2. localTime[self] = currentTime
  BY SelfClock DEF sendWithDelay
<1>3. Head(todo) \in Sends
  BY <1>0 DEF TypeOK, sendWithDelay
<1>4. Head(todo).delay \in 0 .. IntLimit - 1
  BY <1>3, OrchestratorAssumption DEF Sends, Ints
<1>5. currentTime + Head(todo).delay \in 0 .. 2 * IntLimit - 2
  BY <1>0, <1>4, TimeTypes, OrchestratorAssumption
<1>6. Timed(NewEvent)
  BY <1>2, <1>5, WrapOnce DEF Timed, NewEvent
<1>7. NewEvent.due >= currentTime
  BY <1>0, <1>4, TimeTypes DEF NewEvent
<1>8. self \in Modules /\ events \in [Modules -> Seq(Events)]
  BY <1>0 DEF TypeOK
<1> QED BY <1>1, <1>6, <1>7, <1>8 DEF NewEvent

LEMMA ListsNext ==
  ASSUME IInv, [Next]_vars
  PROVE  Lists'
<1>0. TypeOK /\ Lists
  BY DEF IInv
<1>1. CASE UNCHANGED senderVars
  BY <1>0, <1>1 DEF Lists, Timed, senderVars
<1>2. CASE sendWithDelay /\ ~UNCHANGED senderVars
  <2>1. /\ messageId' = messageId + 1 /\ Head(todo).delay >= 0
        /\ events' = [events EXCEPT ![self] = Append(@, NewEvent)]
    BY <1>0, <1>2, SendEffect
  <2>2. /\ NewEvent \in Events /\ Timed(NewEvent)
        /\ NewEvent.due >= currentTime /\ NewEvent.sender = self
        /\ NewEvent.id = messageId + 1
        /\ self \in Modules
        /\ events'[self] = Append(events[self], NewEvent)
        /\ \A m \in Modules \ {self} : events'[m] = events[m]
    BY <1>2, <2>1, SendDetails
  <2> DEFINE old == events[self]
             new == events'[self]
  <2>3. old \in Seq(Events) /\ messageId \in Nat
    BY <1>0, <2>2 DEF TypeOK
  <2>4. /\ DOMAIN new = 1 .. Len(old) + 1 /\ DOMAIN old = 1 .. Len(old)
        /\ Len(old) \in Nat
        /\ \A k \in DOMAIN new :
             new[k] = IF k <= Len(old) THEN old[k] ELSE NewEvent
    BY <2>2, <2>3, AppendElements
  <2>5. \A k \in DOMAIN old : old[k].id \in 1 .. messageId
    BY <2>2, IdsInUse
  <2>6. \A k \in DOMAIN old : Timed(old[k]) /\ old[k].sender = self
    BY <1>0, <2>2 DEF Lists
  <2>7. \A j, k \in DOMAIN old : j < k => old[j].id < old[k].id
    BY <1>0, <2>2 DEF Lists
  <2> HIDE DEF old, new
  <2>8. \A k \in DOMAIN new : Timed(new[k]) /\ new[k].sender = self
    BY <2>2, <2>4, <2>6
  <2>9. \A j, k \in DOMAIN new : j < k => new[j].id < new[k].id
    BY <2>2, <2>3, <2>4, <2>5, <2>7
  <2>10. \A m \in Modules \ {self} :
          /\ \A k \in DOMAIN events'[m] :
               Timed(events'[m][k]) /\ events'[m][k].sender = m
          /\ \A j, k \in DOMAIN events'[m] :
               j < k => events'[m][j].id < events'[m][k].id
    BY <1>0, <2>2 DEF Lists
  <2> QED BY <2>8, <2>9, <2>10 DEF new, Lists, Timed
<1>3. ASSUME NEW n \in Modules, events' = [events EXCEPT ![n] = <<>>]
      PROVE  Lists'
  BY <1>0, <1>3 DEF Lists, Timed, TypeOK
<1>4. CASE initialize
  <2>1. modules[i] \in Modules
    BY <1>0, <1>4 DEF initialize, IInv, Emptied, TypeOK
  <2> QED BY <1>3, <1>4, <2>1 DEF initialize
<1>5. CASE notifyReturns
  BY <1>0, <1>3, <1>5 DEF notifyReturns, TypeOK
<1> QED BY <1>1, <1>2, <1>4, <1>5, WhoChangesLists

LEMMA ModulesInOrder ==
  ASSUME TypeOK
  PROVE  /\ DOMAIN modules = 1 .. Len(modules) /\ Len(modules) \in Nat
         /\ ToSet(modules) = {modules[k] : k \in 1 .. Len(modules)}
         /\ ToSet(modules) \subseteq Modules
<1>1. DOMAIN modules = 1 .. Len(modules) /\ Len(modules) \in Nat
  BY DEF TypeOK
<1>2. \A k \in DOMAIN modules : modules[k] \in Modules
  BY DEF TypeOK
<1> QED BY <1>1, <1>2 DEF ToSet

LEMMA EmptiedNext ==
  ASSUME IInv, [Next]_vars
  PROVE  Emptied'
<1> USE DEF mainVars, senderVars, historyVars
<1>0. TypeOK /\ Emptied /\ events \in [Modules -> Seq(Events)]
  BY DEF IInv, TypeOK
<1>1. ASSUME NEW m \in Modules, Construct(m) PROVE Emptied'
  BY <1>1 DEF Construct, Emptied
<1>2. ASSUME NEW m \in Modules, addModule(m) PROVE Emptied'
  BY <1>2 DEF addModule, Emptied
<1>3. CASE ConstructorReturns
  BY <1>3 DEF ConstructorReturns, Emptied
<1>4. CASE sendWithDelay
  <2>1. CASE phase = "constructing"
    BY <1>4, <2>1 DEF sendWithDelay, Emptied
  <2>2. CASE phase = "handling" /\ UNCHANGED senderVars
    BY <1>0, <1>4, <2>2 DEF sendWithDelay, Emptied
  <2>3. CASE phase = "handling" /\ ~UNCHANGED senderVars
    <3>1. /\ messageId' = messageId + 1 /\ Head(todo).delay >= 0
          /\ events' = [events EXCEPT ![self] = Append(@, NewEvent)]
      BY <1>0, <1>4, <2>3, SendEffect
    <3>2. /\ NewEvent \in Events /\ NewEvent.due >= currentTime
          /\ NewEvent.id = messageId + 1
          /\ self \in Modules
          /\ events'[self] = Append(events[self], NewEvent)
          /\ \A m \in Modules \ {self} : events'[m] = events[m]
      BY <1>4, <3>1, SendDetails
    <3>3. UNCHANGED <<phase, modules, i, self, newEvents, currentTime>>
      BY <1>4 DEF sendWithDelay
    <3>4. \A m \in ToSet(modules) : m = self \/ events'[m] = <<>>
      BY <1>0, <2>3, <3>2, ModulesInOrder DEF Emptied
    <3>5. \A k \in DOMAIN events'[self] :
            \/ events'[self][k] = NewEvent
            \/ /\ k \in DOMAIN events[self]
               /\ events'[self][k] = events[self][k]
      BY <1>0, <3>2, AppendElements
    <3>6. \A e \in ToSet(newEvents) : e.id < NewEvent.id
      BY <1>0, <3>2, IdsInUse DEF TypeOK
    <3>7. \A k \in DOMAIN events'[self] :
            /\ events'[self][k].due >= currentTime
            /\ \A e \in ToSet(newEvents) : e.id < events'[self][k].id
      BY <1>0, <2>3, <3>2, <3>5, <3>6 DEF Emptied
    <3> QED BY <2>3, <3>3, <3>4, <3>7 DEF Emptied
  <2> QED BY <1>4, <2>1, <2>2, <2>3 DEF sendWithDelay
<1>5. CASE run
  <2>1. i' = 1 /\ phase' = "initializing" /\ modules' = modules
    BY <1>5 DEF run
  <2> QED BY <1>0, <2>1, ModulesInOrder DEF Emptied
<1>6. CASE initialize
  <2>1. /\ phase = "initializing" /\ phase' = phase /\ modules' = modules
        /\ i' = i + 1 /\ i \in Nat
        /\ events' = [events EXCEPT ![modules[i]] = <<>>]
    BY <1>0, <1>6 DEF initialize, TypeOK
  <2>2. ASSUME NEW k \in DOMAIN modules, k < i'
        PROVE  events'[modules[k]] = <<>>
    <3>1. modules[k] \in Modules /\ k \in Nat
      BY <1>0, ModulesInOrder DEF ToSet
    <3>2. CASE k = i
      BY <1>0, <2>1, <3>1, <3>2
    <3>3. CASE k < i
      BY <1>0, <2>1, <3>1, <3>3 DEF Emptied
    <3> QED BY <2>1, <2>2, <3>1, <3>2, <3>3
  <2>3. i' >= 1
    BY <1>0, <2>1 DEF Emptied
  <2> QED BY <2>1, <2>2, <2>3 DEF Emptied
<1>7. CASE Initialized
  <2>1. /\ phase = "initializing" /\ phase' = "looping" /\ i > Len(modules)
        /\ UNCHANGED <<modules, events>> /\ i \in Nat
    BY <1>0, <1>7 DEF Initialized, TypeOK
  <2>2. \A k \in 1 .. Len(modules) : events[modules[k]] = <<>>
    BY <1>0, <2>1, ModulesInOrder DEF Emptied
  <2> QED BY <1>0, <2>1, <2>2, ModulesInOrder DEF Emptied
<1>8. CASE tick
  BY <1>0, <1>8 DEF tick, Emptied
<1>9. CASE notify
  <2>1. /\ phase = "notifying" /\ phase' = "handling" /\ self' = modules[i]
        /\ UNCHANGED <<modules, events, newEvents, currentTime>>
        /\ i \in 1 .. Len(modules)
    BY <1>9, <1>0 DEF notify, IInv, Broadcast
  <2>2. modules[i] \in ToSet(modules)
    BY <1>0, <2>1, ModulesInOrder
  <2>3. events[modules[i]] = <<>>
    BY <1>0, <2>1, <2>2 DEF Emptied
  <2> QED BY <1>0, <2>1, <2>3 DEF Emptied
<1>10. CASE notifyReturns
  <2>1. /\ phase = "handling" /\ phase' = "notifying" /\ modules' = modules
        /\ events' = [events EXCEPT ![self] = <<>>]
    BY <1>10 DEF notifyReturns
  <2>2. \A m \in ToSet(modules) : events'[m] = <<>>
    BY <1>0, <2>1, ModulesInOrder DEF Emptied
  <2> QED BY <2>1, <2>2 DEF Emptied
<1>11. CASE pop
  BY <1>0, <1>11 DEF pop, Emptied
<1>12. CASE insert
  BY <1>0, <1>12 DEF insert, Emptied
<1>13. CASE EndOfTick
  BY <1>0, <1>13 DEF EndOfTick, Emptied
<1>14. CASE RunReturns
  BY <1>0, <1>14 DEF RunReturns, Emptied
<1>15. CASE UNCHANGED vars
  BY <1>0, <1>15 DEF vars, Emptied
<1> QED
  BY <1>1, <1>2, <1>3, <1>4, <1>5, <1>6, <1>7, <1>8, <1>9, <1>10, <1>11,
     <1>12, <1>13, <1>14, <1>15 DEF Next, Step, Done

-----------------------------------------------------------------------------
(* The list of new events *)

(* What notifyReturns appends to it. *)
LEMMA NotifyReturnsEffect ==
  ASSUME IInv, notifyReturns
  PROVE  /\ DOMAIN newEvents' = 1 .. Len(newEvents) + Len(events[self])
         /\ \A k \in 1 .. Len(newEvents) + Len(events[self]) :
              newEvents'[k] =
                IF k <= Len(newEvents) THEN newEvents[k]
                ELSE events[self][Len(events[self]) + 1
                                  - (k - Len(newEvents))]
         /\ ToSet(newEvents') = ToSet(newEvents) \cup ToSet(events[self])
         /\ Len(newEvents) \in Nat /\ DOMAIN newEvents = 1 .. Len(newEvents)
         /\ /\ Len(events[self]) \in Nat
            /\ DOMAIN events[self] = 1 .. Len(events[self])
         /\ self \in Modules
<1>1. newEvents \in Seq(Events) /\ events[self] \in Seq(Events)
      /\ self \in Modules
  BY DEF IInv, TypeOK
<1>2. newEvents' = newEvents \o Reverse(events[self])
  BY DEF notifyReturns
<1>3. IsConcatReverse(newEvents', newEvents, events[self])
  BY <1>1, <1>2, ConcatReverseIs
<1> QED BY <1>1, <1>3 DEF IsConcatReverse

LEMMA SentInTickNext ==
  ASSUME IInv, [Next]_vars
  PROVE  SentInTick'
<1> USE DEF mainVars, senderVars, historyVars
<1>0. TypeOK /\ SentInTick
  BY DEF IInv
<1>1. ASSUME NEW m \in Modules, Construct(m) PROVE SentInTick'
  BY <1>0, <1>1 DEF Construct, SentInTick, Timed
<1>2. ASSUME NEW m \in Modules, addModule(m) PROVE SentInTick'
  BY <1>0, <1>2 DEF addModule, SentInTick, Timed
<1>3. CASE ConstructorReturns
  BY <1>0, <1>3 DEF ConstructorReturns, SentInTick, Timed
<1>4. CASE sendWithDelay
  BY <1>0, <1>4 DEF sendWithDelay, SentInTick, Timed, Offered
<1>5. CASE run
  BY <1>0, <1>5 DEF run, SentInTick, Timed
<1>6. CASE initialize
  BY <1>0, <1>6 DEF initialize, SentInTick, Timed
<1>7. CASE Initialized
  BY <1>0, <1>7 DEF Initialized, SentInTick, Timed
<1>8. CASE tick
  <2>1. newEvents' = <<>>
    BY <1>0, <1>8 DEF tick, SentInTick
  <2> QED BY <2>1 DEF SentInTick, ToSet
<1>9. CASE notify
  BY <1>0, <1>9 DEF notify, SentInTick, Timed, Offered
<1>10. CASE notifyReturns
  <2>1. /\ phase = "handling" /\ phase' = "notifying" /\ i' = i + 1
        /\ UNCHANGED <<modules, currentTime>> /\ i \in 1 .. Len(modules)
        /\ self = modules[i]
    BY <1>0, <1>10 DEF notifyReturns, IInv, Broadcast
  <2>2. ToSet(newEvents') = ToSet(newEvents) \cup ToSet(events[self])
    BY <1>10, NotifyReturnsEffect
  <2>3. \A e \in ToSet(events[self]) :
          Timed(e) /\ e.due >= currentTime /\ e.sender = self
    BY <2>1 DEF IInv, TypeOK, Lists, Emptied, ToSet
  <2>4. Offered \subseteq Offered' /\ self \in Offered'
    <3>1. i \in 1 .. i' - 1 /\ \A k \in 1 .. i - 1 : k \in 1 .. i' - 1
      BY <1>0, <2>1 DEF TypeOK
    <3> QED BY <2>1, <3>1 DEF Offered
  <2> QED BY <1>0, <2>1, <2>2, <2>3, <2>4 DEF SentInTick, Timed
<1>11. CASE pop
  BY <1>0, <1>11 DEF pop, SentInTick, Timed
<1>12. CASE insert
  <2>1. ToSet(newEvents') \subseteq ToSet(newEvents)
    BY <1>0, <1>12, FrontSet DEF insert, TypeOK
  <2> QED BY <1>0, <1>12, <2>1 DEF insert, SentInTick, Timed
<1>13. CASE EndOfTick
  BY <1>0, <1>13 DEF EndOfTick, SentInTick, Timed
<1>14. CASE RunReturns
  BY <1>0, <1>14 DEF RunReturns, SentInTick, Timed
<1>15. CASE UNCHANGED vars
  BY <1>0, <1>15 DEF vars, SentInTick, Timed, Offered
<1> QED
  BY <1>1, <1>2, <1>3, <1>4, <1>5, <1>6, <1>7, <1>8, <1>9, <1>10, <1>11,
     <1>12, <1>13, <1>14, <1>15 DEF Next, Step, Done

(* The others leave newEvents alone. *)
LEMMA WhoChangesNewEvents ==
  ASSUME [Next]_vars
  PROVE  UNCHANGED newEvents \/ notifyReturns \/ insert
  BY DEF Next, Step, Done, vars, mainVars, senderVars, historyVars, Construct,
         addModule, ConstructorReturns, sendWithDelay, run, initialize,
         Initialized, tick, notify, pop, EndOfTick, RunReturns

(* A module is offered a message once. *)
LEMMA SelfNotOffered ==
  ASSUME IInv, phase = "handling"
  PROVE  self \notin Offered
<1>1. /\ i \in 1 .. Len(modules) /\ self = modules[i]
      /\ DOMAIN modules = 1 .. Len(modules) /\ Len(modules) \in Nat
  BY ModulesInOrder DEF IInv, Broadcast
<1>2. ASSUME NEW k \in 1 .. i - 1 PROVE modules[k] # self
  BY <1>1, <1>2 DEF IInv, Broadcast, IsInjective
<1> QED BY <1>2 DEF Offered

LEMMA OrderNext ==
  ASSUME IInv, [Next]_vars
  PROVE  InsertedInOrderSent'
<1> DEFINE Ordered(e, f) == IF e.sender = f.sender THEN e.id > f.id
                                                   ELSE e.id < f.id
<1>0. TypeOK /\ \A j, k \in DOMAIN newEvents :
        j < k => Ordered(newEvents[j], newEvents[k])
  BY DEF IInv, InsertedInOrderSent
<1>1. CASE UNCHANGED newEvents
  BY <1>0, <1>1 DEF InsertedInOrderSent
<1>2. CASE insert
  <2>1. /\ DOMAIN newEvents = 1 .. Len(newEvents) /\ Len(newEvents) \in Nat
        /\ DOMAIN newEvents' = 1 .. Len(newEvents) - 1
        /\ \A k \in 1 .. Len(newEvents) - 1 : newEvents'[k] = newEvents[k]
    BY <1>0, <1>2, FrontElements DEF insert, TypeOK
  <2>2. \A j, k \in DOMAIN newEvents' :
          j < k => Ordered(newEvents'[j], newEvents'[k])
    BY <1>0, <2>1
  <2> QED BY <2>2 DEF InsertedInOrderSent
<1>3. CASE notifyReturns
  <2> DEFINE n == Len(newEvents)
             sent == events[self]
             l == Len(sent)
             new == newEvents'
  <2>1. /\ n \in Nat /\ DOMAIN newEvents = 1 .. n
        /\ l \in Nat /\ DOMAIN sent = 1 .. l
        /\ DOMAIN new = 1 .. n + l
        /\ \A k \in 1 .. n + l :
             new[k] = IF k <= n THEN newEvents[k] ELSE sent[l + 1 - (k - n)]
    BY <1>3, NotifyReturnsEffect
  <2>2. phase = "handling" /\ self \in Modules
    BY <1>0, <1>3 DEF notifyReturns, TypeOK
  <2>3. \A k \in 1 .. n : newEvents[k].sender # self
    BY <2>1, <2>2, SelfNotOffered DEF IInv, SentInTick, ToSet
  <2>4. \A k \in 1 .. l : sent[k].sender = self
    BY <2>1, <2>2 DEF IInv, Lists
  <2>5. \A j, k \in 1 .. l : j < k => sent[j].id < sent[k].id
    BY <2>1, <2>2 DEF IInv, Lists
  <2>6. \A j \in 1 .. n : \A k \in 1 .. l : newEvents[j].id < sent[k].id
    BY <2>1, <2>2 DEF IInv, Emptied, ToSet
  <2>7. \A j, k \in 1 .. n : j < k => Ordered(newEvents[j], newEvents[k])
    BY <1>0, <2>1
  <2>8. ASSUME NEW j \in 1 .. n + l, NEW k \in 1 .. n + l, j < k
        PROVE  Ordered(new[j], new[k])
    <3> HIDE DEF n, sent, l, new, Ordered
    <3>1. CASE k <= n
      BY <2>1, <2>7, <2>8, <3>1
    <3>2. CASE j <= n /\ ~(k <= n)
      <4>1. l + 1 - (k - n) \in 1 .. l /\ j \in 1 .. n
        BY <2>1, <3>2
      <4> QED BY <2>1, <2>3, <2>4, <2>6, <3>2, <4>1 DEF Ordered
    <3>3. CASE ~(j <= n)
      <4>1. /\ l + 1 - (j - n) \in 1 .. l /\ l + 1 - (k - n) \in 1 .. l
            /\ l + 1 - (k - n) < l + 1 - (j - n) /\ ~(k <= n)
        BY <2>1, <2>8, <3>3
      <4>2. sent[l + 1 - (k - n)].id < sent[l + 1 - (j - n)].id
        BY <2>5, <4>1
      <4>3. sent[l + 1 - (k - n)].id \in Nat /\ sent[l + 1 - (j - n)].id \in Nat
        BY <1>0, <2>1, <2>2, <4>1, EventTypes DEF TypeOK, sent
      <4>4. new[j] = sent[l + 1 - (j - n)] /\ new[k] = sent[l + 1 - (k - n)]
        BY <2>1, <3>3, <4>1
      <4>5. new[j].sender = new[k].sender
        BY <2>4, <4>1, <4>4
      <4> QED BY <4>2, <4>3, <4>4, <4>5 DEF Ordered
    <3> QED BY <2>8, <2>1, <3>1, <3>2, <3>3
  <2> QED BY <2>1, <2>8 DEF InsertedInOrderSent
<1> QED BY <1>1, <1>2, <1>3, WhoChangesNewEvents

-----------------------------------------------------------------------------
(* Times *)

(* What insert() does to an event that is due now or later. *)
LEMMA InsertedOnTime ==
  ASSUME TypeOK, NEW e \in Events, Timed(e), e.due >= currentTime
  PROVE  IF insertable(e) THEN e.time = e.due /\ e.time >= currentTime
                          ELSE e.due >= IntLimit
  BY EventTypes, TimeTypes, OrchestratorAssumption DEF Timed, insertable

LEMMA OnTimeNext ==
  ASSUME IInv, [Next]_vars
  PROVE  EventsAreOnTime'
<1>0. TypeOK /\ Clocks /\ EventsAreOnTime
  BY DEF IInv
<1>1. CASE UNCHANGED <<queue, dropped, lastTime>>
  BY <1>0, <1>1 DEF EventsAreOnTime
<1>2. ASSUME NEW new \in SUBSET Events,
             \A e \in new : Timed(e) /\ e.due >= currentTime,
             lastTime = currentTime, lastTime' = lastTime,
             queue' = queue \cup Insertable(new),
             dropped' = dropped \cup (new \ Insertable(new))
      PROVE  EventsAreOnTime'
  <2>1. \A e \in Insertable(new) : e.time = e.due /\ e.time >= lastTime
    BY <1>0, <1>2, InsertedOnTime DEF Insertable
  <2>2. \A e \in new \ Insertable(new) : e.due >= IntLimit
    BY <1>0, <1>2, InsertedOnTime DEF Insertable
  <2> QED BY <1>0, <1>2, <2>1, <2>2 DEF EventsAreOnTime
<1>3. CASE initialize
  <2> DEFINE new == ToSet(events[modules[i]])
  <2>1. modules[i] \in Modules
    BY <1>0, <1>3 DEF initialize, IInv, Emptied, TypeOK
  <2>2. new \subseteq Events /\ \A e \in new : Timed(e)
    <3>1. events[modules[i]] \in Seq(Events)
      BY <1>0, <2>1 DEF IInv, TypeOK
    <3>2. \A k \in DOMAIN events[modules[i]] : Timed(events[modules[i]][k])
      BY <1>0, <2>1 DEF IInv, Lists
    <3> QED BY <3>1, <3>2 DEF ToSet
  <2>3. currentTime = 0 /\ lastTime = currentTime
    BY <1>0, <1>3 DEF initialize, Clocks
  <2>4. \A e \in new : e.due >= currentTime
    BY <2>2, <2>3, OrchestratorAssumption DEF Timed
  <2> QED BY <1>2, <1>3, <2>2, <2>3, <2>4 DEF initialize
<1>4. CASE insert
  <2> DEFINE e == newEvents[Len(newEvents)]
  <2>1. e \in ToSet(newEvents) /\ e \in Events
    BY <1>0, <1>4, FrontElements, FrontSet DEF insert, TypeOK
  <2>2. Timed(e) /\ e.due >= currentTime /\ lastTime = currentTime
    BY <1>0, <1>4, <2>1 DEF insert, IInv, SentInTick, Clocks
  <2> HIDE DEF e
  <2>3. {e} \in SUBSET Events /\ \A f \in {e} : Timed(f) /\ f.due >= currentTime
    BY <2>1, <2>2
  <2>4. /\ queue' = queue \cup Insertable({e}) /\ lastTime' = lastTime
        /\ dropped' = dropped \cup ({e} \ Insertable({e}))
    BY <1>4 DEF insert, e
  <2> QED BY <1>2, <2>2, <2>3, <2>4
<1>5. CASE pop
  BY <1>0, <1>5 DEF pop, EventsAreOnTime, Clocks
<1>6. UNCHANGED <<queue, dropped, lastTime>> \/ initialize \/ insert \/ pop
  BY DEF Next, Step, Done, vars, mainVars, senderVars, historyVars, Construct,
         addModule, ConstructorReturns, sendWithDelay, run, Initialized, tick,
         notify, notifyReturns, EndOfTick, RunReturns
<1> QED BY <1>1, <1>3, <1>4, <1>5, <1>6

LEMMA HigherNext ==
  ASSUME IInv, [Next]_vars
  PROVE  HigherPrioritiesFirst'
<1>0. TypeOK /\ HigherPrioritiesFirst
  BY DEF IInv
<1>1. CASE phase' # "inserting"
  BY <1>1 DEF HigherPrioritiesFirst
<1>2. CASE UNCHANGED <<phase, modules, i, localTime, currentTime, top>>
  BY <1>0, <1>2 DEF HigherPrioritiesFirst, Offered
<1>3. CASE pop
  <2>1. /\ i \in 1 .. Len(modules) + 1 /\ ~(i <= Len(modules) /\ top.valid)
        /\ \A m \in Offered : localTime[m] = currentTime
        /\ \A j, k \in DOMAIN modules :
             j < k => Priority[modules[j]] >= Priority[modules[k]]
        /\ UNCHANGED <<modules, i, localTime, currentTime, top>>
    BY <1>3 DEF pop, IInv, Broadcast, mainVars
  <2>2. ASSUME NEW m \in ToSet(modules) \ Offered
        PROVE  ~top.valid /\ \A n \in Offered : Priority[n] >= Priority[m]
    <3>1. PICK k \in 1 .. Len(modules) : m = modules[k]
      BY <1>0, <2>2, ModulesInOrder
    <3>2. ~(k \in 1 .. i - 1)
      BY <2>2, <3>1 DEF Offered
    <3>3. i <= k /\ ~top.valid
      BY <1>0, <2>1, <3>2, ModulesInOrder
    <3>4. ASSUME NEW n \in Offered PROVE Priority[n] >= Priority[m]
      <4>1. PICK j \in 1 .. i - 1 : n = modules[j]
        BY <3>4 DEF Offered
      <4>2. j \in DOMAIN modules /\ k \in DOMAIN modules /\ j < k
        BY <1>0, <2>1, <3>3, <4>1, ModulesInOrder
      <4> QED BY <2>1, <3>1, <4>1, <4>2
    <3> QED BY <3>3, <3>4
  <2> QED BY <2>1, <2>2 DEF HigherPrioritiesFirst, Offered
<1>4. \/ phase' # "inserting" \/ pop
      \/ UNCHANGED <<phase, modules, i, localTime, currentTime, top>>
  BY DEF Next, Step, Done, vars, mainVars, senderVars, historyVars, Construct,
         addModule, ConstructorReturns, sendWithDelay, run, initialize,
         Initialized, tick, notify, notifyReturns, insert, EndOfTick, RunReturns
<1> QED BY <1>1, <1>2, <1>3, <1>4

-----------------------------------------------------------------------------
(* The ids *)

Unique(S) == \A e, f \in S : e.id = f.id => e = f

LEMMA IdsUnion == \A S, T : Ids(S \cup T) = Ids(S) \cup Ids(T)
  BY DEF Ids

LEMMA IdsWithout ==
  ASSUME NEW S, NEW T, T \subseteq S, Unique(S)
  PROVE  Ids(S \ T) = Ids(S) \ Ids(T) /\ Ids(T) \subseteq Ids(S)
<1>1. ASSUME NEW e \in S \ T, NEW f \in T PROVE e.id # f.id
  BY <1>1 DEF Unique
<1>2. ASSUME NEW x \in Ids(S \ T) PROVE x \in Ids(S) \ Ids(T)
  <2>1. PICK e \in S \ T : x = e.id
    BY <1>2 DEF Ids
  <2> QED BY <1>1, <2>1 DEF Ids
<1>3. ASSUME NEW x \in Ids(S) \ Ids(T) PROVE x \in Ids(S \ T)
  <2>1. PICK e \in S : x = e.id
    BY <1>3 DEF Ids
  <2>2. e \notin T
    BY <1>3, <2>1 DEF Ids
  <2> QED BY <2>1, <2>2 DEF Ids
<1>4. Ids(T) \subseteq Ids(S)
  BY DEF Ids
<1> QED BY <1>2, <1>3, <1>4

(* NoMessageLost, from its parts. *)
InOnePlace == Partition(messageId, Ids(Unsent), Ids(queue), Ids(ToSet(newEvents)),
                     Ids(dropped), dispatched)

Waiting == Unsent \cup queue \cup ToSet(newEvents)

LEMMA NothingLost ==
  ASSUME InOnePlace', Unique(Waiting)', Emptied', SentInTick'
  PROVE  NoMessageLost'
<1> DEFINE P == Places'
<1>1. /\ 1 .. messageId' = UNION {P[j] : j \in 1 .. 5}
      /\ \A j, k \in 1 .. 5 : j # k => P[j] \cap P[k] = {}
  <2>1. /\ P[1] = Ids(Unsent)' /\ P[2] = Ids(queue)'
        /\ P[3] = Ids(ToSet(newEvents))' /\ P[4] = Ids(dropped)'
        /\ P[5] = dispatched'
    BY DEF Places
  <2>2. Partition(messageId', P[1], P[2], P[3], P[4], P[5])
    BY <2>1 DEF InOnePlace
  <2> HIDE DEF P
  <2> QED BY ONLY <2>2, PartitionOf
<1>2. \A e, f \in (Unsent \cup queue \cup ToSet(newEvents))' :
        e.id = f.id => e = f
  BY DEF Unique, Waiting
<1>3. phase' = "looping" =>
        newEvents' = <<>> /\ \A m \in ToSet(modules)' : events'[m] = <<>>
  BY DEF Emptied, SentInTick
<1> QED BY <1>1, <1>2, <1>3 DEF NoMessageLost

LEMMA NothingLostYet ==
  ASSUME IInv
  PROVE  InOnePlace /\ Unique(Waiting)
  BY Located DEF IInv, InOnePlace, Unique, Waiting, NoMessageLost

(* A module's list is handed over. *)
LEMMA HandedOver ==
  ASSUME IInv, NEW n \in Modules, events' = [events EXCEPT ![n] = <<>>]
  PROVE  /\ ToSet(events[n]) \subseteq Unsent
         /\ Unsent' = Unsent \ ToSet(events[n])
<1>1. /\ events'[n] = <<>> /\ \A m \in Modules \ {n} : events'[m] = events[m]
      /\ \A m \in Modules : \A e \in ToSet(events[m]) : e.sender = m
  BY DEF IInv, TypeOK, Lists, ToSet
<1>2. ToSet(events'[n]) = {}
  BY <1>1 DEF ToSet
<1>3. ToSet(events[n]) \subseteq Unsent
  BY DEF Unsent
<1>4. ASSUME NEW e \in Unsent' PROVE e \in Unsent \ ToSet(events[n])
  <2>1. PICK m \in Modules : e \in ToSet(events'[m])
    BY <1>4 DEF Unsent
  <2>2. m # n /\ e \in ToSet(events[m])
    BY <1>1, <1>2, <2>1
  <2> QED BY <1>1, <2>2 DEF Unsent
<1>5. ASSUME NEW e \in Unsent \ ToSet(events[n]) PROVE e \in Unsent'
  <2>1. PICK m \in Modules : e \in ToSet(events[m])
    BY <1>5 DEF Unsent
  <2>2. m # n /\ e \in ToSet(events'[m])
    BY <1>1, <1>5, <2>1
  <2> QED BY <2>2 DEF Unsent
<1> QED BY <1>3, <1>4, <1>5

(* Sending makes a new id. *)
LEMMA SendLosesNothing ==
  ASSUME IInv, sendWithDelay
  PROVE  InOnePlace' /\ Unique(Waiting)'
<1>0. TypeOK /\ InOnePlace /\ Unique(Waiting)
  BY NothingLostYet DEF IInv
<1>1. UNCHANGED <<queue, newEvents, dropped, dispatched>>
  BY DEF sendWithDelay, historyVars
<1>2. CASE UNCHANGED senderVars
  BY <1>0, <1>1, <1>2 DEF senderVars, InOnePlace, Waiting, Unsent, Unique
<1>3. CASE ~UNCHANGED senderVars
  <2>1. /\ messageId' = messageId + 1 /\ Head(todo).delay >= 0
        /\ events' = [events EXCEPT ![self] = Append(@, NewEvent)]
    BY <1>0, <1>3, SendEffect
  <2>2. /\ NewEvent \in Events /\ NewEvent.id = messageId + 1
        /\ self \in Modules
        /\ events'[self] = Append(events[self], NewEvent)
        /\ \A m \in Modules \ {self} : events'[m] = events[m]
    BY <2>1, SendDetails
  <2>3. ToSet(events'[self]) = ToSet(events[self]) \cup {NewEvent}
    <3>1. events[self] \in Seq(Events)
      BY <1>0, <2>2 DEF TypeOK
    <3> QED BY <2>2, <3>1, AppendElements
  <2>4. Unsent' = Unsent \cup {NewEvent}
    <3>1. \A e : e \in Unsent' <=> e \in Unsent \/ e = NewEvent
      BY <2>2, <2>3 DEF Unsent
    <3> QED BY <3>1
  <2>5. Ids(Unsent') = Ids(Unsent) \cup {messageId + 1}
    BY <2>2, <2>4 DEF Ids
  <2>6. 1 .. messageId + 1 = 1 .. messageId \cup {messageId + 1}
        /\ messageId + 1 \notin 1 .. messageId
    BY <1>0 DEF TypeOK
  <2>7. InOnePlace'
    BY <1>0, <1>1, <2>1, <2>5, <2>6 DEF InOnePlace, Partition
  <2>8. Waiting' = Waiting \cup {NewEvent}
    BY <1>1, <2>4 DEF Waiting
  <2>9. \A e \in Waiting : e.id # NewEvent.id
    <3>1. \A e \in Waiting : e.id \in 1 .. messageId
      BY <1>0 DEF InOnePlace, Partition, Waiting, Ids
    <3> QED BY <2>2, <2>6, <3>1
  <2> QED BY <1>0, <2>7, <2>8, <2>9 DEF Unique
<1> QED BY <1>2, <1>3

LEMMA InitializeLosesNothing ==
  ASSUME IInv, initialize
  PROVE  InOnePlace' /\ Unique(Waiting)'
<1> DEFINE A == ToSet(events[modules[i]])
           In == Insertable(A)
<1>0. InOnePlace /\ Unique(Waiting)
  BY NothingLostYet
<1>1. /\ UNCHANGED <<messageId, newEvents, dispatched>>
      /\ queue' = queue \cup In /\ dropped' = dropped \cup (A \ In)
  BY DEF initialize
<1>2. A \subseteq Unsent /\ Unsent' = Unsent \ A
  <2>1. modules[i] \in Modules
    BY DEF initialize, IInv, Emptied, TypeOK
  <2> QED BY <2>1, HandedOver DEF initialize
<1>3. In \subseteq A
  BY DEF Insertable
<1> HIDE DEF A, In
<1>4. Unique(Unsent)
  BY <1>0 DEF Unique, Waiting
<1>5. /\ Ids(Unsent') = Ids(Unsent) \ Ids(A)
      /\ Ids(A) \subseteq Ids(Unsent) /\ Ids(In) \subseteq Ids(A)
      /\ Ids(queue') = Ids(queue) \cup Ids(In)
      /\ Ids(dropped') = Ids(dropped) \cup (Ids(A) \ Ids(In))
  <2>1. /\ Ids(Unsent \ A) = Ids(Unsent) \ Ids(A)
        /\ Ids(A) \subseteq Ids(Unsent) /\ Ids(In) \subseteq Ids(A)
        /\ Ids(A \ In) = Ids(A) \ Ids(In)
    <3>1. A \subseteq Unsent
      BY <1>2
    <3>2. Unique(A)
      BY <1>4, <3>1 DEF Unique
    <3>3. Ids(Unsent \ A) = Ids(Unsent) \ Ids(A) /\ Ids(A) \subseteq Ids(Unsent)
      BY <1>4, <3>1, IdsWithout
    <3>4. Ids(A \ In) = Ids(A) \ Ids(In) /\ Ids(In) \subseteq Ids(A)
      BY <1>3, <3>2, IdsWithout
    <3> QED BY <3>3, <3>4
  <2>2. /\ Ids(queue \cup In) = Ids(queue) \cup Ids(In)
        /\ Ids(dropped \cup (A \ In)) = Ids(dropped) \cup Ids(A \ In)
    BY IdsUnion
  <2> QED BY <1>1, <1>2, <2>1, <2>2
<1>6. InOnePlace'
  BY <1>0, <1>1, <1>5 DEF InOnePlace, Partition
<1>7. Waiting' \subseteq Waiting
  BY <1>1, <1>2, <1>3 DEF Waiting
<1> QED BY <1>0, <1>6, <1>7 DEF Unique

LEMMA NotifyReturnsLosesNothing ==
  ASSUME IInv, notifyReturns
  PROVE  InOnePlace' /\ Unique(Waiting)'
<1> DEFINE A == ToSet(events[self])
<1>0. InOnePlace /\ Unique(Waiting)
  BY NothingLostYet
<1>1. UNCHANGED <<messageId, queue, dropped, dispatched>>
  BY DEF notifyReturns, historyVars
<1>2. A \subseteq Unsent /\ Unsent' = Unsent \ A
  BY HandedOver, NotifyReturnsEffect DEF notifyReturns
<1>3. ToSet(newEvents') = ToSet(newEvents) \cup A
  BY NotifyReturnsEffect
<1> HIDE DEF A
<1>4. Unique(Unsent)
  BY <1>0 DEF Unique, Waiting
<1>5. /\ Ids(Unsent') = Ids(Unsent) \ Ids(A)
      /\ Ids(A) \subseteq Ids(Unsent)
      /\ Ids(ToSet(newEvents')) = Ids(ToSet(newEvents)) \cup Ids(A)
  BY <1>2, <1>3, <1>4, IdsWithout, IdsUnion
<1>6. InOnePlace'
  BY <1>0, <1>1, <1>5 DEF InOnePlace, Partition
<1>7. Waiting' \subseteq Waiting
  BY <1>1, <1>2, <1>3 DEF Waiting
<1> QED BY <1>0, <1>6, <1>7 DEF Unique

LEMMA PopLosesNothing ==
  ASSUME IInv, pop
  PROVE  InOnePlace' /\ Unique(Waiting)'
<1>0. InOnePlace /\ Unique(Waiting)
  BY NothingLostYet
<1>1. /\ UNCHANGED <<messageId, events, newEvents, dropped>>
      /\ queue' = {e \in queue : e.id # top.id}
      /\ dispatched' = dispatched \cup {top.id}
  BY DEF pop, senderVars
<1>2. top.id \in Ids(queue)
  BY DEF pop, IInv, Broadcast, Ids
<1>3. Ids(queue') = Ids(queue) \ {top.id}
  BY <1>1 DEF Ids
<1>4. InOnePlace'
  BY <1>0, <1>1, <1>2, <1>3 DEF InOnePlace, Partition, Unsent
<1>5. Waiting' \subseteq Waiting
  BY <1>1 DEF Waiting, Unsent
<1> QED BY <1>0, <1>4, <1>5 DEF Unique

(* The last new event is there once. *)
LEMMA LastOnce ==
  ASSUME IInv, insert
  PROVE  /\ newEvents[Len(newEvents)] \in ToSet(newEvents)
         /\ ToSet(newEvents') = ToSet(newEvents) \ {newEvents[Len(newEvents)]}
<1> DEFINE last == newEvents[Len(newEvents)]
           front == SubSeq(newEvents, 1, Len(newEvents) - 1)
<1>1. newEvents \in Seq(Events) /\ newEvents # <<>> /\ newEvents' = front
  BY DEF insert, IInv, TypeOK
<1>2. /\ DOMAIN newEvents = 1 .. Len(newEvents) /\ Len(newEvents) \in Nat \ {0}
      /\ DOMAIN front = 1 .. Len(newEvents) - 1
      /\ \A k \in 1 .. Len(newEvents) - 1 : front[k] = newEvents[k]
      /\ ToSet(newEvents) = ToSet(front) \cup {last}
  BY <1>1, FrontElements, FrontSet
<1>3. \A k \in 1 .. Len(newEvents) - 1 : newEvents[k] # last
  <2> SUFFICES ASSUME NEW k \in 1 .. Len(newEvents) - 1, newEvents[k] = last
               PROVE  FALSE
    OBVIOUS
  <2>1. last.id \in Nat /\ newEvents[k].sender = last.sender
    BY <1>1, <1>2, EventTypes
  <2>2. newEvents[k].id > last.id
    BY <1>2, <2>1 DEF IInv, InsertedInOrderSent
  <2> QED BY <2>1, <2>2
<1> HIDE DEF last, front
<1>4. last \notin ToSet(front)
  BY <1>2, <1>3 DEF ToSet
<1> QED BY <1>1, <1>2, <1>4 DEF last

LEMMA InsertLosesNothing ==
  ASSUME IInv, insert
  PROVE  InOnePlace' /\ Unique(Waiting)'
<1> DEFINE new == ToSet(newEvents)
           A == {newEvents[Len(newEvents)]}
           In == Insertable(A)
<1>0. InOnePlace /\ Unique(Waiting)
  BY NothingLostYet
<1>1. /\ UNCHANGED <<messageId, events, dispatched>>
      /\ queue' = queue \cup In /\ dropped' = dropped \cup (A \ In)
  BY DEF insert, senderVars
<1>2. A \subseteq new /\ ToSet(newEvents') = new \ A
  BY LastOnce
<1>3. In \subseteq A
  BY DEF Insertable
<1>4. InOnePlace => Partition(messageId, Ids(Unsent), Ids(queue), Ids(new),
                           Ids(dropped), dispatched)
  BY DEF InOnePlace
<1>5. Waiting = Unsent \cup queue \cup new
  BY DEF Waiting
<1> HIDE DEF A, In, new
<1>6. Unique(new)
  BY <1>0, <1>5 DEF Unique
<1>7. /\ Ids(ToSet(newEvents')) = Ids(new) \ Ids(A)
      /\ Ids(A) \subseteq Ids(new) /\ Ids(In) \subseteq Ids(A)
      /\ Ids(queue') = Ids(queue) \cup Ids(In)
      /\ Ids(dropped') = Ids(dropped) \cup (Ids(A) \ Ids(In))
  <2>1. /\ Ids(new \ A) = Ids(new) \ Ids(A)
        /\ Ids(A) \subseteq Ids(new) /\ Ids(In) \subseteq Ids(A)
        /\ Ids(A \ In) = Ids(A) \ Ids(In)
    <3>1. A \subseteq new
      BY <1>2
    <3>2. Unique(A)
      BY <1>6, <3>1 DEF Unique
    <3>3. Ids(new \ A) = Ids(new) \ Ids(A) /\ Ids(A) \subseteq Ids(new)
      BY <1>6, <3>1, IdsWithout
    <3>4. Ids(A \ In) = Ids(A) \ Ids(In) /\ Ids(In) \subseteq Ids(A)
      BY <1>3, <3>2, IdsWithout
    <3> QED BY <3>3, <3>4
  <2>2. /\ Ids(queue \cup In) = Ids(queue) \cup Ids(In)
        /\ Ids(dropped \cup (A \ In)) = Ids(dropped) \cup Ids(A \ In)
    BY IdsUnion
  <2> QED BY <1>1, <1>2, <2>1, <2>2
<1>8. InOnePlace'
  <2>1. Unsent' = Unsent
    BY <1>1 DEF Unsent
  <2>2. Partition(messageId, Ids(Unsent), Ids(queue), Ids(new),
                  Ids(dropped), dispatched)
    BY <1>0, <1>4
  <2>3. Partition(messageId', Ids(Unsent'), Ids(queue'), Ids(ToSet(newEvents')),
                  Ids(dropped'), dispatched')
    BY <1>1, <1>7, <2>1, <2>2 DEF Partition
  <2> QED BY <2>3 DEF InOnePlace
<1>9. Waiting' \subseteq Waiting
  BY <1>1, <1>2, <1>3, <1>5 DEF Waiting, Unsent
<1> QED BY <1>0, <1>8, <1>9 DEF Unique

LEMMA NoMessageLostNext ==
  ASSUME IInv, [Next]_vars
  PROVE  NoMessageLost'
<1>1. InOnePlace' /\ Unique(Waiting)'
  <2>1. CASE UNCHANGED <<senderVars, queue, newEvents, dropped, dispatched>>
    BY <2>1, NothingLostYet
    DEF senderVars, InOnePlace, Unique, Waiting, Unsent
  <2>2. \/ UNCHANGED <<senderVars, queue, newEvents, dropped, dispatched>>
        \/ sendWithDelay \/ initialize \/ notifyReturns \/ pop \/ insert
    BY DEF Next, Step, Done, vars, mainVars, historyVars, Construct,
           addModule, ConstructorReturns, run, Initialized, tick, notify,
           EndOfTick, RunReturns
  <2> QED
    BY <2>1, <2>2, SendLosesNothing, InitializeLosesNothing,
       NotifyReturnsLosesNothing, PopLosesNothing, InsertLosesNothing
<1> QED BY <1>1, EmptiedNext, SentInTickNext, NothingLost

-----------------------------------------------------------------------------
(* The theorems *)

LEMMA NextIInv == IInv /\ [Next]_vars => IInv'
  BY TypeNext, ClocksNext, BroadcastNext, ListsNext, EmptiedNext,
     SentInTickNext, NoMessageLostNext, OnTimeNext, HigherNext, OrderNext
  DEF IInv

(* The inductive invariant holds for any modules, priorities and width of  *)
(* an int, whatever the modules send and intercept.                        *)
THEOREM Invariance == Spec => []IInv
  BY InitIInv, NextIInv, PTL DEF Spec

(* Every variable of System and module holds a value of its type; event    *)
(* times included, which wrap around.                                      *)
THEOREM TypeCorrect == Spec => []TypeOK
<1>1. IInv => TypeOK
  BY DEF IInv
<1> QED BY <1>1, Invariance, PTL

(* A message with an id is in one place: the list of a module, newEvents,  *)
(* the queue, among the dropped ones, or dispatched.                       *)
THEOREM MessagesAreKept == Spec => []NoMessageLost
<1>1. IInv => NoMessageLost
  BY DEF IInv
<1> QED BY <1>1, Invariance, PTL

(* An event in the queue is due at its time, and one that insert() drops   *)
(* is due beyond the last int: a send is delivered on time or overflows.   *)
THEOREM OnTime == Spec => []EventsAreOnTime
<1>1. IInv => EventsAreOnTime
  BY DEF IInv
<1> QED BY <1>1, Invariance, PTL

(* The broadcast goes by priority, and only a message that was intercepted *)
(* does not get to all modules.                                            *)
THEOREM ByPriority == Spec => []HigherPrioritiesFirst
<1>1. IInv => HigherPrioritiesFirst
  BY DEF IInv
<1> QED BY <1>1, Invariance, PTL

(* newEvents is kept the other way round, so that events are inserted in   *)
(* the order they were sent in.                                            *)
THEOREM InOrderSent == Spec => []InsertedInOrderSent
<1>1. IInv => InsertedInOrderSent
  BY DEF IInv
<1> QED BY <1>1, Invariance, PTL

(* Simulated time never runs backwards. *)
THEOREM Monotone == Spec => TimeIsMonotone
<1>1. ASSUME IInv, [Next]_vars PROVE currentTime' >= currentTime
  <2>1. CASE UNCHANGED currentTime
    BY <1>1, <2>1, TimeTypes DEF IInv
  <2>2. CASE tick
    BY <2>2, <1>1 DEF tick, IInv, Clocks
  <2>3. UNCHANGED currentTime \/ tick
    BY <1>1 DEF Next, Step, Done, vars, mainVars, senderVars, historyVars,
         Construct, addModule, ConstructorReturns, sendWithDelay, run,
         initialize, Initialized, notify, notifyReturns, pop, insert,
         EndOfTick, RunReturns
  <2> QED BY <2>1, <2>2, <2>3
<1>2. IInv /\ [Next]_vars => [currentTime' >= currentTime]_vars
  BY <1>1
<1> QED BY <1>2, Invariance, PTL DEF Spec, TimeIsMonotone

-----------------------------------------------------------------------------
(* Ticks are atomic *)

EventView(e) == [id |-> e.id, time |-> e.time, dest |-> e.msg.dest]

LEMMA Views ==
  /\ \A S : View(S) = {EventView(e) : e \in S}
  /\ \A S, T : View(S \cup T) = View(S) \cup View(T)
  BY DEF View, EventView

(* Popping the event at work takes its view from the view of the queue. *)
LEMMA ViewWithout ==
  ASSUME NEW S, NEW e \in S, Unique(S)
  PROVE  View({f \in S : f.id # e.id}) = View(S) \ {EventView(e)}
<1> DEFINE rest == {f \in S : f.id # e.id}
<1>1. ASSUME NEW v \in View(rest) PROVE v \in View(S) \ {EventView(e)}
  <2>1. PICK f \in rest : v = EventView(f)
    BY <1>1, Views
  <2>2. v.id # EventView(e).id
    BY <2>1 DEF EventView
  <2> QED BY <2>1, <2>2, Views
<1>2. ASSUME NEW v \in View(S) \ {EventView(e)} PROVE v \in View(rest)
  <2>1. PICK f \in S : v = EventView(f)
    BY <1>2, Views
  <2>2. f.id # e.id
    BY <1>2, <2>1 DEF Unique
  <2> QED BY <2>1, <2>2, Views
<1> QED BY <1>1, <1>2

LEMMA ViewInsertable ==
  \A S : View(Insertable(S)) = {v \in View(S) : v.time >= currentTime}
<1> SUFFICES ASSUME NEW S
             PROVE  View(Insertable(S)) = {v \in View(S) : v.time >= currentTime}
  OBVIOUS
<1>1. \A e : EventView(e).time = e.time
  BY DEF EventView
<1> QED BY <1>1, Views DEF Insertable, insertable

(* pop is the step of System: the event at work has the least time. *)
LEMMA PopIsTick ==
  ASSUME IInv, pop
  PROVE  \E e \in AbstractQueue :
           /\ EventList!Notifies(e, e.dest)
           /\ EventList!Tick(e, View(ToSet(newEvents)))
<1>1. /\ phase = "notifying" /\ phase' = "inserting"
      /\ queue' = {e \in queue : e.id # top.id}
      /\ UNCHANGED <<newEvents, currentTime>>
  BY DEF pop
<1>2. PICK q \in queue : q.id = top.id /\ q.time = currentTime
  BY <1>1 DEF IInv, Broadcast
<1> DEFINE e == EventView(q)
<1>3. AbstractQueue = View(queue)
  BY <1>1 DEF AbstractQueue
<1>4. e \in AbstractQueue
  BY <1>3, Views
<1>5. e.time = currentTime
  BY <1>2 DEF EventView
<1>6. \A v \in AbstractQueue : e.time <= v.time
  <2> SUFFICES ASSUME NEW f \in queue PROVE e.time <= EventView(f).time
    BY <1>3, Views
  <2>1. f.time >= currentTime /\ f.time \in Int /\ currentTime \in Int
    BY EventTypes, TimeTypes DEF IInv, TypeOK, Clocks
  <2> QED BY <1>5, <2>1 DEF EventView
<1>7. AbstractQueue' =
        (AbstractQueue \ {e})
          \cup {v \in View(ToSet(newEvents)) : v.time >= currentTime}
  <2>1. Unique(queue)
    BY NothingLostYet DEF Unique, Waiting
  <2>2. View(queue') = View(queue) \ {e}
    BY <1>1, <1>2, <2>1, ViewWithout
  <2>3. AbstractQueue' = View(queue' \cup Insertable(ToSet(newEvents)))
    BY <1>1 DEF AbstractQueue, Insertable, insertable
  <2> QED BY <1>3, <2>2, <2>3, Views, ViewInsertable
<1>8. AbstractTime' = currentTime
  BY <1>1 DEF AbstractTime
<1> HIDE DEF e
<1>9. EventList!Notifies(e, e.dest)
  BY <1>4, <1>6 DEF EventList!Notifies, EventList!Running
<1>10. EventList!Tick(e, View(ToSet(newEvents)))
  BY <1>5, <1>7, <1>8 DEF EventList!Tick, EventList!insertable
<1> QED BY <1>4, <1>9, <1>10

(* All other steps of the loop keep the view. *)
LEMMA OthersAreStutters ==
  ASSUME IInv, [Next]_vars, Looping, ~pop
  PROVE  UNCHANGED <<AbstractTime, AbstractQueue>>
<1> USE DEF mainVars, senderVars, historyVars, Looping
<1>1. CASE sendWithDelay
  BY <1>1 DEF sendWithDelay, AbstractTime, AbstractQueue
<1>2. CASE tick
  BY <1>2 DEF tick, AbstractTime, AbstractQueue, IInv, Clocks
<1>3. CASE notify
  BY <1>3 DEF notify, AbstractTime, AbstractQueue
<1>4. CASE notifyReturns
  BY <1>4 DEF notifyReturns, AbstractTime, AbstractQueue
<1>5. CASE insert
  <2> DEFINE new == ToSet(newEvents)
             last == newEvents[Len(newEvents)]
  <2>1. /\ phase = "inserting" /\ UNCHANGED <<phase, currentTime>>
        /\ queue' = queue \cup Insertable({last})
    BY <1>5 DEF insert
  <2>2. last \in new /\ ToSet(newEvents') = new \ {last}
    BY <1>5, LastOnce
  <2> HIDE DEF new, last
  <2>3. queue' \cup Insertable(ToSet(newEvents')) = queue \cup Insertable(new)
    BY <2>1, <2>2 DEF Insertable
  <2>4. AbstractQueue' = View(queue' \cup Insertable(ToSet(newEvents')))
    BY <2>1 DEF AbstractQueue, Insertable, insertable
  <2> QED BY <2>1, <2>3, <2>4 DEF AbstractQueue, AbstractTime, new
<1>6. CASE EndOfTick
  <2>1. Insertable(ToSet(newEvents)) = {}
    BY <1>6 DEF EndOfTick, Insertable, ToSet
  <2> QED BY <1>6, <2>1 DEF EndOfTick, AbstractTime, AbstractQueue
<1>7. CASE RunReturns
  BY <1>7 DEF RunReturns, AbstractTime, AbstractQueue
<1>8. CASE UNCHANGED vars
  BY <1>8 DEF vars, AbstractTime, AbstractQueue, Insertable, insertable
<1> QED
  BY <1>1, <1>2, <1>3, <1>4, <1>5, <1>6, <1>7, <1>8
  DEF Next, Step, Done, Construct, addModule, ConstructorReturns, run,
      initialize, Initialized

(* The loop of run(), which notifies one module and inserts one event at a *)
(* time, implements the one-step ticks of System.                          *)
THEOREM AtomicTicks == Spec => TicksAreAtomic
<1>1. ASSUME IInv, [Next]_vars
      PROVE  [Looping =>
                \E e \in AbstractQueue :
                  /\ EventList!Notifies(e, e.dest)
                  /\ EventList!Tick(e, View(ToSet(newEvents)))
             ]_<<AbstractTime, AbstractQueue>>
  BY <1>1, PopIsTick, OthersAreStutters
<1> QED BY <1>1, Invariance, PTL DEF Spec, TicksAreAtomic
=============================================================================
