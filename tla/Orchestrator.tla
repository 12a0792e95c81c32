---------------------------- MODULE Orchestrator ----------------------------
(***************************************************************************)
(* Classes System and module in full, under any modules main() may plug    *)
(* in: registration by priority, the broadcast of each message and its     *)
(* interception, the way a sent message takes from sendWithDelay() to the  *)
(* queue, and event times that are ints.  System abstracts all of this to  *)
(* one atomic step per event; TicksAreAtomic says that it may.             *)
(*                                                                         *)
(* What a concrete module does is a parameter: the messages it sends from  *)
(* its constructor and from onNotify().                                    *)
(***************************************************************************)
EXTENDS Integers, SequencesExt

CONSTANTS
  Modules,            \* the module objects
  Priority,           \* the priority of each
  Names,              \* what message::source and dest can hold
  IntLimit,           \* an int is one of -IntLimit .. IntLimit - 1
  FirstSends(_),      \* the sends a constructor may make
  onNotify(_, _, _)   \* module, message, time: what onNotify() may do

Ints == -IntLimit .. IntLimit - 1

Messages == [source : Names, dest : Names, timestamp : Ints]

(* A call of sendWithDelay(): the message, whether it is valid, the delay. *)
Sends == [msg : Messages, valid : BOOLEAN, delay : Ints]

(* What onNotify() does: its calls of sendWithDelay(), and whether the     *)
(* message it was given is still valid when it returns.                    *)
Outcomes == [sends : Seq(Sends), valid : BOOLEAN]

ASSUME OrchestratorAssumption ==
  /\ Modules # {}
  /\ Names # {}
  /\ IntLimit \in Nat \ {0}
  /\ Priority \in [Modules -> Int]

ASSUME ClientAssumption ==
  \A m \in Modules :
    /\ FirstSends(m) \subseteq Seq(Sends)
    /\ \A message \in Messages : \A now \in 0 .. IntLimit - 1 :
         onNotify(m, message, now) \subseteq Outcomes

VARIABLES
  phase,         \* where the program is, see Phases
  constructed,   \* the modules that exist
  modules,       \* System::modules
  i,             \* the index of the loop over modules
  self,          \* the module whose code runs
  todo,          \* the sends that code has yet to make
  events,        \* module::events of each module
  messageId,     \* module::_messageId
  localTime,     \* module::_currentTime of each module
  top,           \* the event at work
  newEvents,     \* newEvents of notify_all(), then result of tick()
  queue,         \* System::queue
  currentTime    \* System::currentTime

(* Histories, which the program does not keep. *)
VARIABLES
  dispatched,    \* the ids of the messages whose event was popped
  dropped,       \* the events insert() did not take
  lastTime       \* the time of the last tick that was finished

mainVars    == <<constructed, modules>>
senderVars  == <<events, messageId>>
historyVars == <<dispatched, dropped, lastTime>>
vars == <<phase, mainVars, i, self, todo, senderVars, localTime, top,
          newEvents, queue, currentTime, historyVars>>

Phases ==
  {"main",           \* main() builds and adds modules
   "constructing",   \* a constructor of main() runs
   "initializing",   \* the first loop of run()
   "looping",        \* the second loop of run()
   "notifying",      \* the loop of notify_all()
   "handling",       \* onNotify() of modules[i]
   "inserting",      \* the loop at the end of tick()
   "done"}           \* run() has returned

(* An int computed from two ints: it wraps around. *)
Wrap(n) == ((n + IntLimit) % (2 * IntLimit)) - IntLimit

(* due is the time the event was meant for, and sender the module that     *)
(* sent it; neither is in the code.                                        *)
Events ==
  [id : Nat, time : Ints, msg : Messages, valid : BOOLEAN,
   due : Int, sender : Modules]

NoEvent ==
  [id |-> 0, time |-> 0, msg |-> CHOOSE msg \in Messages : TRUE,
   valid |-> FALSE, due |-> 0, sender |-> CHOOSE m \in Modules : TRUE]

Init ==
  /\ phase = "main"
  /\ constructed = {} /\ modules = <<>>
  /\ i = 0
  /\ self = CHOOSE m \in Modules : TRUE
  /\ todo = <<>>
  /\ events = [m \in Modules |-> <<>>]
  /\ messageId = 0
  /\ localTime = [m \in Modules |-> 0]
  /\ top = NoEvent
  /\ newEvents = <<>>
  /\ queue = {}
  /\ currentTime = 0
  /\ dispatched = {} /\ dropped = {} /\ lastTime = 0

-----------------------------------------------------------------------------
(* main() *)

(* A module is built; its constructor may send messages. *)
Construct(m) ==
  /\ phase = "main" /\ m \notin constructed
  /\ phase' = "constructing"
  /\ constructed' = constructed \cup {m}
  /\ self' = m
  /\ todo' \in FirstSends(m)
  /\ UNCHANGED <<modules, i, senderVars, localTime, top, newEvents, queue,
                 currentTime, historyVars>>

ConstructorReturns ==
  /\ phase = "constructing" /\ todo = <<>>
  /\ phase' = "main"
  /\ UNCHANGED <<mainVars, i, self, todo, senderVars, localTime, top,
                 newEvents, queue, currentTime, historyVars>>

(* order lists the modules of S, each once, those of higher priority       *)
(* first.  std::sort does not say how it arranges equal priorities.        *)
Sorts(order, S) ==
  /\ ToSet(order) = S
  /\ IsInjective(order)
  /\ \A j, k \in DOMAIN order :
       j < k => Priority[order[j]] >= Priority[order[k]]

(* Faulty variant: the new module is not moved to its place. *)
addModule_unsorted(m) ==
  /\ phase = "main" /\ m \in constructed \ ToSet(modules)
  /\ modules' = Append(modules, m)
  /\ UNCHANGED <<phase, constructed, i, self, todo, senderVars, localTime,
                 top, newEvents, queue, currentTime, historyVars>>

addModule(m) ==
  /\ phase = "main" /\ m \in constructed \ ToSet(modules)
  /\ modules' \in [1 .. Len(modules) + 1 -> Modules]
  /\ Sorts(modules', ToSet(modules) \cup {m})
  /\ UNCHANGED <<phase, constructed, i, self, todo, senderVars, localTime,
                 top, newEvents, queue, currentTime, historyVars>>

-----------------------------------------------------------------------------
(* class module *)

(* The running module sends its next message.  A negative delay loses it;  *)
(* the time of the event is computed as an int.                            *)
sendWithDelay ==
  /\ phase \in {"constructing", "handling"} /\ todo # <<>>
  /\ LET s == Head(todo)
     IN  IF s.delay < 0
           THEN UNCHANGED senderVars
           ELSE /\ messageId' = messageId + 1
                /\ events' = [events EXCEPT ![self] = Append(@,
                     [id |-> messageId + 1,
                      time |-> Wrap(localTime[self] + s.delay),
                      msg |-> s.msg, valid |-> s.valid,
                      due |-> currentTime + s.delay, sender |-> self])]
  /\ todo' = Tail(todo)
  /\ UNCHANGED <<phase, mainVars, i, self, localTime, top, newEvents, queue,
                 currentTime, historyVars>>

(* Faulty variant: the clock is set after the call of onNotify(). *)
notify_staleClock ==
  /\ phase = "notifying" /\ i <= Len(modules) /\ top.valid
  /\ phase' = "handling"
  /\ self' = modules[i]
  /\ \E outcome \in onNotify(modules[i], top.msg, top.time) :
       /\ todo' = outcome.sends
       /\ top' = [top EXCEPT !.valid = outcome.valid]
  /\ UNCHANGED <<mainVars, i, senderVars, localTime, newEvents, queue,
                 currentTime, historyVars>>

(* module::notify() up to the sends of onNotify(), which may digest the    *)
(* message by making it invalid.                                           *)
notify ==
  /\ phase = "notifying" /\ i <= Len(modules) /\ top.valid
  /\ phase' = "handling"
  /\ self' = modules[i]
  /\ localTime' = [localTime EXCEPT ![modules[i]] = top.time]
  /\ \E outcome \in onNotify(modules[i], top.msg, top.time) :
       /\ todo' = outcome.sends
       /\ top' = [top EXCEPT !.valid = outcome.valid]
  /\ UNCHANGED <<mainVars, i, senderVars, newEvents, queue, currentTime,
                 historyVars>>

(* Faulty variants: the module's list is not cleared, or not turned round. *)
notifyReturns_keepsList ==
  /\ phase = "handling" /\ todo = <<>>
  /\ phase' = "notifying"
  /\ newEvents' = newEvents \o Reverse(events[self])
  /\ i' = i + 1
  /\ UNCHANGED <<mainVars, self, todo, senderVars, localTime, top, queue,
                 currentTime, historyVars>>

notifyReturns_inOrder ==
  /\ phase = "handling" /\ todo = <<>>
  /\ phase' = "notifying"
  /\ newEvents' = newEvents \o events[self]
  /\ events' = [events EXCEPT ![self] = <<>>]
  /\ i' = i + 1
  /\ UNCHANGED <<mainVars, self, todo, messageId, localTime, top, queue,
                 currentTime, historyVars>>

(* The module's list is handed over and emptied, from the back. *)
notifyReturns ==
  /\ phase = "handling" /\ todo = <<>>
  /\ phase' = "notifying"
  /\ newEvents' = newEvents \o Reverse(events[self])
  /\ events' = [events EXCEPT ![self] = <<>>]
  /\ i' = i + 1
  /\ UNCHANGED <<mainVars, self, todo, messageId, localTime, top, queue,
                 currentTime, historyVars>>

-----------------------------------------------------------------------------
(* class System *)

(* Faulty variant: insert() looks at nothing. *)
insertable_all(e) == TRUE

(* insert() takes no event that lies in the past. *)
insertable(e) == e.time >= currentTime

Insertable(S) == {e \in S : insertable(e)}

run ==
  /\ phase = "main"
  /\ phase' = "initializing"
  /\ i' = 1
  /\ UNCHANGED <<mainVars, self, todo, senderVars, localTime, top, newEvents,
                 queue, currentTime, historyVars>>

(* The messages of the constructor of modules[i] are inserted. *)
initialize ==
  /\ phase = "initializing" /\ i <= Len(modules)
  /\ LET first == ToSet(events[modules[i]])
     IN  /\ queue' = queue \cup Insertable(first)
         /\ dropped' = dropped \cup (first \ Insertable(first))
  /\ events' = [events EXCEPT ![modules[i]] = <<>>]
  /\ i' = i + 1
  /\ UNCHANGED <<phase, mainVars, self, todo, messageId, localTime, top,
                 newEvents, currentTime, dispatched, lastTime>>

Initialized ==
  /\ phase = "initializing" /\ i > Len(modules)
  /\ phase' = "looping"
  /\ UNCHANGED <<mainVars, i, self, todo, senderVars, localTime, top,
                 newEvents, queue, currentTime, historyVars>>

(* tick() takes the top of the queue and sets the clock. *)
tick ==
  /\ phase = "looping"
  /\ \E e \in queue :
       /\ \A f \in queue : e.time <= f.time
       /\ top' = e
       /\ currentTime' = e.time
  /\ phase' = "notifying"
  /\ i' = 1
  /\ UNCHANGED <<mainVars, self, todo, senderVars, localTime, newEvents,
                 queue, historyVars>>

(* Faulty variant: the event stays in the queue. *)
pop_kept ==
  /\ phase = "notifying" /\ ~(i <= Len(modules) /\ top.valid)
  /\ phase' = "inserting"
  /\ dispatched' = dispatched \cup {top.id}
  /\ lastTime' = currentTime
  /\ UNCHANGED <<mainVars, i, self, todo, senderVars, localTime, top, queue,
                 newEvents, currentTime, dropped>>

(* No module is left to notify, or the message was intercepted: the event  *)
(* leaves the queue and is deleted with its message.                       *)
pop ==
  /\ phase = "notifying" /\ ~(i <= Len(modules) /\ top.valid)
  /\ phase' = "inserting"
  /\ queue' = {e \in queue : e.id # top.id}
  /\ dispatched' = dispatched \cup {top.id}
  /\ lastTime' = currentTime
  /\ UNCHANGED <<mainVars, i, self, todo, senderVars, localTime, top,
                 newEvents, currentTime, dropped>>

(* Faulty variant: a refused event ends the loop. *)
insert_stopsAtPast ==
  /\ phase = "inserting" /\ newEvents # <<>>
  /\ LET e == newEvents[Len(newEvents)]
     IN  /\ queue' = queue \cup Insertable({e})
         /\ dropped' = dropped \cup ({e} \ Insertable({e}))
         /\ newEvents' = IF insertable(e)
                           THEN SubSeq(newEvents, 1, Len(newEvents) - 1)
                           ELSE <<>>
  /\ UNCHANGED <<phase, mainVars, i, self, todo, senderVars, localTime, top,
                 currentTime, dispatched, lastTime>>

(* The last of the new events is inserted. *)
insert ==
  /\ phase = "inserting" /\ newEvents # <<>>
  /\ LET e == newEvents[Len(newEvents)]
     IN  /\ queue' = queue \cup Insertable({e})
         /\ dropped' = dropped \cup ({e} \ Insertable({e}))
  /\ newEvents' = SubSeq(newEvents, 1, Len(newEvents) - 1)
  /\ UNCHANGED <<phase, mainVars, i, self, todo, senderVars, localTime, top,
                 currentTime, dispatched, lastTime>>

EndOfTick ==
  /\ phase = "inserting" /\ newEvents = <<>>
  /\ phase' = "looping"
  /\ UNCHANGED <<mainVars, i, self, todo, senderVars, localTime, top,
                 newEvents, queue, currentTime, historyVars>>

(* There are no more events: run() returns, and main() with it. *)
RunReturns ==
  /\ phase = "looping" /\ queue = {}
  /\ phase' = "done"
  /\ UNCHANGED <<mainVars, i, self, todo, senderVars, localTime, top,
                 newEvents, queue, currentTime, historyVars>>

-----------------------------------------------------------------------------

Step ==
  \/ \E m \in Modules : Construct(m) \/ addModule(m)
  \/ ConstructorReturns
  \/ sendWithDelay
  \/ run
  \/ initialize
  \/ Initialized
  \/ tick
  \/ notify
  \/ notifyReturns
  \/ pop
  \/ insert
  \/ EndOfTick
  \/ RunReturns

Done == phase = "done" /\ UNCHANGED vars

Next == Step \/ Done

(* The program is a single thread, which goes on until main() is over. *)
Spec == Init /\ [][Next]_vars /\ WF_vars(Step)
-----------------------------------------------------------------------------
(* The state the properties speak of *)

Ids(S) == {e.id : e \in S}

(* The events that wait in the modules' own lists. *)
Unsent == UNION {ToSet(events[m]) : m \in Modules}

(* In a tick: the modules that have been offered the message. *)
Offered == {modules[k] : k \in 1 .. i - 1}

(* Where the id of a message can be. *)
Places ==
  <<Ids(Unsent), Ids(queue), Ids(ToSet(newEvents)), Ids(dropped), dispatched>>

-----------------------------------------------------------------------------
(* Properties *)

(* Every variable holds a value of its type. *)
TypeOK ==
  /\ phase \in Phases
  /\ constructed \subseteq Modules
  /\ modules \in Seq(Modules)
  /\ i \in Nat
  /\ self \in Modules
  /\ todo \in Seq(Sends)
  /\ events \in [Modules -> Seq(Events)]
  /\ messageId \in Nat
  /\ localTime \in [Modules -> 0 .. IntLimit - 1]
  /\ top \in Events
  /\ newEvents \in Seq(Events)
  /\ queue \subseteq Events
  /\ currentTime \in 0 .. IntLimit - 1
  /\ dispatched \subseteq Nat
  /\ dropped \subseteq Events
  /\ lastTime \in 0 .. IntLimit - 1

(* No message is lost or doubled on its way through the module's list, the *)
(* list of notify_all() and the queue: each one that was given an id is in *)
(* one place.  Between ticks the plugged-in modules hold none back.        *)
NoMessageLost ==
  /\ 1 .. messageId = UNION {Places[j] : j \in 1 .. 5}
  /\ \A j, k \in 1 .. 5 : j # k => Places[j] \cap Places[k] = {}
  /\ \A e, f \in Unsent \cup queue \cup ToSet(newEvents) :
       e.id = f.id => e = f
  /\ phase = "looping" =>
       newEvents = <<>> /\ \A m \in ToSet(modules) : events[m] = <<>>

(* The clock a module computes with, which is set only when it is          *)
(* notified, agrees with that of the system whenever it is read: an event  *)
(* is due "delay" ticks after the moment it was sent at, or beyond the     *)
(* last int.  Only in that case does insert() lose it, silently.           *)
EventsAreOnTime ==
  /\ \A e \in queue : e.time = e.due /\ e.time >= lastTime
  /\ \A e \in dropped : e.due >= IntLimit

(* "Modules with higher priority are notified first", and an intercepted   *)
(* message is never seen by a module of a higher priority too late: when   *)
(* its event is popped, every module has been offered it and has set its   *)
(* clock, or it is invalid and no module it passed by outranks one that it *)
(* was offered to.                                                         *)
HigherPrioritiesFirst ==
  phase = "inserting" =>
    /\ \A m \in Offered : localTime[m] = currentTime
    /\ \A m \in ToSet(modules) \ Offered :
         ~top.valid /\ \A n \in Offered : Priority[n] >= Priority[m]

(* newEvents is emptied from the back.  So that a module's events are      *)
(* inserted in the order it sent them in, they have to be in it the other  *)
(* way round; those of a module that was notified later come first.        *)
(* BinaryHeap's answer to ties depends on this order.                      *)
InsertedInOrderSent ==
  \A j, k \in DOMAIN newEvents :
    j < k =>
      IF newEvents[j].sender = newEvents[k].sender
        THEN newEvents[j].id > newEvents[k].id
        ELSE newEvents[j].id < newEvents[k].id

(* Simulated time never runs backwards, though the times of events wrap    *)
(* around.                                                                 *)
TimeIsMonotone == [][currentTime' >= currentTime]_vars

(* run() returns once no event is left, if the modules send finitely many. *)
Terminates == <>(phase = "done")

-----------------------------------------------------------------------------
(* The inductive invariant *)

(* The time of an event is the one it is due at, or wrapped around once.   *)
Timed(e) ==
  /\ e.due \in 0 .. 2 * IntLimit - 2
  /\ e.time = IF e.due < IntLimit THEN e.due ELSE e.due - 2 * IntLimit

(* The clocks stand still until the loop begins.  Between ticks the time   *)
(* is that of the last tick, and no event waits in the past.               *)
Clocks ==
  /\ phase \in {"main", "constructing", "initializing"} =>
       currentTime = 0 /\ localTime = [m \in Modules |-> 0]
  /\ phase \notin {"notifying", "handling"} => lastTime = currentTime
  /\ lastTime <= currentTime
  /\ \A e \in queue : e.time >= currentTime

(* The broadcast of a tick goes through the modules by priority, with an   *)
(* event that is still in the queue.                                       *)
Broadcast ==
  /\ IsInjective(modules)
  /\ \A j, k \in DOMAIN modules :
       j < k => Priority[modules[j]] >= Priority[modules[k]]
  /\ phase \in {"notifying", "handling"} =>
       /\ i \in 1 .. Len(modules) + 1
       /\ top.time = currentTime
       /\ \E e \in queue :
            e.id = top.id /\ e.time = top.time /\ e.msg = top.msg
       /\ \A m \in Offered : localTime[m] = currentTime
  /\ phase = "handling" =>
       /\ i <= Len(modules) /\ self = modules[i]
       /\ localTime[self] = currentTime

(* What the lists of the modules hold. *)
Lists ==
  \A m \in Modules :
    /\ \A k \in DOMAIN events[m] :
         Timed(events[m][k]) /\ events[m][k].sender = m
    /\ \A j, k \in DOMAIN events[m] :
         j < k => events[m][j].id < events[m][k].id

(* Once the constructors' messages are in the queue, only the module at    *)
(* work has any in its list, which it sent in this tick.                   *)
Emptied ==
  /\ phase = "initializing" =>
       /\ i >= 1
       /\ \A k \in DOMAIN modules : k < i => events[modules[k]] = <<>>
  /\ phase \in {"looping", "notifying", "handling", "inserting"} =>
       \A m \in ToSet(modules) :
         events[m] = <<>> \/ (phase = "handling" /\ m = self)
  /\ phase = "handling" =>
       \A k \in DOMAIN events[self] :
         /\ events[self][k].due >= currentTime
         /\ \A e \in ToSet(newEvents) : e.id < events[self][k].id

(* newEvents are those sent in this tick by the modules notified so far. *)
SentInTick ==
  /\ \A e \in ToSet(newEvents) : Timed(e) /\ e.due >= currentTime
  /\ phase \in {"notifying", "handling"} =>
       \A e \in ToSet(newEvents) : e.sender \in Offered
  /\ phase \notin {"notifying", "handling", "inserting"} => newEvents = <<>>

IInv ==
  /\ TypeOK
  /\ Clocks
  /\ Broadcast
  /\ Lists
  /\ Emptied
  /\ SentInTick
  /\ NoMessageLost
  /\ EventsAreOnTime
  /\ HigherPrioritiesFirst
  /\ InsertedInOrderSent

-----------------------------------------------------------------------------
(* The abstract specification *)

(* A tick counts as done when its event is popped: from then on its time   *)
(* is the time, and the new events are in the queue.                       *)
View(S) == {[id |-> e.id, time |-> e.time, dest |-> e.msg.dest] : e \in S}

AbstractQueue ==
  View(IF phase = "inserting" THEN queue \cup Insertable(ToSet(newEvents))
                              ELSE queue)

AbstractTime ==
  IF phase \in {"notifying", "handling"} THEN lastTime ELSE currentTime

Looping == phase \in {"looping", "notifying", "handling", "inserting"}

EventList == INSTANCE System WITH
  Pointers    <- Nat,
  currentTime <- AbstractTime,
  queue       <- AbstractQueue,
  exit_status <- "running"

(* The loop of run() implements the steps of System: notifying one module  *)
(* after the other and inserting one event after the other amounts to      *)
(* taking an event of least time and replacing it by those sent in its     *)
(* tick, at once.  Simulator rests on it.                                  *)
TicksAreAtomic ==
  [][Looping =>
       \E e \in AbstractQueue :
         /\ EventList!Notifies(e, e.dest)
         /\ EventList!Tick(e, View(ToSet(newEvents)))
    ]_<<AbstractTime, AbstractQueue>>

=============================================================================
