------------------------------- MODULE System -------------------------------
(***************************************************************************)
(* The event list of the simulator (class System) and the sending function *)
(* of its modules (class module), as the modules that are plugged into it  *)
(* see them.                                                               *)
(*                                                                         *)
(* System::queue is a std::priority_queue<event *>: it yields a pending    *)
(* event of least time, and the C++ standard does not say which one when   *)
(* several are due at the same tick.  Here the queue is the set of events  *)
(* pointed to and any event of least time may be the top; HeapSimulator    *)
(* resolves the ties as the library's binary heap does.                    *)
(***************************************************************************)
EXTENDS Integers

CONSTANT Pointers   \* the addresses "new event()" can return

ASSUME PointersAssumption == Pointers \subseteq Nat

VARIABLES
  currentTime,      \* System::currentTime, the time of the event at work
  queue,            \* System::queue, the set of events not yet dispatched
  exit_status       \* "running", or what the process gave to exit()

systemVars == <<currentTime, queue, exit_status>>

Running == exit_status = "running"

-----------------------------------------------------------------------------

Addresses(events) == {x.ptr : x \in events}

(***************************************************************************)
(* "new event()" returns an address that no live event has.  Which one     *)
(* cannot be observed, so the model takes the least one that is free.      *)
(***************************************************************************)
Allocates(p, events) ==
  /\ p \in Pointers \ Addresses(events)
  /\ \A q \in Pointers : q < p => q \in Addresses(events)

(* Faulty variant: a zero delay is refused. *)
sendWithDelay_positive(p, getTime, src, dst, delay) ==
  IF delay <= 0
    THEN {}
    ELSE {[ptr |-> p, time |-> getTime + delay, source |-> src, dest |-> dst]}

(***************************************************************************)
(* What module::sendWithDelay adds to the module's list of new events: an  *)
(* event "delay" ticks after getTime(), and nothing if the delay is        *)
(* negative (the message is then lost without a trace).                    *)
(***************************************************************************)
sendWithDelay(p, getTime, src, dst, delay) ==
  IF delay < 0
    THEN {}
    ELSE {[ptr |-> p, time |-> getTime + delay, source |-> src, dest |-> dst]}

(* System::insert refuses an event that lies in the past. *)
insertable(new, now) == {x \in new : x.time >= now}

(* System::tick takes the top of the queue, and the module it is addressed *)
(* to acts on it; the other modules ignore it.                             *)
Notifies(e, m) ==
  /\ Running
  /\ e \in queue
  /\ \A f \in queue : e.time <= f.time
  /\ e.dest = m

(* The rest of the tick: the event is popped and deleted, then the events  *)
(* its handler sent are inserted.                                          *)
Tick(e, sent) ==
  /\ currentTime' = e.time
  /\ queue' = (queue \ {e}) \cup insertable(sent, e.time)

(* exit() in a handler ends the process before the event is popped. *)
Exits(e, status) ==
  /\ currentTime' = e.time
  /\ exit_status' = status
  /\ UNCHANGED queue
=============================================================================
