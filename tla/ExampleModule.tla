--------------------------- MODULE ExampleModule ----------------------------
(***************************************************************************)
(* Class ExampleModule, the first client of the orchestrator: Alice writes *)
(* to Bob from her constructor, and from then on they answer each other    *)
(* every ten ticks.  main() plugs in one of each (in lines that are        *)
(* commented out); here there may be several modules of one name, or none. *)
(***************************************************************************)
EXTENDS Orchestrator, FiniteSets

CONSTANT getName      \* the name of each module

ASSUME ExampleAssumption == getName \in [Modules -> Names]

Alice == "Alice"
Bob   == "Bob"

(* The letter m sends at time now. *)
Letter(m, dest, now) ==
  [msg   |-> [source |-> getName[m], dest |-> dest, timestamp |-> now],
   valid |-> TRUE, delay |-> 10]

(* The constructor. *)
ExampleFirstSends(m) ==
  IF getName[m] = Alice THEN {<<Letter(m, Bob, 0)>>} ELSE {<<>>}

ForMe(m, message) == message.dest = getName[m]

(* Faulty variants: a letter is answered whoever it is for; the letter     *)
(* written at time 50 is answered, too.                                    *)
ExampleOnNotify_anyLetter(m, message, now) ==
  {[valid |-> TRUE,
    sends |-> IF message.timestamp < 50
                THEN <<Letter(m, IF getName[m] = Alice THEN Bob ELSE Alice, now)>>
                ELSE <<>>]}

ExampleOnNotify_onceMore(m, message, now) ==
  {[valid |-> TRUE,
    sends |-> IF ForMe(m, message) /\ message.timestamp <= 50
                THEN <<Letter(m, IF getName[m] = Alice THEN Bob ELSE Alice, now)>>
                ELSE <<>>]}

(* ExampleModule::onNotify(): whoever is not Alice answers her. *)
ExampleOnNotify(m, message, now) ==
  {[valid |-> TRUE,
    sends |-> IF ForMe(m, message) /\ message.timestamp < 50
                THEN <<Letter(m, IF getName[m] = Alice THEN Bob ELSE Alice, now)>>
                ELSE <<>>]}

(* These are the modules that are plugged in; their times are no problem.  *)
ASSUME ExampleClientAssumption ==
  /\ IntLimit > 60
  /\ \A m \in Modules :
       /\ FirstSends(m) = ExampleFirstSends(m)
       /\ \A message \in Messages : \A now \in 0 .. IntLimit - 1 :
            onNotify(m, message, now) = ExampleOnNotify(m, message, now)

-----------------------------------------------------------------------------
(* Properties *)

Plugged(name) == {m \in ToSet(modules) : getName[m] = name}

(* Alice's and Bob's letters alternate, ten ticks apart: a pending letter  *)
(* was written ten ticks before it is due, by Alice if that was at an even *)
(* decade and to her if not, whatever the priorities and the order of      *)
(* simultaneous letters.                                                   *)
TakesTurns ==
  \A e \in Unsent \cup queue \cup ToSet(newEvents) :
    /\ e.msg.timestamp = e.time - 10
    /\ IF e.time % 20 = 10
         THEN e.msg.source = Alice /\ e.msg.dest = Bob
         ELSE e.msg.source = Bob /\ e.msg.dest = Alice

(* Why: so it is with the letters a module has yet to send.  They are      *)
(* written at decades before the sixth.                                    *)
InTurn(msg, now) ==
  /\ msg.timestamp = now /\ now % 10 = 0 /\ now \in 0 .. 50
  /\ IF now % 20 = 0 THEN msg.source = Alice /\ msg.dest = Bob
                     ELSE msg.source = Bob /\ msg.dest = Alice

Turns ==
  /\ \A e \in Unsent \cup queue \cup ToSet(newEvents) :
       InTurn(e.msg, e.time - 10)
  /\ phase \in {"constructing", "handling"} =>
       \A k \in DOMAIN todo :
         todo[k].delay = 10 /\ InTurn(todo[k].msg, currentTime)

(* The letters due at the decade-th tenth tick: every module of a name     *)
(* answers every letter to that name.                                      *)
Expected[decade \in 1 .. 6] ==
  IF decade = 1 THEN Cardinality(Plugged(Alice))
  ELSE Expected[decade - 1] *
         Cardinality(Plugged(IF decade % 2 = 0 THEN Bob ELSE Alice))

(* When run() returns, the last answer has been given at time 60, and each *)
(* letter has reached each module of its addressee's name exactly once.    *)
LettersExchanged ==
  phase = "done" =>
    /\ Cardinality(dispatched) =
         Expected[1] + Expected[2] + Expected[3] + Expected[4] + Expected[5]
           + Expected[6]
    /\ currentTime = CASE Expected[6] > 0 -> 60
                       [] Expected[6] = 0 /\ Expected[1] > 0 -> 10
                       [] OTHER -> 0

=============================================================================
