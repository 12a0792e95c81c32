--------------------------- MODULE MCOrchestrator ---------------------------
(* Orchestrator with clients that may do anything, a bounded number of     *)
(* times.  The timestamp of a message counts the messages it answers.      *)
EXTENDS Orchestrator

CONSTANTS
  low1, low2, high,  \* modules of two priorities
  Starters,          \* those whose constructor sends messages
  Answerers,         \* those that send messages when they are notified
  MaxAnswers         \* bound on the length of a chain of answers

TwoPriorities == [m \in {low1, low2, high} |-> IF m = high THEN 1 ELSE 0]

(* The delays of the messages that a constructor, or a handler, sends.     *)
FirstScripts  == {<<>>, <<1, -1, 0>>}
AnswerScripts == {<<>>, <<3>>, <<0, 1>>}

SendsOf(script, count) ==
  [k \in DOMAIN script |->
    [msg   |-> [source |-> CHOOSE n \in Names : TRUE,
                dest   |-> CHOOSE n \in Names : TRUE, timestamp |-> count],
     valid |-> TRUE, delay |-> script[k]]]

SomeFirstSends(m) ==
  {SendsOf(script, 0) : script \in IF m \in Starters THEN FirstScripts ELSE {<<>>}}

(* Any message may be answered, whoever it is for, and digested. *)
SomeOutcomes(m, message, now) ==
  LET answers == m \in Answerers /\ message.timestamp \in 0 .. MaxAnswers - 1
  IN  [sends : {SendsOf(script, message.timestamp + 1) :
                  script \in IF answers THEN AnswerScripts ELSE {<<>>}},
       valid : BOOLEAN]
=============================================================================
