-------------------------- MODULE MCExampleModule ---------------------------
(* One Alice and two Bobs, of the priorities main() gives them.            *)
EXTENDS ExampleModule

CONSTANTS alice, bob1, bob2

SomeNames == [m \in {alice, bob1, bob2} |-> IF m = alice THEN Alice ELSE Bob]

MainPriorities ==
  [m \in {alice, bob1, bob2} |-> IF m = alice THEN 0 ELSE 10]
=============================================================================
