CONSTANTS
  alice = alice
  bob1 = bob1
  bob2 = bob2
  Modules = {alice, bob1, bob2}
  Priority <- MainPriorities
  getName <- SomeNames
  Names = {"Alice", "Bob"}
  IntLimit = 80
  FirstSends <- ExampleFirstSends
  onNotify <- ExampleOnNotify
SPECIFICATION Spec
INVARIANTS
  TakesTurns
  LettersExchanged
