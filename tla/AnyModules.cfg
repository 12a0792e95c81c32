CONSTANTS
  low1 = low1
  low2 = low2
  high = high
  Modules = {low1, low2, high}
  Priority <- TwoPriorities
  Names = {name}
  IntLimit = 4
  Starters = {low1}
  Answerers = {low1, high}
  MaxAnswers = 1
  FirstSends <- SomeFirstSends
  onNotify <- SomeOutcomes
SPECIFICATION Spec
INVARIANTS
  TypeOK
  NoMessageLost
  EventsAreOnTime
  HigherPrioritiesFirst
  InsertedInOrderSent
PROPERTIES
  TimeIsMonotone
  TicksAreAtomic
  Terminates
