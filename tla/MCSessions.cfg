CONSTANTS
  t1 = t1
  t2 = t2
  t3 = t3
  s1 = s1
  s2 = s2
  Threads <- MCThreads
  Ids <- MCIds
  None = None
  MaxTurns = 4
SYMMETRY MCSymmetry
SPECIFICATION Spec
INVARIANTS
  TypeOK
  WholeExchanges
  ErasedStaysErased
  OnlyCarriersKnow
  StepAtMostPlace
PROPERTIES
  HistoryGrows
  ImplementsConversation
CHECK_DEADLOCK FALSE
