SPECIFICATION Spec
CONSTANTS
  Currency = {1, 2, 3, 4, 5}
  Linked <- MCLinked
  Known <- MCKnown
  Date = {1, 2}
  Level = {1, 5}
  MaxAdded = 2
  None = None
INVARIANTS
  TypeOK
  LatestPreferred
  FindsAChain
  RateIsExchange
