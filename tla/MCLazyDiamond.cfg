SPECIFICATION Spec
CONSTANTS
  q1 = q1
  q2 = q2
  link = link
  curve = curve
  bond = bond
  cell = cell
  Quote = {q1, q2}
  Link = {link}
  Lazy = {curve, bond}
  Reader = {cell}
  Reads <- DiamondReads
  Targets <- DiamondTargets
  Rank <- DiamondRank
  Number = {0, 1}
  Null = Null
  None = None
  NoOne = NoOne
  Controlled = {curve, bond}
  RegisterModes = {TRUE}
  Evaluate <- Parity
INVARIANTS
  TypeOK
  Inv
  ResultsFresh
  ReadersTold
PROPERTIES
  ImplementsOnDemand
