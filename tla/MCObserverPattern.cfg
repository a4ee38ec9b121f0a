SPECIFICATION Spec
CONSTANTS
  Observable = {a, b}
  Observer = {1, 2, 3}
  MaxDepth = 2
SYMMETRY Interchangeable
INVARIANTS
  TypeOK
  Registered
  EveryoneTold
