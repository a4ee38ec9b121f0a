SPECIFICATION Spec
CONSTANTS
  bond = bond
  option = option
  shared = shared
  curve = curve
  Leaf = {bond, option}
  Basket = basket
  Engine = {shared, curve}
  Quote = {q1}
  Expiry <- MCExpiry
  Dated = {bond}
  Moving = {shared, curve}
  Lazy = {curve}
  Estimates <- MCEstimates
  Controlled = {option}
  Rewind = TRUE
  MaxDate = 2
  MaxScopes = 1
  Null = Null
  Zero = Zero
  Bad = Bad
  None = NoEngine
  NoEngine = NoEngine
  Engines <- MCEngines
CONSTRAINT
  Announced
INVARIANTS
  TypeOK
  OwnResults
  FreshOrZero
PROPERTIES
  FrozenKept
