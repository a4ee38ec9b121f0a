SPECIFICATION Spec
CONSTANTS
  Date <- Dates
  Advance <- Settlement
  Helper = {"short", "long"}
  Relative = {}
  Maturity <- Maturities
  Quote = {"low", "high"}
  MinAlive = 1
  Behaviour = {"read"}
  Null = Null
INVARIANTS
  Fresh
