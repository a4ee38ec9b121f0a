SPECIFICATION Spec
CONSTANTS
  Date <- Dates
  Advance <- Settlement
  Helper = {"short", "long"}
  Relative = {"short"}
  Maturity <- Maturities
  Quote = {"low", "high"}
  MinAlive = 1
  Behaviour = {"raise"}
  Null = Null
INVARIANTS
  TypeOK
  Fresh
  ReferenceCurrent
  Listening
