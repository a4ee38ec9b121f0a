SPECIFICATION Spec
CONSTANTS
  libor = libor
  clone = clone
  Index = {libor, clone}
  Name = {"LIBOR"}
  NameOf <- MCNameOf
  Holiday = {3}
  Value = {"a", "b"}
  Batches <- MCBatches
  Histories <- MCHistories
  Enforced = FALSE
  MaxDate = 3
  MaxSeries = 2
  Null = Null
  Error = Error
  Nothing = Nothing
SYMMETRY Alike
INVARIANTS
  TypeOK
  ReadersTold
  RetryHarmless
PROPERTY
  OnlyClearingDeafens
