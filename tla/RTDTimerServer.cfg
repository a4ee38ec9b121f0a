SPECIFICATION FairSpec
CONSTANTS
  Topic = {clock, other}
  Timed = {clock}
  PayLoad = {p1, p2}
  Thread = {h1, h2}
  MaxTime = 2
  None = None
INVARIANTS
  TypeOK
  NoOrphans
  Announced
  ThisSession
PROPERTIES
  Refreshed
