SPECIFICATION Spec
CONSTANTS
  MonthStart <- Starts
  Holidays <- Closed
  Middle = 2
  Twentieth = 3
  MainCycle = 2
  StubDays = 4
  ThirdWednesday <- Wednesdays
  Requests <- AllRequests
  Truncation = {19, 21}
  NoDate = NoDate
  Rules = {"Backward", "Forward"}
  OtherRules = {"ThirdWednesday", "Twentieth", "TwentiethIMM", "OldCDS", "CDS"}
  Flags = {TRUE, FALSE}
INVARIANTS
  TypeOK
  DatesIncrease
  EndsKept
  NoneLost
  FlagsTrue
CHECK_DEADLOCK FALSE
