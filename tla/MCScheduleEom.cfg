SPECIFICATION Spec
CONSTANTS
  MonthStart <- Starts
  Holidays <- Closed
  Middle = 2
  Twentieth = 3
  MainCycle = 2
  StubDays = 4
  ThirdWednesday <- Wednesdays
  Requests <- EndOfMonthRequests
  Truncation = {19, 21}
  NoDate = NoDate
  Rules = {"Backward"}
  OtherRules = {}
  Flags = {TRUE}
INVARIANT
  FirstDateOnce
CHECK_DEADLOCK FALSE
