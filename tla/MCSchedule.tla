----------------------------- MODULE MCSchedule -----------------------------
(* Months of three to five days, and holidays at and between their ends. *)
EXTENDS Schedule

CONSTANTS Rules, OtherRules, Flags

Starts == <<1, 6, 10, 15, 19, 22, 27, 31, 36, 40, 44, 48, 53, 57>>

\* A weekend over the end of a month, single holidays, a bridge
Closed == {12, 18, 19, 22, 25, 26, 29}

Wednesdays == [m \in 1 .. 13 |-> IF m % 3 = 0 THEN 2 ELSE 3]

Tenors == [length : {0, 1}, unit : {"Months"}] \cup [length : {1, 2, 3}, unit : {"Days"}]

\* Stubs at both ends, and first and next-to-last dates in the wrong order
Stubbed ==
  [effective : 15 .. 18, termination : {22, 23, 26, 28}, tenor : Tenors,
   convention : {"Unadjusted", "Following", "ModifiedFollowing", "Preceding"},
   terminationDateConvention : {"Unadjusted", "Following", "ModifiedFollowing", "Preceding"},
   rule : Rules, endOfMonth : Flags,
   first : {NoDate, 17, 20, 22}, nextToLast : {NoDate, 20, 22}]

\* Rules with dates of their own
Rolling ==
  [effective : {15, 16, 17, 18}, termination : {18, 22, 23, 24, 26},
   tenor : [length : {-1, 1, 2}, unit : {"Months"}] \cup {[length |-> 1, unit |-> "Days"]},
   convention : {"Unadjusted", "Following", "HalfMonthModifiedFollowing",
                 "ModifiedPreceding"},
   terminationDateConvention : {"Unadjusted", "Following", "Preceding"},
   rule : OtherRules, endOfMonth : {FALSE},
   first : {NoDate, 21}, nextToLast : {NoDate}]

AllRequests == Stubbed \cup Rolling

\* Monthly dates, backward, with the end-of-month convention
EndOfMonthRequests ==
  {r \in Stubbed : /\ r.rule = "Backward" /\ r.endOfMonth
                   /\ r.tenor = [length |-> 1, unit |-> "Months"]}
=============================================================================
