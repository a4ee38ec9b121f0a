------------------------------- MODULE Schedule -------------------------------
(***************************************************************************)
(* Payment schedules: the constructor of Schedule, which rolls the dates   *)
(* out, adjusts them and repairs their ends, and Schedule::until.          *)
(*                                                                         *)
(*   ql/time/schedule.cpp           Schedule, nextTwentieth and others     *)
(*   ql/time/calendar.cpp, .hpp     Calendar::adjust, advance, endOfMonth  *)
(*   ql/time/date.cpp               Date::advance                          *)
(*                                                                         *)
(* Dates are serial numbers of an artificial calendar, given by the first  *)
(* days of its months, long enough for every date that is computed: the    *)
(* range check of Date is not met.  Effective dates are given; the         *)
(* placeholder for a null one is not modelled.                             *)
(***************************************************************************)
EXTENDS Integers, Sequences

CONSTANTS
  MonthStart,      \* the first day of each month, in order, and of one more
  Holidays,        \* dates that are not business days
  Middle,          \* the last day of the first half of a month (15)
  Twentieth,       \* the day credit-default swaps roll (20)
  MainCycle,       \* every how many months IMM dates come (3)
  StubDays,        \* the shortest first period of the old CDS rule (30)
  ThirdWednesday,  \* the day of the third Wednesday in each month
  Requests,        \* arguments the constructor may be called with
  Truncation,      \* dates schedules are truncated at
  NoDate           \* Date()

Months == 1 .. Len(MonthStart) - 1

Date == MonthStart[1] .. MonthStart[Len(MonthStart)] - 1

\* The calendar begins and ends with business days; the days that rules name
\* are in every month.
ASSUME CalendarAssumption ==
  /\ MonthStart \in Seq(Int) /\ Len(MonthStart) > 1
  /\ \A m \in Months : MonthStart[m] < MonthStart[m + 1]
  /\ Holidays \subseteq Date \ {MonthStart[1], MonthStart[Len(MonthStart)] - 1}
  /\ NoDate \notin Int

ASSUME DayAssumption ==
  /\ Middle \in Nat /\ {Twentieth, MainCycle, StubDays} \subseteq Nat \ {0}
  /\ ThirdWednesday \in [Months -> Nat \ {0}]
  /\ \A m \in Months : {Twentieth, ThirdWednesday[m]} \subseteq
                         1 .. MonthStart[m + 1] - MonthStart[m]

Convention == {"Unadjusted", "Following", "Preceding", "ModifiedFollowing",
               "HalfMonthModifiedFollowing", "ModifiedPreceding"}

Rule == {"Backward", "Forward", "Zero", "ThirdWednesday", "Twentieth",
         "TwentiethIMM", "OldCDS", "CDS"}

Arguments ==
  [effective : Date, termination : Date,
   tenor : [length : Int, unit : {"Days", "Months"}],
   convention : Convention, terminationDateConvention : Convention,
   rule : Rule, endOfMonth : BOOLEAN,
   first : Date \cup {NoDate}, nextToLast : Date \cup {NoDate}]

VARIABLES
  request,         \* the arguments of the constructor
  self,            \* the members made from them
  stage,           \* what the constructor has still to do
  legs,            \* dates_, and isRegular_: a flag for each period
  seed,            \* the date multiples of the tenor are counted from
  periods          \* how many of them come next

vars == <<request, self, stage, legs, seed, periods>>

-----------------------------------------------------------------------------
(***************************************************************************)
(* Dates and calendars                                                     *)
(***************************************************************************)

Month(d) == CHOOSE m \in Months : MonthStart[m] <= d /\ d < MonthStart[m + 1]

Day(d) == d - MonthStart[Month(d)] + 1

On(day, m) == MonthStart[m] + day - 1

Earlier(d, e) == IF d <= e THEN d ELSE e

AddMonths(d, n) ==
  LET m == Month(d) + n IN Earlier(On(Day(d), m), MonthStart[m + 1] - 1)

LastOfMonth(d) == MonthStart[Month(d) + 1] - 1

Follow(d) ==
  CHOOSE e \in Date : d <= e /\ e \notin Holidays /\ d .. e - 1 \subseteq Holidays

Precede(d) ==
  CHOOSE e \in Date : e <= d /\ e \notin Holidays /\ e + 1 .. d \subseteq Holidays

Half(d) == <<Month(d), Day(d) <= Middle>>

\* Calendar::adjust
Adjust(d, convention) ==
  CASE convention = "Unadjusted" -> d
    [] convention = "Following"  -> Follow(d)
    [] convention = "Preceding"  -> Precede(d)
    [] convention = "ModifiedFollowing" ->
         IF Month(Follow(d)) = Month(d) THEN Follow(d) ELSE Precede(d)
    [] convention = "HalfMonthModifiedFollowing" ->
         IF Half(Follow(d)) = Half(d) THEN Follow(d) ELSE Precede(d)
    [] convention = "ModifiedPreceding" ->
         IF Month(Precede(d)) = Month(d) THEN Precede(d) ELSE Follow(d)

\* Calendar::isEndOfMonth, endOfMonth
IsEndOfMonth(d) == Month(d) # Month(Follow(d + 1))

EndOfMonth(d) == Precede(LastOfMonth(d))

(***************************************************************************)
(* Calendar::advance of the null calendar, which has no holidays: k tenors *)
(* from d.                                                                 *)
(***************************************************************************)
Advance(d, k) ==
  LET n == k * self.tenor.length IN
  IF self.tenor.unit = "Days" THEN d + n
  ELSE IF self.endOfMonth /\ d = LastOfMonth(d) THEN LastOfMonth(AddMonths(d, n))
  ELSE AddMonths(d, n)

Cycled(rule) == rule \in {"TwentiethIMM", "OldCDS", "CDS"}

Credit(rule) == Cycled(rule) \/ rule = "Twentieth"

NextTwentieth(d, rule) ==
  LET t == On(Twentieth, Month(d))
      r == IF t < d THEN AddMonths(t, 1) ELSE t
      m == Month(r) % MainCycle
  IN  IF Cycled(rule) /\ m # 0 THEN AddMonths(r, MainCycle - m) ELSE r

PreviousTwentieth(d, rule) ==
  LET t == On(Twentieth, Month(d))
      r == IF t > d THEN AddMonths(t, -1) ELSE t
  IN  IF Cycled(rule) THEN AddMonths(r, -(Month(r) % MainCycle)) ELSE r

\* The calendar goes far enough beyond the dates of a request for the tenor and
\* for the rules' own dates.
ASSUME RoomAssumption ==
  /\ Requests \subseteq Arguments /\ Truncation \subseteq Date
  /\ \A r \in Requests :
       LET tenor == IF r.tenor.unit = "Months" /\ r.tenor.length > 0
                    THEN r.tenor.length ELSE 0
       IN  \A d \in {r.effective, r.termination, r.first, r.nextToLast} \ {NoDate} :
             {Month(d) - tenor, Month(d) - MainCycle,
              Month(d) + 2 * MainCycle + 1 + tenor} \subseteq Months

OnWednesday(d) == On(ThirdWednesday[Month(d)], Month(d))

First(s) == s[1]

Last(s) == s[Len(s)]

\* calendar_.adjust(d, convention) for the convention of the schedule
Adjusted(d) == Adjust(d, self.convention)

AdjustedEnd(d) == Adjust(d, self.terminationDateConvention)

-----------------------------------------------------------------------------
(***************************************************************************)
(* The sanity checks                                                       *)
(***************************************************************************)

\* QL_REQUIRE and QL_FAIL for firstDate_ and nextToLastDate_
Admissible(r, d) ==
  \/ d = NoDate
  \/ r.rule \in {"Backward", "Forward"} /\ r.effective < d /\ d < r.termination
  \/ r.rule = "ThirdWednesday" /\ d = OnWednesday(d)

Sane(r) ==
  /\ r.effective < r.termination
  /\ r.tenor.length >= 0
  /\ Admissible(r, r.first)
  /\ Admissible(r, r.nextToLast)
  /\ r.endOfMonth => r.rule \in {"Backward", "Forward"}

\* firstDate_, nextToLastDate_ and rule_
Members(r) ==
  [r EXCEPT !.first      = IF @ = r.effective THEN NoDate ELSE @,
            !.nextToLast = IF @ = r.termination THEN NoDate ELSE @,
            !.rule       = IF r.tenor.length = 0 THEN "Zero" ELSE @]

(***************************************************************************)
(* A schedule under construction                                           *)
(***************************************************************************)

PushFront(s, d, flag) ==
  [dates |-> <<d>> \o s.dates, isRegular |-> <<flag>> \o s.isRegular]

PushBack(s, d, flag) ==
  [dates |-> Append(s.dates, d), isRegular |-> Append(s.isRegular, flag)]

Nothing == [dates |-> <<>>, isRegular |-> <<>>]

Init ==
  /\ request \in Requests
  /\ self = request
  /\ stage = "check"
  /\ legs = Nothing
  /\ seed = NoDate
  /\ periods = 1

(***************************************************************************)
(* Every refusal is an exception from the constructor.  That of endOfMonth *)
(* under the rule Zero comes late, when a null seed is asked whether it    *)
(* ends a month.                                                           *)
(***************************************************************************)
Check ==
  /\ stage = "check"
  /\ self' = Members(request)
  /\ stage' = IF Sane(Members(request)) THEN "begin" ELSE "refused"
  /\ UNCHANGED <<request, legs, seed, periods>>

BeginZero ==
  /\ stage = "begin" /\ self.rule = "Zero"
  /\ legs' = [dates |-> <<self.effective, self.termination>>, isRegular |-> <<TRUE>>]
  /\ stage' = "adjust"
  /\ UNCHANGED <<request, self, seed, periods>>

\* Slip: the last period is never taken for a stub.
BeginBackwardRegular ==
  LET start == [Nothing EXCEPT !.dates = <<self.termination>>]
      next  == self.nextToLast
  IN
  /\ stage = "begin" /\ self.rule = "Backward"
  /\ legs' = IF next = NoDate THEN start ELSE PushFront(start, next, TRUE)
  /\ seed' = IF next = NoDate THEN self.termination ELSE next
  /\ stage' = "roll"
  /\ UNCHANGED <<request, self, periods>>

BeginBackward ==
  LET start == [Nothing EXCEPT !.dates = <<self.termination>>]
      next  == self.nextToLast
  IN
  /\ stage = "begin" /\ self.rule = "Backward"
  /\ legs' = IF next = NoDate THEN start
             ELSE PushFront(start, next, Advance(self.termination, -1) = next)
  /\ seed' = IF next = NoDate THEN self.termination ELSE next
  /\ stage' = "roll"
  /\ UNCHANGED <<request, self, periods>>

\* The first date of a credit-default swap: the twentieth its periods roll on
FirstTwentieth ==
  LET t == NextTwentieth(self.effective, self.rule) IN
  IF self.rule = "OldCDS" /\ t - self.effective < StubDays
  THEN NextTwentieth(t + 1, self.rule) ELSE t

BeginForward ==
  LET from  == IF self.rule = "CDS" THEN PreviousTwentieth(self.effective, "CDS")
               ELSE self.effective
      start == [Nothing EXCEPT !.dates = <<from>>]
      first == IF Credit(self.rule) THEN FirstTwentieth ELSE self.first
      none  == first \in {NoDate, self.effective}
  IN
  /\ stage = "begin" /\ self.rule \notin {"Zero", "Backward"}
  /\ legs' = IF none THEN start
             ELSE PushBack(start, first,
                           ~Credit(self.rule) /\ first = Advance(from, 1))
  /\ seed' = IF none THEN from ELSE first
  /\ stage' = "roll"
  /\ UNCHANGED <<request, self, periods>>

(***************************************************************************)
(* Rolling.  Dates that would be duplicates after adjustment are skipped.  *)
(***************************************************************************)
PushFrontUnlessSame(s, d, flag) ==
  IF Adjusted(First(s.dates)) = Adjusted(d) THEN s ELSE PushFront(s, d, flag)

\* Slip: dates are compared before adjustment.
PushBackUnlessEqual(s, d, flag) ==
  IF Last(s.dates) = d THEN s ELSE PushBack(s, d, flag)

PushBackUnlessSame(s, d, flag) ==
  IF Adjusted(Last(s.dates)) = Adjusted(d) THEN s ELSE PushBack(s, d, flag)

RollBackward ==
  LET temp == Advance(seed, -periods)
      exit == IF self.first = NoDate THEN self.effective ELSE self.first
  IN
  /\ stage = "roll" /\ self.rule = "Backward"
  /\ temp >= exit
  /\ legs' = PushFrontUnlessSame(legs, temp, TRUE)
  /\ periods' = periods + 1
  /\ UNCHANGED <<request, self, stage, seed>>

EndBackward ==
  LET exit == IF self.first = NoDate THEN self.effective ELSE self.first
      kept == IF self.first = NoDate THEN legs
              ELSE PushFrontUnlessSame(legs, self.first, FALSE)
  IN
  /\ stage = "roll" /\ self.rule = "Backward"
  /\ Advance(seed, -periods) < exit
  /\ legs' = PushFrontUnlessSame(kept, self.effective, FALSE)
  /\ stage' = "adjust"
  /\ UNCHANGED <<request, self, seed, periods>>

RollForward ==
  LET temp == Advance(seed, periods)
      exit == IF self.nextToLast = NoDate THEN self.termination ELSE self.nextToLast
  IN
  /\ stage = "roll" /\ self.rule # "Backward"
  /\ temp <= exit
  /\ legs' = PushBackUnlessSame(legs, temp, TRUE)
  /\ periods' = periods + 1
  /\ UNCHANGED <<request, self, stage, seed>>

\* Slip: the convention of the other dates
CloseForwardAlike(s) ==
  IF Adjusted(Last(s.dates)) = Adjusted(self.termination) THEN s
  ELSE IF Credit(self.rule)
       THEN PushBack(s, NextTwentieth(self.termination, self.rule), TRUE)
       ELSE PushBack(s, self.termination, FALSE)

\* The last date is compared as the convention of the termination date has it.
CloseForward(s) ==
  IF AdjustedEnd(Last(s.dates)) = AdjustedEnd(self.termination) THEN s
  ELSE IF Credit(self.rule)
       THEN PushBack(s, NextTwentieth(self.termination, self.rule), TRUE)
       ELSE PushBack(s, self.termination, FALSE)

EndForward ==
  LET exit == IF self.nextToLast = NoDate THEN self.termination ELSE self.nextToLast
  IN
  /\ stage = "roll" /\ self.rule # "Backward"
  /\ Advance(seed, periods) > exit
  /\ legs' = CloseForward(IF self.nextToLast = NoDate THEN legs
                          ELSE PushBackUnlessSame(legs, self.nextToLast, FALSE))
  /\ stage' = "adjust"
  /\ UNCHANGED <<request, self, seed, periods>>

(***************************************************************************)
(* Adjusting                                                               *)
(***************************************************************************)

Inner(ds, Move(_)) ==
  [i \in 1 .. Len(ds) |-> IF 1 < i /\ i < Len(ds) THEN Move(ds[i]) ELSE ds[i]]

Front(ds, Move(_)) == [ds EXCEPT ![1] = Move(@)]

Back(ds, Move(_)) == [ds EXCEPT ![Len(ds)] = Move(@)]

OnWednesdays(ds) ==
  IF self.rule = "ThirdWednesday" THEN Inner(ds, OnWednesday) ELSE ds

\* With an unadjusted termination date, only the end the rule starts from moves.
ToEndOfMonth(ds) ==
  LET inner == IF self.convention = "Unadjusted" THEN Inner(ds, LastOfMonth)
               ELSE Inner(ds, EndOfMonth)
  IN  IF self.terminationDateConvention # "Unadjusted"
      THEN Back(Front(inner, EndOfMonth), EndOfMonth)
      ELSE IF self.rule = "Backward" THEN Back(inner, LastOfMonth)
           ELSE Front(inner, LastOfMonth)

\* Slip: the next-to-last date is left out.
ToBusinessDaysShort(ds) ==
  LET front == IF self.rule = "OldCDS" THEN ds ELSE Front(ds, Adjusted)
      inner == [i \in DOMAIN ds |->
                  IF 1 < i /\ i < Len(ds) - 1 THEN Adjusted(ds[i]) ELSE front[i]]
  IN  Back(inner, AdjustedEnd)

ToBusinessDays(ds) ==
  LET front == IF self.rule = "OldCDS" THEN ds ELSE Front(ds, Adjusted)
  IN  Back(Inner(front, Adjusted), AdjustedEnd)

AdjustDates ==
  /\ stage = "adjust"
  /\ legs' = [legs EXCEPT !.dates =
                IF self.endOfMonth /\ IsEndOfMonth(seed) THEN ToEndOfMonth(OnWednesdays(@))
                ELSE ToBusinessDays(OnWednesdays(@))]
  /\ stage' = "repair"
  /\ UNCHANGED <<request, self, seed, periods>>

(***************************************************************************)
(* The final safety checks, once at each end.  The flag the first one sets *)
(* is that of the period it removes; that of the second is past the end of *)
(* isRegular_ if there is but one period, and then it is lost.             *)
(***************************************************************************)
TrimBack(s) ==
  LET n == Len(s.dates) IN
  IF n >= 2 /\ s.dates[n - 1] >= s.dates[n]
  THEN [dates     |-> Append(SubSeq(s.dates, 1, n - 2), s.dates[n]),
        isRegular |-> SubSeq(s.isRegular, 1, n - 2)]
  ELSE s

\* Slip: the flag stays.
TrimFrontDates(s) ==
  LET n == Len(s.dates) IN
  IF n >= 2 /\ s.dates[2] <= s.dates[1]
  THEN [s EXCEPT !.dates = <<s.dates[1]>> \o SubSeq(s.dates, 3, n)]
  ELSE s

TrimFront(s) ==
  LET n == Len(s.dates) IN
  IF n >= 2 /\ s.dates[2] <= s.dates[1]
  THEN [dates     |-> <<s.dates[1]>> \o SubSeq(s.dates, 3, n),
        isRegular |-> IF n = 2 THEN <<>>
                      ELSE [Tail(s.isRegular) EXCEPT ![1] = s.dates[2] = s.dates[1]]]
  ELSE s

Repair ==
  /\ stage = "repair"
  /\ legs' = TrimFront(TrimBack(legs))
  /\ stage' = "built"
  /\ UNCHANGED <<request, self, seed, periods>>

(***************************************************************************)
(* Schedule::until, of a schedule built by this constructor                *)
(***************************************************************************)
Before(d, t) == IF d = NoDate \/ d >= t THEN NoDate ELSE d

\* Without the dates later than t
Shortened(s, t) ==
  LET n == CHOOSE i \in 1 .. Len(s.dates) :
             s.dates[i] <= t /\ \A j \in i + 1 .. Len(s.dates) : s.dates[j] > t
  IN  [dates     |-> SubSeq(s.dates, 1, n),
       isRegular |-> SubSeq(s.isRegular, 1, n - 1)]

Until(t) ==
  LET kept == Shortened(legs, t)
      has  == Last(kept.dates) = t
  IN
  /\ stage \in {"built", "truncated"}
  /\ First(legs.dates) < t /\ t < Last(legs.dates)
  /\ legs' = IF has THEN kept ELSE PushBack(kept, t, FALSE)
  /\ self' = [self EXCEPT
                !.terminationDateConvention = IF has THEN self.convention ELSE "Unadjusted",
                !.first = Before(@, t),
                !.nextToLast = Before(@, t)]
  /\ stage' = "truncated"
  /\ UNCHANGED <<request, seed, periods>>

Next ==
  \/ Check
  \/ BeginZero \/ BeginBackward \/ BeginForward
  \/ RollBackward \/ EndBackward
  \/ RollForward \/ EndForward
  \/ AdjustDates
  \/ Repair
  \/ \E t \in Truncation : Until(t)

Spec == Init /\ [][Next]_vars

-----------------------------------------------------------------------------
(***************************************************************************)
(* Properties                                                              *)
(***************************************************************************)

Finished == stage \in {"built", "truncated"}

\* dates_ and isRegular_ keep in step: a flag for each period.
TypeOK ==
  /\ request \in Requests /\ self \in Arguments
  /\ stage \in {"check", "begin", "roll", "adjust", "repair", "built",
                "truncated", "refused"}
  /\ legs \in [dates : Seq(Date), isRegular : Seq(BOOLEAN)]
  /\ seed \in Date \cup {NoDate}
  /\ periods \in Nat \ {0}
  /\ legs.dates # <<>> => Len(legs.dates) = Len(legs.isRegular) + 1

(***************************************************************************)
(* Requests in which a first and a next-to-last date, if both are given,   *)
(* come in that order; and those which have nothing moved but by the       *)
(* calendar besides.  The code does not check the order, and in the wrong  *)
(* one dates can come twice.                                               *)
(***************************************************************************)
Ordered ==
  request.first = NoDate \/ request.nextToLast = NoDate
    \/ request.first < request.nextToLast

Plain == Ordered /\ ~request.endOfMonth /\ request.rule # "ThirdWednesday"

\* The dates that the termination date may give rise to
Ends == {request.termination} \cup
        (IF Credit(request.rule)
           THEN {NextTwentieth(request.termination, request.rule)} ELSE {})

(***************************************************************************)
(* The last date is not moved back, or as the others are.  Where it is,    *)
(* it may pass more than one of them, and the final check removes only     *)
(* one.                                                                    *)
(***************************************************************************)
EndAhead ==
  \A d \in Ends :
    \/ Adjust(d, request.terminationDateConvention) >= d
    \/ Adjust(d, request.terminationDateConvention) = Adjust(d, request.convention)

Increasing(ds) == \A i \in 2 .. Len(ds) : ds[i - 1] < ds[i]

(***************************************************************************)
(* Whatever stubs, holidays and conventions, no date of a schedule comes   *)
(* twice or out of order: lower_bound, nextDate and previousDate search it *)
(* by bisection, and coupons are made of successive dates.                 *)
(***************************************************************************)
DatesIncrease == Finished /\ Plain /\ EndAhead => Increasing(legs.dates)

(***************************************************************************)
(* A schedule runs from its effective to its termination date, adjusted,   *)
(* even where rolled dates came to coincide with them and one was dropped. *)
(* Credit-default swaps may end on the twentieth that comes next.  (If all *)
(* comes to one business day, a single date is left.)                      *)
(***************************************************************************)
EndsKept ==
  stage = "built" /\ Plain /\ Len(legs.dates) > 1 =>
    /\ CASE self.rule = "OldCDS" -> First(legs.dates) = self.effective
         [] self.rule = "CDS" ->
              First(legs.dates) = Adjusted(PreviousTwentieth(self.effective, "CDS"))
         [] OTHER -> First(legs.dates) = Adjusted(self.effective)
    /\ \/ Last(legs.dates) = AdjustedEnd(self.termination)
       \/ /\ Credit(self.rule)
          /\ Last(legs.dates) = AdjustedEnd(NextTwentieth(self.termination, self.rule))

\* The dates at whole tenors from the seed, in the direction of the rule
Multiple(k) == Advance(seed, IF self.rule = "Backward" THEN -k ELSE k)

Rolled == IF seed = NoDate THEN {} ELSE {Multiple(k) : k \in 0 .. periods - 1}

\* Going backward, the dates next to the termination date are compared with
\* it as the convention of the others adjusts it, not its own.
SameEnd ==
  self.rule = "Backward" => Adjusted(self.termination) = AdjustedEnd(self.termination)

(***************************************************************************)
(* No date was lost with the duplicates: of the dates at whole tenors from *)
(* the seed, every one that falls inside the schedule is, as adjusted, one *)
(* of its dates.                                                           *)
(***************************************************************************)
NoneLost ==
  stage = "built" /\ Plain /\ SameEnd =>
    LET ds == {legs.dates[i] : i \in DOMAIN legs.dates} IN
    \A d \in Rolled :
      self.effective < d /\ d < self.termination
        /\ First(legs.dates) < Adjusted(d) /\ Adjusted(d) < Last(legs.dates)
        /\ AdjustedEnd(d) # Last(legs.dates)
      => Adjusted(d) \in ds

\* A tenor from d to e, each as it was before adjustment.
Tenor(d, e) ==
  LET From(f) == {x \in Rolled \cup {self.effective, self.termination} :
                    f \in {Adjusted(x), AdjustedEnd(x)}}
  IN  \E x \in From(d), y \in From(e) : y = Advance(x, 1) \/ x = Advance(y, -1)

(***************************************************************************)
(* A period flagged as regular is one tenor long but for the adjustment of *)
(* its ends, for the rules without dates of their own.  So it is until the *)
(* final checks, which flag the period next to one they remove wrongly.    *)
(***************************************************************************)
FlagsTrue ==
  stage = "repair" /\ Plain /\ SameEnd /\ self.rule \in {"Backward", "Forward"} =>
    \A i \in DOMAIN legs.isRegular :
      legs.isRegular[i] => Tenor(legs.dates[i], legs.dates[i + 1])

(***************************************************************************)
(* Going backward with the end-of-month convention from the end of a       *)
(* month, the first date is not duplicated by moving dates to the ends of  *)
(* their months ("the first date is not duplicated due to EOM convention   *)
(* when going backwards", test-suite/schedule.cpp:192-193).  The code does *)
(* not keep to this where the first date given and a rolled date are in    *)
(* the month of the effective date.                                        *)
(***************************************************************************)
FirstDateOnce ==
  stage = "built" /\ Ordered /\ self.rule = "Backward" /\ self.endOfMonth /\ IsEndOfMonth(seed)
    => \A i \in 2 .. Len(legs.dates) : legs.dates[i] # First(legs.dates)
===============================================================================
