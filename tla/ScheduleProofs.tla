--------------------------- MODULE ScheduleProofs ---------------------------
(***************************************************************************)
(* For any calendar and any requests that it has room for: what adjusting  *)
(* and advancing do to dates, the types of a schedule under construction,  *)
(* that its dates increase between its ends, that no date is lost, and     *)
(* that flags are right.                                                   *)
(***************************************************************************)
EXTENDS Schedule, SequenceTheorems, WellFoundedInduction, TLAPS

\* A set of numbers has a least one.
LEMMA Least ==
  ASSUME NEW T \in SUBSET Nat, T # {}
  PROVE  \E x \in T : \A y \in T : x <= y
<1>. DEFINE R == {ss \in Nat \X Nat : ss[1] < ss[2]}
<1>1. IsWellFoundedOn(R, Nat)
  BY NatLessThanWellFounded DEF OpToRel
<1>2. PICK x \in T : \A y \in T : ~ (<<y, x>> \in R)
  <2>. HIDE DEF R
  <2>. QED  BY <1>1, WFMin
<1>3. \A y \in T : x <= y
  <2>. SUFFICES ASSUME NEW y \in T PROVE x <= y
    OBVIOUS
  <2>1. x \in Nat /\ y \in Nat /\ <<y, x>> \notin R
    BY <1>2
  <2>2. ~ (y < x)
    BY <2>1
  <2>. QED  BY <2>1, <2>2
<1>. QED  BY <1>3

(***************************************************************************)
(* Months                                                                  *)
(***************************************************************************)

Starts == 1 .. Len(MonthStart)

LEMMA StartsType ==
  /\ Len(MonthStart) \in Nat
  /\ \A m \in Starts : m \in Int /\ MonthStart[m] \in Int
  /\ \A m \in Months : m \in Starts /\ m + 1 \in Starts /\ m \in Nat
  /\ 1 \in Starts /\ Len(MonthStart) \in Starts
  /\ Date \subseteq Int
BY CalendarAssumption DEF Starts, Months, Date

LEMMA StartsGrow ==
  ASSUME NEW m \in Starts, NEW n \in Starts, m < n
  PROVE  MonthStart[m] < MonthStart[n]
<1>. DEFINE T == {k \in Starts : m < k /\ ~(MonthStart[m] < MonthStart[k])}
<1>. SUFFICES T = {}
  OBVIOUS
<1>1. SUFFICES ASSUME T # {} PROVE FALSE
  OBVIOUS
<1>2. T \in SUBSET Nat
  BY StartsType DEF Starts
<1>3. PICK k \in T : \A j \in T : k <= j
  <2>. HIDE DEF T
  <2>. QED  BY <1>1, <1>2, Least
<1>4. k - 1 \in Months /\ k \in Starts /\ m <= k - 1 /\ k - 1 \in Starts
  BY StartsType DEF Starts, Months
<1>5. MonthStart[k - 1] < MonthStart[k]
  BY <1>4, StartsType, CalendarAssumption
<1>6. CASE m = k - 1
  BY <1>3, <1>5, <1>6
<1>7. CASE m < k - 1
  <2>1. k - 1 \notin T
    BY <1>3, <1>4, StartsType
  <2>2. MonthStart[m] < MonthStart[k - 1]
    BY <2>1, <1>4, <1>7
  <2>. QED  BY <2>2, <1>3, <1>4, <1>5, StartsType
<1>. QED  BY <1>4, <1>6, <1>7, StartsType

LEMMA StartsOrder ==
  ASSUME NEW m \in Starts, NEW n \in Starts, m <= n
  PROVE  MonthStart[m] <= MonthStart[n]
<1>1. CASE m = n
  BY <1>1, StartsType
<1>2. CASE m < n
  BY <1>2, StartsType, StartsGrow
<1>. QED  BY <1>1, <1>2, StartsType

In(d, m) == MonthStart[m] <= d /\ d < MonthStart[m + 1]

\* Every date is in a month, and in one only.
LEMMA MonthIs ==
  ASSUME NEW d \in Date
  PROVE  Month(d) \in Months /\ In(d, Month(d))
<1>. DEFINE T == {m \in Months : d < MonthStart[m + 1]}
<1>1. Len(MonthStart) - 1 \in T
  BY StartsType, CalendarAssumption DEF Months, Date
<1>2. T \in SUBSET Nat
  BY StartsType
<1>3. PICK m \in T : \A n \in T : m <= n
  <2>. HIDE DEF T
  <2>. QED  BY <1>1, <1>2, Least
<1>4. MonthStart[m] <= d
  <2>1. CASE m = 1
    BY <2>1 DEF Date
  <2>2. CASE m # 1
    <3>1. m \in Months /\ m - 1 \in Months /\ m - 1 < m /\ m - 1 + 1 = m
      BY <2>2, StartsType DEF Months
    <3>2. m - 1 \notin T
      <4>. HIDE DEF T
      <4>. QED  BY <1>2, <1>3, <3>1
    <3>3. MonthStart[m - 1 + 1] <= d
      BY <3>1, <3>2, StartsType
    <3>. QED  BY <3>1, <3>3
  <2>. QED  BY <2>1, <2>2
<1>5. \E k \in Months : MonthStart[k] <= d /\ d < MonthStart[k + 1]
  BY <1>4
<1>. QED  BY <1>5 DEF Month, In

LEMMA MonthUnique ==
  ASSUME NEW d \in Date, NEW m \in Months, In(d, m)
  PROVE  Month(d) = m
<1>. DEFINE k == Month(d)
<1>1. k \in Months /\ In(d, k)
  BY MonthIs
<1>. HIDE DEF k
<1>2. CASE k < m
  <2>0. k + 1 \in Starts /\ m \in Starts /\ k + 1 <= m
    BY <1>1, <1>2, StartsType
  <2>1. MonthStart[k + 1] <= MonthStart[m]
    BY <2>0, StartsOrder
  <2>. QED  BY <1>1, <2>1, StartsType DEF In
<1>3. CASE m < k
  <2>0. m + 1 \in Starts /\ k \in Starts /\ m + 1 <= k
    BY <1>1, <1>3, StartsType
  <2>1. MonthStart[m + 1] <= MonthStart[k]
    BY <2>0, StartsOrder
  <2>. QED  BY <1>1, <2>1, StartsType DEF In
<1>. QED  BY <1>1, <1>2, <1>3, StartsType DEF k

LEMMA MonthGrows ==
  ASSUME NEW d \in Date, NEW e \in Date, d <= e
  PROVE  Month(d) <= Month(e)
<1>. DEFINE m == Month(d)
           n == Month(e)
<1>1. m \in Months /\ In(d, m) /\ n \in Months /\ In(e, n)
  BY MonthIs
<1>. HIDE DEF m, n
<1>2. CASE n < m
  <2>0. n + 1 \in Starts /\ m \in Starts /\ n + 1 <= m
    BY <1>1, <1>2, StartsType
  <2>1. MonthStart[n + 1] <= MonthStart[m]
    BY <2>0, StartsOrder
  <2>. QED  BY <1>1, <2>1, StartsType DEF In
<1>. QED  BY <1>1, <1>2, StartsType DEF m, n

\* The dates of a month
LEMMA MonthDates ==
  ASSUME NEW m \in Months, NEW d \in Int, In(d, m)
  PROVE  d \in Date /\ Month(d) = m
<1>1. MonthStart[1] <= MonthStart[m] /\ MonthStart[m + 1] <= MonthStart[Len(MonthStart)]
  <2>1. MonthStart[1] <= MonthStart[m]
    BY StartsType, StartsOrder DEF Months
  <2>2. MonthStart[m + 1] <= MonthStart[Len(MonthStart)]
    BY StartsType, StartsOrder DEF Months
  <2>. QED  BY <2>1, <2>2
<1>2. d \in Date
  BY <1>1, StartsType DEF In, Date
<1>. QED  BY <1>2, MonthUnique

LEMMA FirstsAreDates ==
  ASSUME NEW m \in Months, NEW k \in 1 .. MonthStart[m + 1] - MonthStart[m]
  PROVE  On(k, m) \in Date /\ Month(On(k, m)) = m
<1>1. On(k, m) \in Int /\ In(On(k, m), m)
  BY StartsType DEF On, In
<1>. QED  BY <1>1, MonthDates

LEMMA LastOfMonthIs ==
  ASSUME NEW d \in Date
  PROVE  LastOfMonth(d) \in Date /\ Month(LastOfMonth(d)) = Month(d) /\ d <= LastOfMonth(d)
<1>. DEFINE m == Month(d)
<1>1. m \in Months /\ In(d, m)
  BY MonthIs
<1>2. MonthStart[m] < MonthStart[m + 1]
  BY <1>1, CalendarAssumption
<1>. HIDE DEF m
<1>3. In(MonthStart[m + 1] - 1, m) /\ MonthStart[m + 1] - 1 \in Int /\ d <= MonthStart[m + 1] - 1
  BY <1>1, <1>2, StartsType DEF In
<1>4. LastOfMonth(d) = MonthStart[m + 1] - 1
  BY DEF LastOfMonth, m
<1>. QED  BY <1>1, <1>3, <1>4, MonthDates DEF m

-----------------------------------------------------------------------------
(***************************************************************************)
(* Business days                                                           *)
(***************************************************************************)

Business == Date \ Holidays

\* Follow(d) is the first business day from d on, and Precede(d) the last up to d.
LEMMA FollowIs ==
  ASSUME NEW d \in Date
  PROVE  /\ Follow(d) \in Business /\ d <= Follow(d)
         /\ \A e \in Business : d <= e => Follow(d) <= e
<1>. DEFINE T == {n \in Nat : d + n \in Business}
           last == MonthStart[Len(MonthStart)] - 1
           Is(e) == e \in Date /\ d <= e /\ e \notin Holidays /\ d .. e - 1 \subseteq Holidays
<1>1. last \in Business /\ last - d \in Nat /\ d + (last - d) = last
  BY StartsType, CalendarAssumption, StartsOrder DEF Date, Business
<1>2. last - d \in T
  BY <1>1
<1>3. PICK n \in T : \A k \in T : n <= k
  <2>. HIDE DEF T
  <2>1. T \in SUBSET Nat
    BY DEF T
  <2>. QED  BY <1>2, <2>1, Least
<1>4. Is(d + n)
  <2>1. ASSUME NEW x \in d .. (d + n) - 1 PROVE x \in Holidays
    <3>1. x - d \in Nat /\ x - d < n /\ d + (x - d) = x /\ x \in Date
      BY <1>3, <2>1, StartsType DEF Date, Business
    <3>2. x - d \notin T
      <4>1. n \in Nat
        BY <1>3
      <4>. HIDE DEF T
      <4>. QED  BY <1>3, <3>1, <4>1
    <3>. QED  BY <3>1, <3>2 DEF Business
  <2>. QED  BY <1>3, <2>1, StartsType DEF Business
<1>5. Is(Follow(d))
  BY <1>4 DEF Follow
<1>6. ASSUME NEW e \in Business, d <= e PROVE Follow(d) <= e
  <2>. DEFINE f == Follow(d)
  <2>1. Is(f)
    BY <1>5
  <2>. HIDE DEF f
  <2>2. e \notin d .. f - 1
    BY <1>6, <2>1 DEF Business
  <2>3. f <= e
    BY <1>6, <2>1, <2>2, StartsType DEF Business
  <2>. QED  BY <2>3 DEF f
<1>. QED  BY <1>5, <1>6 DEF Business

LEMMA PrecedeIs ==
  ASSUME NEW d \in Date
  PROVE  /\ Precede(d) \in Business /\ Precede(d) <= d
         /\ \A e \in Business : e <= d => e <= Precede(d)
<1>. DEFINE T == {n \in Nat : d - n \in Business}
           first == MonthStart[1]
           Is(e) == e \in Date /\ e <= d /\ e \notin Holidays /\ e + 1 .. d \subseteq Holidays
<1>1. first \in Business /\ d - first \in Nat /\ d - (d - first) = first
  BY StartsType, CalendarAssumption, StartsGrow DEF Date, Business
<1>2. d - first \in T
  BY <1>1
<1>3. PICK n \in T : \A k \in T : n <= k
  <2>. HIDE DEF T
  <2>1. T \in SUBSET Nat
    BY DEF T
  <2>. QED  BY <1>2, <2>1, Least
<1>4. Is(d - n)
  <2>1. ASSUME NEW x \in (d - n) + 1 .. d PROVE x \in Holidays
    <3>1. d - x \in Nat /\ d - x < n /\ d - (d - x) = x /\ x \in Date
      BY <1>3, <2>1, StartsType DEF Date, Business
    <3>2. d - x \notin T
      <4>1. n \in Nat
        BY <1>3
      <4>. HIDE DEF T
      <4>. QED  BY <1>3, <3>1, <4>1
    <3>. QED  BY <3>1, <3>2 DEF Business
  <2>. QED  BY <1>3, <2>1, StartsType DEF Business
<1>5. Is(Precede(d))
  BY <1>4 DEF Precede
<1>6. ASSUME NEW e \in Business, e <= d PROVE e <= Precede(d)
  <2>. DEFINE f == Precede(d)
  <2>1. Is(f)
    BY <1>5
  <2>. HIDE DEF f
  <2>2. e \notin f + 1 .. d
    BY <1>6, <2>1 DEF Business
  <2>3. e <= f
    BY <1>6, <2>1, <2>2, StartsType DEF Business
  <2>. QED  BY <2>3 DEF f
<1>. QED  BY <1>5, <1>6 DEF Business

\* What the modified conventions keep a date in: its month, or half of it.
Same(c, d, e) ==
  IF c = "HalfMonthModifiedFollowing" THEN Half(d) = Half(e) ELSE Month(d) = Month(e)

LEMMA SameBetween ==
  ASSUME NEW c, NEW x \in Date, NEW y \in Date, NEW z \in Date, x <= y, y <= z,
         Same(c, x, z)
  PROVE  Same(c, x, y) /\ Same(c, y, z)
<1>0. x \in Int /\ y \in Int /\ z \in Int
  BY StartsType
<1>1. Month(x) = Month(z)
  BY DEF Same, Half
<1>2. Month(x) = Month(y) /\ Month(x) \in Months
  <2>1. Month(x) <= Month(y) /\ Month(y) <= Month(z)
    BY MonthGrows
  <2>2. Month(x) \in Months /\ Month(y) \in Months
    BY MonthIs
  <2>. QED  BY <1>1, <2>1, <2>2, StartsType
<1>3. CASE c = "HalfMonthModifiedFollowing"
  <2>1. (Day(x) <= Middle) = (Day(z) <= Middle)
    BY <1>3 DEF Same, Half
  <2>2. Day(x) <= Day(y) /\ Day(y) <= Day(z)
        /\ Day(x) \in Int /\ Day(y) \in Int /\ Day(z) \in Int
    BY <1>0, <1>1, <1>2, StartsType DEF Day
  <2>3. Middle \in Nat
    BY DayAssumption
  <2>4. (Day(x) <= Middle) = (Day(y) <= Middle)
    BY <2>1, <2>2, <2>3
  <2>. QED  BY <1>1, <1>2, <1>3, <2>1, <2>4 DEF Same, Half
<1>. QED  BY <1>1, <1>2, <1>3 DEF Same

\* Calendar::adjust takes a date to a business day next to it, unless it
\* leaves it as it is.
LEMMA AdjustIs ==
  ASSUME NEW d \in Date, NEW c \in Convention
  PROVE  Adjust(d, c) =
           CASE c = "Unadjusted" -> d
             [] c = "Following" -> Follow(d)
             [] c = "Preceding" -> Precede(d)
             [] c \in {"ModifiedFollowing", "HalfMonthModifiedFollowing"} ->
                  IF Same(c, Follow(d), d) THEN Follow(d) ELSE Precede(d)
             [] c = "ModifiedPreceding" ->
                  IF Same(c, Precede(d), d) THEN Precede(d) ELSE Follow(d)
BY DEF Convention, Adjust, Same

LEMMA AdjustType ==
  ASSUME NEW d \in Date, NEW c \in Convention
  PROVE  /\ Adjust(d, c) \in Date
         /\ c = "Unadjusted" => Adjust(d, c) = d
         /\ c # "Unadjusted" => Adjust(d, c) \in {Follow(d), Precede(d)}
<1>1. Follow(d) \in Date /\ Precede(d) \in Date
  BY FollowIs, PrecedeIs DEF Business
<1>2. Adjust(d, c) \in IF c = "Unadjusted" THEN {d} ELSE {Follow(d), Precede(d)}
  BY AdjustIs DEF Convention
<1>. QED  BY <1>1, <1>2

\* Adjusting does not change the order of dates.
LEMMA AdjustGrows ==
  ASSUME NEW d \in Date, NEW e \in Date, d <= e, NEW c \in Convention
  PROVE  Adjust(d, c) <= Adjust(e, c)
<1>. DEFINE fd == Follow(d)
           fe == Follow(e)
           pd == Precede(d)
           pe == Precede(e)
<1>0. /\ fd \in Business /\ fe \in Business /\ pd \in Business /\ pe \in Business
      /\ d <= fd /\ e <= fe /\ pd <= d /\ pe <= e
      /\ \A x \in Business : (d <= x => fd <= x) /\ (e <= x => fe <= x)
      /\ \A x \in Business : (x <= d => x <= pd) /\ (x <= e => x <= pe)
  BY FollowIs, PrecedeIs
<1>. HIDE DEF fd, fe, pd, pe
<1>2. /\ d \in Int /\ e \in Int /\ fd \in Int /\ fe \in Int /\ pd \in Int /\ pe \in Int
      /\ fd \in Date /\ fe \in Date /\ pd \in Date /\ pe \in Date
  BY <1>0, StartsType DEF Business
<1>1. /\ d <= fd /\ e <= fe /\ pd <= d /\ pe <= e
      /\ fd <= e => fd <= pe
      /\ fd > e => fe <= fd
      /\ pe >= d => fd <= pe
      /\ pe < d => pe <= pd
  BY <1>0, <1>2
<1>3. fd <= fe /\ pd <= pe
  BY <1>0, <1>2
<1>4. CASE c \in {"ModifiedFollowing", "HalfMonthModifiedFollowing"}
  <2>1. Adjust(d, c) = (IF Same(c, fd, d) THEN fd ELSE pd)
        /\ Adjust(e, c) = (IF Same(c, fe, e) THEN fe ELSE pe)
    BY <1>4, AdjustIs DEF fd, fe, pd, pe, Convention
  <2>2. ASSUME Same(c, fd, d), fd > pe PROVE Same(c, fe, e)
    <3>1. fd = fe
      BY <1>1, <1>2, <1>3, <2>2
    <3>2. Same(c, d, fe)
      BY <2>2, <3>1 DEF Same
    <3>3. Same(c, e, fe)
      BY <1>1, <1>2, <3>2, SameBetween
    <3>. QED  BY <3>3 DEF Same
  <2>. QED  BY <1>1, <1>2, <1>3, <2>1, <2>2
<1>5. CASE c = "ModifiedPreceding"
  <2>1. Adjust(d, c) = (IF Same(c, pd, d) THEN pd ELSE fd)
        /\ Adjust(e, c) = (IF Same(c, pe, e) THEN pe ELSE fe)
    BY <1>5, AdjustIs DEF fd, fe, pd, pe, Convention
  <2>2. ASSUME Same(c, pe, e), fd > pe PROVE Same(c, pd, d)
    <3>1. pd = pe
      BY <1>1, <1>2, <1>3, <2>2
    <3>2. Same(c, pd, e)
      BY <2>2, <3>1 DEF Same
    <3>. QED  BY <1>1, <1>2, <3>2, SameBetween
  <2>. QED  BY <1>1, <1>2, <1>3, <2>1, <2>2
<1>6. CASE c \in {"Unadjusted", "Following", "Preceding"}
  BY <1>3, <1>6, AdjustIs DEF fd, fe, pd, pe
<1>. QED  BY <1>4, <1>5, <1>6 DEF Convention

\* Dates that adjusting keeps apart were in that order before.
LEMMA AdjustApart ==
  ASSUME NEW d \in Date, NEW e \in Date, NEW c \in Convention, Adjust(d, c) < Adjust(e, c)
  PROVE  d < e
<1>1. CASE e <= d
  <2>1. Adjust(e, c) <= Adjust(d, c)
    BY <1>1, AdjustGrows
  <2>2. Adjust(d, c) \in Int /\ Adjust(e, c) \in Int
    BY AdjustType, StartsType
  <2>. QED  BY <2>1, <2>2
<1>. QED  BY <1>1, StartsType

\* Of two dates that adjusting keeps apart, neither is moved past the other.
LEMMA NotPassed ==
  ASSUME NEW d \in Date, NEW e \in Date, NEW c \in Convention,
         Adjust(d, c) < Adjust(e, c)
  PROVE  d < e /\ Adjust(d, c) <= e /\ d <= Adjust(e, c)
<1>0. d < e /\ d \in Int /\ e \in Int
  BY AdjustApart, StartsType
<1>1. CASE c = "Unadjusted"
  BY <1>0, <1>1, AdjustType
<1>2. CASE c # "Unadjusted"
  <2>. DEFINE x == Adjust(d, c)
             y == Adjust(e, c)
  <2>1. x \in {Follow(d), Precede(d)} /\ y \in {Follow(e), Precede(e)} /\ x < y
    BY <1>2, AdjustType
  <2>. HIDE DEF x, y
  <2>2. /\ Follow(d) \in Business /\ Follow(e) \in Business
        /\ Precede(d) \in Business /\ Precede(e) \in Business
        /\ d <= Follow(d) /\ e <= Follow(e) /\ Precede(d) <= d /\ Precede(e) <= e
    BY FollowIs, PrecedeIs
  <2>3. x \in Business /\ y \in Business
    BY <2>1, <2>2
  <2>4. /\ x \in Int /\ y \in Int /\ Follow(d) \in Int /\ Follow(e) \in Int
        /\ Precede(d) \in Int /\ Precede(e) \in Int
    BY <2>2, <2>3, StartsType DEF Business
  <2>5. (x <= e => x <= Precede(e)) /\ (e <= x => Follow(e) <= x)
    BY <2>3, FollowIs, PrecedeIs
  <2>6. (y <= d => y <= Precede(d)) /\ (d <= y => Follow(d) <= y)
    BY <2>3, FollowIs, PrecedeIs
  <2>7. x <= e
    BY <1>0, <2>1, <2>2, <2>4, <2>5
  <2>8. d <= y
    BY <1>0, <2>1, <2>2, <2>4, <2>6
  <2>. QED  BY <1>0, <2>7, <2>8 DEF x, y
<1>. QED  BY <1>1, <1>2

-----------------------------------------------------------------------------
(***************************************************************************)
(* Advancing                                                               *)
(***************************************************************************)

LEMMA DayIs ==
  ASSUME NEW d \in Date
  PROVE  /\ Day(d) \in 1 .. MonthStart[Month(d) + 1] - MonthStart[Month(d)]
         /\ On(Day(d), Month(d)) = d
BY MonthIs, StartsType DEF Day, On, In

LEMMA AddMonthsIs ==
  ASSUME NEW d \in Date, NEW n \in Int, Month(d) + n \in Months
  PROVE  /\ AddMonths(d, n) \in Date
         /\ Month(AddMonths(d, n)) = Month(d) + n
<1>. DEFINE m == Month(d) + n
           e == Earlier(On(Day(d), m), MonthStart[m + 1] - 1)
<1>1. Day(d) \in Int /\ Day(d) >= 1
  <2>1. Month(d) \in Months
    BY MonthIs
  <2>. QED  BY <2>1, DayIs, StartsType
<1>2. MonthStart[m] < MonthStart[m + 1] /\ MonthStart[m] \in Int /\ MonthStart[m + 1] \in Int
  BY StartsType, CalendarAssumption
<1>3. e \in Int /\ In(e, m)
  BY <1>1, <1>2 DEF Earlier, On, In
<1>4. AddMonths(d, n) = e
  BY DEF AddMonths
<1>. HIDE DEF e, m
<1>. QED  BY <1>3, <1>4, MonthDates DEF m

\* A day that two months have is moved to itself.
LEMMA AddMonthsOn ==
  ASSUME NEW m \in Months, NEW n \in Int, m + n \in Months,
         NEW k \in 1 .. MonthStart[m + 1] - MonthStart[m],
         k <= MonthStart[m + n + 1] - MonthStart[m + n]
  PROVE  AddMonths(On(k, m), n) = On(k, m + n)
<1>1. Month(On(k, m)) = m
  BY FirstsAreDates
<1>0. /\ MonthStart[m] \in Int /\ MonthStart[m + 1] \in Int /\ MonthStart[m + n] \in Int
      /\ MonthStart[m + n + 1] \in Int
  BY StartsType
<1>4. k \in Int
  BY <1>0
<1>2. Day(On(k, m)) = k
  BY <1>0, <1>1, <1>4 DEF Day, On
<1>3. On(k, m + n) <= MonthStart[m + n + 1] - 1
  BY <1>0, <1>4 DEF On
<1>. QED  BY <1>1, <1>2, <1>3 DEF AddMonths, Earlier

\* k tenors from d do not leave the calendar's months.
Reaches(d, k) ==
  self.tenor.unit = "Days" \/ Month(d) + k * self.tenor.length \in Months

LEMMA AdvanceIs ==
  ASSUME self \in Arguments, NEW d \in Date, NEW k \in Int, Reaches(d, k)
  PROVE  /\ Advance(d, k) \in Int
         /\ self.tenor.unit = "Days" => Advance(d, k) = d + k * self.tenor.length
         /\ self.tenor.unit = "Months" =>
              /\ Advance(d, k) \in Date
              /\ Month(Advance(d, k)) = Month(d) + k * self.tenor.length
<1>. DEFINE n == k * self.tenor.length
<1>1. self.tenor.unit \in {"Days", "Months"} /\ self.tenor.length \in Int /\ n \in Int /\ d \in Int
  BY StartsType DEF Arguments
<1>2. n = k * self.tenor.length
  OBVIOUS
<1>. HIDE DEF n
<1>3. CASE self.tenor.unit = "Days"
  BY <1>1, <1>2, <1>3 DEF Advance
<1>4. CASE self.tenor.unit = "Months"
  <2>1. Month(d) + n \in Months
    BY <1>2, <1>4 DEF Reaches
  <2>2. AddMonths(d, n) \in Date /\ Month(AddMonths(d, n)) = Month(d) + n
    BY <1>1, <2>1, AddMonthsIs
  <2>3. LastOfMonth(AddMonths(d, n)) \in Date
        /\ Month(LastOfMonth(AddMonths(d, n))) = Month(d) + n
    BY <2>2, LastOfMonthIs
  <2>4. Advance(d, k) \in {AddMonths(d, n), LastOfMonth(AddMonths(d, n))}
    BY <1>2, <1>4 DEF Advance
  <2>. QED  BY <1>1, <1>2, <1>4, <2>2, <2>3, <2>4, StartsType
<1>. QED  BY <1>1, <1>3, <1>4

\* More tenors lead further.
LEMMA AdvanceGrows ==
  ASSUME self \in Arguments, self.tenor.length > 0, NEW d \in Date,
         NEW j \in Int, NEW k \in Int, j < k, Reaches(d, j), Reaches(d, k)
  PROVE  Advance(d, j) < Advance(d, k)
<1>1. self.tenor.unit \in {"Days", "Months"} /\ self.tenor.length \in Int /\ d \in Int
  BY StartsType DEF Arguments
<1>2. j * self.tenor.length < k * self.tenor.length
  BY <1>1
<1>3. CASE self.tenor.unit = "Days"
  BY <1>1, <1>2, <1>3, AdvanceIs
<1>4. CASE self.tenor.unit = "Months"
  <2>. DEFINE x == Advance(d, j)
             y == Advance(d, k)
  <2>1. /\ x \in Date /\ Month(x) = Month(d) + j * self.tenor.length
        /\ y \in Date /\ Month(y) = Month(d) + k * self.tenor.length
    BY <1>4, AdvanceIs
  <2>2. Month(d) \in Int
    BY MonthIs, StartsType
  <2>3. Month(x) < Month(y)
    BY <1>1, <1>2, <2>1, <2>2
  <2>. HIDE DEF x, y
  <2>4. CASE y <= x
    <3>1. Month(y) <= Month(x)
      BY <2>1, <2>4, MonthGrows
    <3>2. Month(x) \in Int /\ Month(y) \in Int
      BY <2>1, MonthIs, StartsType
    <3>. QED  BY <2>3, <3>1, <3>2
  <2>5. x < y
    <3>1. x \in Int /\ y \in Int
      BY <1>4, <2>1, StartsType
    <3>. QED  BY <2>4, <3>1 DEF x, y
  <2>. QED  BY <2>5 DEF x, y
<1>. QED  BY <1>1, <1>3, <1>4

\* No tenor from a date leads to itself.
LEMMA AdvanceNone ==
  ASSUME self \in Arguments, NEW d \in Date
  PROVE  Reaches(d, 0)
BY MonthIs, StartsType DEF Reaches, Arguments

-----------------------------------------------------------------------------
(***************************************************************************)
(* Twentieths                                                              *)
(***************************************************************************)

LEMMA Cycle ==
  ASSUME NEW m \in Int
  PROVE  m % MainCycle \in 0 .. MainCycle - 1
BY DayAssumption

LEMMA TwentiethIs ==
  ASSUME NEW m \in Months
  PROVE  /\ Twentieth \in 1 .. MonthStart[m + 1] - MonthStart[m]
         /\ On(Twentieth, m) \in Date /\ Month(On(Twentieth, m)) = m
BY DayAssumption, FirstsAreDates

LEMMA AddToTwentieth ==
  ASSUME NEW m \in Months, NEW n \in Int, m + n \in Months
  PROVE  AddMonths(On(Twentieth, m), n) = On(Twentieth, m + n)
<1>1. /\ Twentieth \in 1 .. MonthStart[m + 1] - MonthStart[m]
      /\ Twentieth \in 1 .. MonthStart[m + n + 1] - MonthStart[m + n]
  BY TwentiethIs
<1>. QED  BY <1>1, AddMonthsOn, StartsType

LEMMA NextTwentiethIs ==
  ASSUME NEW d \in Date, NEW rule, Month(d) + MainCycle \in Months
  PROVE  LET t == NextTwentieth(d, rule)
         IN  t \in Date /\ d <= t /\ Month(t) <= Month(d) + MainCycle
             /\ t = On(Twentieth, Month(t))
<1>. DEFINE m == Month(d)
           t == On(Twentieth, m)
           r == IF t < d THEN AddMonths(t, 1) ELSE t
           n == IF t < d THEN m + 1 ELSE m
           k == n % MainCycle
           to == IF Cycled(rule) /\ k # 0 THEN n + (MainCycle - k) ELSE n
<1>1. m \in Months /\ MainCycle \in Nat \ {0} /\ m \in Nat
  BY MonthIs, StartsType, DayAssumption
<1>2. n \in Months /\ n \in Nat /\ m <= n /\ n <= m + 1
  BY <1>1, StartsType DEF Months
<1>3. k \in 0 .. MainCycle - 1
  BY <1>2, Cycle
<1>5. to \in Months /\ n <= to /\ to <= m + MainCycle
  <2>1. k # 0 => MainCycle - k \in 1 .. MainCycle - 1
    <3>. HIDE DEF k
    <3>. QED  BY <1>1, <1>3
  <2>2. to \in Int /\ n <= to /\ to <= n + MainCycle - 1
    <3>. HIDE DEF k, n
    <3>. QED  BY <1>1, <1>2, <2>1
  <2>3. to <= m + MainCycle
    <3>. HIDE DEF to, n, m
    <3>. QED  BY <1>1, <1>2, <2>2
  <2>4. to \in Months
    <3>. HIDE DEF to, n
    <3>. QED  BY <1>1, <1>2, <2>2, <2>3, StartsType DEF Months
  <2>. QED  BY <2>2, <2>3, <2>4
<1>6. t \in Date /\ Month(t) = m /\ t \in Int /\ d \in Int
  BY <1>1, TwentiethIs, StartsType
<1>12. to \in Int /\ n \in Int /\ m \in Int
  BY <1>1, <1>2, <1>5, StartsType
<1>7. r = On(Twentieth, n)
  BY <1>1, <1>2, AddToTwentieth
<1>8. Month(r) = n
  BY <1>2, <1>7, TwentiethIs
<1>9. NextTwentieth(d, rule) = On(Twentieth, to)
  <2>1. NextTwentieth(d, rule) =
          IF Cycled(rule) /\ k # 0 THEN AddMonths(r, MainCycle - k) ELSE r
    BY <1>8 DEF NextTwentieth
  <2>2. CASE Cycled(rule) /\ k # 0
    <3>1. MainCycle - k \in Int /\ n + (MainCycle - k) = to
      BY <1>1, <1>3, <2>2
    <3>2. AddMonths(On(Twentieth, n), MainCycle - k) = On(Twentieth, to)
      <4>. HIDE DEF n, k, to
      <4>. QED  BY <1>2, <1>5, <3>1, AddToTwentieth
    <3>. QED  BY <1>7, <2>1, <2>2, <3>2
  <2>. QED  BY <1>7, <2>1, <2>2
<1>10. d <= On(Twentieth, to)
  <2>1. CASE t < d
    <3>1. m < to
      BY <1>1, <1>2, <1>5, <2>1
    <3>2. On(Twentieth, to) \in Date /\ Month(On(Twentieth, to)) = to
      BY <1>5, TwentiethIs
    <3>3. CASE On(Twentieth, to) < d
      <4>0. On(Twentieth, to) \in Int /\ On(Twentieth, to) <= d
        <5>1. On(Twentieth, to) \in Int
          BY <3>2, StartsType
        <5>. QED  BY <1>6, <3>3, <5>1
      <4>1. Month(On(Twentieth, to)) <= Month(d)
        <5>. HIDE DEF to
        <5>. QED  BY <3>2, <4>0, MonthGrows
      <4>. QED
        <5>. HIDE DEF to
        <5>. QED  BY <1>12, <3>1, <3>2, <4>1
    <3>4. On(Twentieth, to) \in Int
      BY <3>2, StartsType
    <3>. QED  BY <1>6, <3>3, <3>4
  <2>2. CASE ~(t < d)
    <3>1. d <= t /\ m <= to
      <4>1. d <= t
        <5>. HIDE DEF t
        <5>. QED  BY <1>6, <2>2
      <4>2. m <= to
        <5>. HIDE DEF n, to, m
        <5>. QED  BY <1>2, <1>5, <1>12
      <4>. QED  BY <4>1, <4>2
    <3>2. On(Twentieth, m) <= On(Twentieth, to)
      <4>1. MonthStart[m] <= MonthStart[to]
        <5>. HIDE DEF m, to
        <5>. QED  BY <1>1, <1>5, <3>1, StartsOrder, StartsType
      <4>2. MonthStart[m] \in Int /\ MonthStart[to] \in Int /\ Twentieth \in Nat
        BY <1>1, <1>5, StartsType, DayAssumption
      <4>. HIDE DEF m, to
      <4>. QED  BY <4>1, <4>2 DEF On
    <3>3. On(Twentieth, m) \in Int /\ On(Twentieth, to) \in Int /\ d \in Int
      BY <1>1, <1>5, TwentiethIs, StartsType
    <3>. QED  BY <3>1, <3>2, <3>3
  <2>. QED  BY <2>1, <2>2
<1>11. On(Twentieth, to) \in Date /\ Month(On(Twentieth, to)) = to
  BY <1>5, TwentiethIs
<1>. HIDE DEF to, m
<1>. QED  BY <1>5, <1>9, <1>10, <1>11 DEF m

LEMMA PreviousTwentiethIs ==
  ASSUME NEW d \in Date, NEW rule, Month(d) - MainCycle \in Months
  PROVE  LET t == PreviousTwentieth(d, rule)
         IN  t \in Date /\ t <= d
<1>. DEFINE m == Month(d)
           t == On(Twentieth, m)
           r == IF t > d THEN AddMonths(t, -1) ELSE t
           n == IF t > d THEN m - 1 ELSE m
           k == n % MainCycle
           to == IF Cycled(rule) THEN n - k ELSE n
<1>1. m \in Months /\ MainCycle \in Nat \ {0} /\ m \in Nat
  BY MonthIs, StartsType, DayAssumption
<1>2. n \in Months /\ n \in Nat /\ n <= m /\ m - 1 <= n
  BY <1>1, StartsType DEF Months
<1>3. k \in 0 .. MainCycle - 1
  BY <1>2, Cycle
<1>4. MainCycle < m
  BY <1>1, StartsType DEF Months
<1>5. to \in Months /\ to <= n
  <2>1. to \in Int /\ to <= n /\ n - (MainCycle - 1) <= to
    <3>. HIDE DEF k, n
    <3>. QED  BY <1>1, <1>2, <1>3
  <2>2. 1 <= to
    <3>. HIDE DEF to, n, m
    <3>. QED  BY <1>1, <1>2, <1>4, <2>1
  <2>3. to \in Months
    <3>. HIDE DEF to, n, m
    <3>. QED  BY <1>1, <1>2, <2>1, <2>2, StartsType DEF Months
  <2>. QED  BY <2>1, <2>3
<1>6. t \in Date /\ Month(t) = m /\ t \in Int /\ d \in Int
  BY <1>1, TwentiethIs, StartsType
<1>12. to \in Int /\ n \in Int /\ m \in Int
  BY <1>1, <1>2, <1>5, StartsType
<1>7. r = On(Twentieth, n)
  <2>1. CASE t > d
    <3>1. m + (-1) \in Months /\ -1 \in Int /\ m + (-1) = n
      BY <1>1, <1>2, <2>1
    <3>2. AddMonths(On(Twentieth, m), -1) = On(Twentieth, n)
      <4>. HIDE DEF n, m
      <4>. QED  BY <1>1, <3>1, AddToTwentieth
    <3>. QED  BY <2>1, <3>2
  <2>. QED  BY <2>1
<1>8. Month(r) = n
  BY <1>2, <1>7, TwentiethIs
<1>9. PreviousTwentieth(d, rule) = On(Twentieth, to)
  <2>1. PreviousTwentieth(d, rule) = IF Cycled(rule) THEN AddMonths(r, -k) ELSE r
    BY <1>8 DEF PreviousTwentieth
  <2>2. CASE Cycled(rule)
    <3>1. -k \in Int /\ n + (-k) = to
      BY <1>2, <1>3, <2>2
    <3>2. AddMonths(On(Twentieth, n), -k) = On(Twentieth, to)
      <4>. HIDE DEF n, k, to
      <4>. QED  BY <1>2, <1>5, <3>1, AddToTwentieth
    <3>. QED  BY <1>7, <2>1, <2>2, <3>2
  <2>. QED  BY <1>7, <2>1, <2>2
<1>10. On(Twentieth, to) \in Date /\ Month(On(Twentieth, to)) = to
  BY <1>5, TwentiethIs
<1>11. On(Twentieth, to) <= d
  <2>1. CASE t > d
    <3>1. to < m
      <4>1. n < m
        BY <1>12, <2>1
      <4>. HIDE DEF to, n, m
      <4>. QED  BY <1>5, <1>12, <4>1
    <3>2. On(Twentieth, to) \in Int
      BY <1>10, StartsType
    <3>3. CASE d < On(Twentieth, to)
      <4>0. d <= On(Twentieth, to)
        BY <1>6, <3>2, <3>3
      <4>1. Month(d) <= Month(On(Twentieth, to))
        <5>. HIDE DEF to
        <5>. QED  BY <1>10, <4>0, MonthGrows
      <4>. QED
        <5>. HIDE DEF to
        <5>. QED  BY <1>10, <1>12, <3>1, <4>1
    <3>. QED  BY <1>6, <3>2, <3>3
  <2>2. CASE ~(t > d)
    <3>1. t <= d /\ to <= m
      <4>1. t <= d
        <5>. HIDE DEF t
        <5>. QED  BY <1>6, <2>2
      <4>2. to <= m
        <5>. HIDE DEF n, to, m
        <5>. QED  BY <1>2, <1>5, <1>12
      <4>. QED  BY <4>1, <4>2
    <3>2. On(Twentieth, to) <= On(Twentieth, m)
      <4>1. MonthStart[to] <= MonthStart[m]
        <5>. HIDE DEF m, to
        <5>. QED  BY <1>1, <1>5, <3>1, StartsOrder, StartsType
      <4>2. MonthStart[m] \in Int /\ MonthStart[to] \in Int /\ Twentieth \in Nat
        BY <1>1, <1>5, StartsType, DayAssumption
      <4>. HIDE DEF m, to
      <4>. QED  BY <4>1, <4>2 DEF On
    <3>3. On(Twentieth, m) \in Int /\ On(Twentieth, to) \in Int /\ d \in Int
      BY <1>1, <1>5, TwentiethIs, StartsType
    <3>. QED  BY <3>1, <3>2, <3>3
  <2>. QED  BY <2>1, <2>2
<1>. QED  BY <1>9, <1>10, <1>11
-----------------------------------------------------------------------------
(***************************************************************************)
(* Requests and tenors                                                     *)
(***************************************************************************)

LEMMA MonthType ==
  ASSUME NEW d \in Date
  PROVE  Month(d) \in Int /\ d \in Int /\ Month(d) \in Months
BY MonthIs, StartsType

\* The dates of a request
Given(r) == {r.effective, r.termination, r.first, r.nextToLast} \ {NoDate}

LEMMA ArgumentTypes ==
  ASSUME NEW r \in Arguments
  PROVE  /\ r.effective \in Date /\ r.termination \in Date
         /\ r.first \in Date \cup {NoDate} /\ r.nextToLast \in Date \cup {NoDate}
         /\ r.tenor.length \in Int /\ r.tenor.unit \in {"Days", "Months"}
         /\ r.convention \in Convention /\ r.terminationDateConvention \in Convention
         /\ r.rule \in Rule /\ r.endOfMonth \in BOOLEAN
         /\ Given(r) \subseteq Date
         /\ NoDate \notin Date
<1>1. NoDate \notin Date
  BY CalendarAssumption, StartsType
<1>. QED  BY <1>1 DEF Arguments, Given

LEMMA MembersAre ==
  ASSUME NEW r \in Arguments
  PROVE  /\ Members(r) \in Arguments
         /\ Given(Members(r)) \subseteq Given(r)
         /\ Members(r).effective = r.effective /\ Members(r).termination = r.termination
         /\ Members(r).tenor = r.tenor /\ Members(r).convention = r.convention
         /\ Members(r).terminationDateConvention = r.terminationDateConvention
         /\ Members(r).endOfMonth = r.endOfMonth
         /\ Members(r).first \in {r.first, NoDate}
         /\ Members(r).nextToLast \in {r.nextToLast, NoDate}
         /\ Members(r).rule = IF r.tenor.length = 0 THEN "Zero" ELSE r.rule
<1>1. /\ Members(r).effective = r.effective /\ Members(r).termination = r.termination
      /\ Members(r).tenor = r.tenor /\ Members(r).convention = r.convention
      /\ Members(r).terminationDateConvention = r.terminationDateConvention
      /\ Members(r).endOfMonth = r.endOfMonth
      /\ Members(r).first \in {r.first, NoDate}
      /\ Members(r).nextToLast \in {r.nextToLast, NoDate}
      /\ Members(r).rule = IF r.tenor.length = 0 THEN "Zero" ELSE r.rule
  BY DEF Arguments, Members
<1>2. Members(r) \in Arguments
  BY DEF Arguments, Members, Rule
<1>. QED  BY <1>1, <1>2 DEF Given

\* The members of the class are made of the arguments and have been checked.
Sound == request \in Requests /\ self = Members(request) /\ Sane(self)

TenorMonths == IF self.tenor.unit = "Months" THEN self.tenor.length ELSE 0

LEMMA HasRoom ==
  ASSUME Sound, NEW d \in Given(self)
  PROVE  /\ d \in Date
         /\ TenorMonths \in Nat
         /\ {Month(d) - TenorMonths, Month(d) - MainCycle,
             Month(d) + 2 * MainCycle + 1 + TenorMonths} \subseteq Months
<1>1. request \in Arguments
  BY RoomAssumption DEF Sound
<1>2. /\ self \in Arguments /\ d \in Given(request) /\ self.tenor = request.tenor
  BY <1>1, MembersAre DEF Sound
<1>3. self.tenor.length \in Nat
  BY <1>2, ArgumentTypes DEF Sound, Sane
<1>. DEFINE tenor == IF request.tenor.unit = "Months" /\ request.tenor.length > 0
                    THEN request.tenor.length ELSE 0
<1>4. tenor = TenorMonths /\ tenor \in Nat
  BY <1>2, <1>3 DEF TenorMonths
<1>5. {Month(d) - tenor, Month(d) - MainCycle,
       Month(d) + 2 * MainCycle + 1 + tenor} \subseteq Months
  BY <1>2, RoomAssumption DEF Sound, Given
<1>6. d \in Date
  BY <1>1, <1>2, ArgumentTypes
<1>. HIDE DEF tenor
<1>. QED  BY <1>4, <1>5, <1>6

LEMMA AdvanceZero ==
  ASSUME self \in Arguments, NEW d \in Date
  PROVE  Reaches(d, 0) /\ Advance(d, 0) = d
<1>1. Reaches(d, 0)
  BY AdvanceNone
<1>2. 0 * self.tenor.length = 0
  BY ArgumentTypes
<1>3. d + 0 = d /\ Month(d) + 0 = Month(d)
  BY MonthType
<1>4. AddMonths(d, 0) = d
  <2>1. On(Day(d), Month(d)) = d /\ d < MonthStart[Month(d) + 1]
    BY MonthIs, DayIs DEF In
  <2>2. MonthStart[Month(d) + 1] \in Int
    BY MonthType, StartsType
  <2>3. d <= MonthStart[Month(d) + 1] - 1
    BY <2>1, <2>2, MonthType
  <2>. QED  BY <1>3, <2>1, <2>3 DEF AddMonths, Earlier
<1>5. Advance(d, 0) = d
  BY <1>2, <1>3, <1>4 DEF Advance
<1>. QED  BY <1>1, <1>5

\* Tenors are counted from the seed in the direction of the rule.
Way(k) == IF self.rule = "Backward" THEN -k ELSE k

Rolling ==
  /\ Sound
  /\ self.rule # "Zero" /\ self.tenor.length > 0
  /\ seed \in Date /\ periods \in Nat \ {0}
  /\ Reaches(seed, Way(periods))

LEMMA NextReached ==
  ASSUME NEW len \in Nat, NEW k \in Nat
  PROVE  (k + 1) * len = k * len + len /\ k * len \in Nat
         /\ (-k) * len = -(k * len) /\ (-(k + 1)) * len = -(k * len) - len
OBVIOUS

(***************************************************************************)
(* A date at whole tenors from the seed that does not pass the exit date   *)
(* is in the calendar, and so is what is looked at next.                   *)
(***************************************************************************)
LEMMA StaysBackward ==
  ASSUME Rolling, self.rule = "Backward", NEW exit \in Given(self),
         Advance(seed, -periods) >= exit
  PROVE  /\ Advance(seed, -periods) \in Date
         /\ Advance(seed, -periods) < seed
         /\ Reaches(seed, -(periods + 1))
<1>. DEFINE temp == Advance(seed, -periods)
           len == self.tenor.length
<1>0. self \in Arguments
  BY RoomAssumption, MembersAre DEF Rolling, Sound
<1>1. /\ len \in Nat /\ len > 0 /\ periods \in Nat \ {0} /\ -periods \in Int /\ 0 \in Int
      /\ -periods < 0 /\ self.tenor.unit \in {"Days", "Months"}
  BY <1>0, ArgumentTypes DEF Rolling
<1>2. Reaches(seed, -periods) /\ seed \in Date /\ seed \in Int
  BY MonthType DEF Rolling, Way
<1>3. exit \in Date /\ exit \in Int /\ TenorMonths \in Nat /\ Month(exit) - TenorMonths \in Months
  BY HasRoom, MonthType DEF Rolling
<1>4. temp \in Int /\ temp < seed
  <2>1. Advance(seed, -periods) < Advance(seed, 0) /\ Advance(seed, 0) = seed
    BY <1>0, <1>1, <1>2, AdvanceGrows, AdvanceZero
  <2>. QED  BY <1>0, <1>1, <1>2, <2>1, AdvanceIs
<1>5. temp \in Date
  <2>. HIDE DEF temp
  <2>1. exit <= temp /\ temp <= seed
    BY <1>2, <1>3, <1>4 DEF temp
  <2>. QED  BY <1>2, <1>3, <1>4, <2>1, StartsType DEF Date
<1>6. Reaches(seed, -(periods + 1))
  <2>1. CASE self.tenor.unit = "Months"
    <3>1. Month(temp) = Month(seed) + (-periods) * len
      BY <1>0, <1>1, <1>2, <2>1, AdvanceIs
    <3>2. Month(exit) <= Month(temp)
      <4>1. exit <= temp
        BY <1>3, <1>4
      <4>. QED  BY <1>3, <1>5, <4>1, MonthGrows
    <3>3. Month(exit) - len \in Months
      BY <1>3, <2>1 DEF TenorMonths
    <3>4. /\ (-(periods + 1)) * len = -(periods * len) - len
          /\ (-periods) * len = -(periods * len) /\ periods * len \in Nat
      BY <1>1, NextReached
    <3>5. Month(seed) \in Months /\ Month(exit) \in Int /\ Month(temp) \in Int
      BY <1>2, <1>3, <1>5, MonthType
    <3>. DEFINE n == periods * len
               m == Month(seed) + (-(periods + 1)) * len
    <3>6. m = (Month(seed) - n) - len /\ Month(temp) = Month(seed) - n /\ n \in Nat
      <4>. HIDE DEF temp, len
      <4>. QED  BY <1>1, <3>1, <3>4, <3>5, StartsType
    <3>7. m \in Months
      <4>. HIDE DEF n, m, temp, len
      <4>. QED  BY <1>1, <3>2, <3>3, <3>5, <3>6, StartsType DEF Months
    <3>. QED  BY <3>7 DEF Reaches
  <2>. QED  BY <1>1, <2>1 DEF Reaches
<1>. QED  BY <1>4, <1>5, <1>6

LEMMA StaysForward ==
  ASSUME Rolling, self.rule # "Backward", NEW exit \in Given(self),
         Advance(seed, periods) <= exit
  PROVE  /\ Advance(seed, periods) \in Date
         /\ seed < Advance(seed, periods)
         /\ Reaches(seed, periods + 1)
<1>. DEFINE temp == Advance(seed, periods)
           len == self.tenor.length
<1>0. self \in Arguments
  BY RoomAssumption, MembersAre DEF Rolling, Sound
<1>1. /\ len \in Nat /\ len > 0 /\ periods \in Nat \ {0} /\ periods \in Int /\ 0 \in Int
      /\ 0 < periods /\ self.tenor.unit \in {"Days", "Months"}
  BY <1>0, ArgumentTypes DEF Rolling
<1>2. Reaches(seed, periods) /\ seed \in Date /\ seed \in Int
  BY MonthType DEF Rolling, Way
<1>3. /\ exit \in Date /\ exit \in Int /\ TenorMonths \in Nat /\ MainCycle \in Nat
      /\ Month(exit) + 2 * MainCycle + 1 + TenorMonths \in Months
  BY HasRoom, MonthType, DayAssumption DEF Rolling
<1>4. temp \in Int /\ seed < temp
  <2>1. Advance(seed, 0) < Advance(seed, periods) /\ Advance(seed, 0) = seed
    BY <1>0, <1>1, <1>2, AdvanceGrows, AdvanceZero
  <2>. QED  BY <1>0, <1>1, <1>2, <2>1, AdvanceIs
<1>5. temp \in Date
  <2>. HIDE DEF temp
  <2>1. seed <= temp /\ temp <= exit
    BY <1>2, <1>3, <1>4 DEF temp
  <2>. QED  BY <1>2, <1>3, <1>4, <2>1, StartsType DEF Date
<1>6. Reaches(seed, periods + 1)
  <2>1. CASE self.tenor.unit = "Months"
    <3>1. Month(temp) = Month(seed) + periods * len
      BY <1>0, <1>1, <1>2, <2>1, AdvanceIs
    <3>2. Month(temp) <= Month(exit)
      <4>1. temp <= exit
        BY <1>3, <1>4
      <4>. QED  BY <1>3, <1>5, <4>1, MonthGrows
    <3>3. Month(exit) + 2 * MainCycle + 1 + len \in Months
      BY <1>3, <2>1 DEF TenorMonths
    <3>4. (periods + 1) * len = periods * len + len /\ periods * len \in Nat
      BY <1>1, NextReached
    <3>5. /\ Month(seed) \in Int /\ Month(exit) \in Int
          /\ Month(temp) \in Months /\ Month(temp) \in Int
      BY <1>2, <1>3, <1>5, MonthType
    <3>. DEFINE n == periods * len
               m == Month(seed) + (periods + 1) * len
    <3>6. m = (Month(seed) + n) + len /\ Month(temp) = Month(seed) + n /\ n \in Nat
      <4>. HIDE DEF temp, len
      <4>. QED  BY <1>1, <3>1, <3>4, <3>5, StartsType
    <3>7. m \in Months
      <4>1. m = Month(temp) + len /\ m <= Month(exit) + 2 * MainCycle + 1 + len
        <5>. HIDE DEF n, m, temp, len
        <5>. QED  BY <1>1, <1>3, <3>2, <3>5, <3>6
      <4>2. m \in Int /\ 1 <= m
        <5>. HIDE DEF n, m, temp, len
        <5>. QED  BY <1>1, <3>5, <4>1, StartsType DEF Months
      <4>. HIDE DEF n, m, temp, len
      <4>. QED  BY <3>3, <4>1, <4>2, StartsType DEF Months
    <3>. QED  BY <3>7 DEF Reaches
  <2>. QED  BY <1>1, <2>1 DEF Reaches
<1>. QED  BY <1>4, <1>5, <1>6

LEMMA Between ==
  ASSUME NEW m \in Months, NEW n \in Months, NEW k \in Int, m <= k, k <= n
  PROVE  k \in Months
BY StartsType DEF Months

LEMMA DayAfter ==
  ASSUME NEW d \in Date, Month(d) + 1 \in Months
  PROVE  d + 1 \in Date /\ Month(d + 1) <= Month(d) + 1
<1>. DEFINE m == Month(d)
           e == d + 1
<1>1. m \in Months /\ m + 1 \in Months /\ m \in Int /\ In(d, m) /\ d \in Int /\ e \in Int
  BY MonthIs, MonthType
<1>2. /\ MonthStart[m] \in Int /\ MonthStart[m + 1] \in Int /\ MonthStart[m + 1 + 1] \in Int
      /\ MonthStart[m + 1] < MonthStart[m + 1 + 1]
  BY <1>1, StartsType, CalendarAssumption
<1>3. In(e, m) \/ In(e, m + 1)
  <2>. HIDE DEF m
  <2>. QED  BY <1>1, <1>2 DEF In
<1>4. e \in Date /\ Month(e) \in {m, m + 1}
  <2>. HIDE DEF m, e
  <2>. QED  BY <1>1, <1>3, MonthDates
<1>. QED
  <2>. HIDE DEF m, e
  <2>1. e \in Date /\ Month(e) <= m + 1
    BY <1>1, <1>4
  <2>. QED  BY <2>1 DEF m, e

LEMMA StartReached ==
  ASSUME self \in Arguments, NEW d \in Date
  PROVE  /\ Month(d) + TenorMonths \in Months => Reaches(d, 1)
         /\ Month(d) - TenorMonths \in Months => Reaches(d, -1)
<1>1. self.tenor.unit \in {"Days", "Months"} /\ self.tenor.length \in Int
  BY ArgumentTypes
<1>2. 1 * self.tenor.length = self.tenor.length /\ Month(d) \in Int
      /\ Month(d) + (-1) * self.tenor.length = Month(d) - self.tenor.length
  BY <1>1, MonthType
<1>. QED  BY <1>1, <1>2 DEF TenorMonths, Reaches

\* The first date of a schedule that is rolled forward
From ==
  IF self.rule = "CDS" THEN PreviousTwentieth(self.effective, "CDS") ELSE self.effective

LEMMA EffectiveRoom ==
  ASSUME Sound
  PROVE  /\ self \in Arguments
         /\ self.effective \in Given(self) /\ self.effective \in Date /\ self.effective \in Int
         /\ self.termination \in Given(self) /\ self.termination \in Date
         /\ self.termination \in Int /\ self.effective < self.termination
<1>1. self \in Arguments
  BY RoomAssumption, MembersAre DEF Sound
<1>. QED  BY <1>1, ArgumentTypes, StartsType DEF Sound, Sane, Given

LEMMA FromIs ==
  ASSUME Sound
  PROVE  From \in Date /\ From <= self.effective /\ Month(From) + TenorMonths \in Months
<1>. DEFINE e == self.effective
           f == From
<1>1. /\ e \in Date /\ e \in Int /\ TenorMonths \in Nat
      /\ Month(e) - MainCycle \in Months /\ Month(e) + 2 * MainCycle + 1 + TenorMonths \in Months
  BY EffectiveRoom, HasRoom
<1>2. f \in Date /\ f <= e
  BY <1>1, PreviousTwentiethIs DEF From
<1>3. Month(f) <= Month(e) /\ Month(e) \in Int /\ Month(f) \in Int /\ Month(f) \in Months
  <2>. HIDE DEF e, f
  <2>. QED  BY <1>1, <1>2, MonthGrows, MonthType
<1>4. Month(f) + TenorMonths \in Months
  <2>. HIDE DEF e, f
  <2>1. MainCycle \in Nat
    BY DayAssumption
  <2>2. /\ Month(f) + TenorMonths \in Int /\ Month(f) <= Month(f) + TenorMonths
        /\ Month(f) + TenorMonths <= Month(e) + 2 * MainCycle + 1 + TenorMonths
    BY <1>1, <1>3, <2>1
  <2>. QED  BY <1>1, <1>3, <2>2, Between
<1>. QED  BY <1>2, <1>4

\* Under the old rule it is not the effective date, the shortest stub being a
\* day long.
LEMMA FirstTwentiethIs ==
  ASSUME Sound
  PROVE  /\ FirstTwentieth \in Date /\ self.effective <= FirstTwentieth
         /\ Month(FirstTwentieth) + TenorMonths \in Months
         /\ self.rule = "OldCDS" => self.effective < FirstTwentieth
<1>. DEFINE e == self.effective
           t == NextTwentieth(e, self.rule)
           u == NextTwentieth(t + 1, self.rule)
           m == Month(e)
           top == m + 2 * MainCycle + 1 + TenorMonths
<1>1. e \in Date /\ e \in Int /\ TenorMonths \in Nat /\ top \in Months
  BY EffectiveRoom, HasRoom
<1>2. m \in Months /\ m \in Int /\ MainCycle \in Nat \ {0} /\ StubDays \in Nat \ {0}
  BY <1>1, MonthType, DayAssumption
<1>. HIDE DEF m
<1>3. m + MainCycle \in Months
  <2>1. m + MainCycle \in Int /\ m <= m + MainCycle /\ m + MainCycle <= top
    BY <1>1, <1>2
  <2>. HIDE DEF top
  <2>. QED  BY <1>1, <1>2, <2>1, Between
<1>4. t \in Date /\ e <= t /\ Month(t) <= m + MainCycle /\ Month(t) \in Months
      /\ Month(t) \in Int /\ t \in Int
  <2>1. t \in Date /\ e <= t /\ Month(t) <= m + MainCycle
    <3>. HIDE DEF e
    <3>. QED  BY <1>1, <1>3, NextTwentiethIs DEF m
  <2>. HIDE DEF t
  <2>. QED  BY <2>1, MonthType
<1>. HIDE DEF t
<1>5. Month(t) + 1 \in Months
  <2>1. Month(t) + 1 \in Int /\ Month(t) <= Month(t) + 1 /\ Month(t) + 1 <= top
    BY <1>1, <1>2, <1>4
  <2>. HIDE DEF top
  <2>. QED  BY <1>1, <1>4, <2>1, Between
<1>6. /\ t + 1 \in Date /\ Month(t + 1) <= Month(t) + 1
      /\ Month(t + 1) \in Int /\ Month(t + 1) \in Months
  BY <1>4, <1>5, DayAfter, MonthType
<1>7. Month(t + 1) + MainCycle \in Months
  <2>1. /\ Month(t + 1) + MainCycle \in Int /\ Month(t + 1) <= Month(t + 1) + MainCycle
        /\ Month(t + 1) + MainCycle <= top
    BY <1>1, <1>2, <1>4, <1>6
  <2>. HIDE DEF top
  <2>. QED  BY <1>1, <1>6, <2>1, Between
<1>8. u \in Date /\ t + 1 <= u /\ Month(u) <= Month(t + 1) + MainCycle
  BY <1>6, <1>7, NextTwentiethIs
<1>9. u \in Int /\ Month(u) \in Int /\ Month(u) \in Months
  <2>. HIDE DEF u
  <2>. QED  BY <1>8, MonthType
<1>. HIDE DEF u
<1>. DEFINE f == FirstTwentieth
<1>10. f = IF self.rule = "OldCDS" /\ t - e < StubDays THEN u ELSE t
  BY DEF FirstTwentieth, t, u
<1>11. /\ f \in Date /\ e <= f /\ Month(f) \in Months /\ Month(f) \in Int
       /\ Month(f) <= m + 2 * MainCycle + 1
  <2>. HIDE DEF f, e
  <2>1. e <= u /\ Month(u) <= m + 2 * MainCycle + 1 /\ Month(t) <= m + 2 * MainCycle + 1
    BY <1>1, <1>2, <1>4, <1>6, <1>8, <1>9
  <2>. QED  BY <1>4, <1>8, <1>9, <1>10, <2>1
<1>12. self.rule = "OldCDS" => e < f
  <2>1. e < u
    <3>. HIDE DEF e
    <3>. QED  BY <1>1, <1>4, <1>8, <1>9
  <2>2. t - e >= StubDays => e < t
    <3>. HIDE DEF e
    <3>. QED  BY <1>1, <1>2, <1>4
  <2>. HIDE DEF f, e
  <2>. QED  BY <1>1, <1>2, <1>4, <1>10, <2>1, <2>2
<1>13. Month(f) + TenorMonths \in Months
  <2>. HIDE DEF f
  <2>1. /\ Month(f) + TenorMonths \in Int /\ Month(f) <= Month(f) + TenorMonths
        /\ Month(f) + TenorMonths <= top
    BY <1>1, <1>2, <1>11
  <2>. HIDE DEF top
  <2>. QED  BY <1>1, <1>11, <2>1, Between
<1>. QED  BY <1>11, <1>12, <1>13

-----------------------------------------------------------------------------
(***************************************************************************)
(* Schedules under construction                                            *)
(***************************************************************************)

Legs ==
  {s \in [dates : Seq(Date), isRegular : Seq(BOOLEAN)] :
     Len(s.dates) = Len(s.isRegular) + 1}

LEMMA LegsAre ==
  ASSUME NEW s \in Legs
  PROVE  /\ s.dates \in Seq(Date) /\ s.isRegular \in Seq(BOOLEAN)
         /\ Len(s.dates) \in Nat \ {0} /\ Len(s.isRegular) \in Nat
         /\ Len(s.dates) = Len(s.isRegular) + 1
         /\ \A i \in 1 .. Len(s.dates) : s.dates[i] \in Date /\ s.dates[i] \in Int
         /\ First(s.dates) = s.dates[1] /\ First(s.dates) \in Date
         /\ Last(s.dates) = s.dates[Len(s.dates)] /\ Last(s.dates) \in Date
<1>1. /\ s.dates \in Seq(Date) /\ s.isRegular \in Seq(BOOLEAN)
      /\ Len(s.dates) = Len(s.isRegular) + 1
  BY DEF Legs
<1>2. Len(s.dates) \in Nat \ {0} /\ Len(s.isRegular) \in Nat
  BY <1>1
<1>3. \A i \in 1 .. Len(s.dates) : s.dates[i] \in Date
  BY <1>1
<1>4. 1 \in 1 .. Len(s.dates) /\ Len(s.dates) \in 1 .. Len(s.dates)
  BY <1>2
<1>5. \A i \in 1 .. Len(s.dates) : s.dates[i] \in Date /\ s.dates[i] \in Int
  BY <1>3, StartsType
<1>. QED  BY <1>1, <1>2, <1>4, <1>5 DEF First, Last

LEMMA IsLegs ==
  ASSUME NEW ds \in Seq(Date), NEW flags \in Seq(BOOLEAN), Len(ds) = Len(flags) + 1
  PROVE  [dates |-> ds, isRegular |-> flags] \in Legs
BY DEF Legs

\* t is s with the date d, and a flag, at its front, or at its back.
PushedFront(s, d, flag, t) ==
  /\ t \in Legs
  /\ Len(t.dates) = Len(s.dates) + 1 /\ Len(t.isRegular) = Len(s.isRegular) + 1
  /\ t.dates[1] = d /\ t.isRegular[1] = flag
  /\ \A i \in 1 .. Len(s.dates) : t.dates[i + 1] = s.dates[i]
  /\ \A i \in 1 .. Len(s.isRegular) : t.isRegular[i + 1] = s.isRegular[i]

PushedBack(s, d, flag, t) ==
  /\ t \in Legs
  /\ Len(t.dates) = Len(s.dates) + 1 /\ Len(t.isRegular) = Len(s.isRegular) + 1
  /\ t.dates[Len(t.dates)] = d /\ t.isRegular[Len(t.isRegular)] = flag
  /\ \A i \in 1 .. Len(s.dates) : t.dates[i] = s.dates[i]
  /\ \A i \in 1 .. Len(s.isRegular) : t.isRegular[i] = s.isRegular[i]

LEMMA PushFrontIs ==
  ASSUME NEW s \in Legs, NEW d \in Date, NEW flag \in BOOLEAN
  PROVE  PushedFront(s, d, flag, PushFront(s, d, flag))
<1>. DEFINE ds == <<d>> \o s.dates
           fs == <<flag>> \o s.isRegular
<1>0. /\ s.dates \in Seq(Date) /\ s.isRegular \in Seq(BOOLEAN)
      /\ Len(s.dates) \in Nat /\ Len(s.isRegular) \in Nat
      /\ Len(s.dates) = Len(s.isRegular) + 1
  BY LegsAre
<1>1. ds \in Seq(Date) /\ Len(ds) = Len(s.dates) + 1 /\ ds[1] = d
      /\ \A i \in 1 .. Len(s.dates) : ds[i + 1] = s.dates[i]
  BY <1>0
<1>2. fs \in Seq(BOOLEAN) /\ Len(fs) = Len(s.isRegular) + 1 /\ fs[1] = flag
      /\ \A i \in 1 .. Len(s.isRegular) : fs[i + 1] = s.isRegular[i]
  BY <1>0
<1>3. PushFront(s, d, flag) = [dates |-> ds, isRegular |-> fs]
  BY DEF PushFront
<1>. HIDE DEF ds, fs
<1>4. [dates |-> ds, isRegular |-> fs] \in Legs
  BY <1>0, <1>1, <1>2, IsLegs
<1>. QED  BY <1>1, <1>2, <1>3, <1>4 DEF PushedFront

LEMMA PushBackIs ==
  ASSUME NEW s \in Legs, NEW d \in Date, NEW flag \in BOOLEAN
  PROVE  PushedBack(s, d, flag, PushBack(s, d, flag))
<1>. DEFINE ds == Append(s.dates, d)
           fs == Append(s.isRegular, flag)
<1>0. /\ s.dates \in Seq(Date) /\ s.isRegular \in Seq(BOOLEAN)
      /\ Len(s.dates) \in Nat /\ Len(s.isRegular) \in Nat
      /\ Len(s.dates) = Len(s.isRegular) + 1
  BY LegsAre
<1>1. ds \in Seq(Date) /\ Len(ds) = Len(s.dates) + 1 /\ ds[Len(s.dates) + 1] = d
      /\ \A i \in 1 .. Len(s.dates) : ds[i] = s.dates[i]
  BY <1>0
<1>2. fs \in Seq(BOOLEAN) /\ Len(fs) = Len(s.isRegular) + 1 /\ fs[Len(s.isRegular) + 1] = flag
      /\ \A i \in 1 .. Len(s.isRegular) : fs[i] = s.isRegular[i]
  BY <1>0
<1>3. PushBack(s, d, flag) = [dates |-> ds, isRegular |-> fs]
  BY DEF PushBack
<1>. HIDE DEF ds, fs
<1>4. [dates |-> ds, isRegular |-> fs] \in Legs
  BY <1>0, <1>1, <1>2, IsLegs
<1>. QED  BY <1>1, <1>2, <1>3, <1>4 DEF PushedBack

\* A single date
LEMMA StartIs ==
  ASSUME NEW d \in Date
  PROVE  LET t == [Nothing EXCEPT !.dates = <<d>>] IN
         /\ t \in Legs /\ t.dates = <<d>> /\ t.isRegular = <<>>
         /\ Len(t.dates) = 1 /\ t.dates[1] = d /\ Len(t.isRegular) = 0
<1>1. [Nothing EXCEPT !.dates = <<d>>] = [dates |-> <<d>>, isRegular |-> <<>>]
  BY DEF Nothing
<1>2. <<d>> \in Seq(Date) /\ <<>> \in Seq(BOOLEAN) /\ Len(<<d>>) = 1 /\ Len(<<>>) = 0
      /\ <<d>>[1] = d
  OBVIOUS
<1>3. [dates |-> <<d>>, isRegular |-> <<>>] \in Legs
  <2>1. Len(<<d>>) = Len(<<>>) + 1
    BY <1>2
  <2>. QED  BY <1>2, <2>1, IsLegs, Zenon
<1>. QED  BY <1>1, <1>2, <1>3

LEMMA PushUnlessSame ==
  ASSUME NEW s \in Legs, NEW d \in Date, NEW flag \in BOOLEAN
  PROVE  /\ PushFrontUnlessSame(s, d, flag) \in Legs
         /\ PushBackUnlessSame(s, d, flag) \in Legs
BY PushFrontIs, PushBackIs DEF PushedFront, PushedBack, PushFrontUnlessSame, PushBackUnlessSame

\* The ends of a request and what they give rise to
LEMMA NextTwentiethOfEnd ==
  ASSUME Sound
  PROVE  LET t == NextTwentieth(self.termination, self.rule)
         IN  t \in Date /\ self.termination <= t
<1>. DEFINE e == self.termination
           m == Month(e)
           top == m + 2 * MainCycle + 1 + TenorMonths
<1>1. e \in Date /\ TenorMonths \in Nat /\ top \in Months
  BY EffectiveRoom, HasRoom
<1>2. m \in Months /\ m \in Int /\ MainCycle \in Nat \ {0}
  BY <1>1, MonthType, DayAssumption
<1>. HIDE DEF m
<1>3. m + MainCycle \in Months
  <2>1. m + MainCycle \in Int /\ m <= m + MainCycle /\ m + MainCycle <= top
    BY <1>1, <1>2
  <2>. HIDE DEF top
  <2>. QED  BY <1>1, <1>2, <2>1, Between
<1>. HIDE DEF e
<1>4. NextTwentieth(e, self.rule) \in Date /\ e <= NextTwentieth(e, self.rule)
  BY <1>1, <1>3, NextTwentiethIs DEF m
<1>. QED  BY <1>4 DEF e

LEMMA CloseForwardType ==
  ASSUME Sound, NEW s \in Legs
  PROVE  CloseForward(s) \in Legs
BY EffectiveRoom, NextTwentiethOfEnd, PushBackIs DEF PushedBack, CloseForward

-----------------------------------------------------------------------------
(***************************************************************************)
(* Adjusting and repairing a schedule                                      *)
(***************************************************************************)

\* As long a sequence of dates
Alike(ds) == {es \in Seq(Date) : Len(es) = Len(ds)}

LEMMA MoveInner ==
  ASSUME NEW ds \in Seq(Date), NEW g \in [Date -> Date]
  PROVE  [i \in 1 .. Len(ds) |-> IF 1 < i /\ i < Len(ds) THEN g[ds[i]] ELSE ds[i]]
           \in Alike(ds)
<1>. DEFINE es == [i \in 1 .. Len(ds) |-> IF 1 < i /\ i < Len(ds) THEN g[ds[i]] ELSE ds[i]]
<1>1. \A i \in 1 .. Len(ds) : ds[i] \in Date
  OBVIOUS
<1>2. es \in [1 .. Len(ds) -> Date]
  BY <1>1
<1>3. es \in Seq(Date) /\ Len(es) = Len(ds)
  BY <1>2
<1>. QED  BY <1>3 DEF Alike

LEMMA MoveEnd ==
  ASSUME NEW ds \in Seq(Date), NEW i \in 1 .. Len(ds), NEW d \in Date
  PROVE  /\ [ds EXCEPT ![i] = d] \in Alike(ds)
         /\ [ds EXCEPT ![i] = d] \in Seq(Date) /\ Len([ds EXCEPT ![i] = d]) = Len(ds)
         /\ [ds EXCEPT ![i] = d][i] = d
         /\ \A j \in 1 .. Len(ds) : j # i => [ds EXCEPT ![i] = d][j] = ds[j]
BY DEF Alike

LEMMA MovesAreDates ==
  ASSUME self \in Arguments, NEW d \in Date
  PROVE  /\ OnWednesday(d) \in Date /\ EndOfMonth(d) \in Date /\ LastOfMonth(d) \in Date
         /\ Adjusted(d) \in Date /\ AdjustedEnd(d) \in Date
         /\ Adjusted(d) \in Int /\ AdjustedEnd(d) \in Int
<1>1. OnWednesday(d) \in Date
  BY MonthType, DayAssumption, FirstsAreDates DEF OnWednesday
<1>2. LastOfMonth(d) \in Date
  BY LastOfMonthIs
<1>3. EndOfMonth(d) \in Date
  BY <1>2, PrecedeIs DEF EndOfMonth, Business
<1>4. Adjusted(d) \in Date /\ AdjustedEnd(d) \in Date
  BY ArgumentTypes, AdjustType DEF Adjusted, AdjustedEnd
<1>. QED  BY <1>1, <1>2, <1>3, <1>4, StartsType

LEMMA OnWednesdaysType ==
  ASSUME self \in Arguments, NEW ds \in Seq(Date)
  PROVE  OnWednesdays(ds) \in Alike(ds)
<1>. DEFINE g == [d \in Date |-> OnWednesday(d)]
<1>1. g \in [Date -> Date]
  BY MovesAreDates
<1>2. Inner(ds, OnWednesday) =
        [i \in 1 .. Len(ds) |-> IF 1 < i /\ i < Len(ds) THEN g[ds[i]] ELSE ds[i]]
  <2>1. \A i \in 1 .. Len(ds) : ds[i] \in Date
    OBVIOUS
  <2>. QED  BY <2>1 DEF Inner
<1>3. Inner(ds, OnWednesday) \in Alike(ds)
  <2>. HIDE DEF g
  <2>. QED  BY <1>1, <1>2, MoveInner
<1>. QED  BY <1>3 DEF OnWednesdays, Alike

LEMMA ToEndOfMonthType ==
  ASSUME self \in Arguments, NEW ds \in Seq(Date), ds # <<>>
  PROVE  ToEndOfMonth(ds) \in Alike(ds)
<1>. DEFINE g == [d \in Date |-> EndOfMonth(d)]
           h == [d \in Date |-> LastOfMonth(d)]
           last == Inner(ds, LastOfMonth)
           end == Inner(ds, EndOfMonth)
<1>1. g \in [Date -> Date] /\ h \in [Date -> Date]
  BY MovesAreDates
<1>2. \A i \in 1 .. Len(ds) : ds[i] \in Date
  OBVIOUS
<1>3. end = [i \in 1 .. Len(ds) |-> IF 1 < i /\ i < Len(ds) THEN g[ds[i]] ELSE ds[i]]
  BY <1>2 DEF Inner
<1>4. last = [i \in 1 .. Len(ds) |-> IF 1 < i /\ i < Len(ds) THEN h[ds[i]] ELSE ds[i]]
  BY <1>2 DEF Inner
<1>5. end \in Alike(ds) /\ last \in Alike(ds)
  <2>. HIDE DEF g, h, end, last
  <2>. QED  BY <1>1, <1>3, <1>4, MoveInner
<1>6. PICK inner \in {end, last} :
        ToEndOfMonth(ds) =
          IF self.terminationDateConvention # "Unadjusted"
          THEN Back(Front(inner, EndOfMonth), EndOfMonth)
          ELSE IF self.rule = "Backward" THEN Back(inner, LastOfMonth)
               ELSE Front(inner, LastOfMonth)
  BY DEF ToEndOfMonth
<1>. HIDE DEF end, last
<1>7. Len(ds) \in 1 .. Len(ds) /\ 1 \in 1 .. Len(ds)
  OBVIOUS
<1>8. ASSUME NEW es \in Alike(ds), NEW d \in Date
      PROVE  [es EXCEPT ![1] = d] \in Alike(ds) /\ [es EXCEPT ![Len(es)] = d] \in Alike(ds)
  <2>1. es \in Seq(Date) /\ Len(es) = Len(ds)
    BY DEF Alike
  <2>. QED  BY <1>7, <2>1, MoveEnd DEF Alike
<1>9. ASSUME NEW es \in Alike(ds)
      PROVE  /\ Front(es, EndOfMonth) \in Alike(ds) /\ Back(es, EndOfMonth) \in Alike(ds)
             /\ Front(es, LastOfMonth) \in Alike(ds) /\ Back(es, LastOfMonth) \in Alike(ds)
  <2>1. es[1] \in Date /\ es[Len(es)] \in Date
    <3>1. es \in Seq(Date) /\ Len(es) = Len(ds)
      BY DEF Alike
    <3>. QED  BY <1>7, <3>1
  <2>2. /\ EndOfMonth(es[1]) \in Date /\ EndOfMonth(es[Len(es)]) \in Date
        /\ LastOfMonth(es[1]) \in Date /\ LastOfMonth(es[Len(es)]) \in Date
    BY <2>1, MovesAreDates
  <2>. QED  BY <1>8, <2>2 DEF Front, Back
<1>. QED  BY <1>5, <1>6, <1>9

(***************************************************************************)
(* The dates of a schedule, adjusted: the first as the others unless the   *)
(* rule leaves it, the last as the convention of the termination date.     *)
(***************************************************************************)
LEMMA ToBusinessDaysIs ==
  ASSUME self \in Arguments, NEW ds \in Seq(Date), ds # <<>>
  PROVE  LET es == ToBusinessDays(ds)
             n  == Len(ds)
         IN  /\ es \in Alike(ds)
             /\ \A i \in 2 .. n - 1 : es[i] = Adjusted(ds[i])
             /\ n > 1 => es[1] = IF self.rule = "OldCDS" THEN ds[1] ELSE Adjusted(ds[1])
             /\ n > 1 => es[n] = AdjustedEnd(ds[n])
<1>. DEFINE n == Len(ds)
           front == IF self.rule = "OldCDS" THEN ds ELSE Front(ds, Adjusted)
           g == [d \in Date |-> Adjusted(d)]
           inner == Inner(front, Adjusted)
           es == Back(inner, AdjustedEnd)
<1>1. n \in Nat \ {0} /\ \A i \in 1 .. n : ds[i] \in Date
  OBVIOUS
<1>2. 1 \in 1 .. n /\ n \in 1 .. n
  BY <1>1
<1>3. /\ front \in Seq(Date) /\ Len(front) = n
      /\ front[1] = IF self.rule = "OldCDS" THEN ds[1] ELSE Adjusted(ds[1])
      /\ \A i \in 2 .. n : front[i] = ds[i]
  <2>1. Adjusted(ds[1]) \in Date
    BY <1>1, <1>2, MovesAreDates
  <2>2. CASE self.rule = "OldCDS"
    BY <2>2
  <2>3. CASE self.rule # "OldCDS"
    <3>1. front = [ds EXCEPT ![1] = Adjusted(ds[1])]
      BY <2>3 DEF Front
    <3>2. /\ front \in Seq(Date) /\ Len(front) = n /\ front[1] = Adjusted(ds[1])
          /\ \A j \in 1 .. n : j # 1 => front[j] = ds[j]
      <4>. HIDE DEF front
      <4>. QED  BY <1>2, <2>1, <3>1, MoveEnd
    <3>. HIDE DEF front
    <3>. QED  BY <1>1, <2>3, <3>2
  <2>. QED  BY <2>2, <2>3
<1>4. g \in [Date -> Date]
  BY MovesAreDates
<1>. HIDE DEF front
<1>5. \A i \in 1 .. n : front[i] \in Date
  BY <1>3
<1>6. inner = [i \in 1 .. n |-> IF 1 < i /\ i < n THEN g[front[i]] ELSE front[i]]
  BY <1>3, <1>5 DEF Inner
<1>7. inner \in Seq(Date) /\ Len(inner) = n
  <2>1. inner \in Alike(front)
    <3>. HIDE DEF g, inner
    <3>. QED  BY <1>3, <1>4, <1>6, MoveInner
  <2>. QED  BY <1>3, <2>1 DEF Alike
<1>8. /\ \A i \in 2 .. n - 1 : inner[i] = Adjusted(ds[i])
      /\ inner[1] = front[1] /\ inner[n] = front[n]
  BY <1>1, <1>2, <1>3, <1>5, <1>6
<1>. HIDE DEF inner
<1>9. inner[n] \in Date /\ AdjustedEnd(inner[n]) \in Date
  BY <1>2, <1>7, MovesAreDates
<1>10. es = [inner EXCEPT ![n] = AdjustedEnd(inner[n])]
  BY <1>7 DEF Back
<1>11. /\ es \in Seq(Date) /\ Len(es) = n
       /\ es[n] = AdjustedEnd(inner[n])
       /\ \A i \in 1 .. n - 1 : es[i] = inner[i]
  <2>1. /\ es \in Seq(Date) /\ Len(es) = n /\ es[n] = AdjustedEnd(inner[n])
        /\ \A j \in 1 .. n : j # n => es[j] = inner[j]
    <3>. HIDE DEF es
    <3>. QED  BY <1>2, <1>7, <1>9, <1>10, MoveEnd
  <2>. HIDE DEF es
  <2>. QED  BY <1>1, <2>1
<1>12. es = ToBusinessDays(ds)
  BY DEF ToBusinessDays, front, inner
<1>. HIDE DEF es
<1>13. n > 1 => front[n] = ds[n] /\ 1 \in 1 .. n - 1
  BY <1>1, <1>3
<1>14. \A i \in 2 .. n - 1 : es[i] = Adjusted(ds[i])
  BY <1>1, <1>8, <1>11
<1>. QED  BY <1>3, <1>8, <1>11, <1>12, <1>13, <1>14 DEF Alike

LEMMA Cut ==
  ASSUME NEW S, NEW s \in Seq(S), NEW m \in 1 .. Len(s) + 1, NEW n \in 0 .. Len(s),
         m <= n + 1
  PROVE  /\ SubSeq(s, m, n) \in Seq(S) /\ Len(SubSeq(s, m, n)) = n - m + 1
         /\ \A i \in 1 .. n - m + 1 : SubSeq(s, m, n)[i] = s[m + i - 1]
<1>1. \A i \in m .. n : s[i] \in S
  BY ElementOfSeq
<1>. QED  BY <1>1, SubSeqProperties

LEMMA TrimBackIs ==
  ASSUME NEW s \in Legs
  PROVE  LET n == Len(s.dates)
             t == TrimBack(s)
         IN  /\ t \in Legs
             /\ n >= 2 /\ s.dates[n - 1] >= s.dates[n] =>
                  /\ Len(t.dates) = n - 1
                  /\ \A i \in 1 .. n - 2 : t.dates[i] = s.dates[i]
                  /\ t.dates[n - 1] = s.dates[n]
             /\ ~(n >= 2 /\ s.dates[n - 1] >= s.dates[n]) => t = s
<1>. DEFINE n == Len(s.dates)
           t == TrimBack(s)
           front == SubSeq(s.dates, 1, n - 2)
           ds == Append(front, s.dates[n])
           fs == SubSeq(s.isRegular, 1, n - 2)
<1>1. SUFFICES ASSUME n >= 2, s.dates[n - 1] >= s.dates[n]
               PROVE  /\ t \in Legs /\ Len(t.dates) = n - 1
                      /\ \A i \in 1 .. n - 2 : t.dates[i] = s.dates[i]
                      /\ t.dates[n - 1] = s.dates[n]
  BY DEF TrimBack
<1>2. /\ s.dates \in Seq(Date) /\ s.isRegular \in Seq(BOOLEAN)
      /\ n \in Nat /\ Len(s.isRegular) = n - 1 /\ s.dates[n] \in Date
  BY <1>1, LegsAre
<1>3. front \in Seq(Date) /\ Len(front) = n - 2
      /\ \A i \in 1 .. n - 2 : front[i] = s.dates[i]
  <2>1. 1 \in 1 .. n + 1 /\ n - 2 \in 0 .. n /\ 1 <= n - 2 + 1 /\ n - 2 - 1 + 1 = n - 2
    BY <1>1, <1>2
  <2>2. \A i \in 1 .. n - 2 : 1 + i - 1 = i
    BY <1>2
  <2>. HIDE DEF n
  <2>. QED  BY <1>2, <2>1, <2>2, Cut DEF n
<1>4. fs \in Seq(BOOLEAN) /\ Len(fs) = n - 2
  <2>1. /\ 1 \in 1 .. Len(s.isRegular) + 1 /\ n - 2 \in 0 .. Len(s.isRegular)
        /\ 1 <= n - 2 + 1 /\ n - 2 - 1 + 1 = n - 2
    BY <1>1, <1>2
  <2>. HIDE DEF n
  <2>. QED  BY <1>2, <2>1, Cut
<1>5. t = [dates |-> ds, isRegular |-> fs]
  BY <1>1 DEF TrimBack
<1>6. ds \in Seq(Date) /\ Len(ds) = n - 1 /\ ds[n - 1] = s.dates[n]
      /\ \A i \in 1 .. n - 2 : ds[i] = s.dates[i]
  <2>. HIDE DEF n, front
  <2>. QED  BY <1>1, <1>2, <1>3
<1>7. [dates |-> ds, isRegular |-> fs] \in Legs
  <2>. HIDE DEF ds, fs, n
  <2>. QED  BY <1>1, <1>2, <1>4, <1>6, IsLegs
<1>. HIDE DEF t, ds, fs
<1>. QED  BY <1>5, <1>6, <1>7

LEMMA TrimFrontIs ==
  ASSUME NEW s \in Legs
  PROVE  LET n == Len(s.dates)
             t == TrimFront(s)
         IN  /\ t \in Legs
             /\ n >= 2 /\ s.dates[2] <= s.dates[1] =>
                  /\ Len(t.dates) = n - 1
                  /\ t.dates[1] = s.dates[1]
                  /\ \A i \in 2 .. n - 1 : t.dates[i] = s.dates[i + 1]
             /\ ~(n >= 2 /\ s.dates[2] <= s.dates[1]) => t = s
<1>. DEFINE n == Len(s.dates)
           t == TrimFront(s)
           back == SubSeq(s.dates, 3, n)
           ds == <<s.dates[1]>> \o back
           fs == IF n = 2 THEN <<>>
                 ELSE [Tail(s.isRegular) EXCEPT ![1] = s.dates[2] = s.dates[1]]
<1>1. SUFFICES ASSUME n >= 2, s.dates[2] <= s.dates[1]
               PROVE  /\ t \in Legs /\ Len(t.dates) = n - 1
                      /\ t.dates[1] = s.dates[1]
                      /\ \A i \in 2 .. n - 1 : t.dates[i] = s.dates[i + 1]
  BY DEF TrimFront
<1>2. /\ s.dates \in Seq(Date) /\ s.isRegular \in Seq(BOOLEAN)
      /\ n \in Nat /\ Len(s.isRegular) = n - 1 /\ s.dates[1] \in Date
  BY <1>1, LegsAre
<1>3. back \in Seq(Date) /\ Len(back) = n - 2
      /\ \A i \in 1 .. n - 2 : back[i] = s.dates[i + 2]
  <2>1. 3 \in 1 .. n + 1 /\ n \in 0 .. n /\ 3 <= n + 1 /\ n - 3 + 1 = n - 2
    BY <1>1, <1>2
  <2>2. \A i \in 1 .. n - 2 : 3 + i - 1 = i + 2
    BY <1>2
  <2>. HIDE DEF n
  <2>. QED  BY <1>2, <2>1, <2>2, Cut DEF n
<1>4. fs \in Seq(BOOLEAN) /\ Len(fs) = n - 2
  <2>1. CASE n = 2
    BY <2>1
  <2>2. CASE n # 2
    <3>1. s.isRegular # <<>>
      BY <1>1, <1>2
    <3>2. Tail(s.isRegular) \in Seq(BOOLEAN) /\ Len(Tail(s.isRegular)) = n - 2
      <4>1. Tail(s.isRegular) \in Seq(BOOLEAN) /\ Len(Tail(s.isRegular)) = Len(s.isRegular) - 1
        BY <1>2, <3>1, HeadTailProperties
      <4>. HIDE DEF n
      <4>. QED  BY <1>2, <4>1
    <3>3. (s.dates[2] = s.dates[1]) \in BOOLEAN
      OBVIOUS
    <3>4. 1 \in 1 .. n - 2
      <4>. HIDE DEF n
      <4>. QED  BY <1>1, <1>2, <2>2
    <3>. HIDE DEF n
    <3>. QED  BY <2>2, <3>2, <3>3, <3>4
  <2>. QED  BY <2>1, <2>2
<1>5. t = [dates |-> ds, isRegular |-> fs]
  BY <1>1 DEF TrimFront
<1>6. ds \in Seq(Date) /\ Len(ds) = n - 1 /\ ds[1] = s.dates[1]
      /\ \A i \in 2 .. n - 1 : ds[i] = s.dates[i + 1]
  <2>1. ds \in Seq(Date) /\ Len(ds) = n - 1 /\ ds[1] = s.dates[1]
        /\ \A i \in 1 .. n - 2 : ds[i + 1] = back[i]
    <3>. HIDE DEF n, back
    <3>. QED  BY <1>1, <1>2, <1>3
  <2>2. ASSUME NEW i \in 2 .. n - 1 PROVE ds[i] = s.dates[i + 1]
    <3>1. i - 1 \in 1 .. n - 2 /\ i - 1 + 1 = i /\ i - 1 + 2 = i + 1
      BY <1>2
    <3>. HIDE DEF n, ds, back
    <3>. QED  BY <1>3, <2>1, <3>1
  <2>. QED  BY <2>1, <2>2
<1>7. [dates |-> ds, isRegular |-> fs] \in Legs
  <2>. HIDE DEF ds, fs, n
  <2>. QED  BY <1>1, <1>2, <1>4, <1>6, IsLegs
<1>. HIDE DEF t, ds, fs
<1>. QED  BY <1>5, <1>6, <1>7

\* Truncating keeps the dates up to the last one that is not too late.
LEMMA ShortenedIs ==
  ASSUME NEW s \in Legs, NEW t \in Int, First(s.dates) <= t
  PROVE  LET u == Shortened(s, t)
             n == Len(u.dates)
         IN  /\ u \in Legs /\ n <= Len(s.dates)
             /\ \A i \in 1 .. n : u.dates[i] = s.dates[i]
             /\ Last(u.dates) <= t
<1>. DEFINE top == Len(s.dates)
           Is(i) == s.dates[i] <= t /\ \A j \in i + 1 .. top : s.dates[j] > t
           T == {k \in Nat : k < top /\ s.dates[top - k] <= t}
           n == CHOOSE i \in 1 .. top : Is(i)
           ds == SubSeq(s.dates, 1, n)
           fs == SubSeq(s.isRegular, 1, n - 1)
<1>1. /\ s.dates \in Seq(Date) /\ s.isRegular \in Seq(BOOLEAN)
      /\ top \in Nat \ {0} /\ Len(s.isRegular) = top - 1
      /\ s.dates[1] <= t
  BY LegsAre
<1>2. \A i \in 1 .. top : s.dates[i] \in Int
  BY LegsAre
<1>. HIDE DEF top
<1>3. top - 1 \in T
  BY <1>1
<1>4. PICK k \in T : \A l \in T : k <= l
  <2>1. T \in SUBSET Nat
    OBVIOUS
  <2>. HIDE DEF T
  <2>. QED  BY <1>3, <2>1, Least
<1>5. top - k \in 1 .. top /\ Is(top - k)
  <2>1. top - k \in 1 .. top /\ s.dates[top - k] <= t
    BY <1>1
  <2>2. ASSUME NEW j \in (top - k) + 1 .. top PROVE s.dates[j] > t
    <3>1. top - j \in Nat /\ top - j < top /\ top - j < k /\ top - (top - j) = j /\ j \in 1 .. top
      BY <1>1, <2>1
    <3>2. top - j \notin T
      <4>1. k \in Nat
        OBVIOUS
      <4>. HIDE DEF T
      <4>. QED  BY <1>4, <3>1, <4>1
    <3>. QED  BY <1>2, <3>1, <3>2
  <2>. QED  BY <2>1, <2>2
<1>6. n \in 1 .. top /\ Is(n)
  <2>. HIDE DEF Is
  <2>. QED  BY <1>5
<1>. HIDE DEF n
<1>7. ds \in Seq(Date) /\ Len(ds) = n /\ \A i \in 1 .. n : ds[i] = s.dates[i]
  <2>1. 1 \in 1 .. top + 1 /\ n \in 0 .. top /\ 1 <= n + 1 /\ n - 1 + 1 = n
    BY <1>1, <1>6
  <2>2. \A i \in 1 .. n : 1 + i - 1 = i
    BY <1>6
  <2>. QED  BY <1>1, <2>1, <2>2, Cut DEF top
<1>8. fs \in Seq(BOOLEAN) /\ Len(fs) = n - 1
  <2>1. /\ 1 \in 1 .. Len(s.isRegular) + 1 /\ n - 1 \in 0 .. Len(s.isRegular)
        /\ 1 <= n - 1 + 1 /\ n - 1 - 1 + 1 = n - 1
    BY <1>1, <1>6
  <2>. QED  BY <1>1, <2>1, Cut
<1>9. Shortened(s, t) = [dates |-> ds, isRegular |-> fs]
  BY DEF Shortened, n, top
<1>. HIDE DEF ds, fs
<1>10. [dates |-> ds, isRegular |-> fs] \in Legs
  <2>1. Len(ds) = Len(fs) + 1
    BY <1>6, <1>7, <1>8
  <2>. QED  BY <1>7, <1>8, <2>1, IsLegs
<1>11. Last(ds) <= t
  <2>1. n \in 1 .. n
    BY <1>6
  <2>. QED  BY <1>6, <1>7, <2>1 DEF Last
<1>. QED  BY <1>6, <1>7, <1>9, <1>10, <1>11 DEF top

-----------------------------------------------------------------------------
(***************************************************************************)
(* Types                                                                   *)
(***************************************************************************)

Stages == {"check", "begin", "roll", "adjust", "repair", "built", "truncated", "refused"}

TypeInv ==
  /\ request \in Requests /\ self \in Arguments
  /\ stage \in Stages
  /\ stage \in {"begin", "roll", "adjust", "repair", "built"} => Sound
  /\ stage = "roll" => Rolling
  /\ stage \in {"check", "begin", "refused"} => legs = Nothing
  /\ stage \in {"roll", "adjust", "repair", "built", "truncated"} => legs \in Legs
  /\ seed \in Date \cup {NoDate}
  /\ periods \in Nat \ {0}
  /\ stage \in {"check", "begin"} => periods = 1

LEMMA TypeInit == Init => TypeInv
BY RoomAssumption DEF Init, TypeInv, Stages

LEMMA TypeImplied == TypeInv => TypeOK
<1>. SUFFICES ASSUME TypeInv PROVE TypeOK
  OBVIOUS
<1>1. legs \in Legs \/ legs = Nothing
  BY DEF TypeInv, Stages
<1>2. legs \in [dates : Seq(Date), isRegular : Seq(BOOLEAN)]
      /\ (legs.dates # <<>> => Len(legs.dates) = Len(legs.isRegular) + 1)
  <2>1. CASE legs \in Legs
    BY <2>1 DEF Legs
  <2>2. CASE legs = Nothing
    <3>1. <<>> \in Seq(Date) /\ <<>> \in Seq(BOOLEAN)
      OBVIOUS
    <3>2. Nothing.dates = <<>> /\ Nothing \in [dates : Seq(Date), isRegular : Seq(BOOLEAN)]
      BY <3>1, Zenon DEF Nothing
    <3>. QED  BY <2>2, <3>2
  <2>. QED  BY <1>1, <2>1, <2>2
<1>. QED  BY <1>2 DEF TypeInv, TypeOK, Stages

\* What is checked is what is sound.
LEMMA TypeCheck ==
  ASSUME TypeInv, Check
  PROVE  TypeInv'
<1>1. self' = Members(request) /\ request' = request /\ request \in Arguments
  BY RoomAssumption DEF TypeInv, Check
<1>2. self' \in Arguments
  BY <1>1, MembersAre
<1>3. stage' \in {"begin", "refused"} /\ (stage' = "begin" => Sound')
  BY <1>1 DEF Check, Sound, TypeInv
<1>. QED  BY <1>1, <1>2, <1>3 DEF TypeInv, Check, Stages

\* When rolling begins, a tenor from the seed can be looked at.
LEMMA TypeBegin ==
  ASSUME TypeInv, stage = "begin", self.rule # "Zero", UNCHANGED <<request, self, periods>>,
         stage' = "roll", legs' \in Legs, seed' \in Date,
         IF self.rule = "Backward" THEN Month(seed') - TenorMonths \in Months
         ELSE Month(seed') + TenorMonths \in Months
  PROVE  TypeInv'
<1>1. Sound /\ self \in Arguments /\ periods = 1
  BY DEF TypeInv
<1>2. request \in Arguments
  BY <1>1, RoomAssumption DEF Sound
<1>3. self.tenor.length > 0
  <2>1. /\ self.rule = IF request.tenor.length = 0 THEN "Zero" ELSE request.rule
        /\ self.tenor = request.tenor
    BY <1>1, <1>2, MembersAre DEF Sound
  <2>2. self.tenor.length # 0 /\ self.tenor.length >= 0 /\ self.tenor.length \in Int
    BY <1>1, <2>1, ArgumentTypes DEF Sound, Sane
  <2>. QED  BY <2>2
<1>4. /\ Month(seed') + TenorMonths \in Months => Reaches(seed', 1)
      /\ Month(seed') - TenorMonths \in Months => Reaches(seed', -1)
  BY <1>1, StartReached
<1>5. Reaches(seed', Way(1))
  BY <1>4 DEF Way
<1>6. Reaches(seed', Way(1)) = (Reaches(seed, Way(periods)))'
  BY <1>1 DEF Reaches, Way
<1>7. Sound'
  BY <1>1 DEF Sound
<1>8. Rolling'
  BY <1>1, <1>3, <1>5, <1>6, <1>7 DEF Rolling
<1>. QED  BY <1>1, <1>7, <1>8 DEF TypeInv, Stages

LEMMA TypeBeginZero ==
  ASSUME TypeInv, BeginZero
  PROVE  TypeInv'
<1>1. Sound /\ self \in Arguments
  BY DEF TypeInv, BeginZero
<1>2. self.effective \in Date /\ self.termination \in Date
  BY <1>1, EffectiveRoom
<1>3. legs' \in Legs
  <2>. DEFINE ds == <<self.effective, self.termination>>
  <2>1. ds \in Seq(Date) /\ <<TRUE>> \in Seq(BOOLEAN) /\ Len(ds) = 2 /\ Len(<<TRUE>>) = 1
    BY <1>2
  <2>2. Len(ds) = Len(<<TRUE>>) + 1
    BY <2>1
  <2>3. [dates |-> ds, isRegular |-> <<TRUE>>] \in Legs
    <3>. HIDE DEF ds
    <3>. QED  BY <2>1, <2>2, IsLegs
  <2>. QED  BY <2>3 DEF BeginZero
<1>4. Sound'
  BY <1>1 DEF Sound, BeginZero
<1>. QED  BY <1>1, <1>3, <1>4 DEF TypeInv, BeginZero, Stages

\* How rolling begins, backward: at the termination date or the next to last
LEMMA BeginBackwardIs ==
  ASSUME TypeInv, BeginBackward
  PROVE  /\ Sound /\ self \in Arguments
         /\ seed' \in Given(self) /\ seed' \in Date /\ legs' \in Legs
         /\ self.nextToLast = NoDate =>
              /\ seed' = self.termination
              /\ Len(legs'.dates) = 1 /\ legs'.dates[1] = self.termination
              /\ Len(legs'.isRegular) = 0
         /\ self.nextToLast # NoDate =>
              /\ seed' = self.nextToLast
              /\ Len(legs'.dates) = 2 /\ legs'.dates[1] = self.nextToLast
              /\ legs'.dates[2] = self.termination
              /\ legs'.isRegular[1] = (Advance(self.termination, -1) = self.nextToLast)
<1>. DEFINE start == [Nothing EXCEPT !.dates = <<self.termination>>]
           flag == (Advance(self.termination, -1) = self.nextToLast)
<1>1. Sound /\ self \in Arguments /\ self.termination \in Date /\ Given(self) \subseteq Date
  BY EffectiveRoom, ArgumentTypes DEF TypeInv, BeginBackward
<1>2. start \in Legs /\ start.dates = <<self.termination>> /\ start.isRegular = <<>>
      /\ Len(start.dates) = 1 /\ start.dates[1] = self.termination /\ Len(start.isRegular) = 0
  BY <1>1, StartIs
<1>3. /\ legs' = IF self.nextToLast = NoDate THEN start
                 ELSE PushFront(start, self.nextToLast, flag)
      /\ seed' = IF self.nextToLast = NoDate THEN self.termination ELSE self.nextToLast
  BY DEF BeginBackward
<1>4. seed' \in Given(self)
  BY <1>1, <1>3, ArgumentTypes DEF Given
<1>5. PICK b \in BOOLEAN : b = flag
  OBVIOUS
<1>. HIDE DEF start, flag
<1>6. CASE self.nextToLast = NoDate
  BY <1>1, <1>2, <1>3, <1>4, <1>6
<1>7. CASE self.nextToLast # NoDate
  <2>. DEFINE t == PushFront(start, self.nextToLast, b)
  <2>1. self.nextToLast \in Date
    BY <1>1, <1>3, <1>4, <1>7
  <2>2. PushedFront(start, self.nextToLast, b, t)
    BY <1>2, <2>1, PushFrontIs
  <2>3. legs' = t
    BY <1>3, <1>5, <1>7
  <2>. HIDE DEF t
  <2>4. t.dates[1 + 1] = start.dates[1] /\ 1 + 1 = 2 /\ Len(t.dates) = 2
    BY <1>2, <2>2 DEF PushedFront
  <2>5. t \in Legs /\ t.dates[1] = self.nextToLast /\ t.isRegular[1] = b
    BY <2>2 DEF PushedFront
  <2>. QED  BY <1>1, <1>2, <1>3, <1>4, <1>5, <1>7, <2>1, <2>3, <2>4, <2>5 DEF flag
<1>. QED  BY <1>6, <1>7

LEMMA TypeBeginBackward ==
  ASSUME TypeInv, BeginBackward
  PROVE  TypeInv'
<1>1. /\ Sound /\ self \in Arguments
      /\ seed' \in Given(self) /\ seed' \in Date /\ legs' \in Legs
  BY BeginBackwardIs
<1>2. Month(seed') - TenorMonths \in Months
  BY <1>1, HasRoom
<1>. QED  BY <1>1, <1>2, TypeBegin DEF BeginBackward

\* How rolling begins, forward
LEMMA BeginForwardIs ==
  ASSUME TypeInv, BeginForward
  PROVE  /\ Sound /\ self \in Arguments
         /\ seed' \in Date /\ Month(seed') + TenorMonths \in Months
         /\ legs' \in Legs /\ legs'.dates[1] = From
         /\ \/ /\ seed' = From
               /\ Len(legs'.dates) = 1 /\ Len(legs'.isRegular) = 0
               /\ self.rule # "OldCDS"
            \/ /\ seed' = (IF Credit(self.rule) THEN FirstTwentieth ELSE self.first)
               /\ seed' \notin {NoDate, self.effective}
               /\ Len(legs'.dates) = 2 /\ legs'.dates[2] = seed'
               /\ Len(legs'.isRegular) = 1
               /\ legs'.isRegular[1] = (~Credit(self.rule) /\ seed' = Advance(From, 1))
<1>. DEFINE start == [Nothing EXCEPT !.dates = <<From>>]
           first == IF Credit(self.rule) THEN FirstTwentieth ELSE self.first
           none == first \in {NoDate, self.effective}
           flag == (~Credit(self.rule) /\ first = Advance(From, 1))
<1>1. Sound /\ self \in Arguments /\ Given(self) \subseteq Date /\ NoDate \notin Date
  BY EffectiveRoom, ArgumentTypes DEF TypeInv, BeginForward
<1>2. From \in Date /\ Month(From) + TenorMonths \in Months
  BY <1>1, FromIs
<1>3. start \in Legs /\ Len(start.dates) = 1 /\ start.dates[1] = From /\ Len(start.isRegular) = 0
  BY <1>2, StartIs
<1>4. /\ legs' = IF none THEN start ELSE PushBack(start, first, flag)
      /\ seed' = IF none THEN From ELSE first
  BY DEF BeginForward, From
<1>5. PICK b \in BOOLEAN : b = flag
  OBVIOUS
<1>6. first \in Date \cup {NoDate}
  BY <1>1, FirstTwentiethIs, ArgumentTypes
<1>7. first # NoDate => Month(first) + TenorMonths \in Months
  <2>1. CASE Credit(self.rule)
    BY <1>1, <2>1, FirstTwentiethIs
  <2>2. CASE ~Credit(self.rule) /\ first # NoDate
    <3>. DEFINE d == self.first
               top == Month(d) + 2 * MainCycle + 1 + TenorMonths
    <3>1. d \in Given(self)
      BY <2>2 DEF Given
    <3>2. d \in Date /\ TenorMonths \in Nat /\ top \in Months
      BY <1>1, <3>1, HasRoom
    <3>3. Month(d) \in Months /\ Month(d) \in Int /\ MainCycle \in Nat
      BY <3>2, MonthType, DayAssumption
    <3>4. /\ Month(d) + TenorMonths \in Int /\ Month(d) <= Month(d) + TenorMonths
          /\ Month(d) + TenorMonths <= top
      <4>. HIDE DEF d
      <4>. QED  BY <3>2, <3>3
    <3>5. Month(d) + TenorMonths \in Months
      <4>. HIDE DEF d, top
      <4>. QED  BY <3>2, <3>3, <3>4, Between
    <3>. QED  BY <2>2, <3>5
  <2>. QED  BY <2>1, <2>2
<1>8. self.rule = "OldCDS" => ~none
  <2>. SUFFICES ASSUME self.rule = "OldCDS" PROVE ~none
    OBVIOUS
  <2>1. Credit(self.rule) /\ FirstTwentieth \in Date /\ self.effective < FirstTwentieth
    BY <1>1, FirstTwentiethIs DEF Credit, Cycled
  <2>2. self.effective \in Int
    BY <1>1, EffectiveRoom
  <2>. QED  BY <1>1, <2>1, <2>2
<1>. HIDE DEF start, flag, first
<1>9. CASE none
  BY <1>1, <1>2, <1>3, <1>4, <1>8, <1>9
<1>10. CASE ~none
  <2>. DEFINE t == PushBack(start, first, b)
  <2>1. first \in Date
    BY <1>6, <1>10
  <2>2. PushedBack(start, first, b, t)
    BY <1>3, <2>1, PushBackIs
  <2>3. legs' = t /\ seed' = first
    BY <1>4, <1>5, <1>10
  <2>. HIDE DEF t
  <2>4. /\ t \in Legs /\ Len(t.dates) = 2 /\ Len(t.isRegular) = 1
        /\ t.dates[2] = first /\ t.isRegular[1] = b
    BY <1>3, <2>2 DEF PushedBack
  <2>5. t.dates[1] = From
    <3>1. 1 \in 1 .. Len(start.dates)
      BY <1>3
    <3>. QED  BY <1>3, <2>2, <3>1 DEF PushedBack
  <2>. QED  BY <1>1, <1>5, <1>7, <1>10, <2>1, <2>3, <2>4, <2>5 DEF flag, first
<1>. QED  BY <1>9, <1>10

LEMMA TypeBeginForward ==
  ASSUME TypeInv, BeginForward
  PROVE  TypeInv'
BY BeginForwardIs, TypeBegin DEF BeginForward

\* Where rolling ends
Exit ==
  IF self.rule = "Backward"
  THEN IF self.first = NoDate THEN self.effective ELSE self.first
  ELSE IF self.nextToLast = NoDate THEN self.termination ELSE self.nextToLast

LEMMA ExitIs ==
  ASSUME Sound
  PROVE  Exit \in Given(self) /\ Exit \in Date /\ Exit \in Int
<1>1. self \in Arguments /\ self.effective \in Given(self) /\ self.termination \in Given(self)
  BY EffectiveRoom
<1>2. Exit \in Given(self)
  BY <1>1 DEF Exit, Given
<1>. QED  BY <1>1, <1>2, ArgumentTypes, StartsType

LEMMA TypeRollBackward ==
  ASSUME TypeInv, RollBackward
  PROVE  TypeInv'
<1>. DEFINE temp == Advance(seed, -periods)
<1>1. Rolling /\ Sound /\ self.rule = "Backward" /\ legs \in Legs /\ temp >= Exit
  BY DEF TypeInv, RollBackward, Exit
<1>2. temp \in Date /\ Reaches(seed, -(periods + 1))
  BY <1>1, ExitIs, StaysBackward
<1>3. legs' \in Legs
  BY <1>1, <1>2, PushUnlessSame DEF RollBackward
<1>4. Sound' /\ (Reaches(seed, Way(periods)))' /\ periods + 1 \in Nat \ {0}
  BY <1>1, <1>2 DEF RollBackward, Sound, Rolling, Reaches, Way
<1>5. Rolling'
  BY <1>1, <1>4 DEF RollBackward, Rolling
<1>. QED  BY <1>1, <1>3, <1>4, <1>5 DEF TypeInv, RollBackward

LEMMA TypeRollForward ==
  ASSUME TypeInv, RollForward
  PROVE  TypeInv'
<1>. DEFINE temp == Advance(seed, periods)
<1>1. Rolling /\ Sound /\ self.rule # "Backward" /\ legs \in Legs /\ temp <= Exit
  BY DEF TypeInv, RollForward, Exit
<1>2. temp \in Date /\ Reaches(seed, periods + 1)
  BY <1>1, ExitIs, StaysForward
<1>3. legs' \in Legs
  BY <1>1, <1>2, PushUnlessSame DEF RollForward
<1>4. Sound' /\ (Reaches(seed, Way(periods)))' /\ periods + 1 \in Nat \ {0}
  BY <1>1, <1>2 DEF RollForward, Sound, Rolling, Reaches, Way
<1>5. Rolling'
  BY <1>1, <1>4 DEF RollForward, Rolling
<1>. QED  BY <1>1, <1>3, <1>4, <1>5 DEF TypeInv, RollForward

LEMMA TypeEndBackward ==
  ASSUME TypeInv, EndBackward
  PROVE  TypeInv'
<1>1. Sound /\ self \in Arguments /\ legs \in Legs /\ self.effective \in Date
  BY EffectiveRoom DEF TypeInv, EndBackward
<1>. DEFINE kept == IF self.first = NoDate THEN legs
                   ELSE PushFrontUnlessSame(legs, self.first, FALSE)
<1>2. kept \in Legs
  <2>1. self.first # NoDate => self.first \in Date
    BY <1>1, ArgumentTypes
  <2>. QED  BY <1>1, <2>1, PushUnlessSame
<1>3. legs' = PushFrontUnlessSame(kept, self.effective, FALSE)
  BY DEF EndBackward
<1>4. legs' \in Legs
  <2>. HIDE DEF kept
  <2>. QED  BY <1>1, <1>2, <1>3, PushUnlessSame
<1>5. Sound'
  BY <1>1 DEF EndBackward, Sound
<1>. QED  BY <1>1, <1>4, <1>5 DEF TypeInv, EndBackward, Stages

LEMMA TypeEndForward ==
  ASSUME TypeInv, EndForward
  PROVE  TypeInv'
<1>1. Sound /\ self \in Arguments /\ legs \in Legs
  BY DEF TypeInv, EndForward
<1>. DEFINE kept == IF self.nextToLast = NoDate THEN legs
                   ELSE PushBackUnlessSame(legs, self.nextToLast, FALSE)
<1>2. kept \in Legs
  <2>1. self.nextToLast # NoDate => self.nextToLast \in Date
    BY <1>1, ArgumentTypes
  <2>. QED  BY <1>1, <2>1, PushUnlessSame
<1>3. legs' = CloseForward(kept)
  BY DEF EndForward
<1>4. legs' \in Legs
  <2>. HIDE DEF kept
  <2>. QED  BY <1>1, <1>2, <1>3, CloseForwardType
<1>5. Sound'
  BY <1>1 DEF EndForward, Sound
<1>. QED  BY <1>1, <1>4, <1>5 DEF TypeInv, EndForward, Stages

LEMMA TypeAdjustDates ==
  ASSUME TypeInv, AdjustDates
  PROVE  TypeInv'
<1>1. Sound /\ self \in Arguments /\ legs \in Legs
  BY DEF TypeInv, AdjustDates
<1>2. legs.dates \in Seq(Date) /\ Len(legs.dates) \in Nat \ {0}
  BY <1>1, LegsAre
<1>. DEFINE ds == OnWednesdays(legs.dates)
           es == IF self.endOfMonth /\ IsEndOfMonth(seed) THEN ToEndOfMonth(ds)
                 ELSE ToBusinessDays(ds)
<1>3. ds \in Seq(Date) /\ Len(ds) = Len(legs.dates)
  BY <1>1, <1>2, OnWednesdaysType DEF Alike
<1>4. es \in Seq(Date) /\ Len(es) = Len(ds)
  <2>. HIDE DEF ds
  <2>1. ds # <<>>
    BY <1>2, <1>3
  <2>2. ToEndOfMonth(ds) \in Alike(ds) /\ ToBusinessDays(ds) \in Alike(ds)
    BY <1>1, <1>3, <2>1, ToEndOfMonthType, ToBusinessDaysIs
  <2>. QED  BY <2>2 DEF Alike
<1>5. legs' = [legs EXCEPT !.dates = es]
  BY DEF AdjustDates
<1>6. legs' \in Legs
  <2>. HIDE DEF ds, es
  <2>. QED  BY <1>1, <1>3, <1>4, <1>5 DEF Legs
<1>7. Sound'
  BY <1>1 DEF AdjustDates, Sound
<1>. QED  BY <1>1, <1>6, <1>7 DEF TypeInv, AdjustDates, Stages

LEMMA TypeRepair ==
  ASSUME TypeInv, Repair
  PROVE  TypeInv'
<1>1. Sound /\ legs \in Legs
  BY DEF TypeInv, Repair
<1>2. TrimBack(legs) \in Legs
  BY <1>1, TrimBackIs
<1>3. TrimFront(TrimBack(legs)) \in Legs
  BY <1>2, TrimFrontIs
<1>4. Sound'
  BY <1>1 DEF Repair, Sound
<1>. QED  BY <1>1, <1>3, <1>4 DEF TypeInv, Repair, Stages

LEMMA TypeUntil ==
  ASSUME TypeInv, NEW t \in Truncation, Until(t)
  PROVE  TypeInv'
<1>. DEFINE kept == Shortened(legs, t)
<1>1. legs \in Legs /\ self \in Arguments /\ t \in Date /\ t \in Int
  BY RoomAssumption, StartsType DEF TypeInv, Until
<1>2. First(legs.dates) \in Date /\ First(legs.dates) \in Int
  BY <1>1, LegsAre, StartsType
<1>3. kept \in Legs
  <2>1. First(legs.dates) <= t
    BY <1>1, <1>2 DEF Until
  <2>. QED  BY <1>1, <2>1, ShortenedIs
<1>4. legs' = IF Last(kept.dates) = t THEN kept ELSE PushBack(kept, t, FALSE)
  BY DEF Until
<1>5. legs' \in Legs
  <2>. HIDE DEF kept
  <2>1. FALSE \in BOOLEAN
    OBVIOUS
  <2>2. PushBack(kept, t, FALSE) \in Legs
    BY <1>1, <1>3, <2>1, PushBackIs DEF PushedBack
  <2>. QED  BY <1>3, <1>4, <2>2
<1>6. self' \in Arguments
  <2>1. \A d : Before(d, t) \in {d, NoDate}
    BY DEF Before
  <2>2. PICK c \in {self.convention, "Unadjusted"} :
          self' = [self EXCEPT !.terminationDateConvention = c,
                               !.first = Before(@, t), !.nextToLast = Before(@, t)]
    BY DEF Until
  <2>. QED  BY <1>1, <2>1, <2>2 DEF Arguments, Convention
<1>. QED  BY <1>5, <1>6 DEF TypeInv, Until, Stages

LEMMA TypeNext ==
  ASSUME TypeInv, [Next]_vars
  PROVE  TypeInv'
<1>1. CASE Next
  BY <1>1, TypeCheck, TypeBeginZero, TypeBeginBackward, TypeBeginForward,
     TypeRollBackward, TypeEndBackward, TypeRollForward, TypeEndForward,
     TypeAdjustDates, TypeRepair, TypeUntil DEF Next
<1>2. CASE UNCHANGED vars
  BY <1>2 DEF vars, TypeInv, Sound, Rolling, Reaches, Way
<1>. QED  BY <1>1, <1>2

LEMMA TypeInvariant == Spec => []TypeInv
<1>1. TypeInv /\ [Next]_vars => TypeInv'
  BY TypeNext
<1>. QED  BY <1>1, TypeInit, PTL DEF Spec

(***************************************************************************)
(* The dates of a schedule, at every stage, are dates of the calendar, and *)
(* there is a flag for each period; none of the dates that the rules look  *)
(* at on the way is out of the calendar.                                   *)
(***************************************************************************)
THEOREM TypeCorrect == Spec => []TypeOK
BY TypeInvariant, TypeImplied, PTL

-----------------------------------------------------------------------------
(***************************************************************************)
(* The order of dates                                                      *)
(***************************************************************************)

LEMMA AdjustedIs ==
  ASSUME self \in Arguments, NEW d \in Date, NEW e \in Date
  PROVE  /\ Adjusted(d) \in Int /\ Adjusted(e) \in Int /\ d \in Int /\ e \in Int
         /\ d <= e => Adjusted(d) <= Adjusted(e)
         /\ Adjusted(d) < Adjusted(e) => d < e /\ Adjusted(d) <= e /\ d <= Adjusted(e)
BY MovesAreDates, ArgumentTypes, AdjustGrows, NotPassed, StartsType DEF Adjusted

LEMMA ReachesLess ==
  ASSUME Rolling
  PROVE  Reaches(seed, Way(periods - 1))
<1>. DEFINE len == self.tenor.length
           k == periods - 1
<1>1. self \in Arguments
  BY EffectiveRoom DEF Rolling
<1>2. len \in Nat /\ len > 0 /\ k \in Nat /\ k + 1 = periods
      /\ self.tenor.unit \in {"Days", "Months"}
  BY <1>1, ArgumentTypes DEF Rolling
<1>3. CASE self.tenor.unit = "Months"
  <2>. DEFINE m == Month(seed)
  <2>1. m \in Months /\ m \in Int
    BY MonthType DEF Rolling
  <2>2. m + Way(k + 1) * len \in Months
    BY <1>2, <1>3 DEF Rolling, Reaches
  <2>3. /\ (k + 1) * len = k * len + len /\ k * len \in Nat
        /\ (-k) * len = -(k * len) /\ (-(k + 1)) * len = -(k * len) - len
    <3>. HIDE DEF k, len
    <3>. QED  BY <1>2, NextReached
  <2>. DEFINE n == k * len
  <2>4. \/ Way(k + 1) * len = n + len /\ Way(k) * len = n
        \/ Way(k + 1) * len = -n - len /\ Way(k) * len = -n
    BY <2>3 DEF Way
  <2>5. n \in Nat
    BY <2>3
  <2>. DEFINE w == Way(k) * len
             v == Way(k + 1) * len
  <2>. HIDE DEF n, k, len, m, w, v
  <2>6. m + w \in Int /\ ((m <= m + w /\ m + w <= m + v) \/ (m + v <= m + w /\ m + w <= m))
    BY <1>2, <2>1, <2>4, <2>5 DEF w, v
  <2>7. m + w \in Months
    BY <2>1, <2>2, <2>6, Between DEF v
  <2>. QED  BY <2>7 DEF w, m, k, len, Reaches
<1>. QED  BY <1>2, <1>3 DEF Reaches

\* The last date at whole tenors from the seed that has been looked at
Latest == Multiple(periods - 1)

LEMMA LatestIs ==
  ASSUME Rolling
  PROVE  /\ self.rule = "Backward" => Advance(seed, -periods) < Latest
         /\ self.rule # "Backward" => Latest < Advance(seed, periods)
<1>0. Way(periods - 1) = IF self.rule = "Backward" THEN -(periods - 1) ELSE periods - 1
  BY DEF Way
<1>1. /\ self \in Arguments /\ self.tenor.length > 0 /\ seed \in Date
      /\ periods \in Int /\ -periods \in Int /\ periods - 1 \in Int /\ -(periods - 1) \in Int
      /\ -periods < -(periods - 1) /\ periods - 1 < periods
  BY EffectiveRoom DEF Rolling
<1>2. Reaches(seed, Way(periods)) /\ Reaches(seed, Way(periods - 1))
  BY ReachesLess DEF Rolling
<1>3. CASE self.rule = "Backward"
  <2>1. Reaches(seed, -periods) /\ Reaches(seed, -(periods - 1))
    BY <1>0, <1>2, <1>3 DEF Way
  <2>2. Advance(seed, -periods) < Advance(seed, -(periods - 1))
    BY <1>1, <2>1, AdvanceGrows
  <2>. QED  BY <1>3, <2>2 DEF Latest, Multiple
<1>4. CASE self.rule # "Backward"
  <2>1. Reaches(seed, periods) /\ Reaches(seed, periods - 1)
    BY <1>0, <1>2, <1>4 DEF Way
  <2>2. Advance(seed, periods - 1) < Advance(seed, periods)
    BY <1>1, <2>1, AdvanceGrows
  <2>. QED  BY <1>4, <2>2 DEF Latest, Multiple
<1>. QED  BY <1>3, <1>4

(***************************************************************************)
(* Rolled dates before adjustment.  Those that are compared when they are  *)
(* added differ after adjustment; a first or next-to-last date that was    *)
(* given is added without a comparison.                                    *)
(***************************************************************************)
Apart(ds, m, n) == \A i \in m .. n : Adjusted(ds[i - 1]) < Adjusted(ds[i])

BackShape(ds) ==
  LET n == Len(ds) IN
  /\ ds[n] = self.termination
  /\ Apart(ds, 2, n - 1)
  /\ n > 1 => Adjusted(ds[n - 1]) <= Adjusted(ds[n]) /\ ds[n - 1] < ds[n]

FrontShape(ds) ==
  LET n == Len(ds) IN
  /\ ds[1] = From
  /\ Apart(ds, 3, n)
  /\ n > 1 => Adjusted(ds[1]) <= Adjusted(ds[2]) /\ ds[1] < ds[2]
  /\ n > 2 => ds[n] <= Exit

BackShapeInv ==
  /\ BackShape(legs.dates)
  /\ Latest \in Date /\ Exit <= Latest
  /\ Adjusted(First(legs.dates)) = Adjusted(Latest)

FrontShapeInv ==
  /\ FrontShape(legs.dates)
  /\ Latest \in Date /\ (self.rule = "Forward" => Latest <= Exit)
  /\ Adjusted(Last(legs.dates)) = Adjusted(Latest)

LEMMA PushFrontShape ==
  ASSUME self \in Arguments, NEW s \in Legs, NEW d \in Date, NEW flag \in BOOLEAN,
         BackShape(s.dates), Adjusted(d) <= Adjusted(First(s.dates))
  PROVE  LET t == PushFrontUnlessSame(s, d, flag) IN
         /\ t \in Legs /\ BackShape(t.dates)
         /\ Adjusted(First(t.dates)) = Adjusted(d)
<1>. DEFINE t == PushFrontUnlessSame(s, d, flag)
           n == Len(s.dates)
<1>1. CASE Adjusted(First(s.dates)) = Adjusted(d)
  BY <1>1 DEF PushFrontUnlessSame
<1>2. CASE Adjusted(First(s.dates)) # Adjusted(d)
  <2>1. /\ n \in Nat \ {0} /\ First(s.dates) = s.dates[1]
        /\ \A i \in 1 .. n : s.dates[i] \in Date
    BY LegsAre
  <2>2. PushedFront(s, d, flag, t)
    BY <1>2, PushFrontIs DEF PushFrontUnlessSame
  <2>. HIDE DEF t, n
  <2>3. /\ t \in Legs /\ Len(t.dates) = n + 1 /\ t.dates[1] = d
        /\ \A i \in 1 .. n : t.dates[i + 1] = s.dates[i]
    BY <2>2 DEF PushedFront, n
  <2>4. /\ s.dates[n] = self.termination
        /\ \A i \in 2 .. n - 1 : Adjusted(s.dates[i - 1]) < Adjusted(s.dates[i])
        /\ n > 1 => Adjusted(s.dates[n - 1]) <= Adjusted(s.dates[n]) /\ s.dates[n - 1] < s.dates[n]
    BY DEF BackShape, Apart, n
  <2>5. Adjusted(d) < Adjusted(s.dates[1]) /\ d < s.dates[1]
    <3>1. s.dates[1] \in Date
      BY <2>1
    <3>. QED  BY <1>2, <2>1, <3>1, AdjustedIs
  <2>6. t.dates[n + 1] = self.termination
    BY <2>1, <2>3, <2>4
  <2>7. ASSUME NEW i \in 2 .. (n + 1) - 1 PROVE Adjusted(t.dates[i - 1]) < Adjusted(t.dates[i])
    <3>1. CASE i = 2
      <4>1. t.dates[1 + 1] = s.dates[1] /\ i - 1 = 1 /\ i = 1 + 1
        BY <2>1, <2>3, <3>1
      <4>. QED  BY <2>3, <2>5, <4>1
    <3>2. CASE i # 2
      <4>1. i - 2 \in 1 .. n /\ i - 1 \in 1 .. n /\ i - 1 \in 2 .. n - 1
            /\ i - 2 + 1 = i - 1 /\ i - 1 + 1 = i /\ i - 1 - 1 = i - 2
        BY <2>1, <3>2
      <4>2. t.dates[i - 1] = s.dates[i - 2] /\ t.dates[i] = s.dates[i - 1]
        BY <2>3, <4>1
      <4>3. Adjusted(s.dates[i - 1 - 1]) < Adjusted(s.dates[i - 1])
        BY <2>4, <4>1
      <4>. QED  BY <4>1, <4>2, <4>3
    <3>. QED  BY <3>1, <3>2
  <2>8. Adjusted(t.dates[n]) <= Adjusted(t.dates[n + 1]) /\ t.dates[n] < t.dates[n + 1]
    <3>1. t.dates[n + 1] = s.dates[n]
      BY <2>1, <2>3
    <3>2. CASE n = 1
      <4>1. Adjusted(d) \in Int /\ Adjusted(s.dates[1]) \in Int
        BY <2>1, MovesAreDates
      <4>. QED  BY <2>3, <2>5, <3>1, <3>2, <4>1
    <3>3. CASE n # 1
      <4>1. n - 1 \in 1 .. n /\ n - 1 + 1 = n /\ n > 1
        BY <2>1, <3>3
      <4>2. t.dates[n] = s.dates[n - 1]
        BY <2>3, <4>1
      <4>. QED  BY <2>4, <3>1, <4>1, <4>2
    <3>. QED  BY <3>2, <3>3
  <2>9. BackShape(t.dates)
    <3>1. Len(t.dates) - 1 = n
      BY <2>1, <2>3
    <3>. QED  BY <2>3, <2>6, <2>7, <2>8, <3>1 DEF BackShape, Apart
  <2>. QED  BY <2>3, <2>9 DEF First, t
<1>. QED  BY <1>1, <1>2

LEMMA PushBackShape ==
  ASSUME self \in Arguments, Exit \in Int, NEW s \in Legs, NEW d \in Date, NEW flag \in BOOLEAN,
         FrontShape(s.dates), Adjusted(Last(s.dates)) <= Adjusted(d), d <= Exit
  PROVE  LET t == PushBackUnlessSame(s, d, flag) IN
         /\ t \in Legs /\ FrontShape(t.dates)
         /\ Adjusted(Last(t.dates)) = Adjusted(d)
<1>. DEFINE t == PushBackUnlessSame(s, d, flag)
           n == Len(s.dates)
<1>1. CASE Adjusted(Last(s.dates)) = Adjusted(d)
  BY <1>1 DEF PushBackUnlessSame
<1>2. CASE Adjusted(Last(s.dates)) # Adjusted(d)
  <2>1. /\ n \in Nat \ {0} /\ Last(s.dates) = s.dates[n]
        /\ \A i \in 1 .. n : s.dates[i] \in Date
    BY LegsAre
  <2>2. PushedBack(s, d, flag, t)
    BY <1>2, PushBackIs DEF PushBackUnlessSame
  <2>. HIDE DEF t, n
  <2>3. /\ t \in Legs /\ Len(t.dates) = n + 1 /\ t.dates[n + 1] = d
        /\ \A i \in 1 .. n : t.dates[i] = s.dates[i]
    BY <2>2 DEF PushedBack, n
  <2>4. /\ s.dates[1] = From
        /\ \A i \in 3 .. n : Adjusted(s.dates[i - 1]) < Adjusted(s.dates[i])
        /\ n > 1 => Adjusted(s.dates[1]) <= Adjusted(s.dates[2]) /\ s.dates[1] < s.dates[2]
    BY DEF FrontShape, Apart, n
  <2>5. /\ Adjusted(s.dates[n]) < Adjusted(d) /\ s.dates[n] < d
        /\ Adjusted(s.dates[n]) \in Int /\ Adjusted(d) \in Int
    <3>1. s.dates[n] \in Date
      BY <2>1
    <3>. QED  BY <1>2, <2>1, <3>1, AdjustedIs
  <2>6. t.dates[1] = From
    BY <2>1, <2>3, <2>4
  <2>7. ASSUME NEW i \in 3 .. n + 1 PROVE Adjusted(t.dates[i - 1]) < Adjusted(t.dates[i])
    <3>1. CASE i = n + 1
      <4>1. i - 1 = n /\ n \in 1 .. n
        BY <2>1, <3>1
      <4>. QED  BY <2>3, <2>5, <3>1, <4>1
    <3>2. CASE i # n + 1
      <4>1. i \in 1 .. n /\ i - 1 \in 1 .. n /\ i \in 3 .. n
        BY <2>1, <3>2
      <4>. QED  BY <2>3, <2>4, <4>1
    <3>. QED  BY <3>1, <3>2
  <2>8. Adjusted(t.dates[1]) <= Adjusted(t.dates[2]) /\ t.dates[1] < t.dates[2]
    <3>1. t.dates[1] = s.dates[1]
      BY <2>1, <2>3
    <3>2. CASE n = 1
      <4>1. t.dates[2] = d
        BY <2>3, <3>2
      <4>. QED  BY <2>5, <3>1, <3>2, <4>1
    <3>3. CASE n # 1
      <4>1. 2 \in 1 .. n /\ n > 1
        BY <2>1, <3>3
      <4>2. t.dates[2] = s.dates[2]
        BY <2>3, <4>1
      <4>. QED  BY <2>4, <3>1, <4>1, <4>2
    <3>. QED  BY <3>2, <3>3
  <2>9. FrontShape(t.dates)
    BY <2>3, <2>6, <2>7, <2>8 DEF FrontShape, Apart
  <2>. QED  BY <2>3, <2>9 DEF Last, t
<1>. QED  BY <1>1, <1>2

\* The dates a schedule may end with, before adjustment
SelfEnds ==
  {self.termination} \cup
  (IF Credit(self.rule) THEN {NextTwentieth(self.termination, self.rule)} ELSE {})

LEMMA PlainIs ==
  ASSUME Sound, Plain
  PROVE  /\ ~self.endOfMonth /\ self.rule # "ThirdWednesday"
         /\ \A d \in {self.first, self.nextToLast} :
              d # NoDate => /\ self.rule \in {"Backward", "Forward"}
                            /\ self.effective < d /\ d < self.termination
         /\ self.first # NoDate /\ self.nextToLast # NoDate => self.first < self.nextToLast
         /\ SelfEnds \subseteq Ends
         /\ self.convention = request.convention
         /\ self.terminationDateConvention = request.terminationDateConvention
<1>1. request \in Arguments /\ self = Members(request)
  BY RoomAssumption DEF Sound
<1>2. /\ self.termination = request.termination /\ self.endOfMonth = request.endOfMonth
      /\ self.convention = request.convention
      /\ self.terminationDateConvention = request.terminationDateConvention
      /\ self.first \in {request.first, NoDate} /\ self.nextToLast \in {request.nextToLast, NoDate}
      /\ self.rule \in {request.rule, "Zero"}
  BY <1>1, MembersAre
<1>3. ~self.endOfMonth /\ self.rule # "ThirdWednesday"
  BY <1>2 DEF Plain
<1>4. \A d \in {self.first, self.nextToLast} :
        d # NoDate => /\ self.rule \in {"Backward", "Forward"}
                      /\ self.effective < d /\ d < self.termination
  BY <1>3 DEF Sound, Sane, Admissible
<1>5. self.first # NoDate /\ self.nextToLast # NoDate => self.first < self.nextToLast
  BY <1>2 DEF Plain, Ordered
<1>6. SelfEnds \subseteq Ends
  <2>1. CASE self.rule = request.rule
    BY <1>2, <2>1 DEF SelfEnds, Ends
  <2>2. CASE self.rule = "Zero"
    BY <1>2, <2>2 DEF SelfEnds, Ends, Credit, Cycled
  <2>. QED  BY <1>2, <2>1, <2>2
<1>. QED  BY <1>2, <1>3, <1>4, <1>5, <1>6

LEMMA SelfEndsAre ==
  ASSUME Sound, NEW x \in SelfEnds
  PROVE  x \in Date /\ self.termination <= x
BY EffectiveRoom, NextTwentiethOfEnd DEF SelfEnds

\* Latest is the seed when rolling begins.
LEMMA LatestBegins ==
  ASSUME self \in Arguments, UNCHANGED <<self, periods>>, periods = 1, seed' \in Date
  PROVE  Latest' = seed'
<1>1. Advance(seed', 0) = seed'
  BY AdvanceZero
<1>2. Advance(seed', 0) = Latest'
  BY DEF Latest, Multiple, Advance
<1>. QED  BY <1>1, <1>2

LEMMA BeginBackwardShape ==
  ASSUME TypeInv, Plain, BeginBackward
  PROVE  BackShapeInv'
<1>. DEFINE ds == legs'.dates
<1>1. /\ Sound /\ self \in Arguments /\ self.rule = "Backward" /\ periods = 1
      /\ seed' \in Date /\ legs' \in Legs
      /\ self.nextToLast = NoDate =>
           /\ seed' = self.termination /\ Len(ds) = 1 /\ ds[1] = self.termination
      /\ self.nextToLast # NoDate =>
           /\ seed' = self.nextToLast /\ Len(ds) = 2
           /\ ds[1] = self.nextToLast /\ ds[2] = self.termination
  BY BeginBackwardIs DEF BeginBackward, TypeInv
<1>2. /\ \A d \in {self.first, self.nextToLast} :
           d # NoDate => self.effective < d /\ d < self.termination
      /\ self.first # NoDate /\ self.nextToLast # NoDate => self.first < self.nextToLast
  BY <1>1, PlainIs
<1>3. /\ self.effective \in Int /\ self.termination \in Int /\ self.termination \in Date
      /\ self.effective < self.termination /\ Exit \in Int /\ seed' \in Int
      /\ self.first # NoDate => self.first \in Int
      /\ self.nextToLast # NoDate => self.nextToLast \in Date /\ self.nextToLast \in Int
  BY <1>1, EffectiveRoom, ExitIs, ArgumentTypes, StartsType
<1>4. Exit <= seed'
  BY <1>1, <1>2, <1>3 DEF Exit
<1>5. BackShape(ds)
  <2>1. CASE self.nextToLast = NoDate
    BY <1>1, <2>1 DEF BackShape, Apart
  <2>2. CASE self.nextToLast # NoDate
    <3>1. Adjusted(ds[1]) <= Adjusted(ds[2]) /\ ds[1] < ds[2]
      BY <1>1, <1>2, <1>3, <2>2, AdjustedIs
    <3>. QED  BY <1>1, <2>2, <3>1 DEF BackShape, Apart
  <2>. QED  BY <2>1, <2>2
<1>6. Latest' = seed'
  BY <1>1, LatestBegins DEF BeginBackward
<1>7. First(ds) = seed'
  BY <1>1 DEF First
<1>. QED
  <2>1. self' = self
    BY DEF BeginBackward
  <2>2. (BackShape(legs.dates))'
    BY <1>5, <2>1 DEF BackShape, Apart, Adjusted
  <2>3. (Exit <= Latest)' /\ Latest' \in Date
    BY <1>1, <1>4, <1>6, <2>1 DEF Exit
  <2>4. (Adjusted(First(legs.dates)) = Adjusted(Latest))'
    BY <1>6, <1>7
  <2>. QED  BY <2>2, <2>3, <2>4 DEF BackShapeInv

LEMMA RollBackwardShape ==
  ASSUME TypeInv, Plain, BackShapeInv, RollBackward
  PROVE  BackShapeInv'
<1>. DEFINE temp == Advance(seed, -periods)
<1>1. Rolling /\ Sound /\ self.rule = "Backward" /\ legs \in Legs /\ temp >= Exit
      /\ self \in Arguments
  BY DEF TypeInv, RollBackward, Exit
<1>2. temp \in Date
  BY <1>1, ExitIs, StaysBackward
<1>3. temp < Latest /\ Latest \in Date
  BY <1>1, LatestIs DEF BackShapeInv
<1>4. Adjusted(temp) <= Adjusted(First(legs.dates))
  <2>1. temp <= Latest
    <3>1. temp \in Int /\ Latest \in Int
      BY <1>2, <1>3, StartsType
    <3>. QED  BY <1>3, <3>1
  <2>2. Adjusted(temp) <= Adjusted(Latest)
    BY <1>1, <1>2, <1>3, <2>1, AdjustedIs
  <2>. QED  BY <2>2 DEF BackShapeInv
<1>5. /\ legs' = PushFrontUnlessSame(legs, temp, TRUE) /\ self' = self /\ seed' = seed
      /\ periods' = periods + 1
  BY DEF RollBackward
<1>6. BackShape(legs'.dates) /\ Adjusted(First(legs'.dates)) = Adjusted(temp)
  <2>. HIDE DEF temp
  <2>1. TRUE \in BOOLEAN
    OBVIOUS
  <2>. QED  BY <1>1, <1>2, <1>4, <1>5, <2>1, PushFrontShape DEF BackShapeInv
<1>7. Latest' = temp
  <2>1. periods' - 1 = periods
    BY <1>1, <1>5 DEF Rolling
  <2>. QED  BY <1>1, <1>5, <2>1 DEF Latest, Multiple, Advance
<1>8. (BackShape(legs.dates))'
  BY <1>5, <1>6 DEF BackShape, Apart, Adjusted
<1>9. (Exit <= Latest)' /\ Latest' \in Date
  <2>1. Exit <= temp
    BY <1>1, <1>2, ExitIs, StartsType
  <2>. QED  BY <1>2, <1>5, <1>7, <2>1 DEF Exit
<1>10. (Adjusted(First(legs.dates)) = Adjusted(Latest))'
  BY <1>5, <1>6, <1>7 DEF Adjusted
<1>. QED  BY <1>8, <1>9, <1>10 DEF BackShapeInv

(***************************************************************************)
(* The date that the rule starts from, as it comes to be in the schedule   *)
(***************************************************************************)
IsFront(ds) ==
  CASE self.rule = "OldCDS" -> ds[1] = self.effective
    [] self.rule = "CDS" ->
         Adjusted(ds[1]) = Adjusted(PreviousTwentieth(self.effective, "CDS"))
    [] OTHER -> Adjusted(ds[1]) = Adjusted(self.effective)

(***************************************************************************)
(* All dates before adjustment.  The last is as good as an end x, and no   *)
(* date before it but the first two passes that end.                       *)
(***************************************************************************)
Shape(ds) ==
  LET n == Len(ds) IN
  /\ IsFront(ds)
  /\ Apart(ds, 3, n - 1)
  /\ n > 2 => Adjusted(ds[1]) <= Adjusted(ds[2]) /\ ds[1] < ds[2]
  /\ \E x \in SelfEnds : /\ AdjustedEnd(ds[n]) = AdjustedEnd(x)
                         /\ n > 3 => ds[n - 1] < x

LEMMA EndBackwardShape ==
  ASSUME TypeInv, Plain, BackShapeInv, EndBackward
  PROVE  Shape(legs.dates)'
<1>1. /\ Sound /\ self \in Arguments /\ self.rule = "Backward" /\ legs \in Legs
      /\ Given(self) \subseteq Date /\ NoDate \notin Date
  BY ArgumentTypes DEF TypeInv, EndBackward
<1>2. /\ BackShape(legs.dates) /\ Latest \in Date /\ Exit <= Latest
      /\ Adjusted(First(legs.dates)) = Adjusted(Latest)
  BY DEF BackShapeInv
<1>3. /\ self.effective \in Date /\ self.effective \in Int /\ Exit \in Date /\ Exit \in Int
      /\ Latest \in Int
  BY <1>1, <1>2, EffectiveRoom, ExitIs, StartsType
<1>. DEFINE kept == IF self.first = NoDate THEN legs
                   ELSE PushFrontUnlessSame(legs, self.first, FALSE)
           last == PushFrontUnlessSame(kept, self.effective, FALSE)
<1>4. Adjusted(Exit) <= Adjusted(First(legs.dates))
  BY <1>1, <1>2, <1>3, AdjustedIs
<1>5. FALSE \in BOOLEAN
  OBVIOUS
<1>6. /\ kept \in Legs /\ BackShape(kept.dates)
      /\ Adjusted(self.effective) <= Adjusted(First(kept.dates))
  <2>1. CASE self.first = NoDate
    BY <1>1, <1>2, <1>4, <2>1 DEF Exit
  <2>2. CASE self.first # NoDate
    <3>1. Exit = self.first /\ self.effective < self.first
      BY <1>1, <2>2, PlainIs DEF Exit
    <3>2. /\ kept \in Legs /\ BackShape(kept.dates)
          /\ Adjusted(First(kept.dates)) = Adjusted(self.first)
      BY <1>1, <1>2, <1>3, <1>4, <1>5, <2>2, <3>1, PushFrontShape
    <3>3. Adjusted(self.effective) <= Adjusted(self.first)
      BY <1>1, <1>3, <3>1, AdjustedIs
    <3>. QED  BY <3>2, <3>3
  <2>. QED  BY <2>1, <2>2
<1>7. /\ last \in Legs /\ BackShape(last.dates)
      /\ Adjusted(First(last.dates)) = Adjusted(self.effective)
  <2>. HIDE DEF kept
  <2>. QED  BY <1>1, <1>3, <1>5, <1>6, PushFrontShape
<1>8. legs' = last /\ self' = self
  BY DEF EndBackward
<1>. DEFINE ds == last.dates
           n == Len(ds)
<1>. HIDE DEF last
<1>9. n \in Nat \ {0} /\ First(ds) = ds[1] /\ \A i \in 1 .. n : ds[i] \in Date
  BY <1>7, LegsAre
<1>. HIDE DEF ds, n
<1>10. /\ ds[n] = self.termination
       /\ \A i \in 2 .. n - 1 : Adjusted(ds[i - 1]) < Adjusted(ds[i])
       /\ n > 1 => Adjusted(ds[n - 1]) <= Adjusted(ds[n]) /\ ds[n - 1] < ds[n]
       /\ Adjusted(First(ds)) = Adjusted(self.effective)
  BY <1>7 DEF BackShape, Apart, ds, n
<1>11. IsFront(ds)
  BY <1>1, <1>9, <1>10 DEF IsFront
<1>12. Apart(ds, 3, n - 1)
  BY <1>9, <1>10 DEF Apart
<1>13. n > 2 => Adjusted(ds[1]) <= Adjusted(ds[2]) /\ ds[1] < ds[2]
  <2>. SUFFICES ASSUME n > 2 PROVE Adjusted(ds[1]) <= Adjusted(ds[2]) /\ ds[1] < ds[2]
    OBVIOUS
  <2>1. 2 \in 2 .. n - 1 /\ 2 - 1 = 1 /\ ds[1] \in Date /\ ds[2] \in Date
    BY <1>9
  <2>2. Adjusted(ds[1]) < Adjusted(ds[2])
    BY <1>10, <2>1
  <2>. QED  BY <1>1, <2>1, <2>2, AdjustedIs
<1>14. self.termination \in SelfEnds /\ AdjustedEnd(ds[n]) = AdjustedEnd(self.termination)
       /\ (n > 3 => ds[n - 1] < self.termination)
  BY <1>9, <1>10 DEF SelfEnds
<1>15. Shape(ds)
  BY <1>11, <1>12, <1>13, <1>14 DEF Shape, n
<1>. QED
  BY <1>8, <1>15 DEF Shape, IsFront, Apart, SelfEnds, Adjusted, AdjustedEnd, ds

LEMMA BeginForwardShape ==
  ASSUME TypeInv, Plain, BeginForward
  PROVE  FrontShapeInv'
<1>. DEFINE ds == legs'.dates
<1>1. /\ Sound /\ self \in Arguments /\ periods = 1 /\ seed' \in Date /\ legs' \in Legs
      /\ self.rule \notin {"Zero", "Backward"} /\ ds[1] = From
      /\ \/ seed' = From /\ Len(ds) = 1
         \/ /\ seed' = (IF Credit(self.rule) THEN FirstTwentieth ELSE self.first)
            /\ seed' \notin {NoDate, self.effective}
            /\ Len(ds) = 2 /\ ds[2] = seed'
  BY BeginForwardIs DEF BeginForward, TypeInv
<1>2. /\ \A d \in {self.first, self.nextToLast} :
           d # NoDate => self.effective < d /\ d < self.termination
      /\ self.first # NoDate /\ self.nextToLast # NoDate => self.first < self.nextToLast
      /\ self.rule # "ThirdWednesday"
  BY <1>1, PlainIs
<1>3. /\ self.effective \in Int /\ self.termination \in Int
      /\ self.effective < self.termination /\ Exit \in Int /\ seed' \in Int
      /\ self.first # NoDate => self.first \in Int
      /\ self.nextToLast # NoDate => self.nextToLast \in Int
      /\ From \in Date /\ From \in Int /\ From <= self.effective
  BY <1>1, EffectiveRoom, ExitIs, FromIs, ArgumentTypes, StartsType
<1>4. self.rule = "Forward" => seed' <= Exit
  <2>1. self.rule = "Forward" => From = self.effective /\ ~Credit(self.rule)
    BY DEF From, Credit, Cycled
  <2>. QED  BY <1>1, <1>2, <1>3, <2>1 DEF Exit
<1>5. Len(ds) = 2 => From < seed'
  <2>1. self.effective <= FirstTwentieth
    BY <1>1, FirstTwentiethIs
  <2>2. ~Credit(self.rule) => self.rule = "Forward"
    BY <1>1, <1>2, ArgumentTypes DEF Credit, Cycled, Rule
  <2>. QED  BY <1>1, <1>2, <1>3, <2>1, <2>2
<1>6. FrontShape(ds)
  <2>1. CASE Len(ds) = 1
    BY <1>1, <2>1 DEF FrontShape, Apart
  <2>2. CASE Len(ds) = 2
    <3>1. ds[2] = seed'
      BY <1>1, <2>2
    <3>2. Adjusted(ds[1]) <= Adjusted(ds[2]) /\ ds[1] < ds[2]
      BY <1>1, <1>3, <1>5, <2>2, <3>1, AdjustedIs
    <3>. QED  BY <1>1, <2>2, <3>2 DEF FrontShape, Apart
  <2>. QED  BY <1>1, <2>1, <2>2
<1>7. Latest' = seed'
  BY <1>1, LatestBegins DEF BeginForward
<1>8. Last(ds) = seed'
  BY <1>1 DEF Last
<1>. QED
  <2>1. self' = self
    BY DEF BeginForward
  <2>2. (FrontShape(legs.dates))'
    BY <1>6, <2>1 DEF FrontShape, Apart, Adjusted, From, Exit
  <2>3. (self.rule = "Forward" => Latest <= Exit)' /\ Latest' \in Date
    BY <1>1, <1>4, <1>7, <2>1 DEF Exit
  <2>4. (Adjusted(Last(legs.dates)) = Adjusted(Latest))'
    BY <1>7, <1>8
  <2>. QED  BY <2>2, <2>3, <2>4 DEF FrontShapeInv

LEMMA RollForwardShape ==
  ASSUME TypeInv, Plain, FrontShapeInv, RollForward
  PROVE  FrontShapeInv'
<1>. DEFINE temp == Advance(seed, periods)
<1>1. Rolling /\ Sound /\ self.rule # "Backward" /\ legs \in Legs /\ temp <= Exit
      /\ self \in Arguments
  BY DEF TypeInv, RollForward, Exit
<1>2. temp \in Date /\ Exit \in Int
  BY <1>1, ExitIs, StaysForward
<1>3. Latest < temp /\ Latest \in Date
  BY <1>1, LatestIs DEF FrontShapeInv
<1>4. Adjusted(Last(legs.dates)) <= Adjusted(temp)
  <2>1. Latest <= temp
    <3>1. temp \in Int /\ Latest \in Int
      BY <1>2, <1>3, StartsType
    <3>. QED  BY <1>3, <3>1
  <2>2. Adjusted(Latest) <= Adjusted(temp)
    BY <1>1, <1>2, <1>3, <2>1, AdjustedIs
  <2>. QED  BY <2>2 DEF FrontShapeInv
<1>5. /\ legs' = PushBackUnlessSame(legs, temp, TRUE) /\ self' = self /\ seed' = seed
      /\ periods' = periods + 1
  BY DEF RollForward
<1>6. FrontShape(legs'.dates) /\ Adjusted(Last(legs'.dates)) = Adjusted(temp)
  <2>. HIDE DEF temp
  <2>1. TRUE \in BOOLEAN
    OBVIOUS
  <2>. QED  BY <1>1, <1>2, <1>4, <1>5, <2>1, PushBackShape DEF FrontShapeInv
<1>7. Latest' = temp
  <2>1. periods' - 1 = periods
    BY <1>1, <1>5 DEF Rolling
  <2>. QED  BY <1>1, <1>5, <2>1 DEF Latest, Multiple, Advance
<1>8. (FrontShape(legs.dates))'
  BY <1>5, <1>6 DEF FrontShape, Apart, Adjusted, From, Exit
<1>9. (self.rule = "Forward" => Latest <= Exit)' /\ Latest' \in Date
  BY <1>1, <1>2, <1>5, <1>7 DEF Exit
<1>10. (Adjusted(Last(legs.dates)) = Adjusted(Latest))'
  BY <1>5, <1>6, <1>7 DEF Adjusted
<1>. QED  BY <1>8, <1>9, <1>10 DEF FrontShapeInv

LEMMA EndForwardShape ==
  ASSUME TypeInv, Plain, FrontShapeInv, EndForward
  PROVE  Shape(legs.dates)'
<1>1. /\ Sound /\ self \in Arguments /\ self.rule # "Backward" /\ legs \in Legs
      /\ NoDate \notin Date
  BY ArgumentTypes DEF TypeInv, EndForward
<1>2. /\ FrontShape(legs.dates) /\ Latest \in Date
      /\ self.rule = "Forward" => Latest <= Exit
      /\ Adjusted(Last(legs.dates)) = Adjusted(Latest)
  BY DEF FrontShapeInv
<1>3. /\ self.termination \in Date /\ self.termination \in Int /\ Exit \in Date /\ Exit \in Int
      /\ Latest \in Int /\ Exit <= self.termination
  <2>1. /\ self.termination \in Date /\ self.termination \in Int
        /\ Exit \in Date /\ Exit \in Int /\ Latest \in Int
    BY <1>1, <1>2, EffectiveRoom, ExitIs, StartsType
  <2>2. self.nextToLast # NoDate => self.nextToLast < self.termination
    BY <1>1, PlainIs
  <2>. QED  BY <1>1, <2>1, <2>2 DEF Exit
<1>. DEFINE kept == IF self.nextToLast = NoDate THEN legs
                   ELSE PushBackUnlessSame(legs, self.nextToLast, FALSE)
<1>4. FALSE \in BOOLEAN
  OBVIOUS
<1>5. kept \in Legs /\ FrontShape(kept.dates)
  <2>1. CASE self.nextToLast = NoDate
    BY <1>1, <1>2, <2>1
  <2>2. CASE self.nextToLast # NoDate
    <3>1. Exit = self.nextToLast /\ self.rule = "Forward"
      BY <1>1, <2>2, PlainIs DEF Exit
    <3>2. Adjusted(Last(legs.dates)) <= Adjusted(self.nextToLast)
      BY <1>1, <1>2, <1>3, <3>1, AdjustedIs
    <3>3. self.nextToLast \in Date /\ self.nextToLast <= Exit
      BY <1>3, <3>1
    <3>4. kept = PushBackUnlessSame(legs, self.nextToLast, FALSE)
      BY <2>2
    <3>. HIDE DEF kept
    <3>. QED  BY <1>1, <1>2, <1>3, <1>4, <3>2, <3>3, <3>4, PushBackShape
  <2>. QED  BY <2>1, <2>2
<1>6. legs' = CloseForward(kept) /\ self' = self
  BY DEF EndForward
<1>. HIDE DEF kept
<1>. DEFINE es == kept.dates
           m == Len(es)
<1>7. m \in Nat \ {0} /\ Last(es) = es[m] /\ \A i \in 1 .. m : es[i] \in Date /\ es[i] \in Int
  BY <1>5, LegsAre
<1>. HIDE DEF es, m
<1>8. /\ es[1] = From
      /\ \A i \in 3 .. m : Adjusted(es[i - 1]) < Adjusted(es[i])
      /\ m > 1 => Adjusted(es[1]) <= Adjusted(es[2]) /\ es[1] < es[2]
      /\ m > 2 => es[m] <= Exit
  BY <1>5 DEF FrontShape, Apart, es, m
<1>9. ASSUME NEW ds, ds[1] = From PROVE IsFront(ds)
  BY <1>9 DEF IsFront, From
<1>10. ASSUME NEW ds, Shape(ds), legs'.dates = ds PROVE Shape(legs.dates)'
  BY <1>6, <1>10 DEF Shape, IsFront, Apart, SelfEnds, Adjusted, AdjustedEnd
<1>11. CASE AdjustedEnd(es[m]) = AdjustedEnd(self.termination)
  <2>1. legs'.dates = es
    BY <1>6, <1>7, <1>11 DEF CloseForward, es
  <2>2. m > 3 => es[m - 1] < self.termination
    <3>. SUFFICES ASSUME m > 3 PROVE es[m - 1] < self.termination
      OBVIOUS
    <3>1. m \in 3 .. m /\ m - 1 \in 1 .. m /\ m \in 1 .. m
      BY <1>7
    <3>2. Adjusted(es[m - 1]) < Adjusted(es[m])
      BY <1>8, <3>1
    <3>3. es[m - 1] < es[m] /\ es[m] <= Exit /\ es[m] \in Int /\ es[m - 1] \in Int
      BY <1>1, <1>7, <1>8, <3>1, <3>2, AdjustedIs
    <3>. QED  BY <1>3, <3>3
  <2>3. Shape(es)
    <3>1. self.termination \in SelfEnds
      BY DEF SelfEnds
    <3>2. IsFront(es) /\ Apart(es, 3, m - 1)
      BY <1>7, <1>8, <1>9 DEF Apart
    <3>3. m > 2 => Adjusted(es[1]) <= Adjusted(es[2]) /\ es[1] < es[2]
      BY <1>7, <1>8
    <3>. QED  BY <1>11, <2>2, <3>1, <3>2, <3>3 DEF Shape, m
  <2>. QED  BY <1>10, <2>1, <2>3
<1>12. CASE AdjustedEnd(es[m]) # AdjustedEnd(self.termination)
  <2>1. PICK x \in SelfEnds : \E b \in BOOLEAN : legs' = PushBack(kept, x, b)
    BY <1>6, <1>7, <1>12 DEF CloseForward, SelfEnds, es
  <2>2. PICK b \in BOOLEAN : legs' = PushBack(kept, x, b)
    BY <2>1
  <2>3. x \in Date /\ x \in Int /\ self.termination <= x
    BY <1>1, SelfEndsAre, StartsType
  <2>. DEFINE ds == legs'.dates
             n == Len(ds)
  <2>4. PushedBack(kept, x, b, legs')
    BY <1>5, <2>2, <2>3, PushBackIs
  <2>5. n = m + 1 /\ ds[n] = x /\ \A i \in 1 .. m : ds[i] = es[i]
    BY <2>4 DEF PushedBack, es, m
  <2>. HIDE DEF ds, n
  <2>6. IsFront(ds)
    <3>1. ds[1] = From
      BY <1>7, <1>8, <2>5
    <3>. QED  BY <1>9, <3>1
  <2>7. Apart(ds, 3, n - 1)
    <3>. SUFFICES ASSUME NEW i \in 3 .. n - 1 PROVE Adjusted(ds[i - 1]) < Adjusted(ds[i])
      BY DEF Apart
    <3>1. i \in 3 .. m /\ i \in 1 .. m /\ i - 1 \in 1 .. m
      BY <1>7, <2>5
    <3>. QED  BY <1>8, <2>5, <3>1
  <2>8. n > 2 => Adjusted(ds[1]) <= Adjusted(ds[2]) /\ ds[1] < ds[2]
    <3>. SUFFICES ASSUME n > 2 PROVE Adjusted(ds[1]) <= Adjusted(ds[2]) /\ ds[1] < ds[2]
      OBVIOUS
    <3>1. m > 1 /\ 1 \in 1 .. m /\ 2 \in 1 .. m
      BY <1>7, <2>5
    <3>. QED  BY <1>8, <2>5, <3>1
  <2>9. n > 3 => ds[n - 1] < x
    <3>. SUFFICES ASSUME n > 3 PROVE ds[n - 1] < x
      OBVIOUS
    <3>1. n - 1 = m /\ m > 2 /\ m \in 1 .. m
      BY <1>7, <2>5
    <3>2. es[m] <= Exit /\ es[m] # self.termination /\ es[m] \in Int
      BY <1>7, <1>8, <1>12, <3>1
    <3>3. es[m] < x
      BY <1>3, <2>3, <3>2
    <3>. QED  BY <2>5, <3>1, <3>3
  <2>10. Shape(ds)
    BY <2>5, <2>6, <2>7, <2>8, <2>9 DEF Shape, n
  <2>. QED  BY <1>10, <2>10 DEF ds
<1>. QED  BY <1>11, <1>12

LEMMA BeginZeroShape ==
  ASSUME TypeInv, Plain, BeginZero
  PROVE  Shape(legs.dates)'
<1>. DEFINE ds == <<self.effective, self.termination>>
<1>1. legs'.dates = ds /\ self' = self /\ self.rule = "Zero"
  BY DEF BeginZero
<1>2. Len(ds) = 2 /\ ds[1] = self.effective /\ ds[2] = self.termination
  OBVIOUS
<1>. HIDE DEF ds
<1>3. IsFront(ds)
  BY <1>1, <1>2 DEF IsFront
<1>4. self.termination \in SelfEnds
  BY DEF SelfEnds
<1>5. Shape(ds)
  BY <1>2, <1>3, <1>4 DEF Shape, Apart
<1>. QED  BY <1>1, <1>5 DEF Shape, IsFront, Apart, SelfEnds, Adjusted, AdjustedEnd

-----------------------------------------------------------------------------
(***************************************************************************)
(* Adjusted dates                                                          *)
(***************************************************************************)

\* The date a schedule begins with
Begun(d) ==
  CASE self.rule = "OldCDS" -> d = self.effective
    [] self.rule = "CDS" -> d = Adjusted(PreviousTwentieth(self.effective, "CDS"))
    [] OTHER -> d = Adjusted(self.effective)

Ended(ds) ==
  Len(ds) > 1 => Begun(ds[1]) /\ \E x \in SelfEnds : ds[Len(ds)] = AdjustedEnd(x)

(***************************************************************************)
(* What the final checks can repair.  The dates between the ends increase; *)
(* if one of them has to go at either end, the end is in order with those  *)
(* that stay.                                                              *)
(***************************************************************************)
Repairable(ds) ==
  LET n == Len(ds) IN
  /\ \A i \in 3 .. n - 1 : ds[i - 1] < ds[i]
  /\ n > 3 => ds[n - 2] < ds[n]
  /\ \A i \in 3 .. n : ds[2] < ds[i] => ds[1] < ds[i]

\* The last date, adjusted, is past what comes before it, or in order with it.
LEMMA EndAheadIs ==
  ASSUME Sound, Plain, EndAhead, NEW x \in SelfEnds
  PROVE  /\ x \in Date /\ x \in Int /\ self.termination <= x /\ AdjustedEnd(x) \in Int
         /\ AdjustedEnd(x) >= x \/ AdjustedEnd(x) = Adjusted(x)
<1>1. x \in Date /\ self.termination <= x /\ self \in Arguments
  BY SelfEndsAre, EffectiveRoom
<1>2. AdjustedEnd(x) \in Int /\ x \in Int
  BY <1>1, MovesAreDates, StartsType
<1>3. AdjustedEnd(x) >= x \/ AdjustedEnd(x) = Adjusted(x)
  BY PlainIs DEF EndAhead, AdjustedEnd, Adjusted
<1>. QED  BY <1>1, <1>2, <1>3

LEMMA AdjustDatesIs ==
  ASSUME TypeInv, Plain, Shape(legs.dates), AdjustDates
  PROVE  LET ds == legs.dates
             es == legs'.dates
             n  == Len(ds)
         IN  /\ n \in Nat \ {0} /\ Len(es) = n /\ Sound /\ self \in Arguments
             /\ \A i \in 1 .. n : ds[i] \in Date /\ ds[i] \in Int
             /\ \A i \in 2 .. n - 1 : es[i] = Adjusted(ds[i])
             /\ n > 1 => es[1] = IF self.rule = "OldCDS" THEN ds[1] ELSE Adjusted(ds[1])
             /\ n > 1 => es[n] = AdjustedEnd(ds[n])
<1>1. Sound /\ self \in Arguments /\ legs \in Legs
  BY DEF TypeInv, AdjustDates
<1>2. /\ legs.dates \in Seq(Date) /\ Len(legs.dates) \in Nat \ {0}
      /\ \A i \in 1 .. Len(legs.dates) : legs.dates[i] \in Date /\ legs.dates[i] \in Int
  BY <1>1, LegsAre
<1>3. legs'.dates = ToBusinessDays(legs.dates)
  <2>1. ~self.endOfMonth /\ self.rule # "ThirdWednesday"
    BY <1>1, PlainIs
  <2>2. legs' = [legs EXCEPT !.dates = ToBusinessDays(legs.dates)]
    BY <2>1 DEF AdjustDates, OnWednesdays
  <2>. QED  BY <1>1, <2>2 DEF Legs
<1>4. legs.dates # <<>>
  BY <1>2
<1>5. ToBusinessDays(legs.dates) \in Alike(legs.dates)
  BY <1>1, <1>2, <1>4, ToBusinessDaysIs
<1>6. Len(legs'.dates) = Len(legs.dates)
  BY <1>3, <1>5 DEF Alike
<1>. QED  BY <1>1, <1>2, <1>3, <1>4, <1>6, ToBusinessDaysIs

LEMMA AdjustEnded ==
  ASSUME TypeInv, Plain, Shape(legs.dates), AdjustDates
  PROVE  Ended(legs.dates)'
<1>. DEFINE ds == legs.dates
           es == legs'.dates
           n  == Len(ds)
<1>1. /\ n \in Nat \ {0} /\ Len(es) = n /\ Sound /\ self \in Arguments
      /\ \A i \in 1 .. n : ds[i] \in Date
      /\ n > 1 => es[1] = IF self.rule = "OldCDS" THEN ds[1] ELSE Adjusted(ds[1])
      /\ n > 1 => es[n] = AdjustedEnd(ds[n])
  BY AdjustDatesIs
<1>2. IsFront(ds) /\ \E x \in SelfEnds : AdjustedEnd(ds[n]) = AdjustedEnd(x)
  BY DEF Shape
<1>3. self' = self
  BY DEF AdjustDates
<1>. HIDE DEF ds, es, n
<1>4. Begun(es[1]) \/ ~(n > 1)
  BY <1>1, <1>2 DEF IsFront, Begun
<1>5. Ended(es)
  BY <1>1, <1>2, <1>4 DEF Ended
<1>. QED  BY <1>3, <1>5 DEF Ended, Begun, SelfEnds, Adjusted, AdjustedEnd, es

LEMMA AdjustRepairable ==
  ASSUME TypeInv, Plain, EndAhead, Shape(legs.dates), AdjustDates
  PROVE  Repairable(legs'.dates)
<1>. DEFINE ds == legs.dates
           es == legs'.dates
           n  == Len(ds)
<1>1. /\ n \in Nat \ {0} /\ Len(es) = n /\ Sound /\ self \in Arguments
      /\ \A i \in 1 .. n : ds[i] \in Date /\ ds[i] \in Int
      /\ \A i \in 2 .. n - 1 : es[i] = Adjusted(ds[i])
      /\ n > 1 => es[1] = IF self.rule = "OldCDS" THEN ds[1] ELSE Adjusted(ds[1])
      /\ n > 1 => es[n] = AdjustedEnd(ds[n])
  BY AdjustDatesIs
<1>2. /\ \A i \in 3 .. n - 1 : Adjusted(ds[i - 1]) < Adjusted(ds[i])
      /\ n > 2 => Adjusted(ds[1]) <= Adjusted(ds[2]) /\ ds[1] < ds[2]
      /\ IsFront(ds)
  BY DEF Shape, Apart
<1>3. PICK x \in SelfEnds : AdjustedEnd(ds[n]) = AdjustedEnd(x) /\ (n > 3 => ds[n - 1] < x)
  BY DEF Shape
<1>4. /\ x \in Date /\ x \in Int /\ self.termination <= x /\ AdjustedEnd(x) \in Int
      /\ AdjustedEnd(x) >= x \/ AdjustedEnd(x) = Adjusted(x)
  BY <1>1, EndAheadIs
<1>5. self.effective < self.termination /\ self.effective \in Int /\ self.termination \in Int
  BY <1>1, EffectiveRoom
<1>. HIDE DEF ds, es, n
<1>6. \A i \in 1 .. n : Adjusted(ds[i]) \in Int
  BY <1>1, AdjustedIs
<1>7. \A i \in 3 .. n - 1 : es[i - 1] < es[i]
  <2>. SUFFICES ASSUME NEW i \in 3 .. n - 1 PROVE es[i - 1] < es[i]
    OBVIOUS
  <2>1. i \in 2 .. n - 1 /\ i - 1 \in 2 .. n - 1
    BY <1>1
  <2>. QED  BY <1>1, <1>2, <2>1
<1>8. n > 3 => es[n - 2] < es[n]
  <2>. SUFFICES ASSUME n > 3 PROVE es[n - 2] < es[n]
    OBVIOUS
  <2>1. /\ n - 1 \in 3 .. n - 1 /\ n - 1 - 1 = n - 2 /\ n - 2 \in 2 .. n - 1
        /\ n - 2 \in 1 .. n /\ n - 1 \in 1 .. n
    BY <1>1
  <2>2. Adjusted(ds[n - 2]) < Adjusted(ds[n - 1])
    BY <1>2, <2>1
  <2>3. Adjusted(ds[n - 2]) <= ds[n - 1] /\ Adjusted(ds[n - 1]) <= Adjusted(x)
        /\ Adjusted(x) \in Int
    <3>1. ds[n - 1] <= x
      BY <1>1, <1>3, <1>4, <2>1
    <3>. QED  BY <1>1, <1>4, <2>1, <2>2, <3>1, AdjustedIs
  <2>4. es[n - 2] = Adjusted(ds[n - 2]) /\ es[n] = AdjustedEnd(x)
    BY <1>1, <1>3, <2>1
  <2>. QED
    <3>1. ds[n - 1] \in Int /\ Adjusted(ds[n - 2]) \in Int /\ Adjusted(ds[n - 1]) \in Int
      BY <1>1, <1>6, <2>1
    <3>. QED  BY <1>3, <1>4, <2>2, <2>3, <2>4, <3>1
<1>9. ASSUME NEW i \in 3 .. n, es[2] < es[i] PROVE es[1] < es[i]
  <2>1. /\ 1 \in 1 .. n /\ 2 \in 1 .. n /\ i \in 1 .. n /\ n > 2 /\ 2 \in 2 .. n - 1
        /\ i # n => i \in 2 .. n - 1
    BY <1>1
  <2>2. es[2] = Adjusted(ds[2]) /\ es[i] = (IF i = n THEN AdjustedEnd(x) ELSE Adjusted(ds[i]))
    BY <1>1, <1>3, <2>1
  <2>3. /\ Adjusted(ds[1]) \in Int /\ Adjusted(ds[2]) \in Int /\ Adjusted(ds[i]) \in Int
        /\ ds[1] \in Int /\ ds[2] \in Int /\ ds[1] < ds[2] /\ Adjusted(ds[1]) <= Adjusted(ds[2])
    BY <1>1, <1>2, <1>6, <2>1
  <2>4. es[i] \in Int
    BY <1>4, <2>2, <2>3
  <2>5. CASE self.rule # "OldCDS"
    BY <1>1, <1>9, <2>1, <2>2, <2>3, <2>4, <2>5
  <2>6. CASE self.rule = "OldCDS"
    <3>1. es[1] = ds[1] /\ ds[1] = self.effective
      BY <1>1, <1>2, <2>1, <2>6 DEF IsFront
    <3>2. CASE i # n
      <4>1. ds[2] <= Adjusted(ds[i])
        BY <1>1, <1>9, <2>1, <2>2, <3>2, AdjustedIs
      <4>. QED  BY <2>2, <2>3, <3>1, <3>2, <4>1
    <3>3. CASE i = n /\ AdjustedEnd(x) >= x
      BY <1>4, <1>5, <2>2, <3>1, <3>3
    <3>4. CASE i = n /\ AdjustedEnd(x) = Adjusted(x)
      <4>1. ds[2] <= Adjusted(x)
        BY <1>1, <1>4, <1>9, <2>1, <2>2, <3>4, AdjustedIs
      <4>. QED  BY <1>4, <2>2, <2>3, <3>1, <3>4, <4>1
    <3>. QED  BY <1>4, <3>2, <3>3, <3>4
  <2>. QED  BY <2>5, <2>6
<1>10. Repairable(es)
  BY <1>1, <1>7, <1>8, <1>9 DEF Repairable
<1>. QED  BY <1>10 DEF es

(***************************************************************************)
(* The final checks: what removing a date leaves of the ends and the order *)
(***************************************************************************)
LEMMA TrimBackRepairs ==
  ASSUME NEW s \in Legs
  PROVE  LET t == TrimBack(s)
             n == Len(s.dates)
             m == Len(t.dates)
         IN  /\ t \in Legs
             /\ m > 1 => t.dates[1] = s.dates[1] /\ t.dates[m] = s.dates[n] /\ n > 1
             /\ Repairable(s.dates) =>
                  /\ \A i \in 3 .. m : t.dates[i - 1] < t.dates[i]
                  /\ \A i \in 3 .. m : t.dates[2] < t.dates[i] => t.dates[1] < t.dates[i]
<1>. DEFINE t == TrimBack(s)
           n == Len(s.dates)
           m == Len(t.dates)
           Removes == n >= 2 /\ s.dates[n - 1] >= s.dates[n]
<1>1. /\ t \in Legs
      /\ Removes => /\ m = n - 1
                    /\ \A i \in 1 .. n - 2 : t.dates[i] = s.dates[i]
                    /\ t.dates[n - 1] = s.dates[n]
      /\ ~Removes => t = s
  BY TrimBackIs
<1>2. n \in Nat \ {0} /\ m \in Nat \ {0} /\ \A i \in 1 .. n : s.dates[i] \in Int
  BY <1>1, LegsAre
<1>3. Repairable(s.dates) =>
        /\ \A i \in 3 .. n - 1 : s.dates[i - 1] < s.dates[i]
        /\ n > 3 => s.dates[n - 2] < s.dates[n]
        /\ \A i \in 3 .. n : s.dates[2] < s.dates[i] => s.dates[1] < s.dates[i]
  BY DEF Repairable
<1>4. CASE Removes
  <2>. DEFINE old(i) == IF i = m THEN n ELSE i
  <2>1. /\ m = n - 1 /\ n >= 2 /\ \A i \in 1 .. m : t.dates[i] = s.dates[old(i)]
    <3>. HIDE DEF t, m, n
    <3>. QED  BY <1>1, <1>2, <1>4
  <2>. HIDE DEF t, m, n, Removes
  <2>2. m > 1 => t.dates[1] = s.dates[1] /\ t.dates[m] = s.dates[n] /\ n > 1
    BY <1>2, <2>1
  <2>3. ASSUME Repairable(s.dates), NEW i \in 3 .. m PROVE t.dates[i - 1] < t.dates[i]
    <3>1. t.dates[i - 1] = s.dates[i - 1] /\ i \in 1 .. m /\ i \in 3 .. n - 1
      <4>1. i - 1 \in 1 .. m /\ i - 1 # m /\ i \in 1 .. m /\ i \in 3 .. n - 1
        BY <1>2, <2>1
      <4>. QED  BY <2>1, <4>1
    <3>2. CASE i = m
      <4>1. t.dates[i] = s.dates[n] /\ n > 3 /\ i - 1 = n - 2
        BY <1>2, <2>1, <3>2
      <4>. QED  BY <1>3, <2>3, <3>1, <4>1
    <3>3. CASE i # m
      BY <1>3, <2>1, <2>3, <3>1, <3>3
    <3>. QED  BY <3>2, <3>3
  <2>4. ASSUME Repairable(s.dates), NEW i \in 3 .. m, t.dates[2] < t.dates[i]
        PROVE  t.dates[1] < t.dates[i]
    <3>1. t.dates[1] = s.dates[1] /\ t.dates[2] = s.dates[2]
      <4>1. 1 \in 1 .. m /\ 2 \in 1 .. m /\ 1 # m /\ 2 # m
        BY <1>2, <2>1
      <4>. QED  BY <2>1, <4>1
    <3>2. old(i) \in 3 .. n /\ t.dates[i] = s.dates[old(i)]
      BY <1>2, <2>1
    <3>. QED  BY <1>3, <2>4, <3>1, <3>2
  <2>. QED  BY <1>1, <2>2, <2>3, <2>4 DEF t, m, n
<1>5. CASE ~Removes
  <2>1. t = s /\ m = n
    BY <1>1, <1>5
  <2>2. n < 2 \/ s.dates[n - 1] < s.dates[n]
    <3>1. n >= 2 => n - 1 \in 1 .. n /\ n \in 1 .. n
      BY <1>2
    <3>2. n >= 2 => s.dates[n - 1] \in Int /\ s.dates[n] \in Int
      BY <1>2, <3>1
    <3>. HIDE DEF n
    <3>. QED  BY <1>2, <1>5, <3>2
  <2>. HIDE DEF t, m, n, Removes
  <2>3. ASSUME Repairable(s.dates), NEW i \in 3 .. n PROVE s.dates[i - 1] < s.dates[i]
    <3>1. CASE i = n
      BY <1>2, <2>2, <3>1
    <3>2. CASE i # n
      <4>1. i \in 3 .. n - 1
        BY <1>2, <3>2
      <4>. QED  BY <1>3, <2>3, <4>1
    <3>. QED  BY <3>1, <3>2
  <2>. QED  BY <1>1, <1>3, <2>1, <2>3 DEF t, m, n
<1>. QED  BY <1>4, <1>5

LEMMA TrimFrontRepairs ==
  ASSUME NEW s \in Legs
  PROVE  LET t == TrimFront(s)
             n == Len(s.dates)
             m == Len(t.dates)
         IN  /\ t \in Legs
             /\ m > 1 => t.dates[1] = s.dates[1] /\ t.dates[m] = s.dates[n] /\ n > 1
             /\ /\ \A i \in 3 .. n : s.dates[i - 1] < s.dates[i]
                /\ \A i \in 3 .. n : s.dates[2] < s.dates[i] => s.dates[1] < s.dates[i]
                => Increasing(t.dates)
<1>. DEFINE t == TrimFront(s)
           n == Len(s.dates)
           m == Len(t.dates)
           Removes == n >= 2 /\ s.dates[2] <= s.dates[1]
           Behind == /\ \A i \in 3 .. n : s.dates[i - 1] < s.dates[i]
                     /\ \A i \in 3 .. n : s.dates[2] < s.dates[i] => s.dates[1] < s.dates[i]
<1>1. /\ t \in Legs
      /\ Removes => /\ m = n - 1 /\ t.dates[1] = s.dates[1]
                    /\ \A i \in 2 .. n - 1 : t.dates[i] = s.dates[i + 1]
      /\ ~Removes => t = s
  BY TrimFrontIs
<1>2. n \in Nat \ {0} /\ m \in Nat \ {0} /\ \A i \in 1 .. n : s.dates[i] \in Int
  BY <1>1, LegsAre
<1>3. CASE Removes
  <2>1. /\ m = n - 1 /\ n >= 2 /\ t.dates[1] = s.dates[1]
        /\ \A i \in 2 .. m : t.dates[i] = s.dates[i + 1]
    <3>. HIDE DEF t, m, n
    <3>. QED  BY <1>1, <1>2, <1>3
  <2>. HIDE DEF t, m, n, Removes
  <2>2. m > 1 => t.dates[1] = s.dates[1] /\ t.dates[m] = s.dates[n] /\ n > 1
    BY <1>2, <2>1
  <2>3. ASSUME Behind, NEW i \in 2 .. m PROVE t.dates[i - 1] < t.dates[i]
    <3>1. t.dates[i] = s.dates[i + 1] /\ i + 1 \in 3 .. n
      BY <1>2, <2>1
    <3>2. CASE i = 2
      <4>1. 3 \in 3 .. n /\ 3 - 1 = 2 /\ i + 1 = 3
        BY <3>1, <3>2
      <4>2. s.dates[2] < s.dates[3]
        BY <2>3, <4>1
      <4>3. s.dates[1] < s.dates[3]
        BY <2>3, <4>1, <4>2
      <4>. QED  BY <2>1, <3>1, <3>2, <4>1, <4>3
    <3>3. CASE i # 2
      <4>1. i - 1 \in 2 .. m /\ i - 1 + 1 = i /\ i + 1 - 1 = i
        BY <1>2, <3>3
      <4>2. t.dates[i - 1] = s.dates[i]
        BY <2>1, <4>1
      <4>3. s.dates[i + 1 - 1] < s.dates[i + 1]
        BY <2>3, <3>1
      <4>. QED  BY <3>1, <4>1, <4>2, <4>3
    <3>. QED  BY <3>2, <3>3
  <2>4. Behind => Increasing(t.dates)
    BY <2>3 DEF Increasing, m
  <2>. QED  BY <1>1, <2>2, <2>4 DEF t, m, n
<1>4. CASE ~Removes
  <2>1. t = s /\ m = n
    BY <1>1, <1>4
  <2>2. n < 2 \/ s.dates[1] < s.dates[2]
    <3>1. n >= 2 => s.dates[1] \in Int /\ s.dates[2] \in Int
      BY <1>2
    <3>. HIDE DEF n
    <3>. QED  BY <1>2, <1>4, <3>1
  <2>. HIDE DEF t, m, n, Removes
  <2>3. ASSUME Behind, NEW i \in 2 .. n PROVE s.dates[i - 1] < s.dates[i]
    <3>1. CASE i = 2
      BY <1>2, <2>2, <3>1
    <3>2. CASE i # 2
      <4>1. i \in 3 .. n
        BY <1>2, <3>2
      <4>. QED  BY <2>3, <4>1
    <3>. QED  BY <3>1, <3>2
  <2>4. Behind => Increasing(s.dates)
    BY <2>3 DEF Increasing, n
  <2>. QED  BY <1>1, <2>1, <2>4 DEF t, m, n
<1>. QED  BY <1>3, <1>4

LEMMA RepairShape ==
  ASSUME TypeInv, Repair, Ended(legs.dates)
  PROVE  /\ Ended(legs.dates)'
         /\ Repairable(legs.dates) => Increasing(legs'.dates)
<1>. DEFINE s == TrimBack(legs)
           t == TrimFront(s)
<1>1. legs \in Legs /\ legs' = t /\ self' = self
  BY DEF TypeInv, Repair
<1>2. /\ s \in Legs
      /\ Len(s.dates) > 1 => /\ s.dates[1] = legs.dates[1] /\ Len(legs.dates) > 1
                             /\ s.dates[Len(s.dates)] = legs.dates[Len(legs.dates)]
      /\ Repairable(legs.dates) =>
           /\ \A i \in 3 .. Len(s.dates) : s.dates[i - 1] < s.dates[i]
           /\ \A i \in 3 .. Len(s.dates) : s.dates[2] < s.dates[i] => s.dates[1] < s.dates[i]
  BY <1>1, TrimBackRepairs
<1>. HIDE DEF s
<1>3. /\ t \in Legs
      /\ Len(t.dates) > 1 => /\ t.dates[1] = s.dates[1] /\ Len(s.dates) > 1
                             /\ t.dates[Len(t.dates)] = s.dates[Len(s.dates)]
      /\ /\ \A i \in 3 .. Len(s.dates) : s.dates[i - 1] < s.dates[i]
         /\ \A i \in 3 .. Len(s.dates) : s.dates[2] < s.dates[i] => s.dates[1] < s.dates[i]
         => Increasing(t.dates)
  BY <1>2, TrimFrontRepairs
<1>. HIDE DEF t
<1>4. Ended(t.dates)
  BY <1>2, <1>3 DEF Ended
<1>5. Ended(legs.dates)'
  BY <1>1, <1>4 DEF Ended, Begun, SelfEnds, Adjusted, AdjustedEnd
<1>. QED  BY <1>1, <1>2, <1>3, <1>5

LEMMA UntilIncreases ==
  ASSUME TypeInv, NEW t \in Truncation, Until(t), Increasing(legs.dates)
  PROVE  Increasing(legs'.dates)
<1>. DEFINE kept == Shortened(legs, t)
           n == Len(kept.dates)
<1>1. legs \in Legs /\ t \in Date /\ t \in Int
  BY RoomAssumption, StartsType DEF TypeInv, Until
<1>2. First(legs.dates) \in Date /\ First(legs.dates) \in Int
  BY <1>1, LegsAre, StartsType
<1>3. /\ kept \in Legs /\ n <= Len(legs.dates)
      /\ \A i \in 1 .. n : kept.dates[i] = legs.dates[i]
      /\ Last(kept.dates) <= t
  <2>1. First(legs.dates) <= t
    BY <1>1, <1>2 DEF Until
  <2>. QED  BY <1>1, <2>1, ShortenedIs
<1>4. legs' = IF Last(kept.dates) = t THEN kept ELSE PushBack(kept, t, FALSE)
  BY DEF Until
<1>. HIDE DEF kept
<1>5. /\ n \in Nat \ {0} /\ Len(legs.dates) \in Nat
      /\ Last(kept.dates) = kept.dates[n] /\ Last(kept.dates) \in Int
  BY <1>1, <1>3, LegsAre, StartsType
<1>6. Increasing(kept.dates)
  <2>. SUFFICES ASSUME NEW i \in 2 .. n PROVE kept.dates[i - 1] < kept.dates[i]
    BY DEF Increasing
  <2>1. i \in 1 .. n /\ i - 1 \in 1 .. n /\ i \in 2 .. Len(legs.dates)
    BY <1>3, <1>5
  <2>. QED  BY <1>3, <2>1 DEF Increasing
<1>7. CASE Last(kept.dates) = t
  BY <1>4, <1>6, <1>7
<1>8. CASE Last(kept.dates) # t
  <2>. DEFINE es == legs'.dates
  <2>1. FALSE \in BOOLEAN
    OBVIOUS
  <2>2. PushedBack(kept, t, FALSE, legs')
    BY <1>1, <1>3, <1>4, <1>8, <2>1, PushBackIs
  <2>3. /\ Len(es) = n + 1 /\ es[n + 1] = t
        /\ \A i \in 1 .. n : es[i] = kept.dates[i]
    BY <2>2 DEF PushedBack
  <2>. HIDE DEF es, n
  <2>4. ASSUME NEW i \in 2 .. n + 1 PROVE es[i - 1] < es[i]
    <3>1. CASE i = n + 1
      <4>1. i - 1 = n /\ n \in 1 .. n
        BY <1>5, <3>1
      <4>. QED  BY <1>1, <1>3, <1>5, <1>8, <2>3, <3>1, <4>1
    <3>2. CASE i # n + 1
      <4>1. i \in 2 .. n /\ i \in 1 .. n /\ i - 1 \in 1 .. n
        BY <1>5, <3>2
      <4>. QED  BY <1>6, <2>3, <4>1 DEF Increasing, n
    <3>. QED  BY <3>1, <3>2
  <2>. QED  BY <2>3, <2>4 DEF Increasing, es
<1>. QED  BY <1>7, <1>8

(***************************************************************************)
(* The invariant: how the dates stand at every stage                       *)
(***************************************************************************)
OrderInv ==
  Plain =>
    /\ stage = "roll" => IF self.rule = "Backward" THEN BackShapeInv ELSE FrontShapeInv
    /\ stage = "adjust" => Shape(legs.dates)
    /\ stage \in {"repair", "built"} => Ended(legs.dates)
    /\ stage = "repair" /\ EndAhead => Repairable(legs.dates)
    /\ Finished /\ EndAhead => Increasing(legs.dates)

LEMMA OrderNext ==
  ASSUME TypeInv, OrderInv, [Next]_vars
  PROVE  OrderInv'
<1>1. request' = request
  BY DEF Next, Check, BeginZero, BeginBackward, BeginForward, RollBackward, EndBackward,
         RollForward, EndForward, AdjustDates, Repair, Until, vars
<1>2. (Plain' <=> Plain) /\ (EndAhead' <=> EndAhead)
  BY <1>1 DEF Plain, Ordered, EndAhead, Ends
<1>. SUFFICES ASSUME Plain
             PROVE  OrderInv'
  BY <1>2 DEF OrderInv
<1>3. CASE Check
  BY <1>3 DEF OrderInv, Check, Finished
<1>4. CASE BeginZero
  BY <1>4, BeginZeroShape DEF OrderInv, BeginZero, Finished
<1>5. CASE BeginBackward
  BY <1>5, BeginBackwardShape DEF OrderInv, BeginBackward, Finished
<1>6. CASE BeginForward
  BY <1>6, BeginForwardShape DEF OrderInv, BeginForward, Finished
<1>7. CASE RollBackward
  BY <1>7, RollBackwardShape DEF OrderInv, RollBackward, Finished
<1>8. CASE EndBackward
  BY <1>8, EndBackwardShape DEF OrderInv, EndBackward, Finished
<1>9. CASE RollForward
  BY <1>9, RollForwardShape DEF OrderInv, RollForward, Finished
<1>10. CASE EndForward
  BY <1>10, EndForwardShape DEF OrderInv, EndForward, Finished
<1>11. CASE AdjustDates
  BY <1>2, <1>11, AdjustEnded, AdjustRepairable DEF OrderInv, AdjustDates, Finished
<1>12. CASE Repair
  BY <1>2, <1>12, RepairShape DEF OrderInv, Repair, Finished
<1>13. CASE \E t \in Truncation : Until(t)
  <2>1. PICK t \in Truncation : Until(t)
    BY <1>13
  <2>2. EndAhead => Increasing(legs.dates)
    BY <2>1 DEF OrderInv, Until, Finished
  <2>3. EndAhead => Increasing(legs'.dates)
    BY <2>1, <2>2, UntilIncreases
  <2>. QED  BY <1>2, <2>1, <2>3 DEF OrderInv, Until, Finished
<1>14. CASE UNCHANGED vars
  BY <1>14 DEF vars, OrderInv, Finished, BackShapeInv, FrontShapeInv, BackShape, FrontShape,
     Apart, Shape, IsFront, Ended, Begun, SelfEnds, Repairable, Increasing, Latest, Multiple,
     Advance, Exit, From, Adjusted, AdjustedEnd, EndAhead, Ends, Plain, Ordered
<1>. QED
  BY <1>3, <1>4, <1>5, <1>6, <1>7, <1>8, <1>9, <1>10, <1>11, <1>12, <1>13, <1>14 DEF Next

LEMMA OrderInvariant == Spec => []OrderInv
<1>1. Init => OrderInv
  BY DEF Init, OrderInv, Finished
<1>2. TypeInv /\ OrderInv /\ [Next]_vars => OrderInv'
  BY OrderNext
<1>. QED  BY <1>1, <1>2, TypeInvariant, PTL DEF Spec

(***************************************************************************)
(* The dates of a schedule increase: whatever its tenor, the calendar, the *)
(* conventions, the stubs and the dates it is truncated at, one removed at *)
(* either end is enough, if the termination date is not moved back.        *)
(***************************************************************************)
THEOREM DatesAlwaysIncrease == Spec => []DatesIncrease
<1>1. OrderInv => DatesIncrease
  BY DEF OrderInv, DatesIncrease
<1>. QED  BY <1>1, OrderInvariant, PTL

(***************************************************************************)
(* A schedule begins with its effective and ends with its termination      *)
(* date, adjusted, or where its rule has it begin and end: what the final  *)
(* checks remove is never one of these.                                    *)
(***************************************************************************)
THEOREM EndsAlwaysKept == Spec => []EndsKept
<1>1. TypeInv /\ OrderInv => EndsKept
  <2>. SUFFICES ASSUME TypeInv, OrderInv, stage = "built", Plain, Len(legs.dates) > 1
               PROVE  EndsKept
    BY DEF EndsKept
  <2>1. legs \in Legs
    BY DEF TypeInv
  <2>2. First(legs.dates) = legs.dates[1] /\ Last(legs.dates) = legs.dates[Len(legs.dates)]
    BY DEF First, Last
  <2>3. Begun(legs.dates[1]) /\ \E x \in SelfEnds : legs.dates[Len(legs.dates)] = AdjustedEnd(x)
    BY DEF OrderInv, Ended
  <2>4. PICK x \in SelfEnds : Last(legs.dates) = AdjustedEnd(x)
    BY <2>2, <2>3
  <2>5. x = self.termination
        \/ (Credit(self.rule) /\ x = NextTwentieth(self.termination, self.rule))
    BY DEF SelfEnds
  <2>6. Begun(First(legs.dates))
    BY <2>2, <2>3
  <2>. QED  BY <2>4, <2>5, <2>6 DEF EndsKept, Begun
<1>. QED  BY <1>1, TypeInvariant, OrderInvariant, PTL

-----------------------------------------------------------------------------
(***************************************************************************)
(* No date is lost: where the dates at whole tenors from the seed are      *)
(***************************************************************************)

LEMMA RolledBegins ==
  ASSUME self \in Arguments, UNCHANGED <<self, periods>>, periods = 1, seed' \in Date
  PROVE  Rolled' = {seed'}
<1>1. Latest' = seed' /\ NoDate \notin Date
  BY LatestBegins, ArgumentTypes
<1>2. periods' - 1 = 0 /\ 0 .. 0 = {0}
  OBVIOUS
<1>3. Rolled' = {Latest'}
  BY <1>1, <1>2 DEF Rolled, Latest
<1>. QED  BY <1>1, <1>3

LEMMA RolledGrows ==
  ASSUME NoDate \notin Date, seed \in Date, periods \in Nat \ {0},
         UNCHANGED <<self, seed>>, periods' = periods + 1
  PROVE  /\ Rolled' = Rolled \cup {Multiple(periods)} /\ Latest' = Multiple(periods)
         /\ Latest \in Rolled
<1>1. periods' - 1 = periods /\ 0 .. periods = (0 .. periods - 1) \cup {periods}
      /\ periods - 1 \in 0 .. periods - 1
  OBVIOUS
<1>2. \A k : Multiple(k)' = Multiple(k)
  BY DEF Multiple, Advance
<1>3. Rolled' = {Multiple(k) : k \in 0 .. periods}
  BY <1>1, <1>2 DEF Rolled
<1>4. Rolled = {Multiple(k) : k \in 0 .. periods - 1}
  BY DEF Rolled
<1>. QED  BY <1>1, <1>2, <1>3, <1>4 DEF Latest

\* The date d is at i, as adjusted; under the old CDS rule, not at the front.
Tracks(ds, i, d) ==
  /\ self.rule = "OldCDS" => i > 1
  /\ Adjusted(ds[i]) = Adjusted(d)
  /\ self.rule # "Backward" => ds[i] <= d

Tracked(ds) == \A d \in Rolled : d \in Date /\ \E i \in 1 .. Len(ds) : Tracks(ds, i, d)

TrackedInv ==
  /\ Tracked(legs.dates)
  /\ self.rule # "Backward" => Last(legs.dates) <= Latest

LEMMA PushFrontKeeps ==
  ASSUME NEW s \in Legs, NEW d \in Date, NEW flag \in BOOLEAN
  PROVE  LET t == PushFrontUnlessSame(s, d, flag) IN
         /\ t \in Legs
         /\ \A i \in 1 .. Len(s.dates) : \E j \in 1 .. Len(t.dates) : t.dates[j] = s.dates[i]
         /\ \E j \in 1 .. Len(t.dates) : Adjusted(t.dates[j]) = Adjusted(d)
         /\ Last(t.dates) = Last(s.dates)
<1>. DEFINE t == PushFrontUnlessSame(s, d, flag)
           n == Len(s.dates)
<1>1. n \in Nat \ {0} /\ First(s.dates) = s.dates[1] /\ Last(s.dates) = s.dates[n]
      /\ 1 \in 1 .. n /\ n \in 1 .. n
  BY LegsAre
<1>2. CASE Adjusted(First(s.dates)) = Adjusted(d)
  BY <1>1, <1>2 DEF PushFrontUnlessSame
<1>3. CASE Adjusted(First(s.dates)) # Adjusted(d)
  <2>1. PushedFront(s, d, flag, t)
    BY <1>3, PushFrontIs DEF PushFrontUnlessSame
  <2>. HIDE DEF t, n
  <2>2. /\ t \in Legs /\ Len(t.dates) = n + 1 /\ t.dates[1] = d
        /\ \A i \in 1 .. n : t.dates[i + 1] = s.dates[i]
    BY <2>1 DEF PushedFront, n
  <2>3. \A i \in 1 .. n : i + 1 \in 1 .. n + 1
    BY <1>1
  <2>4. 1 \in 1 .. n + 1
    BY <1>1
  <2>. QED  BY <1>1, <2>2, <2>3, <2>4 DEF Last, t, n
<1>. QED  BY <1>2, <1>3

LEMMA PushBackKeeps ==
  ASSUME NEW s \in Legs, NEW d \in Date, NEW flag \in BOOLEAN
  PROVE  LET t == PushBackUnlessSame(s, d, flag) IN
         /\ t \in Legs /\ Len(t.dates) >= Len(s.dates)
         /\ \A i \in 1 .. Len(s.dates) : t.dates[i] = s.dates[i]
         /\ Adjusted(Last(t.dates)) = Adjusted(d)
         /\ Last(t.dates) \in {d, Last(s.dates)}
<1>. DEFINE t == PushBackUnlessSame(s, d, flag)
           n == Len(s.dates)
<1>1. n \in Nat \ {0} /\ Last(s.dates) = s.dates[n]
  BY LegsAre
<1>2. CASE Adjusted(Last(s.dates)) = Adjusted(d)
  BY <1>1, <1>2 DEF PushBackUnlessSame
<1>3. CASE Adjusted(Last(s.dates)) # Adjusted(d)
  <2>1. PushedBack(s, d, flag, t)
    BY <1>3, PushBackIs DEF PushBackUnlessSame
  <2>. HIDE DEF t, n
  <2>2. /\ t \in Legs /\ Len(t.dates) = n + 1 /\ t.dates[n + 1] = d
        /\ \A i \in 1 .. n : t.dates[i] = s.dates[i]
    BY <2>1 DEF PushedBack, n
  <2>. QED  BY <1>1, <2>2 DEF Last, t, n
<1>. QED  BY <1>2, <1>3

LEMMA BeginBackwardTracks ==
  ASSUME TypeInv, BeginBackward
  PROVE  TrackedInv'
<1>. DEFINE ds == legs'.dates
<1>1. /\ self \in Arguments /\ seed' \in Date /\ self.rule = "Backward" /\ periods = 1
      /\ Len(ds) \in {1, 2} /\ ds[1] = seed' /\ self' = self /\ periods' = periods
  BY BeginBackwardIs DEF BeginBackward, TypeInv
<1>2. Rolled' = {seed'}
  BY <1>1, RolledBegins
<1>. HIDE DEF ds
<1>3. 1 \in 1 .. Len(ds) /\ Tracks(ds, 1, seed')
  BY <1>1 DEF Tracks
<1>4. Tracked(legs.dates)'
  BY <1>1, <1>2, <1>3 DEF Tracked, Tracks, Adjusted, ds
<1>. QED  BY <1>1, <1>4 DEF TrackedInv

LEMMA BeginForwardTracks ==
  ASSUME TypeInv, BeginForward
  PROVE  TrackedInv'
<1>. DEFINE ds == legs'.dates
           n == Len(ds)
<1>1. /\ self \in Arguments /\ seed' \in Date /\ periods = 1
      /\ n \in {1, 2} /\ ds[n] = seed' /\ self' = self /\ periods' = periods
      /\ self.rule = "OldCDS" => n = 2
  BY BeginForwardIs DEF BeginForward, TypeInv
<1>2. Rolled' = {seed'} /\ Latest' = seed' /\ seed' \in Int
  BY <1>1, RolledBegins, LatestBegins, StartsType
<1>3. Last(ds) = seed'
  BY <1>1 DEF Last
<1>. HIDE DEF ds, n
<1>4. n \in 1 .. n /\ Tracks(ds, n, seed')
  BY <1>1, <1>2 DEF Tracks
<1>5. Tracked(legs.dates)'
  BY <1>1, <1>2, <1>4 DEF Tracked, Tracks, Adjusted, ds, n
<1>. QED  BY <1>1, <1>2, <1>3, <1>5 DEF TrackedInv, ds

LEMMA RollBackwardTracks ==
  ASSUME TypeInv, TrackedInv, RollBackward
  PROVE  TrackedInv'
<1>. DEFINE temp == Advance(seed, -periods)
<1>1. /\ Rolling /\ Sound /\ self.rule = "Backward" /\ legs \in Legs /\ temp >= Exit
      /\ self \in Arguments /\ NoDate \notin Date
      /\ seed \in Date /\ periods \in Nat \ {0}
  BY ArgumentTypes DEF TypeInv, RollBackward, Exit, Rolling
<1>2. temp \in Date
  BY <1>1, ExitIs, StaysBackward
<1>3. /\ legs' = PushFrontUnlessSame(legs, temp, TRUE) /\ self' = self /\ seed' = seed
      /\ periods' = periods + 1
  BY DEF RollBackward
<1>4. Rolled' = Rolled \cup {temp}
  BY <1>1, <1>3, RolledGrows DEF Multiple
<1>5. TRUE \in BOOLEAN
  OBVIOUS
<1>. HIDE DEF temp
<1>6. /\ \A i \in 1 .. Len(legs.dates) : \E j \in 1 .. Len(legs'.dates) :
           legs'.dates[j] = legs.dates[i]
      /\ \E j \in 1 .. Len(legs'.dates) : Adjusted(legs'.dates[j]) = Adjusted(temp)
  <2>. DEFINE t == PushFrontUnlessSame(legs, temp, TRUE)
  <2>1. /\ \A i \in 1 .. Len(legs.dates) : \E j \in 1 .. Len(t.dates) : t.dates[j] = legs.dates[i]
        /\ \E j \in 1 .. Len(t.dates) : Adjusted(t.dates[j]) = Adjusted(temp)
    BY <1>1, <1>2, <1>5, PushFrontKeeps
  <2>. HIDE DEF t
  <2>. QED  BY <1>3, <2>1 DEF t
<1>7. ASSUME NEW d \in Rolled'
      PROVE  d \in Date /\ \E j \in 1 .. Len(legs'.dates) : Tracks(legs'.dates, j, d)
  <2>1. CASE d = temp
    BY <1>1, <1>2, <1>6, <2>1 DEF Tracks
  <2>2. CASE d \in Rolled
    <3>1. PICK i \in 1 .. Len(legs.dates) : Tracks(legs.dates, i, d)
      BY <2>2 DEF TrackedInv, Tracked
    <3>2. PICK j \in 1 .. Len(legs'.dates) : legs'.dates[j] = legs.dates[i]
      BY <1>6
    <3>3. Tracks(legs'.dates, j, d)
      BY <1>1, <3>1, <3>2 DEF Tracks
    <3>. QED  BY <2>2, <3>3 DEF TrackedInv, Tracked
  <2>. QED  BY <1>4, <2>1, <2>2
<1>8. Tracked(legs.dates)'
  BY <1>3, <1>7 DEF Tracked, Tracks, Adjusted
<1>. QED  BY <1>1, <1>3, <1>8 DEF TrackedInv

LEMMA RollForwardTracks ==
  ASSUME TypeInv, TrackedInv, RollForward
  PROVE  TrackedInv'
<1>. DEFINE temp == Advance(seed, periods)
<1>1. /\ Rolling /\ Sound /\ self.rule # "Backward" /\ legs \in Legs /\ temp <= Exit
      /\ self \in Arguments /\ NoDate \notin Date
      /\ seed \in Date /\ periods \in Nat \ {0}
  BY ArgumentTypes DEF TypeInv, RollForward, Exit, Rolling
<1>2. temp \in Date /\ temp \in Int
  BY <1>1, ExitIs, StaysForward, StartsType
<1>3. /\ legs' = PushBackUnlessSame(legs, temp, TRUE) /\ self' = self /\ seed' = seed
      /\ periods' = periods + 1
  BY DEF RollForward
<1>4. Rolled' = Rolled \cup {temp} /\ Latest' = temp /\ Latest \in Rolled
  BY <1>1, <1>3, RolledGrows DEF Multiple
<1>5. Latest < temp /\ Latest \in Date
  <2>1. Latest \in Date
    BY <1>4 DEF TrackedInv, Tracked
  <2>. QED  BY <1>1, <2>1, LatestIs
<1>6. TRUE \in BOOLEAN
  OBVIOUS
<1>. HIDE DEF temp
<1>. DEFINE m == Len(legs'.dates)
<1>7. /\ legs' \in Legs /\ m >= Len(legs.dates)
      /\ \A i \in 1 .. Len(legs.dates) : legs'.dates[i] = legs.dates[i]
      /\ Adjusted(Last(legs'.dates)) = Adjusted(temp)
      /\ Last(legs'.dates) \in {temp, Last(legs.dates)}
  BY <1>1, <1>2, <1>3, <1>6, PushBackKeeps
<1>8. /\ Len(legs.dates) \in Nat \ {0} /\ m \in Nat \ {0} /\ Last(legs'.dates) = legs'.dates[m]
      /\ Last(legs.dates) \in Date
  BY <1>1, <1>7, LegsAre
<1>9. Last(legs'.dates) <= temp
  <2>1. Last(legs.dates) <= Latest /\ Last(legs.dates) \in Int /\ Latest \in Int
    BY <1>1, <1>5, <1>8, StartsType DEF TrackedInv
  <2>. QED  BY <1>2, <1>5, <1>7, <2>1
<1>10. self.rule = "OldCDS" => m > 1
  <2>1. PICK i \in 1 .. Len(legs.dates) : Tracks(legs.dates, i, Latest)
    BY <1>4 DEF TrackedInv, Tracked
  <2>. QED  BY <1>7, <1>8, <2>1 DEF Tracks
<1>11. ASSUME NEW d \in Rolled'
       PROVE  d \in Date /\ \E j \in 1 .. m : Tracks(legs'.dates, j, d)
  <2>1. CASE d = temp
    <3>1. m \in 1 .. m /\ Tracks(legs'.dates, m, d)
      BY <1>7, <1>8, <1>9, <1>10, <2>1 DEF Tracks
    <3>. QED  BY <1>2, <2>1, <3>1
  <2>2. CASE d \in Rolled
    <3>1. PICK i \in 1 .. Len(legs.dates) : Tracks(legs.dates, i, d)
      BY <2>2 DEF TrackedInv, Tracked
    <3>2. i \in 1 .. m /\ legs'.dates[i] = legs.dates[i]
      BY <1>7, <1>8
    <3>3. Tracks(legs'.dates, i, d)
      BY <3>1, <3>2 DEF Tracks
    <3>. QED  BY <2>2, <3>2, <3>3 DEF TrackedInv, Tracked
  <2>. QED  BY <1>4, <2>1, <2>2
<1>12. Tracked(legs.dates)'
  BY <1>3, <1>11 DEF Tracked, Tracks, Adjusted
<1>. QED  BY <1>4, <1>9, <1>12 DEF TrackedInv

(***************************************************************************)
(* Before adjustment: a date that is only at the end will be what the end  *)
(* is, or end the schedule itself.                                         *)
(***************************************************************************)
Followed(ds) ==
  \A d \in Rolled :
    /\ d \in Date
    /\ self.effective < d /\ d < self.termination =>
      \E i \in 1 .. Len(ds) :
        /\ self.rule = "OldCDS" => i > 1
        /\ Adjusted(ds[i]) = Adjusted(d)
        /\ i = Len(ds) => AdjustedEnd(ds[i]) \in {AdjustedEnd(d), Adjusted(d)}

LEMMA EndBackwardTracks ==
  ASSUME TypeInv, SameEnd, BackShapeInv, TrackedInv, EndBackward
  PROVE  Followed(legs.dates)'
<1>1. /\ Sound /\ self \in Arguments /\ self.rule = "Backward" /\ legs \in Legs
      /\ Given(self) \subseteq Date
  BY ArgumentTypes DEF TypeInv, EndBackward
<1>. DEFINE kept == IF self.first = NoDate THEN legs
                   ELSE PushFrontUnlessSame(legs, self.first, FALSE)
           last == PushFrontUnlessSame(kept, self.effective, FALSE)
<1>2. FALSE \in BOOLEAN /\ self.effective \in Date /\ (self.first # NoDate => self.first \in Date)
  BY <1>1, EffectiveRoom, ArgumentTypes
<1>3. /\ kept \in Legs /\ Last(kept.dates) = Last(legs.dates)
      /\ \A i \in 1 .. Len(legs.dates) : \E j \in 1 .. Len(kept.dates) :
           kept.dates[j] = legs.dates[i]
  <2>1. CASE self.first = NoDate
    BY <1>1, <2>1
  <2>2. CASE self.first # NoDate
    <3>. DEFINE t == PushFrontUnlessSame(legs, self.first, FALSE)
    <3>1. /\ t \in Legs /\ Last(t.dates) = Last(legs.dates)
          /\ \A i \in 1 .. Len(legs.dates) : \E j \in 1 .. Len(t.dates) : t.dates[j] = legs.dates[i]
      BY <1>1, <1>2, <2>2, PushFrontKeeps
    <3>2. kept = t
      BY <2>2
    <3>. HIDE DEF t, kept
    <3>. QED  BY <3>1, <3>2
  <2>. QED  BY <2>1, <2>2
<1>. HIDE DEF kept
<1>4. /\ last \in Legs /\ Last(last.dates) = Last(kept.dates)
      /\ \A i \in 1 .. Len(kept.dates) : \E j \in 1 .. Len(last.dates) :
           last.dates[j] = kept.dates[i]
  BY <1>2, <1>3, PushFrontKeeps
<1>5. legs' = last /\ self' = self /\ seed' = seed /\ periods' = periods
  BY DEF EndBackward, kept
<1>. HIDE DEF last
<1>6. Last(last.dates) = self.termination /\ Last(last.dates) = last.dates[Len(last.dates)]
  <2>1. legs.dates[Len(legs.dates)] = self.termination
    BY DEF BackShapeInv, BackShape
  <2>. QED  BY <1>1, <1>3, <1>4, <2>1, LegsAre
<1>7. ASSUME NEW d \in Rolled
      PROVE  d \in Date /\ \E j \in 1 .. Len(last.dates) :
               /\ Adjusted(last.dates[j]) = Adjusted(d)
               /\ j = Len(last.dates) => AdjustedEnd(last.dates[j]) = Adjusted(d)
  <2>0. d \in Date
    BY DEF TrackedInv, Tracked
  <2>1. PICK i \in 1 .. Len(legs.dates) : Adjusted(legs.dates[i]) = Adjusted(d)
    BY DEF TrackedInv, Tracked, Tracks
  <2>2. PICK k \in 1 .. Len(kept.dates) : kept.dates[k] = legs.dates[i]
    BY <1>3
  <2>3. PICK j \in 1 .. Len(last.dates) : last.dates[j] = kept.dates[k]
    BY <1>4
  <2>4. Adjusted(last.dates[j]) = Adjusted(d)
    BY <2>1, <2>2, <2>3
  <2>5. j = Len(last.dates) => AdjustedEnd(last.dates[j]) = Adjusted(d)
    BY <1>1, <1>6, <2>4 DEF SameEnd
  <2>. QED  BY <2>0, <2>4, <2>5
<1>8. Followed(last.dates)
  BY <1>1, <1>7 DEF Followed
<1>. QED  BY <1>5, <1>8 DEF Followed, Rolled, Multiple, Advance, Adjusted, AdjustedEnd

LEMMA EndForwardTracks ==
  ASSUME TypeInv, TrackedInv, EndForward
  PROVE  Followed(legs.dates)'
<1>1. /\ Sound /\ self \in Arguments /\ self.rule # "Backward" /\ legs \in Legs
      /\ self.termination \in Date /\ self.termination \in Int
      /\ self.nextToLast # NoDate => self.nextToLast \in Date
  BY EffectiveRoom, ArgumentTypes DEF TypeInv, EndForward
<1>. DEFINE kept == IF self.nextToLast = NoDate THEN legs
                   ELSE PushBackUnlessSame(legs, self.nextToLast, FALSE)
           m == Len(kept.dates)
<1>2. FALSE \in BOOLEAN
  OBVIOUS
<1>3. /\ kept \in Legs /\ m >= Len(legs.dates)
      /\ \A i \in 1 .. Len(legs.dates) : kept.dates[i] = legs.dates[i]
  <2>1. CASE self.nextToLast = NoDate
    <3>1. Len(legs.dates) \in Nat
      BY <1>1, LegsAre
    <3>. QED  BY <1>1, <2>1, <3>1
  <2>2. CASE self.nextToLast # NoDate
    <3>1. kept = PushBackUnlessSame(legs, self.nextToLast, FALSE)
      BY <2>2
    <3>. HIDE DEF kept
    <3>. QED  BY <1>1, <1>2, <2>2, <3>1, PushBackKeeps
  <2>. QED  BY <2>1, <2>2
<1>4. /\ legs' = CloseForward(kept) /\ self' = self /\ seed' = seed /\ periods' = periods
  BY DEF EndForward
<1>. HIDE DEF kept
<1>5. /\ m \in Nat \ {0} /\ Len(legs.dates) \in Nat /\ Last(kept.dates) = kept.dates[m]
      /\ \A i \in 1 .. m : kept.dates[i] \in Date
  BY <1>1, <1>3, LegsAre
<1>. DEFINE ds == legs'.dates
           n == Len(ds)
<1>6. ASSUME NEW d \in Rolled, d < self.termination
      PROVE  \E i \in 1 .. n :
               /\ self.rule = "OldCDS" => i > 1
               /\ Adjusted(ds[i]) = Adjusted(d)
               /\ i = n => AdjustedEnd(ds[i]) = AdjustedEnd(d)
  <2>1. PICK i \in 1 .. Len(legs.dates) : Tracks(legs.dates, i, d)
    BY DEF TrackedInv, Tracked
  <2>2. /\ i \in 1 .. m
        /\ self.rule = "OldCDS" => i > 1
        /\ Adjusted(kept.dates[i]) = Adjusted(d) /\ kept.dates[i] <= d
        /\ d \in Date /\ d \in Int /\ kept.dates[i] \in Date
    <3>1. i \in 1 .. m /\ kept.dates[i] = legs.dates[i]
      BY <1>3, <1>5
    <3>2. d \in Date /\ d \in Int
      BY StartsType DEF TrackedInv, Tracked
    <3>. QED  BY <1>1, <1>5, <2>1, <3>1, <3>2 DEF Tracks
  <2>. HIDE DEF m
  <2>3. CASE AdjustedEnd(Last(kept.dates)) = AdjustedEnd(self.termination)
    <3>1. legs' = kept
      BY <1>4, <2>3 DEF CloseForward
    <3>2. ds = kept.dates /\ n = m
      BY <3>1 DEF m
    <3>3. i = m => AdjustedEnd(kept.dates[i]) = AdjustedEnd(d)
      <4>. SUFFICES ASSUME i = m PROVE AdjustedEnd(kept.dates[i]) = AdjustedEnd(d)
        OBVIOUS
      <4>1. AdjustedEnd(kept.dates[i]) = AdjustedEnd(self.termination)
        BY <1>5, <2>3
      <4>2. d <= self.termination
        BY <1>1, <1>6, <2>2
      <4>3. self.terminationDateConvention \in Convention
        BY <1>1, ArgumentTypes
      <4>4. AdjustedEnd(kept.dates[i]) <= AdjustedEnd(d)
            /\ AdjustedEnd(d) <= AdjustedEnd(self.termination)
        BY <1>1, <2>2, <4>2, <4>3, AdjustGrows DEF AdjustedEnd
      <4>5. AdjustedEnd(d) \in Int /\ AdjustedEnd(self.termination) \in Int
        BY <1>1, <2>2, MovesAreDates, StartsType
      <4>. QED  BY <4>1, <4>4, <4>5
    <3>. HIDE DEF ds, n
    <3>. QED  BY <2>2, <3>2, <3>3
  <2>4. CASE AdjustedEnd(Last(kept.dates)) # AdjustedEnd(self.termination)
    <3>1. PICK x \in SelfEnds : \E b \in BOOLEAN : legs' = PushBack(kept, x, b)
      BY <1>4, <2>4 DEF CloseForward, SelfEnds
    <3>2. PICK b \in BOOLEAN : legs' = PushBack(kept, x, b)
      BY <3>1
    <3>3. x \in Date
      BY <1>1, SelfEndsAre
    <3>4. PushedBack(kept, x, b, legs')
      BY <1>3, <3>2, <3>3, PushBackIs
    <3>5. n = m + 1 /\ \A j \in 1 .. m : ds[j] = kept.dates[j]
      BY <3>4 DEF PushedBack, m
    <3>. HIDE DEF ds, n
    <3>6. i \in 1 .. n /\ i # n /\ ds[i] = kept.dates[i]
      BY <1>5, <2>2, <3>5
    <3>. QED  BY <2>2, <3>6
  <2>. QED  BY <2>3, <2>4
<1>7. Followed(ds)
  <2>1. \A d \in Rolled : d \in Date
    BY DEF TrackedInv, Tracked
  <2>. HIDE DEF ds
  <2>. QED  BY <1>6, <2>1 DEF Followed
<1>. QED  BY <1>4, <1>7 DEF Followed, Rolled, Multiple, Advance, Adjusted, AdjustedEnd, ds

\* After adjustment: d is in the schedule, or would itself be its end.
NotLost(es) ==
  \A d \in Rolled :
    /\ d \in Date
    /\ Len(es) > 1 /\ self.effective < d /\ d < self.termination =>
        \/ es[Len(es)] = AdjustedEnd(d)
        \/ \E i \in 1 .. Len(es) : es[i] = Adjusted(d)

LEMMA AdjustTracks ==
  ASSUME TypeInv, Plain, Shape(legs.dates), Followed(legs.dates), AdjustDates
  PROVE  NotLost(legs.dates)'
<1>. DEFINE ds == legs.dates
           es == legs'.dates
           n  == Len(ds)
<1>1. /\ n \in Nat \ {0} /\ Len(es) = n
      /\ \A i \in 2 .. n - 1 : es[i] = Adjusted(ds[i])
      /\ n > 1 => es[1] = IF self.rule = "OldCDS" THEN ds[1] ELSE Adjusted(ds[1])
      /\ n > 1 => es[n] = AdjustedEnd(ds[n])
  BY AdjustDatesIs
<1>2. self' = self /\ seed' = seed /\ periods' = periods
  BY DEF AdjustDates
<1>3. ASSUME NEW d \in Rolled, self.effective < d, d < self.termination, n > 1
      PROVE  es[n] = AdjustedEnd(d) \/ \E i \in 1 .. n : es[i] = Adjusted(d)
  <2>1. PICK i \in 1 .. n :
          /\ self.rule = "OldCDS" => i > 1
          /\ Adjusted(ds[i]) = Adjusted(d)
          /\ i = n => AdjustedEnd(ds[i]) \in {AdjustedEnd(d), Adjusted(d)}
    BY <1>3 DEF Followed
  <2>. HIDE DEF ds, es, n
  <2>2. CASE i = n
    BY <1>1, <1>3, <2>1, <2>2
  <2>3. CASE i = 1 /\ i # n
    BY <1>1, <1>3, <2>1, <2>3
  <2>4. CASE i # 1 /\ i # n
    <3>1. i \in 2 .. n - 1
      BY <1>1, <2>4
    <3>. QED  BY <1>1, <2>1, <3>1
  <2>. QED  BY <2>2, <2>3, <2>4
<1>. HIDE DEF ds, es, n
<1>4. NotLost(es)
  <2>1. \A d \in Rolled : d \in Date
    BY DEF Followed
  <2>. QED  BY <1>1, <1>3, <2>1 DEF NotLost
<1>. QED  BY <1>2, <1>4 DEF NotLost, Rolled, Multiple, Advance, Adjusted, AdjustedEnd, es

\* The final checks remove only what is not before the last or after the first date.
LEMMA TrimsKeep ==
  ASSUME NEW s \in Legs, NEW i \in 1 .. Len(s.dates)
  PROVE  /\ s.dates[i] < Last(s.dates) =>
              \E j \in 1 .. Len(TrimBack(s).dates) : TrimBack(s).dates[j] = s.dates[i]
         /\ First(s.dates) < s.dates[i] =>
              \E j \in 1 .. Len(TrimFront(s).dates) : TrimFront(s).dates[j] = s.dates[i]
<1>. DEFINE n == Len(s.dates)
<1>1. /\ n \in Nat \ {0} /\ First(s.dates) = s.dates[1] /\ Last(s.dates) = s.dates[n]
      /\ \A k \in 1 .. n : s.dates[k] \in Int
  BY LegsAre
<1>2. ASSUME s.dates[i] < s.dates[n]
      PROVE  \E j \in 1 .. Len(TrimBack(s).dates) : TrimBack(s).dates[j] = s.dates[i]
  <2>. DEFINE t == TrimBack(s)
  <2>1. /\ n >= 2 /\ s.dates[n - 1] >= s.dates[n] =>
             Len(t.dates) = n - 1 /\ \A k \in 1 .. n - 2 : t.dates[k] = s.dates[k]
        /\ ~(n >= 2 /\ s.dates[n - 1] >= s.dates[n]) => t = s
    BY TrimBackIs
  <2>2. CASE n >= 2 /\ s.dates[n - 1] >= s.dates[n]
    <3>. HIDE DEF t, n
    <3>1. n - 1 \in 1 .. n /\ n \in 1 .. n
      BY <1>1, <2>2
    <3>2. s.dates[n - 1] \in Int /\ s.dates[n] \in Int /\ s.dates[i] \in Int
      BY <1>1, <3>1 DEF n
    <3>3. i # n - 1 /\ i # n
      BY <1>2, <2>2, <3>2
    <3>4. i \in 1 .. n - 2 /\ i \in 1 .. n - 1
      BY <1>1, <3>3 DEF n
    <3>. QED  BY <2>1, <2>2, <3>4 DEF t
  <2>3. CASE ~(n >= 2 /\ s.dates[n - 1] >= s.dates[n])
    <3>. HIDE DEF t, n
    <3>. QED  BY <2>1, <2>3 DEF t, n
  <2>. QED  BY <2>2, <2>3
<1>3. ASSUME s.dates[1] < s.dates[i]
      PROVE  \E j \in 1 .. Len(TrimFront(s).dates) : TrimFront(s).dates[j] = s.dates[i]
  <2>. DEFINE t == TrimFront(s)
  <2>1. /\ n >= 2 /\ s.dates[2] <= s.dates[1] =>
             Len(t.dates) = n - 1 /\ \A k \in 2 .. n - 1 : t.dates[k] = s.dates[k + 1]
        /\ ~(n >= 2 /\ s.dates[2] <= s.dates[1]) => t = s
    BY TrimFrontIs
  <2>2. CASE n >= 2 /\ s.dates[2] <= s.dates[1]
    <3>. HIDE DEF t, n
    <3>1. 1 \in 1 .. n /\ 2 \in 1 .. n
      BY <1>1, <2>2
    <3>2. s.dates[1] \in Int /\ s.dates[2] \in Int /\ s.dates[i] \in Int
      BY <1>1, <3>1 DEF n
    <3>3. i # 1 /\ i # 2
      BY <1>3, <2>2, <3>2
    <3>4. i - 1 \in 2 .. n - 1 /\ i - 1 + 1 = i /\ i - 1 \in 1 .. n - 1
      BY <1>1, <3>3 DEF n
    <3>5. t.dates[i - 1] = s.dates[i] /\ Len(t.dates) = n - 1
      BY <2>1, <2>2, <3>4
    <3>. QED  BY <3>4, <3>5 DEF t
  <2>3. CASE ~(n >= 2 /\ s.dates[2] <= s.dates[1])
    <3>. HIDE DEF t, n
    <3>. QED  BY <2>1, <2>3 DEF t, n
  <2>. QED  BY <2>2, <2>3
<1>. QED  BY <1>1, <1>2, <1>3

LEMMA RepairTracks ==
  ASSUME TypeInv, NotLost(legs.dates), Repair
  PROVE  NoneLost'
<1>. DEFINE s == TrimBack(legs)
           t == TrimFront(s)
           n == Len(legs.dates)
<1>1. /\ legs \in Legs /\ legs' = t /\ self' = self /\ seed' = seed /\ periods' = periods
  BY DEF TypeInv, Repair
<1>2. /\ s \in Legs
      /\ Len(s.dates) > 1 => /\ s.dates[1] = legs.dates[1] /\ n > 1
                             /\ s.dates[Len(s.dates)] = legs.dates[n]
      /\ \A i \in 1 .. n : legs.dates[i] < Last(legs.dates) =>
           \E j \in 1 .. Len(s.dates) : s.dates[j] = legs.dates[i]
  BY <1>1, TrimBackRepairs, TrimsKeep
<1>. HIDE DEF s
<1>3. /\ t \in Legs
      /\ Len(t.dates) > 1 => /\ t.dates[1] = s.dates[1] /\ Len(s.dates) > 1
                             /\ t.dates[Len(t.dates)] = s.dates[Len(s.dates)]
      /\ \A i \in 1 .. Len(s.dates) : First(s.dates) < s.dates[i] =>
           \E j \in 1 .. Len(t.dates) : t.dates[j] = s.dates[i]
  BY <1>2, TrimFrontRepairs, TrimsKeep
<1>. HIDE DEF t
<1>4. /\ Len(t.dates) \in Nat \ {0} /\ First(t.dates) = t.dates[1]
      /\ Last(t.dates) = t.dates[Len(t.dates)]
      /\ First(t.dates) \in Int /\ Last(t.dates) \in Int
      /\ First(s.dates) = s.dates[1] /\ Last(legs.dates) = legs.dates[n]
  BY <1>1, <1>2, <1>3, LegsAre, StartsType
<1>5. ASSUME NEW d \in Rolled, self.effective < d, d < self.termination,
             First(t.dates) < Adjusted(d), Adjusted(d) < Last(t.dates),
             AdjustedEnd(d) # Last(t.dates), Last(t.dates) \in Int, Adjusted(d) \in Int
      PROVE  Adjusted(d) \in {t.dates[i] : i \in DOMAIN t.dates}
  <2>1. Len(t.dates) > 1
    BY <1>4, <1>5
  <2>2. /\ First(t.dates) = First(s.dates) /\ Last(t.dates) = Last(legs.dates)
        /\ n > 1 /\ Last(t.dates) = legs.dates[n]
    BY <1>2, <1>3, <1>4, <2>1
  <2>3. PICK i \in 1 .. n : legs.dates[i] = Adjusted(d)
    BY <1>5, <2>2 DEF NotLost
  <2>4. PICK j \in 1 .. Len(s.dates) : s.dates[j] = Adjusted(d)
    BY <1>2, <1>5, <2>2, <2>3
  <2>5. PICK k \in 1 .. Len(t.dates) : t.dates[k] = Adjusted(d)
    BY <1>3, <1>5, <2>2, <2>4
  <2>6. DOMAIN t.dates = 1 .. Len(t.dates)
    BY <1>3, LegsAre
  <2>. QED  BY <2>5, <2>6
<1>6. ASSUME NEW d \in Rolled
      PROVE  Adjusted(d) \in Int
  <2>1. d \in Date
    BY DEF NotLost
  <2>2. self \in Arguments
    BY DEF TypeInv
  <2>. QED  BY <2>1, <2>2, MovesAreDates, StartsType
<1>7. \A d \in Rolled :
        self.effective < d /\ d < self.termination
          /\ First(t.dates) < Adjusted(d) /\ Adjusted(d) < Last(t.dates)
          /\ AdjustedEnd(d) # Last(t.dates)
        => Adjusted(d) \in {t.dates[i] : i \in DOMAIN t.dates}
  BY <1>4, <1>5, <1>6
<1>8. \A d \in Rolled' :
        self.effective' < d /\ d < self.termination'
          /\ First(legs'.dates) < Adjusted(d)' /\ Adjusted(d)' < Last(legs'.dates)
          /\ AdjustedEnd(d)' # Last(legs'.dates)
        => Adjusted(d)' \in {legs'.dates[i] : i \in DOMAIN legs'.dates}
  <2>1. Rolled' = Rolled
    BY <1>1 DEF Rolled, Multiple, Advance
  <2>. QED  BY <1>1, <1>7, <2>1 DEF Adjusted, AdjustedEnd
<1>. QED  BY <1>8 DEF NoneLost, First, Last

(***************************************************************************)
(* The invariant: where the dates at whole tenors are at every stage       *)
(***************************************************************************)
TrackInv ==
  /\ stage \in {"check", "begin"} => seed = NoDate
  /\ Plain /\ SameEnd =>
       /\ stage = "roll" => TrackedInv
       /\ stage = "adjust" => Followed(legs.dates)
       /\ stage = "repair" => NotLost(legs.dates)
       /\ NoneLost

LEMMA TrackNext ==
  ASSUME TypeInv, OrderInv, TrackInv, [Next]_vars
  PROVE  TrackInv'
<1>1. request' = request
  BY DEF Next, Check, BeginZero, BeginBackward, BeginForward, RollBackward, EndBackward,
         RollForward, EndForward, AdjustDates, Repair, Until, vars
<1>2. Plain' <=> Plain
  BY <1>1 DEF Plain, Ordered
<1>3. CASE Check
  BY <1>3 DEF TrackInv, Check, NoneLost
<1>4. CASE \E t \in Truncation : Until(t)
  BY <1>4 DEF TrackInv, Until, NoneLost
<1>5. CASE UNCHANGED vars
  <2>1. self' = self /\ stage' = stage /\ legs' = legs /\ seed' = seed /\ periods' = periods
    BY <1>5 DEF vars
  <2>2. Rolled' = Rolled /\ Latest' = Latest
    BY <2>1 DEF Rolled, Latest, Multiple, Advance
  <2>3. (SameEnd' <=> SameEnd) /\ (TrackedInv' <=> TrackedInv)
    BY <2>1, <2>2 DEF SameEnd, TrackedInv, Tracked, Tracks, Adjusted, AdjustedEnd
  <2>4. (Followed(legs.dates)' <=> Followed(legs.dates))
        /\ (NotLost(legs.dates)' <=> NotLost(legs.dates))
    BY <2>1, <2>2 DEF Followed, NotLost, Adjusted, AdjustedEnd
  <2>5. NoneLost' <=> NoneLost
    BY <1>2, <2>1, <2>2, <2>3 DEF NoneLost, Adjusted, AdjustedEnd
  <2>. QED  BY <1>2, <2>1, <2>3, <2>4, <2>5 DEF TrackInv
<1>6. ASSUME UNCHANGED self, stage \notin {"check", "built", "truncated"},
             stage' \in {"roll", "adjust", "repair", "built"},
             Plain /\ SameEnd =>
               /\ stage' = "roll" => TrackedInv'
               /\ stage' = "adjust" => Followed(legs.dates)'
               /\ stage' = "repair" => NotLost(legs.dates)'
               /\ stage' = "built" => NoneLost'
      PROVE  TrackInv'
  <2>1. SameEnd' <=> SameEnd
    BY <1>6 DEF SameEnd, Adjusted, AdjustedEnd
  <2>2. stage' # "built" => NoneLost'
    BY DEF NoneLost
  <2>. QED  BY <1>2, <1>6, <2>1, <2>2 DEF TrackInv
<1>7. CASE BeginZero
  <2>1. seed' = NoDate
    BY <1>7 DEF BeginZero, TrackInv
  <2>2. Followed(legs.dates)'
    BY <2>1 DEF Followed, Rolled
  <2>. QED  BY <1>6, <1>7, <2>2 DEF BeginZero
<1>8. CASE BeginBackward
  BY <1>6, <1>8, BeginBackwardTracks DEF BeginBackward
<1>9. CASE BeginForward
  BY <1>6, <1>9, BeginForwardTracks DEF BeginForward
<1>10. CASE RollBackward
  BY <1>6, <1>10, RollBackwardTracks DEF RollBackward, TrackInv
<1>11. CASE EndBackward
  BY <1>6, <1>11, EndBackwardTracks DEF EndBackward, TrackInv, OrderInv
<1>12. CASE RollForward
  BY <1>6, <1>12, RollForwardTracks DEF RollForward, TrackInv
<1>13. CASE EndForward
  BY <1>6, <1>13, EndForwardTracks DEF EndForward, TrackInv
<1>14. CASE AdjustDates
  BY <1>6, <1>14, AdjustTracks DEF AdjustDates, TrackInv, OrderInv
<1>15. CASE Repair
  BY <1>6, <1>15, RepairTracks DEF Repair, TrackInv
<1>. QED
  BY <1>3, <1>4, <1>5, <1>7, <1>8, <1>9, <1>10, <1>11, <1>12, <1>13, <1>14, <1>15 DEF Next

LEMMA TrackInvariant == Spec => []TrackInv
<1>1. Init => TrackInv
  BY DEF Init, TrackInv, NoneLost
<1>2. TypeInv /\ OrderInv /\ TrackInv /\ [Next]_vars => TrackInv'
  BY TrackNext
<1>. QED  BY <1>1, <1>2, TypeInvariant, OrderInvariant, PTL DEF Spec

(***************************************************************************)
(* No date at whole tenors from the seed is lost with the duplicates, in   *)
(* rolling or in the final checks: it is in the schedule as adjusted, if   *)
(* it comes between the ends and is not itself adjusted to the last.       *)
(***************************************************************************)
THEOREM NoDateLost == Spec => []NoneLost
<1>1. TrackInv => NoneLost
  BY DEF TrackInv, NoneLost
<1>. QED  BY <1>1, TrackInvariant, PTL

-----------------------------------------------------------------------------
(***************************************************************************)
(* Flags: dates at successive multiples of the tenor are a tenor apart,    *)
(* from the one or from the other                                          *)
(***************************************************************************)

MonthLength(m) == MonthStart[m + 1] - MonthStart[m]

LEMMA AddMonthsDay ==
  ASSUME NEW d \in Date, NEW n \in Int, Month(d) + n \in Months
  PROVE  LET m == Month(d) + n IN
         /\ Day(d) \in Int /\ MonthLength(m) \in Int
         /\ Day(AddMonths(d, n)) = Earlier(Day(d), MonthLength(m))
         /\ AddMonths(d, n) = On(Earlier(Day(d), MonthLength(m)), m)
<1>. DEFINE m == Month(d) + n
           e == AddMonths(d, n)
           l == MonthLength(m)
<1>1. MonthStart[m] \in Int /\ MonthStart[m + 1] \in Int
  BY StartsType
<1>2. Day(d) \in Int
  BY DayIs, MonthType, StartsType
<1>3. Month(e) = m
  BY AddMonthsIs
<1>4. e = Earlier(On(Day(d), m), MonthStart[m + 1] - 1)
  BY DEF AddMonths
<1>5. Day(e) = e - MonthStart[m] + 1
  BY <1>3 DEF Day
<1>. HIDE DEF m, e
<1>6. l = MonthStart[m + 1] - MonthStart[m] /\ l \in Int
  BY <1>1 DEF MonthLength
<1>. HIDE DEF l
<1>7. e = On(Earlier(Day(d), l), m) /\ Day(e) = Earlier(Day(d), l)
  BY <1>1, <1>2, <1>4, <1>5, <1>6 DEF Earlier, On
<1>. QED  BY <1>2, <1>6, <1>7 DEF m, e, l

LEMMA AddMonthsBack ==
  ASSUME NEW d \in Date, NEW i \in Int, NEW j \in Int,
         Month(d) + i \in Months, Month(d) + j \in Months
  PROVE  \/ AddMonths(d, j) = AddMonths(AddMonths(d, i), j - i)
         \/ AddMonths(d, i) = AddMonths(AddMonths(d, j), i - j)
<1>. DEFINE x == AddMonths(d, i)
           y == AddMonths(d, j)
           m == Month(d) + i
           n == Month(d) + j
           a == Day(d)
           p == MonthLength(m)
           q == MonthLength(n)
<1>1. /\ x \in Date /\ Month(x) = m /\ y \in Date /\ Month(y) = n
  BY AddMonthsIs
<1>2. /\ a \in Int /\ p \in Int /\ q \in Int
      /\ Day(x) = Earlier(a, p) /\ x = On(Earlier(a, p), m)
      /\ Day(y) = Earlier(a, q) /\ y = On(Earlier(a, q), n)
  BY AddMonthsDay
<1>3. /\ Month(d) \in Int /\ i - j \in Int /\ j - i \in Int
      /\ m + (j - i) = n /\ n + (i - j) = m
  BY MonthType
<1>. HIDE DEF x, y, a, p, q
<1>4. AddMonths(x, j - i) = On(Earlier(Earlier(a, p), q), n)
  <2>1. Month(x) + (j - i) = n /\ n \in Months
    BY <1>1, <1>3
  <2>. HIDE DEF n, m
  <2>2. AddMonths(x, j - i) = On(Earlier(Day(x), MonthLength(n)), n)
    BY <1>1, <1>3, <2>1, AddMonthsDay
  <2>. QED  BY <1>2, <2>2 DEF q
<1>5. AddMonths(y, i - j) = On(Earlier(Earlier(a, q), p), m)
  <2>1. Month(y) + (i - j) = m /\ m \in Months
    BY <1>1, <1>3
  <2>. HIDE DEF n, m
  <2>2. AddMonths(y, i - j) = On(Earlier(Day(y), MonthLength(m)), m)
    BY <1>1, <1>3, <2>1, AddMonthsDay
  <2>. QED  BY <1>2, <2>2 DEF p
<1>6. Earlier(Earlier(a, p), q) = Earlier(a, q) \/ Earlier(Earlier(a, q), p) = Earlier(a, p)
  BY <1>2 DEF Earlier
<1>7. y = AddMonths(x, j - i) \/ x = AddMonths(y, i - j)
  BY <1>2, <1>4, <1>5, <1>6
<1>. QED  BY <1>7 DEF x, y

Apace(x, y) == y = Advance(x, 1) \/ x = Advance(y, -1)

LEMMA MultiplesApace ==
  ASSUME self \in Arguments, ~self.endOfMonth, NEW d \in Date, NEW k \in Int,
         Reaches(d, k), Reaches(d, k + 1)
  PROVE  Apace(Advance(d, k), Advance(d, k + 1))
<1>. DEFINE len == self.tenor.length
           x == Advance(d, k)
           y == Advance(d, k + 1)
<1>1. len \in Int /\ self.tenor.unit \in {"Days", "Months"} /\ d \in Int
  BY ArgumentTypes, StartsType
<1>2. /\ (k + 1) * len = k * len + len /\ k * len \in Int
      /\ 1 * len = len /\ (-1) * len = -len
  BY <1>1
<1>3. CASE self.tenor.unit = "Days"
  <2>1. x = d + k * len /\ y = d + (k + 1) * len
    BY <1>3 DEF Advance
  <2>2. Advance(x, 1) = x + 1 * len
    BY <1>3 DEF Advance
  <2>. HIDE DEF x, y
  <2>3. y = Advance(x, 1)
    BY <1>1, <1>2, <2>1, <2>2
  <2>. QED  BY <2>3 DEF Apace, x, y
<1>4. CASE self.tenor.unit # "Days"
  <2>. DEFINE i == k * len
             j == k * len + len
  <2>1. x = AddMonths(d, i) /\ y = AddMonths(d, j)
    BY <1>2, <1>4 DEF Advance
  <2>2. Advance(x, 1) = AddMonths(x, len) /\ Advance(y, -1) = AddMonths(y, -len)
    BY <1>2, <1>4 DEF Advance
  <2>3. Month(d) + i \in Months /\ Month(d) + j \in Months
    BY <1>2, <1>4 DEF Reaches
  <2>4. i \in Int /\ j \in Int /\ j - i = len /\ i - j = -len
    BY <1>1, <1>2
  <2>. HIDE DEF x, y, i, j
  <2>5. y = AddMonths(x, len) \/ x = AddMonths(y, -len)
    BY <2>1, <2>3, <2>4, AddMonthsBack
  <2>. QED  BY <2>2, <2>5 DEF Apace, x, y
<1>. QED  BY <1>3, <1>4

\* The dates that the ends of a regular period come from
Known == Rolled \cup {self.effective, self.termination}

\* The period at i runs from x to y but for adjustment.
Spans(ds, i, x, y) ==
  /\ Apace(x, y)
  /\ Adjusted(ds[i]) = Adjusted(x) /\ Adjusted(ds[i + 1]) = Adjusted(y)
  /\ self.rule # "Backward" => ds[i + 1] = y

Flagged(s, known) ==
  \A i \in 1 .. Len(s.isRegular) :
    s.isRegular[i] => \E x \in known, y \in known : Spans(s.dates, i, x, y)

LEMMA PushFrontFlags ==
  ASSUME NEW s \in Legs, NEW d \in Date, NEW flag \in BOOLEAN, NEW known, Flagged(s, known),
         self.rule = "Backward",
         flag => \E x \in known, y \in known :
                   Apace(x, y) /\ Adjusted(d) = Adjusted(x) /\ Adjusted(First(s.dates)) = Adjusted(y)
  PROVE  Flagged(PushFront(s, d, flag), known)
<1>. DEFINE t == PushFront(s, d, flag)
           n == Len(s.isRegular)
<1>1. PushedFront(s, d, flag, t)
  BY PushFrontIs
<1>. HIDE DEF t
<1>2. /\ Len(t.isRegular) = n + 1 /\ t.dates[1] = d /\ t.isRegular[1] = flag
      /\ \A i \in 1 .. n + 1 : t.dates[i + 1] = s.dates[i]
      /\ \A i \in 1 .. n : t.isRegular[i + 1] = s.isRegular[i]
      /\ n \in Nat /\ First(s.dates) = s.dates[1]
  BY <1>1, LegsAre DEF PushedFront
<1>. HIDE DEF n
<1>3. ASSUME NEW i \in 1 .. n + 1, t.isRegular[i]
      PROVE  \E x \in known, y \in known : Spans(t.dates, i, x, y)
  <2>1. CASE i = 1
    <3>1. PICK x \in known, y \in known :
            Apace(x, y) /\ Adjusted(d) = Adjusted(x) /\ Adjusted(First(s.dates)) = Adjusted(y)
      BY <1>2, <1>3, <2>1
    <3>2. t.dates[1 + 1] = s.dates[1]
      BY <1>2
    <3>3. Spans(t.dates, 1, x, y)
      BY <1>2, <3>1, <3>2 DEF Spans
    <3>. QED  BY <2>1, <3>3
  <2>2. CASE i # 1
    <3>. DEFINE j == i - 1
    <3>1. j \in 1 .. n /\ j + 1 = i /\ j \in 1 .. n + 1 /\ i \in 1 .. n + 1
      BY <1>2, <2>2
    <3>. HIDE DEF j
    <3>2. s.isRegular[j] /\ t.dates[i] = s.dates[j] /\ t.dates[i + 1] = s.dates[j + 1]
      BY <1>2, <1>3, <3>1
    <3>3. PICK x \in known, y \in known : Spans(s.dates, j, x, y)
      BY <3>1, <3>2 DEF Flagged, n
    <3>4. Spans(t.dates, i, x, y)
      BY <3>2, <3>3 DEF Spans
    <3>. QED  BY <3>4
  <2>. QED  BY <2>1, <2>2
<1>. QED  BY <1>2, <1>3 DEF Flagged, t

LEMMA PushBackFlags ==
  ASSUME NEW s \in Legs, NEW d \in Date, NEW flag \in BOOLEAN, NEW known, Flagged(s, known),
         flag => d \in known /\ \E x \in known : Apace(x, d) /\ Adjusted(Last(s.dates)) = Adjusted(x)
  PROVE  Flagged(PushBack(s, d, flag), known)
<1>. DEFINE t == PushBack(s, d, flag)
           n == Len(s.isRegular)
<1>1. PushedBack(s, d, flag, t)
  BY PushBackIs
<1>. HIDE DEF t
<1>2. /\ Len(t.isRegular) = n + 1 /\ t.dates[n + 1 + 1] = d /\ t.isRegular[n + 1] = flag
      /\ \A i \in 1 .. n + 1 : t.dates[i] = s.dates[i]
      /\ \A i \in 1 .. n : t.isRegular[i] = s.isRegular[i]
      /\ n \in Nat /\ Last(s.dates) = s.dates[n + 1]
  BY <1>1, LegsAre DEF PushedBack
<1>. HIDE DEF n
<1>3. ASSUME NEW i \in 1 .. n + 1, t.isRegular[i]
      PROVE  \E x \in known, y \in known : Spans(t.dates, i, x, y)
  <2>1. CASE i = n + 1
    <3>1. PICK x \in known : Apace(x, d) /\ Adjusted(Last(s.dates)) = Adjusted(x)
      BY <1>2, <1>3, <2>1
    <3>2. t.dates[i] = Last(s.dates) /\ t.dates[i + 1] = d /\ d \in known
      BY <1>2, <1>3, <2>1
    <3>3. Spans(t.dates, i, x, d)
      BY <3>1, <3>2 DEF Spans
    <3>. QED  BY <3>2, <3>3
  <2>2. CASE i # n + 1
    <3>1. i \in 1 .. n /\ i + 1 \in 1 .. n + 1
      BY <1>2, <2>2
    <3>2. s.isRegular[i] /\ t.dates[i] = s.dates[i] /\ t.dates[i + 1] = s.dates[i + 1]
      BY <1>2, <1>3, <3>1
    <3>3. PICK x \in known, y \in known : Spans(s.dates, i, x, y)
      BY <3>1, <3>2 DEF Flagged, n
    <3>4. Spans(t.dates, i, x, y)
      BY <3>2, <3>3 DEF Spans
    <3>. QED  BY <3>4
  <2>. QED  BY <2>1, <2>2
<1>. QED  BY <1>2, <1>3 DEF Flagged, t

LEMMA FlaggedMore ==
  ASSUME NEW s, NEW S, NEW T, S \subseteq T, Flagged(s, S)
  PROVE  Flagged(s, T)
BY DEF Flagged

LEMMA BeginBackwardFlags ==
  ASSUME TypeInv, BeginBackward
  PROVE  Flagged(legs, Known)'
<1>. DEFINE s == legs'
           known == Rolled' \cup {self.effective, self.termination}
<1>1. /\ self \in Arguments /\ seed' \in Date /\ periods = 1 /\ s \in Legs
      /\ self' = self /\ periods' = periods
  BY BeginBackwardIs DEF BeginBackward, TypeInv
<1>2. Rolled' = {seed'}
  BY <1>1, RolledBegins
<1>3. CASE self.nextToLast = NoDate
  <2>1. Len(s.isRegular) = 0
    BY <1>3, BeginBackwardIs
  <2>. QED  BY <2>1 DEF Flagged
<1>4. CASE self.nextToLast # NoDate
  <2>1. /\ seed' = self.nextToLast /\ Len(s.dates) = 2 /\ s.dates[1] = seed'
        /\ s.dates[1 + 1] = self.termination /\ self.rule = "Backward"
        /\ s.isRegular[1] = (Advance(self.termination, -1) = seed')
    BY <1>4, BeginBackwardIs DEF BeginBackward
  <2>2. Len(s.isRegular) = 1
    <3>1. Len(s.isRegular) \in Nat /\ Len(s.dates) = Len(s.isRegular) + 1
      BY <1>1, LegsAre
    <3>2. Len(s.dates) = 2
      BY <2>1
    <3>3. \A a, b : a \in Nat /\ b = 2 /\ b = a + 1 => a = 1
      OBVIOUS
    <3>. QED  BY <3>1, <3>2, <3>3, Zenon
  <2>5. seed' \in known /\ self.termination \in known
    BY <1>2
  <2>. HIDE DEF s, known
  <2>3. s.isRegular[1] => Spans(s.dates, 1, seed', self.termination)
    BY <2>1 DEF Spans, Apace
  <2>4. Flagged(s, known)
    BY <2>2, <2>3, <2>5 DEF Flagged
  <2>. QED
    BY <1>1, <2>4 DEF Flagged, Spans, Apace, Advance, Adjusted, Known, s, known
<1>. QED  BY <1>3, <1>4

LEMMA BeginForwardFlags ==
  ASSUME TypeInv, BeginForward, self.rule = "Forward"
  PROVE  Flagged(legs, Known)'
<1>. DEFINE s == legs'
           known == Rolled' \cup {self.effective, self.termination}
<1>1. /\ self \in Arguments /\ seed' \in Date /\ periods = 1 /\ s \in Legs
      /\ self' = self /\ periods' = periods /\ s.dates[1] = self.effective
  BY BeginForwardIs DEF BeginForward, TypeInv, From
<1>2. Rolled' = {seed'}
  BY <1>1, RolledBegins
<1>3. CASE Len(s.isRegular) = 0
  BY <1>3 DEF Flagged
<1>4. CASE Len(s.isRegular) # 0
  <2>1. /\ s.dates[1 + 1] = seed' /\ Len(s.isRegular) = 1
        /\ s.isRegular[1] => seed' = Advance(self.effective, 1)
    <3>1. From = self.effective
      BY DEF From
    <3>. HIDE DEF s
    <3>2. /\ s.dates[2] = seed' /\ Len(s.isRegular) = 1
          /\ s.isRegular[1] = (~Credit(self.rule) /\ seed' = Advance(From, 1))
      BY <1>4, BeginForwardIs DEF s
    <3>3. 1 + 1 = 2
      OBVIOUS
    <3>. QED  BY <3>1, <3>2, <3>3
  <2>2. seed' \in known /\ self.effective \in known
    BY <1>2
  <2>. HIDE DEF s, known
  <2>3. s.isRegular[1] => Spans(s.dates, 1, self.effective, seed')
    BY <1>1, <2>1 DEF Spans, Apace
  <2>4. Flagged(s, known)
    BY <2>1, <2>2, <2>3 DEF Flagged
  <2>. QED
    BY <1>1, <2>4 DEF Flagged, Spans, Apace, Advance, Adjusted, Known, s, known
<1>. QED  BY <1>3, <1>4

LEMMA RollBackwardFlags ==
  ASSUME TypeInv, Plain, BackShapeInv, Flagged(legs, Known), RollBackward
  PROVE  Flagged(legs, Known)'
<1>. DEFINE temp == Advance(seed, -periods)
           known == Rolled' \cup {self.effective, self.termination}
<1>1. /\ Rolling /\ Sound /\ self.rule = "Backward" /\ legs \in Legs /\ temp >= Exit
      /\ self \in Arguments /\ NoDate \notin Date /\ ~self.endOfMonth
      /\ seed \in Date /\ periods \in Nat \ {0}
  BY ArgumentTypes, PlainIs DEF TypeInv, RollBackward, Exit, Rolling
<1>2. temp \in Date
  BY <1>1, ExitIs, StaysBackward
<1>3. /\ legs' = PushFrontUnlessSame(legs, temp, TRUE) /\ self' = self /\ seed' = seed
      /\ periods' = periods + 1
  BY DEF RollBackward
<1>4. Rolled' = Rolled \cup {temp} /\ Latest \in Rolled
  BY <1>1, <1>3, RolledGrows DEF Multiple
<1>5. Apace(temp, Latest)
  <2>1. Reaches(seed, -periods) /\ Reaches(seed, -(periods - 1))
    BY <1>1, ReachesLess DEF Rolling, Way
  <2>2. -periods \in Int /\ -(periods - 1) = -periods + 1
    BY <1>1
  <2>3. Apace(Advance(seed, -periods), Advance(seed, -periods + 1))
    BY <1>1, <2>1, <2>2, MultiplesApace
  <2>. QED  BY <1>1, <2>2, <2>3 DEF Latest, Multiple
<1>6. Flagged(legs, known)
  BY <1>4, FlaggedMore DEF Known
<1>7. Adjusted(First(legs.dates)) = Adjusted(Latest)
  BY DEF BackShapeInv
<1>8. TRUE \in BOOLEAN /\ temp \in known /\ Latest \in known
  BY <1>4
<1>. HIDE DEF temp, known
<1>9. Flagged(PushFront(legs, temp, TRUE), known)
  BY <1>1, <1>2, <1>5, <1>6, <1>7, <1>8, PushFrontFlags
<1>10. Flagged(legs', known)
  BY <1>3, <1>6, <1>9 DEF PushFrontUnlessSame
<1>11. Known' = known /\ self' = self
  BY <1>3 DEF Known, known
<1>. QED
  BY <1>10, <1>11 DEF Flagged, Spans, Apace, Advance, Adjusted

LEMMA RollForwardFlags ==
  ASSUME TypeInv, Plain, FrontShapeInv, Flagged(legs, Known), RollForward
  PROVE  Flagged(legs, Known)'
<1>. DEFINE temp == Advance(seed, periods)
           known == Rolled' \cup {self.effective, self.termination}
<1>1. /\ Rolling /\ Sound /\ self.rule # "Backward" /\ legs \in Legs /\ temp <= Exit
      /\ self \in Arguments /\ NoDate \notin Date /\ ~self.endOfMonth
      /\ seed \in Date /\ periods \in Nat \ {0}
  BY ArgumentTypes, PlainIs DEF TypeInv, RollForward, Exit, Rolling
<1>2. temp \in Date
  BY <1>1, ExitIs, StaysForward
<1>3. /\ legs' = PushBackUnlessSame(legs, temp, TRUE) /\ self' = self /\ seed' = seed
      /\ periods' = periods + 1
  BY DEF RollForward
<1>4. Rolled' = Rolled \cup {temp} /\ Latest \in Rolled
  BY <1>1, <1>3, RolledGrows DEF Multiple
<1>5. Apace(Latest, temp)
  <2>1. Reaches(seed, periods) /\ Reaches(seed, periods - 1)
    BY <1>1, ReachesLess DEF Rolling, Way
  <2>2. periods - 1 \in Int /\ periods - 1 + 1 = periods
    BY <1>1
  <2>3. Apace(Advance(seed, periods - 1), Advance(seed, periods - 1 + 1))
    BY <1>1, <2>1, <2>2, MultiplesApace
  <2>. QED  BY <1>1, <2>2, <2>3 DEF Latest, Multiple
<1>6. Flagged(legs, known)
  BY <1>4, FlaggedMore DEF Known
<1>7. Adjusted(Last(legs.dates)) = Adjusted(Latest)
  BY DEF FrontShapeInv
<1>8. TRUE \in BOOLEAN /\ temp \in known /\ Latest \in known
  BY <1>4
<1>. HIDE DEF temp, known
<1>9. Flagged(PushBack(legs, temp, TRUE), known)
  BY <1>1, <1>2, <1>5, <1>6, <1>7, <1>8, PushBackFlags
<1>10. Flagged(legs', known)
  BY <1>3, <1>6, <1>9 DEF PushBackUnlessSame
<1>11. Known' = known /\ self' = self
  BY <1>3 DEF Known, known
<1>. QED
  BY <1>10, <1>11 DEF Flagged, Spans, Apace, Advance, Adjusted

LEMMA EndBackwardFlags ==
  ASSUME TypeInv, BackShapeInv, Flagged(legs, Known), EndBackward
  PROVE  (Flagged(legs, Known) /\ Last(legs.dates) = self.termination)'
<1>1. /\ Sound /\ self \in Arguments /\ self.rule = "Backward" /\ legs \in Legs
  BY ArgumentTypes DEF TypeInv, EndBackward
<1>2. FALSE \in BOOLEAN /\ self.effective \in Date /\ (self.first # NoDate => self.first \in Date)
  BY <1>1, EffectiveRoom, ArgumentTypes
<1>. DEFINE kept == IF self.first = NoDate THEN legs
                   ELSE PushFrontUnlessSame(legs, self.first, FALSE)
           last == PushFrontUnlessSame(kept, self.effective, FALSE)
<1>3. ASSUME NEW s \in Legs, NEW d \in Date, Flagged(s, Known), Last(s.dates) = self.termination
      PROVE  /\ PushFrontUnlessSame(s, d, FALSE) \in Legs
             /\ Flagged(PushFrontUnlessSame(s, d, FALSE), Known)
             /\ Last(PushFrontUnlessSame(s, d, FALSE).dates) = self.termination
  <2>1. Flagged(PushFront(s, d, FALSE), Known)
    BY <1>1, <1>2, <1>3, PushFrontFlags
  <2>2. Flagged(PushFrontUnlessSame(s, d, FALSE), Known)
    BY <1>3, <2>1 DEF PushFrontUnlessSame
  <2>. QED  BY <1>2, <1>3, <2>2, PushFrontKeeps
<1>4. Last(legs.dates) = self.termination
  BY <1>1, LegsAre DEF BackShapeInv, BackShape
<1>5. kept \in Legs /\ Flagged(kept, Known) /\ Last(kept.dates) = self.termination
  BY <1>1, <1>2, <1>3, <1>4
<1>. HIDE DEF kept
<1>6. Flagged(last, Known) /\ Last(last.dates) = self.termination
  BY <1>2, <1>3, <1>5
<1>7. legs' = last /\ self' = self /\ seed' = seed /\ periods' = periods
  BY DEF EndBackward, kept
<1>. HIDE DEF last
<1>8. Known' = Known
  BY <1>7 DEF Known, Rolled, Multiple, Advance
<1>. QED
  BY <1>6, <1>7, <1>8 DEF Flagged, Spans, Apace, Advance, Adjusted, Last

LEMMA EndForwardFlags ==
  ASSUME TypeInv, Flagged(legs, Known), EndForward, self.rule = "Forward"
  PROVE  Flagged(legs, Known)'
<1>1. /\ Sound /\ self \in Arguments /\ legs \in Legs /\ ~Credit(self.rule)
  BY ArgumentTypes DEF TypeInv, EndForward, Credit, Cycled
<1>2. /\ FALSE \in BOOLEAN /\ self.termination \in Date
      /\ (self.nextToLast # NoDate => self.nextToLast \in Date)
  BY <1>1, EffectiveRoom, ArgumentTypes
<1>. DEFINE kept == IF self.nextToLast = NoDate THEN legs
                   ELSE PushBackUnlessSame(legs, self.nextToLast, FALSE)
<1>3. ASSUME NEW s \in Legs, NEW d \in Date, Flagged(s, Known)
      PROVE  Flagged(PushBack(s, d, FALSE), Known)
  BY <1>2, <1>3, PushBackFlags
<1>4. kept \in Legs /\ Flagged(kept, Known)
  BY <1>1, <1>2, <1>3, PushUnlessSame DEF PushBackUnlessSame
<1>5. legs' = CloseForward(kept) /\ self' = self /\ seed' = seed /\ periods' = periods
  BY DEF EndForward
<1>. HIDE DEF kept
<1>6. Flagged(CloseForward(kept), Known)
  BY <1>1, <1>2, <1>3, <1>4 DEF CloseForward
<1>7. Known' = Known
  BY <1>5 DEF Known, Rolled, Multiple, Advance
<1>. QED
  BY <1>5, <1>6, <1>7 DEF Flagged, Spans, Apace, Advance, Adjusted

LEMMA AdjustFlags ==
  ASSUME TypeInv, Plain, SameEnd, self.rule \in {"Backward", "Forward"},
         Shape(legs.dates), Flagged(legs, Known),
         self.rule = "Backward" => Last(legs.dates) = self.termination, AdjustDates
  PROVE  FlagsTrue'
<1>. DEFINE ds == legs.dates
           es == legs'.dates
           n  == Len(ds)
<1>1. /\ n \in Nat \ {0} /\ Len(es) = n
      /\ \A i \in 2 .. n - 1 : es[i] = Adjusted(ds[i])
      /\ n > 1 => es[1] = IF self.rule = "OldCDS" THEN ds[1] ELSE Adjusted(ds[1])
      /\ n > 1 => es[n] = AdjustedEnd(ds[n])
  BY AdjustDatesIs
<1>2. /\ legs'.isRegular = legs.isRegular /\ self' = self /\ seed' = seed /\ periods' = periods
  <2>1. /\ self' = self /\ seed' = seed /\ periods' = periods
    BY DEF AdjustDates
  <2>2. legs'.isRegular = legs.isRegular
    BY DEF AdjustDates
  <2>. QED  BY <2>1, <2>2
<1>3. /\ legs.isRegular \in Seq(BOOLEAN) /\ Len(legs.isRegular) \in Nat
      /\ n = Len(legs.isRegular) + 1 /\ Last(ds) = ds[n]
  BY LegsAre DEF TypeInv, AdjustDates
<1>4. DOMAIN legs.isRegular = 1 .. n - 1
  BY <1>3
<1>5. ASSUME NEW i \in 1 .. n - 1, legs.isRegular[i]
      PROVE  \E x \in Known, y \in Known :
               /\ Apace(x, y)
               /\ es[i] = Adjusted(x)
               /\ es[i + 1] \in {Adjusted(y), AdjustedEnd(y)}
  <2>1. i \in 1 .. Len(legs.isRegular)
    BY <1>3
  <2>2. PICK x \in Known, y \in Known : Spans(ds, i, x, y)
    BY <1>5, <2>1 DEF Flagged
  <2>3. /\ Apace(x, y) /\ Adjusted(ds[i]) = Adjusted(x) /\ Adjusted(ds[i + 1]) = Adjusted(y)
        /\ self.rule # "Backward" => ds[i + 1] = y
    BY <2>2 DEF Spans
  <2>. HIDE DEF ds, es, n
  <2>4. es[i] = Adjusted(x)
    <3>1. CASE i = 1
      BY <1>1, <2>3, <3>1
    <3>2. CASE i # 1
      <4>1. i \in 2 .. n - 1
        BY <1>1, <3>2
      <4>. QED  BY <1>1, <2>3, <4>1
    <3>. QED  BY <3>1, <3>2
  <2>5. es[i + 1] \in {Adjusted(y), AdjustedEnd(y)}
    <3>1. CASE i + 1 = n
      <4>1. es[n] = AdjustedEnd(ds[n])
        BY <1>1, <3>1
      <4>2. CASE self.rule = "Backward"
        <5>1. ds[n] = self.termination
          BY <1>3, <4>2 DEF ds
        <5>2. AdjustedEnd(ds[n]) = Adjusted(ds[n])
          BY <4>2, <5>1 DEF SameEnd
        <5>. QED  BY <2>3, <3>1, <4>1, <5>2
      <4>3. CASE self.rule # "Backward"
        BY <2>3, <3>1, <4>1, <4>3
      <4>. QED  BY <4>2, <4>3
    <3>2. CASE i + 1 # n
      <4>1. i + 1 \in 2 .. n - 1
        BY <1>1, <3>2
      <4>. QED  BY <1>1, <2>3, <4>1
    <3>. QED  BY <3>1, <3>2
  <2>. QED  BY <2>3, <2>4, <2>5
<1>6. Known' = Known
  BY <1>2 DEF Known, Rolled, Multiple, Advance
<1>. HIDE DEF ds, es, n
<1>. DEFINE set == Rolled \cup {self.effective, self.termination}
           Comes(f) == {x \in set : f \in {Adjusted(x), AdjustedEnd(x)}}
<1>7. ASSUME NEW i \in DOMAIN legs.isRegular, legs.isRegular[i]
      PROVE  \E x \in Comes(es[i]), y \in Comes(es[i + 1]) :
               y = Advance(x, 1) \/ x = Advance(y, -1)
  <2>1. PICK x \in Known, y \in Known :
          Apace(x, y) /\ es[i] = Adjusted(x) /\ es[i + 1] \in {Adjusted(y), AdjustedEnd(y)}
    BY <1>4, <1>5, <1>7
  <2>2. x \in Comes(es[i]) /\ y \in Comes(es[i + 1])
    BY <2>1 DEF Known
  <2>. HIDE DEF Comes
  <2>. QED  BY <2>1, <2>2 DEF Apace
<1>. DEFINE Came(f) == {x \in set' : f \in {Adjusted(x)', AdjustedEnd(x)'}}
<1>8. ASSUME NEW i \in DOMAIN legs'.isRegular, legs'.isRegular[i]
      PROVE  \E x \in Came(legs'.dates[i]), y \in Came(legs'.dates[i + 1]) :
               y = Advance(x, 1)' \/ x = Advance(y, -1)'
  <2>1. PICK x \in Comes(es[i]), y \in Comes(es[i + 1]) : y = Advance(x, 1) \/ x = Advance(y, -1)
    BY <1>2, <1>7, <1>8
  <2>2. set' = set
    BY <1>2 DEF Rolled, Multiple, Advance
  <2>3. /\ Adjusted(x)' = Adjusted(x) /\ AdjustedEnd(x)' = AdjustedEnd(x)
        /\ Adjusted(y)' = Adjusted(y) /\ AdjustedEnd(y)' = AdjustedEnd(y)
    BY <1>2 DEF Adjusted, AdjustedEnd
  <2>4. Advance(x, 1)' = Advance(x, 1) /\ Advance(y, -1)' = Advance(y, -1)
    BY <1>2 DEF Advance
  <2>. HIDE DEF set
  <2>. QED  BY <2>1, <2>2, <2>3, <2>4 DEF es
<1>. QED  BY <1>8 DEF FlagsTrue, Tenor

(***************************************************************************)
(* The invariant: what the flags say at every stage                        *)
(***************************************************************************)
FlagInv ==
  Plain /\ self.rule \in {"Backward", "Forward"} =>
    /\ stage \in {"roll", "adjust"} => Flagged(legs, Known)
    /\ stage = "adjust" /\ self.rule = "Backward" => Last(legs.dates) = self.termination
    /\ FlagsTrue

LEMMA FlagNext ==
  ASSUME TypeInv, OrderInv, FlagInv, [Next]_vars
  PROVE  FlagInv'
<1>1. request' = request
  BY DEF Next, Check, BeginZero, BeginBackward, BeginForward, RollBackward, EndBackward,
         RollForward, EndForward, AdjustDates, Repair, Until, vars
<1>2. Plain' <=> Plain
  BY <1>1 DEF Plain, Ordered
<1>3. CASE stage' \in {"check", "begin", "built", "truncated", "refused"}
  BY <1>3 DEF FlagInv, FlagsTrue
<1>4. CASE UNCHANGED vars
  <2>1. self' = self /\ stage' = stage /\ legs' = legs /\ seed' = seed /\ periods' = periods
    BY <1>4 DEF vars
  <2>2. Known' = Known
    BY <2>1 DEF Known, Rolled, Multiple, Advance
  <2>3. Flagged(legs, Known)' <=> Flagged(legs, Known)
    BY <2>1, <2>2 DEF Flagged, Spans, Apace, Advance, Adjusted
  <2>4. FlagsTrue' <=> FlagsTrue
    BY <1>2, <2>1 DEF FlagsTrue, SameEnd, Tenor, Rolled, Multiple, Advance, Adjusted, AdjustedEnd
  <2>5. (Last(legs.dates) = self.termination)' <=> Last(legs.dates) = self.termination
    BY <2>1 DEF Last
  <2>. QED  BY <1>2, <2>1, <2>3, <2>4, <2>5 DEF FlagInv
<1>5. ASSUME UNCHANGED self, stage' \in {"roll", "adjust"},
             Plain /\ self.rule \in {"Backward", "Forward"} =>
               /\ Flagged(legs, Known)'
               /\ stage' = "adjust" /\ self.rule = "Backward" =>
                    (Last(legs.dates) = self.termination)'
      PROVE  FlagInv'
  <2>1. FlagsTrue'
    BY <1>5 DEF FlagsTrue
  <2>. QED  BY <1>2, <1>5, <2>1 DEF FlagInv
<1>6. CASE BeginZero
  BY <1>5, <1>6 DEF BeginZero
<1>7. CASE BeginBackward
  BY <1>5, <1>7, BeginBackwardFlags DEF BeginBackward
<1>8. CASE BeginForward
  BY <1>5, <1>8, BeginForwardFlags DEF BeginForward
<1>9. CASE RollBackward
  BY <1>5, <1>9, RollBackwardFlags DEF RollBackward, FlagInv, OrderInv
<1>10. CASE EndBackward
  BY <1>5, <1>10, EndBackwardFlags DEF EndBackward, FlagInv, OrderInv
<1>11. CASE RollForward
  BY <1>5, <1>11, RollForwardFlags DEF RollForward, FlagInv, OrderInv
<1>12. CASE EndForward
  BY <1>5, <1>12, EndForwardFlags DEF EndForward, FlagInv
<1>13. CASE AdjustDates
  <2>1. stage = "adjust" /\ stage' = "repair" /\ self' = self
    BY <1>13 DEF AdjustDates
  <2>2. SameEnd' <=> SameEnd
    BY <2>1 DEF SameEnd, Adjusted, AdjustedEnd
  <2>3. CASE Plain /\ SameEnd /\ self.rule \in {"Backward", "Forward"}
    <3>1. FlagsTrue'
      BY <1>13, <2>1, <2>3, AdjustFlags DEF FlagInv, OrderInv
    <3>. QED  BY <2>1, <3>1 DEF FlagInv
  <2>4. CASE ~(Plain /\ SameEnd /\ self.rule \in {"Backward", "Forward"})
    BY <1>2, <2>1, <2>2, <2>4 DEF FlagInv, FlagsTrue
  <2>. QED  BY <2>3, <2>4
<1>14. CASE Check \/ Repair \/ \E t \in Truncation : Until(t)
  BY <1>3, <1>14 DEF Check, Repair, Until
<1>. QED
  BY <1>4, <1>6, <1>7, <1>8, <1>9, <1>10, <1>11, <1>12, <1>13, <1>14 DEF Next

LEMMA FlagInvariant == Spec => []FlagInv
<1>1. Init => FlagInv
  BY DEF Init, FlagInv, FlagsTrue
<1>2. TypeInv /\ OrderInv /\ FlagInv /\ [Next]_vars => FlagInv'
  BY FlagNext
<1>. QED  BY <1>1, <1>2, TypeInvariant, OrderInvariant, PTL DEF Spec

(***************************************************************************)
(* Until the final checks, a period flagged as regular is one tenor long   *)
(* but for the adjustment of its ends: the flags made at the two ends, in  *)
(* rolling and where dates were skipped, and whatever the months' lengths. *)
(***************************************************************************)
THEOREM FlagsAlwaysTrue == Spec => []FlagsTrue
<1>1. FlagInv => FlagsTrue
  BY DEF FlagInv, FlagsTrue
<1>. QED  BY <1>1, FlagInvariant, PTL
=============================================================================
