--------------------- MODULE PiecewiseYieldCurveProofs ---------------------
(***************************************************************************)
(* For any dates, calendar, helpers and quotes: the types of the curve's   *)
(* members; and, when observers do not read while they are notified, the   *)
(* freshness of what the curve returns.                                    *)
(***************************************************************************)
EXTENDS PiecewiseYieldCurve, FiniteSetTheorems, TLAPS

Schedules == [Helper -> Date]
Quotes == [Helper -> Quote \cup {Null}]

-----------------------------------------------------------------------------
(* referenceDate() returns a date for every evaluation date. *)
LEMMA ReferencedType ==
  ASSUME NEW c \in Curve, NEW d \in Date
  PROVE  Referenced(c, d) \in Curve
  BY DateAssumption DEF Referenced, Curve

(* Helpers alive are counted by data_, and no more than there are. *)
LEMMA AliveType ==
  ASSUME NEW c \in Curve, NEW s \in Schedules
  PROVE  Cardinality({h \in Helper : LatestDate(h, s) > c.referenceDate_})
           \in 0 .. Cardinality(Helper)
  <1> DEFINE alive == {h \in Helper : LatestDate(h, s) > c.referenceDate_}
  <1>1. IsFiniteSet(alive) /\ Cardinality(alive) <= Cardinality(Helper)
    BY alive \subseteq Helper, HelperAssumption, FS_Subset
  <1>2. Cardinality(alive) \in Nat /\ Cardinality(Helper) \in Nat
    BY <1>1, HelperAssumption, FS_CardinalityType
  <1> QED
    BY <1>1, <1>2

(* What a curve is solved from pairs dates with quotes. *)
LEMMA InputsType ==
  ASSUME NEW r \in Nat, NEW s \in Schedules, NEW q \in Quotes
  PROVE  Inputs(r, s, q) \in [reference : Nat, pillars : SUBSET (Nat \X (Quote \cup {Null}))]
  <1>1. \A h \in Helper : LatestDate(h, s) \in Nat
    <2> SUFFICES ASSUME NEW h \in Helper
                 PROVE  LatestDate(h, s) \in Nat
      OBVIOUS
    <2>1. s[h] \in Nat /\ Maturity[h] \in Nat
      BY DateAssumption, HelperAssumption DEF Schedules
    <2> QED
      BY <2>1 DEF LatestDate
  <1> QED
    BY <1>1 DEF Inputs, Quotes

(* Whether it returns or throws, the bootstrap leaves a curve. *)
LEMMA BootstrapType ==
  ASSUME NEW c \in Curve, NEW s \in Schedules, NEW q \in Quotes, NEW x \in Bootstrap(c, s, q)
  PROVE  x[1] \in Curve /\ x[2] \in BOOLEAN
  <1> DEFINE n      == Cardinality({h \in Helper : LatestDate(h, s) > c.referenceDate_})
             ready  == [c EXCEPT !.size = n, !.solved = Null]
             solved == [ready EXCEPT !.calculated_ = TRUE, !.validCurve_ = TRUE,
                                     !.nodes = IF c.validCurve_ THEN @ ELSE n,
                                     !.solved = Inputs(c.referenceDate_, s, q)]
  <1>1. n \in 0 .. Cardinality(Helper)
    BY AliveType
  <1>2. c.referenceDate_ \in Nat
    BY DEF Curve
  <1>3. Inputs(c.referenceDate_, s, q)
          \in [reference : Nat, pillars : SUBSET (Nat \X (Quote \cup {Null}))]
    BY <1>2, InputsType
  <1> HIDE DEF n
  <1>4. /\ [c EXCEPT !.solved = Null] \in Curve
        /\ ready \in Curve
        /\ [ready EXCEPT !.validCurve_ = FALSE] \in Curve
    BY <1>1 DEF Curve
  <1>5. solved \in Curve
    BY <1>1, <1>3 DEF Curve
  <1>6. \/ x = <<c, FALSE>>
        \/ x = <<[c EXCEPT !.solved = Null], FALSE>>
        \/ x = <<ready, FALSE>>
        \/ x = <<solved, TRUE>>
        \/ x = <<[ready EXCEPT !.validCurve_ = FALSE], FALSE>>
    BY DEF Bootstrap, n
  <1> HIDE DEF ready, solved
  <1>7. \A k \in Curve, b \in BOOLEAN : <<k, b>>[1] \in Curve /\ <<k, b>>[2] \in BOOLEAN
    OBVIOUS
  <1>8. \E k \in Curve, b \in BOOLEAN : x = <<k, b>>
    BY <1>4, <1>5, <1>6
  <1> QED
    BY <1>7, <1>8

(* A client's read leaves a curve. *)
LEMMA ReadType ==
  ASSUME NEW c \in Curve, NEW d \in Date, NEW s \in Schedules, NEW q \in Quotes,
         NEW x \in Read(c, d, s, q)
  PROVE  x[1] \in Curve /\ x[2] \in BOOLEAN
  <1>1. Referenced(c, d) \in Curve
    BY ReferencedType
  <1>2. CASE x = <<Referenced(c, d), TRUE>>
    BY <1>1, <1>2
  <1>3. CASE x \in Bootstrap(Referenced(c, d), s, q)
    BY <1>1, <1>3, BootstrapType
  <1> QED
    BY <1>2, <1>3 DEF Read

(* Whatever its observers do when notified, the curve is left a curve. *)
LEMMA NotifiedType ==
  ASSUME NEW c \in Curve, NEW d \in Date, NEW s \in Schedules, NEW q \in Quotes,
         NEW x \in Notified(c, d, s, q)
  PROVE  x[1] \in Curve /\ x[2] \in BOOLEAN
  <1> DEFINE seen == {<<c, TRUE>>} \cup
                       (IF "read" \in Behaviour THEN Read(c, d, s, q) ELSE {})
  <1>1. \A y \in seen : y[1] \in Curve /\ y[2] \in BOOLEAN
    <2> SUFFICES ASSUME NEW y \in seen
                 PROVE  y[1] \in Curve /\ y[2] \in BOOLEAN
      OBVIOUS
    <2>1. CASE y = <<c, TRUE>>
      BY <2>1
    <2>2. CASE y \in Read(c, d, s, q)
      BY <2>2, ReadType
    <2> QED
      BY <2>1, <2>2
  <1>2. x \in seen \/ \E y \in seen : x = <<y[1], FALSE>>
    BY DEF Notified
  <1> HIDE DEF seen
  <1>3. ASSUME NEW y \in seen, x = <<y[1], FALSE>>
        PROVE  x[1] \in Curve /\ x[2] \in BOOLEAN
    <2>1. x[1] = y[1] /\ x[2] = FALSE
      BY <1>3
    <2> QED
      BY <1>1, <2>1
  <1> QED
    BY <1>1, <1>2, <1>3

(* update() leaves the curve a curve. *)
LEMMA UpdateType ==
  ASSUME NEW c \in Curve, NEW d \in Date, NEW s \in Schedules, NEW q \in Quotes,
         NEW y \in Update(c, d, s, q)
  PROVE  y \in Curve
  <1> DEFINE quiet == [c EXCEPT !.calculated_ = FALSE]
  <1>1. quiet \in Curve
    BY DEF Curve
  <1>2. PICK x \in Notified(quiet, d, s, q) \cup {<<quiet, TRUE>>} :
          y = IF x[2] THEN [x[1] EXCEPT !.updated_ = FALSE] ELSE x[1]
    BY DEF Update
  <1> HIDE DEF quiet
  <1>3. x[1] \in Curve
    <2>1. CASE x = <<quiet, TRUE>>
      BY <1>1, <2>1
    <2>2. CASE x \in Notified(quiet, d, s, q)
      BY <1>1, <2>2, NotifiedType
    <2> QED
      BY <1>2, <2>1, <2>2
  <1> QED
    BY <1>2, <1>3 DEF Curve

-----------------------------------------------------------------------------
(* The constructors leave every member a value of its type. *)
LEMMA InitType == Init => TypeOK
  <1> SUFFICES ASSUME Init
               PROVE  TypeOK
    OBVIOUS
  <1>1. Advance[evaluationDate] \in Nat
    BY DateAssumption DEF Init
  <1>2. Cardinality(Helper) \in Nat
    BY HelperAssumption, FS_CardinalityType
  <1>3. curve \in Curve
    BY <1>1, <1>2 DEF Init, Curve
  <1> QED
    BY <1>3 DEF Init, TypeOK

(* No call leaves a member without one. *)
LEMMA StepType == TypeOK /\ [Next]_vars => TypeOK'
  <1> SUFFICES ASSUME TypeOK, [Next]_vars
               PROVE  TypeOK'
    OBVIOUS
  <1>0. /\ evaluationDate \in Date
        /\ quote \in Quotes
        /\ schedule \in Schedules
        /\ curve \in Curve
        /\ toTell \subseteq Relative \cup {"curve"}
        /\ reader \in BOOLEAN
    BY DEF TypeOK, Quotes, Schedules
  <1>1. ASSUME NEW s \in Schedules, NEW q \in Quotes, UpdateCurve(s, q),
               UNCHANGED evaluationDate, toTell' \subseteq toTell
        PROVE  TypeOK'
    <2>1. curve' \in Curve
      BY <1>0, <1>1, UpdateType DEF UpdateCurve
    <2>2. reader' \in BOOLEAN
      BY <1>0, <1>1, <2>1 DEF UpdateCurve, Told, Curve
    <2> QED
      BY <1>0, <1>1, <2>1, <2>2 DEF UpdateCurve, TypeOK, Schedules, Quotes
  <1>2. ASSUME NEW d \in Date, SetEvaluationDate(d)
        PROVE  TypeOK'
    BY <1>0, <1>2 DEF SetEvaluationDate, TypeOK, Schedules, Quotes
  <1>3. ASSUME NEW h \in Helper, TellHelper(h)
        PROVE  TypeOK'
    <2>1. [schedule EXCEPT ![h] = evaluationDate] \in Schedules
      BY <1>0 DEF Schedules
    <2> QED
      BY <1>0, <1>1, <1>3, <2>1 DEF TellHelper
  <1>4. ASSUME NEW h \in Helper, NEW v \in Quote \cup {Null}, SetQuote(h, v)
        PROVE  TypeOK'
    <2>1. [quote EXCEPT ![h] = v] \in Quotes
      BY <1>0 DEF Quotes
    <2> QED
      BY <1>0, <1>1, <1>4, <2>1 DEF SetQuote
  <1>5. CASE TellCurve
    BY <1>0, <1>1, <1>5 DEF TellCurve
  <1>6. CASE Discount
    <2>1. PICK x \in Read(curve, evaluationDate, schedule, quote) :
            curve' = x[1] /\ reader' = x[2]
      BY <1>6 DEF Discount
    <2>2. curve' \in Curve /\ reader' \in BOOLEAN
      BY <1>0, <2>1, ReadType
    <2> QED
      BY <1>0, <1>6, <2>2 DEF Discount, TypeOK, Schedules, Quotes
  <1>7. CASE AskReferenceDate
    <2>1. curve' \in Curve
      BY <1>0, <1>7, ReferencedType DEF AskReferenceDate
    <2> QED
      BY <1>0, <1>7, <2>1 DEF AskReferenceDate, TypeOK, Schedules, Quotes
  <1>8. CASE Freeze
    <2>1. curve' \in Curve
      BY <1>0, <1>8 DEF Freeze, Curve
    <2> QED
      BY <1>0, <1>8, <2>1 DEF Freeze, TypeOK, Schedules, Quotes
  <1>9. CASE Unfreeze
    <2>1. [curve EXCEPT !.frozen_ = FALSE] \in Curve
      BY <1>0 DEF Curve
    <2>2. PICK x \in Notified([curve EXCEPT !.frozen_ = FALSE],
                             evaluationDate, schedule, quote) :
            curve' = x[1] /\ reader' = Told(x[1])
      BY <1>9 DEF Unfreeze
    <2>3. curve' \in Curve
      BY <1>0, <2>1, <2>2, NotifiedType
    <2>4. reader' \in BOOLEAN
      BY <2>2, <2>3 DEF Told, Curve
    <2> QED
      BY <1>0, <1>9, <2>3, <2>4 DEF Unfreeze, TypeOK, Schedules, Quotes
  <1>10. CASE Recalculate
    <2> DEFINE c == [curve EXCEPT !.calculated_ = FALSE, !.frozen_ = FALSE]
    <2>1. c \in Curve
      BY <1>0 DEF Curve
    <2>2. PICK x \in Bootstrap(Referenced(c, evaluationDate), schedule, quote) :
            \E y \in Notified([x[1] EXCEPT !.frozen_ = curve.frozen_],
                              evaluationDate, schedule, quote) :
              curve' = y[1] /\ reader' = Told(y[1])
      BY <1>10 DEF Recalculate
    <2> HIDE DEF c
    <2>3. x[1] \in Curve
      BY <1>0, <2>1, <2>2, ReferencedType, BootstrapType
    <2>4. [x[1] EXCEPT !.frozen_ = curve.frozen_] \in Curve
      BY <1>0, <2>3 DEF Curve
    <2>5. curve' \in Curve
      BY <1>0, <2>2, <2>4, NotifiedType
    <2>6. reader' \in BOOLEAN
      BY <2>2, <2>5 DEF Told, Curve
    <2> QED
      BY <1>0, <1>10, <2>5, <2>6 DEF Recalculate, TypeOK, Schedules, Quotes
  <1>11. CASE UNCHANGED vars
    BY <1>0, <1>11 DEF vars, TypeOK, Schedules, Quotes
  <1> QED
    BY <1>2, <1>3, <1>4, <1>5, <1>6, <1>7, <1>8, <1>9, <1>10, <1>11 DEF Next

(***************************************************************************)
(* Whatever observers do, the curve's members keep their types; data_      *)
(* never has more pillars than there are helpers.                          *)
(***************************************************************************)
THEOREM TypeCorrect == Spec => []TypeOK
  BY InitType, StepType, PTL DEF Spec

-----------------------------------------------------------------------------
(* Finding the reference date neither freezes nor recalculates. *)
LEMMA ReferencedKeeps ==
  ASSUME NEW c \in Curve, NEW d \in Date
  PROVE  LET r == Referenced(c, d)
         IN  /\ r.frozen_ = c.frozen_ /\ r.calculated_ = c.calculated_
             /\ r.solved = c.solved /\ r.updated_
             /\ r.referenceDate_ = IF c.updated_ THEN c.referenceDate_ ELSE Advance[d]
  BY DEF Referenced, Curve

(* The bootstrap of a curve not calculated returns if and only if it leaves *)
(* the curve calculated, and then from the inputs it was given.             *)
LEMMA BootstrapKeeps ==
  ASSUME NEW c \in Curve, NEW s, NEW q, ~c.calculated_, NEW x \in Bootstrap(c, s, q)
  PROVE  /\ x[1].frozen_ = c.frozen_ /\ x[1].updated_ = c.updated_
         /\ x[1].referenceDate_ = c.referenceDate_
         /\ x[2] = x[1].calculated_
         /\ x[1].calculated_ => x[1].solved = Inputs(c.referenceDate_, s, q)
  <1> DEFINE n      == Cardinality({h \in Helper : LatestDate(h, s) > c.referenceDate_})
             i      == Inputs(c.referenceDate_, s, q)
             ready  == [c EXCEPT !.size = n, !.solved = Null]
             solved == [ready EXCEPT !.calculated_ = TRUE, !.validCurve_ = TRUE,
                                     !.nodes = IF c.validCurve_ THEN @ ELSE n,
                                     !.solved = i]
             Kept(k) == /\ k.frozen_ = c.frozen_ /\ k.updated_ = c.updated_
                        /\ k.referenceDate_ = c.referenceDate_
  <1>1. \/ x = <<c, FALSE>>
        \/ x = <<[c EXCEPT !.solved = Null], FALSE>>
        \/ x = <<ready, FALSE>>
        \/ x = <<solved, TRUE>>
        \/ x = <<[ready EXCEPT !.validCurve_ = FALSE], FALSE>>
    BY DEF Bootstrap
  <1> HIDE DEF n, i
  <1>2. \A k \in {c, [c EXCEPT !.solved = Null], ready, [ready EXCEPT !.validCurve_ = FALSE]} :
          Kept(k) /\ k.calculated_ = FALSE
    BY DEF Curve
  <1>3. Kept(solved) /\ solved.calculated_ = TRUE /\ solved.solved = i
    BY DEF Curve
  <1> HIDE DEF ready, solved
  <1>4. \/ Kept(x[1]) /\ x[1].calculated_ = FALSE /\ x[2] = FALSE
        \/ Kept(x[1]) /\ x[1].calculated_ = TRUE /\ x[2] = TRUE /\ x[1].solved = i
    <2>1. CASE x = <<solved, TRUE>>
      BY <1>3, <2>1
    <2>2. ASSUME NEW k \in {c, [c EXCEPT !.solved = Null], ready,
                            [ready EXCEPT !.validCurve_ = FALSE]},
                 x = <<k, FALSE>>
          PROVE  Kept(x[1]) /\ x[1].calculated_ = FALSE /\ x[2] = FALSE
      <3>1. x[1] = k /\ x[2] = FALSE
        BY <2>2
      <3> QED
        BY <1>2, <3>1
    <2> QED
      BY <1>1, <2>1, <2>2
  <1> QED
    BY <1>4 DEF i

(* A read leaves frozen_ alone, and returns only from a curve calculated or frozen. *)
LEMMA ReadKeeps ==
  ASSUME NEW c \in Curve, NEW d \in Date, NEW s \in Schedules, NEW q \in Quotes,
         NEW x \in Read(c, d, s, q)
  PROVE  /\ x[1].frozen_ = c.frozen_
         /\ x[2] => x[1].calculated_ \/ x[1].frozen_
  <1> DEFINE r == Referenced(c, d)
  <1>1. r \in Curve /\ r.frozen_ = c.frozen_ /\ r.calculated_ = c.calculated_
    BY ReferencedType, ReferencedKeeps
  <1>2. \/ (c.calculated_ \/ c.frozen_) /\ x = <<r, TRUE>>
        \/ ~c.calculated_ /\ x \in Bootstrap(r, s, q)
    BY DEF Read
  <1> HIDE DEF r
  <1>3. CASE (c.calculated_ \/ c.frozen_) /\ x = <<r, TRUE>>
    BY <1>1, <1>3
  <1>4. CASE ~c.calculated_ /\ x \in Bootstrap(r, s, q)
    BY <1>1, <1>4, BootstrapKeeps
  <1> QED
    BY <1>2, <1>3, <1>4

(* Observers, when notified, do not freeze the curve. *)
LEMMA NotifiedKeeps ==
  ASSUME NEW c \in Curve, NEW d \in Date, NEW s \in Schedules, NEW q \in Quotes,
         NEW x \in Notified(c, d, s, q)
  PROVE  x[1].frozen_ = c.frozen_
  <1> DEFINE seen == {<<c, TRUE>>} \cup
                       (IF "read" \in Behaviour THEN Read(c, d, s, q) ELSE {})
  <1>1. \A y \in seen : y[1].frozen_ = c.frozen_
    <2> SUFFICES ASSUME NEW y \in seen
                 PROVE  y[1].frozen_ = c.frozen_
      OBVIOUS
    <2>1. CASE y = <<c, TRUE>>
      BY <2>1
    <2>2. CASE y \in Read(c, d, s, q)
      BY <2>2, ReadKeeps
    <2> QED
      BY <2>1, <2>2
  <1>2. x \in seen \/ \E y \in seen : x = <<y[1], FALSE>>
    BY DEF Notified
  <1> HIDE DEF seen
  <1>3. ASSUME NEW y \in seen, x = <<y[1], FALSE>>
        PROVE  x[1] = y[1]
    BY <1>3
  <1> QED
    BY <1>1, <1>2, <1>3

(* Nor does update(). *)
LEMMA UpdateKeeps ==
  ASSUME NEW c \in Curve, NEW d \in Date, NEW s \in Schedules, NEW q \in Quotes,
         NEW y \in Update(c, d, s, q)
  PROVE  y.frozen_ = c.frozen_
  <1> DEFINE quiet == [c EXCEPT !.calculated_ = FALSE]
  <1>1. quiet \in Curve /\ quiet.frozen_ = c.frozen_
    BY DEF Curve
  <1>2. PICK x \in Notified(quiet, d, s, q) \cup {<<quiet, TRUE>>} :
          y = IF x[2] THEN [x[1] EXCEPT !.updated_ = FALSE] ELSE x[1]
    BY DEF Update
  <1> HIDE DEF quiet
  <1>3. x[1] \in Curve /\ x[1].frozen_ = c.frozen_
    <2>1. CASE x = <<quiet, TRUE>>
      BY <1>1, <2>1
    <2>2. CASE x \in Notified(quiet, d, s, q)
      BY <1>1, <2>2, NotifiedType, NotifiedKeeps
    <2> QED
      BY <1>2, <2>1, <2>2
  <1> QED
    BY <1>2, <1>3 DEF Curve

-----------------------------------------------------------------------------
(* What Listening says, in the middle of notifications too. *)
Heard == reader /\ ~curve.frozen_ => curve.calculated_

(* A client that has read holds on to a curve that will tell it. *)
LEMMA StepHeard == TypeOK /\ Heard /\ [Next]_vars => Heard'
  <1> SUFFICES ASSUME TypeOK, Heard, [Next]_vars, reader', ~curve'.frozen_
               PROVE  curve'.calculated_
    BY DEF Heard
  <1>0. /\ evaluationDate \in Date
        /\ quote \in Quotes
        /\ schedule \in Schedules
        /\ curve \in Curve
    BY DEF TypeOK, Quotes, Schedules
  <1>1. ASSUME NEW s \in Schedules, NEW q \in Quotes, UpdateCurve(s, q)
        PROVE  curve'.calculated_
    <2>1. curve'.frozen_ = curve.frozen_
      BY <1>0, <1>1, UpdateKeeps DEF UpdateCurve
    <2>2. Tells(curve)
      BY <1>1, <2>1 DEF UpdateCurve, Tells, Heard
    <2> QED
      BY <1>1, <2>2 DEF UpdateCurve, Told
  <1>2. ASSUME NEW d \in Date, SetEvaluationDate(d)
        PROVE  curve'.calculated_
    BY <1>2 DEF SetEvaluationDate, Heard
  <1>3. ASSUME NEW h \in Helper, TellHelper(h)
        PROVE  curve'.calculated_
    <2>1. [schedule EXCEPT ![h] = evaluationDate] \in Schedules
      BY <1>0 DEF Schedules
    <2> QED
      BY <1>0, <1>1, <1>3, <2>1 DEF TellHelper
  <1>4. ASSUME NEW h \in Helper, NEW v \in Quote \cup {Null}, SetQuote(h, v)
        PROVE  curve'.calculated_
    <2>1. [quote EXCEPT ![h] = v] \in Quotes
      BY <1>0 DEF Quotes
    <2> QED
      BY <1>0, <1>1, <1>4, <2>1 DEF SetQuote
  <1>5. CASE TellCurve
    BY <1>0, <1>1, <1>5 DEF TellCurve
  <1>6. CASE Discount
    <2>1. PICK x \in Read(curve, evaluationDate, schedule, quote) :
            curve' = x[1] /\ reader' = x[2]
      BY <1>6 DEF Discount
    <2> QED
      BY <1>0, <2>1, ReadKeeps
  <1>7. CASE AskReferenceDate
    BY <1>0, <1>7, ReferencedKeeps DEF AskReferenceDate, Heard
  <1>8. CASE Freeze
    BY <1>0, <1>8 DEF Freeze, Curve
  <1>9. CASE Unfreeze
    BY <1>9 DEF Unfreeze, Told
  <1>10. CASE Recalculate
    BY <1>10 DEF Recalculate, Told
  <1>11. CASE UNCHANGED vars
    BY <1>11 DEF vars, Heard
  <1> QED
    BY <1>2, <1>3, <1>4, <1>5, <1>6, <1>7, <1>8, <1>9, <1>10, <1>11 DEF Next

(***************************************************************************)
(* Whatever observers read and raise while they are notified, a client     *)
(* that has read a discount factor will be told of the next change:        *)
(* LazyObject::update forwards it, since the curve is calculated.          *)
(***************************************************************************)
THEOREM ReadersHear == Spec => []Listening
  <1>1. Init => Heard
    BY DEF Init, Heard
  <1>2. Heard => Listening
    BY DEF Heard, Listening
  <1> QED
    BY <1>1, <1>2, TypeCorrect, StepHeard, PTL DEF Spec

-----------------------------------------------------------------------------
(***************************************************************************)
(* With observers that do not read when they are notified, the reference   *)
(* date and the helpers' schedules are those of today but for the          *)
(* notifications to come.  An observer that raises keeps updated_ from     *)
(* being reset; but the curve is then not calculated, so that its next     *)
(* update() tells nobody and resets it.                                    *)
(***************************************************************************)
Everybody == Relative \cup {"curve"}

\* There is a second notification of each change of date, if one is needed.
Recovers == "read" \notin Behaviour /\ ("raise" \in Behaviour => Relative # {})

\* Enough observers of the evaluation date have been told.
ResetForSure ==
  \/ \E g, h \in Everybody \ toTell : g # h
  \/ "raise" \notin Behaviour /\ toTell # Everybody

ReferenceKnown ==
  /\ toTell \notin {{}, Everybody} => ~curve.calculated_
  /\ ResetForSure /\ curve.updated_ => curve.referenceDate_ = Advance[evaluationDate]

SchedulesKnown == \A h \in Relative \ toTell : schedule[h] = evaluationDate

SolvedNow ==
  Quiet /\ curve.calculated_ =>
    curve.solved = Inputs(Advance[evaluationDate], schedule, quote)

Known == ReferenceKnown /\ SchedulesKnown /\ SolvedNow

(* The schedules of fixed helpers do not matter, and the others are today's. *)
LEMMA InputsToday ==
  ASSUME NEW r, NEW d, NEW s, NEW t, NEW q,
         \A h \in Relative : s[h] = d, t = [h \in Helper |-> d]
  PROVE  Inputs(r, s, q) = Inputs(r, t, q)
  <1>1. \A h \in Helper : LatestDate(h, s) = LatestDate(h, t)
    BY HelperAssumption DEF LatestDate
  <1>2. {k \in Helper : LatestDate(k, s) > r} = {k \in Helper : LatestDate(k, t) > r}
    BY <1>1
  <1>3. {<<LatestDate(h, s), q[h]>> : h \in {k \in Helper : LatestDate(k, s) > r}}
          = {<<LatestDate(h, t), q[h]>> : h \in {k \in Helper : LatestDate(k, t) > r}}
    BY <1>1, <1>2
  <1> QED
    BY <1>3 DEF Inputs

(* Once everybody has been told, enough have been. *)
LEMMA QuietSure ==
  ASSUME Recovers, Quiet
  PROVE  ResetForSure
  <1>1. Everybody \ toTell = Everybody /\ toTell # Everybody
    BY DEF Quiet, Everybody
  <1>2. CASE "raise" \notin Behaviour
    BY <1>1, <1>2 DEF ResetForSure
  <1>3. CASE Relative # {}
    <2>1. PICK h \in Relative : h # "curve"
      BY <1>3, HelperAssumption
    <2> QED
      BY <1>1, <2>1 DEF ResetForSure, Everybody
  <1> QED
    BY <1>2, <1>3 DEF Recovers

(* Observers that do not read do nothing to the curve when they are notified. *)
LEMMA LazyNotified ==
  ASSUME Recovers, NEW c, NEW d, NEW s, NEW q, NEW x \in Notified(c, d, s, q)
  PROVE  x[1] = c /\ x[2] \in BOOLEAN /\ ("raise" \notin Behaviour => x[2])
  <1>1. Notified(c, d, s, q) =
          {<<c, TRUE>>} \cup (IF "raise" \in Behaviour
                              THEN {<<y[1], FALSE>> : y \in {<<c, TRUE>>}} ELSE {})
    BY DEF Notified, Recovers
  <1>2. CASE x = <<c, TRUE>>
    BY <1>2
  <1>3. CASE "raise" \in Behaviour /\ x = <<c, FALSE>>
    BY <1>3
  <1>4. \A y \in {<<c, TRUE>>} : y[1] = c
    OBVIOUS
  <1> QED
    BY <1>1, <1>2, <1>3, <1>4

(* So update() just marks the curve out of date; and, unless one of them *)
(* raises, its reference date too.                                       *)
LEMMA LazyUpdate ==
  ASSUME Recovers, NEW c \in Curve, NEW d, NEW s, NEW q, NEW y \in Update(c, d, s, q)
  PROVE  /\ ~y.calculated_
         /\ y.updated_ => c.updated_ /\ y.referenceDate_ = c.referenceDate_
         /\ ~c.calculated_ \/ "raise" \notin Behaviour => ~y.updated_
  <1> DEFINE quiet == [c EXCEPT !.calculated_ = FALSE]
  <1>1. PICK x \in IF Tells(c) THEN Notified(quiet, d, s, q) ELSE {<<quiet, TRUE>>} :
          y = IF x[2] THEN [x[1] EXCEPT !.updated_ = FALSE] ELSE x[1]
    BY DEF Update
  <1>2. /\ quiet \in Curve /\ ~quiet.calculated_ /\ quiet.updated_ = c.updated_
        /\ quiet.referenceDate_ = c.referenceDate_
    BY DEF Curve
  <1> HIDE DEF quiet
  <1>3. /\ x[1] = quiet /\ x[2] \in BOOLEAN
        /\ ~c.calculated_ \/ "raise" \notin Behaviour => x[2]
    <2>1. CASE Tells(c)
      BY <1>1, <2>1, LazyNotified DEF Tells
    <2>2. CASE ~Tells(c)
      <3>1. x = <<quiet, TRUE>>
        BY <1>1, <2>2
      <3> QED
        BY <3>1
    <2> QED
      BY <2>1, <2>2
  <1>4. CASE x[2]
    <2>1. y = [quiet EXCEPT !.updated_ = FALSE]
      BY <1>1, <1>3, <1>4
    <2> QED
      BY <1>2, <2>1 DEF Curve
  <1>5. CASE ~x[2]
    <2>1. y = quiet
      BY <1>1, <1>3, <1>5
    <2> QED
      BY <1>2, <1>3, <1>5, <2>1
  <1> QED
    BY <1>3, <1>4, <1>5

(* Asked outside notifications, referenceDate() is today's. *)
LEMMA ReferencedNow ==
  ASSUME Recovers, TypeOK, Quiet, ReferenceKnown,
         NEW c \in Curve, c.updated_ = curve.updated_, c.referenceDate_ = curve.referenceDate_
  PROVE  /\ Referenced(c, evaluationDate) \in Curve
         /\ Referenced(c, evaluationDate).referenceDate_ = Advance[evaluationDate]
  <1>1. evaluationDate \in Date
    BY DEF TypeOK
  <1> QED
    BY <1>1, ReferencedType, ReferencedKeeps, QuietSure DEF ReferenceKnown

(* What a bootstrap outside notifications leaves is today's. *)
LEMMA BootstrapNow ==
  ASSUME Recovers, TypeOK, Quiet, ReferenceKnown,
         NEW c \in Curve, c.updated_ = curve.updated_, c.referenceDate_ = curve.referenceDate_,
         ~c.calculated_,
         NEW x \in Bootstrap(Referenced(c, evaluationDate), schedule, quote)
  PROVE  /\ x[1].referenceDate_ = Advance[evaluationDate]
         /\ x[1].calculated_ =>
              x[1].solved = Inputs(Advance[evaluationDate], schedule, quote)
  <1> DEFINE r == Referenced(c, evaluationDate)
  <1>1. r \in Curve /\ ~r.calculated_ /\ r.referenceDate_ = Advance[evaluationDate]
    BY ReferencedNow, ReferencedKeeps DEF TypeOK
  <1> HIDE DEF r
  <1>2. x \in Bootstrap(r, schedule, quote)
    BY DEF r
  <1> QED
    BY <1>1, <1>2, BootstrapKeeps

(* Every step keeps what is known of the dates, and what was solved from them. *)
LEMMA StepKnown ==
  ASSUME Recovers
  PROVE  TypeOK /\ Known /\ [Next]_vars => Known'
  <1> SUFFICES ASSUME TypeOK, Known, [Next]_vars
               PROVE  Known'
    OBVIOUS
  <1>0. /\ evaluationDate \in Date
        /\ quote \in Quotes
        /\ schedule \in Schedules
        /\ curve \in Curve
    BY DEF TypeOK, Quotes, Schedules
  <1>1. ASSUME NEW s, NEW q, UpdateCurve(s, q)
        PROVE  /\ ~curve'.calculated_
               /\ curve'.updated_ =>
                    curve.updated_ /\ curve'.referenceDate_ = curve.referenceDate_
               /\ ~curve.calculated_ \/ "raise" \notin Behaviour => ~curve'.updated_
    BY <1>0, <1>1, LazyUpdate DEF UpdateCurve
  <1>2. ASSUME NEW s, NEW q, UpdateCurve(s, q), UNCHANGED evaluationDate,
               NEW n \in toTell, toTell' = toTell \ {n}
        PROVE  ReferenceKnown' /\ SolvedNow'
    <2>1. CASE toTell # Everybody
      <3>1. ~curve'.updated_
        BY <1>1, <1>2, <2>1 DEF Known, ReferenceKnown
      <3> QED
        BY <1>1, <1>2, <3>1 DEF ReferenceKnown, SolvedNow
    <2>2. CASE toTell = Everybody
      <3>1. ResetForSure' => "raise" \notin Behaviour
        BY <1>2, <2>2 DEF ResetForSure
      <3> QED
        BY <1>1, <1>2, <3>1 DEF ReferenceKnown, SolvedNow
    <2> QED
      BY <2>1, <2>2
  <1>3. ASSUME NEW d \in Date, SetEvaluationDate(d)
        PROVE  Known'
    <2>1. ~ResetForSure'
      BY <1>3 DEF SetEvaluationDate, ResetForSure, Everybody
    <2>2. toTell' = Everybody /\ toTell' # {}
      BY <1>3 DEF SetEvaluationDate, Everybody
    <2> QED
      BY <2>1, <2>2 DEF Known, ReferenceKnown, SchedulesKnown, SolvedNow, Quiet, Everybody
  <1>4. ASSUME NEW h \in Helper, TellHelper(h)
        PROVE  Known'
    <2>1. SchedulesKnown'
      BY <1>0, <1>4 DEF TellHelper, UpdateCurve, Known, SchedulesKnown, Schedules
    <2> QED
      BY <1>2, <1>4, <2>1 DEF TellHelper, Known
  <1>5. ASSUME NEW h \in Helper, NEW v \in Quote \cup {Null}, SetQuote(h, v)
        PROVE  Known'
    <2>1. SchedulesKnown'
      BY <1>5 DEF SetQuote, UpdateCurve, Known, SchedulesKnown
    <2>2. UpdateCurve(schedule, [quote EXCEPT ![h] = v])
      BY <1>5 DEF SetQuote
    <2>3. ReferenceKnown'
      BY <1>1, <1>5, <2>2, QuietSure DEF SetQuote, Known, ReferenceKnown, ResetForSure
    <2> QED
      BY <1>1, <2>1, <2>2, <2>3 DEF Known, SolvedNow
  <1>6. CASE TellCurve
    <2>1. SchedulesKnown'
      BY <1>6, HelperAssumption DEF TellCurve, UpdateCurve, Known, SchedulesKnown
    <2> QED
      BY <1>2, <1>6, <2>1 DEF TellCurve, Known
  <1>7. CASE Discount
    <2>1. PICK x \in Read(curve, evaluationDate, schedule, quote) : curve' = x[1]
      BY <1>7 DEF Discount
    <2>2. Quiet /\ UNCHANGED <<evaluationDate, quote, schedule, toTell>>
      BY <1>7 DEF Discount, Recovers
    <2>3. /\ curve'.referenceDate_ = Advance[evaluationDate]
          /\ curve'.calculated_ =>
               curve'.solved = Inputs(Advance[evaluationDate], schedule, quote)
      <3>1. CASE x = <<Referenced(curve, evaluationDate), TRUE>>
        <4>1. curve' = Referenced(curve, evaluationDate)
          BY <2>1, <3>1
        <4> QED
          BY <1>0, <2>2, <4>1, ReferencedNow, ReferencedKeeps DEF Known, SolvedNow
      <3>2. CASE ~curve.calculated_
                   /\ x \in Bootstrap(Referenced(curve, evaluationDate), schedule, quote)
        BY <1>0, <2>1, <2>2, <3>2, BootstrapNow DEF Known
      <3> QED
        BY <2>1, <3>1, <3>2 DEF Read
    <2> QED
      BY <2>2, <2>3 DEF Known, ReferenceKnown, SchedulesKnown, SolvedNow, Quiet, ResetForSure
  <1>8. CASE AskReferenceDate
    <2>1. Quiet /\ UNCHANGED <<evaluationDate, quote, schedule, toTell>>
      BY <1>8 DEF AskReferenceDate, Recovers
    <2>2. /\ curve'.referenceDate_ = Advance[evaluationDate]
          /\ curve'.calculated_ = curve.calculated_ /\ curve'.solved = curve.solved
      BY <1>0, <1>8, <2>1, ReferencedNow, ReferencedKeeps DEF AskReferenceDate, Known
    <2> QED
      BY <2>1, <2>2 DEF Known, ReferenceKnown, SchedulesKnown, SolvedNow, Quiet, ResetForSure
  <1>9. ASSUME NEW f, curve' = [curve EXCEPT !.frozen_ = f],
               UNCHANGED <<evaluationDate, quote, schedule, toTell>>
        PROVE  Known'
    <2>1. /\ curve'.referenceDate_ = curve.referenceDate_ /\ curve'.updated_ = curve.updated_
          /\ curve'.calculated_ = curve.calculated_ /\ curve'.solved = curve.solved
      BY <1>0, <1>9 DEF Curve
    <2> QED
      BY <1>9, <2>1 DEF Known, ReferenceKnown, SchedulesKnown, SolvedNow, Quiet, ResetForSure
  <1>10. CASE Freeze
    BY <1>9, <1>10 DEF Freeze
  <1>11. CASE Unfreeze
    <2>1. PICK x \in Notified([curve EXCEPT !.frozen_ = FALSE],
                             evaluationDate, schedule, quote) : curve' = x[1]
      BY <1>11 DEF Unfreeze
    <2>2. curve' = [curve EXCEPT !.frozen_ = FALSE]
      BY <2>1, LazyNotified
    <2> QED
      BY <1>9, <1>11, <2>2 DEF Unfreeze
  <1>12. CASE Recalculate
    <2> DEFINE c == [curve EXCEPT !.calculated_ = FALSE, !.frozen_ = FALSE]
    <2>1. /\ c \in Curve /\ ~c.calculated_
          /\ c.updated_ = curve.updated_ /\ c.referenceDate_ = curve.referenceDate_
      BY <1>0 DEF Curve
    <2>2. PICK x \in Bootstrap(Referenced(c, evaluationDate), schedule, quote) :
            \E y \in Notified([x[1] EXCEPT !.frozen_ = curve.frozen_],
                              evaluationDate, schedule, quote) : curve' = y[1]
      BY <1>12 DEF Recalculate
    <2>3. PICK y \in Notified([x[1] EXCEPT !.frozen_ = curve.frozen_],
                             evaluationDate, schedule, quote) : curve' = y[1]
      BY <2>2
    <2>4. curve' = [x[1] EXCEPT !.frozen_ = curve.frozen_]
      BY <2>3, LazyNotified
    <2>5. Quiet /\ UNCHANGED <<evaluationDate, quote, schedule, toTell>>
      BY <1>12 DEF Recalculate
    <2> HIDE DEF c
    <2>6. /\ x[1].referenceDate_ = Advance[evaluationDate]
          /\ x[1].calculated_ =>
               x[1].solved = Inputs(Advance[evaluationDate], schedule, quote)
      BY <2>1, <2>2, <2>5, BootstrapNow DEF Known
    <2>7. x[1] \in Curve
      BY <1>0, <2>1, <2>2, ReferencedType, BootstrapType
    <2>8. /\ curve'.referenceDate_ = x[1].referenceDate_
          /\ curve'.calculated_ = x[1].calculated_ /\ curve'.solved = x[1].solved
      BY <2>4, <2>7 DEF Curve
    <2> QED
      BY <2>5, <2>6, <2>8 DEF Known, ReferenceKnown, SchedulesKnown, SolvedNow, Quiet, ResetForSure
  <1>13. CASE UNCHANGED vars
    BY <1>13 DEF vars, Known, ReferenceKnown, SchedulesKnown, SolvedNow, Quiet, ResetForSure, Everybody
  <1> QED
    BY <1>3, <1>4, <1>5, <1>6, <1>7, <1>8, <1>10, <1>11, <1>12, <1>13 DEF Next

(* Nothing is solved yet, and the constructors have asked today's dates. *)
LEMMA InitKnown == Init => Known
  <1> SUFFICES ASSUME Init
               PROVE  Known
    OBVIOUS
  <1>1. \A h \in Relative : schedule[h] = evaluationDate
    BY HelperAssumption DEF Init
  <1> QED
    BY <1>1 DEF Init, Known, ReferenceKnown, SchedulesKnown, SolvedNow

(***************************************************************************)
(* With observers that do not read while they are notified, a calculated   *)
(* curve was solved at today's reference date, from today's schedules and  *)
(* quotes, once everybody has been told.  They may raise if a helper's     *)
(* schedule follows the evaluation date: the curve is then told twice.     *)
(***************************************************************************)
THEOREM CurveFresh ==
  ASSUME "read" \notin Behaviour, "raise" \in Behaviour => Relative # {}
  PROVE  Spec => []Fresh
  <1>2. Recovers
    BY DEF Recovers
  <1>1. TypeOK /\ Known => Fresh
    <2> SUFFICES ASSUME TypeOK, Known, Quiet, curve.calculated_
                 PROVE  curve.solved = Inputs(Advance[evaluationDate],
                                              [h \in Helper |-> evaluationDate], quote)
      BY DEF Fresh
    <2>1. curve.solved = Inputs(Advance[evaluationDate], schedule, quote)
      BY DEF Known, SolvedNow
    <2>2. \A h \in Relative : schedule[h] = evaluationDate
      BY DEF Known, SchedulesKnown, Quiet
    <2> DEFINE today == [h \in Helper |-> evaluationDate]
    <2>3. today = [h \in Helper |-> evaluationDate]
      OBVIOUS
    <2> HIDE DEF today
    <2>4. Inputs(Advance[evaluationDate], schedule, quote)
            = Inputs(Advance[evaluationDate], today, quote)
      BY <2>2, <2>3, InputsToday
    <2> QED
      BY <2>1, <2>3, <2>4
  <1> QED
    BY <1>1, <1>2, TypeCorrect, InitKnown, StepKnown, PTL DEF Spec

(***************************************************************************)
(* With such observers, the reference date returned outside notifications  *)
(* is that of the current evaluation date.                                 *)
(***************************************************************************)
THEOREM DateCurrent ==
  ASSUME "read" \notin Behaviour, "raise" \in Behaviour => Relative # {}
  PROVE  Spec => []ReferenceCurrent
  <1>2. Recovers
    BY DEF Recovers
  <1>1. TypeOK /\ Known => ReferenceCurrent
    <2> SUFFICES ASSUME TypeOK, Known, Quiet
                 PROVE  Referenced(curve, evaluationDate).referenceDate_ = Advance[evaluationDate]
      BY DEF ReferenceCurrent
    <2>1. curve \in Curve
      BY DEF TypeOK
    <2> QED
      BY <1>2, <2>1, ReferencedNow DEF Known
  <1> QED
    BY <1>1, <1>2, TypeCorrect, InitKnown, StepKnown, PTL DEF Spec
=============================================================================
