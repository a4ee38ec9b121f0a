------------------------ MODULE PiecewiseYieldCurve ------------------------
(***************************************************************************)
(* A piecewise yield curve whose reference date moves with the evaluation  *)
(* date: it is bootstrapped on demand from rate helpers, some of whose     *)
(* dates move too, and told of changes one notification at a time.         *)
(*                                                                         *)
(*   ql/termstructure.cpp                          TermStructure           *)
(*   ql/termstructures/bootstraphelper.hpp         BootstrapHelper         *)
(*   ql/termstructures/iterativebootstrap.hpp      IterativeBootstrap      *)
(*   ql/termstructures/yield/piecewiseyieldcurve.hpp                       *)
(*   ql/patterns/lazyobject.hpp                    LazyObject              *)
(*                                                                         *)
(* Discount factors are abstracted to what they are solved from: the       *)
(* reference date and, for each helper alive, its latest date and quote.   *)
(* Observers of the curve are abstracted to what their update() may do     *)
(* (Behaviour); the order of std::set is any order.                        *)
(***************************************************************************)
EXTENDS Naturals, FiniteSets

CONSTANTS
  Date,          \* dates, a set of numbers
  Advance,       \* calendar().advance(today, settlementDays(), Days)
  Helper,        \* the curve's instruments_
  Relative,      \* those whose schedule follows the evaluation date
  Maturity,      \* a helper's latest date; if Relative, from the evaluation date
  Quote,         \* values of the helpers' quotes
  MinAlive,      \* Interpolator::requiredPoints - 1
  Behaviour,     \* what update() of an observer of the curve may do
  Null           \* no date, no value, nothing solved

ASSUME DateAssumption == Date \subseteq Nat /\ Advance \in [Date -> Nat]
ASSUME HelperAssumption ==
  /\ Relative \subseteq Helper /\ IsFiniteSet(Helper) /\ "curve" \notin Helper
  /\ Maturity \in [Helper -> Nat]
ASSUME BehaviourAssumption == Behaviour \subseteq {"read", "raise"}
ASSUME NullAssumption == Null \notin Nat \cup Quote /\ MinAlive \in Nat \ {0}

VARIABLES
  evaluationDate,   \* Settings::evaluationDate(), explicitly set
  quote,            \* the helpers' quotes, Null for one that is not valid
  schedule,         \* the evaluation date a helper has its dates from
  curve,            \* the curve's members
  toTell,           \* observers of the evaluation date still to be notified
  reader            \* history: what a client has read and not been told about

vars == <<evaluationDate, quote, schedule, curve, toTell, reader>>

LatestDate(h, s) == IF h \in Relative THEN s[h] + Maturity[h] ELSE Maturity[h]

\* What a curve is solved from: its reference date and its helpers alive.
Inputs(ref, s, q) ==
  [reference |-> ref,
   pillars |-> {<<LatestDate(h, s), q[h]>> : h \in {k \in Helper : LatestDate(k, s) > ref}}]

\* latestReference_: what jumpTimes_ are measured from; size: data_.size() - 1;
\* nodes: pillars the interpolation spans; solved: the inputs of the last bootstrap.
Curve == [calculated_ : BOOLEAN, frozen_ : BOOLEAN, updated_ : BOOLEAN,
          referenceDate_ : Nat, latestReference_ : Nat, validCurve_ : BOOLEAN,
          size : 0 .. Cardinality(Helper), nodes : 0 .. Cardinality(Helper),
          solved : {Null} \cup
             [reference : Nat, pillars : SUBSET (Nat \X (Quote \cup {Null}))]]

TypeOK ==
  /\ evaluationDate \in Date
  /\ quote \in [Helper -> Quote \cup {Null}]
  /\ schedule \in [Helper -> Date]
  /\ curve \in Curve
  /\ toTell \subseteq Relative \cup {"curve"}
  /\ reader \in BOOLEAN

\* The constructor has asked for the reference date, in setJumps().
Init ==
  /\ evaluationDate \in Date
  /\ quote \in [Helper -> Quote \cup {Null}]
  /\ schedule = [h \in Helper |-> evaluationDate]
  /\ curve = [calculated_ |-> FALSE, frozen_ |-> FALSE, updated_ |-> TRUE,
              referenceDate_ |-> Advance[evaluationDate],
              latestReference_ |-> Advance[evaluationDate], validCurve_ |-> FALSE,
              size |-> 0, nodes |-> 0, solved |-> Null]
  /\ toTell = {}
  /\ reader = FALSE

-----------------------------------------------------------------------------
\* Each operator below takes the curve c to what a call makes of it, given the
\* evaluation date d, schedules s and quotes q of the moment.

\* TermStructure::referenceDate
Referenced(c, d) ==
  IF c.updated_ THEN c ELSE [c EXCEPT !.updated_ = TRUE, !.referenceDate_ = Advance[d]]

\* Slip: data_ is given a place too many.
BootstrapSpare(c, s, q) ==
  LET n == Cardinality({h \in Helper : LatestDate(h, s) > c.referenceDate_})
  IN  IF n < MinAlive
        THEN {<<c, FALSE>>}
        ELSE {<<[c EXCEPT !.calculated_ = TRUE, !.validCurve_ = TRUE, !.size = n + 1,
                          !.nodes = n, !.solved = Inputs(c.referenceDate_, s, q)], TRUE>>}

\* Slip: an exception leaves calculated_ set.
BootstrapUncaught(c, s, q) ==
  LET alive == {h \in Helper : LatestDate(h, s) > c.referenceDate_}
  IN  {<<[c EXCEPT !.calculated_ = TRUE, !.validCurve_ = TRUE, !.size = Cardinality(alive),
                   !.nodes = Cardinality(alive),
                   !.solved = Inputs(c.referenceDate_, s, q)], TRUE>>,
       <<[c EXCEPT !.calculated_ = TRUE, !.validCurve_ = FALSE, !.solved = Null], FALSE>>}

\* IterativeBootstrap::calculate, with the initialize() that a moving curve does
\* each time: the possible results, and whether the call returns.  Whatever the
\* inputs, a solver may fail, which resets validCurve_, or something else on the
\* way, which leaves it: bounds, interpolation, convergence.  (If nodes and size
\* come to differ, the interpolation keeps iterators into vectors it was not made
\* for, and what is solved is undefined: see SpansPillars.)
Bootstrap(c, s, q) ==
  LET alive    == {h \in Helper : LatestDate(h, s) > c.referenceDate_}
      n        == Cardinality(alive)
      distinct == \A h, k \in alive : LatestDate(h, s) = LatestDate(k, s) => h = k
      ready    == [c EXCEPT !.size = n, !.solved = Null]
      solved   == [ready EXCEPT !.calculated_ = TRUE, !.validCurve_ = TRUE,
                                !.nodes = IF c.validCurve_ THEN @ ELSE n,
                                !.solved = Inputs(c.referenceDate_, s, q)]
  IN  IF n < MinAlive
        THEN {<<c, FALSE>>}
      ELSE IF ~distinct
        THEN {<<[c EXCEPT !.solved = Null], FALSE>>}
      ELSE IF \E h \in alive : q[h] = Null
        THEN {<<ready, FALSE>>}
      ELSE {<<solved, TRUE>>, <<ready, FALSE>>, <<[ready EXCEPT !.validCurve_ = FALSE], FALSE>>}

\* YieldTermStructure::discount: the reference date, then LazyObject::calculate.
Read(c, d, s, q) ==
  IF c.calculated_ \/ c.frozen_ THEN {<<Referenced(c, d), TRUE>>}
                               ELSE Bootstrap(Referenced(c, d), s, q)

\* Observable::notifyObservers: an observer may read the curve, and one may raise.
Notified(c, d, s, q) ==
  LET seen == {<<c, TRUE>>} \cup (IF "read" \in Behaviour THEN Read(c, d, s, q) ELSE {})
  IN  seen \cup (IF "raise" \in Behaviour THEN {<<x[1], FALSE>> : x \in seen} ELSE {})

Tells(c) == c.calculated_ /\ ~c.frozen_

\* Slip: LazyObject::update is inherited as it is.
UpdateLazyOnly(c, d, s, q) ==
  LET quiet == [c EXCEPT !.calculated_ = FALSE]
  IN  {x[1] : x \in IF Tells(c) THEN Notified(quiet, d, s, q) ELSE {<<quiet, TRUE>>}}

\* PiecewiseYieldCurve::update: LazyObject::update, then updated_ is reset.
Update(c, d, s, q) ==
  LET quiet == [c EXCEPT !.calculated_ = FALSE]
  IN  {IF x[2] THEN [x[1] EXCEPT !.updated_ = FALSE] ELSE x[1] :
         x \in IF Tells(c) THEN Notified(quiet, d, s, q) ELSE {<<quiet, TRUE>>}}

\* The reader is told, and has read again if the curve is calculated.
Told(c) == c.calculated_

-----------------------------------------------------------------------------
\* Outside notifications the program may change something.
Quiet == toTell = {}

\* The curve's update(), when schedules and quotes have become s and q.
UpdateCurve(s, q) ==
  /\ schedule' = s
  /\ quote' = q
  /\ curve' \in Update(curve, evaluationDate, s, q)
  /\ reader' = IF Tells(curve) THEN Told(curve') ELSE reader

\* ObservableValue::operator=, which notifies even if the date is the same.
SetEvaluationDate(d) ==
  /\ Quiet
  /\ evaluationDate' = d
  /\ toTell' = Relative \cup {"curve"}
  /\ UNCHANGED <<quote, schedule, curve, reader>>

\* RelativeDateBootstrapHelper::update, which notifies the curve.
TellHelper(h) ==
  /\ h \in toTell \ {"curve"}
  /\ toTell' = toTell \ {h}
  /\ UpdateCurve([schedule EXCEPT ![h] = evaluationDate], quote)
  /\ UNCHANGED evaluationDate

TellCurve ==
  /\ "curve" \in toTell
  /\ toTell' = toTell \ {"curve"}
  /\ UpdateCurve(schedule, quote)
  /\ UNCHANGED evaluationDate

\* SimpleQuote::setValue, and so BootstrapHelper::update.
SetQuote(h, v) ==
  /\ Quiet
  /\ v # quote[h]
  /\ UpdateCurve(schedule, [quote EXCEPT ![h] = v])
  /\ UNCHANGED <<evaluationDate, toTell>>

\* A client asks for a discount factor; an observer of the evaluation date may
\* do so before the curve and its helpers have been told.
Discount ==
  /\ Quiet \/ "read" \in Behaviour
  /\ \E x \in Read(curve, evaluationDate, schedule, quote) :
       curve' = x[1] /\ reader' = x[2]
  /\ UNCHANGED <<evaluationDate, quote, schedule, toTell>>

AskReferenceDate ==
  /\ Quiet \/ "read" \in Behaviour
  /\ curve' = Referenced(curve, evaluationDate)
  /\ UNCHANGED <<evaluationDate, quote, schedule, toTell, reader>>

Freeze ==
  /\ Quiet
  /\ curve' = [curve EXCEPT !.frozen_ = TRUE]
  /\ UNCHANGED <<evaluationDate, quote, schedule, toTell, reader>>

\* Slip: the notifications held back are not made up for.
UnfreezeQuiet ==
  /\ Quiet
  /\ curve.frozen_
  /\ curve' = [curve EXCEPT !.frozen_ = FALSE]
  /\ UNCHANGED <<evaluationDate, quote, schedule, toTell, reader>>

\* LazyObject::unfreeze
Unfreeze ==
  /\ Quiet
  /\ curve.frozen_
  /\ \E x \in Notified([curve EXCEPT !.frozen_ = FALSE], evaluationDate, schedule, quote) :
       curve' = x[1] /\ reader' = Told(x[1])
  /\ UNCHANGED <<evaluationDate, quote, schedule, toTell>>

\* LazyObject::recalculate
Recalculate ==
  /\ Quiet
  /\ \E x \in Bootstrap(Referenced([curve EXCEPT !.calculated_ = FALSE, !.frozen_ = FALSE],
                                   evaluationDate), schedule, quote) :
       \E y \in Notified([x[1] EXCEPT !.frozen_ = curve.frozen_],
                         evaluationDate, schedule, quote) :
         curve' = y[1] /\ reader' = Told(y[1])
  /\ UNCHANGED <<evaluationDate, quote, schedule, toTell>>

Next ==
  \/ \E d \in Date : SetEvaluationDate(d)
  \/ \E h \in Helper : TellHelper(h) \/ \E v \in Quote \cup {Null} : SetQuote(h, v)
  \/ TellCurve \/ Discount \/ AskReferenceDate \/ Freeze \/ Unfreeze \/ Recalculate

Spec == Init /\ [][Next]_vars

-----------------------------------------------------------------------------
(***************************************************************************)
(* Once everybody is told, a curve that counts as calculated was solved at *)
(* today's reference date, from the schedules and quotes of today.         *)
(***************************************************************************)
Fresh ==
  Quiet /\ curve.calculated_ =>
    curve.solved = Inputs(Advance[evaluationDate], [h \in Helper |-> evaluationDate], quote)

(***************************************************************************)
(* referenceDate() returns "a date calculated based on the current         *)
(* evaluation date" (termstructure.hpp:54-55).                             *)
(***************************************************************************)
ReferenceCurrent ==
  Quiet => Referenced(curve, evaluationDate).referenceDate_ = Advance[evaluationDate]

(***************************************************************************)
(* A client that has read a discount factor and not been told of a change  *)
(* will be: the curve forwards notifications only if calculated_ is set.   *)
(***************************************************************************)
Listening == Quiet /\ reader /\ ~curve.frozen_ => curve.calculated_

(***************************************************************************)
(* initialize() sets an initial guess "if the current curve cannot be used *)
(* as guess" (iterativebootstrap.hpp:120): a curve solved with another     *)
(* number of helpers cannot, its interpolation spans other pillars.  The   *)
(* code does take it, so no run has this as an invariant.                  *)
(***************************************************************************)
SpansPillars == curve.calculated_ => curve.nodes = curve.size

(***************************************************************************)
(* Times are "calculated as a fraction of year from the reference date"    *)
(* (yieldtermstructure.hpp:70-71), those of the jumps that discount()      *)
(* applies too.  update() leaves theirs as they were, so no run has this   *)
(* as an invariant.                                                        *)
(***************************************************************************)
JumpsMeasured == curve.calculated_ => curve.latestReference_ = curve.referenceDate_

=============================================================================
