----------------------------- MODULE Instruments -----------------------------
(***************************************************************************)
(* Instruments priced on demand by engines they share, a composite of      *)
(* them, and the evaluation date at which they expire.                     *)
(*                                                                         *)
(*   ql/instrument.hpp                      Instrument                     *)
(*   ql/pricingengine.hpp                   GenericEngine                  *)
(*   ql/instruments/compositeinstrument.cpp CompositeInstrument            *)
(*   ql/patterns/lazyobject.hpp             LazyObject, as instruments     *)
(*                                          override it                    *)
(*                                                                         *)
(* Notifications run to their end within one action: their interleavings   *)
(* are the subject of LazyNetwork.  The composite's loop over its          *)
(* components takes one action per component.  A price is a record that    *)
(* names what it was computed from.                                        *)
(***************************************************************************)
EXTENDS Settings, FiniteSets

CONSTANTS
  Leaf,          \* instruments priced by an engine
  Basket,        \* a CompositeInstrument
  Engine,        \* pricing engines
  Engines,       \* of each leaf, the engines the client may give it
  Quote,         \* levels of the one quote that every engine's data depend on
  Expiry,        \* of each leaf, the date of its last event
  Dated,         \* leaves registered with the evaluation date themselves
  Moving,        \* engines whose data move with the evaluation date
  Lazy,          \* engines on lazy data, which tell of a change only once read
  Estimates,     \* pairs of engine and leaf for which an error is estimated
  Controlled,    \* leaves the client freezes; the composite's documentation
                 \* advises against freezing it
  Rewind,        \* whether the client moves the evaluation date back
  Null, Zero, Bad, None

ASSUME ExpiryAssumption == Expiry \in [Leaf -> Nat]
ASSUME EnginesAssumption ==
  /\ Moving \subseteq Engine /\ Lazy \subseteq Engine
  /\ Engines \in [Leaf -> SUBSET (Engine \cup {None})]
ASSUME ControlledAssumption == Controlled \subseteq Leaf
ASSUME NoneAssumption == None \notin Engine /\ Basket \notin Leaf

VARIABLES
  quote,           \* the quote's level, Bad if invalid
  primed,          \* engines in Lazy whose data are calculated
  engine,          \* Instrument::engine_
  engineResults,   \* GenericEngine::results_
  calculated,      \* LazyObject::calculated_
  frozen,          \* LazyObject::frozen_
  NPV,             \* Instrument::NPV_ of the leaves
  errorEstimate,   \* Instrument::errorEstimate_
  basketNPV,       \* NPV_ of the composite, as the terms summed
  components,      \* CompositeInstrument::components_
  loop             \* how far the composite's loop has come; 0 outside it

Values == <<engineResults, primed, NPV, errorEstimate>>
vars == <<settings, quote, engine, frozen, components, loop, basketNPV, calculated,
          Values>>

Instrument == Leaf \cup {Basket}

Price == [engine : Engine, of : Leaf, quote : Quote, at : Date \cup {NoDate}]
Results == [value : Price \cup {Null}, error : Price \cup {Null}]
NoResults == [value |-> Null, error |-> Null]

Sums == UNION {[S -> Price \cup {Zero, Null}] : S \in SUBSET Leaf}

ASSUME MarkerAssumption ==
  {Null, Zero} \cap Price = {} /\ {Null, Zero} \cap Sums = {} /\ Bad \notin Quote

TypeOK ==
  /\ SettingsTypeOK
  /\ quote \in Quote \cup {Bad}
  /\ primed \in SUBSET Lazy
  /\ engine \in [Leaf -> Engine \cup {None}]
  /\ engineResults \in [Engine -> Results]
  /\ calculated \in [Instrument -> BOOLEAN]
  /\ frozen \in [Leaf -> BOOLEAN]
  /\ NPV \in [Leaf -> Price \cup {Zero, Null}]
  /\ errorEstimate \in [Leaf -> Price \cup {Zero, Null}]
  /\ basketNPV \in Sums \cup {Zero, Null}
  /\ components \in Seq(Leaf)
  /\ loop \in 0 .. Len(components)

Init ==
  /\ SettingsInit
  /\ quote \in Quote \cup {Bad}
  /\ primed = {}
  /\ engine = [i \in Leaf |-> None]
  /\ engineResults = [e \in Engine |-> NoResults]
  /\ calculated = [n \in Instrument |-> FALSE]
  /\ frozen = [i \in Leaf |-> FALSE]
  /\ NPV = [i \in Leaf |-> Null]
  /\ basketNPV = Null
  /\ errorEstimate = [i \in Leaf |-> Null]
  /\ components = <<>>
  /\ loop = 0

Expired(i) == HasOccurred(Expiry[i])

Components == {components[k] : k \in 1 .. Len(components)}

BasketExpired == \A i \in Components : Expired(i)

-----------------------------------------------------------------------------
\* Notifications

\* LazyObject::update of the leaves in S, which the composite observes: only
\* what is calculated forwards, and only if it is not frozen.
Outdated(S) ==
  [n \in Instrument |->
     calculated[n] /\ IF n = Basket
                        THEN ~\E i \in S \cap Components : calculated[i] /\ ~frozen[i]
                        ELSE n \notin S]

\* What observes the composite is told, too; here it has no observers.
BasketOutdated == [calculated EXCEPT ![Basket] = FALSE]

\* GenericEngine::update for the engines in E whose data tell of a change.
Telling(E) == {e \in E : e \in Lazy => e \in primed}
Users(E) == {i \in Leaf : engine[i] \in E}

\* The observers of the evaluation date are told.
DateTold ==
  /\ calculated' = Outdated(Dated \cup Users(Telling(Moving)))
  /\ primed' = primed \ Moving
  /\ UNCHANGED <<quote, engine, engineResults, frozen, NPV, errorEstimate,
                 basketNPV, components, loop>>

-----------------------------------------------------------------------------
\* The settings change

Idle == loop = 0

Unpriced == UNCHANGED <<quote, engine, frozen, components, loop, basketNPV, calculated, Values>>

SetEvaluationDate(d) ==
  /\ Idle
  /\ Rewind \/ d >= EvaluationDate
  /\ Assign(d)
  /\ DateTold

ResetEvaluationDate ==
  /\ Idle
  /\ Rewind \/ today >= EvaluationDate
  /\ Assign(NoDate)
  /\ DateTold

AnchorEvaluationDate == Idle /\ Anchor /\ DateTold

SetIncludeReferenceDateEvents(b) == Idle /\ SetFlag(b) /\ Unpriced

StrikesMidnight == Idle /\ Midnight /\ Unpriced

EnterScope == Idle /\ Save /\ Unpriced

\* Slip: the date is restored without a notification.
LeaveScopeQuietly(raises) ==
  /\ Idle
  /\ Restore(raises)
  /\ Unpriced

LeaveScope(raises) ==
  /\ Idle
  /\ Rewind \/ (scopes # <<>> => LastSaved.date >= EvaluationDate)
  /\ Restore(raises)
  /\ IF Assigns THEN DateTold ELSE Unpriced

-----------------------------------------------------------------------------
\* The market and the instruments change

\* SimpleQuote::setValue
SetQuote(q) ==
  /\ Idle
  /\ q # quote
  /\ quote' = q
  /\ calculated' = Outdated(Users(Telling(Engine)))
  /\ primed' = {}
  /\ UNCHANGED <<settings, engine, engineResults, frozen, NPV, errorEstimate,
                 basketNPV, components, loop>>

SetPricingEngine(i, e) ==
  /\ Idle
  /\ engine' = [engine EXCEPT ![i] = e]
  /\ calculated' = Outdated({i})
  /\ UNCHANGED <<settings, quote, primed, engineResults, frozen, NPV, errorEstimate,
                 basketNPV, components, loop>>

\* CompositeInstrument::add, subtract.  Bound: each leaf once.
Add(i) ==
  /\ Idle
  /\ i \notin Components
  /\ components' = Append(components, i)
  /\ calculated' = BasketOutdated
  /\ UNCHANGED <<settings, quote, primed, engine, engineResults, frozen, NPV,
                 errorEstimate, basketNPV, loop>>

Freeze(i) ==
  /\ Idle
  /\ frozen' = [frozen EXCEPT ![i] = TRUE]
  /\ UNCHANGED <<settings, quote, engine, components, loop, basketNPV, calculated, Values>>

\* Observers are told whether or not anything was missed.
Unfreeze(i) ==
  /\ Idle
  /\ frozen[i]
  /\ frozen' = [frozen EXCEPT ![i] = FALSE]
  /\ calculated' = IF i \in Components THEN BasketOutdated ELSE calculated
  /\ UNCHANGED <<settings, quote, primed, engine, engineResults, NPV, errorEstimate,
                 basketNPV, components, loop>>

-----------------------------------------------------------------------------
\* Prices are asked for

\* What engine e makes of leaf i now.
PriceNow(e, i) == [engine |-> e, of |-> i, quote |-> quote,
                   at |-> IF e \in Moving THEN EvaluationDate ELSE NoDate]

\* Instrument::setupExpired, with calculate()'s setting of calculated_.
SetupExpired(i, flags) ==
  /\ NPV' = [NPV EXCEPT ![i] = Zero]
  /\ errorEstimate' = [errorEstimate EXCEPT ![i] = Zero]
  /\ calculated' = [flags EXCEPT ![i] = TRUE]
  /\ UNCHANGED <<engineResults, primed>>

\* Slip: the results of the engine's last calculation are not reset.
ComputedOver(i) ==
  LET e == engine[i] IN
  IF quote = Bad THEN engineResults[e]
  ELSE [value |-> PriceNow(e, i),
        error |-> IF <<e, i>> \in Estimates THEN PriceNow(e, i)
                  ELSE engineResults[e].error]

\* The engine's results after reset() and what calculate() comes to: a bad
\* quote makes it raise.  (An engine that returns without having set its value
\* is left out.)
Computed(i) ==
  LET e == engine[i] IN
  IF quote = Bad THEN NoResults
  ELSE [value |-> PriceNow(e, i),
        error |-> IF <<e, i>> \in Estimates THEN PriceNow(e, i) ELSE Null]

\* LazyObject::calculate around Instrument::performCalculations and
\* fetchResults.  Without an engine, or if it raises, the old results stay.
PerformCalculations(i, flags) ==
  LET e == engine[i] IN
  IF e = None
    THEN /\ calculated' = [flags EXCEPT ![i] = FALSE]
         /\ UNCHANGED <<engineResults, primed, NPV, errorEstimate>>
    ELSE /\ engineResults' = [engineResults EXCEPT ![e] = Computed(i)]
         /\ primed' = IF quote = Bad THEN primed ELSE primed \cup ({e} \cap Lazy)
         /\ calculated' = [flags EXCEPT ![i] = quote # Bad]
         /\ IF quote = Bad THEN UNCHANGED <<NPV, errorEstimate>>
            ELSE /\ NPV' = [NPV EXCEPT ![i] = engineResults'[e].value]
                 /\ errorEstimate' = [errorEstimate EXCEPT ![i] = engineResults'[e].error]

\* Slip: frozen_ is not looked at.
CalculateThawed(i, flags) ==
  IF Expired(i) THEN SetupExpired(i, flags)
  ELSE IF flags[i] THEN calculated' = flags /\ UNCHANGED Values
  ELSE PerformCalculations(i, flags)

\* Instrument::calculate
Calculate(i, flags) ==
  IF Expired(i) THEN SetupExpired(i, flags)
  ELSE IF flags[i] \/ frozen[i] THEN calculated' = flags /\ UNCHANGED Values
  ELSE PerformCalculations(i, flags)

\* NPV() of a leaf, which raises if the engine does or left NPV_ null.
AskNPV(i) ==
  /\ Idle
  /\ Calculate(i, calculated)
  /\ UNCHANGED <<settings, quote, engine, frozen, components, loop, basketNPV>>

\* LazyObject::recalculate, which tells observers in any case.
Recalculate(i) ==
  /\ Idle
  /\ LET flags == IF i \in Components THEN BasketOutdated ELSE calculated
     IN  IF Expired(i) THEN SetupExpired(i, flags) ELSE PerformCalculations(i, flags)
  /\ UNCHANGED <<settings, quote, engine, frozen, components, loop, basketNPV>>

\* NPV() of the composite: expired, or the loop begins.
AskBasket ==
  /\ Idle
  /\ BasketExpired \/ ~calculated[Basket]
  /\ calculated' = [calculated EXCEPT ![Basket] = TRUE]
  /\ IF BasketExpired THEN basketNPV' = Zero /\ loop' = 0
                      ELSE basketNPV' = [i \in {} |-> Zero] /\ loop' = 1
  /\ UNCHANGED <<settings, quote, engine, frozen, components, Values>>

\* NPV() of leaf i would raise.
Raises(i) ==
  /\ ~Expired(i)
  /\ IF calculated[i] \/ frozen[i] THEN NPV[i] = Null
     ELSE engine[i] = None \/ quote = Bad

\* Slip: the loop goes on past the last component.
AddTermPast ==
  /\ loop # 0
  /\ LET i == components[loop] IN
     IF Raises(i)
       THEN /\ Calculate(i, [calculated EXCEPT ![Basket] = FALSE])
            /\ loop' = 0
            /\ UNCHANGED basketNPV
       ELSE /\ Calculate(i, calculated)
            /\ loop' = loop + 1
            /\ basketNPV' = [j \in DOMAIN basketNPV \cup {i} |->
                               IF j = i THEN NPV'[i] ELSE basketNPV[j]]
  /\ UNCHANGED <<settings, quote, engine, frozen, components>>

\* CompositeInstrument::performCalculations: one component's NPV() is added.
\* If it raises, the composite keeps the partial sum and is not calculated.
AddTerm ==
  /\ loop # 0
  /\ LET i == components[loop] IN
     IF Raises(i)
       THEN /\ Calculate(i, [calculated EXCEPT ![Basket] = FALSE])
            /\ loop' = 0
            /\ UNCHANGED basketNPV
       ELSE /\ Calculate(i, calculated)
            /\ loop' = IF loop = Len(components) THEN 0 ELSE loop + 1
            /\ basketNPV' = [j \in DOMAIN basketNPV \cup {i} |->
                               IF j = i THEN NPV'[i] ELSE basketNPV[j]]
  /\ UNCHANGED <<settings, quote, engine, frozen, components>>

Next ==
  \/ \E d \in Date : SetEvaluationDate(d)
  \/ ResetEvaluationDate \/ AnchorEvaluationDate \/ StrikesMidnight \/ EnterScope
  \/ \E b \in BOOLEAN : SetIncludeReferenceDateEvents(b) \/ LeaveScope(b)
  \/ \E q \in Quote \cup {Bad} : SetQuote(q)
  \/ \E i \in Leaf : \/ \E e \in Engines[i] : SetPricingEngine(i, e)
                     \/ Add(i) \/ AskNPV(i) \/ Recalculate(i)
  \/ \E i \in Controlled : Freeze(i) \/ Unfreeze(i)
  \/ AskBasket \/ AddTerm

Spec == Init /\ [][Next]_vars

-----------------------------------------------------------------------------
(***************************************************************************)
(* Engines are shared, and keep the results of whatever they priced last:  *)
(* an instrument that is not expired nevertheless holds only what an       *)
(* engine made of its own arguments, value and error estimate from one and *)
(* the same calculation.                                                   *)
(***************************************************************************)
OwnResults ==
  \A i \in Leaf :
    /\ NPV[i] \in Price => NPV[i].of = i
    /\ errorEstimate[i] \in Price => errorEstimate[i] = NPV[i]

\* An instrument is told of date changes, by the date or through its engine.
Hears(i) == i \in Dated \/ engine[i] \in Moving

\* What NPV() of a leaf that is not frozen should return.
Worth(i) == IF Expired(i) THEN Zero ELSE PriceNow(engine[i], i)

(***************************************************************************)
(* What is marked as calculated is worth what it shows, whatever was       *)
(* repriced, replaced, shared, frozen or restored in between, as long as   *)
(* every change was one that observers are told of: a leaf shows what its  *)
(* present engine makes of the present quote and date, the composite the   *)
(* sum over its present components.  The exception is the zero of an       *)
(* expired instrument, which calculate() keeps without having read         *)
(* anything that would tell it when the date moves back.                   *)
(***************************************************************************)
FreshOrZero ==
  announced /\ Idle =>
    /\ \A i \in Leaf : calculated[i] /\ ~frozen[i] /\ Hears(i) /\ ~Expired(i)
                         => NPV[i] \in {Zero, Worth(i)}
    /\ calculated[Basket] /\ ~BasketExpired /\ basketNPV # Zero =>
         /\ DOMAIN basketNPV = Components
         /\ \A i \in Components : ~frozen[i] /\ Hears(i)
                                    => basketNPV[i] \in {Zero, Worth(i)}

(***************************************************************************)
(* The NPV of a composite is the sum of the NPVs of its components.  An    *)
(* expired composite shows zero without pricing its components, which,     *)
(* not calculated, do not tell it when the date moves back.                *)
(***************************************************************************)
SumOfComponents ==
  /\ announced /\ Idle /\ calculated[Basket] /\ ~BasketExpired
  /\ \A i \in Components : ~frozen[i] /\ engine[i] # None /\ quote # Bad
  => basketNPV = [i \in Components |-> Worth(i)]

(***************************************************************************)
(* A frozen instrument keeps its results until it is unfrozen or           *)
(* recalculated by request, or is found to have expired, which calculate() *)
(* asks before it looks whether the instrument is frozen.                  *)
(***************************************************************************)
FrozenKept ==
  [][\A i \in Leaf : frozen[i] /\ frozen'[i] /\ ~Recalculate(i) /\ ~Expired(i)
       => NPV'[i] = NPV[i] /\ errorEstimate'[i] = errorEstimate[i]]_vars
=============================================================================
