-------------------------- MODULE InstrumentsProofs --------------------------
(***************************************************************************)
(* Proofs about instruments, for any instruments, engines, events and      *)
(* dates: types, that a shared engine never hands one instrument what it   *)
(* made of another, and that what is marked as calculated is fresh.        *)
(*                                                                         *)
(* The last needs an invariant that is also true of frozen instruments,    *)
(* in the middle of the composite's loop, and of lazy engine data.         *)
(***************************************************************************)
EXTENDS Instruments, SequenceTheorems, TLAPS

-----------------------------------------------------------------------------
\* Types

LEMMA EvaluationDateType ==
  ASSUME SettingsTypeOK
  PROVE  EvaluationDate \in Date
BY DEF SettingsTypeOK, EvaluationDate

LEMMA AssignType ==
  ASSUME SettingsTypeOK, NEW d \in Date \cup {NoDate}, Assign(d)
  PROVE  SettingsTypeOK'
BY DEF SettingsTypeOK, Assign

LEMMA AnchorType ==
  ASSUME SettingsTypeOK, Anchor
  PROVE  SettingsTypeOK'
BY AssignType DEF SettingsTypeOK, Anchor

LEMMA SetFlagType ==
  ASSUME SettingsTypeOK, NEW b \in BOOLEAN, SetFlag(b)
  PROVE  SettingsTypeOK'
BY DEF SettingsTypeOK, SetFlag

LEMMA MidnightType ==
  ASSUME SettingsTypeOK, Midnight
  PROVE  SettingsTypeOK'
<1>1. today + 1 \in Date
  BY DateAssumption DEF SettingsTypeOK, Midnight, Date
<1>2. QED
  BY <1>1 DEF SettingsTypeOK, Midnight

LEMMA SaveType ==
  ASSUME SettingsTypeOK, Save
  PROVE  SettingsTypeOK'
<1> DEFINE s == [date |-> EvaluationDate, flag |-> includeReferenceDateEvents]
<1>1. s \in Saved
  BY EvaluationDateType DEF SettingsTypeOK, Saved
<1> HIDE DEF s
<1>2. scopes' = Append(scopes, s) /\ scopes \in Seq(Saved)
  BY DEF Save, SettingsTypeOK, s
<1>3. scopes' \in Seq(Saved) /\ Len(scopes') = Len(scopes) + 1
  BY <1>1, <1>2, AppendProperties
<1>4. Len(scopes') <= MaxScopes
  BY <1>2, <1>3, ScopesAssumption DEF Save
<1>5. QED
  BY <1>3, <1>4 DEF SettingsTypeOK, Save

LEMMA RestoreType ==
  ASSUME SettingsTypeOK, NEW b \in BOOLEAN, Restore(b)
  PROVE  SettingsTypeOK'
<1>1. scopes \in Seq(Saved) /\ Len(scopes) \in Nat /\ Len(scopes) # 0
  BY DEF SettingsTypeOK, Restore
<1>2. LastSaved \in Saved
  BY <1>1 DEF LastSaved
<1>3. LastSaved.date \in Date /\ LastSaved.flag \in BOOLEAN
  BY <1>2 DEF Saved
<1>4. scopes' \in Seq(Saved) /\ Len(scopes') <= Len(scopes)
  <2> DEFINE n == Len(scopes) - 1
             front == SubSeq(scopes, 1, n)
  <2>1. n \in Nat /\ \A k \in 1 .. n : scopes[k] \in Saved
    BY <1>1
  <2> HIDE DEF n
  <2>2. front \in Seq(Saved) /\ Len(front) = IF 1 <= n THEN n - 1 + 1 ELSE 0
    BY <2>1, SubSeqProperties
  <2>3. scopes' = front
    BY DEF Restore, n
  <2> HIDE DEF front
  <2>4. Len(front) = n
    BY <2>1, <2>2
  <2>5. QED
    BY <1>1, <2>2, <2>3, <2>4 DEF n
<1>5. today' \in Date /\ evaluationDate' \in Date \cup {NoDate}
  BY <1>3 DEF SettingsTypeOK, Restore
<1>6. includeReferenceDateEvents' \in BOOLEAN /\ announced' \in BOOLEAN
  BY <1>3, Zenon DEF SettingsTypeOK, Restore
<1>7. Len(scopes') <= MaxScopes
  BY <1>1, <1>4, ScopesAssumption DEF SettingsTypeOK
<1>8. QED
  BY <1>4, <1>5, <1>6, <1>7 DEF SettingsTypeOK

\* The settings change by one of their own actions; prices are told or not.
LEMMA SettingsStepType ==
  ASSUME TypeOK, SettingsTypeOK', DateTold \/ Unpriced
  PROVE  TypeOK'
<1>1. CASE DateTold
  <2>1. Outdated(Dated \cup Users(Telling(Moving))) \in [Instrument -> BOOLEAN]
    BY DEF Outdated
  <2>2. QED
    BY <1>1, <2>1 DEF TypeOK, DateTold
<1>2. CASE Unpriced
  BY <1>2 DEF TypeOK, Unpriced, Values
<1>3. QED
  BY <1>1, <1>2

LEMMA SettingsActionType ==
  ASSUME TypeOK,
         \/ \E d \in Date : SetEvaluationDate(d)
         \/ ResetEvaluationDate \/ AnchorEvaluationDate \/ StrikesMidnight \/ EnterScope
         \/ \E b \in BOOLEAN : SetIncludeReferenceDateEvents(b) \/ LeaveScope(b)
  PROVE  TypeOK'
<1>1. SettingsTypeOK
  BY DEF TypeOK
<1>2. ASSUME NEW d \in Date, SetEvaluationDate(d)
      PROVE  TypeOK'
  BY <1>1, <1>2, AssignType, SettingsStepType DEF SetEvaluationDate
<1>3. CASE ResetEvaluationDate
  BY <1>1, <1>3, AssignType, SettingsStepType DEF ResetEvaluationDate
<1>4. CASE AnchorEvaluationDate
  BY <1>1, <1>4, AnchorType, SettingsStepType DEF AnchorEvaluationDate
<1>5. CASE StrikesMidnight
  BY <1>1, <1>5, MidnightType, SettingsStepType DEF StrikesMidnight
<1>6. CASE EnterScope
  BY <1>1, <1>6, SaveType, SettingsStepType DEF EnterScope
<1>7. ASSUME NEW b \in BOOLEAN, SetIncludeReferenceDateEvents(b)
      PROVE  TypeOK'
  BY <1>1, <1>7, SetFlagType, SettingsStepType DEF SetIncludeReferenceDateEvents
<1>8. ASSUME NEW b \in BOOLEAN, LeaveScope(b)
      PROVE  TypeOK'
  BY <1>1, <1>8, RestoreType, SettingsStepType DEF LeaveScope
<1>9. QED
  BY <1>2, <1>3, <1>4, <1>5, <1>6, <1>7, <1>8

LEMMA MarketType ==
  ASSUME TypeOK, NEW q \in Quote \cup {Bad}, SetQuote(q)
  PROVE  TypeOK'
<1>1. calculated' \in [Instrument -> BOOLEAN]
  BY DEF SetQuote, Outdated
<1>2. SettingsTypeOK'
  BY DEF TypeOK, SettingsTypeOK, SetQuote, settings
<1>3. QED
  BY <1>1, <1>2 DEF TypeOK, SetQuote

LEMMA SetPricingEngineType ==
  ASSUME TypeOK, NEW i \in Leaf, NEW e \in Engines[i], SetPricingEngine(i, e)
  PROVE  TypeOK'
<1>1. calculated' \in [Instrument -> BOOLEAN]
  BY DEF SetPricingEngine, Outdated
<1>2. SettingsTypeOK'
  BY DEF TypeOK, SettingsTypeOK, SetPricingEngine, settings
<1>3. engine' \in [Leaf -> Engine \cup {None}]
  BY EnginesAssumption DEF TypeOK, SetPricingEngine
<1>4. QED
  BY <1>1, <1>2, <1>3 DEF TypeOK, SetPricingEngine

\* A flag of an instrument changes.
LEMMA FlagsType ==
  ASSUME NEW flags \in [Instrument -> BOOLEAN], NEW n \in Instrument, NEW b \in BOOLEAN
  PROVE  [flags EXCEPT ![n] = b] \in [Instrument -> BOOLEAN]
OBVIOUS

LEMMA AddType ==
  ASSUME TypeOK, NEW i \in Leaf, Add(i)
  PROVE  TypeOK'
<1>1. components' \in Seq(Leaf)
  BY AppendProperties DEF TypeOK, Add
<1>2. loop' = 0 /\ loop' \in 0 .. Len(components')
  BY <1>1 DEF Add, Idle
<1>3. calculated' \in [Instrument -> BOOLEAN]
  BY FlagsType DEF TypeOK, Add, BasketOutdated, Instrument
<1>4. SettingsTypeOK'
  BY DEF TypeOK, SettingsTypeOK, Add, settings
<1>5. QED
  BY <1>1, <1>2, <1>3, <1>4 DEF TypeOK, Add

LEMMA FreezeType ==
  ASSUME TypeOK, NEW i \in Leaf, Freeze(i) \/ Unfreeze(i)
  PROVE  TypeOK'
<1>1. calculated' \in [Instrument -> BOOLEAN]
  BY FlagsType DEF TypeOK, Freeze, Unfreeze, BasketOutdated, Instrument
<1>2. SettingsTypeOK'
  BY DEF TypeOK, SettingsTypeOK, Freeze, Unfreeze, settings
<1>3. frozen' \in [Leaf -> BOOLEAN]
  BY DEF TypeOK, Freeze, Unfreeze
<1>4. QED
  BY <1>1, <1>2, <1>3 DEF TypeOK, Freeze, Unfreeze, Values

LEMMA PriceType ==
  ASSUME TypeOK, NEW i \in Leaf, NEW e \in Engine, quote # Bad
  PROVE  PriceNow(e, i) \in Price
<1>1. EvaluationDate \in Date
  BY EvaluationDateType DEF TypeOK
<1>2. QED
  BY <1>1 DEF PriceNow, Price, TypeOK

\* What calculations of leaf i may write.
Written ==
  /\ primed \in SUBSET Lazy
  /\ engineResults \in [Engine -> Results]
  /\ calculated \in [Instrument -> BOOLEAN]
  /\ NPV \in [Leaf -> Price \cup {Zero, Null}]
  /\ errorEstimate \in [Leaf -> Price \cup {Zero, Null}]

LEMMA SetupExpiredType ==
  ASSUME TypeOK, NEW i \in Leaf, NEW flags \in [Instrument -> BOOLEAN], SetupExpired(i, flags)
  PROVE  Written'
<1>1. calculated' \in [Instrument -> BOOLEAN]
  BY FlagsType DEF SetupExpired, Instrument
<1>2. QED
  BY <1>1 DEF TypeOK, Written, SetupExpired

LEMMA PerformType ==
  ASSUME TypeOK, NEW i \in Leaf, NEW flags \in [Instrument -> BOOLEAN],
         PerformCalculations(i, flags)
  PROVE  Written'
<1> DEFINE e == engine[i]
<1>1. e \in Engine \cup {None}
  BY DEF TypeOK
<1>2. CASE e = None
  <2>1. calculated' \in [Instrument -> BOOLEAN]
    BY <1>2, FlagsType DEF PerformCalculations, Instrument
  <2>2. QED
    BY <1>2, <2>1 DEF TypeOK, Written, PerformCalculations
<1>3. CASE e # None
  <2>1. e \in Engine
    BY <1>1, <1>3
  <2>2. calculated' = [flags EXCEPT ![i] = quote # Bad]
    BY <1>3 DEF PerformCalculations
  <2>3. calculated' \in [Instrument -> BOOLEAN]
    BY <2>2, FlagsType DEF Instrument
  <2>4. Computed(i) \in Results /\ (quote # Bad => Computed(i).value \in Price)
    BY <2>1, PriceType DEF Computed, Results, NoResults
  <2>5. /\ engineResults' = [engineResults EXCEPT ![e] = Computed(i)]
        /\ engineResults' \in [Engine -> Results] /\ engineResults'[e] = Computed(i)
    BY <1>3, <2>1, <2>4 DEF TypeOK, PerformCalculations
  <2>6. engineResults'[e].value \in Price \cup {Null} /\ engineResults'[e].error \in Price \cup {Null}
    BY <2>4, <2>5 DEF Results
  <2>7. /\ NPV' \in [Leaf -> Price \cup {Zero, Null}]
        /\ errorEstimate' \in [Leaf -> Price \cup {Zero, Null}]
    BY <1>3, <2>6 DEF TypeOK, PerformCalculations
  <2>8. primed' \in SUBSET Lazy
    BY <1>3 DEF TypeOK, PerformCalculations
  <2>9. QED
    BY <2>3, <2>5, <2>7, <2>8 DEF Written
<1>4. QED
  BY <1>2, <1>3

LEMMA CalculateType ==
  ASSUME TypeOK, NEW i \in Leaf, NEW flags \in [Instrument -> BOOLEAN], Calculate(i, flags)
  PROVE  Written'
<1>1. CASE Expired(i)
  BY <1>1, SetupExpiredType DEF Calculate
<1>2. CASE ~Expired(i) /\ (flags[i] \/ frozen[i])
  BY <1>2 DEF Calculate, Values, Written, TypeOK
<1>3. CASE ~Expired(i) /\ ~(flags[i] \/ frozen[i])
  BY <1>3, PerformType DEF Calculate
<1>4. QED
  BY <1>1, <1>2, <1>3

\* In the composite's loop there is a partial sum.
Summing == loop # 0 => basketNPV \in Sums

TypeInv == TypeOK /\ Summing

LEMMA SumType ==
  ASSUME NEW sum \in Sums, NEW i \in Leaf, NEW v \in Price \cup {Zero, Null}
  PROVE  [j \in DOMAIN sum \cup {i} |-> IF j = i THEN v ELSE sum[j]] \in Sums
<1>1. PICK S \in SUBSET Leaf : sum \in [S -> Price \cup {Zero, Null}]
  BY DEF Sums
<1>2. [j \in DOMAIN sum \cup {i} |-> IF j = i THEN v ELSE sum[j]]
        \in [S \cup {i} -> Price \cup {Zero, Null}]
  BY <1>1
<1>3. S \cup {i} \in SUBSET Leaf
  BY <1>1
<1>4. QED
  BY <1>2, <1>3 DEF Sums

LEMMA AskNPVType ==
  ASSUME TypeOK, NEW i \in Leaf, AskNPV(i) \/ Recalculate(i)
  PROVE  TypeOK'
<1> DEFINE told == IF i \in Components THEN BasketOutdated ELSE calculated
<1>1. calculated \in [Instrument -> BOOLEAN] /\ told \in [Instrument -> BOOLEAN]
  BY FlagsType DEF TypeOK, BasketOutdated, Instrument
<1>2. SettingsTypeOK'
  BY DEF TypeOK, SettingsTypeOK, AskNPV, Recalculate, settings
<1>3. CASE AskNPV(i)
  <2>1. Written'
    BY <1>1, <1>3, CalculateType DEF AskNPV
  <2>2. QED
    BY <1>2, <1>3, <2>1 DEF TypeOK, AskNPV, Written
<1>4. CASE Recalculate(i)
  <2>1. SetupExpired(i, told) \/ PerformCalculations(i, told)
    BY <1>4 DEF Recalculate
  <2> HIDE DEF told
  <2>2. Written'
    BY <1>1, <2>1, SetupExpiredType, PerformType
  <2>3. QED
    BY <1>2, <1>4, <2>2 DEF TypeOK, Recalculate, Written
<1>5. QED
  BY <1>3, <1>4

LEMMA AskBasketType ==
  ASSUME TypeOK, AskBasket
  PROVE  TypeInv'
<1>1. calculated' \in [Instrument -> BOOLEAN]
  BY FlagsType DEF TypeOK, AskBasket, Instrument
<1>2. SettingsTypeOK'
  BY DEF TypeOK, SettingsTypeOK, AskBasket, settings
<1>3. [i \in {} |-> Zero] \in Sums
  <2>1. [i \in {} |-> Zero] \in [{} -> Price \cup {Zero, Null}]
    OBVIOUS
  <2>2. QED
    BY <2>1 DEF Sums
<1>4. ~BasketExpired => Len(components) # 0
  BY DEF BasketExpired, Components, TypeOK
<1>5. loop' \in 0 .. Len(components)
  BY <1>4 DEF AskBasket, TypeOK
<1>6. basketNPV' \in Sums \cup {Zero, Null} /\ (loop' # 0 => basketNPV' \in Sums)
  BY <1>3 DEF AskBasket
<1>7. QED
  BY <1>1, <1>2, <1>5, <1>6 DEF TypeInv, Summing, TypeOK, AskBasket, Values

LEMMA AddTermType ==
  ASSUME TypeInv, AddTerm
  PROVE  TypeInv'
<1> DEFINE i == components[loop]
           outdated == [calculated EXCEPT ![Basket] = FALSE]
<1>1. TypeOK /\ loop \in 1 .. Len(components) /\ i \in Leaf /\ basketNPV \in Sums
  BY DEF TypeInv, TypeOK, Summing, AddTerm
<1>2. calculated \in [Instrument -> BOOLEAN] /\ outdated \in [Instrument -> BOOLEAN]
  BY FlagsType DEF TypeInv, TypeOK, Instrument
<1>3. SettingsTypeOK'
  BY DEF TypeInv, TypeOK, SettingsTypeOK, AddTerm, settings
<1>4. CASE Raises(i)
  <2>1. Calculate(i, outdated) /\ loop' = 0 /\ UNCHANGED basketNPV
    BY <1>4 DEF AddTerm
  <2> HIDE DEF outdated
  <2>2. Written'
    BY <1>1, <1>2, <2>1, CalculateType
  <2>3. QED
    BY <1>1, <1>3, <2>1, <2>2 DEF TypeInv, TypeOK, Summing, AddTerm, Written
<1>5. CASE ~Raises(i)
  <2>1. /\ Calculate(i, calculated) /\ loop' \in {0, loop + 1}
        /\ loop' # 0 => loop # Len(components)
        /\ basketNPV' = [j \in DOMAIN basketNPV \cup {i} |->
                           IF j = i THEN NPV'[i] ELSE basketNPV[j]]
    BY <1>5 DEF AddTerm
  <2>2. Written'
    BY <1>1, <1>2, <2>1, CalculateType
  <2> HIDE DEF i
  <2>3. basketNPV' \in Sums
    BY <1>1, <2>1, <2>2, SumType DEF Written
  <2>4. loop' \in 0 .. Len(components)
    BY <1>1, <2>1
  <2>5. QED
    BY <1>1, <1>3, <2>2, <2>3, <2>4 DEF TypeInv, TypeOK, Summing, AddTerm, Written
<1>6. QED
  BY <1>4, <1>5

LEMMA InitType ==
  ASSUME Init
  PROVE  TypeInv
<1>1. SettingsTypeOK
  <2>1. 1 \in Date
    BY DateAssumption DEF Date
  <2>2. scopes \in Seq(Saved) /\ Len(scopes) = 0
    BY DEF Init, SettingsInit
  <2>3. Len(scopes) <= MaxScopes
    BY <2>2, ScopesAssumption
  <2>4. today \in Date /\ evaluationDate = NoDate
    BY <2>1 DEF Init, SettingsInit
  <2>5. includeReferenceDateEvents \in BOOLEAN /\ announced \in BOOLEAN
    BY DEF Init, SettingsInit
  <2>6. QED
    BY <2>2, <2>3, <2>4, <2>5 DEF SettingsTypeOK
<1>2. NoResults \in Results
  BY DEF NoResults, Results
<1>3. components \in Seq(Leaf) /\ loop \in 0 .. Len(components)
  BY DEF Init
<1>4. QED
  BY <1>1, <1>2, <1>3 DEF Init, TypeInv, TypeOK, Summing

LEMMA NextType ==
  ASSUME TypeInv, [Next]_vars
  PROVE  TypeInv'
<1>1. TypeOK
  BY DEF TypeInv
<1>2. CASE \/ \E d \in Date : SetEvaluationDate(d)
           \/ ResetEvaluationDate \/ AnchorEvaluationDate \/ StrikesMidnight \/ EnterScope
           \/ \E b \in BOOLEAN : SetIncludeReferenceDateEvents(b) \/ LeaveScope(b)
  <2>1. loop' = loop /\ basketNPV' = basketNPV
    BY <1>2 DEF SetEvaluationDate, ResetEvaluationDate, AnchorEvaluationDate,
                StrikesMidnight, EnterScope, SetIncludeReferenceDateEvents, LeaveScope,
                DateTold, Unpriced
  <2>2. QED
    BY <1>1, <1>2, <2>1, SettingsActionType DEF TypeInv, Summing
<1>3. ASSUME NEW q \in Quote \cup {Bad}, SetQuote(q)
      PROVE  TypeInv'
  BY <1>1, <1>3, MarketType DEF TypeInv, Summing, SetQuote
<1>4. ASSUME NEW i \in Leaf, NEW e \in Engines[i], SetPricingEngine(i, e)
      PROVE  TypeInv'
  BY <1>1, <1>4, SetPricingEngineType DEF TypeInv, Summing, SetPricingEngine
<1>5. ASSUME NEW i \in Leaf, Add(i)
      PROVE  TypeInv'
  BY <1>1, <1>5, AddType DEF TypeInv, Summing, Add
<1>6. ASSUME NEW i \in Leaf, AskNPV(i) \/ Recalculate(i)
      PROVE  TypeInv'
  BY <1>1, <1>6, AskNPVType DEF TypeInv, Summing, AskNPV, Recalculate
<1>7. ASSUME NEW i \in Controlled, Freeze(i) \/ Unfreeze(i)
      PROVE  TypeInv'
  BY <1>1, <1>7, FreezeType, ControlledAssumption DEF TypeInv, Summing, Freeze, Unfreeze
<1>8. CASE AskBasket
  BY <1>1, <1>8, AskBasketType
<1>9. CASE AddTerm
  BY <1>9, AddTermType
<1>10. CASE UNCHANGED vars
  BY <1>10 DEF vars, Values, settings, TypeInv, Summing, TypeOK, SettingsTypeOK
<1>11. QED
  BY <1>2, <1>3, <1>4, <1>5, <1>6, <1>7, <1>8, <1>9, <1>10 DEF Next

(***************************************************************************)
(* The state keeps its types, in the middle of the composite's loop too.   *)
(***************************************************************************)
THEOREM TypeCorrect == Spec => []TypeOK
<1>1. Init => TypeInv
  BY InitType
<1>2. TypeInv /\ [Next]_vars => TypeInv'
  BY NextType
<1>3. TypeInv => TypeOK
  BY DEF TypeInv
<1>4. QED
  BY <1>1, <1>2, <1>3, PTL DEF Spec

-----------------------------------------------------------------------------
\* Results are an instrument's own

\* Whatever ends a calculation of leaf i.
Calculation(i, flags) ==
  \/ Expired(i) /\ SetupExpired(i, flags)
  \/ ~Expired(i) /\ PerformCalculations(i, flags)
  \/ calculated' = flags /\ UNCHANGED Values

LEMMA CalculateIsCalculation ==
  ASSUME NEW i, NEW flags, Calculate(i, flags)
  PROVE  Calculation(i, flags)
BY DEF Calculate, Calculation

LEMMA CalculationOwn ==
  ASSUME TypeOK, OwnResults, NEW i \in Leaf, NEW flags, Calculation(i, flags)
  PROVE  OwnResults'
<1>1. CASE SetupExpired(i, flags)
  <2>1. NPV'[i] = Zero /\ errorEstimate'[i] = Zero /\ Zero \notin Price
    BY <1>1, MarkerAssumption DEF SetupExpired, TypeOK
  <2>2. \A j \in Leaf \ {i} : NPV'[j] = NPV[j] /\ errorEstimate'[j] = errorEstimate[j]
    BY <1>1 DEF SetupExpired, TypeOK
  <2>3. QED
    BY <2>1, <2>2 DEF OwnResults
<1>2. CASE PerformCalculations(i, flags)
  <2> DEFINE e == engine[i]
  <2>1. CASE e = None \/ quote = Bad
    BY <1>2, <2>1 DEF PerformCalculations, OwnResults
  <2>2. CASE e # None /\ quote # Bad
    <3>1. e \in Engine /\ engineResults'[e] = Computed(i)
      BY <1>2, <2>2 DEF PerformCalculations, TypeOK
    <3>2. /\ NPV'[i] = PriceNow(e, i) /\ NPV'[i].of = i
          /\ errorEstimate'[i] \in {PriceNow(e, i), Null}
      BY <1>2, <2>2, <3>1 DEF PerformCalculations, Computed, PriceNow, TypeOK
    <3>3. \A j \in Leaf \ {i} : NPV'[j] = NPV[j] /\ errorEstimate'[j] = errorEstimate[j]
      BY <1>2, <2>2 DEF PerformCalculations, TypeOK
    <3>4. Null \notin Price
      BY MarkerAssumption
    <3>5. QED
      BY <3>2, <3>3, <3>4 DEF OwnResults
  <2>3. QED
    BY <2>1, <2>2
<1>3. CASE UNCHANGED Values
  BY <1>3 DEF Values, OwnResults
<1>4. QED
  BY <1>1, <1>2, <1>3 DEF Calculation

LEMMA NextOwn ==
  ASSUME TypeInv, OwnResults, [Next]_vars
  PROVE  OwnResults'
<1>1. TypeOK
  BY DEF TypeInv
<1>2. ASSUME NEW i \in Leaf, AskNPV(i) \/ Recalculate(i)
      PROVE  OwnResults'
  BY <1>1, <1>2, CalculateIsCalculation, CalculationOwn DEF AskNPV, Recalculate, Calculation
<1>3. CASE AddTerm
  <2>1. components[loop] \in Leaf
    BY <1>1, <1>3 DEF TypeOK, AddTerm
  <2>2. QED
    BY <1>1, <1>3, <2>1, CalculateIsCalculation, CalculationOwn DEF AddTerm
<1>4. CASE UNCHANGED <<NPV, errorEstimate>>
  BY <1>4 DEF OwnResults
<1>5. QED
  BY <1>2, <1>3, <1>4
  DEF Next, SetEvaluationDate, ResetEvaluationDate, AnchorEvaluationDate, StrikesMidnight,
      EnterScope, SetIncludeReferenceDateEvents, LeaveScope, SetQuote, SetPricingEngine, Add,
      Freeze, Unfreeze, AskBasket, DateTold, Unpriced, Values, vars

(***************************************************************************)
(* Instrument::fetchResults: however engines are shared among instruments, *)
(* and whatever raised before, an instrument has only its own results.     *)
(***************************************************************************)
THEOREM EnginesCanBeShared == Spec => []OwnResults
<1>1. Init => TypeInv /\ OwnResults
  BY InitType, MarkerAssumption DEF Init, OwnResults
<1>2. TypeInv /\ OwnResults /\ [Next]_vars => (TypeInv /\ OwnResults)'
  BY NextType, NextOwn
<1>3. QED
  BY <1>1, <1>2, PTL DEF Spec

-----------------------------------------------------------------------------
\* What is calculated is fresh

Watched(i) == announced /\ Hears(i)

Current(i) == PriceNow(engine[i], i)

\* The price of leaf i is one that what it depends on will tell of.
Valid(i) ==
  ~Expired(i) /\ engine[i] \in Engine /\ (engine[i] \in Lazy => engine[i] \in primed)

Good(i, v) == Watched(i) /\ v # Zero => Valid(i) /\ v = Current(i)

LeavesGood == \A i \in Leaf : calculated[i] => Good(i, NPV[i])

\* The components in the composite's sum, all of them or those so far.
Summed == {components[k] : k \in 1 .. IF Idle THEN Len(components) ELSE loop - 1}

BasketGood ==
  calculated[Basket] /\ basketNPV # Zero =>
    /\ DOMAIN basketNPV = Summed
    /\ \A i \in Summed : ~frozen[i] => calculated[i] /\ Good(i, basketNPV[i])

FreshInv == LeavesGood /\ BasketGood

\* A step leaves leaf i as well priced as it was.
Keeps(i) ==
  Watched(i)' => Watched(i) /\ (Valid(i) => Valid(i)' /\ Current(i)' = Current(i))

LEMMA SummedLeaves ==
  ASSUME TypeOK
  PROVE  Summed \subseteq Leaf
BY DEF TypeOK, Summed, Idle

\* A step tells whom it must, of what they depend on.
LEMMA ToldFresh ==
  ASSUME TypeOK, FreshInv, UNCHANGED <<NPV, basketNPV, components, loop>>,
         \A i \in Leaf : calculated'[i] => calculated[i] /\ Keeps(i),
         calculated'[Basket] => calculated[Basket]
           /\ \A i \in Summed : ~frozen'[i] => ~frozen[i] /\ (calculated[i] => calculated'[i])
  PROVE  FreshInv'
<1>1. ASSUME NEW i \in Leaf, calculated'[i]
      PROVE  Good(i, NPV[i])'
  BY <1>1 DEF FreshInv, LeavesGood, Good, Keeps
<1>2. Summed' = Summed
  BY DEF Summed, Idle
<1>3. ASSUME calculated'[Basket], basketNPV # Zero, NEW i \in Summed, ~frozen'[i]
      PROVE  calculated'[i] /\ Good(i, basketNPV[i])'
  <2>1. i \in Leaf /\ calculated[i] /\ Good(i, basketNPV[i]) /\ calculated'[i] /\ Keeps(i)
    BY <1>3, SummedLeaves DEF FreshInv, BasketGood
  <2>2. QED
    BY <2>1 DEF Good, Keeps
<1>4. calculated'[Basket] /\ basketNPV # Zero => DOMAIN basketNPV = Summed
  BY DEF FreshInv, BasketGood
<1>5. LeavesGood'
  BY <1>1 DEF LeavesGood
<1>6. BasketGood'
  BY <1>2, <1>3, <1>4 DEF BasketGood
<1>7. QED
  BY <1>5, <1>6 DEF FreshInv

\* The leaves in S are told.
LEMMA OutdatedFresh ==
  ASSUME TypeOK, FreshInv, UNCHANGED <<NPV, basketNPV, components, loop, frozen>>,
         NEW S, calculated' = Outdated(S), \A i \in Leaf \ S : Keeps(i)
  PROVE  FreshInv'
<1>1. \A i \in Leaf : calculated'[i] = (calculated[i] /\ i \notin S)
  BY NoneAssumption DEF Outdated, Instrument
<1>2. calculated'[Basket] =
        (calculated[Basket] /\ ~\E i \in S \cap Components : calculated[i] /\ ~frozen[i])
  BY DEF Outdated, Instrument
<1>3. Summed \subseteq Components
  BY DEF Summed, Components, Idle, TypeOK
<1>4. ASSUME NEW i \in Leaf, calculated'[i]
      PROVE  calculated[i] /\ Keeps(i)
  BY <1>1, <1>4
<1>5. ASSUME calculated'[Basket], NEW i \in Summed, ~frozen'[i], calculated[i]
      PROVE  calculated'[i]
  <2>1. i \notin S
    BY <1>2, <1>3, <1>5
  <2>2. QED
    BY <1>1, <1>5, <2>1, SummedLeaves
<1>6. calculated'[Basket] => calculated[Basket]
  BY <1>2
<1>7. QED
  BY <1>4, <1>5, <1>6, ToldFresh

\* Nobody is told, and nothing has changed that an announcement is due for.
LEMMA UnpricedFresh ==
  ASSUME TypeOK, FreshInv, Unpriced,
         announced' => announced /\ EvaluationDate' = EvaluationDate
                         /\ includeReferenceDateEvents' = includeReferenceDateEvents
  PROVE  FreshInv'
<1>1. \A i \in Leaf : Keeps(i)
  BY DEF Unpriced, Values, Keeps, Watched, Hears, Valid, Current, PriceNow, Expired, HasOccurred
<1>2. QED
  BY <1>1, ToldFresh DEF Unpriced, Values

\* The observers of the evaluation date are told of a change.
LEMMA DateToldFresh ==
  ASSUME TypeOK, FreshInv, DateTold,
         announced' => announced /\ includeReferenceDateEvents' = includeReferenceDateEvents
  PROVE  FreshInv'
<1> DEFINE S == Dated \cup Users(Telling(Moving))
<1>1. ASSUME NEW i \in Leaf \ S
      PROVE  Keeps(i)
  <2>1. Watched(i)' => Watched(i) /\ engine[i] \in Moving
    BY <1>1 DEF Watched, Hears, DateTold
  <2>2. engine[i] \in Moving => ~Valid(i)
    BY <1>1, EnginesAssumption DEF Users, Telling, Valid
  <2>3. QED
    BY <2>1, <2>2 DEF Keeps
<1>2. calculated' = Outdated(S) /\ UNCHANGED <<NPV, basketNPV, components, loop, frozen>>
  BY DEF DateTold
<1> HIDE DEF S
<1>3. QED
  BY <1>1, <1>2, OutdatedFresh

LEMMA SettingsFresh ==
  ASSUME TypeOK, FreshInv,
         \/ \E d \in Date : SetEvaluationDate(d)
         \/ ResetEvaluationDate \/ AnchorEvaluationDate \/ StrikesMidnight \/ EnterScope
         \/ \E b \in BOOLEAN : SetIncludeReferenceDateEvents(b) \/ LeaveScope(b)
  PROVE  FreshInv'
<1>1. ASSUME NEW d, Assign(d), DateTold
      PROVE  FreshInv'
  BY <1>1, DateToldFresh DEF Assign
<1>2. ASSUME NEW d \in Date, SetEvaluationDate(d)
      PROVE  FreshInv'
  BY <1>1, <1>2 DEF SetEvaluationDate
<1>3. CASE ResetEvaluationDate
  BY <1>1, <1>3 DEF ResetEvaluationDate
<1>4. CASE AnchorEvaluationDate
  BY <1>1, <1>4 DEF AnchorEvaluationDate, Anchor
<1>5. CASE StrikesMidnight
  <2>1. announced' => announced /\ evaluationDate # NoDate
    BY <1>5 DEF StrikesMidnight, Midnight
  <2>2. UNCHANGED <<evaluationDate, includeReferenceDateEvents>> /\ Unpriced
    BY <1>5 DEF StrikesMidnight, Midnight
  <2>3. QED
    BY <2>1, <2>2, UnpricedFresh DEF EvaluationDate
<1>6. CASE EnterScope
  <2>1. UNCHANGED <<today, evaluationDate, includeReferenceDateEvents, announced>> /\ Unpriced
    BY <1>6 DEF EnterScope, Save
  <2>2. QED
    BY <2>1, UnpricedFresh DEF EvaluationDate
<1>7. ASSUME NEW b \in BOOLEAN, SetIncludeReferenceDateEvents(b)
      PROVE  FreshInv'
  <2>1. announced' => announced /\ b = includeReferenceDateEvents
    BY <1>7 DEF SetIncludeReferenceDateEvents, SetFlag
  <2>2. UNCHANGED <<today, evaluationDate>> /\ includeReferenceDateEvents' = b /\ Unpriced
    BY <1>7 DEF SetIncludeReferenceDateEvents, SetFlag
  <2>3. QED
    BY <2>1, <2>2, UnpricedFresh DEF EvaluationDate
<1>8. ASSUME NEW b \in BOOLEAN, LeaveScope(b)
      PROVE  FreshInv'
  <2>1. announced' => announced /\ includeReferenceDateEvents' = includeReferenceDateEvents
    BY <1>8 DEF LeaveScope, Restore
  <2>2. CASE Assigns
    BY <1>8, <2>1, <2>2, DateToldFresh DEF LeaveScope
  <2>3. CASE ~Assigns
    <3>1. UNCHANGED <<today, evaluationDate>> /\ Unpriced
      BY <1>8, <2>3 DEF LeaveScope, Restore
    <3>2. QED
      BY <2>1, <3>1, UnpricedFresh DEF EvaluationDate
  <2>4. QED
    BY <2>2, <2>3
<1>9. QED
  BY <1>2, <1>3, <1>4, <1>5, <1>6, <1>7, <1>8

LEMMA SetQuoteFresh ==
  ASSUME TypeOK, FreshInv, NEW q, SetQuote(q)
  PROVE  FreshInv'
<1> DEFINE S == Users(Telling(Engine))
<1>1. ASSUME NEW i \in Leaf \ S
      PROVE  Keeps(i)
  <2>1. ~Valid(i)
    BY <1>1 DEF Users, Telling, Valid
  <2>2. Watched(i)' => Watched(i)
    BY DEF Watched, Hears, SetQuote, settings
  <2>3. QED
    BY <2>1, <2>2 DEF Keeps
<1>2. calculated' = Outdated(S) /\ UNCHANGED <<NPV, basketNPV, components, loop, frozen>>
  BY DEF SetQuote
<1> HIDE DEF S
<1>3. QED
  BY <1>1, <1>2, OutdatedFresh

LEMMA SetPricingEngineFresh ==
  ASSUME TypeOK, FreshInv, NEW i \in Leaf, NEW e, SetPricingEngine(i, e)
  PROVE  FreshInv'
<1>1. ASSUME NEW j \in Leaf \ {i}
      PROVE  Keeps(j)
  <2>1. engine'[j] = engine[j]
    BY DEF TypeOK, SetPricingEngine
  <2>2. QED
    BY <2>1 DEF SetPricingEngine, settings, Keeps, Watched, Hears, Valid, Current, PriceNow,
                Expired, HasOccurred, EvaluationDate
<1>2. calculated' = Outdated({i}) /\ UNCHANGED <<NPV, basketNPV, components, loop, frozen>>
  BY DEF SetPricingEngine
<1>3. QED
  BY <1>1, <1>2, OutdatedFresh

\* The composite is told, if anybody is; prices stay as they are.
LEMMA BasketToldFresh ==
  ASSUME TypeOK, FreshInv,
         \/ calculated' = BasketOutdated
         \/ calculated' = calculated /\ UNCHANGED <<components, loop>>
            /\ \A i \in Summed : ~frozen'[i] => ~frozen[i],
         UNCHANGED <<settings, quote, primed, engine, NPV, basketNPV>>
  PROVE  FreshInv'
<1>1. \A i \in Leaf : calculated'[i] = calculated[i]
  BY NoneAssumption DEF BasketOutdated, TypeOK, Instrument
<1>2. \A i \in Leaf : Keeps(i)
  BY DEF settings, Keeps, Watched, Hears, Valid, Current, PriceNow, Expired, HasOccurred,
         EvaluationDate
<1>3. LeavesGood'
  BY <1>1, <1>2 DEF FreshInv, LeavesGood, Good, Keeps
<1>4. CASE calculated' = BasketOutdated
  <2>1. ~calculated'[Basket]
    BY <1>4 DEF BasketOutdated, TypeOK, Instrument
  <2>2. QED
    BY <1>3, <2>1 DEF FreshInv, BasketGood
<1>5. CASE calculated' = calculated /\ UNCHANGED <<components, loop>>
            /\ \A i \in Summed : ~frozen'[i] => ~frozen[i]
  BY <1>2, <1>5, ToldFresh
<1>6. QED
  BY <1>4, <1>5

LEMMA FreezeFresh ==
  ASSUME TypeOK, FreshInv, NEW i \in Leaf, Freeze(i) \/ Unfreeze(i)
  PROVE  FreshInv'
<1>1. CASE Freeze(i)
  <2>1. \A j \in Leaf : ~frozen'[j] => ~frozen[j]
    BY <1>1 DEF Freeze, TypeOK
  <2>2. QED
    BY <1>1, <2>1, SummedLeaves, BasketToldFresh DEF Freeze, Values
<1>2. CASE Unfreeze(i) /\ i \in Components
  BY <1>2, BasketToldFresh DEF Unfreeze
<1>3. CASE Unfreeze(i) /\ i \notin Components
  <2>1. Summed \subseteq Components
    BY <1>3 DEF Summed, Components, Unfreeze, Idle
  <2>2. \A j \in Leaf \ {i} : frozen'[j] = frozen[j]
    BY <1>3 DEF Unfreeze, TypeOK
  <2>3. \A j \in Summed : ~frozen'[j] => ~frozen[j]
    BY <1>3, <2>1, <2>2, SummedLeaves
  <2>4. QED
    BY <1>3, <2>3, BasketToldFresh DEF Unfreeze
<1>4. QED
  BY <1>1, <1>2, <1>3

\* A calculation of leaf i makes it fresh, and outdates no other leaf.
LEMMA CalculationFresh ==
  ASSUME TypeOK, FreshInv, NEW i \in Leaf, NEW flags \in [Instrument -> BOOLEAN],
         \A j \in Leaf : flags[j] = calculated[j],
         Calculation(i, flags), UNCHANGED <<settings, quote, engine>>
  PROVE  /\ LeavesGood'
         /\ \A j \in Leaf : Keeps(j)
         /\ \A j \in Instrument \ {i} : calculated'[j] = flags[j]
<1>1. primed \subseteq primed'
  BY DEF Calculation, SetupExpired, PerformCalculations, Values
<1>2. \A j \in Leaf : Keeps(j)
  BY <1>1 DEF settings, Keeps, Watched, Hears, Valid, Current, PriceNow, Expired,
              HasOccurred, EvaluationDate
<1>3. \A j \in Instrument \ {i} : calculated'[j] = flags[j]
  BY DEF Calculation, SetupExpired, PerformCalculations
<1>4. \A j \in Leaf \ {i} : NPV'[j] = NPV[j]
  BY DEF TypeOK, Calculation, SetupExpired, PerformCalculations, Values
<1>5. ASSUME calculated'[i]
      PROVE  Good(i, NPV[i])'
  <2>1. CASE SetupExpired(i, flags)
    BY <2>1 DEF SetupExpired, TypeOK, Good
  <2>2. CASE calculated' = flags /\ UNCHANGED Values
    BY <1>2, <1>5, <2>2 DEF Values, FreshInv, LeavesGood, Good, Keeps
  <2>3. CASE ~Expired(i) /\ PerformCalculations(i, flags)
    <3> DEFINE e == engine[i]
    <3>1. e # None /\ quote # Bad
      BY <1>5, <2>3 DEF PerformCalculations, Instrument
    <3>2. e \in Engine /\ engineResults'[e] = Computed(i) /\ (e \in Lazy => e \in primed')
      BY <2>3, <3>1 DEF PerformCalculations, TypeOK
    <3>3. NPV'[i] = Current(i)
      BY <2>3, <3>1, <3>2 DEF PerformCalculations, Computed, Current, TypeOK
    <3>4. ~Expired(i)' /\ Current(i)' = Current(i)
      BY <2>3 DEF settings, Expired, HasOccurred, EvaluationDate, Current, PriceNow
    <3>5. Valid(i)'
      BY <3>2, <3>4 DEF Valid
    <3>6. QED
      BY <3>3, <3>4, <3>5 DEF Good
  <2>4. QED
    BY <2>1, <2>2, <2>3 DEF Calculation
<1>6. LeavesGood'
  <2>1. ASSUME NEW j \in Leaf \ {i}, calculated'[j]
        PROVE  Good(j, NPV[j])'
    BY <1>2, <1>3, <1>4, <2>1 DEF Instrument, FreshInv, LeavesGood, Good, Keeps
  <2>2. QED
    BY <1>5, <2>1 DEF LeavesGood
<1>7. QED
  BY <1>2, <1>3, <1>6

LEMMA AskNPVFresh ==
  ASSUME TypeOK, FreshInv, NEW i \in Leaf, AskNPV(i) \/ Recalculate(i)
  PROVE  FreshInv'
<1> DEFINE told == IF i \in Components THEN BasketOutdated ELSE calculated
<1>1. /\ calculated \in [Instrument -> BOOLEAN] /\ told \in [Instrument -> BOOLEAN]
      /\ \A j \in Leaf : told[j] = calculated[j]
      /\ i \in Components => ~told[Basket]
      /\ Basket \in Instrument \ {i}
  BY FlagsType, NoneAssumption DEF TypeOK, BasketOutdated, Instrument
<1>2. /\ UNCHANGED <<settings, quote, engine, frozen, components, loop, basketNPV>>
      /\ Summed = Components /\ Summed' = Summed
  BY DEF AskNPV, Recalculate, Idle, Summed, Components
<1>3. CASE AskNPV(i)
  <2>1. Calculate(i, calculated)
    BY <1>3 DEF AskNPV
  <2>2. /\ LeavesGood'
        /\ \A j \in Leaf : Keeps(j)
        /\ \A j \in Instrument \ {i} : calculated'[j] = calculated[j]
    BY <1>1, <1>2, <2>1, CalculateIsCalculation, CalculationFresh
  <2>3. calculated[i] => calculated'[i]
    BY <1>1, <2>1 DEF Calculate, SetupExpired, Instrument
  <2>4. ASSUME calculated'[Basket], basketNPV # Zero, NEW j \in Summed, ~frozen'[j]
        PROVE  calculated'[j] /\ Good(j, basketNPV[j])'
    <3>1. j \in Leaf /\ calculated[j] /\ Good(j, basketNPV[j]) /\ Keeps(j)
      BY <1>1, <1>2, <2>2, <2>4, SummedLeaves DEF FreshInv, BasketGood
    <3>2. calculated'[j]
      BY <2>2, <2>3, <3>1 DEF Instrument
    <3>3. QED
      BY <1>2, <3>1, <3>2 DEF Good, Keeps
  <2>5. calculated'[Basket] = calculated[Basket]
    BY <1>1, <2>2
  <2>6. BasketGood'
    BY <1>2, <2>4, <2>5 DEF FreshInv, BasketGood
  <2>7. QED
    BY <2>2, <2>6 DEF FreshInv
<1>4. CASE Recalculate(i)
  <2>1. Calculation(i, told)
    BY <1>4 DEF Recalculate, Calculation
  <2> HIDE DEF told
  <2>2. /\ LeavesGood'
        /\ \A j \in Leaf : Keeps(j)
        /\ \A j \in Instrument \ {i} : calculated'[j] = told[j]
    BY <1>1, <1>2, <2>1, CalculationFresh
  <2>3. CASE i \in Components
    <3>1. ~calculated'[Basket]
      BY <1>1, <2>2, <2>3
    <3>2. QED
      BY <2>2, <3>1 DEF FreshInv, BasketGood
  <2>4. CASE i \notin Components
    <3>1. calculated'[Basket] = calculated[Basket]
      BY <1>1, <2>2, <2>4 DEF told
    <3>2. ASSUME calculated'[Basket], basketNPV # Zero, NEW j \in Summed, ~frozen'[j]
          PROVE  calculated'[j] /\ Good(j, basketNPV[j])'
      <4>1. j \in Leaf /\ calculated[j] /\ Good(j, basketNPV[j]) /\ Keeps(j) /\ j # i
        BY <1>2, <2>2, <2>4, <3>1, <3>2, SummedLeaves DEF FreshInv, BasketGood
      <4>2. calculated'[j]
        BY <1>1, <2>2, <4>1 DEF Instrument
      <4>3. QED
        BY <1>2, <4>1, <4>2 DEF Good, Keeps
    <3>3. BasketGood'
      BY <1>2, <3>1, <3>2 DEF FreshInv, BasketGood
    <3>4. QED
      BY <2>2, <3>3 DEF FreshInv
  <2>5. QED
    BY <2>3, <2>4
<1>5. QED
  BY <1>3, <1>4

LEMMA AskBasketFresh ==
  ASSUME TypeOK, FreshInv, AskBasket
  PROVE  FreshInv'
<1>1. /\ UNCHANGED <<settings, quote, engine, frozen, components, primed, NPV>>
      /\ \A i \in Leaf : calculated'[i] = calculated[i]
  BY NoneAssumption DEF AskBasket, Values, TypeOK, Instrument
<1>2. \A i \in Leaf : Keeps(i)
  BY <1>1 DEF settings, Keeps, Watched, Hears, Valid, Current, PriceNow, Expired,
              HasOccurred, EvaluationDate
<1>3. LeavesGood'
  BY <1>1, <1>2 DEF FreshInv, LeavesGood, Good, Keeps
<1>4. BasketGood'
  <2>1. CASE BasketExpired
    BY <2>1 DEF AskBasket, BasketGood
  <2>2. CASE ~BasketExpired
    <3>1. loop' = 1 /\ DOMAIN basketNPV' = {}
      BY <2>2 DEF AskBasket
    <3>2. Summed' = {}
      BY <3>1 DEF Summed, Idle
    <3>3. QED
      BY <3>1, <3>2 DEF BasketGood
  <2>3. QED
    BY <2>1, <2>2
<1>5. QED
  BY <1>3, <1>4 DEF FreshInv

LEMMA AddTermFresh ==
  ASSUME TypeInv, FreshInv, AddTerm
  PROVE  FreshInv'
<1> DEFINE outdated == [calculated EXCEPT ![Basket] = FALSE]
<1>0. PICK i \in Leaf : i = components[loop]
  BY DEF TypeInv, TypeOK, AddTerm
<1>1. TypeOK /\ loop \in 1 .. Len(components) /\ basketNPV \in Sums
  BY DEF TypeInv, TypeOK, Summing, AddTerm
<1>2. /\ calculated \in [Instrument -> BOOLEAN] /\ outdated \in [Instrument -> BOOLEAN]
      /\ \A j \in Leaf : outdated[j] = calculated[j]
      /\ ~outdated[Basket]
      /\ Basket \in Instrument \ {i}
  BY <1>1, FlagsType, NoneAssumption DEF TypeInv, TypeOK, Instrument
<1>3. UNCHANGED <<settings, quote, engine, frozen, components>>
  BY DEF AddTerm
<1>4. CASE Raises(i)
  <2>1. Calculation(i, outdated)
    BY <1>0, <1>4, CalculateIsCalculation DEF AddTerm
  <2> HIDE DEF outdated
  <2>2. LeavesGood' /\ ~calculated'[Basket]
    BY <1>1, <1>2, <1>3, <2>1, CalculationFresh
  <2>3. QED
    BY <2>2 DEF FreshInv, BasketGood
<1>5. CASE ~Raises(i)
  <2>1. /\ Calculate(i, calculated)
        /\ loop' = IF loop = Len(components) THEN 0 ELSE loop + 1
        /\ basketNPV' = [j \in DOMAIN basketNPV \cup {i} |->
                           IF j = i THEN NPV'[i] ELSE basketNPV[j]]
    BY <1>0, <1>5 DEF AddTerm
  <2>2. frozen[i] \/ calculated'[i]
    BY <1>1, <1>2, <1>5, <2>1
    DEF Raises, Calculate, SetupExpired, PerformCalculations, Instrument
  <2>3. basketNPV # Zero
    BY <1>1, MarkerAssumption
  <2>4. Summed' = Summed \cup {i}
    <3>1. Summed' = {components[k] : k \in 1 .. loop}
      BY <1>1, <1>3, <2>1 DEF Summed, Idle
    <3>2. Summed = {components[k] : k \in 1 .. loop - 1}
      BY <1>1 DEF Summed, Idle
    <3>3. 1 .. loop = (1 .. loop - 1) \cup {loop}
      BY <1>1
    <3>4. QED
      BY <1>0, <3>1, <3>2, <3>3
  <2>5. /\ LeavesGood'
        /\ \A j \in Leaf : Keeps(j)
        /\ \A j \in Instrument \ {i} : calculated'[j] = calculated[j]
    BY <1>1, <1>2, <1>3, <2>1, CalculateIsCalculation, CalculationFresh
  <2>6. calculated'[Basket] = calculated[Basket]
    BY <1>2, <2>5
  <2>7. ASSUME calculated'[Basket]
        PROVE  DOMAIN basketNPV' = Summed'
    BY <2>1, <2>3, <2>4, <2>6, <2>7 DEF FreshInv, BasketGood
  <2>8. ASSUME calculated'[Basket], NEW j \in Summed', ~frozen'[j]
        PROVE  calculated'[j] /\ Good(j, basketNPV[j])'
    <3>1. CASE j = i
      <4>1. calculated'[i] /\ Good(i, NPV[i])' /\ basketNPV'[i] = NPV'[i]
        BY <1>1, <1>3, <2>1, <2>2, <2>5, <2>8, <3>1 DEF LeavesGood
      <4>2. QED
        BY <3>1, <4>1 DEF Good
    <3>2. CASE j # i
      <4>1. /\ j \in Leaf /\ j \in Summed /\ j \in DOMAIN basketNPV
            /\ calculated[j] /\ Good(j, basketNPV[j]) /\ Keeps(j)
        BY <1>1, <1>3, <2>3, <2>4, <2>5, <2>6, <2>8, <3>2, SummedLeaves
        DEF FreshInv, BasketGood
      <4>2. basketNPV'[j] = basketNPV[j] /\ calculated'[j]
        BY <2>1, <2>5, <3>2, <4>1 DEF Instrument
      <4>3. QED
        BY <4>1, <4>2 DEF Good, Keeps
    <3>3. QED
      BY <3>1, <3>2
  <2>9. BasketGood'
    BY <2>7, <2>8 DEF BasketGood
  <2>10. QED
    BY <2>5, <2>9 DEF FreshInv
<1>6. QED
  BY <1>4, <1>5

LEMMA NextFresh ==
  ASSUME TypeInv, FreshInv, [Next]_vars
  PROVE  FreshInv'
<1>1. TypeOK
  BY DEF TypeInv
<1>2. CASE \/ \E d \in Date : SetEvaluationDate(d)
           \/ ResetEvaluationDate \/ AnchorEvaluationDate \/ StrikesMidnight \/ EnterScope
           \/ \E b \in BOOLEAN : SetIncludeReferenceDateEvents(b) \/ LeaveScope(b)
  BY <1>1, <1>2, SettingsFresh
<1>3. ASSUME NEW q \in Quote \cup {Bad}, SetQuote(q)
      PROVE  FreshInv'
  BY <1>1, <1>3, SetQuoteFresh
<1>4. ASSUME NEW i \in Leaf, NEW e \in Engines[i], SetPricingEngine(i, e)
      PROVE  FreshInv'
  BY <1>1, <1>4, SetPricingEngineFresh
<1>5. ASSUME NEW i \in Leaf, Add(i)
      PROVE  FreshInv'
  BY <1>1, <1>5, BasketToldFresh DEF Add
<1>6. ASSUME NEW i \in Leaf, AskNPV(i) \/ Recalculate(i)
      PROVE  FreshInv'
  BY <1>1, <1>6, AskNPVFresh
<1>7. ASSUME NEW i \in Controlled, Freeze(i) \/ Unfreeze(i)
      PROVE  FreshInv'
  BY <1>1, <1>7, FreezeFresh, ControlledAssumption
<1>8. CASE AskBasket
  BY <1>1, <1>8, AskBasketFresh
<1>9. CASE AddTerm
  BY <1>9, AddTermFresh
<1>10. CASE UNCHANGED vars
  <2>1. UNCHANGED <<settings, quote, engine, frozen, components, loop, basketNPV, calculated>>
        /\ UNCHANGED Values
    BY <1>10 DEF vars
  <2>2. UNCHANGED <<evaluationDate, today, includeReferenceDateEvents, announced>> /\ Unpriced
    BY <2>1 DEF settings, Unpriced
  <2>3. QED
    BY <1>1, <2>2, UnpricedFresh DEF EvaluationDate
<1>11. QED
  BY <1>2, <1>3, <1>4, <1>5, <1>6, <1>7, <1>8, <1>9, <1>10 DEF Next

LEMMA FreshFollows ==
  ASSUME TypeOK, FreshInv
  PROVE  FreshOrZero
<1>1. ASSUME announced, NEW i \in Leaf, calculated[i], Hears(i), ~Expired(i)
      PROVE  NPV[i] \in {Zero, Worth(i)}
  BY <1>1 DEF FreshInv, LeavesGood, Good, Watched, Current, Worth
<1>2. ASSUME announced, Idle, calculated[Basket], basketNPV # Zero
      PROVE  /\ DOMAIN basketNPV = Components
             /\ \A i \in Components : ~frozen[i] /\ Hears(i) => basketNPV[i] \in {Zero, Worth(i)}
  <2>1. Summed = Components
    BY <1>2 DEF Summed, Components
  <2>2. QED
    BY <1>2, <2>1 DEF FreshInv, BasketGood, Good, Watched, Valid, Current, Worth
<1>3. QED
  BY <1>1, <1>2 DEF FreshOrZero

(***************************************************************************)
(* Instrument and CompositeInstrument over LazyObject and GenericEngine:   *)
(* what is marked as calculated is worth what it shows, for any number of  *)
(* instruments and engines, lazy or not, and any nesting of SavedSettings, *)
(* but for the zero of an expired instrument.                              *)
(***************************************************************************)
THEOREM CalculatedIsFresh == Spec => []FreshOrZero
<1>1. Init => TypeInv /\ FreshInv
  BY InitType, NoneAssumption
  DEF Init, FreshInv, LeavesGood, BasketGood, Instrument
<1>2. TypeInv /\ FreshInv /\ [Next]_vars => (TypeInv /\ FreshInv)'
  BY NextType, NextFresh
<1>3. TypeInv /\ FreshInv => FreshOrZero
  BY FreshFollows DEF TypeInv
<1>4. QED
  BY <1>1, <1>2, <1>3, PTL DEF Spec

-----------------------------------------------------------------------------
\* What is frozen is kept

\* Pricing one leaf leaves the results of the others alone.
LEMMA CalculationElsewhere ==
  ASSUME TypeOK, NEW j \in Leaf, NEW flags, Calculation(j, flags), NEW i \in Leaf, i # j
  PROVE  NPV'[i] = NPV[i] /\ errorEstimate'[i] = errorEstimate[i]
<1>1. CASE SetupExpired(j, flags)
  BY <1>1 DEF SetupExpired, TypeOK
<1>2. CASE PerformCalculations(j, flags)
  BY <1>2 DEF PerformCalculations, TypeOK
<1>3. CASE UNCHANGED Values
  BY <1>3 DEF Values
<1>. QED  BY <1>1, <1>2, <1>3 DEF Calculation

(***************************************************************************)
(* LazyObject::freeze of an instrument: its results stay, whatever is      *)
(* priced, repriced as part of a composite, notified or restored, until it *)
(* is unfrozen, recalculated or found to have expired.                     *)
(***************************************************************************)
THEOREM Kept == Spec => FrozenKept
<1>1. ASSUME TypeInv, [Next]_vars, NEW i \in Leaf, frozen[i], ~Recalculate(i), ~Expired(i)
      PROVE  NPV'[i] = NPV[i] /\ errorEstimate'[i] = errorEstimate[i]
  <2>1. TypeOK
    BY <1>1 DEF TypeInv
  <2>2. ASSUME NEW j \in Leaf, NEW flags, Calculate(j, flags)
        PROVE  NPV'[i] = NPV[i] /\ errorEstimate'[i] = errorEstimate[i]
    <3>1. CASE j = i
      BY <1>1, <2>2, <3>1 DEF Calculate, Values
    <3>2. CASE j # i
      BY <2>1, <2>2, <3>2, CalculateIsCalculation, CalculationElsewhere
    <3>. QED  BY <3>1, <3>2
  <2>3. ASSUME NEW j \in Leaf, AskNPV(j) \/ Recalculate(j)
        PROVE  NPV'[i] = NPV[i] /\ errorEstimate'[i] = errorEstimate[i]
    <3>1. CASE AskNPV(j)
      BY <2>2, <3>1 DEF AskNPV
    <3>2. CASE Recalculate(j)
      BY <1>1, <2>1, <3>2, CalculationElsewhere DEF Recalculate, Calculation
    <3>. QED  BY <2>3, <3>1, <3>2
  <2>4. CASE AddTerm
    <3>1. components[loop] \in Leaf
      BY <2>1, <2>4 DEF TypeOK, AddTerm
    <3>. QED  BY <2>2, <2>4, <3>1 DEF AddTerm
  <2>5. CASE UNCHANGED <<NPV, errorEstimate>>
    BY <2>5
  <2>. QED
    BY <1>1, <2>3, <2>4, <2>5
    DEF Next, SetEvaluationDate, ResetEvaluationDate, AnchorEvaluationDate, StrikesMidnight,
        EnterScope, SetIncludeReferenceDateEvents, LeaveScope, SetQuote, SetPricingEngine,
        Add, Freeze, Unfreeze, AskBasket, DateTold, Unpriced, Values, vars
<1>2. TypeInv /\ [Next]_vars =>
        [\A i \in Leaf : frozen[i] /\ frozen'[i] /\ ~Recalculate(i) /\ ~Expired(i)
           => NPV'[i] = NPV[i] /\ errorEstimate'[i] = errorEstimate[i]]_vars
  BY <1>1
<1>3. Init => TypeInv
  BY InitType
<1>4. TypeInv /\ [Next]_vars => TypeInv'
  BY NextType
<1>. QED
  BY <1>2, <1>3, <1>4, PTL DEF Spec, FrozenKept

=============================================================================
