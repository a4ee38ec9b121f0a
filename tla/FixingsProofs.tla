---------------------------- MODULE FixingsProofs ----------------------------
(***************************************************************************)
(* Proofs about fixings, for any indexes, names, dates and batches, and    *)
(* whoever clears what: readers hear of every change to what their index   *)
(* returns unless the history of its name was cleared under it, nothing    *)
(* else cuts an index off, and a batch that was stored once can be stored  *)
(* again.                                                                  *)
(***************************************************************************)
EXTENDS Fixings, WellFoundedInduction, TLAPS

Shape ==
  /\ history = [n \in Name |-> history[n]]
  /\ series \in [Name -> 0 .. MaxSeries]
  /\ made \in [Name -> 0 .. MaxSeries]
  /\ registered \in [Index -> 0 .. MaxSeries]
  /\ cell = [i \in Index |-> cell[i]]
  /\ \A i \in Index : cell[i] # Nothing =>
       DOMAIN cell[i] = {"date", "forecast", "shown", "told"}

\* The next observable of a name will be one that nobody has.
Numbered ==
  /\ \A n \in Name : series[n] <= made[n]
  /\ \A i \in Index : registered[i] <= made[NameOf[i]]

\* Only indexes that exist have readers.
CellsAlive == \A i \in Index : cell[i] # Nothing => Alive(i)

Inv == Shape /\ Numbered /\ CellsAlive /\ ReadersTold

\* A name that is mentioned keeps the observable it has, or gets a new one.
LEMMA MentionKeeps ==
  ASSUME Shape, Numbered, NEW n \in Name, Mention(n)
  PROVE  /\ series' \in [Name -> 0 .. MaxSeries] /\ made' \in [Name -> 0 .. MaxSeries]
         /\ series'[n] # 0
         /\ \A m \in Name : /\ series[m] # 0 \/ m # n => series'[m] = series[m]
                            /\ series[m] = 0 /\ m = n => series'[m] = made[m] + 1
                            /\ made[m] <= made'[m] /\ series'[m] <= made'[m]
<1>1. CASE series[n] # 0
  BY <1>1 DEF Mention, Shape, Numbered
<1>2. CASE series[n] = 0
  <2>1. made[n] \in 0 .. MaxSeries /\ made[n] < MaxSeries
    BY <1>2 DEF Mention, Shape
  <2>2. made[n] + 1 \in 0 .. MaxSeries /\ made[n] + 1 # 0
    BY <2>1, SeriesAssumption
  <2>3. /\ series' = [series EXCEPT ![n] = made[n] + 1]
        /\ made' = [made EXCEPT ![n] = made[n] + 1]
    BY <1>2 DEF Mention
  <2>4. \A m \in Name : made[m] \in Nat /\ made[m] <= made'[m] /\ series'[m] <= made'[m]
    BY <2>1, <2>2, <2>3 DEF Shape, Numbered
  <2>5. QED
    BY <1>2, <2>2, <2>3, <2>4 DEF Shape
<1>3. QED
  BY <1>1, <1>2

\* Nobody's number exceeds those of its name afterwards either.
LEMMA MentionNumbers ==
  ASSUME Shape, Numbered, NEW n \in Name, Mention(n), UNCHANGED registered
  PROVE  Numbered'
<1>1. \A m \in Name : series'[m] <= made'[m] /\ made[m] <= made'[m]
                       /\ made[m] \in Nat /\ made'[m] \in Nat
  BY MentionKeeps DEF Shape
<1>2. ASSUME NEW j \in Index PROVE registered[j] <= made'[NameOf[j]]
  <2>1. NameOf[j] \in Name /\ registered[j] \in Nat /\ registered[j] <= made[NameOf[j]]
    BY NameAssumption DEF Shape, Numbered
  <2>2. QED
    BY <1>1, <2>1
<1>3. QED
  BY <1>1, <1>2 DEF Numbered

\* Mentioning a name makes nobody deaf, and nobody hear again.
LEMMA MentionHears ==
  ASSUME Shape, Numbered, NEW n \in Name, Mention(n),
         NEW i \in Index, Alive(i), registered'[i] = registered[i]
  PROVE  /\ Hears(i)' = Hears(i)
         /\ Hears(i) => series'[NameOf[i]] # 0
<1>1. /\ NameOf[i] \in Name /\ registered[i] # 0 /\ registered[i] \in Nat
      /\ made[NameOf[i]] \in Nat /\ registered[i] <= made[NameOf[i]]
  BY NameAssumption DEF Shape, Numbered, Alive
<1>2. CASE series[NameOf[i]] # 0 \/ NameOf[i] # n
  <2>1. series'[NameOf[i]] = series[NameOf[i]]
    BY <1>1, <1>2, MentionKeeps
  <2>2. QED
    BY <1>1, <2>1 DEF Hears, Alive
<1>3. CASE series[NameOf[i]] = 0 /\ NameOf[i] = n
  <2>1. series'[NameOf[i]] = made[NameOf[i]] + 1
    BY <1>1, <1>3, MentionKeeps
  <2>2. registered[i] # series'[NameOf[i]] /\ registered[i] # series[NameOf[i]]
    BY <1>1, <1>3, <2>1
  <2>3. QED
    BY <2>2 DEF Hears, Alive
<1>4. QED
  BY <1>2, <1>3

\* Telling readers changes nothing else about them.
LEMMA ToldKeeps ==
  ASSUME Shape, NEW S, cell' = Told(S)
  PROVE  /\ cell' = [i \in Index |-> cell'[i]]
         /\ \A i \in Index :
              /\ cell'[i] # Nothing => /\ cell[i] # Nothing
                                       /\ cell'[i].date = cell[i].date
                                       /\ cell'[i].forecast = cell[i].forecast
                                       /\ cell'[i].shown = cell[i].shown
              /\ cell'[i] # Nothing /\ i \in S => cell'[i].told = TRUE
              /\ i \notin S => cell'[i] = cell[i]
              /\ cell'[i] # Nothing =>
                   DOMAIN cell'[i] = {"date", "forecast", "shown", "told"}
<1>1. \A i \in Index : cell'[i] = IF i \in S /\ cell[i] # Nothing
                                    THEN [cell[i] EXCEPT !.told = TRUE] ELSE cell[i]
  BY DEF Told
<1>2. ASSUME NEW c, DOMAIN c = {"date", "forecast", "shown", "told"}
      PROVE  LET d == [c EXCEPT !.told = TRUE] IN
             /\ d.told = TRUE /\ DOMAIN d = {"date", "forecast", "shown", "told"}
             /\ d.date = c.date /\ d.forecast = c.forecast /\ d.shown = c.shown
  BY <1>2
<1>3. cell' = [i \in Index |-> cell'[i]]
  BY DEF Told
<1>4. QED
  BY <1>1, <1>2, <1>3 DEF Shape

\* A cell that was told of nothing and stays as it is goes on being right, if the
\* index hears no more than before, and its history stays if it does.
LEMMA CellKept ==
  ASSUME ReadersTold, NEW i \in Index, cell'[i] = cell[i],
         UNCHANGED <<today, curve>>,
         Hears(i)' => Hears(i) /\ history'[NameOf[i]] = history[NameOf[i]],
         cell'[i] # Nothing, ~cell'[i].told,
         (Hears(i) \/ ~LooksBack(cell[i].date, cell[i].forecast))'
  PROVE  (cell[i].shown = Fixing(i, cell[i].date, cell[i].forecast))'
<1>1. CASE Hears(i)'
  <2>1. Hears(i) /\ history'[NameOf[i]] = history[NameOf[i]]
    BY <1>1
  <2>2. cell[i].shown = Fixing(i, cell[i].date, cell[i].forecast)
    BY <2>1 DEF ReadersTold
  <2>3. QED
    BY <2>1, <2>2 DEF Fixing, ForecastFixing, LooksBack
<1>2. CASE ~LooksBack(cell[i].date, cell[i].forecast)'
  <2>1. ~LooksBack(cell[i].date, cell[i].forecast)
    BY <1>2 DEF LooksBack
  <2>2. cell[i].shown = Fixing(i, cell[i].date, cell[i].forecast)
    BY <2>1 DEF ReadersTold
  <2>3. QED
    BY <1>2, <2>1, <2>2 DEF Fixing, ForecastFixing, LooksBack
<1>3. QED
  BY <1>1, <1>2

\* A history changes, and the listeners of its name are told.
LEMMA HistoryKeeps ==
  ASSUME Inv, NEW n \in Name, NEW h, Mention(n),
         history' = [history EXCEPT ![n] = h], cell' = Told(Listeners(n)),
         UNCHANGED <<registered, today, curve>>
  PROVE  Inv'
<1>1. Shape'
  BY MentionKeeps, ToldKeeps DEF Inv, Shape
<1>2. Numbered'
  BY MentionNumbers DEF Inv
<1>3. CellsAlive'
  BY ToldKeeps DEF Inv, CellsAlive, Alive
<1>4. ReadersTold'
  <2>1. SUFFICES ASSUME NEW i \in Index, cell'[i] # Nothing, ~cell'[i].told,
                        (Hears(i) \/ ~LooksBack(cell[i].date, cell[i].forecast))'
                 PROVE  (cell[i].shown = Fixing(i, cell[i].date, cell[i].forecast))'
    BY DEF ReadersTold
  <2>2. Alive(i) /\ i \notin Listeners(n) /\ cell'[i] = cell[i]
    BY <2>1, ToldKeeps DEF Inv, CellsAlive
  <2>3. Hears(i)' = Hears(i)
    BY <2>2, MentionHears DEF Inv
  <2>4. ASSUME Hears(i) PROVE history'[NameOf[i]] = history[NameOf[i]]
    <3>1. NameOf[i] # n /\ NameOf[i] \in Name
      BY <2>2, <2>4, NameAssumption DEF Listeners
    <3>2. QED
      BY <3>1 DEF Inv, Shape
  <2>5. QED
    BY <2>1, <2>2, <2>3, <2>4, CellKept DEF Inv
<1>5. QED
  BY <1>1, <1>2, <1>3, <1>4 DEF Inv

\* A new index takes the observable its name has, and has no reader.
LEMMA CreateIndexInv ==
  ASSUME Inv, NEW i \in Index, CreateIndex(i)
  PROVE  Inv'
<1>1. NameOf[i] \in Name /\ Mention(NameOf[i]) /\ cell[i] = Nothing
  BY NameAssumption DEF CreateIndex, Inv, CellsAlive
<1>2. Shape'
  BY <1>1, MentionKeeps DEF Inv, Shape, CreateIndex
<1>3. Numbered'
  <2>1. \A m \in Name : series'[m] <= made'[m] /\ made[m] <= made'[m]
                         /\ made[m] \in Nat /\ made'[m] \in Nat
    BY <1>1, <1>2, MentionKeeps DEF Inv, Shape
  <2>2. /\ registered' \in [Index -> 0 .. MaxSeries]
        /\ registered'[i] = series'[NameOf[i]]
        /\ \A j \in Index \ {i} : registered'[j] = registered[j]
    BY <1>2 DEF Inv, Shape, CreateIndex
  <2>3. \A j \in Index : registered'[j] <= made'[NameOf[j]]
    <3>1. TAKE j \in Index
    <3>2. NameOf[j] \in Name /\ registered[j] \in Nat /\ registered[j] <= made[NameOf[j]]
      BY NameAssumption DEF Inv, Shape, Numbered
    <3>3. QED
      BY <2>1, <2>2, <3>2
  <2>4. QED
    BY <2>1, <2>3 DEF Numbered
<1>4. CellsAlive'
  BY <1>1 DEF Inv, Shape, CellsAlive, Alive, CreateIndex
<1>5. ReadersTold'
  <2>1. SUFFICES ASSUME NEW j \in Index, cell'[j] # Nothing, ~cell'[j].told,
                        (Hears(j) \/ ~LooksBack(cell[j].date, cell[j].forecast))'
                 PROVE  (cell[j].shown = Fixing(j, cell[j].date, cell[j].forecast))'
    BY DEF ReadersTold
  <2>2. /\ cell' = cell /\ j # i /\ Alive(j) /\ registered'[j] = registered[j]
        /\ UNCHANGED <<history, today, curve>>
    BY <1>1, <2>1 DEF Inv, Shape, CellsAlive, CreateIndex
  <2>3. Hears(j)' = Hears(j)
    BY <1>1, <2>2, MentionHears DEF Inv
  <2>4. QED
    BY <2>1, <2>2, <2>3, CellKept DEF Inv
<1>6. QED
  BY <1>2, <1>3, <1>4, <1>5 DEF Inv

LEMMA DestroyIndexInv ==
  ASSUME Inv, NEW i \in Index, DestroyIndex(i)
  PROVE  Inv'
<1>1. /\ registered' \in [Index -> 0 .. MaxSeries]
      /\ registered'[i] = 0 /\ cell'[i] = Nothing
      /\ \A j \in Index \ {i} : registered'[j] = registered[j] /\ cell'[j] = cell[j]
      /\ cell' = [j \in Index |-> cell'[j]]
      /\ UNCHANGED <<history, series, made, today, curve>>
  BY SeriesAssumption DEF Inv, Shape, DestroyIndex
<1>2. Shape' /\ CellsAlive'
  BY <1>1 DEF Inv, Shape, CellsAlive, Alive
<1>3. Numbered'
  <2>1. made[NameOf[i]] \in 0 .. MaxSeries
    BY NameAssumption DEF Inv, Shape
  <2>2. QED
    BY <1>1, <2>1, SeriesAssumption DEF Inv, Numbered
<1>4. ReadersTold'
  <2>1. SUFFICES ASSUME NEW j \in Index, cell'[j] # Nothing, ~cell'[j].told,
                        (Hears(j) \/ ~LooksBack(cell[j].date, cell[j].forecast))'
                 PROVE  (cell[j].shown = Fixing(j, cell[j].date, cell[j].forecast))'
    BY DEF ReadersTold
  <2>2. j # i /\ cell'[j] = cell[j] /\ registered'[j] = registered[j]
    BY <1>1, <2>1
  <2>3. Hears(j)' = Hears(j)
    BY <1>1, <2>2 DEF Hears, Alive
  <2>4. QED
    BY <1>1, <2>1, <2>2, <2>3, CellKept DEF Inv
<1>5. QED
  BY <1>2, <1>3, <1>4 DEF Inv

\* Whose history is cleared does not hear any more.
LEMMA ClearHistoriesInv ==
  ASSUME Inv, NEW S \in SUBSET Name, ClearHistories(S)
  PROVE  Inv'
<1>1. /\ history' = [n \in Name |-> history'[n]]
      /\ \A n \in Name \ S : history'[n] = history[n] /\ series'[n] = series[n]
      /\ \A n \in S : series'[n] = 0
      /\ series' \in [Name -> 0 .. MaxSeries]
      /\ UNCHANGED <<made, registered, today, curve, cell>>
  BY SeriesAssumption DEF Inv, Shape, ClearHistories
<1>2. Shape' /\ CellsAlive'
  BY <1>1 DEF Inv, Shape, CellsAlive, Alive
<1>3. Numbered'
  <2>1. \A n \in Name : series'[n] <= made[n]
    BY <1>1, SeriesAssumption DEF Inv, Shape, Numbered
  <2>2. QED
    BY <1>1, <2>1 DEF Inv, Numbered
<1>4. ReadersTold'
  <2>1. SUFFICES ASSUME NEW i \in Index, cell'[i] # Nothing, ~cell'[i].told,
                        (Hears(i) \/ ~LooksBack(cell[i].date, cell[i].forecast))'
                 PROVE  (cell[i].shown = Fixing(i, cell[i].date, cell[i].forecast))'
    BY DEF ReadersTold
  <2>2. ASSUME Hears(i)' PROVE Hears(i) /\ history'[NameOf[i]] = history[NameOf[i]]
    BY <1>1, <2>2, NameAssumption DEF Hears, Alive
  <2>3. QED
    BY <1>1, <2>1, <2>2, CellKept DEF Inv
<1>5. QED
  BY <1>2, <1>3, <1>4 DEF Inv

\* A reader asks; at most a name is mentioned.
LEMMA AskHears ==
  ASSUME Inv, NEW i \in Index, NEW d \in Date, NEW f \in BOOLEAN, Ask(i, d, f)
  PROVE  /\ series' \in [Name -> 0 .. MaxSeries] /\ made' \in [Name -> 0 .. MaxSeries]
         /\ Numbered'
         /\ \A j \in Index : Alive(j) =>
              Hears(j)' = Hears(j) /\ (Hears(j) => series'[NameOf[j]] # 0)
<1>1. CASE UNCHANGED <<series, made>>
  BY <1>1 DEF Inv, Shape, Numbered, Hears, Alive, Ask
<1>2. CASE Mention(NameOf[i])
  BY <1>2, NameAssumption, MentionKeeps, MentionNumbers, MentionHears DEF Inv, Ask
<1>3. QED
  BY <1>1, <1>2 DEF Ask

LEMMA AskInv ==
  ASSUME Inv, NEW i \in Index, NEW d \in Date, NEW f \in BOOLEAN, Ask(i, d, f)
  PROVE  Inv'
<1> DEFINE c == [date |-> d, forecast |-> f, shown |-> Fixing(i, d, f), told |-> FALSE]
<1>1. /\ Alive(i) /\ cell' = [cell EXCEPT ![i] = c]
      /\ UNCHANGED <<history, registered, today, curve>>
  BY DEF Ask
<1>2. /\ cell' = [j \in Index |-> cell'[j]] /\ cell'[i] = c
      /\ \A j \in Index \ {i} : cell'[j] = cell[j]
  BY <1>1 DEF Inv, Shape
<1>3. /\ DOMAIN c = {"date", "forecast", "shown", "told"}
      /\ c.date = d /\ c.forecast = f /\ c.shown = Fixing(i, d, f)
  OBVIOUS
<1> HIDE DEF c
<1>4. Shape'
  BY <1>1, <1>2, <1>3, AskHears DEF Inv, Shape
<1>5. CellsAlive'
  BY <1>1, <1>2 DEF Inv, CellsAlive, Alive
<1>6. ReadersTold'
  <2>1. SUFFICES ASSUME NEW j \in Index, cell'[j] # Nothing, ~cell'[j].told,
                        (Hears(j) \/ ~LooksBack(cell[j].date, cell[j].forecast))'
                 PROVE  (cell[j].shown = Fixing(j, cell[j].date, cell[j].forecast))'
    BY DEF ReadersTold
  <2>2. CASE j = i
    BY <1>1, <1>2, <1>3, <2>2 DEF Fixing, ForecastFixing, LooksBack
  <2>3. CASE j # i
    <3>1. cell'[j] = cell[j] /\ Alive(j)
      BY <1>2, <2>1, <2>3 DEF Inv, CellsAlive
    <3>2. Hears(j)' = Hears(j)
      BY <3>1, AskHears
    <3>3. QED
      BY <1>1, <2>1, <3>1, <3>2, CellKept DEF Inv
  <2>4. QED
    BY <2>2, <2>3
<1>7. QED
  BY <1>4, <1>5, <1>6, AskHears DEF Inv

\* The evaluation date or the curve changes: every index tells its readers.
LEMMA AllToldInv ==
  ASSUME Inv, cell' = Told({i \in Index : Alive(i)}),
         UNCHANGED <<history, series, made, registered>>
  PROVE  Inv'
<1> DEFINE S == {i \in Index : Alive(i)}
<1>1. \A i \in Index : cell'[i] # Nothing => cell[i] # Nothing /\ (i \in S => cell'[i].told = TRUE)
  <2> HIDE DEF S
  <2>1. Shape /\ cell' = Told(S)
    BY DEF Inv, S
  <2>2. QED
    BY <2>1, ToldKeeps
<1>2. Shape' /\ Numbered' /\ CellsAlive'
  BY ToldKeeps DEF Inv, Shape, Numbered, CellsAlive, Alive
<1>3. ReadersTold'
  BY <1>1 DEF Inv, CellsAlive, ReadersTold
<1>4. QED
  BY <1>2, <1>3 DEF Inv

LEMMA InitInv ==
  ASSUME Init
  PROVE  Inv
<1>1. Shape /\ CellsAlive /\ ReadersTold
  BY SeriesAssumption DEF Init, Shape, CellsAlive, ReadersTold
<1>2. Numbered
  BY NameAssumption DEF Init, Numbered
<1>3. QED
  BY <1>1, <1>2 DEF Inv

LEMMA NextInv ==
  ASSUME Inv, [Next]_vars
  PROVE  Inv'
<1>1. ASSUME NEW i \in Index, CreateIndex(i)
      PROVE  Inv'
  BY <1>1, CreateIndexInv
<1>2. ASSUME NEW i \in Index, DestroyIndex(i)
      PROVE  Inv'
  BY <1>2, DestroyIndexInv
<1>3. ASSUME NEW i \in Index, NEW b \in Batches, NEW f \in BOOLEAN, AddFixings(i, b, f)
      PROVE  Inv'
  <2> DEFINE h == PutAll(history[NameOf[i]], b, f)
  <2>1. /\ NameOf[i] \in Name /\ Mention(NameOf[i])
        /\ history' = [history EXCEPT ![NameOf[i]] = h]
        /\ cell' = Told(Listeners(NameOf[i])) /\ UNCHANGED <<registered, today, curve>>
    BY <1>3, NameAssumption DEF AddFixings
  <2> HIDE DEF h
  <2>2. QED
    BY <2>1, HistoryKeeps
<1>4. ASSUME NEW i \in Index, NEW d \in Date, NEW f \in BOOLEAN, Ask(i, d, f)
      PROVE  Inv'
  BY <1>4, AskInv
<1>5. ASSUME NEW n \in Name, NEW h \in Histories, SetHistory(n, h)
      PROVE  Inv'
  BY <1>5, HistoryKeeps DEF SetHistory
<1>6. ASSUME NEW n \in Name, ClearHistories({n})
      PROVE  Inv'
  BY <1>6, ClearHistoriesInv
<1>7. CASE ClearHistories(Name)
  BY <1>7, ClearHistoriesInv
<1>8. ASSUME NEW d \in Date, SetEvaluationDate(d)
      PROVE  Inv'
  BY <1>8, AllToldInv DEF SetEvaluationDate
<1>9. ASSUME NEW v \in Value \cup {Null}, SetCurve(v)
      PROVE  Inv'
  BY <1>9, AllToldInv DEF SetCurve
<1>10. CASE UNCHANGED vars
  <2>1. UNCHANGED <<history, series, made, registered, today, curve, cell>>
    BY <1>10 DEF vars
  <2>2. Shape' /\ Numbered' /\ CellsAlive'
    BY <2>1 DEF Inv, Shape, Numbered, CellsAlive, Alive
  <2>3. ReadersTold'
    BY <2>1 DEF Inv, ReadersTold, Hears, Alive, LooksBack, Fixing, ForecastFixing
  <2>4. QED
    BY <2>2, <2>3 DEF Inv
<1>11. QED
  BY <1>1, <1>2, <1>3, <1>4, <1>5, <1>6, <1>7, <1>8, <1>9, <1>10 DEF Next

\* The invariant holds of every behaviour, whoever clears what.
THEOREM InvHolds == Spec => []Inv
<1>1. Init => Inv
  BY InitInv
<1>2. Inv /\ [Next]_vars => Inv'
  BY NextInv
<1>3. QED
  BY <1>1, <1>2, PTL DEF Spec

(***************************************************************************)
(* A reader who has not been told shows what its index would return now,   *)
(* for any indexes that share names, any batches, and refusals included;   *)
(* if the history of its index was cleared, as far as it is a forecast.    *)
(***************************************************************************)
THEOREM ReadersHear == Spec => []ReadersTold
<1>1. Inv => ReadersTold
  BY DEF Inv
<1>2. QED
  BY <1>1, InvHolds, PTL

-----------------------------------------------------------------------------
(* Who hears. *)

\* What OnlyClearingDeafens says of one index.
Deafened(i) ==
  Alive(i)' => IF Alive(i) THEN Hears(i)' = (Hears(i) /\ series'[NameOf[i]] # 0)
               ELSE Hears(i)'

\* An index that goes on, while at most one name is mentioned.
LEMMA GoesOn ==
  ASSUME NEW i \in Index, registered'[i] = registered[i],
         Alive(i) => Hears(i)' = Hears(i) /\ (Hears(i) => series'[NameOf[i]] # 0)
  PROVE  Deafened(i)
<1>1. Alive(i)' = Alive(i)
  BY DEF Alive
<1>2. Hears(i) \in BOOLEAN /\ Hears(i)' \in BOOLEAN
  BY DEF Hears
<1>3. QED
  BY <1>1, <1>2 DEF Deafened

LEMMA NobodyElse ==
  ASSUME Inv, [Next]_vars, NEW i \in Index
  PROVE  Deafened(i)
<1>1. ASSUME NEW n \in Name, Mention(n), registered' = registered
      PROVE  Deafened(i)
  BY <1>1, MentionHears, GoesOn DEF Inv
<1>2. ASSUME UNCHANGED <<series, registered>>
      PROVE  Deafened(i)
  BY <1>2, GoesOn DEF Hears, Alive
<1>3. ASSUME NEW j \in Index, CreateIndex(j)
      PROVE  Deafened(i)
  <2>1. Mention(NameOf[j]) /\ NameOf[j] \in Name /\ ~Alive(j)
    BY <1>3, NameAssumption DEF CreateIndex
  <2>2. registered'[j] = series'[NameOf[j]] /\ \A k \in Index \ {j} : registered'[k] = registered[k]
    BY <1>3 DEF CreateIndex, Inv, Shape
  <2>3. CASE i = j
    BY <2>1, <2>2, <2>3 DEF Deafened, Hears, Alive
  <2>4. CASE i # j
    BY <2>1, <2>2, <2>4, MentionHears, GoesOn DEF Inv
  <2>5. QED
    BY <2>3, <2>4
<1>4. ASSUME NEW j \in Index, DestroyIndex(j)
      PROVE  Deafened(i)
  <2>1. /\ registered'[j] = 0 /\ \A k \in Index \ {j} : registered'[k] = registered[k]
        /\ series' = series
    BY <1>4 DEF DestroyIndex, Inv, Shape
  <2>2. CASE i = j
    BY <2>1, <2>2 DEF Deafened, Alive
  <2>3. CASE i # j
    BY <2>1, <2>3, GoesOn DEF Hears, Alive
  <2>4. QED
    BY <2>2, <2>3
<1>5. ASSUME NEW j \in Index, NEW b \in Batches, NEW f \in BOOLEAN, AddFixings(j, b, f)
      PROVE  Deafened(i)
  BY <1>1, <1>5, NameAssumption DEF AddFixings
<1>6. ASSUME NEW j \in Index, NEW d \in Date, NEW f \in BOOLEAN, Ask(j, d, f)
      PROVE  Deafened(i)
  BY <1>6, AskHears, GoesOn DEF Ask
<1>7. ASSUME NEW n \in Name, NEW h \in Histories, SetHistory(n, h)
      PROVE  Deafened(i)
  BY <1>1, <1>7 DEF SetHistory
<1>8. ASSUME NEW S \in SUBSET Name, ClearHistories(S)
      PROVE  Deafened(i)
  <2>1. NameOf[i] \in Name
    BY NameAssumption
  <2>2. series'[NameOf[i]] = IF NameOf[i] \in S THEN 0 ELSE series[NameOf[i]]
    BY <1>8, <2>1 DEF ClearHistories
  <2>3. QED
    BY <1>8, <2>2 DEF ClearHistories, Deafened, Hears, Alive
<1>9. ASSUME NEW d \in Date, SetEvaluationDate(d)
      PROVE  Deafened(i)
  BY <1>2, <1>9 DEF SetEvaluationDate
<1>10. ASSUME NEW v \in Value \cup {Null}, SetCurve(v)
       PROVE  Deafened(i)
  BY <1>2, <1>10 DEF SetCurve
<1>11. CASE UNCHANGED vars
  BY <1>2, <1>11 DEF vars
<1>12. QED
  BY <1>3, <1>4, <1>5, <1>6, <1>7, <1>8, <1>9, <1>10, <1>11 DEF Next

(***************************************************************************)
(* An index hears of its name's history from its making on, until that is  *)
(* cleared, by whomever, and then never again, however many indexes there  *)
(* are and however often names lose their histories.                       *)
(***************************************************************************)
THEOREM DeafByClearing == Spec => OnlyClearingDeafens
<1>1. Inv /\ [Next]_vars => \A i \in Index : Deafened(i)
  BY NobodyElse
<1>2. (\A i \in Index : Deafened(i)) <=>
      \A i \in Index :
        Alive(i)' => IF Alive(i) THEN Hears(i)' = (Hears(i) /\ series'[NameOf[i]] # 0)
                     ELSE Hears(i)'
  BY DEF Deafened
<1>3. QED
  BY <1>1, <1>2, InvHolds, PTL DEF Spec, OnlyClearingDeafens

-----------------------------------------------------------------------------
(* What a batch stores. *)

History == [Date -> Value \cup {Null}]
Entry   == Date \X Value
Batch   == Seq(Entry)

LEMMA PutType ==
  ASSUME NEW h \in History, NEW x \in Entry, NEW f \in BOOLEAN
  PROVE  /\ Put(h, x, f) \in History
         /\ \A d \in Date : ~f /\ h[d] # Null => Put(h, x, f)[d] = h[d]
         /\ x[1] \in Holiday \/ Put(h, x, f)[x[1]] # Null
         /\ ~f /\ (x[1] \in Holiday \/ h[x[1]] # Null) => Put(h, x, f) = h
BY ValueAssumption DEF Put, History, Entry

\* One fixing, without forceOverwrite.
Keeping(h, x, g) == g = Put(h, x, FALSE)

LEMMA PutKeeps ==
  ASSUME NEW h \in History, NEW x \in Entry, NEW g, Keeping(h, x, g)
  PROVE  /\ g \in History /\ x[1] \in Date
         /\ \A d \in Date : h[d] # Null => g[d] = h[d]
         /\ x[1] \in Holiday \/ g[x[1]] # Null
         /\ x[1] \in Holiday \/ h[x[1]] # Null => g = h
BY ValueAssumption DEF Keeping, Put, History, Entry

\* A set of numbers has a least one.
LEMMA Least ==
  ASSUME NEW T \in SUBSET Nat, T # {}
  PROVE  \E x \in T : \A y \in T : x <= y
<1>. DEFINE R == {ss \in Nat \X Nat : ss[1] < ss[2]}
<1>1. IsWellFoundedOn(R, Nat)
  BY NatLessThanWellFounded DEF OpToRel
<1>2. PICK x \in T : \A y \in T : ~ (<<y, x>> \in R)
  <2>. HIDE DEF R
  <2>. QED  BY <1>1, WFMin
<1>3. \A y \in T : x <= y
  <2>. SUFFICES ASSUME NEW y \in T PROVE x <= y
    OBVIOUS
  <2>1. x \in Nat /\ y \in Nat /\ <<y, x>> \notin R
    BY <1>2
  <2>2. ~ (y < x)
    BY <2>1
  <2>. QED  BY <2>1, <2>2
<1>. QED  BY <1>3

\* Induction, with the numbers for which a fact holds as a set.
LEMMA Induct ==
  ASSUME NEW T, 0 \in T, \A n \in Nat : n \in T => n + 1 \in T
  PROVE  Nat \subseteq T
<1>1. SUFFICES ASSUME Nat \ T # {} PROVE FALSE
  OBVIOUS
<1>2. PICK x \in Nat \ T : \A y \in Nat \ T : x <= y
  BY <1>1, Least
<1>3. x # 0 /\ x - 1 \in Nat
  BY <1>2
<1>4. x - 1 \in T
  BY <1>2, <1>3
<1>. QED  BY <1>2, <1>3, <1>4

\* The history after each fixing of the batch.
Puts(h, batch, f, a) ==
  /\ a \in [0 .. Len(batch) -> History] /\ a[0] = h
  /\ \A k \in 1 .. Len(batch) : a[k] = Put(a[k - 1], batch[k], f)
  /\ PutAll(h, batch, f) = a[Len(batch)]

LEMMA PutAllIs ==
  ASSUME NEW h \in History, NEW batch \in Batch, NEW f \in BOOLEAN
  PROVE  \E a : Puts(h, batch, f, a)
<1>. DEFINE S == 0 .. Len(batch)
           Runs(g, k) == /\ g \in [0 .. k -> History] /\ g[0] = h
                         /\ \A j \in 1 .. k : g[j] = Put(g[j - 1], batch[j], f)
           U == {k \in Nat : k <= Len(batch) => \E g : Runs(g, k)}
           after[k \in 0 .. Len(batch)] ==
             IF k = 0 THEN h ELSE Put(after[k - 1], batch[k], f)
<1>1. Len(batch) \in Nat /\ \A k \in 1 .. Len(batch) : batch[k] \in Entry
  BY DEF Batch
<1>2. 0 \in U
  <2>1. Runs([j \in 0 .. 0 |-> h], 0)
    OBVIOUS
  <2>. HIDE DEF Runs
  <2>. QED  BY <2>1
<1>3. ASSUME NEW k \in Nat, k \in U PROVE k + 1 \in U
  <2>. SUFFICES ASSUME k + 1 <= Len(batch) PROVE \E g : Runs(g, k + 1)
    OBVIOUS
  <2>1. k <= Len(batch) /\ k + 1 \in 1 .. Len(batch)
    BY <1>1
  <2>2. PICK g : Runs(g, k)
    <3>. HIDE DEF Runs
    <3>. QED  BY <1>3, <2>1
  <2>. DEFINE e == [j \in 0 .. k + 1 |-> IF j = k + 1 THEN Put(g[k], batch[k + 1], f) ELSE g[j]]
  <2>3. Put(g[k], batch[k + 1], f) \in History
    <3>1. g[k] \in History /\ batch[k + 1] \in Entry
      BY <1>1, <2>1, <2>2
    <3>. QED  BY <3>1, PutType
  <2>4. e \in [0 .. k + 1 -> History]
    BY <2>2, <2>3
  <2>5. ASSUME NEW j \in 1 .. k + 1 PROVE e[j] = Put(e[j - 1], batch[j], f)
    <3>1. j - 1 \in 0 .. k /\ j - 1 # k + 1 /\ e[j - 1] = g[j - 1]
      OBVIOUS
    <3>2. CASE j = k + 1
      BY <3>1, <3>2
    <3>3. CASE j # k + 1
      <4>1. j \in 1 .. k /\ e[j] = g[j]
        BY <3>3
      <4>. QED  BY <2>2, <3>1, <4>1
    <3>. QED  BY <3>2, <3>3
  <2>6. e[0] = h
    BY <2>2
  <2>7. Runs(e, k + 1)
    BY <2>4, <2>5, <2>6
  <2>. HIDE DEF Runs
  <2>. QED  BY <2>7
<1>4. Nat \subseteq U
  <2>. HIDE DEF U
  <2>. QED  BY <1>2, <1>3, Induct
<1>5. PICK a : Runs(a, Len(batch))
  <2>. HIDE DEF Runs
  <2>. QED  BY <1>1, <1>4
<1>6. a = [k \in S |-> IF k = 0 THEN h ELSE Put(a[k - 1], batch[k], f)]
  BY <1>1, <1>5
<1>7. after = [k \in 0 .. Len(batch) |-> IF k = 0 THEN h ELSE Put(after[k - 1], batch[k], f)]
  BY <1>6
<1>8. PutAll(h, batch, f) = after[Len(batch)]
  BY DEF PutAll
<1>. HIDE DEF after
<1>9. after[0] = h /\ \A k \in 1 .. Len(batch) : after[k] = Put(after[k - 1], batch[k], f)
  BY <1>1, <1>7
<1>10. \A k \in S : after[k] \in History
  <2>. DEFINE T == {k \in Nat : k \in S => after[k] \in History}
  <2>1. 0 \in T
    BY <1>9
  <2>2. ASSUME NEW k \in Nat, k \in T PROVE k + 1 \in T
    <3>. SUFFICES ASSUME k + 1 \in S PROVE after[k + 1] \in History
      OBVIOUS
    <3>1. k \in S /\ k + 1 \in 1 .. Len(batch) /\ (k + 1) - 1 = k
      BY <1>1
    <3>2. after[k] \in History /\ after[k + 1] = Put(after[k], batch[k + 1], f)
      BY <1>9, <2>2, <3>1
    <3>. QED  BY <1>1, <3>1, <3>2, PutType
  <2>3. Nat \subseteq T
    <3>. HIDE DEF T
    <3>. QED  BY <2>1, <2>2, Induct
  <2>. QED  BY <1>1, <2>3
<1>11. after \in [S -> History]
  BY <1>7, <1>10, Zenon
<1>12. Puts(h, batch, f, after)
  BY <1>8, <1>9, <1>11 DEF Puts
<1>. QED  BY <1>12

\* Without forceOverwrite, a fixing stays from one entry of the batch to any later.
LEMMA PutsKeep ==
  ASSUME NEW h \in History, NEW batch \in Batch, NEW a, Puts(h, batch, FALSE, a),
         NEW i \in 0 .. Len(batch), NEW d \in Date, a[i][d] # Null
  PROVE  a[Len(batch)][d] = a[i][d]
<1>1. Len(batch) \in Nat /\ \A k \in 1 .. Len(batch) : batch[k] \in Entry
  BY DEF Batch
<1>. DEFINE T == {k \in Nat : i + k \in 0 .. Len(batch) => a[i + k][d] = a[i][d]}
<1>2. 0 \in T
  BY <1>1
<1>3. ASSUME NEW k \in Nat, k \in T PROVE k + 1 \in T
  <2>. SUFFICES ASSUME i + (k + 1) \in 0 .. Len(batch) PROVE a[i + (k + 1)][d] = a[i][d]
    OBVIOUS
  <2>1. /\ i + k \in 0 .. Len(batch) /\ i + (k + 1) \in 1 .. Len(batch)
        /\ (i + (k + 1)) - 1 = i + k
    BY <1>1
  <2>2. a[i + k] \in History /\ a[i + k][d] = a[i][d]
        /\ Keeping(a[i + k], batch[i + (k + 1)], a[i + (k + 1)])
    BY <1>3, <2>1 DEF Puts, Keeping
  <2>3. batch[i + (k + 1)] \in Entry
    BY <1>1, <2>1
  <2>4. a[i + (k + 1)][d] = a[i + k][d]
    BY <2>2, <2>3, PutKeeps
  <2>. QED  BY <2>2, <2>4
<1>4. Nat \subseteq T
  <2>. HIDE DEF T
  <2>. QED  BY <1>2, <1>3, Induct
<1>5. Len(batch) - i \in Nat /\ i + (Len(batch) - i) = Len(batch)
  BY <1>1
<1>6. Len(batch) - i \in T
  BY <1>4, <1>5
<1>. QED  BY <1>1, <1>5, <1>6

LEMMA PutAllKeeps ==
  ASSUME NEW h \in History, NEW batch \in Batch
  PROVE  /\ PutAll(h, batch, FALSE) \in History
         /\ \A d \in Date : h[d] # Null => PutAll(h, batch, FALSE)[d] = h[d]
         /\ \A k \in 1 .. Len(batch) :
              batch[k][1] \in Holiday \/ PutAll(h, batch, FALSE)[batch[k][1]] # Null
<1>1. PICK a : Puts(h, batch, FALSE, a)
  BY PutAllIs
<1>2. Len(batch) \in Nat /\ \A k \in 1 .. Len(batch) : batch[k] \in Entry
  BY DEF Batch
<1>3. 0 \in 0 .. Len(batch) /\ Len(batch) \in 0 .. Len(batch)
  BY <1>2
<1>4. PutAll(h, batch, FALSE) = a[Len(batch)] /\ a[Len(batch)] \in History /\ a[0] = h
  BY <1>1, <1>3 DEF Puts
<1>5. ASSUME NEW d \in Date, h[d] # Null PROVE a[Len(batch)][d] = h[d]
  <2>1. a[0][d] # Null
    BY <1>4, <1>5
  <2>2. a[Len(batch)][d] = a[0][d]
    BY <1>1, <1>3, <2>1, PutsKeep
  <2>. QED  BY <1>4, <2>2
<1>6. ASSUME NEW k \in 1 .. Len(batch)
      PROVE  batch[k][1] \in Holiday \/ a[Len(batch)][batch[k][1]] # Null
  <2>1. k - 1 \in 0 .. Len(batch) /\ k \in 0 .. Len(batch)
    BY <1>2
  <2>2. a[k - 1] \in History /\ Keeping(a[k - 1], batch[k], a[k])
    BY <1>1, <2>1 DEF Puts, Keeping
  <2>3. batch[k][1] \in Holiday \/ a[k][batch[k][1]] # Null
    BY <1>2, <2>2, PutKeeps
  <2>4. batch[k][1] \in Date
    BY <1>2 DEF Entry
  <2>5. a[k][batch[k][1]] # Null => a[Len(batch)][batch[k][1]] = a[k][batch[k][1]]
    BY <1>1, <2>1, <2>4, PutsKeep
  <2>. QED  BY <2>3, <2>5
<1>. QED  BY <1>4, <1>5, <1>6

\* A batch of which every valid fixing is there already has no effect on what follows.
LEMMA PutAgain ==
  ASSUME NEW h \in History, NEW b \in Batch, NEW c \in Batch,
         \A k \in 1 .. Len(b) : b[k][1] \in Holiday \/ h[b[k][1]] # Null
  PROVE  PutAll(h, b \o c, FALSE) = PutAll(h, c, FALSE)
<1>1. /\ Len(b) \in Nat /\ Len(c) \in Nat /\ b \o c \in Batch
      /\ Len(b \o c) = Len(b) + Len(c)
      /\ \A k \in 1 .. Len(b) : (b \o c)[k] = b[k] /\ b[k] \in Entry
      /\ \A k \in 1 .. Len(c) : (b \o c)[Len(b) + k] = c[k] /\ c[k] \in Entry
  BY DEF Batch
<1>2. PICK a : Puts(h, b \o c, FALSE, a)
  BY <1>1, PutAllIs
<1>3. PICK e : Puts(h, c, FALSE, e)
  BY PutAllIs
<1>. DEFINE T == {k \in Nat : k \in 0 .. Len(b) => a[k] = h}
<1>4. 0 \in T
  BY <1>2 DEF Puts
<1>5. ASSUME NEW k \in Nat, k \in T PROVE k + 1 \in T
  <2>. SUFFICES ASSUME k + 1 \in 0 .. Len(b) PROVE a[k + 1] = h
    OBVIOUS
  <2>1. k \in 0 .. Len(b) /\ k + 1 \in 1 .. Len(b) /\ k + 1 \in 1 .. Len(b \o c)
        /\ (k + 1) - 1 = k
    BY <1>1
  <2>2. a[k] = h /\ (b \o c)[k + 1] = b[k + 1] /\ b[k + 1] \in Entry
    BY <1>1, <1>5, <2>1
  <2>3. a[k + 1] = Put(a[(k + 1) - 1], (b \o c)[k + 1], FALSE)
    BY <1>2, <2>1 DEF Puts
  <2>4. Keeping(h, b[k + 1], a[k + 1])
    BY <2>1, <2>2, <2>3 DEF Keeping
  <2>. QED  BY <2>1, <2>2, <2>4, PutKeeps
<1>6. a[Len(b)] = h
  <2>1. Nat \subseteq T
    <3>. HIDE DEF T
    <3>. QED  BY <1>4, <1>5, Induct
  <2>. QED  BY <1>1, <2>1
<1>. DEFINE U == {k \in Nat : k \in 0 .. Len(c) => a[Len(b) + k] = e[k]}
<1>7. 0 \in U
  BY <1>1, <1>3, <1>6 DEF Puts
<1>8. ASSUME NEW k \in Nat, k \in U PROVE k + 1 \in U
  <2>. SUFFICES ASSUME k + 1 \in 0 .. Len(c) PROVE a[Len(b) + (k + 1)] = e[k + 1]
    OBVIOUS
  <2>. DEFINE m == Len(b) + (k + 1)
  <2>1. /\ k \in 0 .. Len(c) /\ k + 1 \in 1 .. Len(c) /\ (k + 1) - 1 = k
        /\ m \in 1 .. Len(b) + Len(c) /\ m - 1 = Len(b) + k
    BY ONLY <1>1, k \in Nat, k + 1 \in 0 .. Len(c)
  <2>2. a[m] = Put(a[Len(b) + k], c[k + 1], FALSE)
    <3>1. a[m] = Put(a[m - 1], (b \o c)[m], FALSE)
      <4>. HIDE DEF m
      <4>. QED  BY <1>1, <1>2, <2>1 DEF Puts
    <3>2. (b \o c)[m] = c[k + 1]
      BY <1>1, <2>1
    <3>. QED  BY <2>1, <3>1, <3>2
  <2>3. e[k + 1] = Put(e[k], c[k + 1], FALSE)
    BY <1>3, <2>1 DEF Puts
  <2>. QED  BY <1>8, <2>1, <2>2, <2>3
<1>9. a[Len(b) + Len(c)] = e[Len(c)]
  <2>1. Nat \subseteq U
    <3>. HIDE DEF U
    <3>. QED  BY <1>7, <1>8, Induct
  <2>. QED  BY <1>1, <2>1
<1>. QED  BY <1>1, <1>2, <1>3, <1>9 DEF Puts

LEMMA PutAllType ==
  ASSUME NEW h \in History, NEW batch \in Batch, NEW f \in BOOLEAN
  PROVE  PutAll(h, batch, f) \in History
<1>1. PICK a : Puts(h, batch, f, a)
  BY PutAllIs
<1>2. Len(batch) \in 0 .. Len(batch)
  BY DEF Batch
<1>. QED  BY <1>1, <1>2 DEF Puts

-----------------------------------------------------------------------------
(* Types, and what they give. *)

LEMMA MentionType ==
  ASSUME TypeOK, NEW n \in Name, Mention(n)
  PROVE  series' \in [Name -> 0 .. MaxSeries] /\ made' \in [Name -> 0 .. MaxSeries]
<1>1. CASE series[n] # 0
  BY <1>1 DEF Mention, TypeOK
<1>2. CASE series[n] = 0
  <2>1. made[n] + 1 \in 0 .. MaxSeries
    BY <1>2, SeriesAssumption DEF Mention, TypeOK
  <2>. QED  BY <1>2, <2>1 DEF Mention, TypeOK
<1>. QED  BY <1>1, <1>2

LEMMA ToldType ==
  ASSUME TypeOK, NEW S
  PROVE  Told(S) \in [Index -> Cell \cup {Nothing}]
<1>1. ASSUME NEW c \in Cell PROVE [c EXCEPT !.told = TRUE] \in Cell
  BY DEF Cell
<1>2. \A i \in Index : cell[i] \in Cell \cup {Nothing}
  BY DEF TypeOK
<1>. QED  BY <1>1, <1>2 DEF Told

LEMMA FixingType ==
  ASSUME TypeOK, NEW i \in Index, NEW d \in Date, NEW f \in BOOLEAN
  PROVE  Fixing(i, d, f) \in Value \cup {Error}
<1>1. history[NameOf[i]][d] \in Value \cup {Null} /\ curve \in Value \cup {Null}
  BY NameAssumption DEF TypeOK
<1>. QED  BY <1>1 DEF Fixing, ForecastFixing

LEMMA InitType == Init => TypeOK
BY SeriesAssumption DEF Init, TypeOK, NoFixings

LEMMA NextType == TypeOK /\ [Next]_vars => TypeOK'
<1>. SUFFICES ASSUME TypeOK, [Next]_vars PROVE TypeOK'
  OBVIOUS
<1>1. ASSUME NEW i \in Index, CreateIndex(i) PROVE TypeOK'
  <2>1. NameOf[i] \in Name
    BY NameAssumption
  <2>2. series'[NameOf[i]] \in 0 .. MaxSeries
    BY <1>1, <2>1, MentionType DEF CreateIndex
  <2>. QED  BY <1>1, <2>1, <2>2, MentionType DEF CreateIndex, TypeOK
<1>2. ASSUME NEW i \in Index, DestroyIndex(i) PROVE TypeOK'
  BY <1>2, SeriesAssumption DEF DestroyIndex, TypeOK
<1>3. ASSUME NEW i \in Index, NEW b \in Batches, NEW f \in BOOLEAN, AddFixings(i, b, f)
      PROVE  TypeOK'
  <2>1. NameOf[i] \in Name /\ b \in Batch
    BY NameAssumption, BatchAssumption DEF Batch, Entry
  <2>2. history[NameOf[i]] \in History
    BY <2>1 DEF TypeOK, History
  <2>3. PutAll(history[NameOf[i]], b, f) \in [Date -> Value \cup {Null}]
    BY <2>1, <2>2, PutAllType DEF History
  <2>4. history' \in [Name -> [Date -> Value \cup {Null}]]
    BY <1>3, <2>1, <2>3 DEF AddFixings, TypeOK
  <2>. QED  BY <1>3, <2>1, <2>4, MentionType, ToldType DEF AddFixings, TypeOK
<1>4. ASSUME NEW i \in Index, NEW d \in Date, NEW f \in BOOLEAN, Ask(i, d, f)
      PROVE  TypeOK'
  <2>1. series' \in [Name -> 0 .. MaxSeries] /\ made' \in [Name -> 0 .. MaxSeries]
    BY <1>4, MentionType, NameAssumption DEF Ask, TypeOK
  <2>2. [date |-> d, forecast |-> f, shown |-> Fixing(i, d, f), told |-> FALSE] \in Cell
    BY FixingType DEF Cell
  <2>. QED  BY <1>4, <2>1, <2>2 DEF Ask, TypeOK
<1>5. ASSUME NEW n \in Name, NEW h \in Histories, SetHistory(n, h) PROVE TypeOK'
  <2>1. h \in [Date -> Value \cup {Null}]
    BY HistoryAssumption
  <2>. QED  BY <1>5, <2>1, MentionType, ToldType DEF SetHistory, TypeOK
<1>6. ASSUME NEW S, ClearHistories(S) PROVE TypeOK'
  BY <1>6, SeriesAssumption DEF ClearHistories, NoFixings, TypeOK
<1>7. ASSUME NEW d \in Date, SetEvaluationDate(d) PROVE TypeOK'
  BY <1>7, ToldType DEF SetEvaluationDate, TypeOK
<1>8. ASSUME NEW v \in Value \cup {Null}, SetCurve(v) PROVE TypeOK'
  BY <1>8, ToldType DEF SetCurve, TypeOK
<1>9. CASE UNCHANGED vars
  BY <1>9 DEF vars, TypeOK
<1>. QED
  BY <1>1, <1>2, <1>3, <1>4, <1>5, <1>6, <1>7, <1>8, <1>9 DEF Next

\* The state variables keep their types, whoever clears what.
THEOREM TypeCorrect == Spec => []TypeOK
BY InitType, NextType, PTL DEF Spec

(***************************************************************************)
(* Index::addFixings: without forceOverwrite, no batch changes a fixing    *)
(* there is, and passing a batch again, in front of what comes after it,   *)
(* makes no difference: for any history, dates and batches.                *)
(***************************************************************************)
THEOREM RetriesHarmless == Spec => []RetryHarmless
<1>1. TypeOK => RetryHarmless
  <2>. SUFFICES ASSUME TypeOK, NEW n \in Name, NEW b \in Batches, NEW c \in Batches
                PROVE  LET once == PutAll(history[n], b, FALSE) IN
                       /\ \A d \in Date : history[n][d] # Null => once[d] = history[n][d]
                       /\ PutAll(once, b \o c, FALSE) = PutAll(once, c, FALSE)
    BY DEF RetryHarmless
  <2>1. history[n] \in History /\ b \in Batch /\ c \in Batch
    BY BatchAssumption DEF TypeOK, History, Batch, Entry
  <2>. QED  BY <2>1, PutAllKeeps, PutAgain
<1>. QED  BY <1>1, TypeCorrect, PTL

=============================================================================
