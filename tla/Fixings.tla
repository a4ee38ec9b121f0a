------------------------------- MODULE Fixings -------------------------------
(***************************************************************************)
(* Past fixings kept by name for all indexes of that name, the observables *)
(* behind them, and what readers of an index have been told.               *)
(*                                                                         *)
(*   ql/index.hpp, ql/index.cpp              Index                         *)
(*   ql/indexes/indexmanager.cpp             IndexManager                  *)
(*   ql/indexes/interestrateindex.cpp, .hpp  InterestRateIndex             *)
(*                                                                         *)
(* The manager makes a history, and the observable that tells of it, when  *)
(* its name is first mentioned, be it to read.  An index asks for the      *)
(* observable once, when it is made.  Clearing a history drops its         *)
(* observable and tells nobody: indexes in use keep the old one, which     *)
(* nobody notifies any more.                                               *)
(***************************************************************************)
EXTENDS Naturals, Sequences

CONSTANTS
  Index,         \* index objects
  Name,          \* index names, in upper case as the manager keeps them
  NameOf,        \* the name of each index; several may share one
  Holiday,       \* dates that are not valid fixing dates
  Value,         \* levels of a fixing or of a forecast
  Batches,       \* sequences of <<date, value>> passed to addFixings
  Histories,     \* histories passed to setHistory
  Enforced,      \* Settings::enforcesTodaysHistoricFixings
  MaxDate,       \* bound: last evaluation date
  MaxSeries,     \* bound: observables made for one name
  Null, Error, Nothing

Date == 1 .. MaxDate

ASSUME NameAssumption == NameOf \in [Index -> Name]
ASSUME BatchAssumption == Batches \subseteq Seq(Date \X Value)
ASSUME HistoryAssumption == Histories \subseteq [Date -> Value \cup {Null}]
ASSUME DateAssumption == MaxDate \in Nat \ {0}
ASSUME SeriesAssumption == MaxSeries \in Nat
ASSUME ValueAssumption == Null \notin Value /\ Error \notin Value \cup {Null}

VARIABLES
  history,       \* IndexManager::data_, the fixings; Null where there is none
  series,        \* the observable behind each history; 0 if it has no entry
  made,          \* how many observables each name has had
  registered,    \* the observable each index is registered with; 0: no index
  today,         \* the evaluation date
  curve,         \* what forecasts come from; Null if the handle is empty
  cell           \* what a reader of each index shows

vars == <<history, series, made, registered, today, curve, cell>>

NoFixings == [d \in Date |-> Null]

\* told: the reader has been notified since it last asked.
Cell == [date : Date, forecast : BOOLEAN, shown : Value \cup {Error}, told : BOOLEAN]

TypeOK ==
  /\ history \in [Name -> [Date -> Value \cup {Null}]]
  /\ series \in [Name -> 0 .. MaxSeries]
  /\ made \in [Name -> 0 .. MaxSeries]
  /\ registered \in [Index -> 0 .. MaxSeries]
  /\ today \in Date
  /\ curve \in Value \cup {Null}
  /\ cell \in [Index -> Cell \cup {Nothing}]

Init ==
  /\ history = [n \in Name |-> NoFixings]
  /\ series = [n \in Name |-> 0]
  /\ made = [n \in Name |-> 0]
  /\ registered = [i \in Index |-> 0]
  /\ today \in Date
  /\ curve \in Value \cup {Null}
  /\ cell = [i \in Index |-> Nothing]

Alive(i) == registered[i] # 0

\* Index i is registered with the observable that its name has now.
Hears(i) == Alive(i) /\ registered[i] = series[NameOf[i]]

\* InterestRateIndex::fixing looks for a past fixing.
LooksBack(d, forecastTodaysFixing) ==
  d \notin Holiday /\ (d < today \/ (d = today /\ ~forecastTodaysFixing))

-----------------------------------------------------------------------------
\* Slip: a new entry replaces the old one.
MentionAnew(n) ==
  /\ made[n] < MaxSeries
  /\ made' = [made EXCEPT ![n] = @ + 1]
  /\ series' = [series EXCEPT ![n] = made[n] + 1]

\* std::map::operator[] of the manager: an entry of name n exists afterwards.
Mention(n) ==
  IF series[n] # 0 THEN UNCHANGED <<series, made>>
  ELSE /\ made[n] < MaxSeries
       /\ made' = [made EXCEPT ![n] = @ + 1]
       /\ series' = [series EXCEPT ![n] = made[n] + 1]

\* InterestRateIndex::update for the indexes in S: their readers are told.
Told(S) ==
  [i \in Index |-> IF i \in S /\ cell[i] # Nothing
                     THEN [cell[i] EXCEPT !.told = TRUE] ELSE cell[i]]

\* Whom a new history of name n is told to.
Listeners(n) == {i \in Index : NameOf[i] = n /\ Hears(i)}

\* Slip: the last of two fixings for a date is kept.
PutAnyway(h, fixing, forceOverwrite) ==
  LET d == fixing[1] IN
  IF d \notin Holiday THEN [h EXCEPT ![d] = fixing[2]] ELSE h

\* Index::addFixings, one fixing of the batch.
Put(h, fixing, forceOverwrite) ==
  LET d == fixing[1] IN
  IF d \notin Holiday /\ (forceOverwrite \/ h[d] = Null)
    THEN [h EXCEPT ![d] = fixing[2]] ELSE h

\* Index::addFixings up to setHistory.
PutAll(h, batch, forceOverwrite) ==
  LET after[k \in 0 .. Len(batch)] ==
        IF k = 0 THEN h ELSE Put(after[k - 1], batch[k], forceOverwrite)
  IN  after[Len(batch)]

\* An invalid date in the batch, or a fixing that differs from the one there:
\* addFixings raises once the rest has been stored.
Refused(h, batch) ==
  \E k \in 1 .. Len(batch) : \/ batch[k][1] \in Holiday
                             \/ PutAll(h, batch, FALSE)[batch[k][1]] # batch[k][2]

-----------------------------------------------------------------------------
\* InterestRateIndex::InterestRateIndex
CreateIndex(i) ==
  /\ ~Alive(i)
  /\ Mention(NameOf[i])
  /\ registered' = [registered EXCEPT ![i] = series'[NameOf[i]]]
  /\ UNCHANGED <<history, today, curve, cell>>

DestroyIndex(i) ==
  /\ Alive(i)
  /\ registered' = [registered EXCEPT ![i] = 0]
  /\ cell' = [cell EXCEPT ![i] = Nothing]
  /\ UNCHANGED <<history, series, made, today, curve>>

\* Slip: a batch that is refused in part is stored without a word.
AddFixingsHushed(i, batch, forceOverwrite) ==
  LET n == NameOf[i] IN
  /\ Alive(i)
  /\ Mention(n)
  /\ history' = [history EXCEPT ![n] = PutAll(@, batch, forceOverwrite)]
  /\ cell' = IF Refused(history[n], batch) THEN cell ELSE Told(Listeners(n))
  /\ UNCHANGED <<registered, today, curve>>

\* Index::addFixings: what can be stored is, and announced, before it raises.
AddFixings(i, batch, forceOverwrite) ==
  LET n == NameOf[i] IN
  /\ Alive(i)
  /\ Mention(n)
  /\ history' = [history EXCEPT ![n] = PutAll(@, batch, forceOverwrite)]
  /\ cell' = Told(Listeners(n))
  /\ UNCHANGED <<registered, today, curve>>

\* IndexManager::setHistory
SetHistory(n, h) ==
  /\ Mention(n)
  /\ history' = [history EXCEPT ![n] = h]
  /\ cell' = Told(Listeners(n))
  /\ UNCHANGED <<registered, today, curve>>

\* IndexManager::clearHistory of one name, clearHistories of all, and
\* Index::clearFixings, whether or not there are indexes of the name.
ClearHistories(S) ==
  /\ history' = [n \in Name |-> IF n \in S THEN NoFixings ELSE history[n]]
  /\ series' = [n \in Name |-> IF n \in S THEN 0 ELSE series[n]]
  /\ UNCHANGED <<made, registered, today, curve, cell>>

SetEvaluationDate(d) ==
  /\ today' = d
  /\ cell' = Told({i \in Index : Alive(i)})
  /\ UNCHANGED <<history, series, made, registered, curve>>

\* The forwarding curve changes, or is relinked, or unlinked.
SetCurve(v) ==
  /\ v # curve
  /\ curve' = v
  /\ cell' = Told({i \in Index : Alive(i)})
  /\ UNCHANGED <<history, series, made, registered, today>>

\* Slip: the handle is not checked.
ForecastUnchecked == curve

\* forecastFixing raises on an empty handle.
ForecastFixing == IF curve = Null THEN Error ELSE curve

\* InterestRateIndex::fixing
Fixing(i, d, forecastTodaysFixing) ==
  LET past == history[NameOf[i]][d] IN
  IF d \in Holiday THEN Error
  ELSE IF ~LooksBack(d, forecastTodaysFixing) THEN ForecastFixing
  ELSE IF past # Null THEN past
  ELSE IF d < today \/ Enforced THEN Error
  ELSE ForecastFixing

\* A reader asks index i; looking for a past fixing mentions the name.
Ask(i, d, forecastTodaysFixing) ==
  /\ Alive(i)
  /\ IF LooksBack(d, forecastTodaysFixing) THEN Mention(NameOf[i])
     ELSE UNCHANGED <<series, made>>
  /\ cell' = [cell EXCEPT ![i] =
                [date |-> d, forecast |-> forecastTodaysFixing,
                 shown |-> Fixing(i, d, forecastTodaysFixing), told |-> FALSE]]
  /\ UNCHANGED <<history, registered, today, curve>>

Next ==
  \/ \E i \in Index : \/ CreateIndex(i) \/ DestroyIndex(i)
                      \/ \E b \in Batches, f \in BOOLEAN : AddFixings(i, b, f)
                      \/ \E d \in Date, f \in BOOLEAN : Ask(i, d, f)
  \/ \E n \in Name, h \in Histories : SetHistory(n, h)
  \/ \E n \in Name : ClearHistories({n})
  \/ ClearHistories(Name)
  \/ \E d \in Date : SetEvaluationDate(d)
  \/ \E v \in Value \cup {Null} : SetCurve(v)

Spec == Init /\ [][Next]_vars

-----------------------------------------------------------------------------
(***************************************************************************)
(* A reader that has not been told of a change shows what its index would  *)
(* return now, value or error, whichever index of the name stored a        *)
(* fixing, and although part of its batch was refused.  One whose index    *)
(* had its history cleared can rely on that for what is forecast only.     *)
(***************************************************************************)
ReadersTold ==
  \A i \in Index :
    /\ cell[i] # Nothing /\ ~cell[i].told
    /\ Hears(i) \/ ~LooksBack(cell[i].date, cell[i].forecast)
    => cell[i].shown = Fixing(i, cell[i].date, cell[i].forecast)

(***************************************************************************)
(* An index begins by hearing of its name's history, however often that    *)
(* was cleared and made again before, and nothing but clearing it ends     *)
(* that; an index that it happened to never hears of that name again.      *)
(***************************************************************************)
OnlyClearingDeafens ==
  [][\A i \in Index :
       Alive(i)' => IF Alive(i) THEN Hears(i)' = (Hears(i) /\ series'[NameOf[i]] # 0)
                    ELSE Hears(i)']_vars

(***************************************************************************)
(* Unless told to overwrite, a batch never changes a fixing there is, even *)
(* one it stored itself a moment before; so a batch that was refused in    *)
(* part can be passed again as it is.                                      *)
(***************************************************************************)
RetryHarmless ==
  \A n \in Name, b \in Batches :
    LET once == PutAll(history[n], b, FALSE) IN
    /\ \A d \in Date : history[n][d] # Null => once[d] = history[n][d]
    /\ \A c \in Batches : PutAll(once, b \o c, FALSE) = PutAll(once, c, FALSE)
=============================================================================
