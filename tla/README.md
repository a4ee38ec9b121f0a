# QLExtension: specifications, model checks and proofs

QLExtension is a fork of QuantLib (C++), a C# layer that exposes it to Excel,
and some applications around them. This directory holds TLA+ modules of the
parts whose correctness depends on *order*: who is notified when, what is
cached and for how long, what happens when something raises half way, and which
thread runs between two statements of another. Numerics are left to QuantLib's
own tests.

Paths below are relative to `src/`; `ql/` stands for
`C++ Core Library/QuantLib/ql/`, `xll/` for `CSharp Extension/CEGLibXll/`.
`PROJECT.json` maps every definition to the lines it models.

Run everything from here: `tlc -config MCLazyDiamond.cfg MCLazyNetwork`,
`tlapm LazyNetworkProofs.tla`, and so on.

## 1. Inventory

### Parts that are modelled

**Calculation network** (`ql/patterns/observable.hpp`,
`ql/patterns/lazyobject.hpp`, `ql/handle.hpp`, `ql/quotes/simplequote.hpp`).
- *State*: a quote's value; a link's pointee and whether it registered with it;
  a lazy object's `calculated_`, `frozen_` and its results.
- *Operations*: `setValue`, `reset`, `linkTo`, `freeze`, `unfreeze`,
  `recalculate`, inspectors (which call `calculate()`), `update()` of links,
  lazy objects and plain observers, `notifyObservers`.
- *Interaction*: everything is a synchronous call. A notification is a deep
  recursion; a plain observer may read in the middle of it, which starts a
  calculation; a calculation descends into the lazy objects it reads; an
  exception leaves all calculations under way and ends in the innermost
  notification loop.
- *Hard*: the loop order is the order of pointers, so an object may be
  recalculated before its own inputs have been told; a lazy object forwards one
  notification only and none while frozen; a failed calculation must not leave
  `calculated_` set.
- *Correct when*: an object marked as calculated holds the results of its
  present inputs; an observer that has not been told shows them too; a frozen
  object keeps its results; an inspector answers what a computation from
  scratch would; every call returns.

**Registrations and notification loops** (`ql/patterns/observable.hpp`).
- *State*: `Observer::observables_` (shared pointers), `Observable::observers_`
  (raw pointers), lifetimes, the activations of `notifyObservers`.
- *Operations*: copy, assignment and destruction of both classes,
  `registerWith`, `unregisterWith`, `unregisterWithAll`, `notifyObservers`.
- *Hard*: raw pointers to observers that die and whose addresses are used
  again; sets changed by `update()` methods while loops iterate over them;
  exceptions within loops within loops.
- *Correct when*: the two sides of a registration agree, nobody keeps a pointer
  to a dead observer, and a loop calls every observer registered throughout it.

**Real-time-data server** (`xll/Rtd/RTDTimerServer.cs`, client
`cegTimeNow` in `xll/Time/Date.cs`).
- *State*: `taskMap`; each `PayLoad`'s timer, `result`, `IsUpdated`,
  subscriber.
- *Operations*: `ServerStart`, `ConnectData`, `RefreshData`, `DisconnectData`,
  `ServerTerminate` on Excel's thread; `timer_Elapsed` on pool threads.
- *Hard*: the timer runs before anybody subscribes; callbacks overlap each other
  and `RefreshData` without a lock; they outlive the session that made them.
- *Correct when*: every running timer is one `ServerTerminate` will find; an
  update waiting to be collected is announced to Excel; a cell shows no time of
  an earlier session; each time produced, or a later one, is shown in the end.

**Piecewise yield curve** (`ql/termstructures/yield/piecewiseyieldcurve.hpp`,
`ql/termstructures/iterativebootstrap.hpp`, `ql/termstructures/bootstraphelper.hpp`,
`ql/termstructure.cpp`, `ql/termstructures/yieldtermstructure.cpp`) —
partly.
- *State*: the lazy object's flags, `updated_` and `referenceDate_` of a moving
  term structure, `latestReference_` (what jump times are measured from),
  `validCurve_`, the sizes of the data and of the interpolation, what was last
  solved; each helper's quote and dates.
- *Operations*: a new evaluation date, a new quote, `update()` of the helpers and
  of the curve, `discount`, `referenceDate`, `freeze`, `unfreeze`, `recalculate`,
  the bootstrap with its early returns and failures.
- *Hard*: the curve and its helpers observe the evaluation date separately and
  in any order; `update()` does one half of its work before it notifies and one
  after; helpers expire; a solver fails half way.
- *Correct when*: once everybody has been told, a calculated curve was solved
  from today's reference date, schedules and quotes; clients that read will hear
  of the next change.
- *Left out*: fixed and externally managed reference dates, values of jumps, and the
  numbers that solvers find.

**Settings and evaluation date** (`ql/settings.hpp`, `ql/settings.cpp`,
`ql/event.cpp`).
- *State*: `evaluationDate_` (null while it floats), the clock,
  `includeReferenceDateEvents_`, the `SavedSettings` objects alive.
- *Operations*: assigning, resetting and anchoring the date, writing the flag,
  midnight, entering and leaving a `SavedSettings` scope.
- *Hard*: a change of the flag and the passing of midnight are told to nobody; a
  scope is left with or without a notification, in whole or, if an observer
  raises, in part.
- *Correct when*: whatever is priced within or after a scope is priced at the
  settings in force (see instruments).

**Instruments and pricing engines** (`ql/instrument.hpp`, `ql/pricingengine.hpp`,
`ql/instruments/compositeinstrument.cpp`).
- *State*: an instrument's engine, flags, `NPV_` and `errorEstimate_`; an
  engine's results; a composite's components and the sum so far.
- *Operations*: `setPricingEngine`, `NPV`, `freeze`, `unfreeze`, `recalculate`,
  `setupExpired`, `performCalculations` with `reset`, `calculate` and
  `fetchResults` of the engine, `add`, the composite's loop over its components.
- *Hard*: engines are shared, and keep what they priced last; `calculate()` is
  overridden to ask for expiry first, before the flags; an engine or the lack of
  one raises half way; engines on lazy data tell of a change only once read.
- *Correct when*: an instrument holds what an engine made of its own arguments,
  value and error from one calculation; what counts as calculated is worth what
  it shows; a composite is the sum of its components.

**Indexes and fixings** (`ql/index.hpp`, `ql/indexes/indexmanager.cpp`,
`ql/indexes/interestrateindex.cpp`).
- *State*: a history and an observable for each name that was mentioned; which
  observable each index took when it was made; evaluation date and curve.
- *Operations*: making and destroying indexes, `addFixings`, `setHistory`,
  `clearHistory`, `clearHistories`, `clearFixings`, `fixing`.
- *Hard*: indexes of one name share a history; `addFixings` stores what it can
  and then throws; clearing a history cuts off the indexes that use it, and the
  manager makes the entry anew for others.
- *Correct when*: whoever asked an index is told of whatever changes the answer,
  unless its history was cleared; nothing else cuts an index off; a batch refused in
  part can be passed again.

**Exchange rates** (`ql/currencies/exchangeratemanager.cpp`, `ql/exchangerate.cpp`).
- *State*: for each pair of currencies, a list of rates with their dates.
- *Operations*: `add`, `clear`, `lookup` (direct, triangulated, searched), `chain`,
  `exchange`.
- *Hard*: one list for both directions; a search that runs into dead ends and
  forbids currencies on the way; chains of rates passed in either direction.
- *Correct when*: the latest valid rate is preferred, a chain is found exactly if
  there is one, and `rate()` and `exchange()` agree on it.

**Schedules** (`ql/time/schedule.cpp`, `ql/time/calendar.cpp`, `ql/time/date.cpp`) —
partly.
- *State*: the constructor's `dates_` and `isRegular_` as they grow.
- *Operations*: the constructor from a tenor, under every rule; `until`.
- *Hard*: dates are compared after one adjustment and moved by another; flags are
  pushed at whichever end the dates are; final checks remove dates.
- *Correct when*: dates increase from the effective to the termination date, none
  is lost, and a period flagged as regular is one tenor long.
- *Left out*: the placeholder for a null effective date, schedules from lists of
  dates, and what the table below names.

### Not modelled

| Part | Why |
|---|---|
| Calibrated models (`ql/models/model.hpp`) | `update()` regenerates arguments, which is numerics, and then notifies: two consecutive statements |
| Solvers, optimisers, end criteria (`ql/math/`) | floating-point iteration; with the values abstracted, counters compared with their limits are left |
| Other term structures, processes, models, engines, numerical methods; risk additions (`ql/risk/`) | real analysis; in the network they are lazy objects and observers, which `LazyNetwork` has |
| Calendars, IMM and ECB codes, serial-number tables, `Period` arithmetic, `MakeSchedule` | tables and stateless arithmetic, tested exhaustively by QuantLib's own tests; `MakeSchedule` collects arguments |
| Object repository and worksheet functions (`xll/System/OHRepository.cs`, `xll/Instruments/`, `xll/Models/`, `xll/Termstructures/`) | two dictionaries on Excel's one calculation thread; errors are stored and never read, since `retrieveError` has no caller; `RateHelpers.cs` declares a local twice and does not compile |
| Date functions of the add-in (`xll/Time/`) | stateless conversions; `cegTimeNow` is a client of the real-time-data server |
| Ribbon, menus, start-up | user-interface glue |
| Database access and risk engine in C# (`CSharp Extension/CEGLib/`) | external databases, whose behaviour is not in the repository, and numerics |
| `dotnetglue` | marshalling for a proprietary library of which only headers are here |
| Applications, R scripts, workbook | straight-line programs over external data |
| QuantLib-SWIG, packages, SecDb headers | third-party or generated |

Most of the repository's lines are of these kinds: wrappers that SWIG generated,
tables of numbers, test cases and numerical methods, of which a model checker has
nothing to say. What is modelled is the small part of the library that everything
else is driven by.

## 2. Modules

```
OnDemand  <--implements--  LazyNetwork          MCLazyNetwork
                           LazyNetworkProofs
ObserverPattern            ObserverPatternProofs          MCObserverPattern
RTDTimerServer             RTDTimerServerProofs
PiecewiseYieldCurve        PiecewiseYieldCurveProofs      MCPiecewiseYieldCurve
Settings <-- Instruments   InstrumentsProofs              MCInstruments
Fixings                    FixingsProofs                  MCFixings
ExchangeRates              ExchangeRatesProofs            MCExchangeRates
Schedule                   ScheduleProofs                 MCSchedule
```

**`LazyNetwork`** has one action per operation. The network is a parameter:
`Reads` says what each lazy object or reader reads *and registers with* (the
library requires both, see the warning on `LazyObject::calculate`), `Targets`
what a link may point to, `Rank` witnesses that no object reads itself.
`Evaluate` is `performCalculations()` as a function of its inputs; it may throw
(`Null`).

| In the model | In the code |
|---|---|
| `value`, `target`, `isObserver` | `SimpleQuote::value_`, `Link::h_`, `Link::isObserver_` |
| `calculated`, `frozen`, `results` | the members of `LazyObject`, the results of its subclass |
| `notifying`, `computing`, `call` | the call stack: loops under way, calculations under way, the client's call |
| `seen`, `gaveUp`, `reply` | history: inputs read, readers whose read threw, the last answer |
| `SetValue`, `LinkTo`, `Freeze`, `Unfreeze`, `Recalculate`, `Query` | the client's calls, up to their first nested call |
| `UpdateLink`, `UpdateLazy`, `UpdateFlag`, `UpdateReader`, `EndNotify` | the loop of `notifyObservers` reaching each kind of observer, and its end |
| `Descend`, `Read`, `Finish`, `Throw` | `performCalculations()` reading its inputs one by one |

Calls are split at every point where another object's code runs, so that all
interleavings of notifications and calculations that a single thread can produce
are there. The order of a loop is *any* order: pointer order is one of them and
differs from run to run.

**`OnDemand`** is what the network promises: no caches, no notifications; an
inspector answers a computation from the present quotes and links, and a frozen
object what it holds. What `freeze()` pins is left open, since an object may hold
results of any earlier time.

**`ObserverPattern`** refines the other half of `observable.hpp`: an observer
*is* its address, an iterator is the address it has reached, and the loops walk
addresses in order. While a loop runs, the observer it has reached is inside its
`update()`, which may do any of the module's operations, with one restriction,
`Undisturbed`: it may not end its own registration with the observable being
looped over, because `std::set::erase` would invalidate the loop's iterator. No
`update()` of the library does. `Held` is the same for shared pointers: the
observable of a running loop is not destroyed under it.

**`RTDTimerServer`** splits each method where another thread can come in: an
access to a shared field of a `PayLoad` is a step. Excel itself is not in the
repository; it is modelled from the `IRtdServer` calls it makes: one at a time,
`RefreshData` after `UpdateNotify`. Strings are reduced to whether
`timer_Elapsed` knows the function (`Timed`).

**`PiecewiseYieldCurve`** keeps, instead of discount factors, *what they were
solved from* (`solved`): the reference date and each alive helper's date and
quote. `Bootstrap`, `Read`, `Notified` and `Update` take a curve to the set of
curves a call can leave, and whether it returned. Observers of the curve are
reduced to what their `update()` may do (`Behaviour`: read the curve, raise).
A solver may fail whatever its inputs. If the interpolation and the data differ
in size the code's behaviour is undefined; the model goes on with the sizes it
has, and `SpansPillars` is about that state itself.

**`Settings`** has the changes of the settings alone, as actions on its own
variables; **`Instruments`** extends it and joins to each what the notification of
a date does to engines, instruments and the composite. Notifications run to their
end within one action here, their interleavings being `LazyNetwork`'s subject; the
composite's loop takes one action per component, because a component may raise.
A price is a record of what it was made from: engine, instrument, quote, date.
`Computed` is what an engine's results are after `reset()` and `calculate()`;
an engine need not estimate an error (`Estimates`), and then must not hand on the
one it has left from another instrument. `announced` remembers whether every
change so far was one that observers are told of.

**`Fixings`** has the manager's entry of a name as two variables, the history and
the number of the observable behind it (`series`); `registered` is the observable
an index took in its constructor. `Mention` is the manager's `operator[]`, which
makes the entry whoever asks. An index `Hears` of its history as long as the number
it took is the one its name has; `ClearHistories`, which models `clearHistory`,
`clearHistories` and `Index::clearFixings`, may be called at any time. `cell` is a reader of an index that has asked for a
fixing: what it shows, and whether it has been told since.

**`ExchangeRates`** and **`Schedule`** are algorithms, as operators over bounded
inputs. Rates and amounts are logarithms, so that products are sums and compare
exactly. The recursive methods are recursive functions, each given the operator for
one of its calls: `Search` for `smartLookup`, `LookFor` for `lookup`, `Exchanged` for
`exchange`. `SmartLookup` returns the first chain that the order of the map yields,
as the code does; the property compares with connectedness, defined apart.
`Schedule` has the constructor's loop as actions, one pushed date each, over an
artificial calendar: months of three to five days, so that every boundary (month
ends, half months, twentieths, third Wednesdays, weekends over them) is within a
few days of every other. `request` has the constructor's arguments, `self` the members
made from them, which `until` changes in the schedule it returns. The properties take
what they leave out from `request`, so that they do not change their minds on the way.

Operators introduced by a comment "Slip:" are plausible mistakes in the operation
that follows them. Nothing uses them; substituted for the real operation they
make the properties fail, which shows that the properties depend on that code.
Each property of a passing run has at least one (`mutants` in `PROJECT.json`).

## 3. Runs

| Run | Instance | Checks | Distinct states |
|---|---|---|---|
| `lazy_diamond` | quotes q1, q2, one link, a curve and a bond that both read q1, a cell that reads both | `TypeOK`, `Inv`, `ResultsFresh`, `ReadersTold`, `ImplementsOnDemand` | 74,419 |
| `lazy_relink` | a link that can point to a quote or to a curve, with and without registering; under `FairSpec` | `Inv`, `AnswersFromScratch`, `FreezePins`, `CallsReturn` | 116,543 |
| `registrations` | 2 observables, 3 addresses, loops two deep | `TypeOK`, `Registered`, `EveryoneTold` | 56,185 (up to symmetry) |
| `rtd` | 2 topics, one of them unknown, 2 payloads, 2 threads, 2 instants; under `FairSpec` | `TypeOK`, `NoOrphans`, `Announced`, `ThisSession`, `Refreshed` | 248,858 |
| `curve_moving` | 3 evaluation dates, a date-relative and a fixed helper, observers that may raise | `TypeOK`, `Fresh`, `ReferenceCurrent`, `Listening` | 58,656 |
| `curve_obsolete` | two fixed helpers, observers that read | violates `Fresh` | |
| `instruments` | a bond and an option that share an engine, a second engine on lazy data, their composite, one saved scope, 2 dates | `TypeOK`, `OwnResults`, `FreshOrZero`, `FrozenKept` | 673,857 |
| `composite` | the same with 3 dates, no lazy data | violates `SumOfComponents` | |
| `fixings` | 2 indexes of one name, 3 dates, one a holiday, batches of one and two, histories replaced and cleared | `TypeOK`, `ReadersTold`, `OnlyClearingDeafens`, `RetryHarmless` | 157,409 (up to symmetry) |
| `exchange` | 5 currencies, one triangulated, 2 known rates and up to 2 added, 2 dates | `TypeOK`, `LatestPreferred`, `FindsAChain`, `RateIsExchange` | 14,521 |
| `schedule` | 71,040 requests over ends, tenors, conventions, stubs, rules; truncations | `TypeOK`, `DatesIncrease`, `EndsKept`, `NoneLost`, `FlagsTrue` | 504,470 |
| `schedule_eom` | the requests backward, monthly, with the end-of-month convention | violates `FirstDateOnce` | |

### What the properties say

- `ResultsFresh`, `ReadersTold`: between calls, calculated objects and observers
  that were not told agree with what their inputs return now. `Inv` is the
  reason, at every step within a call: each input a consumer has read is
  current, or its change is on its way to it.
- `AnswersFromScratch`, `ImplementsOnDemand`: what a client is *answered*, through
  any depth of caches, is what a computation without caches gives. The first
  holds even with links that do not register, for objects that no such link
  feeds; the second is the whole refinement, where every link registers.
- `FreezePins`, `CallsReturn`: frozen results do not move; storms of notifications
  die out.
- `Registered`, `EveryoneTold`: the two sides agree; no loop misses an observer
  that was registered throughout, and its iterator is always on a live one.
- `NoOrphans`, `Announced`, `ThisSession`, `Refreshed`: see the inventory. `Announced`
  has one exception, which the code does have: a tick before `ConnectData` has
  subscribed raises the flag with nobody to tell, and the next tick makes up.
- `Fresh`, `ReferenceCurrent`, `Listening`: see the inventory.
- `OwnResults`: however instruments share, exchange and break engines, what an
  instrument holds was made of its own arguments, value and error together.
- `FreshOrZero`: what is marked as calculated is what its engine would make of the
  present quote and date. It makes two exceptions, which the code has: after a
  change that nobody is told of (`announced`), and the zero of what had expired,
  which `calculate()` sets without having read anything that would tell it when
  the date moves back. The second is what `SumOfComponents` is violated by.
- `FrozenKept`: a frozen instrument keeps its results, unless it is found expired.
- `ReadersTold` (of `Fixings`), `OnlyClearingDeafens`, `RetryHarmless`: see the
  inventory. Clearing a history in use is what the code does let happen, and its
  readers are told of nothing: `OnlyClearingDeafens` has it as the one way to cut an
  index off, for as long as it lives, and `ReadersTold` promises a reader of such an
  index only what does not depend on the history: forecasts, which the evaluation
  date and the curve still announce.
- `LatestPreferred`, `FindsAChain`, `RateIsExchange`: see the inventory.
- `DatesIncrease`, `EndsKept`, `NoneLost`, `FlagsTrue`: see the inventory. They leave
  out, by name, the requests for which the code does not keep them (`Plain`,
  `Ordered`, `EndAhead`, `SameEnd`); section 5 says what happens for those.

### Bounds, and why they are enough

- *Networks*: the diamond has what makes notification order matter (an object
  notified twice, directly and through another), the chain what makes relinking
  matter (whole cached subtrees swapped). Two numbers tell fresh from stale;
  `Parity` makes every input matter and lets the curve throw on one combination.
  Quotes may be invalid, links empty. The proofs have no bound.
- *Addresses*: three let a new observer lie before, at or after the iterator, and
  re-use an address; depth 2 (`MaxDepth`) has a loop within a loop over the same
  or the other observable. The proofs have no bound.
- *RTD*: two payloads let a new session meet a callback of the old one; two
  threads let callbacks of one timer overlap. `MaxTime` bounds the instants told
  apart, not the number of callbacks: when time stands still, timers still tick.
- *Curve*: `Settlement` maps two dates to one and one to another, so that a changed
  evaluation date may or may not change the reference date; the short helper
  expires in one configuration, and the two helpers' dates coincide in another
  (which `initialize()` refuses). `MinAlive = 1` makes no alive helper a failure.
- *Instruments*: of two dates, the option expires on the second or, the flag being set,
  not yet; the bond never does, but in the run `composite`, which has a third. The date
  can move back (`Rewind`). One scope suffices for what leaving one does. One good quote and a
  bad one: two good ones would tell no more than the dates do, since a price names
  its date. The run does not go on after a change that nobody is told of (the
  constraint `Announced` of `MCInstruments`), about which no property says anything
  but `OwnResults`, `FrozenKept` and the types, and those are proved without it.
- *Fixings*: three dates have a past, a present and a future, one of them a holiday.
  `MaxSeries = 2` lets a cleared history be made anew once, so that an index with
  the old observable meets one with the new. `setHistory` is given an empty history and
  one with fixings for every date, the holiday included. The two indexes have the same
  name and nothing tells them apart, which makes `Alike` sound.
- *Exchange rates*: with two known rates and two added, all directions and dates of
  them, there are chains of three, dead ends, several entries of a pair with dates
  that overlap or do not, and the triangulated currency is reached or not. Levels
  1 and 5 make sums of up to three of them, with signs, tell which were taken.
- *Schedules*: ends at, before and after month ends and holidays; stubs at either end,
  in either order; tenors of one to three days and of no or one month, and for the
  rules with dates of their own of one or two months, negative, which is refused, and a
  day. The calendar reaches beyond the requests as far as the rules and the tenor look
  (`RoomAssumption`); `Date` refuses what is beyond 1901 and 2199, which is left out.
  `CHECK_DEADLOCK FALSE`: a constructor ends.

### Fairness

- `lazy_relink`: weak fairness of the steps *within* a call. The program is the
  only thread; a call that can go on goes on. Clients need not call.
- `rtd`: weak fairness of Excel's answer to a notification and of the steps
  of a callback that a thread has taken. Strong fairness, per payload, of a
  callback *being* taken: the pool queues callbacks, so one whose timer keeps
  ticking gets a thread although threads are busy again and again. Neither
  connections, disconnections, restarts nor the clock are fair.
- The other modules have no liveness: every call of theirs is one action, or a loop
  over a list.

### What the violations show

1. `curve_obsolete` / `Fresh`. `PiecewiseYieldCurve::update` notifies before it
   resets `updated_`. An observer that reads when notified has the curve solved
   from the old reference date and marked as calculated; the reference date then
   moves, the data do not.
2. `composite` / `SumOfComponents`. `Instrument::calculate` answers for an expired
   composite with zero, and `CompositeInstrument::isExpired` has asked only for
   the components' dates, without calculating them. What is not calculated does
   not forward notifications. When the evaluation date moves back, the composite
   is told nothing and goes on showing zero, while its components have values.
3. `schedule_eom` / `FirstDateOnce`. The constructor drops dates that would be
   duplicates after business-day adjustment, but with the end-of-month convention
   dates are then moved to the ends of their months. If a first date is given in the
   month of the effective date and a rolled date comes later in that month, all three
   become the month's last business day; the final check removes one, and the schedule
   begins with the same date twice. The property speaks of seeds at a month's end and of
   first and next-to-last dates in order, so that nothing else can make the duplicate;
   without a first date it holds of these requests.

`findings` in `PROJECT.json` quotes the lines.

## 4. Proofs

All theorems are checked by TLAPS for *every* value of the constants that
satisfies the named assumptions, each proved to the last leaf.

**`LazyNetworkProofs`** (assumes `NetworkAssumption`: the sorts of objects are
disjoint, reading is acyclic; `EvaluateAssumption`: `performCalculations()` yields
a number or throws). `TypeCorrect`, `InvHolds`, `Fresh` (`ResultsFresh`), `Told`
(`ReadersTold`), `FrozenKept` (`FreezePins`).
`ResultsFresh` is not inductive: it speaks of moments between calls, and in the
middle of a notification objects *are* stale. The inductive invariant `Inv` says
why that is harmless. `InputsCurrent` gives, for each input read, the ways in
which its value may be out of date: a loop that has still to reach the reader,
a loop that has still to reach the link in between, or a `recalculate()` that will
notify when it ends. `DescentInv` and `ComputingInv` say that calculations under way
descend in rank and are marked as calculated early, so that a notification
cannot arrive for an object on the stack from one it is about to read;
`CompleteInv` that what counts as calculated has read all its inputs. When the
network is idle no loop is left, and `InputsCurrent` becomes `ResultsFresh`. Each
action has a lemma that it keeps `InputsCurrent`.

Its second half, from the same assumptions: `FromScratchAnswered`
(`AnswersFromScratch`), and `Implements` (`ImplementsOnDemand`), the refinement,
for clients whose links all register (`RegisterModes \subseteq {TRUE}`). `Answer`
and `Watched` are recursive over the network; that they exist is shown by
`Recursion`, over the rank of what an object reads (`AnswerIs`, `WatchedIs`).
`Inv` speaks of what was *read*; that it is what a computation from scratch gives
is shown for the watched object of least rank that would be a counterexample
(`Scratch`). To that come `SeenInv` (a consumer has read only its inputs),
`StackInv` (a calculation was started by the one below it, which reads it),
`QueryInv` (where an inspector's call stands), and `FailedInv`: a call that failed
did so because a computation from scratch would, since if the innermost
calculation throws, each one below it would throw too (`TopThrows`, `AllThrow`).
`AbstractStep` then maps each action to one of `OnDemand` or a stutter.

**`ObserverPatternProofs`** (assumes addresses are positive numbers and the depth
is positive). `TypeCorrect`, `MutuallyRegistered` (`Registered`) and `NobodyMissed`
(`EveryoneTold`), from their conjunction. They need each other: an
address can be used again because `Registered` shows it is in no observer set, and
an observer that ends a registration is no longer owed a call. The order of
addresses matters in `Advance`: nobody owed a call lies between the iterator and
the first observer after it.

**`RTDTimerServerProofs`** (assumes `None` is no topic and no payload). `TypeCorrect`,
`NoTimerLeft` (`NoOrphans`), `UpdatesAnnounced` (`Announced`) and
`CellsOfThisSession` (`ThisSession`), for any number of topics, payloads and threads.
The inductive invariant adds to them what Excel's thread holds in each phase of a
call (`MainInv`), that a callback holds a payload, which is therefore not used again
(`CallbackInv`), that the results of the running session's payloads, and the values
that callbacks are about to store in them, are of this session (`SessionInv`), and
`Announced` for the payload that `ConnectData` has not yet put into the dictionary
(`NewcomerInv`).

**`PiecewiseYieldCurveProofs`** (assumes dates are numbers, helpers finite, the
calendar a function). For any `Behaviour`: `TypeCorrect`, whose content is that
`data_` never has more pillars than there are helpers; and `ReadersHear`
(`Listening`), from `Heard`, which drops "once everybody has been told": a reader of
an unfrozen curve always finds it marked as calculated, or has been told. With
observers that do not read: `CurveFresh` (`Fresh`) and `DateCurrent`
(`ReferenceCurrent`), from `Known`: a relative helper not in `toTell` has today's
schedule; once everybody has been told, what counts as calculated was solved at
today's reference date from the present schedules and quotes; and the reference date
is today's, or about to be asked for, once it has been reset for sure
(`ResetForSure`). If nobody raises, the first notification of a new evaluation date
resets it. If somebody may, the first need not, but it leaves the curve not
calculated; the second then has nobody to tell and nobody to raise. A second one
there is if some helper's schedule follows the evaluation date, which is assumed for
observers that raise; without it `ReferenceCurrent` is false (section 5). Observers that
read are excluded because of the first violation.

**`InstrumentsProofs`** (assumes expiry dates are numbers, engines and leaves are
told apart from the markers). `TypeCorrect`; `EnginesCanBeShared` (`OwnResults`);
`CalculatedIsFresh` (`FreshOrZero`), for any instruments, engines and nesting of
scopes; `Kept` (`FrozenKept`). The invariant behind freshness is `FreshInv`:
`FreshOrZero` is false of the composite while its loop runs, of frozen instruments,
and it does not survive a change of lazy data that were never read. `LeavesGood` adds
that the lazy data behind a valid price have been read, so that their change will be
told; `BasketGood` speaks of the terms summed so far and has each unfrozen component
calculated, so that it will forward. The lemma `ToldFresh` then covers every
change of the market and the settings at once: who is no longer calculated may be
stale, and the others' prices are kept.

**`FixingsProofs`** (assumes batches are sequences of dates and values, histories
functions of dates). Whoever clears what: `DeafByClearing` (`OnlyClearingDeafens`) and
`ReadersHear` (`ReadersTold`). Both rest on `Numbered`: no index has a number beyond
those its name has used, so that an entry made anew is one that nobody has, and
mentioning a name neither cuts an index off nor reconnects one (`MentionHears`).
`CellKept` has the two ways in which a cell stays right: its index hears and its history
is as it was, or the history does not matter. `TypeCorrect` and `RetriesHarmless`
(`RetryHarmless`) are for batches of any length, by induction on how much of a batch has
been stored.

**`ExchangeRatesProofs`** (assumes currencies are finitely many numbers and dates
numbers; that the triangulation currency of a currency has none of its own: in
`ql/currencies/` it is the Euro for all that have one; and that the rates known from
the start are between different currencies). `TypeCorrect`, `PrefersLatest`
(`LatestPreferred`), `FindsEveryChain` (`FindsAChain`) and `RatesExchange`
(`RateIsExchange`), for any rates, links and length of chains. The one invariant,
`Holds`, ties the repository to the log of what was added: for each pair and date the
first entry of the list that is valid is the last of the log that fits. The rest are
facts about any repository. That the recursive functions exist is `Recursion` again:
`Search` forbids one currency more at each call, `LookFor` replaces a currency by its
link, `Exchanged` goes down the tree of a rate (`SmartIs`, `LooksIs`, `ExchangeIs`).
`SmartFinds` goes by how many currencies are not yet forbidden: a search that fails
leaves a set that holds its source and that no valid rate leads out of but to what is
forbidden (`Cut`); one that succeeds returns a rate between its source and the target
(`Between`), so that the target is connected (`Reaches`). `ChainRight` shows
for the four ways two rates can meet that exchange by their chain is right if exchange
by each of them is and they have only one currency in common.

**`ScheduleProofs`** (assumes `CalendarAssumption`, `DayAssumption`: months follow each
other, the calendar begins and ends with business days, and the days that rules name are
in every month; `RoomAssumption`: it goes as far beyond the dates of a request as one
tenor and two main cycles). For every calendar, request and convention: `TypeCorrect`,
`DatesAlwaysIncrease` (`DatesIncrease`), `EndsAlwaysKept` (`EndsKept`), `NoDateLost`
(`NoneLost`) and `FlagsAlwaysTrue` (`FlagsTrue`).

- What adjusting and advancing do to the order of dates is the ground of it:
  `AdjustGrows` (each of the six conventions keeps the order), `NotPassed` (of two dates
  that it keeps apart neither is moved past the other), `AdvanceGrows` (one more tenor is
  later, wherever months end), `NextTwentiethIs`, `PreviousTwentiethIs`.
- `TypeInv` says why no date is looked up off the calendar: while dates are rolled the
  next one is a tenor from the last (`Rolling`), which has not passed the date that
  rolling stops at.
- `DatesIncrease` speaks of finished schedules, and no earlier stage satisfies it.
  `OrderInv` has a formula for each. Of rolled dates, those that were compared when they
  were added are apart after adjustment, and those that were given with the request are
  only not out of order (`BackShape`, `FrontShape`, with what the next comparison needs in
  `BackShapeInv`, `FrontShapeInv`). All dates together (`Shape`) have at most one doubtful
  pair at either end. Adjusting then leaves what the final checks can repair
  (`Repairable`): inner dates increase, and if the date next to an end has to go, the one
  next to that is in order with the end. This is where `EndAhead` is needed: a termination
  date moved back by a convention of its own may pass two dates. What the checks remove is
  never an end (`Ended`).
- `NoneLost` speaks of every rolled date and not only of neighbours, and is vacuous before
  the schedule is built. `TrackInv` follows each from its being rolled: while rolling,
  some date of the schedule is the same after adjustment (`Tracked`; going forward, one
  that is not later, so that the last date cannot be adjusted past it); before adjusting,
  if that date is the last, the convention of the termination date makes no difference or
  makes the rolled date an end too (`Followed`); then it is in the schedule or would
  itself be its end (`NotLost`), and the final checks remove only what is not between the
  ends (`TrimsKeep`). `SameEnd` is needed for the second of these.
- `FlagsTrue` needs for each flag the two dates that its period comes from (`Flagged`):
  a skipped date leaves another in its place that is the same after adjustment only.
  Successive multiples of a tenor are counted from the seed, not from each other, and
  need not be a tenor apart from both sides where months end: `MultiplesApace` shows that
  they are from the one in the longer month or from the other (`AddMonthsBack`).

A lemma `Recursion`, that a function exists whose value at each point depends on what
ranks below it, is proved where recursive functions are reasoned about
(`LazyNetworkProofs`, `ExchangeRatesProofs`), by induction over numbers with the property
as a set.

### Only model-checked

- `CallsReturn` and `Refreshed`: liveness is outside this prover's reach.

Every invariant of a passing run is stated by a theorem.

## 5. What the code does otherwise

Beyond the three violations, some expectations that one may have of this code do not
hold. They are stated in the modules but are not among the runs, all of
whose invariants pass; to see a counterexample, put the formula in place of the
invariants and properties of the configuration named, with the change given.

| Expectation | Where | What happens |
|---|---|---|
| `ErrorsWithdrawn` | `LazyNetwork`, `MCLazyRelink.cfg` | An observer that got an exception from a calculation is not told of the change that makes it possible again: an object that is not calculated forwards nothing (`lazyobject.hpp:104`). |
| `NothingLost` | `RTDTimerServer.cfg` | A result stored between `RefreshData`'s reading `result` and its resetting `IsUpdated` is dropped until the next tick. (`Refreshed` holds: later ticks make up.) |
| `ReferenceCurrent` | `MCCurveObsolete.cfg` with `Behaviour = {"raise"}` | An observer that raises keeps `updated_` from being reset at all. With a date-relative helper the curve is notified once more and recovers, which is why `curve_moving` passes. |
| `SpansPillars` | `MCCurveObsolete.cfg` with `Behaviour = {}` | When a helper expires, `initialize()` resizes the data and leaves `validCurve_` set: the interpolation made for the old number of pillars is used again. |
| `JumpsMeasured` | the same | `PiecewiseYieldCurve::update` replaces `YieldTermStructure::update`, which is where jump times are measured from a new reference date. |
| `ReadersTold` of every index | `MCFixings.cfg`, without the conjunct on `Hears` | Clearing a history drops its observable: readers of the indexes that use it are told neither of the clearing nor of what is stored afterwards. |
| `DatesIncrease` without `Ordered` | `MCSchedule.cfg` | The code does not check that a first date comes before the next-to-last one (`schedule.cpp:123-178`); in the wrong order, both are pushed, and after adjustment dates come twice or out of order. |
| `LatestPreferred` for every currency | `MCExchangeRates.cfg`, `Plain` replaced by `Currency` | A currency with a triangulation currency is exchanged through it even where a direct rate was added, although `exchangeratemanager.hpp:56-58` has direct rates preferred. |
| `DatesIncrease` without `EndAhead` | `MCSchedule.cfg` | A termination date with a convention of its own may be moved back past two rolled dates (daily and unadjusted dates before a holiday that the end precedes); the final check removes one of them (`schedule.cpp:388-398`), and the other comes twice or after the end. |
| `NoneLost`, `FlagsTrue` without `SameEnd` | `MCSchedule.cfg` | Going backward, the dates next to the termination date are compared with it under the convention of the others (`schedule.cpp:228`): one may be lost, and then a period that spans two is flagged as regular. |
| `FlagsTrue` of finished schedules | `MCSchedule.cfg`, `stage = "built"` | The second final check flags the period that is kept, stub or not, with whether the date removed was equal (`schedule.cpp:400`), and writes past the end if one period is left. |

`hazards` in `PROJECT.json` lists them with the rest of what is hard to test in this
code, and the properties that each is covered by.
