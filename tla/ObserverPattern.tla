-------------------------- MODULE ObserverPattern --------------------------
(***************************************************************************)
(* Observers and observables: who is registered with whom, through copies, *)
(* assignments and destruction, and the loop that notifies observers while *)
(* their update() methods register, copy and destroy observers.            *)
(*                                                                         *)
(*   ql/patterns/observable.hpp   Observer, Observable                     *)
(*                                                                         *)
(* An observer is its address: std::set<Observer*> is iterated in address  *)
(* order, and an address is used again after its observer is destroyed.    *)
(*                                                                         *)
(* While a loop runs, the observer it has reached is inside its update(),  *)
(* which may do anything below except end its own registration with the    *)
(* observable being looped over: std::set::erase would invalidate the      *)
(* loop's iterator.  No update() of the library does; Undisturbed is that  *)
(* discipline, the only thing asked of client code.                        *)
(***************************************************************************)
EXTENDS Naturals, Sequences

CONSTANTS
  Observable,    \* objects observers register with, held by shared_ptr
  Observer,      \* addresses an observer may have
  MaxDepth       \* bound: notifyObservers() calls within one another

ASSUME AddressAssumption == Observer \subseteq Nat \ {0}
ASSUME DepthAssumption == MaxDepth \in Nat \ {0}

VARIABLES
  alive,         \* addresses at which an observer exists
  observables,   \* Observer::observables_
  observers,     \* Observable::observers_
  owned,         \* observables the program itself holds a shared_ptr to
  loops          \* stack of notifyObservers() calls

vars == <<alive, observables, observers, owned, loops>>

\* node: the observable; at: the observer being updated, 0 when the loop is
\* about to start; ok: the local `successful'; due: history, the observers
\* registered ever since the loop began that it has not called.
Loop == [node : Observable, at : Observer \cup {0}, ok : BOOLEAN,
         due : SUBSET Observer]

TypeOK ==
  /\ alive \subseteq Observer
  /\ observables \in [Observer -> SUBSET Observable]
  /\ observers \in [Observable -> SUBSET Observer]
  /\ owned \subseteq Observable
  /\ loops \in Seq(Loop)

Init ==
  /\ alive = {}
  /\ observables = [o \in Observer |-> {}]
  /\ observers = [s \in Observable |-> {}]
  /\ owned = {}
  /\ loops = <<>>

\* An observable lives as long as someone holds a shared_ptr to it.
Exists(s) == s \in owned \/ \E o \in Observer : s \in observables[o]

Depth == 1 .. Len(loops)

\* No loop over a member of S has its iterator on o.
Undisturbed(o, S) == \A i \in Depth : loops[i].node \in S => loops[i].at # o

\* No loop runs over s.
Quiet(s) == \A i \in Depth : loops[i].node # s

\* The observers that the running loops owe a call, once o may have gone.
StillDue(o, S) ==
  [i \in Depth |-> IF loops[i].node \in S
                     THEN [loops[i] EXCEPT !.due = @ \ {o}] ELSE loops[i]]

-----------------------------------------------------------------------------
\* Lifetimes

CreateObservable(s) ==
  /\ ~Exists(s)
  /\ owned' = owned \cup {s}
  /\ observers' = [observers EXCEPT ![s] = {}]
  /\ UNCHANGED <<alive, observables, loops>>

\* Observable::Observable(const Observable&): the observer set is not copied.
CopyObservable(s, t) == Exists(t) /\ CreateObservable(s)

\* The program drops its own shared_ptr (never that of a running loop's this).
Release(s) ==
  /\ s \in owned
  /\ Quiet(s)
  /\ owned' = owned \ {s}
  /\ UNCHANGED <<alive, observables, observers, loops>>

CreateObserver(o) ==
  /\ o \notin alive
  /\ alive' = alive \cup {o}
  /\ observables' = [observables EXCEPT ![o] = {}]
  /\ UNCHANGED <<observers, owned, loops>>

\* Slip: the defaulted copy constructor copies observables_ and no more.
CopyObserverShallow(o, p) ==
  /\ o \notin alive
  /\ p \in alive
  /\ alive' = alive \cup {o}
  /\ observables' = [observables EXCEPT ![o] = observables[p]]
  /\ UNCHANGED <<observers, owned, loops>>

\* Observer::Observer(const Observer&)
CopyObserver(o, p) ==
  /\ o \notin alive
  /\ p \in alive
  /\ alive' = alive \cup {o}
  /\ observables' = [observables EXCEPT ![o] = observables[p]]
  /\ observers' = [s \in Observable |-> IF s \in observables[p]
                                          THEN observers[s] \cup {o} ELSE observers[s]]
  /\ UNCHANGED <<owned, loops>>

\* Unregistering must not take away the last shared_ptr to a loop's observable.
Held(o, S) == \A s \in S : Quiet(s) \/ s \in owned \/
                           \E p \in Observer \ {o} : s \in observables[p]

\* Observer::operator=: leave the old observables, join the other's.
AssignObserver(o, p) ==
  /\ {o, p} \subseteq alive
  /\ Undisturbed(o, observables[o])
  /\ Held(o, observables[o] \ observables[p])
  /\ observables' = [observables EXCEPT ![o] = observables[p]]
  /\ observers' = [s \in Observable |-> IF s \in observables[p]
                                          THEN observers[s] \cup {o}
                                          ELSE observers[s] \ {o}]
  /\ loops' = StillDue(o, observables[o] \ observables[p])
  /\ UNCHANGED <<alive, owned>>

\* Observer::~Observer
DestroyObserver(o) ==
  /\ o \in alive
  /\ Undisturbed(o, observables[o])
  /\ Held(o, observables[o])
  /\ alive' = alive \ {o}
  /\ observables' = [observables EXCEPT ![o] = {}]
  /\ observers' = [s \in Observable |-> IF s \in observables[o]
                                          THEN observers[s] \ {o} ELSE observers[s]]
  /\ loops' = StillDue(o, observables[o])
  /\ UNCHANGED owned

-----------------------------------------------------------------------------
\* Registration

RegisterWith(o, s) ==
  /\ o \in alive
  /\ Exists(s)
  /\ observers' = [observers EXCEPT ![s] = @ \cup {o}]
  /\ observables' = [observables EXCEPT ![o] = @ \cup {s}]
  /\ UNCHANGED <<alive, owned, loops>>

UnregisterWith(o, s) ==
  /\ o \in alive
  /\ Exists(s)
  /\ Undisturbed(o, {s})
  /\ Held(o, {s})
  /\ observers' = [observers EXCEPT ![s] = @ \ {o}]
  /\ observables' = [observables EXCEPT ![o] = @ \ {s}]
  /\ loops' = StillDue(o, {s})
  /\ UNCHANGED <<alive, owned>>

UnregisterWithAll(o) ==
  /\ o \in alive
  /\ Undisturbed(o, observables[o])
  /\ Held(o, observables[o])
  /\ observers' = [s \in Observable |-> IF s \in observables[o]
                                          THEN observers[s] \ {o} ELSE observers[s]]
  /\ observables' = [observables EXCEPT ![o] = {}]
  /\ loops' = StillDue(o, observables[o])
  /\ UNCHANGED <<alive, owned>>

-----------------------------------------------------------------------------
\* Observable::notifyObservers, and operator= which calls it

Notify(s) ==
  /\ Exists(s)
  /\ Len(loops) < MaxDepth
  /\ loops' = Append(loops, [node |-> s, at |-> 0, ok |-> TRUE,
                             due |-> observers[s]])
  /\ UNCHANGED <<alive, observables, observers, owned>>

Top == loops[Len(loops)]

\* The observers the innermost loop has not reached.
Ahead == {o \in observers[Top.node] : o > Top.at}

\* The first of them.
Following(o) == o \in Ahead /\ \A p \in Ahead : o <= p

\* No update() has raised before the first is called.
MayRaise(ok) == ok \/ Top.at # 0

\* Slip: an exception of update() ends the loop.
AdvanceUncaught(ok) ==
  /\ loops # <<>>
  /\ MayRaise(ok)
  /\ \E o \in Observer :
       /\ IF ok THEN Following(o) ELSE \A p \in Observer : p <= o
       /\ loops' = [loops EXCEPT ![Len(loops)] =
                      [Top EXCEPT !.at = o, !.ok = @ /\ ok, !.due = @ \ {o}]]
  /\ UNCHANGED <<alive, observables, observers, owned>>

\* Slip: the iterator is moved on twice.
AdvanceTwice(ok) ==
  /\ loops # <<>>
  /\ MayRaise(ok)
  /\ \E o \in Ahead :
       /\ Following(o)
       /\ loops' = [loops EXCEPT ![Len(loops)] =
                      [Top EXCEPT !.at = o + 1, !.ok = @ /\ ok, !.due = @ \ {o}]]
  /\ UNCHANGED <<alive, observables, observers, owned>>

\* update() of the observer at the iterator has returned, or raised; the
\* iterator moves on, and calls update() of the observer it finds.
Advance(ok) ==
  /\ loops # <<>>
  /\ MayRaise(ok)
  /\ \E o \in Ahead :
       /\ Following(o)
       /\ loops' = [loops EXCEPT ![Len(loops)] =
                      [Top EXCEPT !.at = o, !.ok = @ /\ ok, !.due = @ \ {o}]]
  /\ UNCHANGED <<alive, observables, observers, owned>>

\* Past the last observer: QL_ENSURE(successful) returns into the update()
\* that called, or raises in it.
EndLoop(ok) ==
  /\ loops # <<>>
  /\ MayRaise(ok)
  /\ Ahead = {}
  /\ LET below == Len(loops) - 1
         rest  == SubSeq(loops, 1, below)
     IN  loops' = IF below > 0 /\ ~(Top.ok /\ ok)
                    THEN [rest EXCEPT ![below].ok = FALSE] ELSE rest
  /\ UNCHANGED <<alive, observables, observers, owned>>

Next ==
  \/ \E s, t \in Observable : CopyObservable(s, t)
  \/ \E s \in Observable : CreateObservable(s) \/ Release(s) \/ Notify(s)
  \/ \E o, p \in Observer : CopyObserver(o, p) \/ AssignObserver(o, p)
  \/ \E o \in Observer :
       CreateObserver(o) \/ DestroyObserver(o) \/ UnregisterWithAll(o)
  \/ \E o \in Observer : \E s \in Observable : RegisterWith(o, s) \/ UnregisterWith(o, s)
  \/ \E ok \in BOOLEAN : Advance(ok) \/ EndLoop(ok)

Spec == Init /\ [][Next]_vars

-----------------------------------------------------------------------------
(***************************************************************************)
(* The two sides of a registration agree, through copies, assignments and  *)
(* destruction: in particular observers_ holds no pointer to an observer   *)
(* that is gone, and an observable that is gone leaves no registration.    *)
(***************************************************************************)
Registered ==
  \A o \in Observer : \A s \in Observable :
    /\ o \in observers[s] <=> s \in observables[o]
    /\ s \in observables[o] => o \in alive /\ Exists(s)

(***************************************************************************)
(* When a loop ends it has called every observer that was registered from  *)
(* its start to its end, whoever raised, registered, copied or vanished in *)
(* the meantime; and while it runs its iterator is on a registered, live   *)
(* observer.                                                               *)
(***************************************************************************)
EveryoneTold ==
  \A i \in Depth :
    /\ \A o \in loops[i].due : o > loops[i].at /\ o \in observers[loops[i].node]
    /\ loops[i].at # 0 => loops[i].at \in observers[loops[i].node] \cap alive
=============================================================================
