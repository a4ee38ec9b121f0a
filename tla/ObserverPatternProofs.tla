----------------------- MODULE ObserverPatternProofs -----------------------
(***************************************************************************)
(* Registrations stay mutual and notification loops miss nobody, for every *)
(* number of observers and observables and every nesting of loops.         *)
(***************************************************************************)
EXTENDS ObserverPattern, SequenceTheorems, TLAPS

(***************************************************************************)
(* Sequences as stacks of activations, their last element on top           *)
(***************************************************************************)

\* Pushing onto a stack keeps what is below.
LEMMA Push ==
  ASSUME NEW S, NEW s \in Seq(S), NEW e \in S
  PROVE  /\ Append(s, e) \in Seq(S)
         /\ Len(Append(s, e)) = Len(s) + 1
         /\ Append(s, e)[Len(s) + 1] = e
         /\ \A i \in 1 .. Len(s) : Append(s, e)[i] = s[i]
OBVIOUS

\* Popping a stack keeps what is below.
LEMMA Pop ==
  ASSUME NEW S, NEW s \in Seq(S), s # <<>>
  PROVE  /\ SubSeq(s, 1, Len(s) - 1) \in Seq(S)
         /\ Len(SubSeq(s, 1, Len(s) - 1)) = Len(s) - 1
         /\ \A i \in 1 .. Len(s) - 1 : SubSeq(s, 1, Len(s) - 1)[i] = s[i]
<1>1. Len(s) \in Nat \ {0} /\ \A i \in 1 .. Len(s) - 1 : s[i] \in S
  BY EmptySeq, ElementOfSeq
<1>. DEFINE n == Len(s) - 1
           t == SubSeq(s, 1, n)
<1>2. n \in Nat /\ \A i \in 1 .. n : s[i] \in S
  BY <1>1
<1>3. /\ t \in Seq(S)
      /\ Len(t) = IF 1 <= n THEN n - 1 + 1 ELSE 0
      /\ \A i \in 1 .. n - 1 + 1 : t[i] = s[1 + i - 1]
  <2>. HIDE DEF n
  <2>. QED  BY <1>2, SubSeqProperties
<1>4. Len(t) = n /\ \A i \in 1 .. n : t[i] = s[i]
  <2>. HIDE DEF n, t
  <2>. QED  BY <1>2, <1>3
<1>5. QED
  <2>. HIDE DEF t
  <2>. t \in Seq(S) /\ Len(t) = Len(s) - 1 /\ \A i \in 1 .. Len(s) - 1 : t[i] = s[i]
    BY <1>3, <1>4
  <2>. QED  BY DEF t

\* Changing the top of a stack keeps what is below.
LEMMA SetTop ==
  ASSUME NEW S, NEW s \in Seq(S), NEW k \in 1 .. Len(s), NEW e \in S
  PROVE  /\ [s EXCEPT ![k] = e] \in Seq(S)
         /\ Len([s EXCEPT ![k] = e]) = Len(s)
         /\ [s EXCEPT ![k] = e][k] = e
         /\ \A i \in 1 .. Len(s) : i # k => [s EXCEPT ![k] = e][i] = s[i]
OBVIOUS

\* A stack that is not empty has a top.
LEMMA HasTop ==
  ASSUME NEW S, NEW s \in Seq(S), s # <<>>
  PROVE  Len(s) \in 1 .. Len(s) /\ s[Len(s)] \in S
OBVIOUS

-----------------------------------------------------------------------------

\* The three invariants rest on each other: Registered shows that an address
\* to be used again is in no set a loop runs over.
Inv == TypeOK /\ Registered /\ EveryoneTold

-----------------------------------------------------------------------------
(* The stack of loops. *)

\* Iterators start below every address.
LEMMA AddressesPositive ==
  ASSUME NEW o \in Observer
  PROVE  o \in Nat /\ o > 0
BY AddressAssumption

\* Every loop runs over an observable.
LEMMA NodeType ==
  ASSUME TypeOK, NEW i \in Depth
  PROVE  loops[i].node \in Observable
<1>1. loops[i] \in Loop
  BY DEF TypeOK, Depth
<1>2. QED  BY <1>1 DEF Loop

\* The running loop and the two things an action does to it keep its type.
LEMMA TopType ==
  ASSUME TypeOK, loops # <<>>
  PROVE  /\ Len(loops) \in Depth
         /\ Top \in Loop
         /\ Top.node \in Observable /\ Top.at \in Observer \cup {0}
         /\ Top.ok \in BOOLEAN /\ Top.due \in SUBSET Observer
<1>1. Len(loops) \in 1 .. Len(loops) /\ loops[Len(loops)] \in Loop
  BY HasTop DEF TypeOK
<1>2. QED
  BY <1>1 DEF Depth, Top, Loop

\* StillDue takes o off what loops over S owe, and changes nothing else.
LEMMA StillDueType ==
  ASSUME TypeOK, NEW o \in Observer, NEW S
  PROVE  /\ StillDue(o, S) \in Seq(Loop)
         /\ Len(StillDue(o, S)) = Len(loops)
         /\ \A i \in Depth :
              /\ StillDue(o, S)[i].node = loops[i].node
              /\ StillDue(o, S)[i].at = loops[i].at
              /\ StillDue(o, S)[i].due =
                   IF loops[i].node \in S THEN loops[i].due \ {o} ELSE loops[i].due
<1> DEFINE e(i) == IF loops[i].node \in S
                     THEN [loops[i] EXCEPT !.due = @ \ {o}] ELSE loops[i]
<1>1. \A i \in Depth :
        /\ e(i) \in Loop
        /\ e(i).node = loops[i].node
        /\ e(i).at = loops[i].at
        /\ e(i).due = IF loops[i].node \in S THEN loops[i].due \ {o} ELSE loops[i].due
  <2> SUFFICES ASSUME NEW i \in Depth
               PROVE  /\ e(i) \in Loop
                      /\ e(i).node = loops[i].node
                      /\ e(i).at = loops[i].at
                      /\ e(i).due = IF loops[i].node \in S
                                      THEN loops[i].due \ {o} ELSE loops[i].due
    OBVIOUS
  <2>1. loops[i] \in Loop
    BY DEF TypeOK, Depth
  <2>2. QED
    BY <2>1 DEF Loop
<1>2. StillDue(o, S) = [i \in 1 .. Len(loops) |-> e(i)]
  BY DEF StillDue, Depth
<1>3. Len(loops) \in Nat
  BY DEF TypeOK
<1>4. QED
  <2>1. \A i \in 1 .. Len(loops) : e(i) \in Loop
    BY <1>1 DEF Depth
  <2>2. \A i \in Depth : StillDue(o, S)[i] = e(i)
    BY <1>2 DEF Depth
  <2>3. StillDue(o, S) \in Seq(Loop) /\ Len(StillDue(o, S)) = Len(loops)
    <3>. HIDE DEF e
    <3>. QED  BY <1>2, <1>3, <2>1
  <2>4. QED
    <3>. HIDE DEF e
    <3>. QED  BY <1>1, <2>2, <2>3

-----------------------------------------------------------------------------
(* What the loops say, after a change of the registrations. *)

\* A change that ends no registration and no life disturbs no loop.
LEMMA LoopsUndisturbed ==
  ASSUME Inv, UNCHANGED loops,
         alive \subseteq alive',
         \A s \in Observable : observers[s] \subseteq observers'[s]
  PROVE  EveryoneTold'
<1> SUFFICES ASSUME NEW i \in Depth
             PROVE  /\ \A o \in loops[i].due :
                         o > loops[i].at /\ o \in observers'[loops[i].node]
                    /\ loops[i].at # 0 => loops[i].at \in observers'[loops[i].node] \cap alive'
  BY DEF EveryoneTold, Depth
<1>1. loops[i].node \in Observable
  BY NodeType DEF Inv
<1>2. QED
  BY <1>1 DEF Inv, EveryoneTold

\* Ending the registrations of o with the observables of S, none of whose loops
\* is at o, takes nothing from any loop but the call it owed to o.
LEMMA LoopsReleased ==
  ASSUME Inv, NEW o \in Observer, NEW S,
         loops' = StillDue(o, S),
         Undisturbed(o, S),
         alive \ {o} \subseteq alive',
         o \in alive' \/ \A s \in Observable : o \in observers[s] => s \in S,
         \A s \in Observable : observers[s] \ {o} \subseteq observers'[s],
         \A s \in Observable : s \notin S => observers[s] \subseteq observers'[s]
  PROVE  EveryoneTold'
<1>1. /\ Len(loops') = Len(loops)
      /\ \A i \in Depth : /\ loops'[i].node = loops[i].node
                          /\ loops'[i].at = loops[i].at
                          /\ loops'[i].due = IF loops[i].node \in S
                                               THEN loops[i].due \ {o} ELSE loops[i].due
  <2>1. TypeOK
    BY DEF Inv
  <2>2. /\ Len(StillDue(o, S)) = Len(loops)
        /\ \A i \in Depth :
             /\ StillDue(o, S)[i].node = loops[i].node
             /\ StillDue(o, S)[i].at = loops[i].at
             /\ StillDue(o, S)[i].due = IF loops[i].node \in S
                                         THEN loops[i].due \ {o} ELSE loops[i].due
    BY <2>1, StillDueType
  <2>3. QED
    BY <2>2, Zenon
<1> SUFFICES ASSUME NEW i \in Depth
             PROVE  /\ \A p \in loops'[i].due :
                         p > loops'[i].at /\ p \in observers'[loops'[i].node]
                    /\ loops'[i].at # 0 =>
                         loops'[i].at \in observers'[loops'[i].node] \cap alive'
  BY <1>1 DEF EveryoneTold, Depth
<1>2. loops[i].node \in Observable
  BY NodeType DEF Inv
<1>3. \A p \in loops'[i].due :
        p > loops'[i].at /\ p \in observers'[loops'[i].node]
  BY <1>1, <1>2 DEF Inv, EveryoneTold
<1>4. loops[i].node \in S => loops[i].at # o
  BY DEF Undisturbed
<1>5. loops[i].at # 0 => loops[i].at \in observers[loops[i].node] \cap alive
  BY DEF Inv, EveryoneTold
<1>6. ASSUME loops[i].at # 0
      PROVE  loops[i].at \in observers'[loops[i].node] \cap alive'
  <2>1. CASE loops[i].at = o
    BY <1>2, <1>4, <1>5, <1>6, <2>1
  <2>2. CASE loops[i].at # o
    BY <1>2, <1>5, <1>6, <2>2
  <2>3. QED  BY <2>1, <2>2
<1>7. QED
  BY <1>1, <1>3, <1>6

-----------------------------------------------------------------------------
(* Each action keeps the invariant. *)

LEMMA CreateObservableKeeps ==
  ASSUME Inv, NEW s \in Observable, CreateObservable(s)
  PROVE  Inv'
<1>1. TypeOK'
  BY DEF Inv, TypeOK, CreateObservable
<1>2. observers[s] = {}
  BY DEF Inv, TypeOK, Registered, CreateObservable
<1>3. UNCHANGED observers
  BY <1>2 DEF Inv, TypeOK, CreateObservable
<1>4. Registered'
  BY <1>3 DEF Inv, Registered, CreateObservable, Exists
<1>5. EveryoneTold'
  BY <1>3, LoopsUndisturbed DEF CreateObservable
<1>6. QED  BY <1>1, <1>4, <1>5 DEF Inv

LEMMA ReleaseKeeps ==
  ASSUME Inv, NEW s \in Observable, Release(s)
  PROVE  Inv'
<1>1. TypeOK'
  BY DEF Inv, TypeOK, Release
<1>2. Registered'
  BY DEF Inv, Registered, Release, Exists
<1>3. EveryoneTold'
  BY LoopsUndisturbed DEF Release
<1>4. QED  BY <1>1, <1>2, <1>3 DEF Inv

LEMMA CreateObserverKeeps ==
  ASSUME Inv, NEW o \in Observer, CreateObserver(o)
  PROVE  Inv'
<1>1. TypeOK'
  BY DEF Inv, TypeOK, CreateObserver
<1>2. UNCHANGED observables
  BY DEF Inv, TypeOK, Registered, CreateObserver
<1>3. Registered'
  BY <1>2 DEF Inv, Registered, CreateObserver, Exists
<1>4. EveryoneTold'
  BY LoopsUndisturbed DEF CreateObserver
<1>5. QED  BY <1>1, <1>3, <1>4 DEF Inv

LEMMA CopyObserverKeeps ==
  ASSUME Inv, NEW o \in Observer, NEW p \in Observer, CopyObserver(o, p)
  PROVE  Inv'
<1>1. TypeOK'
  BY DEF Inv, TypeOK, CopyObserver
<1>2. \A q \in Observer : observables'[q] = IF q = o THEN observables[p] ELSE observables[q]
  BY DEF Inv, TypeOK, CopyObserver
<1>3. \A s \in Observable :
        observers'[s] = IF s \in observables[p] THEN observers[s] \cup {o} ELSE observers[s]
  BY DEF CopyObserver
<1>4. \A s \in Observable : o \notin observers[s]
  BY DEF Inv, Registered, CopyObserver
<1>5. \A s \in Observable : Exists(s) => Exists(s)'
  BY <1>2 DEF Exists, CopyObserver, Inv, Registered
<1>6. Registered'
  BY <1>2, <1>3, <1>4, <1>5 DEF Inv, Registered, CopyObserver
<1>7. EveryoneTold'
  BY <1>3, LoopsUndisturbed DEF CopyObserver
<1>8. QED  BY <1>1, <1>6, <1>7 DEF Inv

LEMMA RegisterKeeps ==
  ASSUME Inv, NEW o \in Observer, NEW s \in Observable, RegisterWith(o, s)
  PROVE  Inv'
<1>1. TypeOK'
  BY DEF Inv, TypeOK, RegisterWith
<1>2. \A q \in Observer :
        observables'[q] = IF q = o THEN observables[q] \cup {s} ELSE observables[q]
  BY DEF Inv, TypeOK, RegisterWith
<1>3. \A t \in Observable :
        observers'[t] = IF t = s THEN observers[t] \cup {o} ELSE observers[t]
  BY DEF Inv, TypeOK, RegisterWith
<1>4. \A t \in Observable : Exists(t) => Exists(t)'
  BY <1>2 DEF Exists, RegisterWith
<1>5. Registered'
  BY <1>2, <1>3, <1>4 DEF Inv, Registered, RegisterWith
<1>6. EveryoneTold'
  BY <1>3, LoopsUndisturbed DEF RegisterWith
<1>7. QED  BY <1>1, <1>5, <1>6 DEF Inv

\* The actions that end registrations of o with the observables of S.
LEMMA EndingKeeps ==
  ASSUME Inv, NEW o \in Observer, NEW S \in SUBSET Observable,
         alive' \subseteq Observer,
         alive \ {o} \subseteq alive',
         o \in alive' \/ observables[o] \subseteq S,
         \A q \in Observer : q # o => observables'[q] = observables[q],
         observables' \in [Observer -> SUBSET Observable],
         observers' \in [Observable -> SUBSET Observer],
         UNCHANGED owned,
         loops' = StillDue(o, S),
         Undisturbed(o, S),
         \A s \in Observable :
           /\ observers'[s] \ {o} = observers[s] \ {o}
           /\ o \in observers'[s] <=> s \in observables'[o]
           /\ s \in observables[o] /\ s \notin S => s \in observables'[o]
           /\ s \in observables'[o] => o \in alive' /\ Exists(s)
  PROVE  Inv'
<1>1. TypeOK'
  BY StillDueType DEF Inv, TypeOK
<1>2. \A s \in Observable : Exists(s)' <=> s \in owned \/ \E q \in Observer : s \in observables'[q]
  BY DEF Exists
<1>3. Registered'
  <2> SUFFICES ASSUME NEW q \in Observer, NEW s \in Observable
               PROVE  /\ q \in observers'[s] <=> s \in observables'[q]
                      /\ s \in observables'[q] => q \in alive' /\ Exists(s)'
    BY DEF Registered
  <2>1. CASE q = o
    BY <1>2, <2>1
  <2>2. CASE q # o
    BY <1>2, <2>2 DEF Inv, Registered
  <2>3. QED  BY <2>1, <2>2
<1>4. EveryoneTold'
  <2>1. \A s \in Observable : o \in observers[s] <=> s \in observables[o]
    BY DEF Inv, Registered
  <2>2. \A s \in Observable : s \notin S => observers[s] \subseteq observers'[s]
    BY <2>1
  <2>3. \A s \in Observable : observers[s] \ {o} \subseteq observers'[s]
    OBVIOUS
  <2>4. o \in alive' \/ \A s \in Observable : o \in observers[s] => s \in S
    BY <2>1
  <2>5. QED
    BY <2>2, <2>3, <2>4, LoopsReleased
<1>5. QED  BY <1>1, <1>3, <1>4 DEF Inv

LEMMA AssignKeeps ==
  ASSUME Inv, NEW o \in Observer, NEW p \in Observer, AssignObserver(o, p)
  PROVE  Inv'
<1> DEFINE S == observables[o] \ observables[p]
<1>1. /\ observables' \in [Observer -> SUBSET Observable]
      /\ \A q \in Observer : observables'[q] = IF q = o THEN observables[p] ELSE observables[q]
  BY DEF Inv, TypeOK, AssignObserver
<1>2. /\ observers' \in [Observable -> SUBSET Observer]
      /\ \A s \in Observable :
           observers'[s] = IF s \in observables[p] THEN observers[s] \cup {o} ELSE observers[s] \ {o}
  BY DEF Inv, TypeOK, AssignObserver
<1>3. Undisturbed(o, S)
  BY DEF AssignObserver, Undisturbed
<1>4. \A s \in Observable :
        /\ observers'[s] \ {o} = observers[s] \ {o}
        /\ o \in observers'[s] <=> s \in observables'[o]
        /\ s \in observables[o] /\ s \notin S => s \in observables'[o]
        /\ s \in observables'[o] => o \in alive' /\ Exists(s)
  <2>1. \A s \in Observable : s \in observables[p] => Exists(s)
    BY DEF Exists
  <2>2. observables'[o] = observables[p] /\ o \in alive'
    BY <1>1 DEF AssignObserver
  <2>3. QED
    BY <1>2, <2>1, <2>2
<1>5. /\ alive' = alive /\ alive \subseteq Observer /\ o \in alive
      /\ loops' = StillDue(o, S) /\ UNCHANGED owned
  BY DEF AssignObserver, Inv, TypeOK
<1>6. S \in SUBSET Observable
  BY DEF Inv, TypeOK
<1>7. QED
  <2>. HIDE DEF S
  <2>. QED  BY <1>1, <1>2, <1>3, <1>4, <1>5, <1>6, EndingKeeps

LEMMA DestroyKeeps ==
  ASSUME Inv, NEW o \in Observer, DestroyObserver(o)
  PROVE  Inv'
<1>1. /\ observables' \in [Observer -> SUBSET Observable]
      /\ \A q \in Observer : observables'[q] = IF q = o THEN {} ELSE observables[q]
  BY DEF Inv, TypeOK, DestroyObserver
<1>2. /\ observers' \in [Observable -> SUBSET Observer]
      /\ \A s \in Observable :
           observers'[s] = IF s \in observables[o] THEN observers[s] \ {o} ELSE observers[s]
  BY DEF Inv, TypeOK, DestroyObserver
<1>3. \A s \in Observable : o \in observers[s] <=> s \in observables[o]
  BY DEF Inv, Registered
<1>4. QED
  BY <1>1, <1>2, <1>3, EndingKeeps DEF DestroyObserver, Inv, TypeOK

LEMMA UnregisterKeeps ==
  ASSUME Inv, NEW o \in Observer, NEW s \in Observable, UnregisterWith(o, s)
  PROVE  Inv'
<1>1. /\ observables' \in [Observer -> SUBSET Observable]
      /\ \A q \in Observer : observables'[q] = IF q = o THEN observables[q] \ {s} ELSE observables[q]
  BY DEF Inv, TypeOK, UnregisterWith
<1>2. /\ observers' \in [Observable -> SUBSET Observer]
      /\ \A t \in Observable :
           observers'[t] = IF t = s THEN observers[t] \ {o} ELSE observers[t]
  BY DEF Inv, TypeOK, UnregisterWith
<1>3. \A t \in Observable :
        /\ o \in observers[t] <=> t \in observables[o]
        /\ t \in observables[o] => Exists(t)
  BY DEF Inv, Registered
<1>4. \A t \in Observable :
        /\ observers'[t] \ {o} = observers[t] \ {o}
        /\ o \in observers'[t] <=> t \in observables'[o]
        /\ t \in observables[o] /\ t \notin {s} => t \in observables'[o]
        /\ t \in observables'[o] => o \in alive' /\ Exists(t)
  <2> SUFFICES ASSUME NEW t \in Observable
               PROVE  /\ observers'[t] \ {o} = observers[t] \ {o}
                      /\ o \in observers'[t] <=> t \in observables'[o]
                      /\ t \in observables[o] /\ t \notin {s} => t \in observables'[o]
                      /\ t \in observables'[o] => o \in alive' /\ Exists(t)
    OBVIOUS
  <2>1. observers'[t] \ {o} = observers[t] \ {o}
    BY <1>2
  <2>2. observables'[o] = observables[o] \ {s}
    BY <1>1
  <2>3. o \in observers'[t] <=> t \in observables'[o]
    BY <1>2, <1>3, <2>2
  <2>4. t \in observables'[o] => o \in alive' /\ Exists(t)
    BY <1>3, <2>2 DEF UnregisterWith
  <2>5. QED
    BY <2>1, <2>2, <2>3, <2>4
<1>5. /\ alive' = alive /\ alive \subseteq Observer /\ o \in alive
      /\ loops' = StillDue(o, {s}) /\ Undisturbed(o, {s}) /\ UNCHANGED owned
  BY DEF UnregisterWith, Inv, TypeOK
<1>6. {s} \in SUBSET Observable
  OBVIOUS
<1>7. QED
  BY <1>1, <1>2, <1>4, <1>5, <1>6, EndingKeeps

LEMMA UnregisterAllKeeps ==
  ASSUME Inv, NEW o \in Observer, UnregisterWithAll(o)
  PROVE  Inv'
<1>1. /\ observables' \in [Observer -> SUBSET Observable]
      /\ \A q \in Observer : observables'[q] = IF q = o THEN {} ELSE observables[q]
  BY DEF Inv, TypeOK, UnregisterWithAll
<1>2. /\ observers' \in [Observable -> SUBSET Observer]
      /\ \A s \in Observable :
           observers'[s] = IF s \in observables[o] THEN observers[s] \ {o} ELSE observers[s]
  BY DEF Inv, TypeOK, UnregisterWithAll
<1>3. \A s \in Observable : o \in observers[s] <=> s \in observables[o]
  BY DEF Inv, Registered
<1>4. QED
  BY <1>1, <1>2, <1>3, EndingKeeps DEF UnregisterWithAll, Inv, TypeOK

LEMMA NotifyKeeps ==
  ASSUME Inv, NEW s \in Observable, Notify(s)
  PROVE  Inv'
<1> DEFINE new == [node |-> s, at |-> 0, ok |-> TRUE, due |-> observers[s]]
<1>1. loops \in Seq(Loop) /\ new \in Loop
  BY DEF Inv, TypeOK, Loop
<1>2. /\ loops' \in Seq(Loop) /\ Len(loops') = Len(loops) + 1
      /\ loops'[Len(loops) + 1] = new
      /\ \A i \in Depth : loops'[i] = loops[i]
  <2>. loops' = Append(loops, new)
    BY DEF Notify
  <2>. HIDE DEF new
  <2>. QED  BY <1>1, Push DEF Depth
<1>3. TypeOK'
  BY <1>2 DEF Inv, TypeOK, Notify
<1>4. Registered'
  BY DEF Inv, Registered, Notify, Exists
<1>5. EveryoneTold'
  <2> SUFFICES ASSUME NEW i \in Depth'
               PROVE  /\ \A o \in loops'[i].due :
                           o > loops'[i].at /\ o \in observers[loops'[i].node]
                      /\ loops'[i].at # 0 =>
                           loops'[i].at \in observers[loops'[i].node] \cap alive
    BY DEF EveryoneTold, Notify
  <2>1. CASE i \in Depth
    BY <1>2, <2>1 DEF Inv, EveryoneTold
  <2>2. CASE i \notin Depth
    <3>1. i = Len(loops) + 1
      BY <1>1, <1>2, <2>2 DEF Depth
    <3>2. \A o \in observers[s] : o \in Observer
      BY DEF Inv, TypeOK
    <3>3. loops'[i].node = s /\ loops'[i].at = 0 /\ loops'[i].due = observers[s]
      BY <1>2, <3>1
    <3>4. \A o \in observers[s] : o > 0
      BY <3>2, AddressesPositive
    <3>5. QED
      BY <3>3, <3>4
  <2>3. QED  BY <2>1, <2>2
<1>6. QED  BY <1>3, <1>4, <1>5 DEF Inv

LEMMA AdvanceKeeps ==
  ASSUME Inv, NEW ok \in BOOLEAN, Advance(ok)
  PROVE  Inv'
<1>1. PICK o \in Ahead :
        /\ Following(o)
        /\ loops' = [loops EXCEPT ![Len(loops)] =
                       [Top EXCEPT !.at = o, !.ok = @ /\ ok, !.due = @ \ {o}]]
  BY DEF Advance
<1> DEFINE top == Len(loops)
           e   == [Top EXCEPT !.at = o, !.ok = @ /\ ok, !.due = @ \ {o}]
<1>2. top \in Depth /\ Top \in Loop /\ Top.node \in Observable
  BY TopType DEF Advance, Inv
<1>3. o \in Observer /\ o \in observers[Top.node] /\ \A p \in Ahead : o <= p
  BY <1>1, <1>2 DEF Ahead, Following, Inv, TypeOK
<1>4. e \in Loop /\ e.node = Top.node /\ e.at = o /\ e.due = Top.due \ {o}
  BY <1>2, <1>3 DEF Loop
<1>5. /\ loops' \in Seq(Loop) /\ Len(loops') = Len(loops) /\ loops'[top] = e
      /\ \A i \in Depth : i # top => loops'[i] = loops[i]
  <2>1. loops' = [loops EXCEPT ![top] = e]
    BY <1>1
  <2>2. loops \in Seq(Loop)
    BY DEF Inv, TypeOK
  <2>3. QED
    <3>. HIDE DEF e
    <3>. QED  BY <1>2, <1>4, <2>1, <2>2, SetTop DEF Depth
<1>6. TypeOK'
  BY <1>5 DEF Inv, TypeOK, Advance
<1>7. Registered'
  BY DEF Inv, Registered, Advance, Exists
<1>8. EveryoneTold'
  <2> SUFFICES ASSUME NEW i \in Depth
               PROVE  /\ \A p \in loops'[i].due :
                           p > loops'[i].at /\ p \in observers[loops'[i].node]
                      /\ loops'[i].at # 0 =>
                           loops'[i].at \in observers[loops'[i].node] \cap alive
    BY <1>5 DEF EveryoneTold, Depth, Advance
  <2>1. CASE i # top
    BY <1>5, <2>1 DEF Inv, EveryoneTold
  <2>2. CASE i = top
    <3>1. \A p \in Top.due : p > Top.at /\ p \in observers[Top.node]
      BY <1>2 DEF Inv, EveryoneTold, Top
    <3>2. \A p \in e.due : p \in Ahead /\ p # o /\ p \in Observer
      BY <1>2, <1>4, <3>1 DEF Ahead, Inv, TypeOK
    <3>3. \A p \in e.due : p > o
      BY <1>3, <3>2, AddressAssumption
    <3>4. o \in alive
      BY <1>2, <1>3 DEF Inv, Registered
    <3>5. QED
      BY <1>3, <1>4, <1>5, <2>2, <3>1, <3>3, <3>4
  <2>3. QED  BY <2>1, <2>2
<1>9. QED  BY <1>6, <1>7, <1>8 DEF Inv

LEMMA EndLoopKeeps ==
  ASSUME Inv, NEW ok \in BOOLEAN, EndLoop(ok)
  PROVE  Inv'
<1> DEFINE below == Len(loops) - 1
           rest  == SubSeq(loops, 1, below)
           e     == [rest[below] EXCEPT !.ok = FALSE]
<1>1. /\ rest \in Seq(Loop) /\ Len(rest) = below /\ below \in Nat
      /\ \A i \in 1 .. below : rest[i] = loops[i]
  BY Pop, HasTop DEF Inv, TypeOK, EndLoop
<1>2. /\ loops' \in Seq(Loop) /\ Len(loops') = below
      /\ \A i \in 1 .. below : /\ loops'[i].node = loops[i].node
                              /\ loops'[i].at = loops[i].at
                              /\ loops'[i].due = loops[i].due
  <2>1. CASE loops' = rest
    <3>. HIDE DEF rest, below
    <3>. QED  BY <1>1, <2>1
  <2>2. CASE below > 0 /\ loops' = [rest EXCEPT ![below].ok = FALSE]
    <3>1. below \in 1 .. Len(rest) /\ rest[below] \in Loop
      BY <1>1, <2>2
    <3>2. e \in Loop /\ e.node = rest[below].node /\ e.at = rest[below].at
                     /\ e.due = rest[below].due
      BY <3>1 DEF Loop
    <3>3. loops' = [rest EXCEPT ![below] = e]
      BY <2>2
    <3>4. /\ loops' \in Seq(Loop) /\ Len(loops') = below /\ loops'[below] = e
          /\ \A i \in 1 .. below : i # below => loops'[i] = rest[i]
      <4>. HIDE DEF rest, e, below
      <4>. QED  BY <1>1, <3>1, <3>2, <3>3, SetTop
    <3>5. QED
      <4>. HIDE DEF rest, e, below
      <4>. QED  BY <1>1, <3>2, <3>4
  <2>3. QED
    BY <2>1, <2>2 DEF EndLoop
<1>3. TypeOK'
  BY <1>2 DEF Inv, TypeOK, EndLoop
<1>4. Registered'
  BY DEF Inv, Registered, EndLoop, Exists
<1>5. EveryoneTold'
  <2>1. \A i \in 1 .. below : i \in Depth
    BY DEF Depth, Inv, TypeOK
  <2>2. Depth' = 1 .. below /\ UNCHANGED <<alive, observers>>
    BY <1>2 DEF Depth, EndLoop
  <2>3. QED
    <3>. HIDE DEF below
    <3>. QED  BY <1>2, <2>1, <2>2 DEF Inv, EveryoneTold
<1>6. QED  BY <1>3, <1>4, <1>5 DEF Inv

-----------------------------------------------------------------------------
(***************************************************************************)
(* Whatever observers and observables a program creates, copies, assigns   *)
(* and destroys, inside notifications or outside, the sets on both sides   *)
(* of a registration agree and every loop reaches whom it must.            *)
(***************************************************************************)
THEOREM InvHolds == Spec => []Inv
<1>1. Init => Inv
  BY AddressAssumption DEF Init, Inv, TypeOK, Registered, EveryoneTold, Depth
<1>2. Inv /\ [Next]_vars => Inv'
  <2> SUFFICES ASSUME Inv, [Next]_vars
               PROVE  Inv'
    OBVIOUS
  <2>1. CASE \E s, t \in Observable : CopyObservable(s, t)
    BY <2>1, CreateObservableKeeps DEF CopyObservable
  <2>2. CASE \E s \in Observable : CreateObservable(s) \/ Release(s) \/ Notify(s)
    BY <2>2, CreateObservableKeeps, ReleaseKeeps, NotifyKeeps
  <2>3. CASE \E o, p \in Observer : CopyObserver(o, p) \/ AssignObserver(o, p)
    BY <2>3, CopyObserverKeeps, AssignKeeps
  <2>4. CASE \E o \in Observer :
               CreateObserver(o) \/ DestroyObserver(o) \/ UnregisterWithAll(o)
    BY <2>4, CreateObserverKeeps, DestroyKeeps, UnregisterAllKeeps
  <2>5. CASE \E o \in Observer : \E s \in Observable :
               RegisterWith(o, s) \/ UnregisterWith(o, s)
    BY <2>5, RegisterKeeps, UnregisterKeeps
  <2>6. CASE \E ok \in BOOLEAN : Advance(ok) \/ EndLoop(ok)
    BY <2>6, AdvanceKeeps, EndLoopKeeps
  <2>7. CASE UNCHANGED vars
    BY <2>7 DEF vars, Inv, TypeOK, Registered, EveryoneTold, Depth, Exists
  <2>8. QED
    BY <2>1, <2>2, <2>3, <2>4, <2>5, <2>6, <2>7 DEF Next
<1>3. QED
  BY <1>1, <1>2, PTL DEF Spec

\* Loops and the sets on both sides of registrations keep their types.
THEOREM TypeCorrect == Spec => []TypeOK
BY InvHolds, PTL DEF Inv

\* No pointer to a destroyed observer stays in the set an observable notifies.
THEOREM MutuallyRegistered == Spec => []Registered
BY InvHolds, PTL DEF Inv

\* A notification loop misses no observer registered from its start to its end.
THEOREM NobodyMissed == Spec => []EveryoneTold
BY InvHolds, PTL DEF Inv

=============================================================================
