---------------------------- MODULE LazyNetwork ----------------------------
(***************************************************************************)
(* The calculation network of the C++ library: market quotes, relinkable   *)
(* handles, lazy objects that cache what they compute, and plain observers *)
(* that read a lazy object as soon as they are told it changed.            *)
(*                                                                         *)
(*   ql/patterns/observable.hpp   Observable::notifyObservers              *)
(*   ql/patterns/lazyobject.hpp   LazyObject                               *)
(*   ql/handle.hpp                Handle<T>::Link                          *)
(*   ql/quotes/simplequote.hpp    SimpleQuote                              *)
(*                                                                         *)
(* The library is single threaded, but a notification is a deep recursion: *)
(* each update() may forward it, and a non-lazy observer may start a       *)
(* calculation in the middle of it.  The two call stacks are explicit:     *)
(* `notifying' holds the notifyObservers() calls under way, `computing'    *)
(* the performCalculations() calls above the innermost one.                *)
(***************************************************************************)
EXTENDS Naturals, Sequences

CONSTANTS
  Quote,          \* SimpleQuote objects
  Link,           \* the shared links behind relinkable handles
  Lazy,           \* objects that derive from LazyObject
  Reader,         \* observers that are not lazy (Excel cells, test flags...)
  Reads,          \* what each lazy object or reader reads, and registers with
  Targets,        \* what each link may be made to point to
  Rank,           \* witness that reading is not circular
  Number, Null,   \* results of a calculation; Null<Real>()
  None,           \* the empty shared pointer
  NoOne,          \* no object (field of a record that does not apply)
  Controlled,     \* lazy objects the client freezes, unfreezes, recalculates
  RegisterModes,  \* values given to linkTo()'s registerAsObserver
  Evaluate(_, _)  \* performCalculations(): object, inputs read -> result

Consumer == Lazy \cup Reader
Input    == Quote \cup Link \cup Lazy
Object   == Quote \cup Link \cup Consumer

(***************************************************************************)
(* An object reads only what it registered with (the warning on            *)
(* LazyObject::calculate), and no object reads itself, however indirectly. *)
(* Evaluate yields Null for a performCalculations() that throws.           *)
(***************************************************************************)
ASSUME NetworkAssumption ==
  /\ Quote \cap Link = {} /\ (Quote \cup Link) \cap Consumer = {}
  /\ Lazy \cap Reader = {}
  /\ Reads \in [Consumer -> SUBSET Input]
  /\ Targets \in [Link -> SUBSET (Quote \cup Lazy)]
  /\ Rank \in [Object -> Nat]
  /\ \A n \in Consumer : \A d \in Reads[n] : Rank[d] < Rank[n]
  /\ \A l \in Link : \A t \in Targets[l] : Rank[t] < Rank[l]
  /\ Null \notin Number /\ None \notin Object /\ NoOne \notin Object
  /\ Controlled \subseteq Lazy
  /\ RegisterModes \subseteq BOOLEAN

ASSUME EvaluateAssumption ==
  \A n \in Lazy : \A s \in [Input -> Number \cup {Null}] :
    (\A d \in Reads[n] : s[d] # Null) => Evaluate(n, s) \in Number \cup {Null}

VARIABLES
  value,       \* SimpleQuote::value_
  target,      \* Link::h_
  isObserver,  \* Link::isObserver_
  calculated,  \* LazyObject::calculated_; a reader: it read since last told
  frozen,      \* LazyObject::frozen_
  results,     \* the cached results of a lazy object
  seen,        \* history: the inputs a consumer's calculation has read
  notifying,   \* stack of notifyObservers() calls
  computing,   \* stack of performCalculations() calls
  call,        \* the client's call under way
  reply,       \* how the client's last call ended, until it makes another
  gaveUp       \* history: readers whose last read threw, not told since

inputs == <<value, target, isObserver>>
caches == <<calculated, results, seen>>
vars   == <<inputs, caches, frozen, notifying, computing, call, reply, gaveUp>>

Call   == [op : {"none", "modify", "query", "recalculate"},
           node : Lazy \cup {NoOne}, wasFrozen : BOOLEAN, failed : BOOLEAN]
NoCall == [op |-> "none", node |-> NoOne, wasFrozen |-> FALSE, failed |-> FALSE]
Modify == [NoCall EXCEPT !.op = "modify"]

Frame == [node : Input, todo : SUBSET (Link \cup Consumer),
          ok : BOOLEAN]
NoReply        == [outcome |-> "none", node |-> NoOne, result |-> Null]
Returned(n, v) == [outcome |-> "returned", node |-> n, result |-> v]
Threw(n)       == [outcome |-> "threw", node |-> n, result |-> Null]

\* A call on no object in particular returns nothing; an inspector, a number.
Reply == {NoReply, Returned(NoOne, Null)} \cup {Threw(n) : n \in Lazy \cup {NoOne}}
         \cup {Returned(n, v) : n \in Lazy, v \in Number}

TypeOK ==
  /\ value \in [Quote -> Number \cup {Null}]
  /\ target \in [Link -> Quote \cup Lazy \cup {None}]
  /\ isObserver \in [Link -> BOOLEAN]
  /\ calculated \in [Consumer -> BOOLEAN]
  /\ frozen \in [Lazy -> BOOLEAN]
  /\ results \in [Lazy -> Number \cup {Null}]
  /\ seen \in [Consumer -> [Input -> Number \cup {Null}]]
  /\ notifying \in Seq(Frame)
  /\ computing \in Seq(Consumer)
  /\ call \in Call
  /\ reply \in Reply
  /\ gaveUp \subseteq Reader

Unread == [d \in Input |-> Null]

\* Default-constructed quotes and handles; nothing computed yet.
Init ==
  /\ value = [q \in Quote |-> Null]
  /\ target = [l \in Link |-> None]
  /\ isObserver = [l \in Link |-> TRUE]
  /\ calculated = [n \in Consumer |-> FALSE]
  /\ frozen = [n \in Lazy |-> FALSE]
  /\ results = [n \in Lazy |-> Null]
  /\ seen = [n \in Consumer |-> Unread]
  /\ notifying = <<>>
  /\ computing = <<>>
  /\ call = NoCall
  /\ reply = NoReply
  /\ gaveUp = {}

-----------------------------------------------------------------------------
\* Observable::observers_ of s (a link never points to a link).
ObserversOf(s) ==
  {n \in Consumer : s \in Reads[n]} \cup
  {l \in Link : target[l] = s /\ isObserver[l]}

\* A call of notifyObservers() on s: its loop has all observers before it.
Notification(s) == [node |-> s, todo |-> ObserversOf(s), ok |-> TRUE]

Idle == call.op = "none" /\ notifying = <<>> /\ computing = <<>>

\* What reading d reaches: a handle is dereferenced.
Source(d) == IF d \in Link THEN target[d] ELSE d

Computing == {computing[i] : i \in 1 .. Len(computing)}

-----------------------------------------------------------------------------
\* Client calls.  The program is single threaded: one call at a time.

\* Slip: reset() invalidates the quote without notifying.
SetValueQuietReset(q, v) ==
  /\ Idle
  /\ reply' = NoReply
  /\ v # value[q]
  /\ value' = [value EXCEPT ![q] = v]
  /\ UNCHANGED <<target, isObserver, caches, frozen, computing, gaveUp>>
  /\ notifying' = IF v = Null THEN <<>> ELSE <<Notification(q)>>
  /\ call' = Modify

\* SimpleQuote::setValue / reset (v = Null): a no-op when the value is the same.
SetValue(q, v) ==
  /\ Idle
  /\ reply' = NoReply
  /\ v # value[q]
  /\ value' = [value EXCEPT ![q] = v]
  /\ UNCHANGED <<target, isObserver, caches, frozen, computing, gaveUp>>
  /\ notifying' = <<Notification(q)>>
  /\ call' = Modify

\* Slip: linkTo notifies only when the pointee changes.
LinkToQuiet(l, t, registerAsObserver) ==
  /\ Idle
  /\ reply' = NoReply
  /\ t # target[l] \/ registerAsObserver # isObserver[l]
  /\ target' = [target EXCEPT ![l] = t]
  /\ isObserver' = [isObserver EXCEPT ![l] = registerAsObserver]
  /\ UNCHANGED <<value, caches, frozen, computing, gaveUp>>
  /\ notifying' = IF t # target[l] THEN <<Notification(l)>> ELSE <<>>
  /\ call' = Modify

\* Handle<T>::Link::linkTo
LinkTo(l, t, registerAsObserver) ==
  /\ Idle
  /\ reply' = NoReply
  /\ t # target[l] \/ registerAsObserver # isObserver[l]
  /\ target' = [target EXCEPT ![l] = t]
  /\ isObserver' = [isObserver EXCEPT ![l] = registerAsObserver]
  /\ UNCHANGED <<value, caches, frozen, computing, gaveUp>>
  /\ notifying' = <<Notification(l)>>
  /\ call' = Modify

\* LazyObject::freeze
Freeze(n) ==
  /\ Idle
  /\ reply' = NoReply
  /\ frozen' = [frozen EXCEPT ![n] = TRUE]
  /\ UNCHANGED <<inputs, caches, notifying, computing, call, gaveUp>>

\* Slip: unfreeze does not make up for the notifications that were lost.
UnfreezeQuiet(n) ==
  /\ Idle
  /\ reply' = NoReply
  /\ frozen[n]
  /\ frozen' = [frozen EXCEPT ![n] = FALSE]
  /\ UNCHANGED <<inputs, caches, notifying, computing, gaveUp>>
  /\ call' = Modify

\* LazyObject::unfreeze
Unfreeze(n) ==
  /\ Idle
  /\ reply' = NoReply
  /\ frozen[n]
  /\ frozen' = [frozen EXCEPT ![n] = FALSE]
  /\ UNCHANGED <<inputs, caches, computing, gaveUp>>
  /\ notifying' = <<Notification(n)>>
  /\ call' = Modify

\* calculate() on an object that needs it: calculated_ is set first.
Enter(n) ==
  /\ computing' = Append(computing, n)
  /\ calculated' = [calculated EXCEPT ![n] = TRUE]
  /\ seen' = [seen EXCEPT ![n] = Unread]
  /\ UNCHANGED results

\* LazyObject::recalculate, up to its calculate()
Recalculate(n) ==
  /\ Idle
  /\ reply' = NoReply
  /\ call' = [op |-> "recalculate", node |-> n, wasFrozen |-> frozen[n],
              failed |-> FALSE]
  /\ frozen' = [frozen EXCEPT ![n] = FALSE]
  /\ Enter(n)
  /\ UNCHANGED <<inputs, notifying, gaveUp>>

\* Slip: recalculate notifies only if the calculation succeeded.
EndRecalculateQuiet ==
  /\ call.op = "recalculate"
  /\ computing = <<>>
  /\ frozen' = [frozen EXCEPT ![call.node] = call.wasFrozen]
  /\ UNCHANGED <<inputs, caches, computing, reply, gaveUp>>
  /\ notifying' = IF call.failed THEN <<>> ELSE <<Notification(call.node)>>
  /\ call' = [Modify EXCEPT !.failed = call.failed]

\* recalculate, after calculate() returned or threw: both paths restore
\* frozen_ and notify.
EndRecalculate ==
  /\ call.op = "recalculate"
  /\ computing = <<>>
  /\ frozen' = [frozen EXCEPT ![call.node] = call.wasFrozen]
  /\ UNCHANGED <<inputs, caches, computing, reply, gaveUp>>
  /\ notifying' = <<Notification(call.node)>>
  /\ call' = [Modify EXCEPT !.failed = call.failed]

\* Slip: calculate() does not look at frozen_.
NeedsCalculationThawed(n) == ~calculated[n]

\* LazyObject::calculate has work to do.
NeedsCalculation(n) == ~calculated[n] /\ ~frozen[n]

\* An inspector of a lazy object (NPV(), discount()...), up to its calculate()
Query(n) ==
  /\ Idle
  /\ reply' = NoReply
  /\ call' = [NoCall EXCEPT !.op = "query", !.node = n]
  /\ IF NeedsCalculation(n) THEN Enter(n) ELSE UNCHANGED <<caches, computing>>
  /\ UNCHANGED <<inputs, frozen, notifying, gaveUp>>

\* Slip: the inspector returns whatever is there.
EndQueryUnchecked ==
  /\ call.op = "query"
  /\ computing = <<>>
  /\ reply' = IF call.failed THEN Threw(call.node)
              ELSE Returned(call.node, results[call.node])
  /\ call' = NoCall
  /\ UNCHANGED <<inputs, caches, frozen, notifying, computing, gaveUp>>

\* The inspector returns the cached result; Null was never provided.
EndQuery ==
  /\ call.op = "query"
  /\ computing = <<>>
  /\ reply' = IF call.failed \/ results[call.node] = Null
                THEN Threw(call.node)
                ELSE Returned(call.node, results[call.node])
  /\ call' = NoCall
  /\ UNCHANGED <<inputs, caches, frozen, notifying, computing, gaveUp>>

\* A non-lazy observer reads on its own account (a cell is evaluated).
Look(o) ==
  /\ Idle
  /\ reply' = NoReply
  /\ call' = Modify
  /\ Enter(o)
  /\ UNCHANGED <<inputs, frozen, notifying, gaveUp>>

-----------------------------------------------------------------------------
\* notifyObservers: the loop over the observers of the innermost call.

Top == notifying[Len(notifying)]

\* The stack once the loop of its top call has called n->update().
Visited(n) == [notifying EXCEPT ![Len(notifying)].todo = @ \ {n}]

InLoop(n) == computing = <<>> /\ notifying # <<>> /\ n \in Top.todo

\* calculated_ becomes false; the results stay, but stand for nothing.
Outdate(S) ==
  /\ calculated' = [n \in Consumer |-> calculated[n] /\ n \notin S]
  /\ seen' = [n \in Consumer |-> IF n \in S THEN Unread ELSE seen[n]]
  /\ UNCHANGED results

\* Handle<T>::Link::update
UpdateLink(l) ==
  /\ InLoop(l)
  /\ UNCHANGED <<inputs, caches, frozen, computing, call, reply, gaveUp>>
  /\ notifying' = Append(Visited(l), Notification(l))

\* Slip: a frozen object ignores notifications altogether.
UpdateLazyDeaf(n) ==
  /\ InLoop(n)
  /\ IF frozen[n] THEN UNCHANGED caches ELSE Outdate({n})
  /\ UNCHANGED <<inputs, frozen, computing, call, reply, gaveUp>>
  /\ notifying' = IF calculated[n] /\ ~frozen[n]
                    THEN Append(Visited(n), Notification(n))
                    ELSE Visited(n)

\* LazyObject::update
UpdateLazy(n) ==
  /\ InLoop(n)
  /\ Outdate({n})
  /\ UNCHANGED <<inputs, frozen, computing, call, reply, gaveUp>>
  /\ notifying' = IF calculated[n] /\ ~frozen[n]
                    THEN Append(Visited(n), Notification(n))
                    ELSE Visited(n)

\* update() of an observer that only takes note
UpdateFlag(o) ==
  /\ InLoop(o)
  /\ Outdate({o})
  /\ notifying' = Visited(o)
  /\ gaveUp' = gaveUp \ {o}
  /\ UNCHANGED <<inputs, frozen, computing, call, reply>>

\* update() of an observer that reads at once
UpdateReader(o) ==
  /\ InLoop(o)
  /\ notifying' = Visited(o)
  /\ Enter(o)
  /\ gaveUp' = gaveUp \ {o}
  /\ UNCHANGED <<inputs, frozen, call, reply>>

\* The loop is over; QL_ENSURE(successful) throws into the caller's update().
EndNotify ==
  /\ computing = <<>>
  /\ notifying # <<>>
  /\ Top.todo = {}
  /\ LET below == Len(notifying) - 1
         rest  == SubSeq(notifying, 1, below)
     IN  /\ notifying' = IF below > 0 /\ ~Top.ok
                           THEN [rest EXCEPT ![below].ok = FALSE] ELSE rest
         /\ call' = IF below = 0 /\ ~Top.ok
                      THEN [call EXCEPT !.failed = TRUE] ELSE call
  /\ UNCHANGED <<inputs, caches, frozen, computing, reply, gaveUp>>

\* setValue, linkTo, unfreeze, recalculate or a reader's look return or throw.
EndModify ==
  /\ call.op = "modify"
  /\ notifying = <<>>
  /\ computing = <<>>
  /\ reply' = IF call.failed THEN Threw(NoOne) ELSE Returned(NoOne, Null)
  /\ call' = NoCall
  /\ UNCHANGED <<inputs, caches, frozen, notifying, computing, gaveUp>>

-----------------------------------------------------------------------------
\* performCalculations of the object on top of the stack.

Current == computing[Len(computing)]

\* It still has to read d.
Reading(d) ==
  /\ computing # <<>>
  /\ d \in Reads[Current]
  /\ seen[Current][d] = Null

Unusable(s) ==
  \/ s = None                                          \* empty Handle
  \/ s \in Quote /\ value[s] = Null                    \* invalid SimpleQuote
  \/ s \in Lazy /\ ~NeedsCalculation(s) /\ results[s] = Null

Content(s) == IF s \in Quote THEN value[s] ELSE results[s]

\* The input is a lazy object with no usable result: calculate() it first.
Descend(d) ==
  /\ Reading(d)
  /\ Source(d) \in Lazy
  /\ NeedsCalculation(Source(d))
  /\ Enter(Source(d))
  /\ UNCHANGED <<inputs, frozen, notifying, call, reply, gaveUp>>

\* The input is at hand.
Read(d) ==
  /\ Reading(d)
  /\ ~Unusable(Source(d))
  /\ Source(d) \in Lazy => ~NeedsCalculation(Source(d))
  /\ seen' = [seen EXCEPT ![Current][d] = Content(Source(d))]
  /\ UNCHANGED <<inputs, calculated, results, frozen, notifying, computing, call, reply, gaveUp>>

AllRead(n) == \A d \in Reads[n] : seen[n][d] # Null

\* performCalculations returns; the results are stored.
Finish ==
  /\ computing # <<>>
  /\ AllRead(Current)
  /\ Current \in Lazy => Evaluate(Current, seen[Current]) # Null
  /\ results' = IF Current \in Lazy
                  THEN [results EXCEPT ![Current] = Evaluate(Current, seen[Current])]
                  ELSE results
  /\ computing' = SubSeq(computing, 1, Len(computing) - 1)
  /\ gaveUp' = gaveUp \ {Current}
  /\ UNCHANGED <<inputs, calculated, seen, frozen, notifying, call, reply>>

\* What makes the calculation on top of the stack throw.
Throws ==
  \/ \E d \in Reads[Current] : Reading(d) /\ Unusable(Source(d))
  \/ /\ AllRead(Current)
     /\ Current \in Lazy
     /\ Evaluate(Current, seen[Current]) = Null

\* Slip: notifyObservers does not catch, the exception leaves all the loops.
ThrowUncaught ==
  /\ computing # <<>>
  /\ Throws
  /\ Outdate(Computing)
  /\ computing' = <<>>
  /\ notifying' = <<>>
  /\ call' = [call EXCEPT !.failed = TRUE]
  /\ gaveUp' = gaveUp \cup (Computing \cap Reader)
  /\ UNCHANGED <<inputs, frozen, reply>>

\* Slip: the handler tries the calculation again.
ThrowRetries ==
  /\ computing # <<>>
  /\ Throws
  /\ Outdate(Computing)
  /\ gaveUp' = gaveUp \cup (Computing \cap Reader)
  /\ UNCHANGED <<inputs, frozen, notifying, computing, call, reply>>

\* An exception leaves every performCalculations() under way: each handler
\* resets calculated_ and rethrows.  It ends in the loop of the innermost
\* notifyObservers(), which catches it, or else in the client's call.
Throw ==
  /\ computing # <<>>
  /\ Throws
  /\ Outdate(Computing)
  /\ computing' = <<>>
  /\ notifying' = IF notifying = <<>> THEN notifying
                  ELSE [notifying EXCEPT ![Len(notifying)].ok = FALSE]
  /\ call' = IF notifying = <<>> THEN [call EXCEPT !.failed = TRUE] ELSE call
  /\ gaveUp' = gaveUp \cup (Computing \cap Reader)
  /\ UNCHANGED <<inputs, frozen, reply>>

-----------------------------------------------------------------------------
ClientCall ==
  \/ \E q \in Quote : \E v \in Number \cup {Null} : SetValue(q, v)
  \/ \E l \in Link : \E t \in Targets[l] \cup {None} : \E r \in RegisterModes :
       LinkTo(l, t, r)
  \/ \E n \in Controlled : Freeze(n) \/ Unfreeze(n) \/ Recalculate(n)
  \/ \E n \in Lazy : Query(n)
  \/ \E o \in Reader : Look(o)

NotifyStep ==
  \/ \E l \in Link : UpdateLink(l)
  \/ \E n \in Lazy : UpdateLazy(n)
  \/ \E o \in Reader : UpdateFlag(o) \/ UpdateReader(o)
  \/ EndNotify

ComputeStep ==
  \/ \E d \in Input : Descend(d) \/ Read(d)
  \/ Finish
  \/ Throw

EndCall == EndRecalculate \/ EndQuery \/ EndModify

Next == ClientCall \/ NotifyStep \/ ComputeStep \/ EndCall

Spec == Init /\ [][Next]_vars

\* A call, once made, runs: the program is the only thread.
FairSpec == Spec /\ WF_vars(NotifyStep \/ ComputeStep \/ EndCall)

-----------------------------------------------------------------------------
(***************************************************************************)
(* Properties                                                              *)
(***************************************************************************)

\* The loop of some notifyObservers() on s has still to reach n.
Pending(s, n) ==
  \E i \in 1 .. Len(notifying) : notifying[i].node = s /\ n \in notifying[i].todo

Settled(s) ==
  \/ s \in Quote
  \/ s \in Lazy /\ (frozen[s] \/ (calculated[s] /\ s \notin Computing))

(***************************************************************************)
(* Why a consumer that believes it is up to date may: for each input it    *)
(* has read, either a notification is on its way to it, or the value it    *)
(* read is what the input still returns.  A link that was told not to      *)
(* register (registerAsObserver = false) gives no such guarantee.          *)
(***************************************************************************)
InputCurrent(n, d) ==
  \/ Pending(d, n)
  \/ d \in Link /\ (~isObserver[d] \/ Pending(target[d], d))
  \/ call.op = "recalculate" /\ call.node = Source(d)
  \/ Settled(Source(d)) /\ seen[n][d] = Content(Source(d))

InputsCurrent ==
  \A n \in Consumer : \A d \in Reads[n] :
    seen[n][d] # Null => InputCurrent(n, d)

(***************************************************************************)
(* The inductive invariant behind the properties below: InputsCurrent and  *)
(* what it rests on.                                                       *)
(***************************************************************************)
CallInv ==
  call.op \in {"query", "recalculate"} => call.node \in Lazy /\ notifying = <<>>

LinkInv == \A l \in Link : target[l] \in Targets[l] \cup {None}

\* performCalculations() runs only with calculated_ set early and not frozen...
ComputingInv ==
  \A i \in 1 .. Len(computing) :
    /\ calculated[computing[i]]
    /\ computing[i] \in Lazy => ~frozen[computing[i]]

\* ...and only ever descends to what the caller reads.
DescentInv ==
  \A i, j \in 1 .. Len(computing) :
    i < j => Rank[computing[j]] < Rank[computing[i]]

CompleteInv ==
  \A n \in Consumer : calculated[n] /\ n \notin Computing =>
    AllRead(n) /\ (n \in Lazy => results[n] = Evaluate(n, seen[n]))

Inv == /\ TypeOK /\ CallInv /\ LinkInv
       /\ ComputingInv /\ DescentInv /\ CompleteInv /\ InputsCurrent

(***************************************************************************)
(* When no call is under way, a lazy object that says it is calculated     *)
(* holds what performCalculations() yields on the inputs it read, and each *)
(* input still returns that value: it is never stale.                      *)
(***************************************************************************)
ResultsFresh ==
  Idle => \A n \in Lazy : calculated[n] =>
    /\ results[n] = Evaluate(n, seen[n])
    /\ \A d \in Reads[n] : \/ d \in Link /\ ~isObserver[d]
                           \/ /\ Settled(Source(d))
                              /\ seen[n][d] = Content(Source(d))

(***************************************************************************)
(* A reader that has not been told of a change since it last read still    *)
(* shows what its inputs return: no notification was lost on the way,      *)
(* whatever lazy objects or exceptions were met.                           *)
(***************************************************************************)
ReadersTold ==
  Idle => \A o \in Reader : calculated[o] =>
    \A d \in Reads[o] : \/ d \in Link /\ ~isObserver[d]
                       \/ /\ Settled(Source(d))
                          /\ seen[o][d] = Content(Source(d))

(***************************************************************************)
(* The network implements OnDemand: every answer is what a computation     *)
(* from scratch gives, whatever was cached, frozen or notified before.     *)
(* recalculate() thaws its object for the time of the calculation only.    *)
(* Claimed where every link registers with its target.                     *)
(***************************************************************************)
Pinned == {n \in Lazy : frozen[n] \/ (/\ call.op = "recalculate"
                                      /\ call.node = n /\ call.wasFrozen)}

Held == [n \in Lazy |-> IF n \in Pinned THEN results[n] ELSE Null]

Abstract == INSTANCE OnDemand WITH pinned <- Pinned, held <- Held

ImplementsOnDemand == Abstract!Spec

FromScratch[n \in Lazy] == Abstract!Answer[n]

WatchedIf(watched, n) ==
  \A d \in Reads[n] :
    /\ d \in Link => isObserver[d]
    /\ Source(d) \in Lazy => frozen[Source(d)] \/ watched[Source(d)]

\* Every link that n's results pass through registers with its target.
Watched[n \in Lazy] == WatchedIf(Watched, n)

(***************************************************************************)
(* An inspector of an unfrozen object answers what a computation from      *)
(* scratch would, through any depth of cached objects, and throws exactly  *)
(* when that would throw.                                                  *)
(***************************************************************************)
AnswersFromScratch ==
  [][call.op = "query" /\ call'.op = "none" =>
       LET n == call.node IN
       ~frozen[n] /\ Watched[n] => reply'.result = FromScratch[n]]_vars

(***************************************************************************)
(* LazyObject::freeze: the object returns the presently cached results on  *)
(* successive invocations, even if its arguments change.                   *)
(***************************************************************************)
FreezePins ==
  [][\A n \in Lazy : frozen[n] /\ frozen'[n] => results'[n] = results[n]]_vars

\* A storm of notifications and calculations dies out: every call returns.
CallsReturn == ~Idle ~> Idle

(***************************************************************************)
(* An observer that found an input unusable is told when it becomes usable *)
(* ("gets notified when a given observable changes", observable.hpp:61).   *)
(* The code does not do this, so no run has it as an invariant: update()   *)
(* forwards nothing once calculate() has thrown.                           *)
(***************************************************************************)
ErrorsWithdrawn ==
  Idle => \A o \in gaveUp : \E d \in Reads[o] :
    LET s == Source(d) IN
    \/ Unusable(s)
    \/ s \in Lazy /\ NeedsCalculation(s) /\ FromScratch[s] = Null
=============================================================================
