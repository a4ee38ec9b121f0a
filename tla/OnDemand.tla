------------------------------ MODULE OnDemand ------------------------------
(***************************************************************************)
(* What the calculation network promises its client, with no caches and no *)
(* notifications: an inspector of an object answers what a computation     *)
(* from the present quotes and links gives, except that a frozen object    *)
(* answers the results it holds.                                           *)
(***************************************************************************)
CONSTANTS Quote, Link, Lazy, Reads, Targets, Number, Null, None, NoOne,
          Controlled, Evaluate(_, _)

VARIABLES
  value,   \* of each quote, Null if invalid
  target,  \* of each link, None if empty
  pinned,  \* the objects that are frozen
  held,    \* the results a pinned object holds; Null for the others
  reply    \* the answer to the client's last call

vars == <<value, target, pinned, held, reply>>

NoReply == [outcome |-> "none", node |-> NoOne, result |-> Null]
Returned(n, v) == [outcome |-> "returned", node |-> n, result |-> v]
Threw(n)       == [outcome |-> "threw", node |-> n, result |-> Null]

\* What reading d gives, if objects that are not pinned give what `answer' says.
Given(answer, d) ==
  LET s == IF d \in Link THEN target[d] ELSE d IN
  CASE s = None    -> Null
    [] s \in Quote -> value[s]
    [] OTHER       -> IF s \in pinned THEN held[s] ELSE answer[s]

Computed(answer, n) ==
  IF \E d \in Reads[n] : Given(answer, d) = Null THEN Null
  ELSE Evaluate(n, [d \in Quote \cup Link \cup Lazy |->
                      IF d \in Reads[n] THEN Given(answer, d) ELSE Null])

(***************************************************************************)
(* The results of n recomputed from the quotes: Null if that throws.       *)
(***************************************************************************)
Answer[n \in Lazy] == Computed(Answer, n)

Reply(n, v) == IF v = Null THEN Threw(n) ELSE Returned(n, v)

Init ==
  /\ value = [q \in Quote |-> Null]
  /\ target = [l \in Link |-> None]
  /\ pinned = {}
  /\ held = [n \in Lazy |-> Null]
  /\ reply = NoReply

SetValue(q, v) ==
  /\ v # value[q]
  /\ value' = [value EXCEPT ![q] = v]
  /\ reply' = NoReply
  /\ UNCHANGED <<target, pinned, held>>

\* A link may be set again to what it points to.
LinkTo(l, t) ==
  /\ target' = [target EXCEPT ![l] = t]
  /\ reply' = NoReply
  /\ UNCHANGED <<value, pinned, held>>

\* Results computed at some earlier time, if any, are what n answers from now on.
Freeze(n) ==
  /\ pinned' = pinned \cup {n}
  /\ \/ n \in pinned /\ UNCHANGED held
     \/ n \notin pinned /\ \E v \in Number \cup {Null} : held' = [held EXCEPT ![n] = v]
  /\ reply' = NoReply
  /\ UNCHANGED <<value, target>>

Unfreeze(n) ==
  /\ n \in pinned
  /\ pinned' = pinned \ {n}
  /\ held' = [held EXCEPT ![n] = Null]
  /\ reply' = NoReply
  /\ UNCHANGED <<value, target>>

\* Recalculating a pinned object renews what it holds.
Recalculate(n) ==
  /\ n \in pinned
  /\ Answer[n] # Null
  /\ held' = [held EXCEPT ![n] = Answer[n]]
  /\ UNCHANGED <<value, target, pinned, reply>>

Ask(n) ==
  /\ reply' = Reply(n, IF n \in pinned THEN held[n] ELSE Answer[n])
  /\ UNCHANGED <<value, target, pinned, held>>

\* A call begins, or one that is not an inspector ends.
OtherCall ==
  /\ reply' \in {NoReply, Returned(NoOne, Null), Threw(NoOne)}
  /\ UNCHANGED <<value, target, pinned, held>>

Next ==
  \/ \E q \in Quote : \E v \in Number \cup {Null} : SetValue(q, v)
  \/ \E l \in Link : \E t \in Targets[l] \cup {None} : LinkTo(l, t)
  \/ \E n \in Controlled : Freeze(n) \/ Unfreeze(n) \/ Recalculate(n)
  \/ \E n \in Lazy : Ask(n)
  \/ OtherCall

Spec == Init /\ [][Next]_vars
=============================================================================
