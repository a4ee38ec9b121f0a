------------------------- MODULE LazyNetworkProofs -------------------------
(***************************************************************************)
(* The calculation network never serves stale results, and what it answers *)
(* is what a computation from scratch would give: proofs, for every        *)
(* network of quotes, links, lazy objects and readers.                     *)
(***************************************************************************)
EXTENDS LazyNetwork, SequenceTheorems, WellFoundedInduction, TLAPS

(***************************************************************************)
(* Sequences as stacks of activations, their last element on top           *)
(***************************************************************************)

\* Pushing onto a stack keeps what is below.
LEMMA Push ==
  ASSUME NEW S, NEW s \in Seq(S), NEW e \in S
  PROVE  /\ Append(s, e) \in Seq(S)
         /\ Len(Append(s, e)) = Len(s) + 1
         /\ Append(s, e)[Len(s) + 1] = e
         /\ \A i \in 1 .. Len(s) : Append(s, e)[i] = s[i]
OBVIOUS

\* Popping a stack keeps what is below.
LEMMA Pop ==
  ASSUME NEW S, NEW s \in Seq(S), s # <<>>
  PROVE  /\ SubSeq(s, 1, Len(s) - 1) \in Seq(S)
         /\ Len(SubSeq(s, 1, Len(s) - 1)) = Len(s) - 1
         /\ \A i \in 1 .. Len(s) - 1 : SubSeq(s, 1, Len(s) - 1)[i] = s[i]
<1>1. Len(s) \in Nat \ {0} /\ \A i \in 1 .. Len(s) - 1 : s[i] \in S
  BY EmptySeq, ElementOfSeq
<1>. DEFINE n == Len(s) - 1
           t == SubSeq(s, 1, n)
<1>2. n \in Nat /\ \A i \in 1 .. n : s[i] \in S
  BY <1>1
<1>3. /\ t \in Seq(S)
      /\ Len(t) = IF 1 <= n THEN n - 1 + 1 ELSE 0
      /\ \A i \in 1 .. n - 1 + 1 : t[i] = s[1 + i - 1]
  <2>. HIDE DEF n
  <2>. QED  BY <1>2, SubSeqProperties
<1>4. Len(t) = n /\ \A i \in 1 .. n : t[i] = s[i]
  <2>. HIDE DEF n, t
  <2>. QED  BY <1>2, <1>3
<1>5. QED
  <2>. HIDE DEF t
  <2>. t \in Seq(S) /\ Len(t) = Len(s) - 1 /\ \A i \in 1 .. Len(s) - 1 : t[i] = s[i]
    BY <1>3, <1>4
  <2>. QED  BY DEF t

\* Changing the top of a stack keeps what is below.
LEMMA SetTop ==
  ASSUME NEW S, NEW s \in Seq(S), NEW k \in 1 .. Len(s), NEW e \in S
  PROVE  /\ [s EXCEPT ![k] = e] \in Seq(S)
         /\ Len([s EXCEPT ![k] = e]) = Len(s)
         /\ [s EXCEPT ![k] = e][k] = e
         /\ \A i \in 1 .. Len(s) : i # k => [s EXCEPT ![k] = e][i] = s[i]
OBVIOUS

\* A stack that is not empty has a top.
LEMMA HasTop ==
  ASSUME NEW S, NEW s \in Seq(S), s # <<>>
  PROVE  Len(s) \in 1 .. Len(s) /\ s[Len(s)] \in S
OBVIOUS

-----------------------------------------------------------------------------
(***************************************************************************)
(* Induction on numbers, and that recursive functions exist                *)
(***************************************************************************)

\* A set of numbers has a least one.
LEMMA Least ==
  ASSUME NEW T \in SUBSET Nat, T # {}
  PROVE  \E x \in T : \A y \in T : x <= y
<1>. DEFINE R == {ss \in Nat \X Nat : ss[1] < ss[2]}
<1>1. IsWellFoundedOn(R, Nat)
  BY NatLessThanWellFounded DEF OpToRel
<1>2. PICK x \in T : \A y \in T : ~ (<<y, x>> \in R)
  <2>. HIDE DEF R
  <2>. QED  BY <1>1, WFMin
<1>3. \A y \in T : x <= y
  <2>. SUFFICES ASSUME NEW y \in T PROVE x <= y
    OBVIOUS
  <2>1. x \in Nat /\ y \in Nat /\ <<y, x>> \notin R
    BY <1>2
  <2>2. ~ (y < x)
    BY <2>1
  <2>. QED  BY <2>1, <2>2
<1>. QED  BY <1>3

\* Induction, with the numbers for which a fact holds as a set.
LEMMA Induct ==
  ASSUME NEW T, 0 \in T, \A n \in Nat : n \in T => n + 1 \in T
  PROVE  Nat \subseteq T
<1>1. SUFFICES ASSUME Nat \ T # {} PROVE FALSE
  OBVIOUS
<1>2. PICK x \in Nat \ T : \A y \in Nat \ T : x <= y
  BY <1>1, Least
<1>3. x # 0 /\ x - 1 \in Nat
  BY <1>2
<1>4. x - 1 \in T
  BY <1>2, <1>3
<1>. QED  BY <1>2, <1>3, <1>4

\* F makes a function of a function, looking for each n only at lower ranks.
LooksBelow(S, V, rank, F) ==
  \A f, g \in [S -> V] : \A n \in S :
    (\A m \in S : rank[m] < rank[n] => f[m] = g[m]) => F[f][n] = F[g][n]

HasFixpoint(S, V, F) == \E f \in [S -> V] : F[f] = f

(***************************************************************************)
(* F takes a function on S to the next one, looking for each argument only *)
(* at arguments of lower rank: there is a function that F leaves as it is. *)
(* The functions on which F agrees with itself up to rank k exist for each *)
(* k, agree with each other up to there, and are pieced together.          *)
(***************************************************************************)
LEMMA Recursion ==
  ASSUME NEW S, NEW V, V # {}, NEW rank \in [S -> Nat],
         NEW F \in [[S -> V] -> [S -> V]], LooksBelow(S, V, rank, F)
  PROVE  HasFixpoint(S, V, F)
<1>. USE DEF LooksBelow
<1>. DEFINE Good(k) == {g \in [S -> V] : \A n \in S : rank[n] < k => F[g][n] = g[n]}
           Same(k) == \A g, h \in Good(k) : \A n \in S : rank[n] < k => g[n] = h[n]
           T == {k \in Nat : Good(k) # {}}
           U == {k \in Nat : Same(k)}
<1>1. 0 \in T
  <2>1. PICK v \in V : TRUE
    OBVIOUS
  <2>2. [n \in S |-> v] \in Good(0)
    BY <2>1
  <2>. QED  BY <2>2
<1>2. \A k \in Nat : k \in T => k + 1 \in T
  <2>. SUFFICES ASSUME NEW k \in Nat, NEW g \in Good(k) PROVE F[g] \in Good(k + 1)
    <3>. HIDE DEF Good
    <3>. QED  OBVIOUS
  <2>1. F[g] \in [S -> V]
    OBVIOUS
  <2>2. ASSUME NEW n \in S, rank[n] < k + 1 PROVE F[F[g]][n] = F[g][n]
    <3>1. \A m \in S : rank[m] < rank[n] => F[g][m] = g[m]
      BY <2>2
    <3>. QED  BY <2>1, <3>1
  <2>. QED  BY <2>1, <2>2
<1>3. Nat \subseteq T
  BY <1>1, <1>2, Induct, Zenon
<1>4. 0 \in U
  OBVIOUS
<1>5. \A k \in Nat : k \in U => k + 1 \in U
  <2>. SUFFICES ASSUME NEW k \in Nat, Same(k), NEW g \in Good(k + 1), NEW h \in Good(k + 1),
                       NEW n \in S, rank[n] < k + 1
                PROVE  g[n] = h[n]
    <3>. HIDE DEF Good
    <3>. QED  OBVIOUS
  <2>1. g \in Good(k) /\ h \in Good(k)
    OBVIOUS
  <2>2. \A m \in S : rank[m] < rank[n] => g[m] = h[m]
    <3>. HIDE DEF Good
    <3>. QED  BY <2>1
  <2>3. g[n] = F[g][n] /\ h[n] = F[h][n]
    OBVIOUS
  <2>. QED  BY <2>2, <2>3
<1>6. Nat \subseteq U
  BY <1>4, <1>5, Induct, Zenon
<1>. DEFINE pick(n) == CHOOSE g \in Good(rank[n] + 1) : TRUE
            f == [n \in S |-> pick(n)[n]]
<1>7. \A n \in S : pick(n) \in Good(rank[n] + 1)
  <2>. SUFFICES ASSUME NEW n \in S PROVE Good(rank[n] + 1) # {}
    BY Zenon
  <2>. rank[n] + 1 \in Nat
    OBVIOUS
  <2>. HIDE DEF Good
  <2>. QED  BY <1>3
<1>8. f \in [S -> V]
  <2>. HIDE DEF pick
  <2>. QED  BY <1>7
<1>9. ASSUME NEW n \in S PROVE F[f][n] = f[n]
  <2>1. ASSUME NEW m \in S, rank[m] < rank[n] PROVE f[m] = pick(n)[m]
    <3>1. pick(m) \in Good(rank[m] + 1) /\ pick(n) \in Good(rank[n] + 1)
      BY <1>7
    <3>2. pick(n) \in Good(rank[m] + 1)
      <4>. HIDE DEF pick
      <4>. QED  BY <3>1, <2>1
    <3>3. rank[m] + 1 \in U /\ rank[m] < rank[m] + 1
      BY <1>6
    <3>. HIDE DEF pick, Good
    <3>. QED  BY <3>1, <3>2, <3>3
  <2>2. pick(n) \in [S -> V] /\ F[pick(n)][n] = pick(n)[n]
    <3>. HIDE DEF pick
    <3>. QED  BY <1>7
  <2>3. F[f][n] = F[pick(n)][n]
    <3>. HIDE DEF pick, f
    <3>. QED  BY <1>8, <2>1, <2>2
  <2>. QED  BY <2>2, <2>3
<1>. QED
  <2>. HIDE DEF f
  <2>1. F[f] \in [S -> V]
    BY <1>8
  <2>. QED  BY <1>8, <1>9, <2>1 DEF HasFixpoint

-----------------------------------------------------------------------------

-----------------------------------------------------------------------------
(* Types. *)

LEMMA NotificationType ==
  ASSUME NEW s \in Input
  PROVE  Notification(s) \in Frame
BY DEF Notification, ObserversOf, Frame, Consumer

LEMMA VisitedType ==
  ASSUME TypeOK, NEW n, InLoop(n)
  PROVE  /\ Visited(n) \in Seq(Frame)
         /\ Len(Visited(n)) = Len(notifying)
         /\ \A i \in 1 .. Len(notifying) :
              /\ Visited(n)[i].node = notifying[i].node
              /\ Visited(n)[i].todo = IF i = Len(notifying)
                                       THEN notifying[i].todo \ {n}
                                       ELSE notifying[i].todo
<1> DEFINE top == Len(notifying)
           e   == [Top EXCEPT !.todo = @ \ {n}]
<1>1. top \in 1 .. top /\ Top \in Frame
  BY HasTop DEF TypeOK, InLoop, Top
<1>2. e \in Frame /\ e.node = Top.node /\ e.todo = Top.todo \ {n}
  BY <1>1 DEF Frame
<1>3. Visited(n) = [notifying EXCEPT ![top] = e]
  BY <1>1 DEF Visited, Top
<1>4. /\ Visited(n) \in Seq(Frame)
      /\ Len(Visited(n)) = top
      /\ Visited(n)[top] = e
      /\ \A i \in 1 .. top : i # top => Visited(n)[i] = notifying[i]
  <2>. HIDE DEF e
  <2>. QED  BY <1>1, <1>2, <1>3, SetTop DEF TypeOK
<1>5. QED
  BY <1>1, <1>2, <1>4 DEF Top

LEMMA EnterType ==
  ASSUME TypeOK, NEW n \in Consumer, Enter(n)
  PROVE  /\ calculated' \in [Consumer -> BOOLEAN]
         /\ seen' \in [Consumer -> [Input -> Number \cup {Null}]]
         /\ results' \in [Lazy -> Number \cup {Null}]
         /\ computing' \in Seq(Consumer)
BY Push DEF TypeOK, Enter, Unread

LEMMA OutdateType ==
  ASSUME TypeOK, NEW S, Outdate(S)
  PROVE  /\ calculated' \in [Consumer -> BOOLEAN]
         /\ seen' \in [Consumer -> [Input -> Number \cup {Null}]]
         /\ results' \in [Lazy -> Number \cup {Null}]
BY DEF TypeOK, Outdate, Unread

LEMMA EndNotifyType ==
  ASSUME TypeOK, EndNotify
  PROVE  /\ notifying' \in Seq(Frame)
         /\ Len(notifying') = Len(notifying) - 1
         /\ \A i \in 1 .. Len(notifying) - 1 :
              /\ notifying'[i].node = notifying[i].node
              /\ notifying'[i].todo = notifying[i].todo
         /\ call' \in Call
         /\ call'.op = call.op /\ call'.node = call.node
<1> DEFINE below == Len(notifying) - 1
           rest  == SubSeq(notifying, 1, below)
           e     == [rest[below] EXCEPT !.ok = FALSE]
<1>1. /\ rest \in Seq(Frame) /\ Len(rest) = below /\ below \in Nat
      /\ \A i \in 1 .. below : rest[i] = notifying[i]
  BY Pop, HasTop DEF TypeOK, EndNotify
<1>2. call' \in Call /\ call'.op = call.op /\ call'.node = call.node
  BY DEF TypeOK, EndNotify, Call
<1>3. CASE notifying' = rest
  BY <1>1, <1>2, <1>3
<1>4. CASE below > 0 /\ notifying' = [rest EXCEPT ![below].ok = FALSE]
  <2>1. below \in 1 .. Len(rest) /\ rest[below] \in Frame
    BY <1>1, <1>4
  <2>2. e \in Frame /\ e.node = rest[below].node /\ e.todo = rest[below].todo
    BY <2>1 DEF Frame
  <2>3. notifying' = [rest EXCEPT ![below] = e]
    BY <1>4
  <2>4. /\ notifying' \in Seq(Frame) /\ Len(notifying') = below
        /\ notifying'[below] = e
        /\ \A i \in 1 .. below : i # below => notifying'[i] = rest[i]
    <3>. HIDE DEF rest, e, below
    <3>. QED  BY <1>1, <2>1, <2>2, <2>3, SetTop
  <2>5. QED
    <3>. HIDE DEF rest, e
    <3>. QED  BY <1>1, <1>2, <2>2, <2>4
<1>5. QED
  BY <1>3, <1>4 DEF EndNotify

\* Throw only touches the flag of the innermost notification.
LEMMA ThrowType ==
  ASSUME TypeOK, Throw
  PROVE  /\ notifying' \in Seq(Frame)
         /\ Len(notifying') = Len(notifying)
         /\ \A i \in 1 .. Len(notifying) :
              /\ notifying'[i].node = notifying[i].node
              /\ notifying'[i].todo = notifying[i].todo
         /\ call' \in Call
         /\ call'.op = call.op /\ call'.node = call.node
<1> DEFINE top == Len(notifying)
           e   == [notifying[top] EXCEPT !.ok = FALSE]
<1>1. call' \in Call /\ call'.op = call.op /\ call'.node = call.node
  BY DEF TypeOK, Throw, Call
<1>2. CASE notifying = <<>>
  BY <1>1, <1>2 DEF Throw, TypeOK
<1>3. CASE notifying # <<>>
  <2>1. top \in 1 .. top /\ notifying[top] \in Frame
    BY <1>3, HasTop DEF TypeOK
  <2>2. e \in Frame /\ e.node = notifying[top].node /\ e.todo = notifying[top].todo
    BY <2>1 DEF Frame
  <2>3. notifying' = [notifying EXCEPT ![top] = e]
    BY <1>3 DEF Throw
  <2>4. /\ notifying' \in Seq(Frame) /\ Len(notifying') = top
        /\ notifying'[top] = e
        /\ \A i \in 1 .. top : i # top => notifying'[i] = notifying[i]
    <3>. HIDE DEF e
    <3>. QED  BY <2>1, <2>2, <2>3, SetTop DEF TypeOK
  <2>5. QED
    <3>. HIDE DEF e
    <3>. QED  BY <1>1, <2>2, <2>4
<1>4. QED
  BY <1>2, <1>3

LEMMA NotifyAtOnce ==
  ASSUME NEW s \in Input
  PROVE  <<Notification(s)>> \in Seq(Frame)
BY NotificationType

LEMMA UpdateType ==
  ASSUME TypeOK, NEW n \in Input, InLoop(n)
  PROVE  Append(Visited(n), Notification(n)) \in Seq(Frame)
BY VisitedType, NotificationType, Push

LEMMA ResultType ==
  ASSUME TypeOK, NEW n \in Lazy, AllRead(n)
  PROVE  Evaluate(n, seen[n]) \in Number \cup {Null}
BY EvaluateAssumption DEF TypeOK, AllRead, Consumer

LEMMA ReplyType ==
  /\ NoReply \in Reply /\ Returned(NoOne, Null) \in Reply
  /\ \A n \in Lazy \cup {NoOne} : Threw(n) \in Reply
  /\ \A n \in Lazy : \A v \in Number : Returned(n, v) \in Reply
BY DEF Reply

LEMMA TypeStep ==
  ASSUME TypeOK, CallInv, [Next]_vars
  PROVE  TypeOK' /\ CallInv'
<1>. USE DEF inputs, caches
<1>1. ASSUME NEW q \in Quote, NEW v \in Number \cup {Null}, SetValue(q, v)
      PROVE  TypeOK' /\ CallInv'
  <2>1. notifying' \in Seq(Frame) /\ call' = Modify
    BY <1>1, NotifyAtOnce DEF SetValue, Input
  <2>2. QED
    BY <1>1, <2>1, ReplyType DEF SetValue, TypeOK, CallInv, Modify, NoCall, Call
<1>2. ASSUME NEW l \in Link, NEW t \in Targets[l] \cup {None},
             NEW r \in RegisterModes, LinkTo(l, t, r)
      PROVE  TypeOK' /\ CallInv'
  <2>1. notifying' \in Seq(Frame) /\ call' = Modify
    BY <1>2, NotifyAtOnce DEF LinkTo, Input
  <2>2. t \in Quote \cup Lazy \cup {None} /\ r \in BOOLEAN
    BY NetworkAssumption
  <2>3. QED
    BY <1>2, <2>1, <2>2, ReplyType
    DEF LinkTo, TypeOK, CallInv, Modify, NoCall, Call
<1>3. ASSUME NEW n \in Controlled, Freeze(n)
      PROVE  TypeOK' /\ CallInv'
  BY <1>3, ReplyType DEF Freeze, TypeOK, CallInv
<1>4. ASSUME NEW n \in Controlled, Unfreeze(n)
      PROVE  TypeOK' /\ CallInv'
  <2>1. notifying' \in Seq(Frame) /\ call' = Modify
    BY <1>4, NotifyAtOnce, NetworkAssumption DEF Unfreeze, Input
  <2>2. QED
    BY <1>4, <2>1, ReplyType DEF Unfreeze, TypeOK, CallInv, Modify, NoCall, Call
<1>5. ASSUME NEW n \in Controlled, Recalculate(n)
      PROVE  TypeOK' /\ CallInv'
  <2>1. n \in Lazy /\ n \in Consumer
    BY NetworkAssumption DEF Consumer
  <2>2. call' \in Call /\ CallInv'
    BY <1>5, <2>1 DEF Recalculate, CallInv, Call, TypeOK, Idle
  <2>3. QED
    BY <1>5, <2>1, <2>2, EnterType, ReplyType DEF Recalculate, TypeOK
<1>6. ASSUME NEW n \in Lazy, Query(n)
      PROVE  TypeOK' /\ CallInv'
  <2>1. call' \in Call /\ CallInv'
    BY <1>6 DEF Query, CallInv, Call, NoCall, TypeOK, Idle
  <2>2. CASE NeedsCalculation(n)
    BY <1>6, <2>1, <2>2, EnterType, ReplyType DEF Query, TypeOK, Consumer
  <2>3. CASE ~NeedsCalculation(n)
    BY <1>6, <2>1, <2>3, ReplyType DEF Query, TypeOK
  <2>4. QED
    BY <2>2, <2>3
<1>7. ASSUME NEW o \in Reader, Look(o)
      PROVE  TypeOK' /\ CallInv'
  BY <1>7, EnterType, ReplyType
  DEF Look, TypeOK, CallInv, Modify, NoCall, Call, Consumer
<1>8. ASSUME NEW l \in Link, UpdateLink(l)
      PROVE  TypeOK' /\ CallInv'
  BY <1>8, UpdateType DEF UpdateLink, InLoop, TypeOK, CallInv, Input
<1>9. ASSUME NEW n \in Lazy, UpdateLazy(n)
      PROVE  TypeOK' /\ CallInv'
  BY <1>9, UpdateType, VisitedType, OutdateType
  DEF UpdateLazy, InLoop, TypeOK, CallInv, Input
<1>10. ASSUME NEW o \in Reader, UpdateFlag(o)
       PROVE  TypeOK' /\ CallInv'
  BY <1>10, VisitedType, OutdateType DEF UpdateFlag, InLoop, TypeOK, CallInv
<1>11. ASSUME NEW o \in Reader, UpdateReader(o)
       PROVE  TypeOK' /\ CallInv'
  BY <1>11, VisitedType, EnterType DEF UpdateReader, InLoop, TypeOK, CallInv, Consumer
<1>12. ASSUME EndNotify
       PROVE  TypeOK' /\ CallInv'
  BY <1>12, EndNotifyType DEF EndNotify, TypeOK, CallInv
<1>13. ASSUME NEW d \in Input, Descend(d)
       PROVE  TypeOK' /\ CallInv'
  BY <1>13, EnterType DEF Descend, TypeOK, CallInv, Consumer
<1>14. ASSUME NEW d \in Input, Read(d)
       PROVE  TypeOK' /\ CallInv'
  <2>1. Current \in Consumer
    BY <1>14, HasTop DEF Read, Reading, Current, TypeOK
  <2>2. Source(d) \in Quote \cup Lazy
    BY <1>14 DEF Read, Unusable, Source, TypeOK, Input
  <2>3. Content(Source(d)) \in Number \cup {Null}
    BY <2>2 DEF Content, TypeOK
  <2>4. QED
    BY <1>14, <2>1, <2>3 DEF Read, TypeOK, CallInv
<1>15. ASSUME Finish
       PROVE  TypeOK' /\ CallInv'
  <2>1. results' \in [Lazy -> Number \cup {Null}]
    BY <1>15, ResultType DEF Finish, TypeOK
  <2>2. computing' \in Seq(Consumer)
    BY <1>15, Pop DEF Finish, TypeOK
  <2>3. QED
    BY <1>15, <2>1, <2>2 DEF Finish, TypeOK, CallInv
<1>16. ASSUME Throw
       PROVE  TypeOK' /\ CallInv'
  <2>1. CallInv'
    BY <1>16, ThrowType DEF CallInv, Throw, TypeOK
  <2>2. QED
    BY <1>16, <2>1, ThrowType, OutdateType DEF Throw, TypeOK
<1>17. ASSUME EndRecalculate
       PROVE  TypeOK' /\ CallInv'
  <2>1. notifying' \in Seq(Frame)
    BY <1>17, NotifyAtOnce DEF EndRecalculate, CallInv, Input
  <2>2. call' \in Call /\ call'.op = "modify"
    BY <1>17 DEF EndRecalculate, Modify, NoCall, Call, TypeOK
  <2>3. QED
    BY <1>17, <2>1, <2>2 DEF EndRecalculate, TypeOK, CallInv, Call
<1>18. ASSUME EndQuery
       PROVE  TypeOK' /\ CallInv'
  <2>1. reply' \in Reply
    BY <1>18, ReplyType DEF EndQuery, TypeOK, CallInv
  <2>2. QED
    BY <1>18, <2>1 DEF EndQuery, TypeOK, CallInv, NoCall, Call
<1>19. ASSUME EndModify
       PROVE  TypeOK' /\ CallInv'
  <2>1. reply' \in Reply
    BY <1>19, ReplyType DEF EndModify
  <2>2. QED
    BY <1>19, <2>1 DEF EndModify, TypeOK, CallInv, NoCall, Call
<1>20. CASE UNCHANGED vars
  BY <1>20 DEF vars, TypeOK, CallInv
<1>21. QED
  BY <1>1, <1>2, <1>3, <1>4, <1>5, <1>6, <1>7, <1>8, <1>9, <1>10, <1>11, <1>12,
     <1>13, <1>14, <1>15, <1>16, <1>17, <1>18, <1>19, <1>20
  DEF Next, ClientCall, NotifyStep, ComputeStep, EndCall

-----------------------------------------------------------------------------
(* The calculations under way. *)

LEMMA LinkStep ==
  ASSUME LinkInv, [Next]_vars
  PROVE  LinkInv'
<1>. USE DEF LinkInv, inputs, caches, vars
<1>1. ASSUME NEW l \in Link, NEW t \in Targets[l] \cup {None},
             NEW r \in RegisterModes, LinkTo(l, t, r)
      PROVE  LinkInv'
  <2>1. target' = [target EXCEPT ![l] = t]
    BY <1>1 DEF LinkTo
  <2>2. QED
    BY <2>1
<1>2. CASE UNCHANGED target
  BY <1>2
<1>3. QED
  BY <1>1, <1>2
  DEF Next, ClientCall, NotifyStep, ComputeStep, EndCall, SetValue, Freeze, Unfreeze,
      Recalculate, Query, Look, UpdateLink, UpdateLazy, UpdateFlag, UpdateReader,
      EndNotify, Descend, Read, Finish, Throw, EndRecalculate, EndQuery, EndModify

\* What a consumer reads lies below it.
LEMMA SourceBelow ==
  ASSUME TypeOK, LinkInv, NEW n \in Consumer, NEW d \in Reads[n]
  PROVE  /\ d \in Input
         /\ Source(d) \in Quote \cup Lazy \cup {None}
         /\ Source(d) # None => Rank[Source(d)] < Rank[n]
<1>1. d \in Input /\ d \in Object /\ n \in Object
  BY NetworkAssumption DEF Input, Object, Consumer
<1>2. Rank[d] < Rank[n] /\ Rank[d] \in Nat /\ Rank[n] \in Nat
  BY <1>1, NetworkAssumption
<1>3. CASE d \in Link
  <2>1. Source(d) = target[d] /\ target[d] \in Targets[d] \cup {None}
    BY <1>3 DEF Source, LinkInv
  <2>2. CASE target[d] \in Targets[d]
    <3>1. target[d] \in Quote \cup Lazy /\ Rank[target[d]] < Rank[d]
      BY <1>3, <2>2, NetworkAssumption
    <3>2. Rank[target[d]] \in Nat
      BY <3>1, NetworkAssumption DEF Object, Consumer
    <3>3. QED
      BY <1>1, <1>2, <2>1, <3>1, <3>2
  <2>3. QED
    BY <1>1, <2>1, <2>2
<1>4. CASE d \notin Link
  BY <1>1, <1>2, <1>4 DEF Source, Input
<1>5. QED
  BY <1>3, <1>4

\* The object on top of the stack has the lowest rank: nothing below it on
\* the stack is read by it.
LEMMA TopIsLowest ==
  ASSUME TypeOK, DescentInv, computing # <<>>, NEW i \in 1 .. Len(computing)
  PROVE  /\ Current \in Consumer
         /\ Rank[Current] <= Rank[computing[i]]
<1>1. /\ Len(computing) \in 1 .. Len(computing) /\ Len(computing) \in Nat
      /\ Current \in Consumer /\ computing[i] \in Consumer
  BY HasTop, ElementOfSeq DEF TypeOK, Current
<1>2. Rank[Current] \in Nat /\ Rank[computing[i]] \in Nat
  BY <1>1, NetworkAssumption DEF Object
<1>3. CASE i = Len(computing)
  BY <1>1, <1>2, <1>3 DEF Current
<1>4. CASE i < Len(computing)
  BY <1>1, <1>2, <1>4 DEF DescentInv, Current
<1>5. QED
  BY <1>1, <1>3, <1>4

CalcInv == ComputingInv /\ DescentInv /\ CompleteInv

\* Starting a calculation below those under way.
LEMMA EnterCalc ==
  ASSUME TypeOK, CalcInv, NEW n \in Consumer, Enter(n), n \in Lazy => ~frozen'[n],
         \A i \in 1 .. Len(computing) : Rank[n] < Rank[computing[i]],
         \A m \in Lazy : frozen'[m] => frozen[m]
  PROVE  CalcInv'
<1>1. /\ computing' = Append(computing, n)
      /\ Len(computing') = Len(computing) + 1 /\ Len(computing) \in Nat
      /\ computing'[Len(computing) + 1] = n
      /\ \A i \in 1 .. Len(computing) :
           computing'[i] = computing[i] /\ computing[i] \in Consumer
  BY Push, ElementOfSeq DEF Enter, TypeOK
<1>2. calculated' = [calculated EXCEPT ![n] = TRUE] /\ results' = results
      /\ seen' = [seen EXCEPT ![n] = Unread]
  BY DEF Enter
<1>3. ComputingInv'
  <2>. SUFFICES ASSUME NEW i \in 1 .. Len(computing) + 1
                PROVE  /\ calculated'[computing'[i]]
                       /\ computing'[i] \in Lazy => ~frozen'[computing'[i]]
    BY <1>1 DEF ComputingInv
  <2>1. CASE i \in 1 .. Len(computing)
    BY <1>1, <1>2, <2>1 DEF CalcInv, ComputingInv, TypeOK
  <2>2. CASE i = Len(computing) + 1
    BY <1>1, <1>2, <2>2 DEF TypeOK
  <2>3. QED
    BY <1>1, <2>1, <2>2
<1>4. DescentInv'
  <2>. SUFFICES ASSUME NEW i \in 1 .. Len(computing) + 1,
                       NEW j \in 1 .. Len(computing) + 1, i < j
                PROVE  Rank[computing'[j]] < Rank[computing'[i]]
    BY <1>1 DEF DescentInv
  <2>1. i \in 1 .. Len(computing)
    BY <1>1
  <2>2. CASE j \in 1 .. Len(computing)
    BY <1>1, <2>1, <2>2 DEF CalcInv, DescentInv
  <2>3. CASE j = Len(computing) + 1
    BY <1>1, <2>1, <2>3
  <2>4. QED
    BY <1>1, <2>2, <2>3
<1>5. CompleteInv'
  <2>. SUFFICES ASSUME NEW m \in Consumer, calculated'[m], m \notin Computing'
                PROVE  AllRead(m)' /\ (m \in Lazy => results'[m] = Evaluate(m, seen'[m]))
    BY DEF CompleteInv
  <2>1. n \in Computing' /\ Computing \subseteq Computing'
    BY <1>1 DEF Computing
  <2>2. m # n /\ m \notin Computing /\ calculated[m] /\ seen'[m] = seen[m]
    BY <1>2, <2>1 DEF TypeOK
  <2>3. QED
    BY <1>2, <2>2 DEF CalcInv, CompleteInv, AllRead
<1>6. QED
  BY <1>3, <1>4, <1>5 DEF CalcInv

\* A flag that drops takes the object out of CompleteInv's reach.
LEMMA OutdateCalc ==
  ASSUME TypeOK, CalcInv, NEW S, Outdate(S), UNCHANGED frozen,
         \/ computing = <<>> /\ computing' = <<>>
         \/ S = Computing /\ computing' = <<>>
  PROVE  CalcInv'
<1>1. ComputingInv' /\ DescentInv'
  BY DEF ComputingInv, DescentInv
<1>2. CompleteInv'
  <2>. SUFFICES ASSUME NEW m \in Consumer, calculated'[m]
                PROVE  AllRead(m)' /\ (m \in Lazy => results'[m] = Evaluate(m, seen'[m]))
    BY DEF CompleteInv
  <2>1. m \notin S /\ calculated[m] /\ seen'[m] = seen[m] /\ results' = results
    BY DEF Outdate
  <2>2. m \notin Computing
    BY <2>1 DEF Computing
  <2>3. QED
    BY <2>1, <2>2 DEF CalcInv, CompleteInv, AllRead
<1>3. QED
  BY <1>1, <1>2 DEF CalcInv

\* Nothing about the calculations changes.
LEMMA QuietCalc ==
  ASSUME CalcInv, UNCHANGED <<calculated, results, seen, computing>>,
         frozen' = frozen \/ computing = <<>>
  PROVE  CalcInv'
BY DEF CalcInv, ComputingInv, DescentInv, CompleteInv, AllRead, Computing

LEMMA ReadCalc ==
  ASSUME TypeOK, CalcInv, NEW d \in Input, Read(d)
  PROVE  CalcInv'
<1>1. Current \in Computing /\ Current \in Consumer
  BY HasTop DEF Read, Reading, Current, Computing, TypeOK
<1>2. /\ UNCHANGED <<calculated, results, frozen, computing>>
      /\ \A m \in Consumer : m # Current => seen'[m] = seen[m]
  BY DEF Read, TypeOK
<1>3. ComputingInv' /\ DescentInv'
  BY <1>2 DEF CalcInv, ComputingInv, DescentInv
<1>4. CompleteInv'
  BY <1>1, <1>2 DEF CalcInv, CompleteInv, AllRead, Computing
<1>5. QED
  BY <1>3, <1>4 DEF CalcInv

LEMMA FinishCalc ==
  ASSUME TypeOK, CalcInv, Finish
  PROVE  CalcInv' /\ Computing' \subseteq Computing
<1>1. /\ computing' \in Seq(Consumer) /\ Len(computing') = Len(computing) - 1
      /\ Len(computing) \in Nat \ {0} /\ Current \in Consumer
      /\ \A i \in 1 .. Len(computing) - 1 : computing'[i] = computing[i]
  BY Pop, HasTop DEF Finish, TypeOK, Current
<1>2. UNCHANGED <<calculated, seen, frozen>>
  BY DEF Finish
<1>3. /\ Computing' \subseteq Computing
      /\ \A m \in Computing \ Computing' : m = Current
  BY <1>1 DEF Computing, Current
<1>4. ComputingInv' /\ DescentInv'
  BY <1>1, <1>2 DEF CalcInv, ComputingInv, DescentInv
<1>5. /\ AllRead(Current)
      /\ Current \in Lazy => results'[Current] = Evaluate(Current, seen[Current])
      /\ \A m \in Lazy : m # Current => results'[m] = results[m]
  BY DEF Finish, TypeOK
<1>6. CompleteInv'
  <2>. SUFFICES ASSUME NEW m \in Consumer, calculated[m], m \notin Computing'
                PROVE  AllRead(m) /\ (m \in Lazy => results'[m] = Evaluate(m, seen[m]))
    BY <1>2 DEF CompleteInv, AllRead
  <2>1. CASE m = Current
    BY <1>5, <2>1
  <2>2. CASE m # Current
    BY <1>3, <1>5, <2>2 DEF CalcInv, CompleteInv
  <2>3. QED
    BY <2>1, <2>2
<1>7. QED
  BY <1>3, <1>4, <1>6 DEF CalcInv

LEMMA DescendCalc ==
  ASSUME TypeOK, LinkInv, CalcInv, NEW d \in Input, Descend(d)
  PROVE  CalcInv'
<1>1. computing # <<>> /\ d \in Reads[Current] /\ Source(d) \in Lazy
      /\ Enter(Source(d)) /\ ~frozen[Source(d)] /\ frozen' = frozen
  BY DEF Descend, Reading, NeedsCalculation
<1>2. Current \in Consumer
  BY <1>1, HasTop DEF Current, TypeOK
<1>3. Rank[Source(d)] < Rank[Current] /\ Source(d) \in Consumer /\ Source(d) \in Object
  BY <1>1, <1>2, SourceBelow, NetworkAssumption DEF Consumer, Object
<1>4. ASSUME NEW i \in 1 .. Len(computing)
      PROVE  Rank[Source(d)] < Rank[computing[i]]
  <2>1. Rank[Current] <= Rank[computing[i]] /\ computing[i] \in Consumer
    BY <1>1, TopIsLowest, ElementOfSeq DEF CalcInv, TypeOK
  <2>2. Rank[Current] \in Nat /\ Rank[computing[i]] \in Nat /\ Rank[Source(d)] \in Nat
    BY <1>2, <1>3, <2>1, NetworkAssumption DEF Object
  <2>3. QED
    BY <1>3, <2>1, <2>2
<1>5. QED
  BY <1>1, <1>3, <1>4, EnterCalc

LEMMA CalcStep ==
  ASSUME TypeOK, LinkInv, CalcInv, [Next]_vars
  PROVE  CalcInv'
<1>. USE DEF inputs, caches
<1>1. ASSUME NEW n \in Controlled, Recalculate(n)
      PROVE  CalcInv'
  <2>1. n \in Lazy /\ n \in Consumer
    BY NetworkAssumption DEF Consumer
  <2>2. computing = <<>> /\ Enter(n) /\ frozen' = [frozen EXCEPT ![n] = FALSE]
    BY <1>1 DEF Recalculate, Idle
  <2>3. ~frozen'[n] /\ \A m \in Lazy : frozen'[m] => frozen[m]
    BY <2>1, <2>2 DEF TypeOK
  <2>4. QED
    BY <2>1, <2>2, <2>3, EnterCalc
<1>2. ASSUME NEW n \in Lazy, Query(n)
      PROVE  CalcInv'
  <2>1. CASE NeedsCalculation(n)
    BY <1>2, <2>1, EnterCalc DEF Query, Idle, NeedsCalculation, Consumer
  <2>2. CASE ~NeedsCalculation(n)
    BY <1>2, <2>2, QuietCalc DEF Query
  <2>3. QED
    BY <2>1, <2>2
<1>3. ASSUME NEW o \in Reader, Look(o)
      PROVE  CalcInv'
  BY <1>3, EnterCalc, NetworkAssumption DEF Look, Idle, Consumer
<1>4. ASSUME NEW n \in Lazy, UpdateLazy(n)
      PROVE  CalcInv'
  BY <1>4, OutdateCalc DEF UpdateLazy, InLoop
<1>5. ASSUME NEW o \in Reader, UpdateFlag(o)
      PROVE  CalcInv'
  BY <1>5, OutdateCalc DEF UpdateFlag, InLoop
<1>6. ASSUME NEW o \in Reader, UpdateReader(o)
      PROVE  CalcInv'
  BY <1>6, EnterCalc, NetworkAssumption DEF UpdateReader, InLoop, Consumer
<1>7. ASSUME NEW d \in Input, Descend(d) \/ Read(d)
      PROVE  CalcInv'
  BY <1>7, DescendCalc, ReadCalc
<1>8. CASE Finish
  BY <1>8, FinishCalc
<1>9. CASE Throw
  BY <1>9, OutdateCalc DEF Throw
<1>10. CASE /\ UNCHANGED <<calculated, results, seen, computing>>
            /\ frozen' = frozen \/ computing = <<>>
  BY <1>10, QuietCalc
<1>11. QED
  BY <1>1, <1>2, <1>3, <1>4, <1>5, <1>6, <1>7, <1>8, <1>9, <1>10
  DEF Next, ClientCall, NotifyStep, ComputeStep, EndCall, SetValue, LinkTo, Freeze,
      Unfreeze, UpdateLink, EndNotify, EndRecalculate, EndQuery, EndModify, Idle, vars

-----------------------------------------------------------------------------
(* The inputs read are current, or a notification is on its way. *)

\* What must be kept for one input, when nothing about inputs changes.
LEMMA KeepCurrent ==
  ASSUME NEW n \in Consumer, NEW d \in Reads[n], InputCurrent(n, d),
         UNCHANGED inputs, seen'[n][d] = seen[n][d],
         Pending(d, n) => InputCurrent(n, d)',
         d \in Link /\ Pending(target[d], d) => InputCurrent(n, d)',
         call.op = "recalculate" /\ call.node = Source(d) => InputCurrent(n, d)',
         Settled(Source(d)) =>
           Settled(Source(d))' /\ Content(Source(d))' = Content(Source(d))
  PROVE  InputCurrent(n, d)'
<1>1. Source(d)' = Source(d)
  BY DEF Source, inputs
<1>2. CASE d \in Link /\ ~isObserver[d]
  BY <1>2 DEF InputCurrent, inputs
<1>3. CASE Settled(Source(d)) /\ seen[n][d] = Content(Source(d))
  BY <1>1, <1>3 DEF InputCurrent
<1>4. QED
  BY <1>2, <1>3 DEF InputCurrent

\* At rest nothing is pending: each input is unobserved, or still what it was.
LEMMA AtRest ==
  ASSUME Idle, NEW n \in Consumer, NEW d \in Reads[n], InputCurrent(n, d)
  PROVE  \/ d \in Link /\ ~isObserver[d]
         \/ Settled(Source(d)) /\ seen[n][d] = Content(Source(d))
BY DEF Idle, InputCurrent, Pending

\* A fresh notification of s is on its way to all that read s, even by a link.
LEMMA NotifiedFirst ==
  ASSUME NEW s \in Input, notifying' = <<Notification(s)>>,
         UNCHANGED <<target, isObserver>>,
         NEW n \in Consumer, NEW d \in Reads[n], s = d \/ s = Source(d)
  PROVE  InputCurrent(n, d)'
<1>1. \A m \in ObserversOf(s) : Pending(s, m)'
  BY DEF Pending, Notification
<1>2. CASE d = s
  BY <1>1, <1>2 DEF ObserversOf, InputCurrent
<1>3. CASE d \in Link /\ target[d] = s /\ isObserver[d]
  BY <1>1, <1>3 DEF ObserversOf, InputCurrent
<1>4. CASE d \in Link /\ ~isObserver[d]
  BY <1>4 DEF InputCurrent
<1>5. QED
  BY <1>2, <1>3, <1>4 DEF Source

LEMMA SetValueCurrent ==
  ASSUME TypeOK, LinkInv, InputsCurrent, NEW q \in Quote, NEW v, SetValue(q, v)
  PROVE  InputsCurrent'
<1>1. /\ Idle /\ notifying' = <<Notification(q)>> /\ q \in Input
      /\ value' = [value EXCEPT ![q] = v]
      /\ UNCHANGED <<target, isObserver, calculated, results, seen, frozen, computing>>
  BY DEF SetValue, caches, Input
<1>. SUFFICES ASSUME NEW n \in Consumer, NEW d \in Reads[n], seen[n][d] # Null
              PROVE  InputCurrent(n, d)'
  BY <1>1 DEF InputsCurrent
<1>2. CASE q = d \/ q = Source(d)
  BY <1>1, <1>2, NotifiedFirst
<1>3. CASE q # d /\ q # Source(d)
  <2>1. \/ d \in Link /\ ~isObserver[d]
        \/ Settled(Source(d)) /\ seen[n][d] = Content(Source(d))
    BY <1>1, AtRest DEF InputsCurrent
  <2>2. Source(d)' = Source(d) /\ Content(Source(d))' = Content(Source(d))
        /\ Settled(Source(d))' = Settled(Source(d))
    BY <1>1, <1>3 DEF Source, Content, Settled, TypeOK, Computing
  <2>3. QED
    BY <1>1, <2>1, <2>2 DEF InputCurrent
<1>4. QED
  BY <1>2, <1>3

LEMMA LinkToCurrent ==
  ASSUME TypeOK, LinkInv, InputsCurrent, NEW l \in Link, NEW t, NEW r, LinkTo(l, t, r)
  PROVE  InputsCurrent'
<1>1. /\ Idle /\ notifying' = <<Notification(l)>>
      /\ target' = [target EXCEPT ![l] = t]
      /\ isObserver' = [isObserver EXCEPT ![l] = r]
      /\ UNCHANGED <<value, calculated, results, seen, frozen, computing>>
  BY DEF LinkTo, caches
<1>. SUFFICES ASSUME NEW n \in Consumer, NEW d \in Reads[n], seen[n][d] # Null
              PROVE  InputCurrent(n, d)'
  BY <1>1 DEF InputsCurrent
<1>2. CASE d = l
  <2>1. n \in ObserversOf(l)
    BY <1>2 DEF ObserversOf
  <2>2. Pending(l, n)'
    BY <1>1, <2>1 DEF Pending, Notification
  <2>3. QED
    BY <1>2, <2>2 DEF InputCurrent
<1>3. CASE d # l
  <2>1. \/ d \in Link /\ ~isObserver[d]
        \/ Settled(Source(d)) /\ seen[n][d] = Content(Source(d))
    BY <1>1, AtRest DEF InputsCurrent
  <2>2. /\ Source(d)' = Source(d) /\ Content(Source(d))' = Content(Source(d))
        /\ Settled(Source(d))' = Settled(Source(d))
        /\ d \in Link => isObserver'[d] = isObserver[d]
    BY <1>1, <1>3 DEF Source, Content, Settled, TypeOK, Computing
  <2>3. QED
    BY <1>1, <2>1, <2>2 DEF InputCurrent
<1>4. QED
  BY <1>2, <1>3

LEMMA FreezeCurrent ==
  ASSUME TypeOK, InputsCurrent, NEW f \in Lazy, Freeze(f)
  PROVE  InputsCurrent'
<1>1. /\ Idle /\ frozen' = [frozen EXCEPT ![f] = TRUE]
      /\ UNCHANGED <<value, target, isObserver, calculated, results, seen, computing>>
  BY DEF Freeze, caches, inputs
<1>. SUFFICES ASSUME NEW n \in Consumer, NEW d \in Reads[n], seen[n][d] # Null
              PROVE  InputCurrent(n, d)'
  BY <1>1 DEF InputsCurrent
<1>2. \/ d \in Link /\ ~isObserver[d]
      \/ Settled(Source(d)) /\ seen[n][d] = Content(Source(d))
  BY <1>1, AtRest DEF InputsCurrent
<1>3. Source(d)' = Source(d) /\ Content(Source(d))' = Content(Source(d))
      /\ (Settled(Source(d)) => Settled(Source(d))')
  BY <1>1 DEF Source, Content, Settled, TypeOK, Computing
<1>4. QED
  BY <1>1, <1>2, <1>3 DEF InputCurrent

\* Thawing f, on request or at the end of recalculate, notifies its observers.
LEMMA ThawCurrent ==
  ASSUME TypeOK, InputsCurrent, NEW f \in Lazy, NEW b, notifying = <<>>,
         notifying' = <<Notification(f)>>, frozen' = [frozen EXCEPT ![f] = b],
         UNCHANGED <<inputs, caches, computing>>,
         call.op = "recalculate" => call.node = f
  PROVE  InputsCurrent'
<1>. SUFFICES ASSUME NEW n \in Consumer, NEW d \in Reads[n], seen[n][d] # Null
              PROVE  InputCurrent(n, d)'
  BY DEF InputsCurrent, caches
<1>1. CASE f = d \/ f = Source(d)
  BY <1>1, NotifiedFirst DEF Input, inputs
<1>2. CASE f # d /\ f # Source(d)
  <2>1. \A s, m : ~Pending(s, m)
    BY DEF Pending
  <2>2. Source(d)' = Source(d) /\ Content(Source(d))' = Content(Source(d))
        /\ (Settled(Source(d)) => Settled(Source(d))')
    BY <1>2 DEF Source, Content, Settled, TypeOK, Computing, inputs, caches
  <2>3. InputCurrent(n, d) /\ seen' = seen /\ isObserver' = isObserver
    BY DEF InputsCurrent, inputs, caches
  <2>4. QED
    BY <1>2, <2>1, <2>2, <2>3 DEF InputCurrent
<1>3. QED
  BY <1>1, <1>2

LEMMA RecalculateCurrent ==
  ASSUME TypeOK, InputsCurrent, NEW f \in Lazy, Recalculate(f)
  PROVE  InputsCurrent'
<1>1. /\ Idle /\ frozen' = [frozen EXCEPT ![f] = FALSE]
      /\ call'.op = "recalculate" /\ call'.node = f
      /\ calculated' = [calculated EXCEPT ![f] = TRUE] /\ computing' = <<f>>
      /\ seen' = [seen EXCEPT ![f] = Unread]
      /\ UNCHANGED <<value, target, isObserver, results>>
  BY DEF Recalculate, Enter, inputs, Idle
<1>. SUFFICES ASSUME NEW n \in Consumer, NEW d \in Reads[n], seen'[n][d] # Null
              PROVE  InputCurrent(n, d)'
  BY DEF InputsCurrent
<1>2. d \in Input
  BY NetworkAssumption
<1>3. n # f /\ seen'[n] = seen[n]
  BY <1>1, <1>2 DEF TypeOK, Unread
<1>4. Source(d)' = Source(d)
  BY <1>1 DEF Source
<1>5. CASE Source(d) = f
  BY <1>1, <1>4, <1>5 DEF InputCurrent
<1>6. CASE Source(d) # f
  <2>1. \/ d \in Link /\ ~isObserver[d]
        \/ Settled(Source(d)) /\ seen[n][d] = Content(Source(d))
    BY <1>1, <1>3, AtRest DEF InputsCurrent
  <2>2. Content(Source(d))' = Content(Source(d))
    BY <1>1, <1>4 DEF Content
  <2>3. Computing' = {f}
    BY <1>1 DEF Computing
  <2>4. Settled(Source(d)) => Settled(Source(d))'
    BY <1>1, <1>4, <1>6, <2>3 DEF Settled, TypeOK
  <2>5. QED
    BY <1>1, <1>3, <1>4, <2>1, <2>2, <2>4 DEF InputCurrent
<1>7. QED
  BY <1>5, <1>6

\* Starting a calculation of an object whose results no one relies on.
LEMMA EnterCurrent ==
  ASSUME TypeOK, InputsCurrent, NEW f \in Consumer, Enter(f), ~Settled(f),
         UNCHANGED <<inputs, frozen>>,
         \A s, m : m # f /\ Pending(s, m) => Pending(s, m)',
         call.op = "recalculate" => call' = call
  PROVE  InputsCurrent'
<1>1. /\ calculated' = [calculated EXCEPT ![f] = TRUE] /\ results' = results
      /\ seen' = [seen EXCEPT ![f] = Unread] /\ computing' = Append(computing, f)
  BY DEF Enter
<1>. SUFFICES ASSUME NEW n \in Consumer, NEW d \in Reads[n], seen'[n][d] # Null
              PROVE  InputCurrent(n, d)'
  BY DEF InputsCurrent
<1>2. d \in Input /\ (d \in Link => d # f)
  BY NetworkAssumption
<1>3. n # f /\ seen'[n] = seen[n]
  BY <1>1, <1>2 DEF TypeOK, Unread
<1>4. InputCurrent(n, d)
  BY <1>3 DEF InputsCurrent
<1>5. Computing' = Computing \cup {f}
  <2>1. /\ Len(computing') = Len(computing) + 1 /\ Len(computing) \in Nat
        /\ computing'[Len(computing) + 1] = f
        /\ \A i \in 1 .. Len(computing) : computing'[i] = computing[i]
    BY <1>1, Push DEF TypeOK
  <2>2. QED
    BY <2>1 DEF Computing
<1>6. Source(d)' = Source(d)
  BY DEF Source, inputs
<1>7. Settled(Source(d)) =>
        Settled(Source(d))' /\ Content(Source(d))' = Content(Source(d))
  BY <1>1, <1>5, <1>6 DEF Settled, Content, TypeOK, inputs
<1>8. Pending(d, n) => InputCurrent(n, d)'
  BY <1>3 DEF InputCurrent
<1>9. d \in Link /\ Pending(target[d], d) => InputCurrent(n, d)'
  BY <1>2 DEF InputCurrent, inputs
<1>10. call.op = "recalculate" /\ call.node = Source(d) => InputCurrent(n, d)'
  BY <1>6 DEF InputCurrent
<1>11. QED
  BY <1>3, <1>4, <1>7, <1>8, <1>9, <1>10, KeepCurrent

\* One turn of the innermost loop: only the observer called is struck off.
LEMMA VisitPending ==
  ASSUME TypeOK, NEW x, InLoop(x), NEW s, NEW m, m # x, Pending(s, m),
         \/ notifying' = Visited(x)
         \/ \E y \in Input : notifying' = Append(Visited(x), Notification(y))
  PROVE  Pending(s, m)'
<1>1. PICK i \in 1 .. Len(notifying) : notifying[i].node = s /\ m \in notifying[i].todo
  BY DEF Pending
<1>2. /\ Visited(x) \in Seq(Frame) /\ Len(Visited(x)) = Len(notifying)
      /\ Visited(x)[i].node = s /\ m \in Visited(x)[i].todo
  BY <1>1, VisitedType
<1>3. CASE notifying' = Visited(x)
  BY <1>1, <1>2, <1>3 DEF Pending
<1>4. ASSUME NEW y \in Input, notifying' = Append(Visited(x), Notification(y))
      PROVE  Pending(s, m)'
  <2>1. /\ Len(notifying') = Len(notifying) + 1 /\ Len(notifying) \in Nat
        /\ notifying'[i] = Visited(x)[i]
    BY <1>1, <1>2, <1>4, NotificationType, Push DEF TypeOK
  <2>2. QED
    BY <1>1, <1>2, <2>1 DEF Pending
<1>5. QED
  BY <1>3, <1>4

LEMMA ForwardPending ==
  ASSUME TypeOK, NEW x \in Input, InLoop(x), NEW m \in ObserversOf(x),
         notifying' = Append(Visited(x), Notification(x))
  PROVE  Pending(x, m)'
<1>1. Len(notifying') = Len(notifying) + 1 /\ Len(notifying) \in Nat
      /\ notifying'[Len(notifying) + 1] = Notification(x)
  BY VisitedType, NotificationType, Push DEF TypeOK
<1>2. QED
  BY <1>1 DEF Pending, Notification

LEMMA UpdateLinkCurrent ==
  ASSUME TypeOK, InputsCurrent, NEW l \in Link, UpdateLink(l)
  PROVE  InputsCurrent'
<1>1. /\ InLoop(l) /\ l \in Input
      /\ notifying' = Append(Visited(l), Notification(l))
      /\ UNCHANGED <<inputs, calculated, results, seen, frozen, computing, call>>
  BY DEF UpdateLink, caches, Input
<1>. SUFFICES ASSUME NEW n \in Consumer, NEW d \in Reads[n], seen[n][d] # Null
              PROVE  InputCurrent(n, d)'
  BY <1>1 DEF InputsCurrent
<1>2. n # l
  BY NetworkAssumption
<1>3. InputCurrent(n, d) /\ Source(d)' = Source(d)
  BY <1>1 DEF InputsCurrent, Source, inputs
<1>4. Pending(d, n) => InputCurrent(n, d)'
  BY <1>1, <1>2, VisitPending DEF InputCurrent
<1>5. d \in Link /\ Pending(target[d], d) => InputCurrent(n, d)'
  <2>1. CASE d = l
    BY <1>1, <2>1, ForwardPending DEF ObserversOf, InputCurrent
  <2>2. CASE d # l
    BY <1>1, <2>2, VisitPending DEF InputCurrent, inputs
  <2>3. QED
    BY <2>1, <2>2
<1>6. QED
  <2>1. Settled(Source(d)) =>
          Settled(Source(d))' /\ Content(Source(d))' = Content(Source(d))
    BY <1>1, <1>3 DEF Settled, Content, Computing, inputs
  <2>2. call.op = "recalculate" /\ call.node = Source(d) => InputCurrent(n, d)'
    BY <1>1, <1>3 DEF InputCurrent
  <2>3. QED
    BY <1>1, <1>3, <1>4, <1>5, <2>1, <2>2, KeepCurrent

\* calculated_ drops on the members of S; if anyone may rely on their results
\* it is told.
LEMMA OutdateCurrent ==
  ASSUME TypeOK, InputsCurrent, NEW S, Outdate(S),
         UNCHANGED <<inputs, frozen>>, Computing' \subseteq Computing,
         call'.op = call.op, call'.node = call.node,
         \A s, m : m \notin S /\ Pending(s, m) => Pending(s, m)',
         S \cap Link = {},
         \A f \in S \cap Lazy : \/ ~Settled(f) \/ frozen[f]
                              \/ \A m \in ObserversOf(f) : Pending(f, m)'
  PROVE  InputsCurrent'
<1>1. /\ calculated' = [n \in Consumer |-> calculated[n] /\ n \notin S]
      /\ seen' = [n \in Consumer |-> IF n \in S THEN Unread ELSE seen[n]]
      /\ results' = results
  BY DEF Outdate
<1>. SUFFICES ASSUME NEW n \in Consumer, NEW d \in Reads[n], seen'[n][d] # Null
              PROVE  InputCurrent(n, d)'
  BY DEF InputsCurrent
<1>2. d \in Input
  BY NetworkAssumption
<1>3. n \notin S /\ seen'[n] = seen[n]
  BY <1>1, <1>2 DEF Unread
<1>4. InputCurrent(n, d) /\ Source(d)' = Source(d)
  BY <1>3 DEF InputsCurrent, Source, inputs
<1>5. CASE Settled(Source(d)) /\ ~Settled(Source(d))'
  <2>1. PICK f \in S \cap Lazy : f = Source(d) /\ Settled(f) /\ ~frozen[f]
    BY <1>1, <1>4, <1>5 DEF Settled, Consumer
  <2>2. \A m \in ObserversOf(f) : Pending(f, m)'
    BY <2>1
  <2>3. CASE d \in Link
    BY <2>1, <2>2, <2>3 DEF Source, ObserversOf, InputCurrent, inputs
  <2>4. CASE d \notin Link
    BY <2>1, <2>2, <2>4 DEF Source, ObserversOf, InputCurrent
  <2>5. QED
    BY <2>3, <2>4
<1>6. CASE Settled(Source(d)) => Settled(Source(d))'
  <2>1. Content(Source(d))' = Content(Source(d))
    BY <1>1, <1>4 DEF Content, inputs
  <2>2. Pending(d, n) => InputCurrent(n, d)'
    BY <1>3 DEF InputCurrent
  <2>3. d \in Link /\ Pending(target[d], d) => InputCurrent(n, d)'
    BY DEF InputCurrent, inputs
  <2>4. call.op = "recalculate" /\ call.node = Source(d) => InputCurrent(n, d)'
    BY <1>4 DEF InputCurrent
  <2>5. QED
    BY <1>3, <1>4, <1>6, <2>1, <2>2, <2>3, <2>4, KeepCurrent
<1>7. QED
  BY <1>5, <1>6

LEMMA UpdateLazyCurrent ==
  ASSUME TypeOK, InputsCurrent, NEW f \in Lazy, UpdateLazy(f)
  PROVE  InputsCurrent'
<1>1. /\ InLoop(f) /\ f \in Input /\ f \notin Link /\ Outdate({f})
      /\ UNCHANGED <<inputs, frozen, computing, call>>
      /\ notifying' = IF calculated[f] /\ ~frozen[f]
                        THEN Append(Visited(f), Notification(f)) ELSE Visited(f)
  BY NetworkAssumption DEF UpdateLazy, Input, Consumer
<1>2. \A s, m : m # f /\ Pending(s, m) => Pending(s, m)'
  BY <1>1, VisitPending
<1>3. \/ ~Settled(f) \/ frozen[f] \/ \A m \in ObserversOf(f) : Pending(f, m)'
  <2>1. CASE calculated[f] /\ ~frozen[f]
    BY <1>1, <2>1, ForwardPending
  <2>2. CASE ~(calculated[f] /\ ~frozen[f])
    BY <2>2, NetworkAssumption DEF Settled, Consumer
  <2>3. QED
    BY <2>1, <2>2
<1>4. QED
  BY <1>1, <1>2, <1>3, OutdateCurrent DEF Computing

LEMMA UpdateFlagCurrent ==
  ASSUME TypeOK, InputsCurrent, NEW o \in Reader, UpdateFlag(o)
  PROVE  InputsCurrent'
<1>1. /\ InLoop(o) /\ o \notin Link /\ o \notin Lazy /\ Outdate({o})
      /\ UNCHANGED <<inputs, frozen, computing, call>> /\ notifying' = Visited(o)
  BY NetworkAssumption DEF UpdateFlag, Consumer
<1>2. \A s, m : m # o /\ Pending(s, m) => Pending(s, m)'
  BY <1>1, VisitPending
<1>3. QED
  BY <1>1, <1>2, OutdateCurrent DEF Computing

LEMMA ThrowCurrent ==
  ASSUME TypeOK, CalcInv, InputsCurrent, Throw
  PROVE  InputsCurrent'
<1>1. Outdate(Computing) /\ UNCHANGED <<inputs, frozen>> /\ computing' = <<>>
  BY DEF Throw
<1>2. Computing' = {} /\ Computing \subseteq Consumer
  BY <1>1 DEF Computing, TypeOK
<1>3. \A s, m : Pending(s, m) => Pending(s, m)'
  BY ThrowType DEF Pending
<1>4. \A f \in Computing \cap Lazy : ~Settled(f)
  BY NetworkAssumption DEF Settled, Computing, CalcInv, ComputingInv, Consumer
<1>5. QED
  BY <1>1, <1>2, <1>3, <1>4, ThrowType, OutdateCurrent, NetworkAssumption DEF Consumer

LEMMA UpdateReaderCurrent ==
  ASSUME TypeOK, InputsCurrent, NEW o \in Reader, UpdateReader(o)
  PROVE  InputsCurrent'
<1>1. /\ InLoop(o) /\ Enter(o) /\ o \in Consumer
      /\ UNCHANGED <<inputs, frozen, call>> /\ notifying' = Visited(o)
  BY DEF UpdateReader, Consumer
<1>2. \A s, m : m # o /\ Pending(s, m) => Pending(s, m)'
  BY <1>1, VisitPending
<1>3. ~Settled(o)
  BY NetworkAssumption DEF Settled, Consumer
<1>4. QED
  BY <1>1, <1>2, <1>3, EnterCurrent

LEMMA EndNotifyCurrent ==
  ASSUME TypeOK, InputsCurrent, EndNotify
  PROVE  InputsCurrent'
<1>1. UNCHANGED <<inputs, calculated, results, seen, frozen, computing>>
  BY DEF EndNotify, caches
<1>2. \A s, m : Pending(s, m) => Pending(s, m)'
  <2>1. SUFFICES ASSUME NEW s, NEW m, NEW i \in 1 .. Len(notifying),
                        notifying[i].node = s, m \in notifying[i].todo
                 PROVE  Pending(s, m)'
    BY DEF Pending
  <2>2. i \in 1 .. Len(notifying) - 1
    BY <2>1, HasTop DEF EndNotify, Top, TypeOK
  <2>3. QED
    BY <2>1, <2>2, EndNotifyType DEF Pending
<1>. SUFFICES ASSUME NEW n \in Consumer, NEW d \in Reads[n], seen[n][d] # Null
              PROVE  InputCurrent(n, d)'
  BY <1>1 DEF InputsCurrent
<1>3. InputCurrent(n, d)
  BY DEF InputsCurrent
<1>4. QED
  BY <1>1, <1>2, <1>3, EndNotifyType
  DEF InputCurrent, Source, Settled, Content, Computing, inputs

LEMMA ReadCurrent ==
  ASSUME TypeOK, LinkInv, CalcInv, InputsCurrent, NEW e \in Input, Read(e)
  PROVE  InputsCurrent'
<1>1. /\ UNCHANGED <<inputs, calculated, results, frozen, notifying, computing, call>>
      /\ computing # <<>> /\ e \in Reads[Current] /\ ~Unusable(Source(e))
      /\ Source(e) \in Lazy => ~NeedsCalculation(Source(e))
      /\ seen' = [seen EXCEPT ![Current][e] = Content(Source(e))]
  BY DEF Read, Reading
<1>2. Current \in Consumer
  BY <1>1, HasTop DEF Current, TypeOK
<1>3. Source(e) \in Quote \cup Lazy /\ Rank[Source(e)] < Rank[Current]
  BY <1>1, <1>2, SourceBelow DEF Unusable
<1>4. Source(e) \notin Computing
  <2>1. SUFFICES ASSUME NEW i \in 1 .. Len(computing), computing[i] = Source(e)
                 PROVE  FALSE
    BY DEF Computing
  <2>2. Rank[Current] <= Rank[Source(e)]
    BY <1>1, <2>1, TopIsLowest DEF CalcInv
  <2>3. Rank[Current] \in Nat /\ Rank[Source(e)] \in Nat
    BY <1>2, <1>3, NetworkAssumption DEF Object, Consumer
  <2>4. QED
    BY <1>3, <2>2, <2>3
<1>5. Settled(Source(e))
  BY <1>1, <1>3, <1>4 DEF Settled, NeedsCalculation
<1>. SUFFICES ASSUME NEW n \in Consumer, NEW d \in Reads[n], seen'[n][d] # Null
              PROVE  InputCurrent(n, d)'
  BY DEF InputsCurrent
<1>6. /\ Source(d)' = Source(d) /\ Settled(Source(d))' = Settled(Source(d))
      /\ Content(Source(d))' = Content(Source(d))
      /\ Pending(d, n)' = Pending(d, n) /\ Pending(target[d], d)' = Pending(target[d], d)
  BY <1>1 DEF Source, Settled, Content, Pending, Computing, inputs
<1>7. CASE n = Current /\ d = e
  BY <1>1, <1>2, <1>5, <1>6, <1>7 DEF InputCurrent, TypeOK
<1>8. CASE ~(n = Current /\ d = e)
  <2>1. d \in Input
    BY NetworkAssumption
  <2>2. seen'[n][d] = seen[n][d]
    BY <1>1, <1>2, <1>8, <2>1 DEF TypeOK
  <2>3. InputCurrent(n, d)
    BY <2>2 DEF InputsCurrent
  <2>4. QED
    BY <1>1, <1>6, <2>2, <2>3 DEF InputCurrent, inputs
<1>9. QED
  BY <1>7, <1>8

LEMMA FinishCurrent ==
  ASSUME TypeOK, CalcInv, InputsCurrent, Finish
  PROVE  InputsCurrent'
<1>1. /\ UNCHANGED <<inputs, calculated, seen, frozen, notifying, call>>
      /\ computing # <<>>
      /\ \A s \in Lazy : s # Current => results'[s] = results[s]
  BY DEF Finish, TypeOK
<1>2. Computing' \subseteq Computing /\ ~Settled(Current)
  <2>1. Computing' \subseteq Computing
    BY FinishCalc
  <2>2. Len(computing) \in 1 .. Len(computing) /\ Current \in Consumer
    BY <1>1, HasTop DEF TypeOK, Current
  <2>3. Current \notin Quote /\ Current \in Computing
    BY <2>2, NetworkAssumption DEF Current, Computing
  <2>4. Current \in Lazy => ~frozen[Current]
    BY <2>2 DEF CalcInv, ComputingInv, Current
  <2>5. QED
    BY <2>1, <2>3, <2>4 DEF Settled
<1>. SUFFICES ASSUME NEW n \in Consumer, NEW d \in Reads[n], seen[n][d] # Null
              PROVE  InputCurrent(n, d)'
  BY <1>1 DEF InputsCurrent
<1>3. InputCurrent(n, d) /\ Source(d)' = Source(d)
  BY <1>1 DEF InputsCurrent, Source, inputs
<1>4. Settled(Source(d)) =>
        Settled(Source(d))' /\ Content(Source(d))' = Content(Source(d))
  BY <1>1, <1>2, <1>3 DEF Settled, Content, inputs
<1>5. QED
  BY <1>1, <1>3, <1>4 DEF InputCurrent, Pending, inputs

LEMMA CurrentStep ==
  ASSUME TypeOK, CallInv, LinkInv, CalcInv, InputsCurrent, [Next]_vars
  PROVE  InputsCurrent'
<1>. USE DEF inputs, caches
<1>1. ASSUME NEW q \in Quote, NEW v \in Number \cup {Null}, SetValue(q, v)
      PROVE  InputsCurrent'
  BY <1>1, SetValueCurrent
<1>2. ASSUME NEW l \in Link, NEW t \in Targets[l] \cup {None},
             NEW r \in RegisterModes, LinkTo(l, t, r)
      PROVE  InputsCurrent'
  BY <1>2, LinkToCurrent
<1>3. ASSUME NEW n \in Controlled, Freeze(n) \/ Unfreeze(n) \/ Recalculate(n)
      PROVE  InputsCurrent'
  <2>1. n \in Lazy
    BY NetworkAssumption
  <2>2. CASE Unfreeze(n)
    <3>1. /\ notifying = <<>> /\ notifying' = <<Notification(n)>>
          /\ frozen' = [frozen EXCEPT ![n] = FALSE] /\ call.op = "none"
          /\ UNCHANGED <<inputs, caches, computing>>
      BY <2>2 DEF Unfreeze, Idle
    <3>2. QED
      BY <2>1, <3>1, ThawCurrent
  <2>3. QED
    BY <1>3, <2>1, <2>2, FreezeCurrent, RecalculateCurrent
<1>4. ASSUME NEW n \in Lazy, Query(n), NeedsCalculation(n)
      PROVE  InputsCurrent'
  <2>1. /\ Enter(n) /\ UNCHANGED <<inputs, frozen, notifying>> /\ call.op = "none"
    BY <1>4 DEF Query, Idle
  <2>2. ~Settled(n) /\ n \in Consumer
    BY <1>4, NetworkAssumption DEF Settled, NeedsCalculation, Consumer
  <2>3. \A s, m : Pending(s, m) => Pending(s, m)'
    BY <2>1 DEF Pending
  <2>4. QED
    BY <2>1, <2>2, <2>3, EnterCurrent
<1>5. ASSUME NEW o \in Reader, Look(o)
      PROVE  InputsCurrent'
  <2>1. /\ Enter(o) /\ UNCHANGED <<inputs, frozen, notifying>> /\ call.op = "none"
    BY <1>5 DEF Look, Idle
  <2>2. ~Settled(o) /\ o \in Consumer
    BY NetworkAssumption DEF Settled, Consumer
  <2>3. \A s, m : Pending(s, m) => Pending(s, m)'
    BY <2>1 DEF Pending
  <2>4. QED
    BY <2>1, <2>2, <2>3, EnterCurrent
<1>6. ASSUME NotifyStep
      PROVE  InputsCurrent'
  BY <1>6, UpdateLinkCurrent, UpdateLazyCurrent, UpdateFlagCurrent,
     UpdateReaderCurrent, EndNotifyCurrent DEF NotifyStep
<1>7. ASSUME NEW d \in Input, Descend(d)
      PROVE  InputsCurrent'
  <2>1. /\ Enter(Source(d)) /\ UNCHANGED <<inputs, frozen, notifying, call>>
        /\ Source(d) \in Consumer /\ ~Settled(Source(d))
    BY <1>7, NetworkAssumption DEF Descend, Settled, NeedsCalculation, Consumer
  <2>2. \A s, m : Pending(s, m) => Pending(s, m)'
    BY <2>1 DEF Pending
  <2>3. QED
    BY <2>1, <2>2, EnterCurrent
<1>8. ASSUME NEW d \in Input, Read(d)
      PROVE  InputsCurrent'
  BY <1>8, ReadCurrent
<1>9. ASSUME Finish \/ Throw
      PROVE  InputsCurrent'
  BY <1>9, FinishCurrent, ThrowCurrent
<1>10. ASSUME EndRecalculate
       PROVE  InputsCurrent'
  <2>1. /\ notifying = <<>> /\ call.node \in Lazy
        /\ notifying' = <<Notification(call.node)>>
        /\ frozen' = [frozen EXCEPT ![call.node] = call.wasFrozen]
        /\ UNCHANGED <<inputs, caches, computing>>
    BY <1>10 DEF EndRecalculate, CallInv
  <2>2. QED
    BY <2>1, ThawCurrent
<1>11. ASSUME /\ UNCHANGED <<inputs, caches, frozen, notifying, computing>>
              /\ call.op = "recalculate" => call' = call
       PROVE  InputsCurrent'
  BY <1>11
  DEF InputsCurrent, InputCurrent, Pending, Settled, Content, Source, Computing
<1>12. QED
  BY <1>1, <1>2, <1>3, <1>4, <1>5, <1>6, <1>7, <1>8, <1>9, <1>10, <1>11
  DEF Next, ClientCall, ComputeStep, EndCall, Query, EndQuery, EndModify, Idle, vars

-----------------------------------------------------------------------------
(* The theorems. *)

LEMMA InitInv == Init => Inv
<1>. SUFFICES ASSUME Init PROVE Inv
  OBVIOUS
<1>1. TypeOK
  BY ReplyType DEF Init, TypeOK, Unread, NoCall, Call
<1>2. CallInv /\ LinkInv /\ ComputingInv /\ DescentInv /\ CompleteInv
  BY DEF Init, CallInv, LinkInv, ComputingInv, DescentInv, CompleteInv, NoCall
<1>3. InputsCurrent
  BY NetworkAssumption DEF Init, InputsCurrent, Unread
<1>4. QED
  BY <1>1, <1>2, <1>3 DEF Inv

LEMMA InvStep == Inv /\ [Next]_vars => Inv'
BY TypeStep, LinkStep, CalcStep, CurrentStep DEF Inv, CalcInv

(***************************************************************************)
(* Whatever the network, the order in which observers are called and the   *)
(* calculations that throw: each input a consumer has read is still what   *)
(* it read, or a notification of its change is on its way.                 *)
(***************************************************************************)
THEOREM InvHolds == Spec => []Inv
<1>. QED
  BY InitInv, InvStep, PTL DEF Spec

\* The state variables keep their types.
THEOREM TypeCorrect == Spec => []TypeOK
<1>1. Inv => TypeOK
  BY DEF Inv
<1>. QED
  BY <1>1, InvHolds, PTL

(***************************************************************************)
(* LazyObject: once every call has returned, an object with calculated_    *)
(* set holds what performCalculations() yields on its current inputs.      *)
(***************************************************************************)
THEOREM Fresh == Spec => []ResultsFresh
<1>1. Inv => ResultsFresh
  <2>. SUFFICES ASSUME Inv, Idle, NEW n \in Lazy, calculated[n]
                PROVE  /\ results[n] = Evaluate(n, seen[n])
                       /\ \A d \in Reads[n] :
                            \/ d \in Link /\ ~isObserver[d]
                            \/ /\ Settled(Source(d))
                               /\ seen[n][d] = Content(Source(d))
    BY DEF ResultsFresh
  <2>1. n \in Consumer /\ n \notin Computing
    BY DEF Consumer, Idle, Computing
  <2>2. AllRead(n) /\ results[n] = Evaluate(n, seen[n])
    BY <2>1 DEF Inv, CompleteInv
  <2>3. QED
    BY <2>1, <2>2, AtRest DEF Inv, InputsCurrent, AllRead
<1>. QED
  BY <1>1, InvHolds, PTL

(***************************************************************************)
(* notifyObservers loses no notification: a reader that was not told of a  *)
(* change still shows what its inputs return.                              *)
(***************************************************************************)
THEOREM Told == Spec => []ReadersTold
<1>1. Inv => ReadersTold
  <2>. SUFFICES ASSUME Inv, Idle, NEW o \in Reader, calculated[o], NEW d \in Reads[o]
                PROVE  \/ d \in Link /\ ~isObserver[d]
                       \/ /\ Settled(Source(d))
                          /\ seen[o][d] = Content(Source(d))
    BY DEF ReadersTold
  <2>1. o \in Consumer /\ o \notin Computing
    BY DEF Consumer, Idle, Computing
  <2>2. AllRead(o)
    BY <2>1 DEF Inv, CompleteInv
  <2>3. QED
    BY <2>1, <2>2, AtRest DEF Inv, InputsCurrent, AllRead
<1>. QED
  BY <1>1, InvHolds, PTL

(***************************************************************************)
(* LazyObject::freeze: no step changes the results of an object that is    *)
(* frozen and stays frozen.                                                *)
(***************************************************************************)
THEOREM FrozenKept == Spec => FreezePins
<1>1. ASSUME Inv, [Next]_vars, NEW n \in Lazy, frozen[n], frozen'[n]
      PROVE  results'[n] = results[n]
  <2>1. CASE Finish
    <3>1. Len(computing) \in 1 .. Len(computing)
      BY <2>1, HasTop DEF Finish, Inv, TypeOK
    <3>2. n # Current
      BY <1>1, <3>1 DEF Inv, ComputingInv, Current
    <3>3. QED
      BY <2>1, <3>2 DEF Finish, Inv, TypeOK
  <2>2. CASE UNCHANGED results
    BY <2>2
  <2>3. QED
    BY <1>1, <2>1, <2>2
    DEF Next, ClientCall, NotifyStep, ComputeStep, EndCall, SetValue, LinkTo, Freeze,
        Unfreeze, Recalculate, Query, Look, UpdateLink, UpdateLazy, UpdateFlag,
        UpdateReader, EndNotify, Descend, Read, Throw, EndRecalculate, EndQuery,
        EndModify, Enter, Outdate, caches, vars
<1>2. Inv /\ [Next]_vars =>
        [\A n \in Lazy : frozen[n] /\ frozen'[n] => results'[n] = results[n]]_vars
  BY <1>1
<1>3. QED
  BY <1>2, InvHolds, PTL DEF Spec, FreezePins


-----------------------------------------------------------------------------
(* What the network answers is what a computation from scratch would give. *)

Numbers == Number \cup {Null}

Answer == Abstract!Answer

\* What reading d gives with `answer' for the objects that are not pinned.
Given(answer, d) == Abstract!Given(answer, d)

-----------------------------------------------------------------------------
(* Reading is not circular, so that Answer and Watched exist. *)

LEMMA GivenIs ==
  ASSUME TypeOK, LinkInv, NEW answer, NEW n \in Consumer, NEW d \in Reads[n]
  PROVE  /\ Source(d) = None => Given(answer, d) = Null
         /\ Source(d) \in Quote => Given(answer, d) = value[Source(d)]
         /\ Source(d) \in Lazy =>
              Given(answer, d) = IF Source(d) \in Pinned THEN results[Source(d)]
                                 ELSE answer[Source(d)]
<1>1. Source(d) \in Quote \cup Lazy \cup {None}
  BY SourceBelow
<1>2. None \notin Quote /\ None \notin Lazy /\ Quote \cap Lazy = {}
  BY NetworkAssumption DEF Object, Consumer
<1>3. Source(d) = IF d \in Link THEN target[d] ELSE d
  BY DEF Source
<1>4. CASE Source(d) = None
  BY <1>2, <1>3, <1>4 DEF Given, Abstract!Given
<1>5. CASE Source(d) \in Quote
  BY <1>2, <1>3, <1>5 DEF Given, Abstract!Given
<1>6. CASE Source(d) \in Lazy
  BY <1>2, <1>3, <1>6 DEF Given, Abstract!Given, Held
<1>. QED  BY <1>1, <1>2, <1>4, <1>5, <1>6

LEMMA ComputedIs ==
  ASSUME TypeOK, LinkInv, NEW n \in Lazy, NEW answer
  PROVE  /\ (\E d \in Reads[n] : Given(answer, d) = Null) =>
              Abstract!Computed(answer, n) = Null
         /\ (\A d \in Reads[n] : Given(answer, d) # Null) =>
              Abstract!Computed(answer, n) =
                Evaluate(n, [d \in Input |-> IF d \in Reads[n] THEN Given(answer, d)
                                             ELSE Null])
BY DEF Abstract!Computed, Given, Input

\* What is read of numbers is a number.
LEMMA GivenNumber ==
  ASSUME TypeOK, LinkInv, NEW n \in Lazy, NEW d \in Reads[n], NEW answer,
         Source(d) \in Lazy => answer[Source(d)] \in Numbers
  PROVE  Given(answer, d) \in Numbers
<1>1. n \in Consumer
  BY DEF Consumer
<1>2. Source(d) \in Quote \cup Lazy \cup {None}
  BY <1>1, SourceBelow
<1>3. /\ Source(d) \in Quote => value[Source(d)] \in Numbers
      /\ Source(d) \in Lazy => results[Source(d)] \in Numbers
  BY DEF TypeOK, Numbers
<1>. QED  BY <1>1, <1>2, <1>3, GivenIs DEF Numbers

LEMMA ComputedNumber ==
  ASSUME TypeOK, LinkInv, NEW n \in Lazy, NEW answer \in [Lazy -> Numbers]
  PROVE  Abstract!Computed(answer, n) \in Numbers
<1>. DEFINE s == [d \in Input |-> IF d \in Reads[n] THEN Given(answer, d) ELSE Null]
<1>1. \A d \in Reads[n] : Given(answer, d) \in Numbers
  BY GivenNumber
<1>2. s \in [Input -> Number \cup {Null}]
  BY <1>1 DEF Numbers
<1>3. CASE \A d \in Reads[n] : Given(answer, d) # Null
  <2>1. \A d \in Reads[n] : d \in Input
    BY NetworkAssumption DEF Consumer
  <2>2. \A d \in Reads[n] : s[d] # Null
    BY <1>3, <2>1
  <2>. HIDE DEF s
  <2>3. Evaluate(n, s) \in Number \cup {Null}
    BY <1>2, <2>2, EvaluateAssumption
  <2>4. Abstract!Computed(answer, n) = Evaluate(n, s)
    BY <1>3, ComputedIs DEF s
  <2>. QED  BY <2>3, <2>4 DEF Numbers
<1>4. CASE \E d \in Reads[n] : Given(answer, d) = Null
  BY <1>4, ComputedIs DEF Numbers
<1>. QED  BY <1>3, <1>4

\* Rank as Recursion has it.
LazyRank == [n \in Lazy |-> Rank[n]]

LEMMA LazyRankType == LazyRank \in [Lazy -> Nat]
BY NetworkAssumption DEF LazyRank, Object, Consumer

\* What a lazy object makes of its inputs depends on what lies below it.
LEMMA ComputedFromBelow ==
  ASSUME TypeOK, LinkInv, NEW f, NEW g, NEW n \in Lazy,
         \A m \in Lazy : Rank[m] < Rank[n] => f[m] = g[m]
  PROVE  Abstract!Computed(f, n) = Abstract!Computed(g, n)
<1>1. ASSUME NEW d \in Reads[n] PROVE Given(f, d) = Given(g, d)
  <2>1. n \in Consumer
    BY DEF Consumer
  <2>2. Source(d) \in Quote \cup Lazy \cup {None}
    BY <2>1, SourceBelow
  <2>3. Source(d) \in Lazy => f[Source(d)] = g[Source(d)]
    BY <2>1, SourceBelow, NetworkAssumption DEF Object, Consumer
  <2>. QED  BY <2>1, <2>2, <2>3, GivenIs
<1>2. [d \in Input |-> IF d \in Reads[n] THEN Given(f, d) ELSE Null]
      = [d \in Input |-> IF d \in Reads[n] THEN Given(g, d) ELSE Null]
  BY <1>1
<1>3. CASE \E d \in Reads[n] : Given(f, d) = Null
  <2>1. \E d \in Reads[n] : Given(g, d) = Null
    BY <1>1, <1>3
  <2>. QED  BY <1>3, <2>1, ComputedIs
<1>4. CASE \A d \in Reads[n] : Given(f, d) # Null
  <2>1. \A d \in Reads[n] : Given(g, d) # Null
    BY <1>1, <1>4
  <2>. QED  BY <1>2, <1>4, <2>1, ComputedIs
<1>. QED  BY <1>3, <1>4

LEMMA AnswerIs ==
  ASSUME TypeOK, LinkInv
  PROVE  Answer = [n \in Lazy |-> Abstract!Computed(Answer, n)]
<1>. DEFINE F == [f \in [Lazy -> Numbers] |-> [n \in Lazy |-> Abstract!Computed(f, n)]]
<1>1. F \in [[Lazy -> Numbers] -> [Lazy -> Numbers]]
  BY ComputedNumber
<1>2. LooksBelow(Lazy, Numbers, LazyRank, F)
  <2>. SUFFICES ASSUME NEW f \in [Lazy -> Numbers], NEW g \in [Lazy -> Numbers],
                       NEW n \in Lazy,
                       \A m \in Lazy : LazyRank[m] < LazyRank[n] => f[m] = g[m]
                PROVE  F[f][n] = F[g][n]
    <3>. HIDE DEF F
    <3>. QED  BY DEF LooksBelow
  <2>1. \A m \in Lazy : Rank[m] < Rank[n] => f[m] = g[m]
    BY DEF LazyRank
  <2>2. Abstract!Computed(f, n) = Abstract!Computed(g, n)
    BY <2>1, ComputedFromBelow
  <2>. QED  BY <2>2
<1>3. HasFixpoint(Lazy, Numbers, F)
  <2>. HIDE DEF F
  <2>1. Numbers # {}
    BY DEF Numbers
  <2>. QED  BY <1>1, <1>2, <2>1, LazyRankType, Recursion
<1>4. PICK f \in [Lazy -> Numbers] : f = [n \in Lazy |-> Abstract!Computed(f, n)]
  BY <1>3 DEF HasFixpoint
<1>. QED  BY <1>4 DEF Answer, Abstract!Answer

\* Whether an object is watched depends on what lies below it.
LEMMA WatchedFromBelow ==
  ASSUME TypeOK, LinkInv, NEW f, NEW g, NEW n \in Lazy,
         \A m \in Lazy : Rank[m] < Rank[n] => f[m] = g[m]
  PROVE  WatchedIf(f, n) = WatchedIf(g, n)
<1>1. ASSUME NEW d \in Reads[n], Source(d) \in Lazy
      PROVE  f[Source(d)] = g[Source(d)]
  <2>1. n \in Consumer /\ Source(d) # None
    BY <1>1, NetworkAssumption DEF Consumer, Object
  <2>. QED  BY <1>1, <2>1, SourceBelow
<1>. QED  BY <1>1, Zenon DEF WatchedIf

LEMMA WatchedIs ==
  ASSUME TypeOK, LinkInv
  PROVE  /\ Watched = [n \in Lazy |-> WatchedIf(Watched, n)]
         /\ \A n \in Lazy : Watched[n] \in BOOLEAN
<1>. DEFINE F == [f \in [Lazy -> BOOLEAN] |-> [n \in Lazy |-> WatchedIf(f, n)]]
<1>1. F \in [[Lazy -> BOOLEAN] -> [Lazy -> BOOLEAN]]
  BY DEF WatchedIf
<1>2. LooksBelow(Lazy, BOOLEAN, LazyRank, F)
  <2>. SUFFICES ASSUME NEW f \in [Lazy -> BOOLEAN], NEW g \in [Lazy -> BOOLEAN],
                       NEW n \in Lazy,
                       \A m \in Lazy : LazyRank[m] < LazyRank[n] => f[m] = g[m]
                PROVE  F[f][n] = F[g][n]
    <3>. HIDE DEF F
    <3>. QED  BY DEF LooksBelow
  <2>1. \A m \in Lazy : Rank[m] < Rank[n] => f[m] = g[m]
    BY DEF LazyRank
  <2>2. WatchedIf(f, n) = WatchedIf(g, n)
    BY <2>1, WatchedFromBelow
  <2>. QED  BY <2>2
<1>3. HasFixpoint(Lazy, BOOLEAN, F)
  <2>. HIDE DEF F
  <2>1. BOOLEAN # {}
    OBVIOUS
  <2>. QED  BY <1>1, <1>2, <2>1, LazyRankType, Recursion
<1>4. PICK f \in [Lazy -> BOOLEAN] : f = [n \in Lazy |-> WatchedIf(f, n)]
  BY <1>3 DEF HasFixpoint
<1>5. Watched = [n \in Lazy |-> WatchedIf(Watched, n)]
  BY <1>4 DEF Watched
<1>6. \A n \in Lazy : Watched[n] = WatchedIf(Watched, n)
  BY <1>5
<1>7. \A n \in Lazy : WatchedIf(Watched, n) \in BOOLEAN
  BY DEF WatchedIf
<1>. QED  BY <1>5, <1>6, <1>7

\* Among the lazy objects with some property, one has the lowest rank.
LEMMA LowestLazy ==
  ASSUME NEW S \in SUBSET Lazy, S # {}
  PROVE  \E n \in S : \A m \in Lazy : Rank[m] < Rank[n] => m \notin S
<1>. DEFINE T == {Rank[n] : n \in S}
<1>1. \A n \in Lazy : Rank[n] \in Nat
  BY NetworkAssumption DEF Object, Consumer
<1>2. T \in SUBSET Nat /\ T # {}
  BY <1>1
<1>3. PICK x \in T : \A y \in T : x <= y
  <2>. HIDE DEF T
  <2>. QED  BY <1>2, Least
<1>4. PICK n \in S : \A m \in S : Rank[n] <= Rank[m]
  BY <1>3
<1>5. ASSUME NEW m \in Lazy, Rank[m] < Rank[n] PROVE m \notin S
  <2>1. Rank[n] \in Nat /\ Rank[m] \in Nat
    BY <1>1
  <2>. QED  BY <1>4, <1>5, <2>1
<1>. QED  BY <1>5

\* Where every link registers with its target, every object is watched.
LEMMA AllWatched ==
  ASSUME TypeOK, LinkInv, \A l \in Link : isObserver[l]
  PROVE  \A n \in Lazy : Watched[n]
<1>. DEFINE Bad == {n \in Lazy : ~Watched[n]}
<1>1. SUFFICES ASSUME Bad # {} PROVE FALSE
  OBVIOUS
<1>2. PICK n \in Bad : \A m \in Lazy : Rank[m] < Rank[n] => m \notin Bad
  <2>. HIDE DEF Bad
  <2>. QED  BY <1>1, LowestLazy DEF Bad
<1>3. ASSUME NEW d \in Reads[n], Source(d) \in Lazy PROVE Watched[Source(d)]
  <2>1. n \in Consumer /\ Source(d) # None
    BY <1>3, NetworkAssumption DEF Consumer, Object
  <2>. QED  BY <1>2, <1>3, <2>1, SourceBelow
<1>4. WatchedIf(Watched, n)
  BY <1>3 DEF WatchedIf
<1>5. Watched[n] = WatchedIf(Watched, n)
  BY WatchedIs
<1>. QED  BY <1>2, <1>4, <1>5

-----------------------------------------------------------------------------
(* What is cached is what a computation from scratch gives. *)

\* A consumer has read nothing but its inputs.
SeenInv == \A n \in Consumer : \A d \in Input : seen[n][d] # Null => d \in Reads[n]

\* Each calculation under way was started by the one below it on the stack.
StackInv ==
  \A i \in 1 .. Len(computing) - 1 :
    /\ computing[i + 1] \in Lazy
    /\ \E d \in Reads[computing[i]] : Source(d) = computing[i + 1]

\* An object that read what a computation from scratch would, gives its results.
LEMMA FromInputs ==
  ASSUME TypeOK, LinkInv, SeenInv, NEW n \in Lazy, AllRead(n),
         \A d \in Reads[n] : Given(Answer, d) = seen[n][d]
  PROVE  Answer[n] = Evaluate(n, seen[n])
<1>. DEFINE s == [d \in Input |-> IF d \in Reads[n] THEN Given(Answer, d) ELSE Null]
<1>1. n \in Consumer /\ seen[n] \in [Input -> Number \cup {Null}]
  BY DEF Consumer, TypeOK
<1>2. \A d \in Input : d \notin Reads[n] => seen[n][d] = Null
  BY <1>1 DEF SeenInv
<1>3. s = seen[n]
  BY <1>1, <1>2
<1>4. Answer[n] = Abstract!Computed(Answer, n)
  BY AnswerIs
<1>5. \A d \in Reads[n] : Given(Answer, d) # Null
  BY DEF AllRead
<1>6. Abstract!Computed(Answer, n) = Evaluate(n, s)
  BY <1>5, ComputedIs
<1>. QED  BY <1>3, <1>4, <1>6

\* An input that was read still gives what was read, if what lies below does.
LEMMA InputGiven ==
  ASSUME TypeOK, LinkInv, InputsCurrent, notifying = <<>>,
         NEW n \in Consumer, NEW d \in Reads[n], seen[n][d] # Null,
         d \in Link => isObserver[d],
         call.op = "recalculate" => Source(d) # call.node,
         Source(d) \in Lazy =>
           (calculated[Source(d)] /\ Source(d) \notin Computing /\ ~frozen[Source(d)] =>
              results[Source(d)] = Answer[Source(d)])
  PROVE  Given(Answer, d) = seen[n][d]
<1>1. Settled(Source(d)) /\ seen[n][d] = Content(Source(d))
  BY DEF InputsCurrent, InputCurrent, Pending
<1>2. CASE Source(d) \in Quote
  BY <1>1, <1>2, GivenIs DEF Content
<1>3. CASE Source(d) \in Lazy
  <2>1. Content(Source(d)) = results[Source(d)]
    BY <1>3, NetworkAssumption DEF Content, Consumer
  <2>2. Source(d) \in Pinned <=> frozen[Source(d)]
    BY <1>3 DEF Pinned
  <2>3. frozen[Source(d)] \/ (calculated[Source(d)] /\ Source(d) \notin Computing)
    BY <1>1, <1>3, NetworkAssumption DEF Settled, Consumer
  <2>. QED  BY <1>1, <1>3, <2>1, <2>2, <2>3, GivenIs
<1>. QED  BY <1>1, <1>2, <1>3 DEF Settled

(***************************************************************************)
(* While nobody is being notified, an object that says it is calculated    *)
(* holds what a computation from scratch gives.  (recalculate() makes an   *)
(* exception of its object, and of what reads it, until it notifies.)      *)
(***************************************************************************)
Below(n) == call.op = "recalculate" => Rank[n] < Rank[call.node]

LEMMA Scratch ==
  ASSUME Inv, SeenInv, notifying = <<>>
  PROVE  \A n \in Lazy : Watched[n] /\ Below(n) /\ n \notin Computing
                          /\ calculated[n] /\ ~frozen[n] => results[n] = Answer[n]
<1>. DEFINE Good(n) == Watched[n] /\ Below(n) /\ n \notin Computing /\ calculated[n] /\ ~frozen[n]
           Bad == {n \in Lazy : Good(n) /\ results[n] # Answer[n]}
<1>1. SUFFICES ASSUME Bad # {} PROVE FALSE
  OBVIOUS
<1>2. PICK n \in Bad : \A m \in Lazy : Rank[m] < Rank[n] => m \notin Bad
  <2>. HIDE DEF Bad
  <2>. QED  BY <1>1, LowestLazy DEF Bad
<1>3. n \in Lazy /\ n \in Consumer /\ Good(n) /\ results[n] # Answer[n]
  BY DEF Consumer
<1>4. AllRead(n) /\ results[n] = Evaluate(n, seen[n])
  BY <1>3 DEF Inv, CompleteInv
<1>5. TypeOK /\ LinkInv /\ CallInv /\ InputsCurrent
  BY DEF Inv
<1>6. WatchedIf(Watched, n)
  BY <1>3, <1>5, WatchedIs
<1>7. ASSUME NEW d \in Reads[n] PROVE Given(Answer, d) = seen[n][d]
  <2>1. seen[n][d] # Null
    BY <1>4 DEF AllRead
  <2>2. d \in Link => isObserver[d]
    BY <1>6 DEF WatchedIf
  <2>3. ASSUME Source(d) \in Lazy PROVE Rank[Source(d)] < Rank[n] /\ Below(Source(d))
    <3>1. Source(d) # None
      BY <2>3, NetworkAssumption DEF Object, Consumer
    <3>2. Rank[Source(d)] < Rank[n]
      BY <1>3, <1>5, <3>1, SourceBelow
    <3>3. Rank[Source(d)] \in Nat /\ Rank[n] \in Nat
      BY <1>3, <2>3, NetworkAssumption DEF Object, Consumer
    <3>4. call.op = "recalculate" => Rank[call.node] \in Nat
      BY <1>5, NetworkAssumption DEF CallInv, Object, Consumer
    <3>. QED  BY <1>3, <3>2, <3>3, <3>4 DEF Below
  <2>4. ASSUME Source(d) \in Lazy, calculated[Source(d)], Source(d) \notin Computing,
               ~frozen[Source(d)]
        PROVE  results[Source(d)] = Answer[Source(d)]
    <3>1. Watched[Source(d)]
      BY <1>6, <2>4 DEF WatchedIf
    <3>. QED  BY <1>2, <2>3, <2>4, <3>1
  <2>5. call.op = "recalculate" => Source(d) # call.node
    <3>1. call.op = "recalculate" => call.node \in Lazy /\ Rank[call.node] \in Nat
      BY <1>5, NetworkAssumption DEF CallInv, Object, Consumer
    <3>. QED  BY <2>3, <3>1 DEF Below
  <2>. HIDE DEF Good, Bad
  <2>. QED  BY <1>3, <1>5, <2>1, <2>2, <2>4, <2>5, InputGiven
<1>8. Answer[n] = Evaluate(n, seen[n])
  BY <1>3, <1>4, <1>5, <1>7, FromInputs
<1>. QED  BY <1>3, <1>4, <1>8

-----------------------------------------------------------------------------
(* A step that changes no quote, link, frozen object or pinned results     *)
(* leaves what a computation from scratch gives as it was.                 *)

LEMMA AnswerFact ==
  TypeOK /\ LinkInv => \A n \in Lazy : Answer[n] = Abstract!Computed(Answer, n)
BY AnswerIs

LEMMA AnswerIsNext ==
  (TypeOK /\ LinkInv => \A n \in Lazy : Answer[n] = Abstract!Computed(Answer, n))'
BY AnswerFact, PTL

LEMMA WatchedFact ==
  TypeOK /\ LinkInv => \A n \in Lazy : Watched[n] = WatchedIf(Watched, n)
BY WatchedIs

LEMMA WatchedIsNext ==
  (TypeOK /\ LinkInv => \A n \in Lazy : Watched[n] = WatchedIf(Watched, n))'
BY WatchedFact, PTL

LEMMA GivenKept ==
  ASSUME UNCHANGED inputs, Pinned' = Pinned,
         \A m \in Pinned : results'[m] = results[m],
         NEW answer, NEW d
  PROVE  Given(answer, d)' = Given(answer, d)
<1>1. \A m \in Lazy : m \in Pinned => Held'[m] = Held[m]
  BY DEF Held
<1>2. Pinned \subseteq Lazy
  BY DEF Pinned
<1>. QED  BY <1>1, <1>2 DEF Given, Abstract!Given, inputs

LEMMA ComputedKept ==
  ASSUME UNCHANGED inputs, Pinned' = Pinned,
         \A m \in Pinned : results'[m] = results[m],
         NEW answer, NEW n
  PROVE  Abstract!Computed(answer, n)' = Abstract!Computed(answer, n)
<1>1. \A d : Given(answer, d)' = Given(answer, d)
  BY GivenKept
<1>. QED  BY <1>1 DEF Given, Abstract!Computed

LEMMA AnswerKept ==
  ASSUME TypeOK, LinkInv, TypeOK', LinkInv', UNCHANGED inputs, Pinned' = Pinned,
         \A m \in Pinned : results'[m] = results[m]
  PROVE  \A n \in Lazy : Answer'[n] = Answer[n]
<1>. DEFINE Bad == {n \in Lazy : Answer'[n] # Answer[n]}
<1>1. SUFFICES ASSUME Bad # {} PROVE FALSE
  OBVIOUS
<1>2. PICK n \in Bad : \A m \in Lazy : Rank[m] < Rank[n] => m \notin Bad
  <2>. HIDE DEF Bad
  <2>. QED  BY <1>1, LowestLazy DEF Bad
<1>3. PICK f, g : f = Answer /\ g = Answer'
  OBVIOUS
<1>4. Abstract!Computed(f, n) = Abstract!Computed(g, n)
  BY <1>2, <1>3, ComputedFromBelow
<1>5. Abstract!Computed(g, n)' = Abstract!Computed(g, n)
  BY ComputedKept
<1>6. Answer[n] = Abstract!Computed(f, n) /\ Answer'[n] = Abstract!Computed(g, n)'
  BY <1>2, <1>3, AnswerFact, AnswerIsNext
<1>. QED  BY <1>2, <1>4, <1>5, <1>6

LEMMA WatchedKept ==
  ASSUME TypeOK, LinkInv, TypeOK', LinkInv', UNCHANGED <<inputs, frozen>>
  PROVE  \A n \in Lazy : Watched'[n] = Watched[n]
<1>. DEFINE Bad == {n \in Lazy : Watched'[n] # Watched[n]}
<1>1. SUFFICES ASSUME Bad # {} PROVE FALSE
  OBVIOUS
<1>2. PICK n \in Bad : \A m \in Lazy : Rank[m] < Rank[n] => m \notin Bad
  <2>. HIDE DEF Bad
  <2>. QED  BY <1>1, LowestLazy DEF Bad
<1>3. PICK f, g : f = Watched /\ g = Watched'
  OBVIOUS
<1>4. WatchedIf(f, n) = WatchedIf(g, n)
  BY <1>2, <1>3, WatchedFromBelow
<1>5. WatchedIf(g, n)' = WatchedIf(g, n)
  BY DEF WatchedIf, Source, inputs
<1>6. Watched[n] = WatchedIf(f, n) /\ Watched'[n] = WatchedIf(g, n)'
  BY <1>2, <1>3, WatchedFact, WatchedIsNext
<1>. QED  BY <1>2, <1>4, <1>5, <1>6

-----------------------------------------------------------------------------
(* The calls under way. *)

(***************************************************************************)
(* While an inspector or recalculate() runs, the first calculation is that *)
(* of its object, and it has not failed yet.  An inspector that failed or  *)
(* has nothing left to calculate is about to return; the object of         *)
(* recalculate() is not frozen until it has.                               *)
(***************************************************************************)
QueryInv ==
  /\ call.op \in {"query", "recalculate"} /\ computing # <<>> =>
       computing[1] = call.node /\ ~call.failed
  /\ call.op = "query" =>
       IF call.failed THEN ~frozen[call.node]
       ELSE computing = <<>> => ~NeedsCalculation(call.node)
  /\ call.op = "recalculate" => call.node \in Controlled /\ ~frozen[call.node]

\* An inspector fails only if a computation from scratch would.
FailedInv ==
  call.op = "query" /\ call.failed /\ Watched[call.node] => Answer[call.node] = Null

LEMMA SeenStep ==
  ASSUME TypeOK, SeenInv, [Next]_vars
  PROVE  SeenInv'
<1>. USE DEF inputs, caches
<1>1. ASSUME NEW n \in Consumer, Enter(n) PROVE SeenInv'
  BY <1>1 DEF Enter, SeenInv, Unread, TypeOK
<1>2. ASSUME NEW S, Outdate(S) PROVE SeenInv'
  BY <1>2 DEF Outdate, SeenInv, Unread, TypeOK
<1>3. ASSUME NEW d \in Input, Read(d) PROVE SeenInv'
  <2>1. Current \in Consumer /\ d \in Reads[Current]
    BY <1>3, HasTop DEF Read, Reading, Current, TypeOK
  <2>2. \A n \in Consumer : \A e \in Input :
          seen'[n][e] = IF n = Current /\ e = d THEN Content(Source(d)) ELSE seen[n][e]
    BY <1>3, <2>1 DEF Read, TypeOK
  <2>. QED  BY <2>1, <2>2 DEF SeenInv
<1>4. CASE UNCHANGED seen
  BY <1>4 DEF SeenInv
<1>5. ASSUME NEW d \in Input, Descend(d) PROVE SeenInv'
  BY <1>1, <1>5 DEF Descend, Consumer
<1>6. ASSUME NEW n \in Controlled, Recalculate(n) PROVE SeenInv'
  BY <1>1, <1>6, NetworkAssumption DEF Recalculate, Consumer
<1>7. ASSUME NEW n \in Lazy, Query(n) PROVE SeenInv'
  BY <1>1, <1>4, <1>7 DEF Query, Consumer
<1>8. ASSUME NEW o \in Reader, Look(o) \/ UpdateReader(o) PROVE SeenInv'
  BY <1>1, <1>8 DEF Look, UpdateReader, Consumer
<1>. QED
  BY <1>2, <1>3, <1>4, <1>5, <1>6, <1>7, <1>8
  DEF Next, ClientCall, NotifyStep, ComputeStep, EndCall, SetValue, LinkTo, Freeze,
      Unfreeze, UpdateLink, UpdateLazy, UpdateFlag, EndNotify, Finish, Throw,
      EndRecalculate, EndQuery, EndModify, vars

LEMMA StackStep ==
  ASSUME TypeOK, StackInv, [Next]_vars
  PROVE  StackInv'
<1>. USE DEF inputs, caches
<1>1. ASSUME NEW n \in Consumer, Enter(n), computing = <<>> PROVE StackInv'
  BY <1>1 DEF Enter, StackInv
<1>2. ASSUME NEW d \in Input, Descend(d) PROVE StackInv'
  <2>1. /\ Source(d) \in Lazy /\ computing # <<>> /\ d \in Reads[Current]
        /\ UNCHANGED target
        /\ Len(computing') = Len(computing) + 1 /\ Len(computing) \in Nat
        /\ computing'[Len(computing) + 1] = Source(d)
        /\ \A i \in 1 .. Len(computing) : computing'[i] = computing[i]
    BY <1>2, Push DEF Descend, Reading, Enter, Consumer, TypeOK
  <2>. SUFFICES ASSUME NEW i \in 1 .. Len(computing)
                PROVE  /\ computing'[i + 1] \in Lazy
                       /\ \E e \in Reads[computing'[i]] : Source(e)' = computing'[i + 1]
    BY <2>1 DEF StackInv
  <2>2. \A e : Source(e)' = Source(e)
    BY <2>1 DEF Source
  <2>3. CASE i = Len(computing)
    BY <2>1, <2>2, <2>3 DEF Current
  <2>4. CASE i # Len(computing)
    <3>1. i \in 1 .. Len(computing) - 1 /\ i + 1 \in 1 .. Len(computing)
      BY <2>1, <2>4
    <3>. QED  BY <2>1, <2>2, <3>1 DEF StackInv
  <2>. QED  BY <2>3, <2>4
<1>3. ASSUME Finish PROVE StackInv'
  <2>1. /\ UNCHANGED target
        /\ Len(computing') = Len(computing) - 1 /\ Len(computing) \in Nat \ {0}
        /\ \A i \in 1 .. Len(computing) - 1 : computing'[i] = computing[i]
    BY <1>3, Pop, HasTop DEF Finish, TypeOK
  <2>. SUFFICES ASSUME NEW i \in 1 .. Len(computing') - 1
                PROVE  /\ computing'[i + 1] \in Lazy
                       /\ \E d \in Reads[computing'[i]] : Source(d)' = computing'[i + 1]
    BY <2>1 DEF StackInv
  <2>2. i \in 1 .. Len(computing) - 1 /\ i + 1 \in 1 .. Len(computing) - 1
    BY <2>1
  <2>3. \A d : Source(d)' = Source(d)
    BY <2>1 DEF Source
  <2>. QED  BY <2>1, <2>2, <2>3 DEF StackInv
<1>4. CASE computing' = <<>>
  BY <1>4 DEF StackInv
<1>5. CASE UNCHANGED <<computing, target>>
  BY <1>5 DEF StackInv, Source
<1>6. ASSUME NEW n \in Controlled, Recalculate(n) PROVE StackInv'
  BY <1>1, <1>6, NetworkAssumption DEF Recalculate, Consumer, Idle
<1>7. ASSUME NEW n \in Lazy, Query(n) PROVE StackInv'
  BY <1>1, <1>5, <1>7 DEF Query, Consumer, Idle
<1>8. ASSUME NEW o \in Reader, Look(o) \/ UpdateReader(o) PROVE StackInv'
  BY <1>1, <1>8 DEF Look, UpdateReader, Consumer, Idle, InLoop
<1>. QED
  BY <1>2, <1>3, <1>4, <1>5, <1>6, <1>7, <1>8
  DEF Next, ClientCall, NotifyStep, ComputeStep, EndCall, SetValue, LinkTo, Freeze,
      Unfreeze, UpdateLink, UpdateLazy, UpdateFlag, EndNotify, Read, Throw,
      EndRecalculate, EndQuery, EndModify, Idle, vars

LEMMA QueryStep ==
  ASSUME TypeOK, CallInv, ComputingInv, QueryInv, [Next]_vars
  PROVE  QueryInv'
<1>. USE DEF inputs, caches
<1>1. ASSUME NEW n \in Controlled, Recalculate(n) PROVE QueryInv'
  <2>1. n \in Lazy /\ n \in Consumer
    BY NetworkAssumption DEF Consumer
  <2>2. computing' = <<n>> /\ call'.node = n /\ call'.op = "recalculate" /\ ~call'.failed
        /\ ~frozen'[n]
    BY <1>1, <2>1 DEF Recalculate, Enter, Idle, TypeOK
  <2>. QED  BY <2>2 DEF QueryInv
<1>2. ASSUME NEW n \in Lazy, Query(n) PROVE QueryInv'
  <2>1. /\ call'.node = n /\ call'.op = "query" /\ ~call'.failed /\ frozen' = frozen
        /\ NeedsCalculation(n) => computing' = <<n>>
        /\ ~NeedsCalculation(n) => computing' = <<>> /\ calculated' = calculated
    BY <1>2 DEF Query, Enter, NoCall, Idle
  <2>2. CASE NeedsCalculation(n)
    BY <2>1, <2>2 DEF QueryInv
  <2>3. CASE ~NeedsCalculation(n)
    BY <2>1, <2>3 DEF QueryInv, NeedsCalculation
  <2>. QED  BY <2>2, <2>3
<1>3. CASE call'.op \notin {"query", "recalculate"}
  BY <1>3 DEF QueryInv
<1>4. ASSUME call.op \in {"query", "recalculate"}, NEW d \in Input, Descend(d)
      PROVE  QueryInv'
  <2>1. /\ computing # <<>> /\ computing' = Append(computing, Source(d))
        /\ computing' # <<>> /\ computing'[1] = computing[1]
        /\ UNCHANGED <<call, frozen>>
    BY <1>4 DEF Descend, Reading, Enter, TypeOK
  <2>. QED  BY <1>4, <2>1 DEF QueryInv
<1>5. ASSUME call.op \in {"query", "recalculate"}, NEW d \in Input, Read(d)
      PROVE  QueryInv'
  BY <1>5 DEF Read, Reading, QueryInv, NeedsCalculation
<1>6. ASSUME call.op \in {"query", "recalculate"}, Finish
      PROVE  QueryInv'
  <2>1. /\ UNCHANGED <<call, frozen, calculated>> /\ computing # <<>>
        /\ Len(computing) \in Nat \ {0} /\ Len(computing') = Len(computing) - 1
        /\ computing' \in Seq(Consumer)
        /\ \A i \in 1 .. Len(computing) - 1 : computing'[i] = computing[i]
    BY <1>6, Pop, HasTop DEF Finish, TypeOK
  <2>2. computing[1] = call.node /\ ~call.failed /\ calculated[computing[1]]
    BY <1>6, <2>1 DEF QueryInv, ComputingInv
  <2>3. computing' # <<>> => computing'[1] = computing[1]
    <3>1. computing' # <<>> => Len(computing') # 0
      BY <2>1, EmptySeq
    <3>. QED  BY <2>1, <3>1
  <2>. QED  BY <2>1, <2>2, <2>3 DEF QueryInv, NeedsCalculation
<1>7. ASSUME call.op \in {"query", "recalculate"}, Throw
      PROVE  QueryInv'
  <2>1. /\ computing # <<>> /\ computing' = <<>> /\ notifying = <<>> /\ frozen' = frozen
        /\ call' = [call EXCEPT !.failed = TRUE]
    BY <1>7 DEF Throw, CallInv
  <2>2. call'.op = call.op /\ call'.node = call.node /\ call'.failed /\ call.node \in Lazy
    BY <1>7, <2>1 DEF TypeOK, Call, CallInv
  <2>3. 1 \in 1 .. Len(computing)
    BY <2>1, HasTop DEF TypeOK
  <2>4. computing[1] = call.node /\ ~frozen[call.node]
    BY <1>7, <2>1, <2>2, <2>3 DEF QueryInv, ComputingInv
  <2>. QED  BY <1>7, <2>1, <2>2, <2>4 DEF QueryInv
<1>8. CASE UNCHANGED vars
  BY <1>8 DEF vars, QueryInv, NeedsCalculation
<1>9. ASSUME NotifyStep PROVE QueryInv'
  <2>1. call'.op = call.op /\ notifying # <<>>
    BY <1>9, EndNotifyType
    DEF NotifyStep, UpdateLink, UpdateLazy, UpdateFlag, UpdateReader, EndNotify, InLoop
  <2>. QED  BY <1>3, <2>1 DEF CallInv
<1>10. ASSUME call.op \notin {"query", "recalculate"}, ComputeStep PROVE QueryInv'
  <2>1. call'.op = call.op
    BY <1>10, ThrowType DEF ComputeStep, Descend, Read, Finish
  <2>. QED  BY <1>3, <1>10, <2>1
<1>11. ASSUME ClientCall PROVE QueryInv'
  BY <1>1, <1>2, <1>3, <1>11
  DEF ClientCall, SetValue, LinkTo, Freeze, Unfreeze, Look, Idle, Modify, NoCall
<1>12. ASSUME EndCall PROVE QueryInv'
  <2>1. CASE EndRecalculate
    <3>1. call'.op = "modify"
      BY <2>1 DEF EndRecalculate, Modify, NoCall
    <3>. QED  BY <1>3, <3>1
  <2>2. CASE EndQuery \/ EndModify
    <3>1. call'.op = "none"
      BY <2>2 DEF EndQuery, EndModify, NoCall
    <3>. QED  BY <1>3, <3>1
  <2>. QED  BY <1>12, <2>1, <2>2 DEF EndCall
<1>. QED
  BY <1>4, <1>5, <1>6, <1>7, <1>8, <1>9, <1>10, <1>11, <1>12 DEF Next, ComputeStep

-----------------------------------------------------------------------------
(* An exception leaves an inspector only if a computation from scratch     *)
(* would throw too.                                                        *)

\* The calculation on top of the stack throws.
LEMMA TopThrows ==
  ASSUME Inv, SeenInv, notifying = <<>>, call.op = "query", computing # <<>>, Throws,
         Current \in Lazy, Watched[Current]
  PROVE  Answer[Current] = Null
<1>1. TypeOK /\ LinkInv /\ InputsCurrent /\ CalcInv
  BY DEF Inv, CalcInv
<1>2. Current \in Consumer /\ WatchedIf(Watched, Current)
  BY <1>1, WatchedIs DEF Consumer
<1>3. ASSUME NEW d \in Reads[Current], Source(d) \in Lazy
      PROVE  /\ Source(d) \notin Computing
             /\ calculated[Source(d)] /\ ~frozen[Source(d)] =>
                  results[Source(d)] = Answer[Source(d)]
  <2>1. Source(d) # None
    BY <1>3, NetworkAssumption DEF Object, Consumer
  <2>2. Rank[Source(d)] < Rank[Current]
    BY <1>1, <1>2, <2>1, SourceBelow
  <2>3. Source(d) \notin Computing
    <3>. SUFFICES ASSUME NEW i \in 1 .. Len(computing), computing[i] = Source(d)
                  PROVE  FALSE
      BY DEF Computing
    <3>1. Rank[Current] <= Rank[Source(d)]
      BY <1>1, TopIsLowest DEF CalcInv
    <3>2. Rank[Current] \in Nat /\ Rank[Source(d)] \in Nat
      BY <1>2, <1>3, NetworkAssumption DEF Object, Consumer
    <3>. QED  BY <2>2, <3>1, <3>2
  <2>4. ~frozen[Source(d)] => Watched[Source(d)]
    BY <1>2, <1>3 DEF WatchedIf
  <2>5. Below(Source(d))
    BY DEF Below
  <2>. QED  BY <1>3, <2>3, <2>4, <2>5, Scratch
<1>4. CASE AllRead(Current) /\ Evaluate(Current, seen[Current]) = Null
  <2>1. ASSUME NEW d \in Reads[Current] PROVE Given(Answer, d) = seen[Current][d]
    <3>1. seen[Current][d] # Null
      BY <1>4 DEF AllRead
    <3>2. d \in Link => isObserver[d]
      BY <1>2 DEF WatchedIf
    <3>. QED  BY <1>1, <1>2, <1>3, <3>1, <3>2, InputGiven
  <2>. QED  BY <1>1, <1>4, <2>1, FromInputs
<1>5. ASSUME NEW d \in Reads[Current], Unusable(Source(d)) PROVE Answer[Current] = Null
  <2>1. Given(Answer, d) = Null
    <3>1. CASE Source(d) = None
      BY <1>1, <1>2, <3>1, GivenIs
    <3>2. CASE Source(d) \in Quote
      <4>1. Source(d) \notin Lazy /\ Source(d) # None
        BY <3>2, NetworkAssumption DEF Object, Consumer
      <4>. QED  BY <1>1, <1>2, <1>5, <3>2, <4>1, GivenIs DEF Unusable
    <3>3. CASE Source(d) \in Lazy
      <4>1. Source(d) \notin Quote /\ Source(d) # None
        BY <3>3, NetworkAssumption DEF Object, Consumer
      <4>2. results[Source(d)] = Null /\ (frozen[Source(d)] \/ calculated[Source(d)])
        BY <1>5, <4>1 DEF Unusable, NeedsCalculation
      <4>3. Source(d) \in Pinned <=> frozen[Source(d)]
        BY <3>3 DEF Pinned
      <4>. QED  BY <1>1, <1>2, <1>3, <3>3, <4>2, <4>3, GivenIs
    <3>. QED  BY <1>1, <1>2, <3>1, <3>2, <3>3, SourceBelow
  <2>2. Abstract!Computed(Answer, Current) = Null
    BY <1>1, <2>1, ComputedIs
  <2>. QED  BY <1>1, <2>2, AnswerIs
<1>. QED  BY <1>4, <1>5 DEF Throws

\* It takes the calculations below it on the stack along.
LEMMA AllThrow ==
  ASSUME Inv, SeenInv, StackInv, notifying = <<>>, call.op = "query", computing # <<>>,
         Throws, computing[1] \in Lazy, Watched[computing[1]]
  PROVE  Answer[computing[1]] = Null
<1>1. TypeOK /\ LinkInv /\ CalcInv
  BY DEF Inv, CalcInv
<1>2. Len(computing) \in Nat \ {0} /\ Len(computing) \in 1 .. Len(computing)
  BY <1>1, HasTop DEF TypeOK
<1>3. ASSUME NEW i \in 1 .. Len(computing) PROVE computing[i] \in Lazy
  <2>1. CASE i = 1
    BY <2>1
  <2>2. CASE i # 1
    <3>1. i - 1 \in 1 .. Len(computing) - 1 /\ (i - 1) + 1 = i
      BY <1>2, <2>2
    <3>. QED  BY <3>1 DEF StackInv
  <2>. QED  BY <2>1, <2>2
<1>4. ASSUME NEW i \in 1 .. Len(computing) - 1
      PROVE  /\ Watched[computing[i]] => Watched[computing[i + 1]]
             /\ Answer[computing[i + 1]] = Null => Answer[computing[i]] = Null
  <2>1. i \in 1 .. Len(computing) /\ i + 1 \in 1 .. Len(computing)
    BY <1>2
  <2>2. PICK d \in Reads[computing[i]] : Source(d) = computing[i + 1]
    BY DEF StackInv
  <2>3. computing[i] \in Lazy /\ computing[i + 1] \in Lazy /\ computing[i] \in Consumer
    BY <1>3, <2>1 DEF Consumer
  <2>4. ~frozen[computing[i + 1]]
    BY <1>1, <2>1, <2>3 DEF CalcInv, ComputingInv
  <2>5. Watched[computing[i]] => Watched[computing[i + 1]]
    <3>1. Watched[computing[i]] = WatchedIf(Watched, computing[i])
      BY <1>1, <2>3, WatchedIs
    <3>. QED  BY <2>2, <2>3, <2>4, <3>1 DEF WatchedIf
  <2>6. Answer[computing[i + 1]] = Null => Answer[computing[i]] = Null
    <3>1. computing[i + 1] \notin Pinned
      BY <2>3, <2>4 DEF Pinned
    <3>2. Given(Answer, d) = Answer[computing[i + 1]]
      BY <1>1, <2>2, <2>3, <3>1, GivenIs
    <3>3. Given(Answer, d) = Null => Abstract!Computed(Answer, computing[i]) = Null
      BY <1>1, <2>2, <2>3, ComputedIs
    <3>. QED  BY <1>1, <2>3, <3>2, <3>3, AnswerIs
  <2>. QED  BY <2>5, <2>6
<1>5. \A i \in 1 .. Len(computing) : Watched[computing[i]]
  <2>. DEFINE T == {i \in 1 .. Len(computing) : ~Watched[computing[i]]}
  <2>1. SUFFICES ASSUME T # {} PROVE FALSE
    OBVIOUS
  <2>2. T \in SUBSET Nat
    OBVIOUS
  <2>3. PICK i \in T : \A j \in T : i <= j
    <3>. HIDE DEF T
    <3>. QED  BY <2>1, <2>2, Least
  <2>4. i # 1 /\ i - 1 \in 1 .. Len(computing) - 1 /\ (i - 1) + 1 = i
        /\ i - 1 \in 1 .. Len(computing)
    BY <1>2, <2>3
  <2>5. Watched[computing[i - 1]]
    BY <2>3, <2>4
  <2>. QED  BY <1>4, <2>3, <2>4, <2>5
<1>6. Answer[computing[Len(computing)]] = Null
  BY <1>2, <1>3, <1>5, TopThrows DEF Current
<1>. DEFINE T == {i \in 1 .. Len(computing) : Answer[computing[i]] = Null}
<1>7. T \in SUBSET Nat /\ T # {}
  BY <1>2, <1>6
<1>8. PICK i \in T : \A j \in T : i <= j
  <2>. HIDE DEF T
  <2>. QED  BY <1>7, Least
<1>9. i = 1
  <2>1. SUFFICES ASSUME i # 1 PROVE FALSE
    OBVIOUS
  <2>2. i - 1 \in 1 .. Len(computing) - 1 /\ (i - 1) + 1 = i /\ i - 1 \in 1 .. Len(computing)
    BY <1>2, <1>8, <2>1
  <2>3. i - 1 \in T
    BY <1>4, <1>8, <2>2
  <2>. QED  BY <1>8, <2>2, <2>3
<1>. QED  BY <1>8, <1>9

\* Objects are pinned by freeze() and unfreeze() only.
LEMMA PinnedKept ==
  ASSUME UNCHANGED frozen,
         \/ UNCHANGED <<call.op, call.node, call.wasFrozen>>
         \/ call.op # "recalculate" /\ call'.op # "recalculate"
  PROVE  Pinned' = Pinned
BY DEF Pinned

LEMMA FailedStep ==
  ASSUME Inv, SeenInv, StackInv, QueryInv, FailedInv, Inv', [Next]_vars
  PROVE  FailedInv'
<1>1. TypeOK /\ LinkInv /\ CallInv /\ TypeOK' /\ LinkInv'
  BY DEF Inv
<1>2. CASE call'.op # "query" \/ ~call'.failed
  BY <1>2 DEF FailedInv
<1>3. CASE UNCHANGED vars
  <2>1. UNCHANGED <<inputs, frozen, call, results>>
    BY <1>3 DEF vars, caches
  <2>2. Pinned' = Pinned
    BY <2>1, PinnedKept
  <2>3. \A n \in Lazy : Answer'[n] = Answer[n] /\ Watched'[n] = Watched[n]
    BY <1>1, <2>1, <2>2, AnswerKept, WatchedKept
  <2>. QED  BY <1>1, <2>1, <2>3 DEF FailedInv, CallInv
<1>4. ASSUME Throw, call.op = "query" PROVE FailedInv'
  <2>1. /\ notifying = <<>> /\ computing # <<>> /\ Throws /\ UNCHANGED <<inputs, frozen, results>>
        /\ call' = [call EXCEPT !.failed = TRUE] /\ call.node \in Lazy
    BY <1>1, <1>4 DEF Throw, CallInv, Outdate
  <2>2. UNCHANGED <<call.op, call.node, call.wasFrozen>>
    BY <1>1, <2>1 DEF TypeOK, Call
  <2>3. Pinned' = Pinned
    BY <2>1, <2>2, PinnedKept
  <2>4. \A n \in Lazy : Answer'[n] = Answer[n] /\ Watched'[n] = Watched[n]
    BY <1>1, <2>1, <2>3, AnswerKept, WatchedKept
  <2>5. computing[1] = call.node
    BY <1>4, <2>1 DEF QueryInv
  <2>. QED  BY <1>4, <2>1, <2>2, <2>4, <2>5, AllThrow DEF FailedInv
<1>5. ASSUME Throw, call.op # "query" PROVE call'.op # "query"
  BY <1>1, <1>5, ThrowType
<1>6. ASSUME Finish \/ \E d \in Input : Descend(d) \/ Read(d)
      PROVE  call'.op # "query" \/ ~call'.failed
  <2>1. call' = call /\ computing # <<>>
    BY <1>6 DEF Descend, Read, Reading, Finish
  <2>. QED  BY <2>1 DEF QueryInv
<1>7. ASSUME NotifyStep PROVE call'.op # "query"
  <2>1. call'.op = call.op /\ notifying # <<>>
    BY <1>1, <1>7, EndNotifyType
    DEF NotifyStep, UpdateLink, UpdateLazy, UpdateFlag, UpdateReader, EndNotify, InLoop
  <2>. QED  BY <1>1, <2>1 DEF CallInv
<1>8. ASSUME ClientCall PROVE call'.op # "query" \/ ~call'.failed
  <2>1. ASSUME NEW n \in Lazy, Query(n) PROVE ~call'.failed
    BY <2>1 DEF Query, NoCall
  <2>2. ASSUME NEW n \in Controlled, Recalculate(n) PROVE call'.op # "query"
    BY <2>2 DEF Recalculate
  <2>3. ASSUME NEW n \in Controlled, Freeze(n) PROVE call'.op # "query"
    BY <2>3 DEF Freeze, Idle
  <2>4. CASE call' = Modify
    BY <2>4 DEF Modify, NoCall
  <2>. QED
    BY <1>8, <2>1, <2>2, <2>3, <2>4 DEF ClientCall, SetValue, LinkTo, Unfreeze, Look
<1>9. ASSUME EndRecalculate PROVE call'.op # "query"
  BY <1>9 DEF EndRecalculate, Modify, NoCall
<1>10. ASSUME EndQuery \/ EndModify PROVE call'.op # "query"
  BY <1>10 DEF EndQuery, EndModify, NoCall
<1>. QED
  BY <1>2, <1>3, <1>4, <1>5, <1>6, <1>7, <1>8, <1>9, <1>10
  DEF Next, ComputeStep, EndCall

CallsInv == SeenInv /\ StackInv /\ QueryInv /\ FailedInv

LEMMA InitCalls == Init => CallsInv
BY DEF Init, CallsInv, SeenInv, StackInv, QueryInv, FailedInv, Unread, NoCall

LEMMA CallsStep == Inv /\ CallsInv /\ [Next]_vars => Inv' /\ CallsInv'
<1>. SUFFICES ASSUME Inv, CallsInv, [Next]_vars PROVE Inv' /\ CallsInv'
  OBVIOUS
<1>1. Inv'
  BY InvStep
<1>2. TypeOK /\ CallInv /\ ComputingInv
  BY DEF Inv
<1>. QED  BY <1>1, <1>2, SeenStep, StackStep, QueryStep, FailedStep DEF CallsInv

-----------------------------------------------------------------------------
(* Every step of the network is a step of OnDemand, or none. *)

\* Links register with their targets, if no call tells one not to.
RegisteredInv == \A l \in Link : isObserver[l]

LEMMA RegisteredStep ==
  ASSUME TypeOK, RegisteredInv, RegisterModes \subseteq {TRUE}, [Next]_vars
  PROVE  RegisteredInv'
<1>1. ASSUME NEW l \in Link, NEW t \in Targets[l] \cup {None}, NEW r \in RegisterModes,
             LinkTo(l, t, r)
      PROVE  RegisteredInv'
  BY <1>1 DEF LinkTo, RegisteredInv, TypeOK
<1>2. CASE UNCHANGED isObserver
  BY <1>2 DEF RegisteredInv
<1>. QED
  BY <1>1, <1>2
  DEF Next, ClientCall, NotifyStep, ComputeStep, EndCall, SetValue, Freeze, Unfreeze,
      Recalculate, Query, Look, UpdateLink, UpdateLazy, UpdateFlag, UpdateReader,
      EndNotify, Descend, Read, Finish, Throw, EndRecalculate, EndQuery, EndModify,
      inputs, vars

\* What is pinned and held, if no result of a pinned object changes.
LEMMA HeldKept ==
  ASSUME Pinned' = Pinned, \A m \in Pinned : results'[m] = results[m]
  PROVE  Held' = Held
BY DEF Held

\* The answer of an inspector.
LEMMA InspectorAnswers ==
  ASSUME Inv, CallsInv, EndQuery, frozen[call.node] \/ Watched[call.node]
  PROVE  reply'.result = IF frozen[call.node] THEN results[call.node] ELSE Answer[call.node]
<1>. DEFINE n == call.node
<1>1. TypeOK /\ LinkInv /\ CallInv /\ n \in Lazy /\ notifying = <<>> /\ computing = <<>>
      /\ call.op = "query"
  BY DEF Inv, EndQuery, CallInv
<1>2. reply' = IF call.failed \/ results[n] = Null THEN Threw(n) ELSE Returned(n, results[n])
  BY DEF EndQuery
<1>3. reply'.result = IF call.failed THEN Null ELSE results[n]
  BY <1>2 DEF Threw, Returned
<1>4. CASE frozen[n]
  BY <1>1, <1>3, <1>4 DEF CallsInv, QueryInv
<1>5. CASE ~frozen[n] /\ call.failed
  BY <1>1, <1>3, <1>5 DEF CallsInv, FailedInv
<1>6. CASE ~frozen[n] /\ ~call.failed
  <2>1. calculated[n] /\ n \notin Computing /\ Below(n) /\ Watched[n]
    BY <1>1, <1>6 DEF CallsInv, QueryInv, NeedsCalculation, Computing, Below
  <2>2. results[n] = Answer[n]
    BY <1>1, <1>6, <2>1, Scratch DEF CallsInv
  <2>. QED  BY <1>3, <1>6, <2>2
<1>. QED  BY <1>4, <1>5, <1>6

(***************************************************************************)
(* LazyObject::calculate: an inspector of an unfrozen object answers what  *)
(* a computation from scratch would, and throws exactly when that would,   *)
(* if every link it reads through registers with its target.               *)
(***************************************************************************)
THEOREM FromScratchAnswered == Spec => AnswersFromScratch
<1>1. ASSUME Inv, CallsInv, [Next]_vars
      PROVE  call.op = "query" /\ call'.op = "none" =>
               LET n == call.node IN
               ~frozen[n] /\ Watched[n] => reply'.result = FromScratch[n]
  <2>. SUFFICES ASSUME call.op = "query", call'.op = "none", ~frozen[call.node],
                       Watched[call.node]
                PROVE  reply'.result = FromScratch[call.node]
    OBVIOUS
  <2>1. EndQuery
    <3>1. call'.op # call.op /\ ~Idle
      BY DEF Idle
    <3>2. ~NotifyStep
      BY <1>1, <3>1, EndNotifyType
      DEF Inv, NotifyStep, UpdateLink, UpdateLazy, UpdateFlag, UpdateReader
    <3>3. ~ComputeStep
      BY <1>1, <3>1, ThrowType DEF Inv, ComputeStep, Descend, Read, Finish
    <3>4. ~ClientCall
      BY <3>1
      DEF ClientCall, SetValue, LinkTo, Freeze, Unfreeze, Recalculate, Query, Look
    <3>. QED
      BY <1>1, <3>1, <3>2, <3>3, <3>4 DEF Next, EndCall, EndRecalculate, EndModify, vars
  <2>2. FromScratch[call.node] = Answer[call.node]
    BY <1>1, <2>1 DEF FromScratch, Answer, Inv, CallInv
  <2>. QED  BY <1>1, <2>1, <2>2, InspectorAnswers
<1>2. Inv /\ CallsInv /\ [Next]_vars =>
        [call.op = "query" /\ call'.op = "none" =>
           LET n == call.node IN
           ~frozen[n] /\ Watched[n] => reply'.result = FromScratch[n]]_vars
  BY <1>1
<1>. QED
  BY <1>2, InitInv, InitCalls, CallsStep, PTL DEF Spec, AnswersFromScratch

\* recalculate() renews what a pinned object holds by a computation from scratch.
LEMMA Renewed ==
  ASSUME Inv, CallsInv, RegisteredInv, Finish, Current \in Pinned
  PROVE  /\ Answer[Current] # Null
         /\ Held' = [Held EXCEPT ![Current] = Answer[Current]]
         /\ Pinned' = Pinned /\ Current \in Controlled
<1>1. TypeOK /\ LinkInv /\ CallInv /\ InputsCurrent /\ CalcInv
  BY DEF Inv, CalcInv
<1>2. /\ Current \in Lazy /\ Current \in Consumer /\ Len(computing) \in 1 .. Len(computing)
      /\ AllRead(Current) /\ Evaluate(Current, seen[Current]) # Null
      /\ results' = [results EXCEPT ![Current] = Evaluate(Current, seen[Current])]
      /\ UNCHANGED <<inputs, frozen, call>>
  BY <1>1, HasTop DEF Finish, Pinned, Consumer, TypeOK
<1>3. call.op = "recalculate" /\ call.node = Current
  BY <1>1, <1>2 DEF CalcInv, ComputingInv, Current, Pinned
<1>4. notifying = <<>> /\ Current \in Controlled
  BY <1>1, <1>3 DEF CallInv, CallsInv, QueryInv
<1>5. ASSUME NEW d \in Reads[Current] PROVE Given(Answer, d) = seen[Current][d]
  <2>1. seen[Current][d] # Null
    BY <1>2 DEF AllRead
  <2>2. ASSUME Source(d) \in Lazy
        PROVE  /\ Source(d) # Current
               /\ calculated[Source(d)] /\ Source(d) \notin Computing /\ ~frozen[Source(d)] =>
                    results[Source(d)] = Answer[Source(d)]
    <3>1. Source(d) # None
      BY <2>2, NetworkAssumption DEF Object, Consumer
    <3>2. Rank[Source(d)] < Rank[Current]
      BY <1>1, <1>2, <3>1, SourceBelow
    <3>3. Rank[Source(d)] \in Nat /\ Rank[Current] \in Nat
      BY <1>2, <2>2, NetworkAssumption DEF Object, Consumer
    <3>4. Watched[Source(d)]
      BY <1>1, <2>2, AllWatched DEF RegisteredInv
    <3>. QED  BY <1>3, <1>4, <2>2, <3>2, <3>3, <3>4, Scratch DEF Below, CallsInv
  <2>3. d \in Link => isObserver[d]
    BY DEF RegisteredInv
  <2>4. call.op = "recalculate" => Source(d) # call.node
    BY <1>2, <1>3, <2>2
  <2>. QED  BY <1>1, <1>2, <1>4, <2>1, <2>2, <2>3, <2>4, InputGiven
<1>6. Answer[Current] = Evaluate(Current, seen[Current])
  BY <1>1, <1>2, <1>5, FromInputs DEF CallsInv
<1>7. Pinned' = Pinned
  BY <1>2, PinnedKept
<1>8. Held' = [Held EXCEPT ![Current] = Answer[Current]]
  BY <1>1, <1>2, <1>6, <1>7 DEF Held, TypeOK
<1>. QED  BY <1>2, <1>4, <1>6, <1>7, <1>8

LEMMA AbstractInit == Init => Abstract!Init
<1>. SUFFICES ASSUME Init PROVE Abstract!Init
  OBVIOUS
<1>1. Pinned = {}
  BY DEF Init, Pinned, NoCall
<1>2. Held = [n \in Lazy |-> Null]
  BY <1>1 DEF Held
<1>. QED
  BY <1>1, <1>2 DEF Init, Abstract!Init, NoReply, Abstract!NoReply

\* A step that leaves quotes, links and pinned results alone, and answers nobody.
LEMMA Stutter ==
  ASSUME UNCHANGED <<value, target, reply>>, Pinned' = Pinned,
         \A m \in Pinned : results'[m] = results[m]
  PROVE  UNCHANGED Abstract!vars
BY HeldKept DEF Abstract!vars

LEMMA OtherStep ==
  ASSUME UNCHANGED <<value, target>>, Pinned' = Pinned,
         \A m \in Pinned : results'[m] = results[m],
         reply' \in {NoReply, Returned(NoOne, Null), Threw(NoOne)}
  PROVE  Abstract!Next
<1>1. Abstract!OtherCall
  BY HeldKept
  DEF Abstract!OtherCall, NoReply, Returned, Threw, Abstract!NoReply,
      Abstract!Returned, Abstract!Threw
<1>. QED  BY <1>1 DEF Abstract!Next

LEMMA AbstractStep ==
  ASSUME Inv, CallsInv, RegisteredInv, RegisterModes \subseteq {TRUE}, [Next]_vars
  PROVE  [Abstract!Next]_(Abstract!vars)
<1>. USE DEF inputs, caches
<1>0. TypeOK /\ LinkInv /\ CallInv
  BY DEF Inv
<1>1. ASSUME NEW q \in Quote, NEW v \in Number \cup {Null}, SetValue(q, v)
      PROVE  Abstract!Next
  <2>1. Pinned' = Pinned
    BY <1>1, PinnedKept DEF SetValue, Idle, Modify, NoCall
  <2>2. Abstract!SetValue(q, v)
    BY <1>1, <2>1, HeldKept DEF SetValue, Abstract!SetValue, NoReply, Abstract!NoReply
  <2>. QED  BY <2>2 DEF Abstract!Next
<1>2. ASSUME NEW l \in Link, NEW t \in Targets[l] \cup {None}, NEW r \in RegisterModes,
             LinkTo(l, t, r)
      PROVE  Abstract!Next
  <2>1. Pinned' = Pinned
    BY <1>2, PinnedKept DEF LinkTo, Idle, Modify, NoCall
  <2>2. Abstract!LinkTo(l, t)
    BY <1>2, <2>1, HeldKept DEF LinkTo, Abstract!LinkTo, NoReply, Abstract!NoReply
  <2>. QED  BY <2>2 DEF Abstract!Next
<1>3. ASSUME NEW n \in Controlled, Freeze(n) PROVE Abstract!Next
  <2>1. n \in Lazy /\ results[n] \in Number \cup {Null}
    BY <1>0, NetworkAssumption DEF TypeOK
  <2>2. Pinned' = Pinned \cup {n}
    BY <1>0, <1>3, <2>1 DEF Freeze, Pinned, Idle, TypeOK
  <2>3. UNCHANGED results
    BY <1>3 DEF Freeze
  <2>4. n \in Pinned => Held' = Held
    BY <2>2, <2>3 DEF Held
  <2>5. n \notin Pinned => Held' = [Held EXCEPT ![n] = results[n]]
    BY <2>1, <2>2, <2>3 DEF Held
  <2>6. Abstract!Freeze(n)
    BY <1>3, <2>1, <2>2, <2>4, <2>5
    DEF Freeze, Abstract!Freeze, NoReply, Abstract!NoReply
  <2>. QED  BY <2>6 DEF Abstract!Next
<1>4. ASSUME NEW n \in Controlled, Unfreeze(n) PROVE Abstract!Next
  <2>1. n \in Lazy /\ frozen[n] /\ UNCHANGED results /\ n \in Pinned
    BY <1>4, NetworkAssumption DEF Unfreeze, Pinned
  <2>2. Pinned' = Pinned \ {n}
    BY <1>0, <1>4, <2>1 DEF Unfreeze, Pinned, Idle, TypeOK, Modify, NoCall
  <2>3. Held' = [Held EXCEPT ![n] = Null]
    BY <2>1, <2>2 DEF Held
  <2>4. Abstract!Unfreeze(n)
    BY <1>4, <2>1, <2>2, <2>3 DEF Unfreeze, Abstract!Unfreeze, NoReply, Abstract!NoReply
  <2>. QED  BY <2>4 DEF Abstract!Next
<1>5. ASSUME NEW n \in Controlled, Recalculate(n) PROVE Abstract!Next
  <2>1. n \in Lazy /\ UNCHANGED results /\ call'.op = "recalculate" /\ call'.node = n
        /\ call'.wasFrozen = frozen[n] /\ call.op = "none"
    BY <1>5, NetworkAssumption DEF Recalculate, Enter, Idle
  <2>2. Pinned' = Pinned
    BY <1>0, <1>5, <2>1 DEF Recalculate, Pinned, TypeOK
  <2>. QED  BY <1>5, <2>1, <2>2, OtherStep DEF Recalculate
<1>6. ASSUME NEW n \in Lazy, Query(n) PROVE Abstract!Next
  <2>1. Pinned' = Pinned
    BY <1>6, PinnedKept DEF Query, Idle, NoCall
  <2>. QED  BY <1>6, <2>1, OtherStep DEF Query, Enter
<1>7. ASSUME NEW o \in Reader, Look(o) PROVE Abstract!Next
  <2>1. Pinned' = Pinned
    BY <1>7, PinnedKept DEF Look, Idle, Modify, NoCall
  <2>. QED  BY <1>7, <2>1, OtherStep DEF Look, Enter
<1>8. ASSUME NotifyStep PROVE UNCHANGED Abstract!vars
  <2>1. UNCHANGED <<inputs, frozen, results, reply>>
    BY <1>8
    DEF NotifyStep, UpdateLink, UpdateLazy, UpdateFlag, UpdateReader, EndNotify, Enter,
        Outdate
  <2>2. call.op # "recalculate" /\ call'.op # "recalculate"
    <3>1. call'.op = call.op /\ notifying # <<>>
      BY <1>0, <1>8, EndNotifyType
      DEF NotifyStep, UpdateLink, UpdateLazy, UpdateFlag, UpdateReader, EndNotify, InLoop
    <3>. QED  BY <1>0, <3>1 DEF CallInv
  <2>. QED  BY <2>1, <2>2, PinnedKept, Stutter
<1>9. ASSUME NEW d \in Input, Descend(d) \/ Read(d) PROVE UNCHANGED Abstract!vars
  <2>1. UNCHANGED <<inputs, frozen, results, reply, call>>
    BY <1>9 DEF Descend, Read, Enter
  <2>. QED  BY <2>1, PinnedKept, Stutter
<1>10. ASSUME Throw PROVE UNCHANGED Abstract!vars
  <2>1. UNCHANGED <<inputs, frozen, results, reply>>
    BY <1>10 DEF Throw, Outdate
  <2>2. UNCHANGED <<call.op, call.node, call.wasFrozen>>
    BY <1>0, <1>10 DEF Throw, TypeOK, Call
  <2>. QED  BY <2>1, <2>2, PinnedKept, Stutter
<1>11. ASSUME Finish PROVE Abstract!Next \/ UNCHANGED Abstract!vars
  <2>1. UNCHANGED <<inputs, frozen, reply, call>>
    BY <1>11 DEF Finish
  <2>2. CASE Current \in Pinned
    <3>1. Abstract!Recalculate(Current)
      BY <1>11, <2>1, <2>2, Renewed DEF Abstract!Recalculate, Answer
    <3>2. Current \in Controlled
      BY <1>11, <2>2, Renewed
    <3>. QED  BY <3>1, <3>2 DEF Abstract!Next
  <2>3. CASE Current \notin Pinned
    <3>1. \A m \in Pinned : results'[m] = results[m]
      BY <1>0, <1>11, <2>3 DEF Finish, TypeOK, Pinned
    <3>. QED  BY <2>1, <3>1, PinnedKept, Stutter
  <2>. QED  BY <2>2, <2>3
<1>12. ASSUME EndRecalculate PROVE UNCHANGED Abstract!vars
  <2>1. /\ UNCHANGED <<inputs, results, reply>> /\ call.op = "recalculate"
        /\ frozen' = [frozen EXCEPT ![call.node] = call.wasFrozen]
        /\ call.node \in Lazy /\ call.wasFrozen \in BOOLEAN /\ ~frozen[call.node]
    BY <1>0, <1>12 DEF EndRecalculate, CallInv, CallsInv, QueryInv, TypeOK, Call
  <2>2. call'.op = "modify"
    BY <1>12 DEF EndRecalculate, Modify, NoCall
  <2>3. Pinned' = Pinned
    BY <1>0, <2>1, <2>2 DEF Pinned, TypeOK
  <2>. QED  BY <2>1, <2>3, Stutter
<1>13. ASSUME EndQuery PROVE Abstract!Next
  <2>. DEFINE n == call.node
  <2>1. /\ UNCHANGED <<inputs, frozen, results>> /\ call.op = "query" /\ call' = NoCall
        /\ n \in Lazy
        /\ \/ reply' = Threw(n)
           \/ reply' = Returned(n, results[n]) /\ results[n] # Null
    BY <1>0, <1>13 DEF EndQuery, CallInv
  <2>2. Pinned' = Pinned /\ (n \in Pinned <=> frozen[n])
    <3>1. Pinned' = Pinned
      BY <2>1, PinnedKept DEF NoCall
    <3>. QED  BY <2>1, <3>1 DEF Pinned
  <2>3. Watched[n]
    BY <1>0, <2>1, AllWatched DEF RegisteredInv
  <2>4. reply'.result = IF n \in Pinned THEN Held[n] ELSE Answer[n]
    BY <1>13, <2>1, <2>2, <2>3, InspectorAnswers DEF Held
  <2>5. reply' = Abstract!Reply(n, reply'.result)
    BY <2>1
    DEF Abstract!Reply, Threw, Returned, Abstract!Threw, Abstract!Returned
  <2>6. Abstract!Ask(n)
    BY <2>1, <2>2, <2>4, <2>5, HeldKept DEF Abstract!Ask, Answer
  <2>. QED  BY <2>1, <2>6 DEF Abstract!Next
<1>14. ASSUME EndModify PROVE Abstract!Next
  <2>1. Pinned' = Pinned
    BY <1>14, PinnedKept DEF EndModify, NoCall
  <2>. QED  BY <1>14, <2>1, OtherStep DEF EndModify
<1>15. CASE UNCHANGED vars
  <2>1. UNCHANGED <<value, target, reply, call, frozen, results>>
    BY <1>15 DEF vars
  <2>. QED  BY <2>1, PinnedKept, Stutter
<1>. QED
  BY <1>1, <1>2, <1>3, <1>4, <1>5, <1>6, <1>7, <1>8, <1>9, <1>10, <1>11, <1>12, <1>13,
     <1>14, <1>15
  DEF Next, ClientCall, ComputeStep, EndCall

(***************************************************************************)
(* The network implements OnDemand, if every link registers with what it   *)
(* points to: caching, freezing and notifying change when results are      *)
(* computed, and never what an inspector answers.                          *)
(***************************************************************************)
THEOREM Implements ==
  ASSUME RegisterModes \subseteq {TRUE}
  PROVE  Spec => ImplementsOnDemand
<1>1. Init => RegisteredInv
  BY DEF Init, RegisteredInv
<1>2. Inv /\ CallsInv /\ RegisteredInv /\ [Next]_vars => RegisteredInv'
  BY RegisteredStep DEF Inv
<1>3. Inv /\ CallsInv /\ RegisteredInv /\ [Next]_vars => [Abstract!Next]_(Abstract!vars)
  BY AbstractStep
<1>. QED
  BY <1>1, <1>2, <1>3, InitInv, InitCalls, CallsStep, AbstractInit, PTL
  DEF Spec, ImplementsOnDemand, Abstract!Spec

=============================================================================
