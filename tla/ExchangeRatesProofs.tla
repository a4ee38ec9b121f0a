------------------------- MODULE ExchangeRatesProofs -------------------------
(***************************************************************************)
(* Proofs about exchange rates, for any currencies, links, known rates,    *)
(* dates and levels, and any number of rates added: what is preferred,     *)
(* that a chain is found exactly if there is one, and that the rate        *)
(* returned is what exchanging by it does.                                 *)
(***************************************************************************)
EXTENDS ExchangeRates, FiniteSetTheorems, WellFoundedInduction, TLAPS

(***************************************************************************)
(* Induction on numbers, and that recursive functions exist                *)
(***************************************************************************)

\* A set of numbers has a least one.
LEMMA Least ==
  ASSUME NEW T \in SUBSET Nat, T # {}
  PROVE  \E x \in T : \A y \in T : x <= y
<1>. DEFINE R == {ss \in Nat \X Nat : ss[1] < ss[2]}
<1>1. IsWellFoundedOn(R, Nat)
  BY NatLessThanWellFounded DEF OpToRel
<1>2. PICK x \in T : \A y \in T : ~ (<<y, x>> \in R)
  <2>. HIDE DEF R
  <2>. QED  BY <1>1, WFMin
<1>3. \A y \in T : x <= y
  <2>. SUFFICES ASSUME NEW y \in T PROVE x <= y
    OBVIOUS
  <2>1. x \in Nat /\ y \in Nat /\ <<y, x>> \notin R
    BY <1>2
  <2>2. ~ (y < x)
    BY <2>1
  <2>. QED  BY <2>1, <2>2
<1>. QED  BY <1>3

\* Induction, with the numbers for which a fact holds as a set.
LEMMA Induct ==
  ASSUME NEW T, 0 \in T, \A n \in Nat : n \in T => n + 1 \in T
  PROVE  Nat \subseteq T
<1>1. SUFFICES ASSUME Nat \ T # {} PROVE FALSE
  OBVIOUS
<1>2. PICK x \in Nat \ T : \A y \in Nat \ T : x <= y
  BY <1>1, Least
<1>3. x # 0 /\ x - 1 \in Nat
  BY <1>2
<1>4. x - 1 \in T
  BY <1>2, <1>3
<1>. QED  BY <1>2, <1>3, <1>4

\* F makes a function of a function, looking for each n only at lower ranks.
LooksBelow(S, V, rank, F) ==
  \A f, g \in [S -> V] : \A n \in S :
    (\A m \in S : rank[m] < rank[n] => f[m] = g[m]) => F[f][n] = F[g][n]

HasFixpoint(S, V, F) == \E f \in [S -> V] : F[f] = f

(***************************************************************************)
(* F takes a function on S to the next one, looking for each argument only *)
(* at arguments of lower rank: there is a function that F leaves as it is. *)
(* The functions on which F agrees with itself up to rank k exist for each *)
(* k, agree with each other up to there, and are pieced together.          *)
(***************************************************************************)
LEMMA Recursion ==
  ASSUME NEW S, NEW V, V # {}, NEW rank \in [S -> Nat],
         NEW F \in [[S -> V] -> [S -> V]], LooksBelow(S, V, rank, F)
  PROVE  HasFixpoint(S, V, F)
<1>. USE DEF LooksBelow
<1>. DEFINE Good(k) == {g \in [S -> V] : \A n \in S : rank[n] < k => F[g][n] = g[n]}
           Same(k) == \A g, h \in Good(k) : \A n \in S : rank[n] < k => g[n] = h[n]
           T == {k \in Nat : Good(k) # {}}
           U == {k \in Nat : Same(k)}
<1>1. 0 \in T
  <2>1. PICK v \in V : TRUE
    OBVIOUS
  <2>2. [n \in S |-> v] \in Good(0)
    BY <2>1
  <2>. QED  BY <2>2
<1>2. \A k \in Nat : k \in T => k + 1 \in T
  <2>. SUFFICES ASSUME NEW k \in Nat, NEW g \in Good(k) PROVE F[g] \in Good(k + 1)
    <3>. HIDE DEF Good
    <3>. QED  OBVIOUS
  <2>1. F[g] \in [S -> V]
    OBVIOUS
  <2>2. ASSUME NEW n \in S, rank[n] < k + 1 PROVE F[F[g]][n] = F[g][n]
    <3>1. \A m \in S : rank[m] < rank[n] => F[g][m] = g[m]
      BY <2>2
    <3>. QED  BY <2>1, <3>1
  <2>. QED  BY <2>1, <2>2
<1>3. Nat \subseteq T
  BY <1>1, <1>2, Induct, Zenon
<1>4. 0 \in U
  OBVIOUS
<1>5. \A k \in Nat : k \in U => k + 1 \in U
  <2>. SUFFICES ASSUME NEW k \in Nat, Same(k), NEW g \in Good(k + 1), NEW h \in Good(k + 1),
                       NEW n \in S, rank[n] < k + 1
                PROVE  g[n] = h[n]
    <3>. HIDE DEF Good
    <3>. QED  OBVIOUS
  <2>1. g \in Good(k) /\ h \in Good(k)
    OBVIOUS
  <2>2. \A m \in S : rank[m] < rank[n] => g[m] = h[m]
    <3>. HIDE DEF Good
    <3>. QED  BY <2>1
  <2>3. g[n] = F[g][n] /\ h[n] = F[h][n]
    OBVIOUS
  <2>. QED  BY <2>2, <2>3
<1>6. Nat \subseteq U
  BY <1>4, <1>5, Induct, Zenon
<1>. DEFINE pick(n) == CHOOSE g \in Good(rank[n] + 1) : TRUE
            f == [n \in S |-> pick(n)[n]]
<1>7. \A n \in S : pick(n) \in Good(rank[n] + 1)
  <2>. SUFFICES ASSUME NEW n \in S PROVE Good(rank[n] + 1) # {}
    BY Zenon
  <2>. rank[n] + 1 \in Nat
    OBVIOUS
  <2>. HIDE DEF Good
  <2>. QED  BY <1>3
<1>8. f \in [S -> V]
  <2>. HIDE DEF pick
  <2>. QED  BY <1>7
<1>9. ASSUME NEW n \in S PROVE F[f][n] = f[n]
  <2>1. ASSUME NEW m \in S, rank[m] < rank[n] PROVE f[m] = pick(n)[m]
    <3>1. pick(m) \in Good(rank[m] + 1) /\ pick(n) \in Good(rank[n] + 1)
      BY <1>7
    <3>2. pick(n) \in Good(rank[m] + 1)
      <4>. HIDE DEF pick
      <4>. QED  BY <3>1, <2>1
    <3>3. rank[m] + 1 \in U /\ rank[m] < rank[m] + 1
      BY <1>6
    <3>. HIDE DEF pick, Good
    <3>. QED  BY <3>1, <3>2, <3>3
  <2>2. pick(n) \in [S -> V] /\ F[pick(n)][n] = pick(n)[n]
    <3>. HIDE DEF pick
    <3>. QED  BY <1>7
  <2>3. F[f][n] = F[pick(n)][n]
    <3>. HIDE DEF pick, f
    <3>. QED  BY <1>8, <2>1, <2>2
  <2>. QED  BY <2>2, <2>3
<1>. QED
  <2>. HIDE DEF f
  <2>1. F[f] \in [S -> V]
    BY <1>8
  <2>. QED  BY <1>8, <1>9, <2>1 DEF HasFixpoint

-----------------------------------------------------------------------------

\* The entries a program adds: no currency against itself.
Proper == {e \in Entry : e.rate.source # e.rate.target}

Fits(e, p, d) == Of(e) = p /\ ValidAt(e, d)

(***************************************************************************)
(* What a list of entries, newest first, says of a pair p on date d is     *)
(* what the log of all that was added says: nothing is valid in either, or *)
(* the first valid entry of the one is the last of the other.              *)
(***************************************************************************)
Newest(entries, log, p, d) ==
  \/ /\ \A k \in 1 .. Len(entries) : ~ ValidAt(entries[k], d)
     /\ \A j \in 1 .. Len(log) : ~ Fits(log[j], p, d)
  \/ \E k \in 1 .. Len(entries), j \in 1 .. Len(log) :
       /\ entries[k] = log[j]
       /\ ValidAt(entries[k], d) /\ \A i \in 1 .. k - 1 : ~ ValidAt(entries[i], d)
       /\ Fits(log[j], p, d) /\ \A i \in j + 1 .. Len(log) : ~ Fits(log[i], p, d)

Holds(repository, log) ==
  /\ repository \in [Pairs -> Seq(Entry)]
  /\ log \in Seq(Proper)
  /\ \A p \in Pairs, d \in Date : Newest(repository[p], log, p, d)

Inv == Holds(data, added)

-----------------------------------------------------------------------------
\* Storing an entry in the repository and in the log keeps them in step.

LEMMA OfInPairs ==
  ASSUME NEW e \in Entry
  PROVE  /\ e.rate.source \in Currency /\ e.rate.target \in Currency
         /\ e.rate.rate \in Int /\ e.rate \in DirectRate /\ e.rate.type = "Direct"
         /\ e.start \in Nat /\ e.end \in Nat /\ Of(e) \in Pairs
         /\ Of(e) = {e.rate.source, e.rate.target}
<1>1. e.rate \in DirectRate /\ e.start \in Date /\ e.end \in Date
  BY DEF Entry
<1>2. PICK s \in Currency, t \in Currency, r \in Level : e.rate = Direct(s, t, r)
  BY <1>1 DEF DirectRate
<1>3. e.rate.source = s /\ e.rate.target = t /\ e.rate.rate = r /\ e.rate.type = "Direct"
  BY <1>2 DEF Direct
<1>4. e.rate.rate \in Int /\ e.start \in Nat /\ e.end \in Nat
  BY <1>1, <1>3, DateAssumption
<1>5. Of(e) = {e.rate.source, e.rate.target}
  BY DEF Of, Key
<1>6. Of(e) \in Pairs
  BY <1>3, <1>5 DEF Pairs, Key
<1>. QED  BY <1>1, <1>3, <1>4, <1>5, <1>6

\* An entry in front of a list is the newest if it is valid.
LEMMA InFront ==
  ASSUME NEW s \in Seq(Entry), NEW e \in Entry
  PROVE  /\ <<e>> \o s \in Seq(Entry)
         /\ Len(<<e>> \o s) = Len(s) + 1
         /\ (<<e>> \o s)[1] = e
         /\ \A k \in 1 .. Len(s) : (<<e>> \o s)[k + 1] = s[k]
OBVIOUS

LEMMA StoreHolds ==
  ASSUME NEW r, NEW log, Holds(r, log), NEW e \in Proper
  PROVE  Holds(Store(r, e), Append(log, e))
<1>1. /\ r \in [Pairs -> Seq(Entry)] /\ log \in Seq(Proper) /\ e \in Entry
      /\ Of(e) \in Pairs
  BY OfInPairs DEF Holds, Proper
<1>. DEFINE q == Of(e)
           s == <<e>> \o r[q]
           after == Append(log, e)
<1>2. Store(r, e) = [r EXCEPT ![q] = s]
  BY <1>1 DEF Store
<1>3. /\ s \in Seq(Entry) /\ Len(s) = Len(r[q]) + 1 /\ s[1] = e
      /\ \A k \in 1 .. Len(r[q]) : s[k + 1] = r[q][k]
  BY <1>1, InFront
<1>4. /\ after \in Seq(Proper) /\ Len(after) = Len(log) + 1 /\ after[Len(log) + 1] = e
      /\ \A j \in 1 .. Len(log) : after[j] = log[j]
  BY <1>1
<1>5. Store(r, e) \in [Pairs -> Seq(Entry)] /\ Store(r, e)[q] = s
      /\ \A p \in Pairs : p # q => Store(r, e)[p] = r[p]
  <2>. HIDE DEF s, q
  <2>. QED  BY <1>1, <1>2, <1>3 DEF q
<1>6. Len(log) \in Nat /\ Len(r[q]) \in Nat
  BY <1>1
<1>. HIDE DEF s, after
<1>7. ASSUME NEW p \in Pairs, NEW d \in Date, p # q
      PROVE  Newest(r[p], after, p, d)
  <2>1. Newest(r[p], log, p, d) /\ ~ Fits(e, p, d)
    BY <1>7 DEF Holds, Fits
  <2>2. CASE /\ \A k \in 1 .. Len(r[p]) : ~ ValidAt(r[p][k], d)
             /\ \A j \in 1 .. Len(log) : ~ Fits(log[j], p, d)
    <3>1. \A j \in 1 .. Len(after) : ~ Fits(after[j], p, d)
      BY <1>4, <1>6, <2>1, <2>2
    <3>. QED  BY <2>2, <3>1 DEF Newest
  <2>3. CASE \E k \in 1 .. Len(r[p]), j \in 1 .. Len(log) :
               /\ r[p][k] = log[j]
               /\ ValidAt(r[p][k], d) /\ \A i \in 1 .. k - 1 : ~ ValidAt(r[p][i], d)
               /\ Fits(log[j], p, d) /\ \A i \in j + 1 .. Len(log) : ~ Fits(log[i], p, d)
    <3>1. PICK k \in 1 .. Len(r[p]), j \in 1 .. Len(log) :
               /\ r[p][k] = log[j]
               /\ ValidAt(r[p][k], d) /\ \A i \in 1 .. k - 1 : ~ ValidAt(r[p][i], d)
               /\ Fits(log[j], p, d) /\ \A i \in j + 1 .. Len(log) : ~ Fits(log[i], p, d)
      BY <2>3
    <3>2. j \in 1 .. Len(after) /\ after[j] = log[j]
      BY <1>4, <1>6
    <3>3. \A i \in j + 1 .. Len(after) : ~ Fits(after[i], p, d)
      BY <1>4, <1>6, <2>1, <3>1
    <3>. QED  BY <3>1, <3>2, <3>3 DEF Newest
  <2>. QED  BY <2>1, <2>2, <2>3 DEF Newest
<1>8. ASSUME NEW d \in Date PROVE Newest(s, after, q, d)
  <2>1. Newest(r[q], log, q, d)
    BY <1>1 DEF Holds
  <2>2. CASE ValidAt(e, d)
    <3>1. Fits(after[Len(after)], q, d) /\ ValidAt(s[1], d) /\ s[1] = after[Len(after)]
      BY <1>3, <1>4, <2>2 DEF Fits
    <3>2. 1 \in 1 .. Len(s) /\ Len(after) \in 1 .. Len(after)
      BY <1>3, <1>4, <1>6
    <3>3. 1 .. 1 - 1 = {} /\ Len(after) + 1 .. Len(after) = {}
      BY <1>4, <1>6
    <3>. QED  BY <3>1, <3>2, <3>3 DEF Newest
  <2>3. CASE /\ ~ ValidAt(e, d)
             /\ \A k \in 1 .. Len(r[q]) : ~ ValidAt(r[q][k], d)
             /\ \A j \in 1 .. Len(log) : ~ Fits(log[j], q, d)
    <3>1. \A j \in 1 .. Len(after) : ~ Fits(after[j], q, d)
      BY <1>4, <1>6, <2>3 DEF Fits
    <3>2. ASSUME NEW k \in 1 .. Len(s) PROVE ~ ValidAt(s[k], d)
      <4>1. CASE k = 1
        BY <4>1, <1>3, <2>3
      <4>2. CASE k # 1
        <5>1. k - 1 \in 1 .. Len(r[q]) /\ (k - 1) + 1 = k
          BY <4>2, <1>3, <1>6
        <5>2. s[k] = r[q][k - 1]
          BY <5>1, <1>3
        <5>. QED  BY <5>1, <5>2, <2>3
      <4>. QED  BY <4>1, <4>2
    <3>. QED  BY <3>1, <3>2 DEF Newest
  <2>4. CASE /\ ~ ValidAt(e, d)
             /\ \E k \in 1 .. Len(r[q]), j \in 1 .. Len(log) :
                  /\ r[q][k] = log[j]
                  /\ ValidAt(r[q][k], d) /\ \A i \in 1 .. k - 1 : ~ ValidAt(r[q][i], d)
                  /\ Fits(log[j], q, d) /\ \A i \in j + 1 .. Len(log) : ~ Fits(log[i], q, d)
    <3>1. PICK k \in 1 .. Len(r[q]), j \in 1 .. Len(log) :
                  /\ r[q][k] = log[j]
                  /\ ValidAt(r[q][k], d) /\ \A i \in 1 .. k - 1 : ~ ValidAt(r[q][i], d)
                  /\ Fits(log[j], q, d) /\ \A i \in j + 1 .. Len(log) : ~ Fits(log[i], q, d)
      BY <2>4
    <3>2. j \in 1 .. Len(after) /\ after[j] = log[j]
      BY <1>4, <1>6
    <3>3. \A i \in j + 1 .. Len(after) : ~ Fits(after[i], q, d)
      BY <1>4, <1>6, <2>4, <3>1 DEF Fits
    <3>4. k + 1 \in 1 .. Len(s) /\ s[k + 1] = r[q][k]
      BY <1>3, <1>6
    <3>5. ASSUME NEW i \in 1 .. (k + 1) - 1 PROVE ~ ValidAt(s[i], d)
      <4>1. CASE i = 1
        BY <4>1, <1>3, <2>4
      <4>2. CASE i # 1
        <5>1. i - 1 \in 1 .. Len(r[q]) /\ i - 1 \in 1 .. k - 1 /\ (i - 1) + 1 = i
          BY <4>2, <1>6
        <5>2. s[i] = r[q][i - 1]
          BY <5>1, <1>3
        <5>. QED  BY <5>1, <5>2, <3>1
      <4>. QED  BY <4>1, <4>2
    <3>. QED  BY <3>1, <3>2, <3>3, <3>4, <3>5 DEF Newest
  <2>. QED  BY <2>1, <2>2, <2>3, <2>4 DEF Newest
<1>9. \A p \in Pairs, d \in Date : Newest(Store(r, e)[p], after, p, d)
  BY <1>5, <1>7, <1>8, Zenon
<1>. QED
  <2>. HIDE DEF q
  <2>. QED  BY <1>4, <1>5, <1>9 DEF Holds, after
-----------------------------------------------------------------------------
\* The known rates, entry by entry.

\* a is the repository after each of the first entries of addKnownRates.
Fills(a) ==
  /\ a = [k \in 0 .. Len(Known) |->
            IF k = 0 THEN [p \in Pairs |-> <<>>] ELSE Store(a[k - 1], Known[k])]
  /\ KnownRates = a[Len(Known)]

LEMMA KnownIs == \E a : Fills(a)
<1>. DEFINE S == 0 .. Len(Known)
           V == [Pairs -> Seq(Entry)]
           rank == [k \in S |-> k]
           Next1(g, k) == IF k = 0 THEN [p \in Pairs |-> <<>>] ELSE Store(g[k - 1], Known[k])
           F == [g \in [S -> V] |-> [k \in S |-> Next1(g, k)]]
           after[k \in 0 .. Len(Known)] ==
             IF k = 0 THEN [p \in Pairs |-> <<>>] ELSE Store(after[k - 1], Known[k])
<1>1. Len(Known) \in Nat /\ \A k \in 1 .. Len(Known) : Known[k] \in Entry
  BY KnownAssumption
<1>2. ASSUME NEW g \in [S -> V], NEW k \in S PROVE Next1(g, k) \in V
  <2>1. CASE k = 0
    BY <2>1
  <2>2. CASE k # 0
    <3>1. k - 1 \in S /\ k \in 1 .. Len(Known)
      BY <1>1, <2>2
    <3>2. g[k - 1] \in V /\ Known[k] \in Entry /\ Of(Known[k]) \in Pairs
      BY <1>1, <3>1, OfInPairs
    <3>3. <<Known[k]>> \o g[k - 1][Of(Known[k])] \in Seq(Entry)
      BY <3>2, InFront
    <3>. QED  BY <2>2, <3>2, <3>3 DEF Store
  <2>. QED  BY <2>1, <2>2
<1>3. F \in [[S -> V] -> [S -> V]] /\ rank \in [S -> Nat] /\ V # {}
  <2>1. \A g \in [S -> V] : [k \in S |-> Next1(g, k)] \in [S -> V]
    <3>. HIDE DEF Next1, V, S
    <3>. QED  BY <1>2
  <2>2. [p \in Pairs |-> <<>>] \in V
    OBVIOUS
  <2>3. rank \in [S -> Nat]
    BY <1>1
  <2>. HIDE DEF Next1, V, S, rank
  <2>. QED  BY <2>1, <2>2, <2>3
<1>4. LooksBelow(S, V, rank, F)
  <2>. SUFFICES ASSUME NEW f \in [S -> V], NEW g \in [S -> V], NEW k \in S,
                       \A m \in S : rank[m] < rank[k] => f[m] = g[m]
                PROVE  Next1(f, k) = Next1(g, k)
    <3>. HIDE DEF Next1, V, S, rank
    <3>. QED  BY DEF LooksBelow
  <2>1. k # 0 => k - 1 \in S /\ rank[k - 1] < rank[k]
    BY <1>1
  <2>2. k # 0 => f[k - 1] = g[k - 1]
    <3>. HIDE DEF rank, S
    <3>. QED  BY <2>1
  <2>. QED  BY <2>2
<1>5. HasFixpoint(S, V, F)
  <2>. HIDE DEF S, V, rank, F
  <2>. QED  BY <1>3, <1>4, Recursion
<1>6. PICK g \in [S -> V] : F[g] = g
  <2>. HIDE DEF S, V, F
  <2>. QED  BY <1>5 DEF HasFixpoint
<1>7. g = [k \in 0 .. Len(Known) |-> Next1(g, k)]
  BY <1>6
<1>8. after = [k \in 0 .. Len(Known) |-> Next1(after, k)]
  BY <1>7
<1>9. KnownRates = after[Len(Known)]
  BY DEF KnownRates
<1>. HIDE DEF after
<1>. QED  BY <1>8, <1>9 DEF Fills

LEMMA KnownHolds == Holds(KnownRates, Known)
<1>1. PICK a : Fills(a)
  BY KnownIs
<1>. DEFINE T == {k \in Nat : k <= Len(Known) => Holds(a[k], SubSeq(Known, 1, k))}
<1>2. /\ Known \in Seq(Proper) /\ Len(Known) \in Nat
      /\ \A k \in 1 .. Len(Known) : Known[k] \in Proper
  BY KnownAssumption DEF Proper
<1>3. 0 \in T
  <2>1. a[0] = [p \in Pairs |-> <<>>] /\ SubSeq(Known, 1, 0) = <<>>
    BY <1>1, <1>2 DEF Fills
  <2>2. a[0] \in [Pairs -> Seq(Entry)] /\ \A p \in Pairs : a[0][p] = <<>>
    BY <2>1
  <2>3. <<>> \in Seq(Proper) /\ Len(<<>>) = 0 /\ 1 .. 0 = {}
    OBVIOUS
  <2>4. \A p \in Pairs, d \in Date : Newest(<<>>, <<>>, p, d)
    BY <2>3 DEF Newest
  <2>. QED  BY <2>1, <2>2, <2>3, <2>4 DEF Holds
<1>4. ASSUME NEW k \in Nat, k \in T PROVE k + 1 \in T
  <2>. SUFFICES ASSUME k + 1 <= Len(Known)
                PROVE  Holds(a[k + 1], SubSeq(Known, 1, k + 1))
    OBVIOUS
  <2>1. /\ Holds(a[k], SubSeq(Known, 1, k)) /\ Known[k + 1] \in Proper
        /\ k + 1 \in 0 .. Len(Known) /\ k + 1 # 0 /\ (k + 1) - 1 = k
    BY <1>2, <1>4
  <2>2. a[k + 1] = Store(a[k], Known[k + 1])
    BY <1>1, <2>1 DEF Fills
  <2>3. SubSeq(Known, 1, k + 1) = Append(SubSeq(Known, 1, k), Known[k + 1])
    BY <1>2, <2>1
  <2>. QED  BY <2>1, <2>2, <2>3, StoreHolds
<1>5. Len(Known) \in T
  <2>. HIDE DEF T
  <2>. QED  BY <1>2, <1>3, <1>4, Induct
<1>6. SubSeq(Known, 1, Len(Known)) = Known
  BY <1>2
<1>7. Holds(a[Len(Known)], SubSeq(Known, 1, Len(Known)))
  BY <1>2, <1>5
<1>. QED  BY <1>1, <1>6, <1>7 DEF Fills

LEMMA InvInit == Init => Inv
BY KnownHolds DEF Init, Inv

LEMMA InvNext == Inv /\ [Next]_vars => Inv'
<1>. SUFFICES ASSUME Inv, [Next]_vars PROVE Inv'
  OBVIOUS
<1>1. ASSUME NEW s \in Currency, NEW t \in Currency, NEW r \in Level,
             NEW b \in Date, NEW e \in Date, s # t,
             Add([rate |-> Direct(s, t, r), start |-> b, end |-> e])
      PROVE  Inv'
  <2>. DEFINE entry == [rate |-> Direct(s, t, r), start |-> b, end |-> e]
  <2>1. entry \in Proper
    BY <1>1 DEF Proper, Entry, DirectRate, Direct
  <2>. HIDE DEF entry
  <2>2. data' = Store(data, entry) /\ added' = Append(added, entry)
    BY <1>1 DEF Add, entry
  <2>. QED  BY <2>1, <2>2, StoreHolds DEF Inv
<1>2. CASE Clear
  BY <1>2, KnownHolds DEF Clear, Inv
<1>3. CASE UNCHANGED vars
  BY <1>3 DEF vars, Inv
<1>. QED  BY <1>1, <1>2, <1>3 DEF Next

THEOREM Invariance == Spec => []Inv
BY InvInit, InvNext, PTL DEF Spec

(***************************************************************************)
(* The repository has lists of entries, under the keys of pairs of         *)
(* currencies, and so has the log.                                         *)
(***************************************************************************)
THEOREM TypeCorrect == Spec => []TypeOK
<1>1. Inv => TypeOK
  BY DEF Inv, Holds, TypeOK, Proper
<1>. QED  BY <1>1, Invariance, PTL

-----------------------------------------------------------------------------
\* What fetch returns.

\* The entry of the log with number j is the latest one for s and t on date d.
Latest(j, s, t, d) ==
  /\ j \in 1 .. Len(added)
  /\ Fits(added[j], {s, t}, d)
  /\ \A i \in j + 1 .. Len(added) : ~ Fits(added[i], {s, t}, d)

LEMMA FetchIs ==
  ASSUME Inv, NEW s \in Currency, NEW t \in Currency, NEW d \in Date
  PROVE  \/ /\ Fetch(s, t, d) = Fail
            /\ \A j \in 1 .. Len(added) : ~ Fits(added[j], {s, t}, d)
         \/ \E j \in Nat : Latest(j, s, t, d) /\ Fetch(s, t, d) = added[j].rate
<1>. DEFINE p == {s, t}
           entries == data[p]
           valid == {k \in 1 .. Len(entries) : ValidAt(entries[k], d)}
<1>1. p \in Pairs /\ Newest(entries, added, p, d) /\ entries \in Seq(Entry)
      /\ added \in Seq(Proper)
  BY DEF Inv, Holds, Pairs, Key
<1>2. Fetch(s, t, d) = IF valid = {} THEN Fail
                       ELSE entries[CHOOSE k \in valid : \A j \in valid : k <= j].rate
  BY DEF Fetch, Key
<1>. HIDE DEF entries, p
<1>3. CASE /\ \A k \in 1 .. Len(entries) : ~ ValidAt(entries[k], d)
           /\ \A j \in 1 .. Len(added) : ~ Fits(added[j], p, d)
  BY <1>2, <1>3 DEF p
<1>4. CASE \E k \in 1 .. Len(entries), j \in 1 .. Len(added) :
             /\ entries[k] = added[j]
             /\ ValidAt(entries[k], d) /\ \A i \in 1 .. k - 1 : ~ ValidAt(entries[i], d)
             /\ Fits(added[j], p, d) /\ \A i \in j + 1 .. Len(added) : ~ Fits(added[i], p, d)
  <2>1. PICK k \in 1 .. Len(entries), j \in 1 .. Len(added) :
             /\ entries[k] = added[j]
             /\ ValidAt(entries[k], d) /\ \A i \in 1 .. k - 1 : ~ ValidAt(entries[i], d)
             /\ Fits(added[j], p, d) /\ \A i \in j + 1 .. Len(added) : ~ Fits(added[i], p, d)
    BY <1>4
  <2>2. Len(entries) \in Nat /\ Len(added) \in Nat
    BY <1>1
  <2>3. k \in valid /\ \A i \in valid : k <= i
    BY <2>1, <2>2
  <2>4. (CHOOSE x \in valid : \A i \in valid : x <= i) = k
    <3>1. ASSUME NEW x \in valid, \A i \in valid : x <= i PROVE x = k
      BY <2>2, <2>3, <3>1
    <3>. HIDE DEF valid
    <3>. QED  BY <2>3, <3>1
  <2>5. Fetch(s, t, d) = added[j].rate
    BY <1>2, <2>1, <2>3, <2>4
  <2>6. Latest(j, s, t, d)
    BY <2>1 DEF Latest, p
  <2>7. j \in Nat
    BY <2>2
  <2>. QED  BY <2>5, <2>6, <2>7
<1>. QED  BY <1>1, <1>3, <1>4 DEF Newest
-----------------------------------------------------------------------------
\* Rates, depth by depth.

DirectRates == [type : {"Direct"}, source : Currency, target : Currency, rate : Int]

DerivedRates(part) ==
  [type : {"Derived"}, source : Currency, target : Currency, rate : Int,
   first : part, second : part]

Deeper(f, n) ==
  IF n = 0 THEN DirectRates ELSE DirectRates \cup DerivedRates(f[n - 1])

(***************************************************************************)
(* The recursive definition of RateAt has a function that satisfies it:    *)
(* for each n there is one on 0 .. n, any two agree, and together they     *)
(* are one on all numbers.                                                 *)
(***************************************************************************)
LEMMA RateAtIs == \A n \in Nat : RateAt[n] = Deeper(RateAt, n)
<1>. DEFINE Upto(g, k) == g = [i \in 0 .. k |-> Deeper(g, i)]
           T == {k \in Nat : \E g : Upto(g, k)}
           U == {i \in Nat : \A j, k \in Nat : \A g, h :
                   Upto(g, j) /\ Upto(h, k) /\ i <= j /\ i <= k => g[i] = h[i]}
<1>1. 0 \in T
  <2>. DEFINE g == [i \in 0 .. 0 |-> DirectRates]
  <2>1. g = [i \in 0 .. 0 |-> Deeper(g, i)]
    BY DEF Deeper
  <2>. QED  BY <2>1
<1>2. ASSUME NEW k \in Nat, k \in T PROVE k + 1 \in T
  <2>1. PICK g : Upto(g, k)
    BY <1>2
  <2>. DEFINE h == [i \in 0 .. k + 1 |-> IF i <= k THEN g[i] ELSE Deeper(g, i)]
  <2>2. ASSUME NEW i \in 0 .. k + 1 PROVE h[i] = Deeper(h, i)
    <3>1. i \in Nat /\ (i # 0 => i - 1 \in 0 .. k /\ i - 1 \in 0 .. k + 1)
      OBVIOUS
    <3>2. i # 0 => h[i - 1] = g[i - 1]
      BY <3>1
    <3>3. h[i] = Deeper(g, i)
      BY <2>1
    <3>. HIDE DEF h
    <3>. QED  BY <3>2, <3>3 DEF Deeper
  <2>3. h = [i \in 0 .. k + 1 |-> Deeper(h, i)]
    <3>1. h = [i \in 0 .. k + 1 |-> h[i]]
      OBVIOUS
    <3>. HIDE DEF h
    <3>. QED  BY <2>2, <3>1
  <2>. HIDE DEF h
  <2>. QED  BY <2>3
<1>3. Nat \subseteq T
  <2>. HIDE DEF T
  <2>. QED  BY <1>1, <1>2, Induct
<1>4. 0 \in U
  BY DEF Deeper
<1>5. ASSUME NEW i \in Nat, i \in U PROVE i + 1 \in U
  <2>. SUFFICES ASSUME NEW j \in Nat, NEW k \in Nat, NEW g, NEW h, Upto(g, j), Upto(h, k),
                       i + 1 <= j, i + 1 <= k
                PROVE  g[i + 1] = h[i + 1]
    OBVIOUS
  <2>1. i + 1 \in 0 .. j /\ i + 1 \in 0 .. k /\ i <= j /\ i <= k
        /\ i + 1 # 0 /\ (i + 1) - 1 = i
    OBVIOUS
  <2>2. g[i] = h[i]
    BY <1>5, <2>1
  <2>3. g[i + 1] = Deeper(g, i + 1) /\ h[i + 1] = Deeper(h, i + 1)
    BY <2>1
  <2>. QED  BY <2>1, <2>2, <2>3 DEF Deeper
<1>6. Nat \subseteq U
  <2>. HIDE DEF U
  <2>. QED  BY <1>4, <1>5, Induct
<1>. DEFINE pick(n) == CHOOSE g : Upto(g, n)
            f == [n \in Nat |-> pick(n)[n]]
<1>7. \A n \in Nat : Upto(pick(n), n)
  <2>. SUFFICES ASSUME NEW n \in Nat PROVE \E g : Upto(g, n)
    <3>. HIDE DEF Upto
    <3>. QED  OBVIOUS
  <2>. QED  BY <1>3
<1>8. ASSUME NEW n \in Nat PROVE f[n] = Deeper(f, n)
  <2>1. Upto(pick(n), n) /\ n \in 0 .. n
    BY <1>7
  <2>2. pick(n)[n] = Deeper(pick(n), n)
    <3>. HIDE DEF pick
    <3>. QED  BY <2>1
  <2>3. CASE n = 0
    BY <2>2, <2>3 DEF Deeper
  <2>4. CASE n # 0
    <3>1. n - 1 \in Nat /\ n - 1 <= n - 1 /\ n - 1 <= n
      BY <2>4
    <3>2. Upto(pick(n - 1), n - 1) /\ Upto(pick(n), n)
      BY <1>7, <3>1
    <3>3. pick(n - 1)[n - 1] = pick(n)[n - 1]
      <4>. HIDE DEF pick, Upto
      <4>. QED  BY <1>6, <3>1, <3>2 DEF U
    <3>4. f[n - 1] = pick(n)[n - 1] /\ f[n] = pick(n)[n]
      <4>. HIDE DEF pick
      <4>. QED  BY <3>1, <3>3
    <3>. HIDE DEF f, pick
    <3>. QED  BY <2>2, <2>4, <3>4 DEF Deeper
  <2>. QED  BY <2>3, <2>4
<1>9. f = [n \in Nat |-> Deeper(f, n)]
  <2>1. f = [n \in Nat |-> f[n]]
    OBVIOUS
  <2>. HIDE DEF f
  <2>. QED  BY <1>8, <2>1
<1>10. RateAt = CHOOSE g : g = [n \in Nat |-> Deeper(g, n)]
  BY DEF RateAt, Deeper, DirectRates, DerivedRates
<1>11. RateAt = [n \in Nat |-> Deeper(RateAt, n)]
  <2>. HIDE DEF f
  <2>. QED  BY <1>9, <1>10
<1>. QED  BY <1>11

LEMMA RateAtStep ==
  /\ RateAt[0] = DirectRates
  /\ \A n \in Nat : RateAt[n + 1] = DirectRates \cup DerivedRates(RateAt[n])
<1>1. RateAt[0] = DirectRates
  BY RateAtIs DEF Deeper
<1>2. ASSUME NEW n \in Nat
      PROVE  RateAt[n + 1] = DirectRates \cup DerivedRates(RateAt[n])
  <2>1. n + 1 \in Nat /\ n + 1 # 0 /\ (n + 1) - 1 = n
    OBVIOUS
  <2>2. RateAt[n + 1] = Deeper(RateAt, n + 1)
    BY <2>1, RateAtIs
  <2>. QED  BY <2>1, <2>2 DEF Deeper
<1>. QED  BY <1>1, <1>2

\* A rate has a smaller depth than any rate it is part of.
LEMMA RateForm ==
  ASSUME NEW n \in Nat, NEW r \in RateAt[n]
  PROVE  /\ r.source \in Currency /\ r.target \in Currency /\ r.rate \in Int
         /\ r # Fail
         /\ \/ r.type = "Direct" /\ r \in DirectRates
            \/ /\ r.type = "Derived" /\ n # 0
               /\ r.first \in RateAt[n - 1] /\ r.second \in RateAt[n - 1]
<1>1. CASE r \in DirectRates
  BY <1>1 DEF DirectRates, Fail
<1>2. CASE r \notin DirectRates
  <2>1. n # 0
    BY <1>2, RateAtIs DEF Deeper
  <2>2. r \in DerivedRates(RateAt[n - 1])
    BY <1>2, <2>1, RateAtIs DEF Deeper
  <2>3. r.type = "Derived" /\ Fail.type = "Fail"
    BY <2>2 DEF DerivedRates, Fail
  <2>. QED  BY <2>1, <2>2, <2>3 DEF DerivedRates
<1>. QED  BY <1>1, <1>2

LEMMA DirectAnywhere ==
  ASSUME NEW n \in Nat PROVE DirectRates \subseteq RateAt[n]
BY RateAtIs DEF Deeper

\* A rate of one depth counts as one of every greater depth.
LEMMA RatesGrow ==
  ASSUME NEW i \in Nat, NEW j \in Nat, i <= j PROVE RateAt[i] \subseteq RateAt[j]
<1>. DEFINE T == {n \in Nat : RateAt[n] \subseteq RateAt[n + 1]}
           U == {n \in Nat : RateAt[i] \subseteq RateAt[i + n]}
<1>1. 0 \in T
  BY RateAtStep
<1>2. ASSUME NEW n \in Nat, n \in T PROVE n + 1 \in T
  <2>1. RateAt[n] \subseteq RateAt[n + 1]
    BY <1>2
  <2>2. DerivedRates(RateAt[n]) \subseteq DerivedRates(RateAt[n + 1])
    BY <2>1 DEF DerivedRates
  <2>3. n + 1 \in Nat
    OBVIOUS
  <2>4. /\ RateAt[n + 1] = DirectRates \cup DerivedRates(RateAt[n])
        /\ RateAt[(n + 1) + 1] = DirectRates \cup DerivedRates(RateAt[n + 1])
    BY <2>3, RateAtStep, Zenon
  <2>. QED  BY <2>2, <2>4
<1>3. Nat \subseteq T
  <2>. HIDE DEF T
  <2>. QED  BY <1>1, <1>2, Induct
<1>4. 0 \in U
  OBVIOUS
<1>5. ASSUME NEW n \in Nat, n \in U PROVE n + 1 \in U
  <2>1. i + n \in Nat /\ (i + n) + 1 = i + (n + 1)
    OBVIOUS
  <2>2. RateAt[i] \subseteq RateAt[i + n] /\ RateAt[i + n] \subseteq RateAt[(i + n) + 1]
    BY <1>3, <1>5, <2>1
  <2>. QED  BY <2>1, <2>2
<1>6. Nat \subseteq U
  <2>. HIDE DEF U
  <2>. QED  BY <1>4, <1>5, Induct
<1>7. j - i \in U /\ i + (j - i) = j
  BY <1>6
<1>. QED  BY <1>7

-----------------------------------------------------------------------------
\* What chain makes.

Ends(r) == {r.source, r.target}

\* The logarithm by which an amount grows that goes through r from currency c.
Gain(r, c) == IF r.source = c THEN r.rate ELSE -r.rate

LEMMA ChainForm ==
  ASSUME NEW n \in Nat, NEW r1 \in RateAt[n] \cup {Fail}, NEW r2 \in RateAt[n] \cup {Fail}
  PROVE  Chain(r1, r2) \in RateAt[n + 1] \cup {Fail}
<1>1. CASE r1 = Fail \/ r2 = Fail
  BY <1>1 DEF Chain
<1>2. CASE r1 # Fail /\ r2 # Fail
  <2>1. /\ r1.source \in Currency /\ r1.target \in Currency /\ r1.rate \in Int
        /\ r2.source \in Currency /\ r2.target \in Currency /\ r2.rate \in Int
    BY <1>2, RateForm
  <2>2. ASSUME NEW s \in Currency, NEW t \in Currency, NEW v \in Int
        PROVE  Derived(s, t, v, r1, r2) \in RateAt[n + 1]
    BY <1>2, RateAtStep DEF Derived, DerivedRates
  <2>3. /\ r2.rate - r1.rate \in Int /\ -(r1.rate + r2.rate) \in Int
        /\ r1.rate + r2.rate \in Int /\ r1.rate - r2.rate \in Int
    BY <2>1
  <2>4. \/ Chain(r1, r2) = Fail
        \/ \E s, t \in Currency, v \in Int : Chain(r1, r2) = Derived(s, t, v, r1, r2)
    BY <1>2, <2>1, <2>3 DEF Chain
  <2>. QED  BY <2>2, <2>4
<1>. QED  BY <1>1, <1>2

\* Two rates with one currency in common make one between the two others.
LEMMA ChainEnds ==
  ASSUME NEW n \in Nat, NEW r1 \in RateAt[n], NEW r2 \in RateAt[n],
         NEW a \in Currency, NEW b \in Currency, NEW c \in Currency,
         a # b, b # c, a # c, Ends(r1) = {a, b}, Ends(r2) = {b, c}
  PROVE  Chain(r1, r2) = Derived(a, c, Gain(r1, a) + Gain(r2, b), r1, r2)
<1>1. /\ (r1.source = a /\ r1.target = b) \/ (r1.source = b /\ r1.target = a)
      /\ (r2.source = b /\ r2.target = c) \/ (r2.source = c /\ r2.target = b)
  BY DEF Ends
<1>2. r1 # Fail /\ r2 # Fail /\ r1.rate \in Int /\ r2.rate \in Int
  BY RateForm
<1>. DEFINE u == r1.rate  v == r2.rate
<1>3. /\ v - u = -u + v /\ -(u + v) = -u + -v /\ u - v = u + -v
  BY <1>2
<1>4. CASE r1.source = b /\ r2.source = b
  BY <1>1, <1>2, <1>3, <1>4 DEF Chain, Gain
<1>5. CASE r1.source = b /\ r2.target = b
  BY <1>1, <1>2, <1>3, <1>5 DEF Chain, Gain
<1>6. CASE r1.target = b /\ r2.source = b
  BY <1>1, <1>2, <1>3, <1>6 DEF Chain, Gain
<1>7. CASE r1.target = b /\ r2.target = b
  BY <1>1, <1>2, <1>3, <1>7 DEF Chain, Gain
<1>. QED  BY <1>1, <1>4, <1>5, <1>6, <1>7

-----------------------------------------------------------------------------
\* What exchange does, unfolded once.

\* The least depth of a rate.
LEMMA LeastDepth ==
  ASSUME NEW n \in Nat, NEW r \in RateAt[n]
  PROVE  \E k \in Nat : r \in RateAt[k] /\ \A j \in Nat : r \in RateAt[j] => k <= j
<1>. DEFINE T == {k \in Nat : r \in RateAt[k]}
<1>1. PICK k \in T : \A j \in T : k <= j
  BY Least
<1>. QED  BY <1>1

Depth(r) == CHOOSE k \in Nat : r \in RateAt[k] /\ \A j \in Nat : r \in RateAt[j] => k <= j

LEMMA DepthIs ==
  ASSUME NEW n \in Nat, NEW r \in RateAt[n]
  PROVE  Depth(r) \in Nat /\ r \in RateAt[Depth(r)] /\ Depth(r) <= n
BY LeastDepth DEF Depth

LEMMA PartsBelow ==
  ASSUME NEW n \in Nat, NEW r \in RateAt[n], r.type = "Derived"
  PROVE  /\ r.first \in RateAt[n] /\ r.second \in RateAt[n]
         /\ Depth(r.first) < Depth(r) /\ Depth(r.second) < Depth(r)
<1>1. Depth(r) \in Nat /\ r \in RateAt[Depth(r)] /\ Depth(r) <= n
  BY DepthIs
<1>2. \A k \in Nat : r \in RateAt[k] =>
        k # 0 /\ r.first \in RateAt[k - 1] /\ r.second \in RateAt[k - 1]
  BY RateForm
<1>3. n - 1 \in Nat /\ Depth(r) - 1 \in Nat /\ n - 1 <= n
  BY <1>1, <1>2
<1>4. r.first \in RateAt[n] /\ r.second \in RateAt[n]
  BY <1>2, <1>3, RatesGrow
<1>5. r.first \in RateAt[Depth(r) - 1] /\ r.second \in RateAt[Depth(r) - 1]
  BY <1>1, <1>2
<1>6. Depth(r.first) \in Nat /\ Depth(r.first) <= Depth(r) - 1
      /\ Depth(r.second) \in Nat /\ Depth(r.second) <= Depth(r) - 1
  BY <1>3, <1>5, DepthIs
<1>. QED  BY <1>1, <1>4, <1>6

Walks(by) ==
  /\ by = [x \in RateAt[MaxDepth] \X Money |-> Exchanged(by, x[1], x[2])]
  /\ \A r \in RateAt[MaxDepth], m \in Money : Exchange(r, m) = by[<<r, m>>]

LEMMA MaxDepthIs == MaxDepth \in Nat /\ Cardinality(Currency) \in Nat
BY FS_CardinalityType, CurrencyAssumption DEF MaxDepth

LEMMA ExchangedType ==
  ASSUME NEW by \in [RateAt[MaxDepth] \X Money -> Money],
         NEW r \in RateAt[MaxDepth], NEW m \in Money
  PROVE  Exchanged(by, r, m) \in Money
<1>1. MaxDepth \in Nat
  BY MaxDepthIs
<1>2. /\ r.source \in Currency /\ r.target \in Currency /\ r.rate \in Int
      /\ m.currency \in Currency \cup {None} /\ m.value \in Int
  BY <1>1, RateForm DEF Money
<1>3. NoMoney \in Money
  BY DEF NoMoney, Money
<1>4. r.type = "Derived" =>
        /\ by[<<r.second, by[<<r.first, m>>]>>] \in Money
        /\ by[<<r.first, by[<<r.second, m>>]>>] \in Money
  BY <1>1, PartsBelow
<1>5. /\ Amount(r.target, m.value + r.rate) \in Money
      /\ Amount(r.source, m.value - r.rate) \in Money
  BY <1>2 DEF Amount, Money
<1>. HIDE DEF MaxDepth
<1>. QED  BY <1>3, <1>4, <1>5 DEF Exchanged

LEMMA ExchangeIs == \E by : Walks(by)
<1>. DEFINE S == RateAt[MaxDepth] \X Money
           V == Money
           rank == [x \in S |-> Depth(x[1])]
           F == [g \in [S -> V] |-> [x \in S |-> Exchanged(g, x[1], x[2])]]
           by[x \in RateAt[MaxDepth] \X Money] == Exchanged(by, x[1], x[2])
<1>1. MaxDepth \in Nat /\ V # {}
  <2>1. NoMoney \in V
    BY DEF NoMoney, Money
  <2>. HIDE DEF V
  <2>. QED  BY <2>1, MaxDepthIs
<1>2. \A x \in S : x[1] \in RateAt[MaxDepth] /\ x[2] \in Money /\ rank[x] = Depth(x[1])
  OBVIOUS
<1>3. F \in [[S -> V] -> [S -> V]]
  <2>1. \A g \in [S -> V] : \A x \in S : Exchanged(g, x[1], x[2]) \in V
    <3>. HIDE DEF rank
    <3>. QED  BY <1>2, ExchangedType
  <2>. HIDE DEF S, V
  <2>. QED  BY <2>1
<1>4. rank \in [S -> Nat]
  <2>1. \A x \in S : Depth(x[1]) \in Nat
    <3>. HIDE DEF rank, S
    <3>. QED  BY <1>1, <1>2, DepthIs
  <2>. HIDE DEF S
  <2>. QED  BY <2>1
<1>5. LooksBelow(S, V, rank, F)
  <2>. SUFFICES ASSUME NEW f \in [S -> V], NEW g \in [S -> V], NEW x \in S,
                       \A y \in S : rank[y] < rank[x] => f[y] = g[y]
                PROVE  Exchanged(f, x[1], x[2]) = Exchanged(g, x[1], x[2])
    <3>. HIDE DEF V, S, rank
    <3>. QED  BY DEF LooksBelow
  <2>. DEFINE r == x[1]  m == x[2]
  <2>1. r \in RateAt[MaxDepth] /\ m \in Money /\ rank[x] = Depth(r)
    BY <1>2
  <2>2. ASSUME r.type = "Derived", NEW part \in {r.first, r.second}, NEW n \in Money
        PROVE  f[<<part, n>>] = g[<<part, n>>] /\ f[<<part, n>>] \in Money
    <3>1. part \in RateAt[MaxDepth] /\ Depth(part) < Depth(r)
      <4>. HIDE DEF r, m, rank, S
      <4>. QED  BY <1>1, <2>1, <2>2, PartsBelow
    <3>2. <<part, n>> \in S /\ rank[<<part, n>>] = Depth(part)
      BY <3>1
    <3>3. f[<<part, n>>] \in V
      <4>. HIDE DEF S, V, r, rank
      <4>. QED  BY <3>2
    <3>. HIDE DEF r, m, rank, S
    <3>. QED  BY <2>1, <3>1, <3>2, <3>3
  <2>3. r.type = "Derived" =>
          /\ f[<<r.second, f[<<r.first, m>>]>>] = g[<<r.second, g[<<r.first, m>>]>>]
          /\ f[<<r.first, f[<<r.second, m>>]>>] = g[<<r.first, g[<<r.second, m>>]>>]
    <3>. HIDE DEF r, m, S, V, rank
    <3>. QED  BY <2>1, <2>2
  <2>. HIDE DEF S, V, rank
  <2>. QED  BY <2>3 DEF Exchanged
<1>6. HasFixpoint(S, V, F)
  <2>. HIDE DEF S, V, rank, F
  <2>. QED  BY <1>1, <1>3, <1>4, <1>5, Recursion
<1>7. PICK g \in [S -> V] : F[g] = g
  <2>. HIDE DEF S, V, F
  <2>. QED  BY <1>6 DEF HasFixpoint
<1>8. g = [x \in S |-> Exchanged(g, x[1], x[2])]
  <2>. HIDE DEF S, V
  <2>. QED  BY <1>7
<1>9. by = [x \in S |-> Exchanged(by, x[1], x[2])]
  BY <1>8
<1>10. ASSUME NEW r \in RateAt[MaxDepth], NEW m \in Money PROVE Exchange(r, m) = by[<<r, m>>]
  BY DEF Exchange
<1>. HIDE DEF by
<1>. QED  BY <1>9, <1>10 DEF Walks

LEMMA WalksType ==
  ASSUME NEW by, Walks(by), NEW r \in RateAt[MaxDepth], NEW m \in Money
  PROVE  by[<<r, m>>] \in Money /\ by[<<r, m>>] = Exchanged(by, r, m)
<1>. DEFINE T == {n \in Nat : n <= MaxDepth =>
                    \A q \in RateAt[n], a \in Money : by[<<q, a>>] \in Money}
<1>1. ASSUME NEW q \in RateAt[MaxDepth], NEW a \in Money
      PROVE  by[<<q, a>>] = Exchanged(by, q, a)
  <2>1. <<q, a>> \in RateAt[MaxDepth] \X Money /\ <<q, a>>[1] = q /\ <<q, a>>[2] = a
    OBVIOUS
  <2>. QED  BY <2>1 DEF Walks
<1>2. MaxDepth \in Nat /\ NoMoney \in Money
  BY MaxDepthIs DEF NoMoney, Money
<1>3. ASSUME NEW n \in Nat, n <= MaxDepth, NEW q \in RateAt[n], NEW a \in Money,
             n # 0 => \A p \in RateAt[n - 1], b \in Money : by[<<p, b>>] \in Money
      PROVE  by[<<q, a>>] \in Money
  <2>1. q \in RateAt[MaxDepth]
    BY <1>2, <1>3, RatesGrow
  <2>2. /\ q.source \in Currency /\ q.target \in Currency /\ q.rate \in Int
        /\ a.currency \in Currency \cup {None} /\ a.value \in Int
        /\ q.type = "Derived" => n # 0 /\ q.first \in RateAt[n - 1] /\ q.second \in RateAt[n - 1]
    BY <1>3, RateForm DEF Money
  <2>3. /\ Amount(q.target, a.value + q.rate) \in Money
        /\ Amount(q.source, a.value - q.rate) \in Money
    BY <2>2 DEF Amount, Money
  <2>4. q.type = "Derived" =>
          /\ by[<<q.second, by[<<q.first, a>>]>>] \in Money
          /\ by[<<q.first, by[<<q.second, a>>]>>] \in Money
    BY <1>3, <2>2
  <2>5. Exchanged(by, q, a) \in Money
    BY <1>2, <2>3, <2>4 DEF Exchanged
  <2>. QED  BY <1>1, <2>1, <2>5
<1>4. 0 \in T
  BY <1>3
<1>5. ASSUME NEW n \in Nat, n \in T PROVE n + 1 \in T
  <2>. SUFFICES ASSUME n + 1 <= MaxDepth, NEW q \in RateAt[n + 1], NEW a \in Money
                PROVE  by[<<q, a>>] \in Money
    OBVIOUS
  <2>1. n + 1 \in Nat /\ n <= MaxDepth /\ (n + 1) - 1 = n
    BY <1>2
  <2>2. \A p \in RateAt[n], b \in Money : by[<<p, b>>] \in Money
    BY <1>5, <2>1
  <2>. QED  BY <1>3, <2>1, <2>2
<1>6. MaxDepth \in T
  <2>. HIDE DEF T
  <2>. QED  BY <1>2, <1>4, <1>5, Induct
<1>7. by[<<r, m>>] \in Money
  <2>1. MaxDepth <= MaxDepth
    BY <1>2
  <2>. HIDE DEF MaxDepth
  <2>. QED  BY <1>6, <2>1
<1>. QED  BY <1>1, <1>7

\* exchange, unfolded once.
LEMMA ExchangeUnfolds ==
  ASSUME NEW r \in RateAt[MaxDepth], NEW m \in Money
  PROVE  /\ Exchange(r, m) \in Money
         /\ r.type = "Direct" =>
              /\ m.currency = r.source => Exchange(r, m) = Amount(r.target, m.value + r.rate)
              /\ m.currency = r.target /\ r.target # r.source =>
                   Exchange(r, m) = Amount(r.source, m.value - r.rate)
         /\ r.type = "Derived" =>
              /\ m.currency \in Ends(r.first) =>
                   Exchange(r, m) = Exchange(r.second, Exchange(r.first, m))
              /\ m.currency \notin Ends(r.first) /\ m.currency \in Ends(r.second) =>
                   Exchange(r, m) = Exchange(r.first, Exchange(r.second, m))
<1>1. PICK by : Walks(by)
  BY ExchangeIs
<1>2. \A q \in RateAt[MaxDepth], a \in Money :
        Exchange(q, a) = by[<<q, a>>] /\ by[<<q, a>>] \in Money
  BY <1>1, WalksType DEF Walks
<1>3. Exchange(r, m) = Exchanged(by, r, m)
  BY <1>1, <1>2, WalksType
<1>4. CASE r.type = "Direct"
  BY <1>2, <1>3, <1>4 DEF Exchanged
<1>5. CASE r.type = "Derived"
  <2>1. r.first \in RateAt[MaxDepth] /\ r.second \in RateAt[MaxDepth]
    BY <1>5, MaxDepthIs, PartsBelow
  <2>2. /\ by[<<r.second, by[<<r.first, m>>]>>] = Exchange(r.second, Exchange(r.first, m))
        /\ by[<<r.first, by[<<r.second, m>>]>>] = Exchange(r.first, Exchange(r.second, m))
    BY <1>2, <2>1
  <2>. QED  BY <1>2, <1>3, <1>5, <2>2 DEF Exchanged, Ends
<1>6. r.type = "Direct" \/ r.type = "Derived"
  BY MaxDepthIs, RateForm
<1>. QED  BY <1>4, <1>5, <1>6

-----------------------------------------------------------------------------
\* Rates by which exchange does what rate() says, either way.

Right(r) ==
  \A v \in Int :
    /\ Exchange(r, Amount(r.source, v)) = Amount(r.target, v + r.rate)
    /\ Exchange(r, Amount(r.target, v)) = Amount(r.source, v - r.rate)

\* The rates of depth n at most, between a and b, by which exchange is right.
Between(n, a, b) == {r \in RateAt[n] : Ends(r) = {a, b} /\ Right(r)}

LEMMA AmountType ==
  ASSUME NEW c \in Currency, NEW v \in Int
  PROVE  /\ Amount(c, v) \in Money
         /\ Amount(c, v).currency = c /\ Amount(c, v).value = v
BY DEF Amount, Money

LEMMA DirectRight ==
  ASSUME NEW r \in DirectRates, r.source # r.target
  PROVE  Right(r)
<1>1. /\ r \in RateAt[MaxDepth] /\ r.type = "Direct" /\ r.source \in Currency
      /\ r.target \in Currency /\ r.rate \in Int
  BY MaxDepthIs, DirectAnywhere DEF DirectRates
<1>. SUFFICES ASSUME NEW v \in Int
              PROVE  /\ Exchange(r, Amount(r.source, v)) = Amount(r.target, v + r.rate)
                     /\ Exchange(r, Amount(r.target, v)) = Amount(r.source, v - r.rate)
  BY DEF Right
<1>. QED  BY <1>1, AmountType, ExchangeUnfolds

\* A right rate, from either end.
LEMMA RightFrom ==
  ASSUME NEW n \in Nat, NEW a \in Currency, NEW b \in Currency, a # b,
         NEW r \in Between(n, a, b), NEW v \in Int
  PROVE  /\ Gain(r, a) \in Int /\ Gain(r, b) = -Gain(r, a)
         /\ Exchange(r, Amount(a, v)) = Amount(b, v + Gain(r, a))
<1>1. (r.source = a /\ r.target = b) \/ (r.source = b /\ r.target = a)
  BY DEF Between, Ends
<1>2. r.rate \in Int /\ v - r.rate = v + -r.rate /\ -(-r.rate) = r.rate
  BY RateForm DEF Between
<1>. QED  BY <1>1, <1>2 DEF Between, Right, Gain

\* chain keeps rates right.
LEMMA ChainRight ==
  ASSUME NEW n \in Nat, n < MaxDepth,
         NEW a \in Currency, NEW b \in Currency, NEW c \in Currency,
         a # b, b # c, a # c, NEW r1 \in Between(n, a, b), NEW r2 \in Between(n, b, c)
  PROVE  Chain(r1, r2) \in Between(n + 1, a, c)
<1>. DEFINE r == Chain(r1, r2)
<1>1. r1 \in RateAt[n] /\ r2 \in RateAt[n] /\ Ends(r1) = {a, b} /\ Ends(r2) = {b, c}
  BY DEF Between
<1>2. r = Derived(a, c, Gain(r1, a) + Gain(r2, b), r1, r2)
  BY <1>1, ChainEnds
<1>3. Gain(r1, a) \in Int /\ Gain(r2, b) \in Int /\ Gain(r1, b) = -Gain(r1, a)
      /\ Gain(r2, c) = -Gain(r2, b)
  BY RightFrom
<1>. DEFINE rate == Gain(r1, a) + Gain(r2, b)
<1>4. /\ r.source = a /\ r.target = c /\ r.type = "Derived" /\ r.first = r1 /\ r.second = r2
      /\ r.rate = rate
  BY <1>2 DEF Derived
<1>5. r \in RateAt[n + 1]
  <2>1. r # Fail
    BY <1>4 DEF Fail
  <2>. QED  BY <1>1, <2>1, ChainForm
<1>6. n + 1 \in Nat /\ n + 1 <= MaxDepth /\ MaxDepth \in Nat /\ n <= MaxDepth
  BY MaxDepthIs
<1>7. r \in RateAt[MaxDepth] /\ r1 \in RateAt[MaxDepth] /\ r2 \in RateAt[MaxDepth]
  BY <1>1, <1>5, <1>6, RatesGrow
<1>. HIDE DEF r
<1>8. ASSUME NEW v \in Int PROVE Exchange(r, Amount(a, v)) = Amount(c, v + r.rate)
  <2>1. Exchange(r, Amount(a, v)) = Exchange(r2, Exchange(r1, Amount(a, v)))
    BY <1>1, <1>4, <1>7, AmountType, ExchangeUnfolds
  <2>2. Exchange(r1, Amount(a, v)) = Amount(b, v + Gain(r1, a)) /\ v + Gain(r1, a) \in Int
    BY <1>3, RightFrom
  <2>3. Exchange(r2, Amount(b, v + Gain(r1, a))) = Amount(c, (v + Gain(r1, a)) + Gain(r2, b))
    BY <2>2, RightFrom
  <2>4. (v + Gain(r1, a)) + Gain(r2, b) = v + r.rate
    BY <1>3, <1>4
  <2>. QED  BY <2>1, <2>2, <2>3, <2>4
<1>9. ASSUME NEW v \in Int PROVE Exchange(r, Amount(c, v)) = Amount(a, v - r.rate)
  <2>1. Exchange(r, Amount(c, v)) = Exchange(r1, Exchange(r2, Amount(c, v)))
    BY <1>1, <1>4, <1>7, AmountType, ExchangeUnfolds
  <2>2. r2 \in Between(n, c, b) /\ r1 \in Between(n, b, a)
    BY DEF Between
  <2>3. Exchange(r2, Amount(c, v)) = Amount(b, v + Gain(r2, c)) /\ v + Gain(r2, c) \in Int
    BY <1>3, <2>2, RightFrom
  <2>4. Exchange(r1, Amount(b, v + Gain(r2, c))) = Amount(a, (v + Gain(r2, c)) + Gain(r1, b))
    BY <2>2, <2>3, RightFrom
  <2>5. (v + Gain(r2, c)) + Gain(r1, b) = v - r.rate
    BY <1>3, <1>4
  <2>. QED  BY <2>1, <2>3, <2>4, <2>5
<1>. QED  BY <1>4, <1>5, <1>8, <1>9 DEF Between, Right, Ends, r

-----------------------------------------------------------------------------
\* What fetch returns, as a rate.

LEMMA FetchRight ==
  ASSUME Inv, NEW s \in Currency, NEW t \in Currency, NEW d \in Date, Fetch(s, t, d) # Fail,
         NEW n \in Nat
  PROVE  Fetch(s, t, d) \in Between(n, s, t) /\ s # t
<1>1. PICK j \in Nat : Latest(j, s, t, d) /\ Fetch(s, t, d) = added[j].rate
  BY FetchIs
<1>2. added[j] \in Proper /\ Of(added[j]) = {s, t}
  BY <1>1 DEF Latest, Fits, Inv, Holds
<1>. DEFINE r == added[j].rate
<1>3. /\ r.source \in Currency /\ r.target \in Currency /\ r.rate \in Int /\ r \in DirectRate
      /\ {r.source, r.target} = {s, t} /\ r.source # r.target
  BY <1>2, OfInPairs DEF Proper
<1>4. r \in DirectRates
  BY <1>3, DateAssumption DEF DirectRate, DirectRates, Direct
<1>. HIDE DEF r
<1>5. Right(r) /\ r \in RateAt[n]
  BY <1>3, <1>4, DirectRight, DirectAnywhere
<1>. QED  BY <1>1, <1>3, <1>5 DEF Between, Ends, r

LEMMA FetchEither ==
  ASSUME NEW s, NEW t, NEW d PROVE Fetch(s, t, d) = Fetch(t, s, d)
<1>1. Key(s, t) = Key(t, s)
  BY DEF Key
<1>. QED  BY <1>1 DEF Fetch

\* No valid rate leads out of S.
Closed(S, d) == \A a \in S, b \in Currency : Fetch(a, b, d) # Fail => b \in S

LEMMA ConnectedIs ==
  ASSUME Inv, NEW c \in Currency, NEW b \in Currency, NEW d \in Date
  PROVE  b \in Connected(c, d) <=>
           \A S \in SUBSET Currency : c \in S /\ Closed(S, d) => b \in S
<1>. DEFINE links == {Of(added[k]) : k \in {j \in 1 .. Len(added) : ValidAt(added[j], d)}}
            shut(S) == \A p \in links : p \cap S # {} => p \subseteq S
<1>1. ASSUME NEW x \in Currency, NEW y \in Currency
      PROVE  Fetch(x, y, d) # Fail <=> {x, y} \in links
  <2>1. CASE Fetch(x, y, d) = Fail
    <3>1. Fail # Fail \/ \A j \in 1 .. Len(added) : ~ Fits(added[j], {x, y}, d)
      <4>1. ASSUME NEW j \in Nat, Latest(j, x, y, d), Fetch(x, y, d) = added[j].rate
            PROVE  FALSE
        <5>1. added[j] \in Entry
          BY <4>1 DEF Latest, Inv, Holds, Proper
        <5>2. added[j].rate.type = "Direct"
          BY <5>1, OfInPairs
        <5>. QED  BY <2>1, <4>1, <5>2 DEF Fail
      <4>. QED  BY <4>1, FetchIs
    <3>. QED  BY <2>1, <3>1 DEF Fits
  <2>2. CASE Fetch(x, y, d) # Fail
    <3>1. PICK j \in Nat : Latest(j, x, y, d)
      BY <2>2, FetchIs
    <3>. QED  BY <2>2, <3>1 DEF Latest, Fits
  <2>. QED  BY <2>1, <2>2
<1>2. ASSUME NEW p \in links
      PROVE  \E x \in Currency, y \in Currency : p = {x, y}
  <2>1. PICK k \in 1 .. Len(added) : p = Of(added[k])
    OBVIOUS
  <2>2. added[k] \in Entry
    BY DEF Inv, Holds, Proper
  <2>. QED  BY <2>1, <2>2, OfInPairs
<1>3. ASSUME NEW S \in SUBSET Currency PROVE Closed(S, d) <=> shut(S)
  <2>. HIDE DEF links
  <2>1. ASSUME Closed(S, d), NEW p \in links, p \cap S # {} PROVE p \subseteq S
    <3>1. PICK x \in Currency, y \in Currency : p = {x, y}
      BY <1>2
    <3>2. Fetch(x, y, d) # Fail /\ Fetch(y, x, d) # Fail
      BY <1>1, <3>1, FetchEither
    <3>. QED  BY <2>1, <3>1, <3>2 DEF Closed
  <2>2. ASSUME shut(S), NEW x \in S, NEW y \in Currency, Fetch(x, y, d) # Fail PROVE y \in S
    <3>1. {x, y} \in links /\ x \in {x, y} \cap S
      BY <1>1, <2>2
    <3>2. {x, y} \subseteq S
      BY <2>2, <3>1
    <3>. QED  BY <3>2
  <2>. QED  BY <2>1, <2>2 DEF Closed
<1>4. b \in Connected(c, d) <=> \A S \in SUBSET Currency : c \in S /\ shut(S) => b \in S
  BY DEF Connected
<1>. HIDE DEF shut
<1>. QED  BY <1>3, <1>4

-----------------------------------------------------------------------------
\* The search is well founded: the fewer currencies are left, the lower.

Found == {Fail} \cup (UNION {RateAt[n] : n \in Nat})

LEMMA ChainFound ==
  ASSUME NEW x \in Found, NEW y \in Found PROVE Chain(x, y) \in Found
<1>1. CASE x = Fail \/ y = Fail
  BY <1>1 DEF Chain, Found
<1>2. CASE x # Fail /\ y # Fail
  <2>1. PICK i \in Nat, j \in Nat : x \in RateAt[i] /\ y \in RateAt[j]
    BY <1>2 DEF Found
  <2>2. i <= i + j /\ j <= i + j /\ i + j \in Nat /\ (i + j) + 1 \in Nat
    OBVIOUS
  <2>3. x \in RateAt[i + j] /\ y \in RateAt[i + j]
    BY <2>1, <2>2, RatesGrow
  <2>4. Chain(x, y) \in RateAt[(i + j) + 1] \cup {Fail}
    BY <2>2, <2>3, ChainForm
  <2>. QED  BY <2>2, <2>4 DEF Found
<1>. QED  BY <1>1, <1>2

LEMMA FetchFound ==
  ASSUME Inv, NEW s \in Currency, NEW t \in Currency, NEW d \in Date
  PROVE  Fetch(s, t, d) \in Found
BY FetchRight DEF Found, Between

\* What one call of smartLookup comes to.
Searched(found, smart, c, barred, t, d) ==
  \/ Fetch(c, t, d) # Fail /\ found = Fetch(c, t, d)
  \/ /\ Fetch(c, t, d) = Fail /\ found = Fail
     /\ \A o \in Currency \ barred : Fetch(c, o, d) = Fail \/ smart[<<o, barred>>] = Fail
  \/ /\ Fetch(c, t, d) = Fail
     /\ \E o \in Currency \ barred :
          /\ Fetch(c, o, d) # Fail /\ smart[<<o, barred>>] # Fail
          /\ found = Chain(Fetch(c, o, d), smart[<<o, barred>>])

LEMMA SearchCases ==
  ASSUME NEW smart, NEW c \in Currency, NEW forbidden \in SUBSET Currency, NEW target, NEW d
  PROVE  Searched(Search(smart, c, forbidden, target, d), smart, c, forbidden \cup {c}, target, d)
<1>. DEFINE barred == forbidden \cup {c}
            ways == {o \in Currency \ barred :
                       Fetch(c, o, d) # Fail /\ smart[<<o, barred>>] # Fail}
<1>1. CASE ways = {}
  BY <1>1 DEF Search, Searched
<1>2. CASE ways # {}
  <2>1. ways \subseteq Nat
    BY CurrencyAssumption
  <2>2. PICK w \in ways : \A x \in ways : w <= x
    <3>. HIDE DEF ways
    <3>. QED  BY <1>2, <2>1, Least
  <2>. DEFINE o == CHOOSE u \in ways : \A x \in ways : u <= x
  <2>3. o \in ways
    <3>. HIDE DEF ways
    <3>. QED  BY <2>2
  <2>4. Search(smart, c, forbidden, target, d) =
          IF Fetch(c, target, d) # Fail THEN Fetch(c, target, d)
          ELSE Chain(Fetch(c, o, d), smart[<<o, barred>>])
    BY <1>2 DEF Search
  <2>. HIDE DEF o
  <2>. QED  BY <2>3, <2>4 DEF Searched
<1>. QED  BY <1>1, <1>2

\* The search looks only at other currencies, with the one it is at forbidden.
LEMMA SearchBelow ==
  ASSUME NEW f, NEW g, NEW c \in Currency, NEW forbidden \in SUBSET Currency, NEW target, NEW d,
         \A o \in Currency \ (forbidden \cup {c}) :
           f[<<o, forbidden \cup {c}>>] = g[<<o, forbidden \cup {c}>>]
  PROVE  Search(f, c, forbidden, target, d) = Search(g, c, forbidden, target, d)
<1>. DEFINE barred == forbidden \cup {c}
            ways(h) == {o \in Currency \ barred :
                          Fetch(c, o, d) # Fail /\ h[<<o, barred>>] # Fail}
            first(h) == CHOOSE u \in ways(h) : \A x \in ways(h) : u <= x
            result(h) == IF Fetch(c, target, d) # Fail THEN Fetch(c, target, d)
                         ELSE IF ways(h) = {} THEN Fail
                         ELSE Chain(Fetch(c, first(h), d), h[<<first(h), barred>>])
<1>1. Search(f, c, forbidden, target, d) = result(f)
      /\ Search(g, c, forbidden, target, d) = result(g)
  BY DEF Search
<1>2. ways(f) = ways(g)
  OBVIOUS
<1>3. first(f) = first(g)
  BY <1>2
<1>4. CASE ways(f) = {}
  BY <1>1, <1>2, <1>4
<1>5. CASE ways(f) # {}
  <2>1. ways(f) \subseteq Nat
    BY CurrencyAssumption
  <2>2. PICK w \in ways(f) : \A x \in ways(f) : w <= x
    <3>. HIDE DEF ways
    <3>. QED  BY <1>5, <2>1, Least
  <2>3. first(f) \in ways(f)
    <3>. HIDE DEF ways
    <3>. QED  BY <2>2
  <2>4. first(f) \in Currency \ barred
    <3>. HIDE DEF first
    <3>. QED  BY <2>3
  <2>5. f[<<first(f), barred>>] = g[<<first(g), barred>>]
    <3>. HIDE DEF first
    <3>. QED  BY <1>3, <2>4
  <2>. HIDE DEF first, ways
  <2>. QED  BY <1>1, <1>2, <1>3, <2>5
<1>. QED  BY <1>4, <1>5

Left(forbidden) == Cardinality(Currency \ forbidden)

LEMMA LeftIs ==
  ASSUME NEW forbidden \in SUBSET Currency
  PROVE  /\ Left(forbidden) \in Nat
         /\ \A c \in Currency \ forbidden :
              Left(forbidden) # 0 /\ Left(forbidden \cup {c}) = Left(forbidden) - 1
<1>. DEFINE S == Currency \ forbidden
<1>1. IsFiniteSet(S)
  BY CurrencyAssumption, FS_Subset
<1>2. Cardinality(S) \in Nat
  BY <1>1, FS_CardinalityType
<1>3. ASSUME NEW c \in S PROVE Left(forbidden) # 0 /\ Left(forbidden \cup {c}) = Left(forbidden) - 1
  <2>1. IsFiniteSet(S \ {c}) /\ Cardinality(S \ {c}) = Cardinality(S) - 1
    <3>. HIDE DEF S
    <3>. QED  BY <1>1, FS_RemoveElement
  <2>2. Cardinality(S \ {c}) \in Nat
    BY <2>1, FS_CardinalityType
  <2>3. Currency \ (forbidden \cup {c}) = S \ {c}
    OBVIOUS
  <2>. HIDE DEF S
  <2>. QED  BY <1>2, <2>1, <2>2, <2>3 DEF Left, S
<1>. QED  BY <1>2, <1>3 DEF Left

Seeks(smart, target, d) ==
  /\ smart = [q \in Currency \X SUBSET Currency |-> Search(smart, q[1], q[2], target, d)]
  /\ \A s \in Currency : SmartLookup(s, target, d) = smart[<<s, {}>>]

LEMMA SmartIs ==
  ASSUME Inv, NEW target \in Currency, NEW d \in Date
  PROVE  \E smart : Seeks(smart, target, d)
<1>. DEFINE S == Currency \X SUBSET Currency
            rank == [q \in S |-> 2 * Left(q[2]) + (IF q[1] \in q[2] THEN 1 ELSE 0)]
            F == [g \in [S -> Found] |-> [q \in S |-> Search(g, q[1], q[2], target, d)]]
            smart[q \in Currency \X SUBSET Currency] == Search(smart, q[1], q[2], target, d)
<1>1. \A q \in S : q[1] \in Currency /\ q[2] \in SUBSET Currency /\ q = <<q[1], q[2]>>
  OBVIOUS
<1>2. ASSUME NEW g \in [S -> Found], NEW q \in S
      PROVE  Search(g, q[1], q[2], target, d) \in Found
  <2>1. PICK c \in Currency, forbidden \in SUBSET Currency :
               q[1] = c /\ q[2] = forbidden
    BY <1>1
  <2>. DEFINE barred == forbidden \cup {c}
  <2>2. \A o \in Currency : Fetch(c, o, d) \in Found
    BY FetchFound
  <2>3. \A o \in Currency : g[<<o, barred>>] \in Found
    OBVIOUS
  <2>4. Fail \in Found
    BY DEF Found
  <2>5. Search(g, c, forbidden, target, d) \in Found
    <3>. DEFINE found == Search(g, c, forbidden, target, d)
    <3>1. \/ found = Fetch(c, target, d)
          \/ found = Fail
          \/ \E o \in Currency \ barred : found = Chain(Fetch(c, o, d), g[<<o, barred>>])
      <4>1. Searched(found, g, c, barred, target, d)
        BY SearchCases
      <4>. HIDE DEF S, found, barred
      <4>. QED  BY <4>1 DEF Searched
    <3>2. \A o \in Currency \ barred : Chain(Fetch(c, o, d), g[<<o, barred>>]) \in Found
      <4>. HIDE DEF S, barred
      <4>. QED  BY <2>2, <2>3, ChainFound
    <3>. HIDE DEF S, found, barred
    <3>3. found \in Found
      BY <2>2, <2>4, <3>1, <3>2
    <3>. QED  BY <3>3 DEF found
  <2>. QED  BY <2>1, <2>5
<1>3. F \in [[S -> Found] -> [S -> Found]] /\ Found # {}
  <2>1. \A g \in [S -> Found] : [q \in S |-> Search(g, q[1], q[2], target, d)] \in [S -> Found]
    <3>. HIDE DEF S
    <3>. QED  BY <1>2
  <2>2. Found # {}
    BY DEF Found
  <2>. HIDE DEF S
  <2>. QED  BY <2>1, <2>2
<1>4. rank \in [S -> Nat]
  <2>1. \A q \in S : 2 * Left(q[2]) + (IF q[1] \in q[2] THEN 1 ELSE 0) \in Nat
    <3>1. \A q \in S : Left(q[2]) \in Nat
      BY <1>1, LeftIs
    <3>. HIDE DEF S
    <3>. QED  BY <3>1
  <2>. HIDE DEF S
  <2>. QED  BY <2>1
<1>5. LooksBelow(S, Found, rank, F)
  <2>. SUFFICES ASSUME NEW f \in [S -> Found], NEW g \in [S -> Found], NEW q \in S,
                       \A p \in S : rank[p] < rank[q] => f[p] = g[p]
                PROVE  Search(f, q[1], q[2], target, d) = Search(g, q[1], q[2], target, d)
    <3>. HIDE DEF S, rank
    <3>. QED  BY DEF LooksBelow
  <2>. DEFINE barred == q[2] \cup {q[1]}
  <2>1. ASSUME NEW o \in Currency \ barred PROVE f[<<o, barred>>] = g[<<o, barred>>]
    <3>1. <<o, barred>> \in S /\ o \notin barred /\ barred \in SUBSET Currency
      BY <1>1, <2>1
    <3>2. rank[<<o, barred>>] = 2 * Left(barred)
      <4>1. rank[<<o, barred>>] = 2 * Left(barred) + (IF o \in barred THEN 1 ELSE 0)
        BY <3>1
      <4>2. 2 * Left(barred) \in Nat
        BY <3>1, LeftIs
      <4>. HIDE DEF rank, barred
      <4>. QED  BY <3>1, <4>1, <4>2
    <3>3. rank[q] = 2 * Left(q[2]) + (IF q[1] \in q[2] THEN 1 ELSE 0)
      OBVIOUS
    <3>4. 2 * Left(barred) < rank[q]
      <4>1. CASE q[1] \in q[2]
        <5>1. barred = q[2]
          BY <4>1
        <5>2. Left(q[2]) \in Nat
          BY <1>1, LeftIs
        <5>. HIDE DEF rank, barred
        <5>. QED  BY <3>3, <4>1, <5>1, <5>2
      <4>2. CASE q[1] \notin q[2]
        <5>1. Left(q[2]) \in Nat /\ Left(q[2]) # 0 /\ Left(barred) = Left(q[2]) - 1
          BY <1>1, <4>2, LeftIs
        <5>. HIDE DEF rank, barred
        <5>. QED  BY <3>3, <4>2, <5>1
      <4>. QED  BY <4>1, <4>2
    <3>. HIDE DEF rank, barred, S
    <3>. QED  BY <3>1, <3>2, <3>4
  <2>2. PICK c \in Currency, forbidden \in SUBSET Currency :
               q[1] = c /\ q[2] = forbidden
    BY <1>1
  <2>3. \A o \in Currency \ (forbidden \cup {c}) :
          f[<<o, forbidden \cup {c}>>] = g[<<o, forbidden \cup {c}>>]
    BY <2>1, <2>2
  <2>4. Search(f, c, forbidden, target, d) = Search(g, c, forbidden, target, d)
    <3>. HIDE DEF rank, S
    <3>. QED  BY <2>3, SearchBelow
  <2>. QED  BY <2>2, <2>4
<1>6. HasFixpoint(S, Found, F)
  <2>. HIDE DEF S, rank, F
  <2>. QED  BY <1>3, <1>4, <1>5, Recursion
<1>7. PICK g \in [S -> Found] : F[g] = g
  <2>. HIDE DEF S, F
  <2>. QED  BY <1>6 DEF HasFixpoint
<1>8. g = [q \in S |-> Search(g, q[1], q[2], target, d)]
  <2>. HIDE DEF S
  <2>. QED  BY <1>7
<1>9. smart = [q \in S |-> Search(smart, q[1], q[2], target, d)]
  BY <1>8
<1>10. \A s \in Currency : SmartLookup(s, target, d) = smart[<<s, {}>>]
  BY DEF SmartLookup
<1>. HIDE DEF smart
<1>. QED  BY <1>9, <1>10 DEF Seeks

-----------------------------------------------------------------------------
\* The search finds a way exactly if there is one.

\* Whatever valid rates do not lead out of has t if it has c.
Reaches(c, t, d) == \A S \in SUBSET Currency : c \in S /\ Closed(S, d) => t \in S

\* Valid rates lead out of S only to what is forbidden.
Bounded(S, forbidden, d) ==
  \A a \in S, b \in Currency : Fetch(a, b, d) # Fail => b \in S \cup forbidden

\* Currencies around c, without t, from which one gets only to forbidden ones.
Cut(c, forbidden, t, d) ==
  \E S \in SUBSET Currency :
    c \in S /\ t \notin S /\ S \cap forbidden = {} /\ Bounded(S, forbidden, d)

Outcome(smart, n, c, forbidden, t, d) ==
  \/ smart[<<c, forbidden>>] \in Between(n, c, t) /\ Reaches(c, t, d)
  \/ smart[<<c, forbidden>>] = Fail /\ Cut(c, forbidden, t, d)

LEMMA BetweenNotFail ==
  ASSUME NEW n \in Nat, NEW a, NEW b, NEW r \in Between(n, a, b) PROVE r # Fail
BY RateForm DEF Between

(***************************************************************************)
(* If the outcome is as it should be from the other currencies, with c     *)
(* forbidden, so it is from c.  Where nothing is found, the sets around    *)
(* its neighbours, together with c, are the set around c.                  *)
(***************************************************************************)
LEMMA SearchStep ==
  ASSUME Inv, NEW t \in Currency, NEW d \in Date, NEW smart, Seeks(smart, t, d),
         NEW c \in Currency, NEW forbidden \in SUBSET Currency,
         c \notin forbidden, t \notin forbidden, c # t,
         NEW n \in Nat, n < MaxDepth,
         \A o \in Currency \ (forbidden \cup {c}) :
           o # t => Outcome(smart, n, o, forbidden \cup {c}, t, d)
  PROVE  Outcome(smart, n + 1, c, forbidden, t, d)
<1>. DEFINE barred == forbidden \cup {c}
            found == smart[<<c, forbidden>>]
<1>1. found = Search(smart, c, forbidden, t, d)
  BY DEF Seeks
<1>2. \A o \in Currency : Fetch(c, o, d) # Fail => o # c
  BY FetchRight
<1>3. CASE Fetch(c, t, d) # Fail /\ found = Fetch(c, t, d)
  <2>1. found \in Between(n + 1, c, t)
    BY <1>3, FetchRight
  <2>2. Reaches(c, t, d)
    BY <1>3 DEF Reaches, Closed
  <2>. QED  BY <2>1, <2>2 DEF Outcome
<1>4. CASE /\ Fetch(c, t, d) = Fail /\ found = Fail
           /\ \A o \in Currency \ barred : Fetch(c, o, d) = Fail \/ smart[<<o, barred>>] = Fail
  <2>. DEFINE parts == {T \in SUBSET Currency :
                          t \notin T /\ T \cap barred = {} /\ Bounded(T, barred, d)}
              S == {c} \cup (UNION parts)
  <2>1. ASSUME NEW o \in Currency, Fetch(c, o, d) # Fail PROVE o \in S \cup forbidden
    <3>1. CASE o \in barred
      BY <3>1
    <3>2. CASE o \notin barred
      <4>1. o # t /\ smart[<<o, barred>>] = Fail
        BY <1>4, <2>1, <3>2
      <4>2. Outcome(smart, n, o, barred, t, d)
        BY <3>2, <4>1
      <4>3. Cut(o, barred, t, d)
        BY <4>1, <4>2, BetweenNotFail DEF Outcome
      <4>. QED  BY <4>3 DEF Cut
    <3>. QED  BY <3>1, <3>2
  <2>2. ASSUME NEW T \in parts, NEW a \in T, NEW b \in Currency, Fetch(a, b, d) # Fail
        PROVE  b \in S \cup forbidden
    BY <2>2 DEF Bounded
  <2>3. Bounded(S, forbidden, d)
    <3>. SUFFICES ASSUME NEW a \in S, NEW b \in Currency, Fetch(a, b, d) # Fail
                  PROVE  b \in S \cup forbidden
      BY DEF Bounded
    <3>1. CASE a = c
      BY <2>1, <3>1
    <3>2. CASE a # c
      <4>1. PICK T \in parts : a \in T
        BY <3>2
      <4>. HIDE DEF parts, S
      <4>. QED  BY <2>2, <4>1
    <3>. QED  BY <3>1, <3>2
  <2>4. S \in SUBSET Currency /\ c \in S /\ t \notin S /\ S \cap forbidden = {}
    OBVIOUS
  <2>5. Cut(c, forbidden, t, d)
    <3>. HIDE DEF S
    <3>. QED  BY <2>3, <2>4 DEF Cut
  <2>. QED  BY <1>4, <2>5 DEF Outcome
<1>5. CASE /\ Fetch(c, t, d) = Fail
           /\ \E o \in Currency \ barred :
                /\ Fetch(c, o, d) # Fail /\ smart[<<o, barred>>] # Fail
                /\ found = Chain(Fetch(c, o, d), smart[<<o, barred>>])
  <2>1. PICK o \in Currency \ barred :
                /\ Fetch(c, o, d) # Fail /\ smart[<<o, barred>>] # Fail
                /\ found = Chain(Fetch(c, o, d), smart[<<o, barred>>])
    BY <1>5
  <2>2. o # t /\ o # c /\ o \in Currency
    BY <1>5, <2>1
  <2>3. smart[<<o, barred>>] \in Between(n, o, t) /\ Reaches(o, t, d)
    BY <2>1, <2>2 DEF Outcome
  <2>4. Fetch(c, o, d) \in Between(n, c, o)
    BY <2>1, <2>2, FetchRight
  <2>5. found \in Between(n + 1, c, t)
    <3>. HIDE DEF found, barred
    <3>. QED  BY <2>1, <2>2, <2>3, <2>4, ChainRight
  <2>6. Reaches(c, t, d)
    BY <2>1, <2>2, <2>3 DEF Reaches, Closed
  <2>. QED  BY <2>5, <2>6 DEF Outcome
<1>6. Searched(found, smart, c, barred, t, d)
  BY <1>1, SearchCases
<1>. QED
  <2>. HIDE DEF found, barred
  <2>. QED  BY <1>3, <1>4, <1>5, <1>6 DEF Searched

LEMMA SearchOutcome ==
  ASSUME Inv, NEW t \in Currency, NEW d \in Date, NEW smart, Seeks(smart, t, d),
         NEW c \in Currency, NEW forbidden \in SUBSET Currency,
         c \notin forbidden, t \notin forbidden, c # t
  PROVE  Outcome(smart, Left(forbidden), c, forbidden, t, d)
<1>. DEFINE P(n) == \A a \in Currency, f \in SUBSET Currency :
                      Left(f) = n /\ a \notin f /\ t \notin f /\ a # t
                        => Outcome(smart, n, a, f, t, d)
            T == {n \in Nat : P(n)}
<1>1. 0 \in T
  BY LeftIs
<1>2. ASSUME NEW n \in Nat, n \in T PROVE n + 1 \in T
  <2>. SUFFICES ASSUME NEW a \in Currency, NEW f \in SUBSET Currency,
                       Left(f) = n + 1, a \notin f, t \notin f, a # t
                PROVE  Outcome(smart, n + 1, a, f, t, d)
    OBVIOUS
  <2>1. Left(f \cup {a}) = n
    BY LeftIs
  <2>2. \A o \in Currency \ (f \cup {a}) : o # t => Outcome(smart, n, o, f \cup {a}, t, d)
    BY <1>2, <2>1
  <2>3. n < MaxDepth
    <3>1. Cardinality(Currency \ f) <= Cardinality(Currency) /\ Cardinality(Currency) \in Nat
      BY FS_Subset, CurrencyAssumption, MaxDepthIs
    <3>. QED  BY <3>1 DEF MaxDepth, Left
  <2>. QED  BY <2>2, <2>3, SearchStep
<1>3. Left(forbidden) \in T
  <2>. HIDE DEF T
  <2>. QED  BY <1>1, <1>2, LeftIs, Induct
<1>. QED  BY <1>3

-----------------------------------------------------------------------------
\* What lookup returns.

\* A rate between a and b of depth n if there is reason for one, and else none.
Finds(x, n, a, b, reason) ==
  (x \in Between(n, a, b) /\ reason) \/ (x = Fail /\ ~ reason)

LEMMA FindsMore ==
  ASSUME NEW n \in Nat, NEW m \in Nat, n <= m, NEW a, NEW b, NEW x, NEW p,
         Finds(x, n, a, b, p)
  PROVE  Finds(x, m, a, b, p)
BY RatesGrow DEF Finds, Between

LEMMA FindsFetch ==
  ASSUME Inv, NEW a \in Currency, NEW b \in Currency, NEW d \in Date, NEW n \in Nat
  PROVE  Finds(Fetch(a, b, d), n, a, b, Fetch(a, b, d) # Fail)
BY FetchRight DEF Finds

LEMMA FindsChain ==
  ASSUME NEW n \in Nat, n < MaxDepth,
         NEW a \in Currency, NEW b \in Currency, NEW c \in Currency,
         a # b, b # c, a # c, NEW x, NEW y, NEW p, NEW q,
         Finds(x, n, a, b, p), Finds(y, n, b, c, q)
  PROVE  Finds(Chain(x, y), n + 1, a, c, p /\ q)
<1>1. CASE x = Fail \/ y = Fail
  <2>1. Chain(x, y) = Fail
    BY <1>1 DEF Chain
  <2>2. ~ p \/ ~ q
    BY <1>1, BetweenNotFail DEF Finds
  <2>. QED  BY <2>1, <2>2 DEF Finds
<1>2. CASE x # Fail /\ y # Fail
  <2>1. x \in Between(n, a, b) /\ y \in Between(n, b, c) /\ p /\ q
    BY <1>2 DEF Finds
  <2>. QED  BY <2>1, ChainRight DEF Finds
<1>. QED  BY <1>1, <1>2

LEMMA SmartFinds ==
  ASSUME Inv, NEW s \in Currency, NEW t \in Currency, s # t, NEW d \in Date
  PROVE  Finds(SmartLookup(s, t, d), Cardinality(Currency), s, t, t \in Connected(s, d))
<1>1. PICK smart : Seeks(smart, t, d)
  BY SmartIs
<1>2. SmartLookup(s, t, d) = smart[<<s, {}>>]
  BY <1>1 DEF Seeks
<1>3. Outcome(smart, Left({}), s, {}, t, d)
  BY <1>1, SearchOutcome
<1>4. Left({}) = Cardinality(Currency)
  <2>1. Currency \ {} = Currency
    OBVIOUS
  <2>. QED  BY <2>1 DEF Left
<1>5. Reaches(s, t, d) <=> t \in Connected(s, d)
  BY ConnectedIs DEF Reaches
<1>6. Cut(s, {}, t, d) => ~ Reaches(s, t, d)
  BY DEF Cut, Reaches, Bounded, Closed
<1>. QED  BY <1>2, <1>3, <1>4, <1>5, <1>6 DEF Outcome, Finds

LEMMA LinkIs ==
  ASSUME NEW c \in Currency, Linked[c] # None
  PROVE  Linked[c] \in Currency /\ Linked[Linked[c]] = None /\ Linked[c] # c
BY LinkedAssumption

ToLink(c, d) == Fetch(c, Linked[c], d)

\* What lookup does, the calls it makes being look.
LEMMA LookForIs ==
  ASSUME NEW look, NEW s \in Currency, NEW t \in Currency, NEW d
  PROVE  /\ s = t => LookFor(look, s, t, d) = Direct(s, t, 0)
         /\ s # t /\ Linked[s] # None /\ Linked[s] = t => LookFor(look, s, t, d) = ToLink(s, d)
         /\ s # t /\ Linked[s] # None /\ Linked[s] # t =>
              LookFor(look, s, t, d) = Chain(ToLink(s, d), look[<<Linked[s], t>>])
         /\ s # t /\ Linked[s] = None /\ Linked[t] # None /\ Linked[t] = s =>
              LookFor(look, s, t, d) = ToLink(t, d)
         /\ s # t /\ Linked[s] = None /\ Linked[t] # None /\ Linked[t] # s =>
              LookFor(look, s, t, d) = Chain(look[<<s, Linked[t]>>], ToLink(t, d))
         /\ s # t /\ Linked[s] = None /\ Linked[t] = None =>
              LookFor(look, s, t, d) = SmartLookup(s, t, d)
BY DEF LookFor, ToLink

Looks(look, d) ==
  /\ look = [p \in Currency \X Currency |-> LookFor(look, p[1], p[2], d)]
  /\ \A s, t \in Currency : Lookup(s, t, d) = look[<<s, t>>]

LEMMA LookFound ==
  ASSUME Inv, NEW d \in Date, NEW look \in [Currency \X Currency -> Found],
         NEW s \in Currency, NEW t \in Currency
  PROVE  LookFor(look, s, t, d) \in Found
<1>1. s # t => SmartLookup(s, t, d) \in Found
  BY SmartFinds, MaxDepthIs DEF Finds, Between, Found
<1>2. Direct(s, t, 0) \in Found
  <2>1. Direct(s, t, 0) \in DirectRates
    BY DEF Direct, DirectRates
  <2>2. 0 \in Nat /\ RateAt[0] = DirectRates
    BY RateAtStep
  <2>. QED  BY <2>1, <2>2 DEF Found
<1>3. Linked[s] # None => Linked[s] \in Currency /\ ToLink(s, d) \in Found
  BY LinkIs, FetchFound DEF ToLink
<1>4. Linked[t] # None => Linked[t] \in Currency /\ ToLink(t, d) \in Found
  BY LinkIs, FetchFound DEF ToLink
<1>5. Linked[s] # None => Chain(ToLink(s, d), look[<<Linked[s], t>>]) \in Found
  BY <1>3, ChainFound
<1>6. Linked[t] # None => Chain(look[<<s, Linked[t]>>], ToLink(t, d)) \in Found
  BY <1>4, ChainFound
<1>. QED  BY <1>1, <1>2, <1>3, <1>4, <1>5, <1>6, LookForIs

\* lookup is well founded: it calls itself with links, which have none.
LEMMA LooksIs ==
  ASSUME Inv, NEW d \in Date PROVE \E look : Looks(look, d)
<1>. DEFINE S == Currency \X Currency
            links(c) == IF Linked[c] = None THEN 0 ELSE 1
            rank == [p \in S |-> links(p[1]) + links(p[2])]
            F == [g \in [S -> Found] |-> [p \in S |-> LookFor(g, p[1], p[2], d)]]
            look[p \in Currency \X Currency] == LookFor(look, p[1], p[2], d)
<1>1. F \in [[S -> Found] -> [S -> Found]] /\ Found # {} /\ rank \in [S -> Nat]
  <2>1. ASSUME NEW g \in [S -> Found], NEW p \in S PROVE LookFor(g, p[1], p[2], d) \in Found
    BY LookFound
  <2>2. \A g \in [S -> Found] : [p \in S |-> LookFor(g, p[1], p[2], d)] \in [S -> Found]
    <3>. HIDE DEF S
    <3>. QED  BY <2>1
  <2>3. Found # {}
    BY DEF Found
  <2>4. rank \in [S -> Nat]
    OBVIOUS
  <2>. HIDE DEF S, rank
  <2>. QED  BY <2>2, <2>3, <2>4
<1>2. LooksBelow(S, Found, rank, F)
  <2>. SUFFICES ASSUME NEW f \in [S -> Found], NEW g \in [S -> Found], NEW p \in S,
                       \A q \in S : rank[q] < rank[p] => f[q] = g[q]
                PROVE  LookFor(f, p[1], p[2], d) = LookFor(g, p[1], p[2], d)
    <3>. HIDE DEF S, rank
    <3>. QED  BY DEF LooksBelow
  <2>1. PICK s \in Currency, t \in Currency : p = <<s, t>>
    OBVIOUS
  <2>2. rank[p] = links(s) + links(t)
    BY <2>1
  <2>3. Linked[s] # None => f[<<Linked[s], t>>] = g[<<Linked[s], t>>]
    <3>. SUFFICES ASSUME Linked[s] # None
                  PROVE  <<Linked[s], t>> \in S /\ rank[<<Linked[s], t>>] < rank[p]
      OBVIOUS
    <3>1. Linked[s] \in Currency /\ Linked[Linked[s]] = None
      BY LinkIs
    <3>2. rank[<<Linked[s], t>>] = links(Linked[s]) + links(t)
      BY <3>1
    <3>3. links(Linked[s]) = 0 /\ links(s) = 1 /\ links(t) \in Nat
      BY <3>1
    <3>. HIDE DEF rank, links
    <3>. QED  BY <2>2, <3>1, <3>2, <3>3
  <2>4. Linked[t] # None => f[<<s, Linked[t]>>] = g[<<s, Linked[t]>>]
    <3>. SUFFICES ASSUME Linked[t] # None
                  PROVE  <<s, Linked[t]>> \in S /\ rank[<<s, Linked[t]>>] < rank[p]
      OBVIOUS
    <3>1. Linked[t] \in Currency /\ Linked[Linked[t]] = None
      BY LinkIs
    <3>2. rank[<<s, Linked[t]>>] = links(s) + links(Linked[t])
      BY <3>1
    <3>3. links(Linked[t]) = 0 /\ links(t) = 1 /\ links(s) \in Nat
      BY <3>1
    <3>. HIDE DEF rank, links
    <3>. QED  BY <2>2, <3>1, <3>2, <3>3
  <2>5. LookFor(f, s, t, d) = LookFor(g, s, t, d)
    <3>. HIDE DEF rank, S
    <3>. QED  BY <2>3, <2>4 DEF LookFor
  <2>. QED  BY <2>1, <2>5
<1>3. HasFixpoint(S, Found, F)
  <2>. HIDE DEF S, rank, F
  <2>. QED  BY <1>1, <1>2, Recursion
<1>4. PICK g \in [S -> Found] : F[g] = g
  <2>. HIDE DEF S, F
  <2>. QED  BY <1>3 DEF HasFixpoint
<1>5. g = [p \in S |-> LookFor(g, p[1], p[2], d)]
  <2>. HIDE DEF S
  <2>. QED  BY <1>4
<1>6. look = [p \in S |-> LookFor(look, p[1], p[2], d)]
  BY <1>5
<1>7. \A s, t \in Currency : Lookup(s, t, d) = look[<<s, t>>]
  BY DEF Lookup
<1>. HIDE DEF look
<1>. QED  BY <1>6, <1>7 DEF Looks

\* lookup, unfolded once.
LEMMA LookupUnfolds ==
  ASSUME Inv, NEW d \in Date, NEW s \in Currency, NEW t \in Currency
  PROVE  /\ s = t => Lookup(s, t, d) = Direct(s, t, 0)
         /\ s # t /\ Linked[s] # None /\ Linked[s] = t => Lookup(s, t, d) = ToLink(s, d)
         /\ s # t /\ Linked[s] # None /\ Linked[s] # t =>
              Lookup(s, t, d) = Chain(ToLink(s, d), Lookup(Linked[s], t, d))
         /\ s # t /\ Linked[s] = None /\ Linked[t] # None /\ Linked[t] = s =>
              Lookup(s, t, d) = ToLink(t, d)
         /\ s # t /\ Linked[s] = None /\ Linked[t] # None /\ Linked[t] # s =>
              Lookup(s, t, d) = Chain(Lookup(s, Linked[t], d), ToLink(t, d))
         /\ s # t /\ Linked[s] = None /\ Linked[t] = None =>
              Lookup(s, t, d) = SmartLookup(s, t, d)
<1>1. PICK look : Looks(look, d)
  BY LooksIs
<1>2. \A a, b \in Currency :
        look[<<a, b>>] = LookFor(look, a, b, d) /\ Lookup(a, b, d) = look[<<a, b>>]
  BY <1>1 DEF Looks
<1>3. Lookup(s, t, d) = LookFor(look, s, t, d)
  BY <1>2
<1>4. Linked[s] # None => look[<<Linked[s], t>>] = Lookup(Linked[s], t, d)
  BY <1>2, LinkIs
<1>5. Linked[t] # None => look[<<s, Linked[t]>>] = Lookup(s, Linked[t], d)
  BY <1>2, LinkIs
<1>. QED  BY <1>3, <1>4, <1>5, LookForIs

Via(c) == IF Linked[c] = None THEN c ELSE Linked[c]
HasLink(c, d) == Linked[c] = None \/ ToLink(c, d) # Fail

Way(s, t, d) == HasLink(s, d) /\ HasLink(t, d) /\ Via(t) \in Connected(Via(s), d)

LEMMA ConnectedSelf ==
  ASSUME Inv, NEW c \in Currency, NEW d \in Date PROVE c \in Connected(c, d)
BY ConnectedIs

LEMMA FindsEither ==
  ASSUME NEW x, NEW n, NEW a, NEW b, NEW p, Finds(x, n, a, b, p)
  PROVE  Finds(x, n, b, a, p)
BY DEF Finds, Between

\* From a currency without a link.
LEMMA PlainFinds ==
  ASSUME Inv, NEW d \in Date, NEW s \in Currency, NEW t \in Currency, s # t, Linked[s] = None
  PROVE  Finds(Lookup(s, t, d), Cardinality(Currency) + 1, s, t, Way(s, t, d))
<1>. DEFINE N == Cardinality(Currency)
            link == Linked[t]
<1>1. N \in Nat /\ N + 1 \in Nat /\ N <= N + 1 /\ N < MaxDepth
  BY MaxDepthIs DEF MaxDepth
<1>2. Via(s) = s /\ HasLink(s, d)
  BY DEF Via, HasLink
<1>3. CASE Linked[t] = None
  <2>1. Lookup(s, t, d) = SmartLookup(s, t, d)
    BY <1>3, LookupUnfolds
  <2>2. Way(s, t, d) = (t \in Connected(s, d))
    BY <1>2, <1>3 DEF Way, Via, HasLink
  <2>3. Finds(SmartLookup(s, t, d), N, s, t, t \in Connected(s, d))
    BY SmartFinds
  <2>4. Finds(SmartLookup(s, t, d), N + 1, s, t, t \in Connected(s, d))
    <3>. HIDE DEF N
    <3>. QED  BY <1>1, <2>3, FindsMore
  <2>. QED  BY <2>1, <2>2, <2>4
<1>4. CASE Linked[t] # None /\ link = s
  <2>1. Lookup(s, t, d) = ToLink(t, d)
    BY <1>4, LookupUnfolds
  <2>2. Way(s, t, d) = (ToLink(t, d) # Fail)
    BY <1>2, <1>4, ConnectedSelf DEF Way, Via, HasLink
  <2>3. Finds(Fetch(t, s, d), N + 1, t, s, Fetch(t, s, d) # Fail)
    <3>. HIDE DEF N
    <3>. QED  BY <1>1, FindsFetch
  <2>4. Finds(Fetch(t, s, d), N + 1, s, t, Fetch(t, s, d) # Fail)
    <3>. HIDE DEF N
    <3>. QED  BY <2>3, FindsEither
  <2>. QED  BY <1>4, <2>1, <2>2, <2>4 DEF ToLink
<1>5. CASE Linked[t] # None /\ link # s
  <2>1. link \in Currency /\ Linked[link] = None /\ link # t
    BY <1>5, LinkIs
  <2>2. Lookup(s, t, d) = Chain(Lookup(s, link, d), ToLink(t, d))
    BY <1>5, LookupUnfolds
  <2>3. Lookup(s, link, d) = SmartLookup(s, link, d)
    BY <1>5, <2>1, LookupUnfolds
  <2>4. Finds(Lookup(s, link, d), N, s, link, link \in Connected(s, d))
    BY <1>5, <2>1, <2>3, SmartFinds
  <2>5. Finds(ToLink(t, d), N, link, t, ToLink(t, d) # Fail)
    BY <1>1, <2>1, FindsFetch, FindsEither DEF ToLink
  <2>6. Way(s, t, d) = (link \in Connected(s, d) /\ ToLink(t, d) # Fail)
    BY <1>2, <1>5 DEF Way, Via, HasLink
  <2>7. Finds(Chain(Lookup(s, link, d), ToLink(t, d)), N + 1, s, t,
              link \in Connected(s, d) /\ ToLink(t, d) # Fail)
    <3>. HIDE DEF N, link
    <3>. QED  BY <1>1, <1>5, <2>1, <2>4, <2>5, FindsChain
  <2>. QED  BY <2>2, <2>6, <2>7
<1>. QED  BY <1>3, <1>4, <1>5

LEMMA LookupFinds ==
  ASSUME Inv, NEW d \in Date, NEW s \in Currency, NEW t \in Currency, s # t
  PROVE  Finds(Lookup(s, t, d), MaxDepth, s, t, Way(s, t, d))
<1>. DEFINE N == Cardinality(Currency) + 1
            link == Linked[s]
<1>1. N \in Nat /\ MaxDepth \in Nat /\ N < MaxDepth /\ MaxDepth = N + 1
  BY MaxDepthIs DEF MaxDepth
<1>2. Way(s, t, d) \in BOOLEAN
  BY DEF Way, HasLink
<1>3. CASE Linked[s] = None
  <2>1. Finds(Lookup(s, t, d), N, s, t, Way(s, t, d))
    BY <1>3, PlainFinds
  <2>. HIDE DEF N
  <2>. QED  BY <1>1, <1>2, <2>1, FindsMore
<1>4. CASE Linked[s] # None /\ link = t
  <2>1. Lookup(s, t, d) = ToLink(s, d) /\ Linked[t] = None
    BY <1>4, LookupUnfolds, LinkIs
  <2>2. Way(s, t, d) = (ToLink(s, d) # Fail)
    BY <1>4, <2>1, ConnectedSelf DEF Way, Via, HasLink
  <2>3. Finds(Fetch(s, t, d), MaxDepth, s, t, Fetch(s, t, d) # Fail)
    BY <1>1, FindsFetch
  <2>. QED  BY <1>4, <2>1, <2>2, <2>3 DEF ToLink
<1>5. CASE Linked[s] # None /\ link # t
  <2>1. link \in Currency /\ Linked[link] = None /\ link # s
    BY <1>5, LinkIs
  <2>2. Lookup(s, t, d) = Chain(ToLink(s, d), Lookup(link, t, d))
    BY <1>5, LookupUnfolds
  <2>3. Finds(Lookup(link, t, d), N, link, t, Way(link, t, d))
    BY <1>5, <2>1, PlainFinds
  <2>4. Finds(ToLink(s, d), N, s, link, ToLink(s, d) # Fail)
    BY <1>1, <2>1, FindsFetch DEF ToLink
  <2>5. Way(s, t, d) = (ToLink(s, d) # Fail /\ Way(link, t, d)) /\ Way(link, t, d) \in BOOLEAN
    BY <1>5, <2>1 DEF Way, Via, HasLink
  <2>6. Finds(Chain(ToLink(s, d), Lookup(link, t, d)), N + 1, s, t,
              ToLink(s, d) # Fail /\ Way(link, t, d))
    <3>. HIDE DEF N, link
    <3>. QED  BY <1>1, <1>5, <2>1, <2>3, <2>4, <2>5, FindsChain
  <2>. QED  BY <1>1, <2>2, <2>5, <2>6
<1>. QED  BY <1>3, <1>4, <1>5

-----------------------------------------------------------------------------
(***************************************************************************)
(* Between currencies without a triangulation currency, lookup prefers a   *)
(* direct rate, and of those valid at the date the latest one added.       *)
(***************************************************************************)
THEOREM PrefersLatest == Spec => []LatestPreferred
<1>1. ASSUME Inv PROVE LatestPreferred
  <2>. SUFFICES ASSUME NEW s \in Plain, NEW t \in Plain, NEW d \in Date, s # t
                PROVE  LET fit == {k \in 1 .. Len(added) :
                                     Of(added[k]) = {s, t} /\ ValidAt(added[k], d)}
                       IN  fit # {} =>
                             Lookup(s, t, d) =
                               added[CHOOSE k \in fit : \A j \in fit : j <= k].rate
    BY DEF LatestPreferred
  <2>. DEFINE fit == {k \in 1 .. Len(added) : Of(added[k]) = {s, t} /\ ValidAt(added[k], d)}
              last == CHOOSE k \in fit : \A j \in fit : j <= k
  <2>. SUFFICES ASSUME fit # {} PROVE Lookup(s, t, d) = added[last].rate
    OBVIOUS
  <2>1. s \in Currency /\ t \in Currency /\ Linked[s] = None /\ Linked[t] = None
    BY DEF Plain
  <2>2. PICK j \in Nat : Latest(j, s, t, d) /\ Fetch(s, t, d) = added[j].rate
    BY <1>1, <2>1, FetchIs DEF Fits
  <2>3. last = j
    <3>1. Len(added) \in Nat
      BY <1>1 DEF Inv, Holds
    <3>2. j \in fit /\ \A i \in fit : i <= j
      BY <2>2, <3>1 DEF Latest, Fits
    <3>3. ASSUME NEW k \in fit, \A i \in fit : i <= k PROVE k = j
      BY <3>1, <3>2, <3>3
    <3>. HIDE DEF fit
    <3>. QED  BY <3>2, <3>3
  <2>4. Fetch(s, t, d) # Fail
    <3>1. added[j].rate.type = "Direct"
      BY <1>1, <2>2, OfInPairs DEF Latest, Inv, Holds, Proper
    <3>. QED  BY <2>2, <3>1 DEF Fail
  <2>5. PICK smart : Seeks(smart, t, d)
    BY <1>1, <2>1, SmartIs
  <2>6. SmartLookup(s, t, d) = Search(smart, s, {}, t, d)
    BY <2>1, <2>5 DEF Seeks
  <2>7. SmartLookup(s, t, d) = Fetch(s, t, d)
    <3>1. {} \in SUBSET Currency
      OBVIOUS
    <3>2. Searched(SmartLookup(s, t, d), smart, s, {} \cup {s}, t, d)
      BY <2>1, <2>6, <3>1, SearchCases
    <3>. QED  BY <2>4, <3>2 DEF Searched
  <2>8. Lookup(s, t, d) = SmartLookup(s, t, d)
    BY <1>1, <2>1, LookupUnfolds
  <2>. HIDE DEF last
  <2>. QED  BY <2>2, <2>3, <2>7, <2>8
<1>. QED  BY <1>1, Invariance, PTL

(***************************************************************************)
(* lookup finds a rate whenever any chain of valid rates leads from one    *)
(* currency to the other, and only then, whatever dead ends the search     *)
(* runs into.  A triangulated currency needs a rate to its link.           *)
(***************************************************************************)
THEOREM FindsEveryChain == Spec => []FindsAChain
<1>1. ASSUME Inv PROVE FindsAChain
  <2>1. ASSUME NEW s \in Currency, NEW t \in Currency, NEW d \in Date
        PROVE  (Lookup(s, t, d) # Fail) <=> (s = t \/ Way(s, t, d))
    <3>1. CASE s = t
      <4>1. Lookup(s, t, d) = Direct(s, t, 0)
        BY <1>1, <3>1, LookupUnfolds
      <4>2. Direct(s, t, 0).type = "Direct" /\ Fail.type = "Fail"
        BY DEF Direct, Fail
      <4>. QED  BY <3>1, <4>1, <4>2
    <3>2. CASE s # t
      <4>1. Finds(Lookup(s, t, d), MaxDepth, s, t, Way(s, t, d))
        BY <1>1, <3>2, LookupFinds
      <4>. QED  BY <3>2, <4>1, MaxDepthIs, BetweenNotFail DEF Finds
    <3>. QED  BY <3>1, <3>2
  <2>. QED  BY <2>1, Zenon DEF FindsAChain, Way, Via, HasLink, ToLink
<1>. QED  BY <1>1, Invariance, PTL

(***************************************************************************)
(* The rate found is one between the two currencies; exchanging an amount  *)
(* by it, link by link, multiplies by what rate() says, and exchanging     *)
(* back gives the amount again.                                            *)
(***************************************************************************)
THEOREM RatesExchange == Spec => []RateIsExchange
<1>1. ASSUME Inv PROVE RateIsExchange
  <2>. SUFFICES ASSUME NEW s \in Currency, NEW t \in Currency, NEW d \in Date,
                       Lookup(s, t, d) # Fail, s # t
                PROVE  LET r == Lookup(s, t, d)
                           m == Amount(s, 0)
                       IN  /\ {r.source, r.target} = {s, t}
                           /\ Exchange(r, m) =
                                Amount(t, IF r.source = s THEN r.rate ELSE -r.rate)
                           /\ Exchange(r, Exchange(r, m)) = m
    BY DEF RateIsExchange
  <2>. DEFINE r == Lookup(s, t, d)
  <2>1. r \in Between(MaxDepth, s, t) /\ MaxDepth \in Nat
    BY <1>1, LookupFinds, MaxDepthIs DEF Finds
  <2>2. r \in Between(MaxDepth, t, s)
    BY <2>1 DEF Between
  <2>. HIDE DEF r
  <2>3. /\ Gain(r, s) \in Int /\ Gain(r, t) = -Gain(r, s)
        /\ Exchange(r, Amount(s, 0)) = Amount(t, 0 + Gain(r, s))
    BY <2>1, RightFrom
  <2>4. Exchange(r, Amount(t, Gain(r, s))) = Amount(s, Gain(r, s) + Gain(r, t))
    BY <2>2, <2>1, <2>3, RightFrom
  <2>5. 0 + Gain(r, s) = Gain(r, s) /\ Gain(r, s) + Gain(r, t) = 0
    BY <2>3
  <2>6. {r.source, r.target} = {s, t}
    BY <2>1 DEF Between, Ends
  <2>7. /\ Exchange(r, Amount(s, 0)) = Amount(t, IF r.source = s THEN r.rate ELSE -r.rate)
        /\ Exchange(r, Exchange(r, Amount(s, 0))) = Amount(s, 0)
    BY <2>3, <2>4, <2>5 DEF Gain
  <2>. QED  BY <2>6, <2>7 DEF r
<1>. QED  BY <1>1, Invariance, PTL
=============================================================================
