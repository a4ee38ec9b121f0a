---------------------------- MODULE ExchangeRates ----------------------------
(***************************************************************************)
(* The repository of exchange rates, the search for a chain of rates       *)
(* between two currencies, and what a chain does to an amount of money.    *)
(*                                                                         *)
(*   ql/exchangerate.cpp                    ExchangeRate                   *)
(*   ql/currencies/exchangeratemanager.cpp  ExchangeRateManager            *)
(*                                                                         *)
(* A currency is its numeric code.  Rates and amounts are their logarithms *)
(* (whole numbers), so that a product of rates is a sum and no rounding    *)
(* stands in the way of comparing them.                                    *)
(***************************************************************************)
EXTENDS Integers, Sequences, FiniteSets

CONSTANTS
  Currency,      \* numeric codes
  Linked,        \* Currency::triangulationCurrency; None if it is empty
  Known,         \* the entries addKnownRates makes, in that order
  Date,          \* dates for which rates are valid
  Level,         \* rates that are added
  MaxAdded,      \* bound: rates added
  None           \* no triangulation currency

ASSUME CurrencyAssumption ==
  Currency \subseteq Nat /\ IsFiniteSet(Currency) /\ None \notin Currency

ASSUME DateAssumption == Date \subseteq Nat /\ Level \subseteq Int

\* The triangulation currency of every currency that has one is the Euro, which
\* has none.
ASSUME LinkedAssumption ==
  /\ Linked \in [Currency -> Currency \cup {None}]
  /\ \A c \in Currency : Linked[c] # None => Linked[Linked[c]] = None

VARIABLES
  data,          \* data_: of each pair of currencies, entries, newest first
  added          \* history: every entry in force, oldest first

vars == <<data, added>>

Direct(s, t, rate) == [type |-> "Direct", source |-> s, target |-> t, rate |-> rate]

DirectRate ==
  {Direct(s, t, r) : s \in Currency, t \in Currency, r \in Level}

Entry == [rate : DirectRate, start : Date, end : Date]

ASSUME KnownAssumption ==
  Known \in Seq({e \in Entry : e.rate.source # e.rate.target})

\* What is returned by a call that raises an exception.
Fail == [type |-> "Fail"]

\* ExchangeRateManager::hash: both directions have one key.
Key(c, d) == {c, d}
Pairs == {Key(c, d) : c \in Currency, d \in Currency}

Of(entry) == Key(entry.rate.source, entry.rate.target)

TypeOK ==
  /\ data \in [Pairs -> Seq(Entry)]
  /\ added \in Seq(Entry)

\* Slip: push_back
StoreLast(d, entry) == [d EXCEPT ![Of(entry)] = Append(@, entry)]

\* Slip: the rate is stored without its dates.
StoreUndated(d, entry) == [d EXCEPT ![Of(entry)] = <<entry.rate>> \o @]

\* push_front
Store(d, entry) == [d EXCEPT ![Of(entry)] = <<entry>> \o @]

\* ExchangeRateManager::addKnownRates, to an empty repository.
KnownRates ==
  LET after[k \in 0 .. Len(Known)] ==
        IF k = 0 THEN [p \in Pairs |-> <<>>] ELSE Store(after[k - 1], Known[k])
  IN  after[Len(Known)]

Init ==
  /\ data = KnownRates
  /\ added = Known

Add(entry) ==
  /\ Len(added) < Len(Known) + MaxAdded
  /\ data' = Store(data, entry)
  /\ added' = Append(added, entry)

Clear ==
  /\ data' = KnownRates
  /\ added' = Known

\* The code takes a rate of a currency to itself as well; nobody has use for one,
\* and it is left out.
Next ==
  \/ \E s \in Currency, t \in Currency, r \in Level, b \in Date, e \in Date :
       s # t /\ b <= e /\ Add([rate |-> Direct(s, t, r), start |-> b, end |-> e])
  \/ Clear

Spec == Init /\ [][Next]_vars

-----------------------------------------------------------------------------
\* Rates

ValidAt(entry, d) == entry.start <= d /\ d <= entry.end

\* Slip: only the newest entry is looked at.
FetchNewest(s, t, d) ==
  LET entries == data[Key(s, t)] IN
  IF entries # <<>> /\ ValidAt(Head(entries), d) THEN Head(entries).rate ELSE Fail

\* ExchangeRateManager::fetch, directLookup: in either direction, as added.
Fetch(s, t, d) ==
  LET entries == data[Key(s, t)]
      valid   == {k \in 1 .. Len(entries) : ValidAt(entries[k], d)}
  IN  IF valid = {} THEN Fail
      ELSE entries[CHOOSE k \in valid : \A j \in valid : k <= j].rate

Derived(s, t, rate, r1, r2) ==
  [type |-> "Derived", source |-> s, target |-> t, rate |-> rate,
   first |-> r1, second |-> r2]

\* Slip: a rate passed against its direction is not inverted.
ChainStraight(r1, r2) ==
  IF r1 = Fail \/ r2 = Fail THEN Fail
  ELSE LET common == {r1.source, r1.target} \cap {r2.source, r2.target}
           other(r) == CHOOSE c \in {r.source, r.target} : c \notin common
       IN  Derived(other(r1), other(r2), r1.rate + r2.rate, r1, r2)

\* ExchangeRate::chain.  The four cases are tried in this order.
Chain(r1, r2) ==
  IF r1 = Fail \/ r2 = Fail THEN Fail
  ELSE CASE r1.source = r2.source ->
              Derived(r1.target, r2.target, r2.rate - r1.rate, r1, r2)
         [] r1.source # r2.source /\ r1.source = r2.target ->
              Derived(r1.target, r2.source, -(r1.rate + r2.rate), r1, r2)
         [] r1.source \notin {r2.source, r2.target} /\ r1.target = r2.source ->
              Derived(r1.source, r2.target, r1.rate + r2.rate, r1, r2)
         [] r1.source \notin {r2.source, r2.target} /\ r1.target # r2.source
            /\ r1.target = r2.target ->
              Derived(r1.source, r2.source, r1.rate - r2.rate, r1, r2)
         [] OTHER -> Fail

\* ExchangeRateManager::smartLookup from c, with what is forbidden, where smart
\* is what it returns where more is forbidden.  A failed branch is discarded,
\* and what it had forbidden with it; pairs are tried in the order of their
\* keys, which for one source is that of the other currency's code.
Search(smart, c, forbidden, target, d) ==
  LET direct == Fetch(c, target, d)
      barred == forbidden \cup {c}
      ways   == {o \in Currency \ barred :
                   Fetch(c, o, d) # Fail /\ smart[<<o, barred>>] # Fail}
  IN  IF direct # Fail THEN direct
      ELSE IF ways = {} THEN Fail
      ELSE LET o == CHOOSE w \in ways : \A x \in ways : w <= x
           IN  Chain(Fetch(c, o, d), smart[<<o, barred>>])

SmartLookup(source, target, d) ==
  LET smart[q \in Currency \X SUBSET Currency] == Search(smart, q[1], q[2], target, d)
  IN  smart[<<source, {}>>]

\* ExchangeRateManager::lookup, with type Derived, where look is what it returns
\* between links.  A currency that has a triangulation currency is exchanged
\* through it.
LookFor(look, s, t, d) ==
  LET toLink(c) == Fetch(c, Linked[c], d)
  IN  IF s = t THEN Direct(s, t, 0)
      ELSE IF Linked[s] # None
        THEN IF Linked[s] = t THEN toLink(s) ELSE Chain(toLink(s), look[<<Linked[s], t>>])
      ELSE IF Linked[t] # None
        THEN IF Linked[t] = s THEN toLink(t) ELSE Chain(look[<<s, Linked[t]>>], toLink(t))
      ELSE SmartLookup(s, t, d)

Lookup(source, target, d) ==
  LET look[p \in Currency \X Currency] == LookFor(look, p[1], p[2], d)
  IN  look[<<source, target>>]

Money == [currency : Currency \cup {None}, value : Int]
NoMoney == [currency |-> None, value |-> 0]

\* Rates that are chains of chains, to depth n.
RateAt[n \in Nat] ==
  LET direct == [type : {"Direct"}, source : Currency, target : Currency, rate : Int]
  IN  IF n = 0 THEN direct
      ELSE LET part == RateAt[n - 1]
           IN  direct \cup [type : {"Derived"}, source : Currency, target : Currency,
                             rate : Int, first : part, second : part]

\* No chain that lookup makes is deeper: smartLookup passes each currency once,
\* and a link is added at either end.
MaxDepth == Cardinality(Currency) + 2

Amount(c, v) == [currency |-> c, value |-> v]

\* ExchangeRate::exchange by rate r, where by is what it does by the two rates
\* that r is made of.  NoMoney stands for the exception, which goes through the
\* calls that are open.
Exchanged(by, r, m) ==
  CASE r.type = "Direct" /\ m.currency = r.source ->
         Amount(r.target, m.value + r.rate)
    [] r.type = "Direct" /\ m.currency = r.target /\ r.target # r.source ->
         Amount(r.source, m.value - r.rate)
    [] r.type = "Derived" /\ m.currency \in {r.first.source, r.first.target} ->
         by[<<r.second, by[<<r.first, m>>]>>]
    [] r.type = "Derived" /\ m.currency \notin {r.first.source, r.first.target}
       /\ m.currency \in {r.second.source, r.second.target} ->
         by[<<r.first, by[<<r.second, m>>]>>]
    [] OTHER -> NoMoney

Exchange(rate, money) ==
  LET by[x \in RateAt[MaxDepth] \X Money] == Exchanged(by, x[1], x[2])
  IN  by[<<rate, money>>]

-----------------------------------------------------------------------------
Plain == {c \in Currency : Linked[c] = None}

(***************************************************************************)
(* Between currencies without a triangulation currency, lookup prefers a   *)
(* direct rate, and of those valid at the date the latest one added.       *)
(***************************************************************************)
LatestPreferred ==
  \A s, t \in Plain, d \in Date :
    LET fit == {k \in 1 .. Len(added) :
                  Of(added[k]) = {s, t} /\ ValidAt(added[k], d)}
    IN  s # t /\ fit # {} =>
          Lookup(s, t, d) = added[CHOOSE k \in fit : \A j \in fit : j <= k].rate

\* The currencies that rates valid on date d connect with c, in any number:
\* those in every set that has c and that no such rate leads out of.
Connected(c, d) ==
  LET links == {Of(added[k]) : k \in {j \in 1 .. Len(added) : ValidAt(added[j], d)}}
      around == {S \in SUBSET Currency :
                   c \in S /\ \A p \in links : p \cap S # {} => p \subseteq S}
  IN  {b \in Currency : \A S \in around : b \in S}

(***************************************************************************)
(* lookup finds a rate whenever any chain of valid rates leads from one    *)
(* currency to the other, and only then, whatever dead ends the search     *)
(* runs into.  A triangulated currency needs a rate to its link.           *)
(***************************************************************************)
FindsAChain ==
  \A s \in Currency, d \in Date :
    LET via(c) == IF Linked[c] = None THEN c ELSE Linked[c]
        linked(c) == Linked[c] = None \/ Fetch(c, Linked[c], d) # Fail
        near == Connected(via(s), d)
    IN  \A t \in Currency :
          (Lookup(s, t, d) # Fail) <=>
            s = t \/ (linked(s) /\ linked(t) /\ via(t) \in near)

(***************************************************************************)
(* The rate found is one between the two currencies; exchanging an amount  *)
(* by it, link by link, multiplies by what rate() says, and exchanging     *)
(* back gives the amount again.                                            *)
(***************************************************************************)
RateIsExchange ==
  \A s, t \in Currency, d \in Date :
    LET r == Lookup(s, t, d)
        m == Amount(s, 0)
    IN  r # Fail /\ s # t =>
          /\ {r.source, r.target} = {s, t}
          /\ Exchange(r, m) = Amount(t, IF r.source = s THEN r.rate ELSE -r.rate)
          /\ Exchange(r, Exchange(r, m)) = m
=============================================================================
