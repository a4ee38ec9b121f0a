-------------------------- MODULE MCExchangeRates --------------------------
EXTENDS ExchangeRates

\* Currency 5 was replaced by currency 1, at a rate known from date 2 on; the
\* other known rate makes chains of three, and dead ends, of two that are added.
MCLinked == [c \in Currency |-> IF c = 5 THEN 1 ELSE None]
MCKnown == << [rate |-> Direct(1, 5, 5), start |-> 2, end |-> 2],
              [rate |-> Direct(3, 2, 1), start |-> 1, end |-> 2] >>
=============================================================================
