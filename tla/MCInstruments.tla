---------------------------- MODULE MCInstruments ----------------------------
EXTENDS Instruments
CONSTANTS bond, option, shared, curve, NoEngine

\* Bound: nothing is explored after a change that nobody is told of.
Announced == announced

\* The option is expired on day 2; the bond only when day 3 is a date.
MCExpiry == [i \in {bond, option} |-> IF i = bond THEN 3 ELSE 2]
MCEngines == [i \in {bond, option} |-> IF i = bond THEN {shared} ELSE {shared, curve, NoEngine}]
MCEstimates == {<<shared, option>>}
=============================================================================
