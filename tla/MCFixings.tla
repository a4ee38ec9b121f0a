------------------------------ MODULE MCFixings ------------------------------
EXTENDS Fixings, TLC
CONSTANTS libor, clone

\* Two indexes of one name.
MCNameOf == [i \in {libor, clone} |-> "LIBOR"]

\* One fixing; two that differ; a valid one with one on a holiday.
MCBatches == {<< <<1, "a">> >>, << <<2, "b">>, <<2, "a">> >>, << <<3, "a">>, <<1, "b">> >>}

\* An empty history, and one with a fixing for a holiday, which setHistory takes.
MCHistories == {[d \in Date |-> Null], [d \in Date |-> "a"]}

\* The two indexes have the same name.
Alike == Permutations({libor, clone})
=============================================================================
