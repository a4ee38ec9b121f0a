------------------------- MODULE MCObserverPattern -------------------------
(* Two observables, three addresses, loops within loops. *)
EXTENDS ObserverPattern, TLC

Interchangeable == Permutations(Observable)
=============================================================================
