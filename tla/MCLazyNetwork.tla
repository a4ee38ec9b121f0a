--------------------------- MODULE MCLazyNetwork ---------------------------
(* Small networks of quotes, links, lazy objects and readers. *)
EXTENDS LazyNetwork, FiniteSetsExt, TLC

CONSTANTS q1, q2, link, curve, bond, cell

(***************************************************************************)
(* A diamond: bond reads quote q1 both directly and through curve, so q1   *)
(* notifies it twice; cell reads both lazy objects in its update().        *)
(***************************************************************************)
DiamondReads ==
  curve :> {q1, link} @@ bond :> {q1, curve} @@ cell :> {bond, curve}

DiamondTargets == link :> {q2}

\* Two curves behind one link: relinking swaps whole cached subtrees.
ChainReads ==
  curve :> {q1} @@ bond :> {link} @@ cell :> {bond}

ChainTargets == link :> {q2, curve}

ObjectRank ==
  q1 :> 0 @@ q2 :> 0 @@ curve :> 2 @@ link :> 3 @@ bond :> 4 @@ cell :> 5

DiamondRank == [ObjectRank EXCEPT ![link] = 1]

\* Parity of the inputs; a curve whose inputs are all 1 cannot be built.
Parity(n, s) ==
  LET total == MapThenSumSet(LAMBDA d : s[d], Reads[n]) IN
  IF n = curve /\ \A d \in Reads[n] : s[d] = 1 THEN Null ELSE total % 2

=============================================================================
