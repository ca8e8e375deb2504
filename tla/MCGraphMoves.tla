----------------------------- MODULE MCGraphMoves -----------------------------
(* Instances of GraphMoves for TLC. *)
EXTENDS GraphMoves, TLC

CONSTANTS t1, t2, t3

ThreeTensors == {t1, t2, t3}
TwoOperators == {t1, t2}
TwoLayers    == t1 :> 1 @@ t2 :> 1 @@ t3 :> -1

GraphSymmetry == Permutations(Graph)
=============================================================================
