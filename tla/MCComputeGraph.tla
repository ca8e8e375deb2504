---------------------------- MODULE MCComputeGraph ----------------------------
(* Instances of ComputeGraph for TLC. *)
EXTENDS ComputeGraph, TLC

CONSTANTS t1, t2, t3

Two   == {t1, t2}
Three == {t1, t2, t3}

OneLayer  == {-1}
TwoLayers == {-1, 0}

AddOnly == {<<"ADD", "ACTIVATION">>}
AddAndWeight == {<<"ADD", "ACTIVATION">>, <<"NONE", "WEIGHT">>}

TensorSymmetry == Permutations(Tensor)
=============================================================================
