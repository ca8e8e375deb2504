------------------------------ MODULE MCOpFactory ------------------------------
(* Instances of OpFactory for TLC. *)
EXTENDS OpFactory, TLC

SomeInputs  == {<<6>>, <<-1, 4>>, <<2, 3>>, <<2, 2, 2, 2>>, <<1, 4, 2, 2>>,
                <<1, 1, 1, 1, 1>>}
SomeWeights == {<<4, 6>>, <<2, 4>>}
SomeShapes  == {<<-1>>, <<2, -1>>, <<4, -1>>, <<-1, -1, 2>>, <<2, 3>>, <<4, 2, 2>>}
SomePerms   == {<<1, 0>>, <<2, 0, 1>>, <<0, 2, 1, 3>>}
SomeSizes   == {1, 2}
=============================================================================
