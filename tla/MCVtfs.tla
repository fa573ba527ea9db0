-------------------------------- MODULE MCVtfs --------------------------------
(***************************************************************************)
(* Instances of the handlers for TLC: the names model has no data, the     *)
(* data model one file and writes that fail, fault and go past the end.     *)
(***************************************************************************)
EXTENDS Vtfs

OneIno   == 1001..1001
TwoInos  == 1001..1002
Symmetry == Permutations(Name)
Buffers  == {<<>>, <<0>>, <<0, 0>>}   \* only lengths matter to these properties
MCSeekTo == {-1, 1}
=============================================================================
