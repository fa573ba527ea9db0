------------------------------- MODULE MCRamRace -------------------------------
(***************************************************************************)
(* An instance of RamRace for TLC: two directories, so that two processes  *)
(* may change the list at once, with a file in each at the start.           *)
(***************************************************************************)
EXTENDS RamRace, TLC

Dirs     == {1000, 1001}
OldFiles == {<<1000, "a">>, <<1001, "a">>}
Addrs    == 1..8
Symmetry == Permutations(Proc)
=============================================================================
