----------------------------- MODULE MCRamStorage -----------------------------
(***************************************************************************)
(* Instances of the RAM storage for TLC.  The names model has no writes    *)
(* and every shape of the tree that three inode numbers and two names      *)
(* make; the data model has one file and every write that fits LOFF_MAX.   *)
(***************************************************************************)
EXTENDS RamImplementsFs

CONSTANTS Bytes, BufferLens   \* byte values and lengths of the buffers written

MCBuffer == UNION {[1..n -> Bytes] : n \in BufferLens}
NamesIno == 1001..1003
DataIno  == 1001..1001
Symmetry == Permutations(Name)
=============================================================================
