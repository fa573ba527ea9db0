------------------------------ MODULE MCReaddir ------------------------------
(***************************************************************************)
(* An instance of Readdir for TLC: two files or directories, hard links,   *)
(* and up to MaxChanges changes of the directory during one scan.          *)
(***************************************************************************)
EXTENDS Readdir

MCIno    == 1001..1002
=============================================================================
