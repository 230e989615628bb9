---------------------------- MODULE MCTinyShell ----------------------------
(***************************************************************************)
(* Small instances of TinyShell.  Process IDs are interchangeable: the     *)
(* shell compares them for equality only.                                  *)
(***************************************************************************)
EXTENDS TinyShell, TLC

Symmetry == Permutations(Pids)
=============================================================================
