----------------------------- MODULE MCPnalFile -----------------------------
(***************************************************************************)
(* Instances of PnalFile for TLC: two tasks, two versions, and memory for  *)
(* a stream of each.                                                       *)
(***************************************************************************)
EXTENDS PnalFile, TLC

Symmetry == Permutations(Task) \cup Permutations(Version)

=============================================================================
