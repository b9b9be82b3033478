------------------------------- MODULE MCShell -------------------------------
(***************************************************************************)
(* Instances of Shell for TLC: a command line of two characters and its    *)
(* terminator, long enough to be full, erased and recalled.                *)
(***************************************************************************)
EXTENDS Shell

\* everything a user may type
AllTyped == Char

=============================================================================
