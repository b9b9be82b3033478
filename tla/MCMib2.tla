------------------------------- MODULE MCMib2 -------------------------------
(***************************************************************************)
(* Instances of Mib2 for TLC: strings of at most two characters, three     *)
(* octets with the terminator.  The manager sends a string that just fits, *)
(* one with a terminator inside and one that is too long; one variable at  *)
(* a time, or two of a few that succeed or fail.                           *)
(***************************************************************************)
EXTENDS Mib2

CONSTANTS a, b

MCOctets == {<<a, b>>, <<a, b, a>>, <<b, Nul>>}
MCTexts == {<<a, a>>}

Several ==
  {[name |-> sysName, value |-> <<a, b>>],
   [name |-> sysName, value |-> <<a, b, a>>],
   [name |-> sysLocation, value |-> <<a, b>>],
   [name |-> ifAdminStatus(1), value |-> Down],
   [name |-> ifAdminStatus(1), value |-> Testing]}

MCRequests == {<<v>> : v \in Varbind} \cup {<<v, w>> : v, w \in Several}

=============================================================================
