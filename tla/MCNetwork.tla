----------------------------- MODULE MCNetwork -----------------------------
(***************************************************************************)
(* Instances of Network for TLC: two addresses and two netmasks, so that   *)
(* stored and configured settings differ, and two events under way.        *)
(***************************************************************************)
EXTENDS Network

CONSTANTS a1, a2, m1, m2, g1

MCStored == [ip |-> a1, mask |-> m1, gw |-> g1]
MCConfigured == [ip |-> a2, mask |-> m2, gw |-> g1]

=============================================================================
