---------------------------- MODULE MCLldpTables ----------------------------
(***************************************************************************)
(* Instances of LldpTables for TLC: two ports and two peers.  The plain    *)
(* peer announces neither a management address nor a station name, and its *)
(* port identifier is too long, but not the subtype of it: a walk that     *)
(* meets it ends there, one that meets the full peer or none goes through  *)
(* all tables.                                                             *)
(***************************************************************************)
EXTENDS LldpWalk, TLC

CONSTANTS full, plain, local

MCOffers ==
  (full :> Attribute) @@ (local :> Attribute)
    @@ (plain :> Attribute \ {"management_address", "station_name"})

MCOversized ==
  (full :> {}) @@ (local :> {}) @@ (plain :> {"port_id"})

MCAddress == (full :> <<1, 2>>) @@ (local :> <<1, 1>>) @@ (plain :> <<1>>)

=============================================================================
