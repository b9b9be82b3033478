------------------------------ MODULE LldpWalk ------------------------------
(***************************************************************************)
(* A walk as a whole: the requests of LldpTables from the one that starts  *)
(* a walk to the one that finds no further cell, and what they have        *)
(* answered.  What a single request promises is stated there.              *)
(***************************************************************************)
EXTENDS LldpTables

VARIABLES
  steady,   \* history: a walk goes on, and no peer has changed since it began
  start,    \* history: the request that started it
  visited   \* history: the cells that have been answered since

walkVars == <<steady, start, visited>>

WalkInit == Init /\ steady = FALSE /\ start = NoRequest /\ visited = {}

\* The manager begins a walk.
Begin(t) ==
  /\ StartWalk(t)
  /\ steady' = TRUE
  /\ start' = req'
  /\ visited' = {}

\* A peer changes, or the manager turns to something else.
Forget ==
  /\ \/ Stack
     \/ \E t \in Table : \E c \in DOMAIN Columns[t] : GetCell(t, c)
  /\ steady' = FALSE
  /\ start' = NoRequest
  /\ visited' = {}

\* A request is answered.
Visit ==
  /\ ReadValue
  /\ visited' = IF steady /\ answer'.status = "value"
                THEN visited \cup {[table |-> table, column |-> column, row |-> row]}
                ELSE visited
  /\ UNCHANGED <<steady, start>>

\* The manager asks for the next cell, and the server looks for it.
GoOn ==
  /\ \/ ContinueWalk
     \/ ScanLocal \/ ScanRemoteDevice \/ ScanRemoteInterface \/ ScanAddress
     \/ NoValue \/ NextColumn \/ NextTable \/ NoSuchInstance
  /\ UNCHANGED walkVars

WalkNext ==
  \/ \E t \in Table : Begin(t)
  \/ Forget \/ Visit \/ GoOn

WalkSpec == WalkInit /\ [][WalkNext]_<<vars, walkVars>>

-----------------------------------------------------------------------------

\* The cells that a walk from there can see.
Visible(from) == {cell \in Cell : CellLess(from, cell) /\ ~ Hidden(from, cell)}

(* While the peers stay, a walk answers every cell between its start and   *)
(* the place it has reached, and to the end of the last table when nothing *)
(* further is found: rows, columns and tables are neither skipped nor      *)
(* answered out of turn, and the only cells left out are those hidden      *)
(* behind one that has no value.                                           *)
WalkComplete ==
  steady /\ pc = "idle" =>
    /\ answer.status = "value" =>
         visited = {cell \in Visible(start) : ~ CellLess(answer, cell)}
    /\ answer.status = "noSuchInstance" => visited = Visible(start)

=============================================================================
