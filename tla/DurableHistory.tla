--------------------------- MODULE DurableHistory ---------------------------
(***************************************************************************)
(* What the event history promises, with no processes, locks or calls: a   *)
(* table of events that only grows, a file that lags behind it, and a      *)
(* verdict on the file.  Each operation sees the table as it is, as if no  *)
(* other were under way.  EventProjection implements it.                   *)
(*                                                                         *)
(* An event is its projection_order, so the table is 1 .. committed.       *)
(***************************************************************************)
EXTENDS Integers, Sequences

CONSTANT MaxEvents

VARIABLES
  committed,  \* number of events
  log,        \* the lines of the file
  health      \* the last verdict on the file

data == <<committed, log, health>>

Whole == [i \in 1 .. committed |-> i]

Init == committed = 0 /\ log = <<>> /\ health = "HEALTHY"

Record ==
  /\ committed < MaxEvents
  /\ committed' = committed + 1
  /\ UNCHANGED <<log, health>>

\* The newest event goes behind the lines of earlier ones, or it never goes into the file this way.
Project ==
  /\ \A i \in DOMAIN log : log[i] < committed
  /\ log' = Append(log, committed)
  /\ UNCHANGED <<committed, health>>

Rebuild ==
  /\ log' = Whole
  /\ UNCHANGED <<committed, health>>

\* Only a look at the whole history finds the file healthy.
Judge ==
  /\ health' = IF log = Whole THEN "HEALTHY" ELSE "DEGRADED"
  /\ UNCHANGED <<committed, log>>

Suspect ==
  /\ health' = "DEGRADED"
  /\ UNCHANGED <<committed, log>>

Next == Record \/ Project \/ Rebuild \/ Judge \/ Suspect

Spec == Init /\ [][Next]_data
=============================================================================
