------------------------------ MODULE Workflow ------------------------------
(***************************************************************************)
(* What the callers of the compiled graph may rely on: a run is completed,  *)
(* failed or cancelled, exactly once; completed means that the final node   *)
(* returned; and whatever the outcome, it is handed over only when nothing  *)
(* the run started is still working, with nothing started once it was       *)
(* decided to stop.                                                         *)
(***************************************************************************)
CONSTANTS
  Nodes,   \* the nodes that do work
  Final    \* the node whose result is the workflow's

VARIABLES
  active,     \* nodes at work
  returned,   \* nodes that returned
  outcome,    \* "none" until decided
  over        \* the caller has the outcome

vars == <<active, returned, outcome, over>>

Init ==
  /\ active = {}
  /\ returned = {}
  /\ outcome = "none"
  /\ over = FALSE

Start(n) ==
  /\ outcome = "none"
  /\ n \notin active \cup returned
  /\ active' = active \cup {n}
  /\ UNCHANGED <<returned, outcome, over>>

Return(n) ==
  /\ n \in active
  /\ active' = active \ {n}
  /\ returned' = returned \cup {n}
  /\ UNCHANGED <<outcome, over>>

Abort(n) ==
  /\ n \in active
  /\ active' = active \ {n}
  /\ UNCHANGED <<returned, outcome, over>>

Stop ==
  /\ outcome = "none"
  /\ outcome' \in {"failed", "cancelled"}
  /\ UNCHANGED <<active, returned, over>>

HandOver ==
  /\ outcome # "none" /\ ~over
  /\ active = {}
  /\ over' = TRUE
  /\ UNCHANGED <<active, returned, outcome>>

Complete ==
  /\ outcome = "none"
  /\ active = {}
  /\ Final \in returned
  /\ outcome' = "completed"
  /\ over' = TRUE
  /\ UNCHANGED <<active, returned>>

Next ==
  \/ \E n \in Nodes : Start(n) \/ Return(n) \/ Abort(n)
  \/ Stop \/ HandOver \/ Complete

Spec == Init /\ [][Next]_vars /\ WF_vars(HandOver)
=============================================================================
