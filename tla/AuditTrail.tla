----------------------------- MODULE AuditTrail -----------------------------
(***************************************************************************)
(* What AuditLogger promises the agents: the trail a reader finds grows by  *)
(* one event at its end for each append and is never rewritten.  An append  *)
(* returns only when its event is in the trail; one that raises may have    *)
(* left it behind, and none puts its event there a second time.  An agent   *)
(* waits for its append, so it sees an append that returns as AgentRun's    *)
(* Persisted and one that raises as its Rejected.                           *)
(***************************************************************************)
EXTENDS Naturals, Sequences

CONSTANT Loggers   \* one per workflow execution

VARIABLES
  phase,      \* what each logger's append has come to
  made,       \* appends each logger has begun; they number its events
  trail,      \* the events of each logger in reading order
  returned,   \* its appends that returned
  raised      \* its appends that raised

vars == <<phase, made, trail, returned, raised>>

Init ==
  /\ phase = [l \in Loggers |-> "idle"]
  /\ made = [l \in Loggers |-> 0]
  /\ trail = [l \in Loggers |-> <<>>]
  /\ returned = [l \in Loggers |-> 0]
  /\ raised = [l \in Loggers |-> 0]

Begin(l) ==
  /\ phase[l] = "idle"
  /\ phase' = [phase EXCEPT ![l] = "open"]
  /\ made' = [made EXCEPT ![l] = @ + 1]
  /\ UNCHANGED <<trail, returned, raised>>

Write(l) ==
  /\ phase[l] = "open"
  /\ phase' = [phase EXCEPT ![l] = "written"]
  /\ trail' = [trail EXCEPT ![l] = Append(@, made[l])]
  /\ UNCHANGED <<made, returned, raised>>

Return(l) ==
  /\ phase[l] = "written"
  /\ phase' = [phase EXCEPT ![l] = "idle"]
  /\ returned' = [returned EXCEPT ![l] = @ + 1]
  /\ UNCHANGED <<made, trail, raised>>

Raise(l) ==
  /\ phase[l] \in {"open", "written"}
  /\ phase' = [phase EXCEPT ![l] = "idle"]
  /\ raised' = [raised EXCEPT ![l] = @ + 1]
  /\ UNCHANGED <<made, trail, returned>>

(* The process ends, wherever the append is. *)
Die(l) ==
  /\ phase[l] # "dead"
  /\ phase' = [phase EXCEPT ![l] = "dead"]
  /\ UNCHANGED <<made, trail, returned, raised>>

Next == \E l \in Loggers : Begin(l) \/ Write(l) \/ Return(l) \/ Raise(l) \/ Die(l)

Spec == Init /\ [][Next]_vars
=============================================================================
