---------------------------- MODULE AgentContract ----------------------------
(***************************************************************************)
(* What a caller of an agent's  run  may rely on, whatever the audit,       *)
(* tracking, tracing and metrics backends do: a bounded number of provider  *)
(* calls, no call after the outcome is settled, a result only after a call, *)
(* and exactly one delivery of the outcome that was settled first.          *)
(***************************************************************************)
EXTENDS Naturals

CONSTANTS
  MaxAttempts,   \* provider calls a run may make
  Errors         \* the exceptions a run may end with

VARIABLES
  phase,   \* "working", "settled" (reporting the outcome) or "delivered"
  error,   \* the exception the run ends with, "none" while there is none
  calls    \* provider calls made

vars == <<phase, error, calls>>

Init ==
  /\ phase = "working"
  /\ error = "none"
  /\ calls = 0

CallProvider ==
  /\ phase = "working"
  /\ calls < MaxAttempts
  /\ calls' = calls + 1
  /\ UNCHANGED <<phase, error>>

Succeed ==
  /\ phase = "working"
  /\ calls > 0
  /\ phase' = "settled"
  /\ UNCHANGED <<error, calls>>

(* A failure is settled and then reported, or, when the run could not even  *)
(* be opened, handed over at once.                                          *)
Fail ==
  /\ phase = "working"
  /\ phase' \in {"settled", "delivered"}
  /\ error' \in Errors
  /\ UNCHANGED calls

Deliver ==
  /\ phase = "settled"
  /\ phase' = "delivered"
  /\ UNCHANGED <<error, calls>>

Next == CallProvider \/ Succeed \/ Fail \/ Deliver

Spec == Init /\ [][Next]_vars /\ WF_vars(Next)
=============================================================================
