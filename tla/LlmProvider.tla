----------------------------- MODULE LlmProvider -----------------------------
(***************************************************************************)
(* What an agent's run may rely on when it awaits a provider: each call     *)
(* ends, with generated text, one of the application's LLM errors, some     *)
(* other exception, or its cancellation.  The agent asks again only on top  *)
(* of a text, and AgentRun is written against this.                         *)
(***************************************************************************)
EXTENDS Naturals

CONSTANTS
  Agents,    \* the agents that share the provider
  MaxCalls   \* calls of one agent's run

VARIABLES
  status,    \* how each agent's latest call stands
  calls      \* calls each agent has made

vars == <<status, calls>>

Endings == {"text", "llm_error", "error", "cancelled"}

Init ==
  /\ status = [a \in Agents |-> "idle"]
  /\ calls = [a \in Agents |-> 0]

Ask(a) ==
  /\ status[a] \in {"idle", "text"}
  /\ calls[a] < MaxCalls
  /\ status' = [status EXCEPT ![a] = "open"]
  /\ calls' = [calls EXCEPT ![a] = @ + 1]

End(a) ==
  /\ status[a] = "open"
  /\ \E e \in Endings : status' = [status EXCEPT ![a] = e]
  /\ UNCHANGED calls

Next == \E a \in Agents : Ask(a) \/ End(a)

Spec == Init /\ [][Next]_vars /\ \A a \in Agents : WF_vars(End(a))
=============================================================================
