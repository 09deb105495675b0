---------------------------- MODULE CompanyGraph ----------------------------
(***************************************************************************)
(* One execution of the company workflow: the compiled graph, the five      *)
(* agents it runs, the experiment tracker they share, and the client that   *)
(* may go away.                                                             *)
(*                                                                         *)
(* Everything runs on one event loop, so a step of an agent is what its     *)
(* coroutine does between two suspensions: from its creation to the first   *)
(* await of the provider, from one answer to the next request, or to its    *)
(* end.  AgentRun describes the inside of those steps; here only what the   *)
(* other parties see of them remains.                                       *)
(***************************************************************************)
EXTENDS Integers, Sequences

CONSTANTS
  MaxAttempts,   \* MAX_VALIDATION_ATTEMPTS of the agents
  MayOmit,       \* specialist nodes that may return without their result
  Faults         \* what may go wrong

Specialists == {"finance", "marketing", "data_scientist"}
Agents      == Specialists \cup {"report", "ceo"}

(* agent: a run raises.  tracking: the MLflow adapter raises.  disconnect:  *)
(* the client goes away and the graph's task is cancelled.                  *)
AllFaults == {"agent", "tracking", "disconnect"}

ASSUME AttemptsAssumption == MaxAttempts \in Nat \ {0}
ASSUME OmitAssumption     == MayOmit \subseteq Specialists
ASSUME FaultsAssumption   == Faults \subseteq AllFaults

VARIABLES
  faults,    \* what may go wrong in this execution; never changes
  step,      \* the superstep under way
  task,      \* each agent's task
  calls,     \* provider calls issued by each agent
  results,   \* the result fields present in CompanyState
  writes,    \* results returned in this superstep and not merged yet
  errors,    \* CompanyState.errors: the unavailable sections of each summary
  stop,      \* why the runner stops the run, "none" while it does not
  answer,    \* what the caller got
  parent,    \* the tracker's workflow run
  child      \* the tracker's run of each agent

state   == <<results, errors>>
tracker == <<parent, child>>
vars    == <<faults, step, task, calls, state, writes, stop, answer, tracker>>

(* Next to some definitions stands a mutated form of it, named for the slip *)
(* it makes; the specification never uses those.                            *)

(* The agents at work in a superstep.  The router and the error summary run *)
(* no agent.                                                                *)
AgentsOf(s) ==
  CASE s = "specialists" -> Specialists
    [] s \in {"report", "ceo"} -> {s}
    [] OTHER -> {}

Running == stop = "none" /\ answer = "none"
Unsettled == {n \in Agents : task[n] \in {"ready", "awaiting"}}

Init ==
  /\ faults \in SUBSET Faults
  /\ step = "specialists"
  /\ task = [n \in Agents |-> IF n \in Specialists THEN "ready" ELSE "idle"]
  /\ calls = [n \in Agents |-> 0]
  /\ results = {} /\ writes = {} /\ errors = <<>>
  /\ stop = "none" /\ answer = "none"
  /\ parent = "none"
  /\ child = [n \in Agents |-> "none"]

-----------------------------------------------------------------------------
(* The tracker *)

(* start_run: the workflow run is created with the first agent's run. *)
Root == IF parent = "none" THEN "open" ELSE parent

StartTracked(n) ==
  /\ parent' = Root
  /\ child' = [child EXCEPT ![n] = "open"]

(* start_run raises, possibly after it created the workflow run. *)
StartUntracked ==
  /\ "tracking" \in faults
  /\ parent' \in {parent, Root}
  /\ UNCHANGED child

(* How an agent's finally block may leave its run, and the workflow run     *)
(* root: end_run closes the latter when the agent is the one marked         *)
(* closes_workflow.  An exception on the way is logged and what is not      *)
(* closed yet stays open.                                                   *)
ClosesEarly(n) == n \in {"report", "ceo"}
Closes(n) == n = "ceo"

Endings(n, status, root) ==
  {[run |-> status, root |-> IF Closes(n) THEN status ELSE root]} \cup
  (IF "tracking" \in faults
     THEN {[run |-> "open", root |-> root], [run |-> status, root |-> root]}
     ELSE {})

EndTracked(n, status, root) ==
  \E e \in Endings(n, status, root) :
    /\ child' = [child EXCEPT ![n] = e.run]
    /\ parent' = e.root

-----------------------------------------------------------------------------
(* The agents *)

Becomes(n, status) == task' = [task EXCEPT ![n] = status]
CallProvider(n) == calls' = [calls EXCEPT ![n] = @ + 1]

(* A task's first step: up to the first request, or an exception before it, *)
(* raised before, by or after start_run.                                    *)
Begin(n) ==
  /\ Running
  /\ task[n] = "ready"
  /\ \/ Becomes(n, "awaiting") /\ CallProvider(n) /\ StartTracked(n)
     \/ /\ Becomes(n, "failed")
        /\ UNCHANGED calls
        /\ \/ "agent" \in faults /\ UNCHANGED tracker
           \/ StartUntracked
           \/ "agent" \in faults /\ EndTracked(n, "FAILED", Root)
  /\ UNCHANGED <<faults, step, state, writes, stop, answer>>

(* The provider's answer resumes the agent: it asks for a correction, or    *)
(* returns, or raises.                                                      *)
ResumeUnbounded(n) ==
  /\ Running
  /\ task[n] = "awaiting"
  /\ \/ CallProvider(n) /\ UNCHANGED <<task, writes, tracker>>
     \/ /\ Becomes(n, "returned")
        /\ writes' = writes \cup {n}
        /\ EndTracked(n, "FINISHED", parent)
        /\ UNCHANGED calls
  /\ UNCHANGED <<faults, step, state, stop, answer>>

Resume(n) ==
  /\ Running
  /\ task[n] = "awaiting"
  /\ \/ /\ calls[n] < MaxAttempts
        /\ CallProvider(n)
        /\ UNCHANGED <<task, writes, tracker>>
     \/ /\ Becomes(n, "returned")
        /\ writes' \in {writes \cup {n}} \cup
                       (IF n \in MayOmit THEN {writes} ELSE {})
        /\ EndTracked(n, "FINISHED", parent)
        /\ UNCHANGED calls
     \/ /\ faults \cap {"agent", "tracking"} # {}
        /\ Becomes(n, "failed")
        /\ EndTracked(n, "FAILED", parent)
        /\ UNCHANGED <<calls, writes>>
  /\ UNCHANGED <<faults, step, state, stop, answer>>

(* A cancelled task: one that never ran does not run; one that awaits its   *)
(* provider runs its finally block.                                         *)
UnwindSwallowed(n) ==
  /\ stop # "none"
  /\ \/ task[n] = "ready" /\ Becomes(n, "cancelled") /\ UNCHANGED tracker
     \/ task[n] = "awaiting" /\ UNCHANGED task /\ EndTracked(n, "FAILED", parent)
  /\ UNCHANGED <<faults, step, calls, state, writes, stop, answer>>

Unwind(n) ==
  /\ stop # "none"
  /\ \/ task[n] = "ready" /\ UNCHANGED tracker
     \/ task[n] = "awaiting" /\ EndTracked(n, "FAILED", parent)
  /\ Becomes(n, "cancelled")
  /\ UNCHANGED <<faults, step, calls, state, writes, stop, answer>>

-----------------------------------------------------------------------------
(* The graph *)

(* The next superstep begins: its agents' tasks are created. *)
Advance(s) ==
  /\ step' = s
  /\ task' = [n \in Agents |-> IF n \in AgentsOf(s) THEN "ready" ELSE task[n]]

(* All branches returned: the superstep's updates are merged into the state *)
(* at once and the join edge releases the router.                           *)
JoinEagerly ==
  /\ Running
  /\ step = "specialists"
  /\ writes # {}
  /\ results' = results \cup writes
  /\ writes' = {}
  /\ UNCHANGED <<faults, step, task, calls, errors, stop, answer, tracker>>

JoinSettled ==
  /\ Running
  /\ step = "specialists"
  /\ \A n \in Specialists : task[n] \in {"returned", "failed"}
  /\ results' = results \cup writes
  /\ writes' = {}
  /\ Advance("router")
  /\ UNCHANGED <<faults, calls, errors, stop, answer, tracker>>

JoinSpecialists ==
  /\ Running
  /\ step = "specialists"
  /\ \A n \in Specialists : task[n] = "returned"
  /\ results' = results \cup writes
  /\ writes' = {}
  /\ Advance("router")
  /\ UNCHANGED <<faults, calls, errors, stop, answer, tracker>>

(* The router node changes nothing; route_after_specialists picks the way. *)
RouteOnAny ==
  /\ Running
  /\ step = "router"
  /\ Advance(IF results # {} THEN "report" ELSE "error_summary")
  /\ UNCHANGED <<faults, calls, state, writes, stop, answer, tracker>>

RouteAfterSpecialists ==
  /\ Running
  /\ step = "router"
  /\ Advance(IF Specialists \subseteq results THEN "report" ELSE "error_summary")
  /\ UNCHANGED <<faults, calls, state, writes, stop, answer, tracker>>

(* _error_summary_node names the missing sections. *)
SummarizeErrors ==
  /\ Running
  /\ step = "error_summary"
  /\ errors' = Append(errors, Specialists \ results)
  /\ Advance("ceo")
  /\ UNCHANGED <<faults, calls, results, writes, stop, answer, tracker>>

FinishReport ==
  /\ Running
  /\ step = "report"
  /\ task["report"] = "returned"
  /\ results' = results \cup writes
  /\ writes' = {}
  /\ Advance("ceo")
  /\ UNCHANGED <<faults, calls, errors, stop, answer, tracker>>

(* The CEO's update is merged, the graph ends and the caller has the state. *)
FinishWorkflow ==
  /\ Running
  /\ step = "ceo"
  /\ task["ceo"] = "returned"
  /\ results' = results \cup writes
  /\ writes' = {}
  /\ Advance("end")
  /\ answer' = "completed"
  /\ UNCHANGED <<faults, calls, errors, stop, tracker>>

(* The runner sees a failed task and cancels the others. *)
StopOthers ==
  /\ Running
  /\ \E n \in Agents : task[n] = "failed"
  /\ stop' = "failed"
  /\ UNCHANGED <<faults, step, task, calls, state, writes, answer, tracker>>

(* The client has gone: the cancellation reaches the runner. *)
Disconnect ==
  /\ Running
  /\ "disconnect" \in faults
  /\ stop' = "cancelled"
  /\ UNCHANGED <<faults, step, task, calls, state, writes, answer, tracker>>

(* The executor waits for every task before the exception leaves the graph. *)
ReraiseAtOnce ==
  /\ stop # "none" /\ answer = "none"
  /\ answer' = stop
  /\ UNCHANGED <<faults, step, task, calls, state, writes, stop, tracker>>

Reraise ==
  /\ stop # "none" /\ answer = "none"
  /\ Unsettled = {}
  /\ answer' = stop
  /\ UNCHANGED <<faults, step, task, calls, state, writes, stop, tracker>>

Finished == answer # "none" /\ UNCHANGED vars

-----------------------------------------------------------------------------
AgentStep(n) == Begin(n) \/ Resume(n) \/ Unwind(n)

GraphStep ==
  \/ JoinSpecialists \/ RouteAfterSpecialists \/ SummarizeErrors
  \/ FinishReport \/ FinishWorkflow \/ StopOthers \/ Reraise

Next == (\E n \in Agents : AgentStep(n)) \/ GraphStep \/ Disconnect \/ Finished

(* The event loop runs every task that can run, and the hosted providers'   *)
(* requests time out.  The client need not go away.                         *)
Spec ==
  /\ Init /\ [][Next]_vars
  /\ WF_vars(GraphStep)
  /\ \A n \in Agents : WF_vars(AgentStep(n))
-----------------------------------------------------------------------------
(* Properties *)

TypeOK ==
  /\ faults \subseteq Faults
  /\ step \in {"specialists", "router", "report", "error_summary", "ceo", "end"}
  /\ task \in [Agents -> {"idle", "ready", "awaiting", "returned", "failed",
                          "cancelled"}]
  /\ calls \in [Agents -> 0 .. MaxAttempts]
  /\ results \subseteq Agents
  /\ writes \subseteq AgentsOf(step)
  /\ errors \in Seq(SUBSET Specialists)
  /\ stop \in {"none", "failed", "cancelled"}
  /\ answer \in {"none", "completed", "failed", "cancelled"}
  /\ parent \in {"none", "open", "FINISHED", "FAILED"}
  /\ child \in [Agents -> {"none", "open", "FINISHED", "FAILED"}]

(* Every outcome is earned.  A task that failed or was cancelled holds the  *)
(* workflow in its superstep: whatever its siblings returned, before or     *)
(* after, is thrown away, later agents have cost nothing, and the caller is *)
(* not told of a success.  "failed" is answered only for an agent that      *)
(* failed; "completed" only when every agent asked its provider and         *)
(* returned, save the report that an error summary took the place of.       *)
OutcomeEarned ==
  /\ (\E n \in Agents : task[n] \in {"failed", "cancelled"}) =>
       /\ \A n \in Agents : task[n] \in {"failed", "cancelled"} => n \in AgentsOf(step)
       /\ results \cap AgentsOf(step) = {}
       /\ \A n \in Agents \ AgentsOf(step) : calls[n] > 0 <=> task[n] = "returned"
       /\ answer # "completed"
  /\ answer = "failed" => \E n \in Agents : task[n] = "failed"
  /\ answer = "completed" =>
       \A n \in Agents :
         \/ task[n] = "returned" /\ calls[n] > 0
         \/ n = "report" /\ calls[n] = 0 /\ errors # <<>>

(* The specialists' results enter the shared state together or not at all:  *)
(* a result is visible only when all three branches returned, so a failed   *)
(* or cancelled fan-out leaves nothing behind for a later node.             *)
MergedTogether ==
  results # {} => \A n \in Specialists : task[n] = "returned"

(* What the CEO is given is complete or says what is missing: it runs after *)
(* every specialist returned, behind a report made from all three results,  *)
(* or behind one error summary naming exactly the absent sections, never    *)
(* both.                                                                    *)
CEOKnowsGaps ==
  task["ceo"] # "idle" =>
    /\ \A n \in Specialists : task[n] = "returned"
    /\ IF Specialists \subseteq results
         THEN "report" \in results /\ errors = <<>>
         ELSE task["report"] = "idle" /\ errors = <<Specialists \ results>>

(* The tracker's tree tells how the workflow went.  Its root is closed by   *)
(* the CEO's run alone, with that run's status and behind all specialists;  *)
(* a root FINISHED means that the CEO returned.  While the tracker works,   *)
(* an answered workflow has no open branch and a completed one a root       *)
(* FINISHED; a failing tracker leaves runs open, never wrongly closed.      *)
TrackerTree ==
  /\ parent \in {"FINISHED", "FAILED"} =>
       /\ child["ceo"] = parent
       /\ \A n \in Specialists : task[n] = "returned"
  /\ parent = "FINISHED" => task["ceo"] = "returned" /\ stop # "failed"
  /\ \A n \in Agents :
       /\ child[n] = "FINISHED" => task[n] = "returned"
       /\ child[n] = "FAILED" => task[n] \in {"failed", "cancelled"}
  /\ (answer # "none" /\ "tracking" \notin faults) =>
       /\ \A n \in Agents : child[n] # "open"
       /\ answer = "completed" => parent = "FINISHED"

(* The graph keeps what the API's routes rely on: one outcome, handed over  *)
(* when every agent is at rest, with nothing started once the run stops.    *)
Promise == INSTANCE Workflow WITH
  Nodes    <- Agents,
  Final    <- "ceo",
  active   <- {n \in Agents : task[n] = "awaiting"},
  returned <- {n \in Agents : task[n] = "returned"},
  outcome  <- IF answer # "none" THEN answer ELSE stop,
  over     <- answer # "none"

ImplementsWorkflow == Promise!Spec

(* Every workflow is answered. *)
Answered == <>(answer # "none")

-----------------------------------------------------------------------------
(* What the repository says of the workflow and the code does not do *)

(* README.md: "missing results take the deterministic Error Summary path;   *)
(* CEO receives available sections": a workflow that ends because a         *)
(* specialist has no result has at least reached the CEO.                   *)
GapsReachCEO ==
  (answer = "failed" /\ \E n \in Specialists : task[n] = "failed")
    => task["ceo"] # "idle"
=============================================================================
