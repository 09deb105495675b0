------------------------- MODULE CompanyGraphProofs -------------------------
(***************************************************************************)
(* Proofs about CompanyGraph for any number of attempts, any choice of      *)
(* specialists that may return nothing and any faults: the safety of the    *)
(* fan-out, of the routes to the CEO and of the tracker's tree, and that    *)
(* every step of the graph is one that Workflow allows.                     *)
(***************************************************************************)
EXTENDS CompanyGraph, TLAPS

(* A task is between its creation and its end, or stopped short of it, only *)
(* in the superstep of its agent; the tracker follows it.                   *)
TaskInv(n) ==
  /\ task[n] \in {"ready", "awaiting", "failed", "cancelled"} => n \in AgentsOf(step)
  /\ task[n] \in {"idle", "ready"} => calls[n] = 0 /\ child[n] = "none"
  /\ task[n] \in {"awaiting", "returned"} => calls[n] > 0
  /\ child[n] = "FINISHED" => task[n] = "returned"
  /\ child[n] = "FAILED" => task[n] \in {"failed", "cancelled"}
  /\ "tracking" \notin faults /\ child[n] = "open" => task[n] = "awaiting"

AllReturned == \A n \in Specialists : task[n] = "returned"

(* What the graph has done when it is at a superstep *)
OrderInv ==
  /\ step = "specialists" => results = {} /\ errors = <<>>
  /\ step # "specialists" => AllReturned
  /\ step \in {"specialists", "router", "error_summary"} => task["report"] = "idle"
  /\ step \in {"specialists", "router", "error_summary", "report"} => task["ceo"] = "idle"
  /\ step \in {"router", "error_summary"} => errors = <<>>
  /\ step = "error_summary" => ~(Specialists \subseteq results)
  /\ step = "report" =>
       /\ Specialists \subseteq results
       /\ errors = <<>>
       /\ task["report"] = "returned" => "report" \in writes
  /\ step \in {"ceo", "end"} =>
       IF Specialists \subseteq results
         THEN "report" \in results /\ errors = <<>>
         ELSE task["report"] = "idle" /\ errors = <<Specialists \ results>>

(* What is merged, or waits to be, was returned; the state holds nothing    *)
(* yet of the agents of the present superstep.                              *)
MergedInv ==
  /\ \A n \in results \cup writes : task[n] = "returned"
  /\ step \in {"router", "error_summary", "report"} => results \subseteq Specialists
  /\ step = "ceo" => results \subseteq Specialists \cup {"report"}

(* The root of the tracker's tree is closed by the CEO's run alone. *)
RootInv ==
  /\ parent \in {"FINISHED", "FAILED"} => child["ceo"] = parent
  /\ parent = "FINISHED" => stop # "failed"
  /\ "tracking" \notin faults /\ task["ceo"] = "returned" => parent = "FINISHED"

AnswerInv ==
  /\ answer # "none" => Unsettled = {}
  /\ answer = "completed" => stop = "none" /\ step = "end" /\ task["ceo"] = "returned"
  /\ answer \in {"failed", "cancelled"} => answer = stop
  /\ stop = "failed" => \E n \in Agents : task[n] = "failed"

IInv ==
  /\ TypeOK
  /\ \A n \in Agents : TaskInv(n)
  /\ OrderInv
  /\ MergedInv
  /\ RootInv
  /\ AnswerInv

-----------------------------------------------------------------------------
LEMMA InitHolds == Init => IInv
<1> SUFFICES ASSUME Init PROVE IInv
  OBVIOUS
<1> USE DEF Init
<1>1. TypeOK
  BY AttemptsAssumption DEF TypeOK
<1>2. ASSUME NEW n \in Agents PROVE TaskInv(n)
  BY DEF TaskInv, AgentsOf
<1>3. OrderInv
  BY DEF OrderInv, Agents, Specialists
<1>4. MergedInv /\ RootInv /\ AnswerInv
  BY DEF MergedInv, RootInv, AnswerInv, Agents, Specialists
<1> QED
  BY <1>1, <1>2, <1>3, <1>4 DEF IInv

(* The ways a finally block leaves the tracker *)
LEMMA EndingsShape ==
  ASSUME NEW n, NEW status, NEW root, EndTracked(n, status, root)
  PROVE  \E run \in {"open", status} :
           /\ child' = [child EXCEPT ![n] = run]
           /\ parent' = status \/ parent' = root
           /\ n # "ceo" => parent' = root
           /\ "tracking" \notin faults =>
                run = status /\ parent' = (IF n = "ceo" THEN status ELSE root)
           /\ parent' # root => run = status
<1>1. PICK e \in Endings(n, status, root) :
        child' = [child EXCEPT ![n] = e.run] /\ parent' = e.root
  BY DEF EndTracked
<1>2. CASE e = [run |-> status, root |-> IF n = "ceo" THEN status ELSE root]
  BY <1>1, <1>2
<1>3. CASE "tracking" \in faults /\ e = [run |-> "open", root |-> root]
  BY <1>1, <1>3
<1>4. CASE "tracking" \in faults /\ e = [run |-> status, root |-> root]
  BY <1>1, <1>4
<1> QED
  BY <1>1, <1>2, <1>3, <1>4 DEF Endings, Closes

(* What a step of one agent does to the state, whichever step it is *)
LEMMA AgentStepShape ==
  ASSUME IInv, NEW n \in Agents, AgentStep(n)
  PROVE  /\ task[n] \in {"ready", "awaiting"}
         /\ answer = "none"
         /\ n \in AgentsOf(step)
         /\ parent \in {"none", "open"}
         /\ task' \in [Agents -> {"idle", "ready", "awaiting", "returned", "failed", "cancelled"}]
         /\ child' \in [Agents -> {"none", "open", "FINISHED", "FAILED"}]
         /\ \A m \in Agents \ {n} : task'[m] = task[m] /\ child'[m] = child[m] /\ calls'[m] = calls[m]
         /\ task'[n] \in {"awaiting", "returned", "failed", "cancelled"}
         /\ UNCHANGED <<faults, step, results, errors, stop, answer>>
<1> USE DEF IInv, TypeOK
<1>1. task[n] \in {"ready", "awaiting"}
  BY DEF AgentStep, Begin, Resume, Unwind
<1>2. n \in AgentsOf(step)
  BY <1>1 DEF TaskInv
<1>3. answer = "none"
  BY <1>1 DEF AnswerInv, Unsettled
<1>4. parent \in {"none", "open"}
  <2>1. CASE n = "ceo"
    BY <1>1, <2>1 DEF TaskInv, RootInv
  <2>2. CASE n # "ceo"
    <3>1. step \in {"specialists", "report"}
      BY <1>2, <2>2 DEF AgentsOf
    <3>2. task["ceo"] = "idle" /\ TaskInv("ceo")
      BY <3>1 DEF OrderInv, Agents
    <3> QED
      BY <3>2 DEF RootInv, TaskInv
  <2> QED
    BY <2>1, <2>2
<1>5. /\ task' \in [Agents -> {"idle", "ready", "awaiting", "returned", "failed", "cancelled"}]
      /\ task'[n] \in {"awaiting", "returned", "failed", "cancelled"}
      /\ \A m \in Agents \ {n} : task'[m] = task[m] /\ calls'[m] = calls[m]
      /\ UNCHANGED <<faults, step, results, errors, stop, answer>>
  BY DEF AgentStep, Begin, Resume, Unwind, Becomes, CallProvider, state
<1>6. \/ UNCHANGED child
      \/ child' = [child EXCEPT ![n] = "open"]
      \/ \E status \in {"FINISHED", "FAILED"}, root \in {parent, Root} : EndTracked(n, status, root)
  BY DEF AgentStep, Begin, Resume, Unwind, StartTracked, StartUntracked, tracker
<1>7. /\ child' \in [Agents -> {"none", "open", "FINISHED", "FAILED"}]
      /\ \A m \in Agents \ {n} : child'[m] = child[m]
  <2>1. CASE UNCHANGED child \/ child' = [child EXCEPT ![n] = "open"]
    BY <2>1
  <2>2. ASSUME NEW status \in {"FINISHED", "FAILED"}, NEW root, EndTracked(n, status, root)
        PROVE  <1>7
    <3>1. PICK run \in {"open", status} : child' = [child EXCEPT ![n] = run]
      BY <2>2, EndingsShape
    <3> QED
      BY <3>1
  <2> QED
    BY <1>6, <2>1, <2>2
<1> HIDE DEF IInv, TypeOK
<1> QED
  BY <1>1, <1>2, <1>3, <1>4, <1>5, <1>7

(* In the superstep of the CEO, and after it, nobody else is at work. *)
LEMMA AloneAtWork ==
  ASSUME IInv, NEW n \in Agents, task[n] \in {"ready", "awaiting", "failed", "cancelled"}
  PROVE  /\ step \in {"specialists", "report", "ceo"}
         /\ step = "specialists" <=> n \in Specialists
         /\ step = "report" <=> n = "report"
         /\ step = "ceo" <=> n = "ceo"
BY DEF IInv, TaskInv, AgentsOf, Agents, Specialists

LEMMA TypeKept == IInv /\ [Next]_vars => TypeOK'
<1> SUFFICES ASSUME IInv, [Next]_vars PROVE TypeOK'
  OBVIOUS
<1> USE DEF state, tracker
<1>1. ASSUME NEW n \in Agents, AgentStep(n) PROVE TypeOK'
  <2>1. calls' \in [Agents -> 0 .. MaxAttempts]
    <3>1. CASE calls' = calls
      BY <3>1 DEF IInv, TypeOK
    <3>2. CASE CallProvider(n) /\ calls[n] < MaxAttempts
      BY <3>2, AttemptsAssumption DEF CallProvider, IInv, TypeOK
    <3>3. CASE Begin(n)
      BY <3>1, <3>2, <3>3, AttemptsAssumption DEF Begin, IInv, TaskInv
    <3> QED
      BY <1>1, <3>1, <3>2, <3>3 DEF AgentStep, Resume, Unwind
  <2>2. writes' \subseteq AgentsOf(step)
    BY <1>1, AgentStepShape DEF AgentStep, Begin, Resume, Unwind, IInv, TypeOK
  <2>3. parent' \in {"none", "open", "FINISHED", "FAILED"}
    <3>1. \/ parent' \in {parent, Root}
          \/ \E status \in {"FINISHED", "FAILED"}, root \in {parent, Root} : EndTracked(n, status, root)
      BY <1>1 DEF AgentStep, Begin, Resume, Unwind, StartTracked, StartUntracked
    <3>2. \A status, root : EndTracked(n, status, root) => parent' \in {status, root}
      BY EndingsShape
    <3> QED
      BY <3>1, <3>2 DEF Root, IInv, TypeOK
  <2> QED
    BY <1>1, <2>1, <2>2, <2>3, AgentStepShape DEF IInv, TypeOK
<1>2. ASSUME NEW s \in {"router", "report", "error_summary", "ceo", "end"}, Advance(s)
      PROVE  step' = s /\ task' \in [Agents -> {"idle", "ready", "awaiting", "returned", "failed", "cancelled"}]
  BY <1>2 DEF Advance, IInv, TypeOK
<1>3. CASE JoinSpecialists
  BY <1>2, <1>3 DEF JoinSpecialists, IInv, TypeOK, AgentsOf, Agents, Specialists
<1>4. CASE RouteAfterSpecialists
  BY <1>2, <1>4 DEF RouteAfterSpecialists, IInv, TypeOK, AgentsOf
<1>5. CASE SummarizeErrors
  <2>1. errors' \in Seq(SUBSET Specialists)
    BY <1>5 DEF SummarizeErrors, IInv, TypeOK
  <2> QED
    BY <1>2, <1>5, <2>1 DEF SummarizeErrors, IInv, TypeOK, AgentsOf
<1>6. CASE FinishReport
  BY <1>2, <1>6 DEF FinishReport, IInv, TypeOK, AgentsOf, Agents
<1>7. CASE FinishWorkflow
  BY <1>2, <1>7 DEF FinishWorkflow, IInv, TypeOK, AgentsOf, Agents
<1>8. CASE StopOthers \/ Disconnect \/ Reraise \/ UNCHANGED vars
  BY <1>8 DEF StopOthers, Disconnect, Reraise, vars, IInv, TypeOK
<1> QED
  BY <1>1, <1>3, <1>4, <1>5, <1>6, <1>7, <1>8 DEF Next, GraphStep, Finished

(* The five ways from one superstep to the next, with the agents at rest *)
LEMMA GraphMoves ==
  ASSUME IInv,
         \/ JoinSpecialists \/ RouteAfterSpecialists \/ SummarizeErrors
         \/ FinishReport \/ FinishWorkflow
  PROVE  /\ \A n \in Agents :
              /\ task[n] \in {"idle", "returned"}
              /\ task'[n] = task[n] \/ (task[n] = "idle" /\ task'[n] = "ready" /\ n \in AgentsOf(step'))
         /\ \A n \in Specialists : task[n] = "returned" /\ task'[n] = "returned"
         /\ stop = "none" /\ answer = "none"
         /\ UNCHANGED <<faults, calls, stop, tracker>>
<1> USE DEF IInv, OrderInv, AllReturned, Running, state
<1>1. CASE JoinSpecialists
  <2>1. \A n \in Agents : task[n] \in {"idle", "returned"}
    BY <1>1 DEF JoinSpecialists, Agents
  <2> QED
    BY <1>1, <2>1 DEF JoinSpecialists, Advance, AgentsOf, Agents
<1>2. CASE RouteAfterSpecialists
  <2>1. \A n \in Agents : task[n] \in {"idle", "returned"}
    BY <1>2 DEF RouteAfterSpecialists, Agents
  <2> QED
    BY <1>2, <2>1 DEF RouteAfterSpecialists, Advance, AgentsOf, Agents, Specialists
<1>3. CASE SummarizeErrors
  <2>1. \A n \in Agents : task[n] \in {"idle", "returned"}
    BY <1>3 DEF SummarizeErrors, Agents
  <2> QED
    BY <1>3, <2>1 DEF SummarizeErrors, Advance, AgentsOf, Agents, Specialists
<1>4. CASE FinishReport
  <2>1. \A n \in Agents : task[n] \in {"idle", "returned"}
    BY <1>4 DEF FinishReport, Agents
  <2> QED
    BY <1>4, <2>1 DEF FinishReport, Advance, AgentsOf, Agents, Specialists
<1>5. CASE FinishWorkflow
  <2>1. \A n \in Agents : task[n] \in {"idle", "returned"}
    <3>1. task["ceo"] = "returned" /\ step = "ceo"
      BY <1>5 DEF FinishWorkflow
    <3>2. ASSUME NEW n \in Agents PROVE task[n] \notin {"ready", "awaiting", "failed", "cancelled"}
      BY <3>1, AloneAtWork
    <3> QED
      BY <3>2 DEF TypeOK
  <2> QED
    BY <1>5, <2>1 DEF FinishWorkflow, Advance, AgentsOf, Agents, Specialists
<1> QED
  BY <1>1, <1>2, <1>3, <1>4, <1>5

Moves ==
  \/ JoinSpecialists \/ RouteAfterSpecialists \/ SummarizeErrors
  \/ FinishReport \/ FinishWorkflow

LEMMA TaskKept == IInv /\ [Next]_vars => \A m \in Agents : TaskInv(m)'
<1> SUFFICES ASSUME IInv, [Next]_vars, NEW m \in Agents PROVE TaskInv(m)'
  OBVIOUS
<1>0. TaskInv(m) /\ TypeOK
  BY DEF IInv
<1>1. ASSUME NEW n \in Agents, AgentStep(n) PROVE TaskInv(m)'
  <2>1. CASE m # n
    BY <1>0, <1>1, <2>1, AgentStepShape DEF TaskInv, AgentsOf
  <2>2. CASE m = n
    <3>1. n \in AgentsOf(step) /\ UNCHANGED <<faults, step>> /\ TypeOK /\ TaskInv(n)
      BY <1>0, <1>1, <2>2, AgentStepShape
    <3>0. task'[n] \in {"awaiting", "returned"} => calls'[n] > 0
      <4>1. calls[n] \in Nat /\ (CallProvider(n) => calls'[n] = calls[n] + 1)
        BY <3>1, AttemptsAssumption DEF CallProvider, TypeOK
      <4> QED
        BY <1>1, <3>1, <4>1 DEF AgentStep, Begin, Resume, Unwind, Becomes, TaskInv, TypeOK
    <3>2. CASE Begin(n)
      <4>1. CASE task' = [task EXCEPT ![n] = "awaiting"] /\ StartTracked(n)
        BY <2>2, <3>0, <3>1, <4>1 DEF StartTracked, TaskInv, TypeOK, AgentsOf
      <4>2. CASE task' = [task EXCEPT ![n] = "failed"] /\ UNCHANGED child
        BY <2>2, <3>1, <3>2, <4>2 DEF Begin, TaskInv, TypeOK, AgentsOf
      <4>3. CASE task' = [task EXCEPT ![n] = "failed"] /\ EndTracked(n, "FAILED", Root)
        BY <2>2, <3>1, <4>3, EndingsShape DEF TaskInv, TypeOK, AgentsOf
      <4> QED
        BY <3>2, <4>1, <4>2, <4>3, <2>2 DEF Begin, Becomes, StartUntracked, tracker
    <3>3. CASE Resume(n)
      <4>1. CASE task[n] = "awaiting" /\ UNCHANGED <<task, tracker>>
        BY <2>2, <3>0, <3>1, <4>1 DEF TaskInv, tracker, AgentsOf
      <4>2. CASE task' = [task EXCEPT ![n] = "returned"] /\ EndTracked(n, "FINISHED", parent)
        BY <2>2, <3>0, <3>1, <4>2, EndingsShape DEF TaskInv, TypeOK, AgentsOf
      <4>3. CASE task' = [task EXCEPT ![n] = "failed"] /\ EndTracked(n, "FAILED", parent)
        BY <2>2, <3>1, <4>3, EndingsShape DEF TaskInv, TypeOK, AgentsOf
      <4> QED
        BY <3>3, <4>1, <4>2, <4>3, <2>2 DEF Resume, Becomes
    <3>4. CASE Unwind(n)
      <4>1. CASE task' = [task EXCEPT ![n] = "cancelled"] /\ task[n] = "ready" /\ UNCHANGED child
        BY <2>2, <3>1, <4>1 DEF TaskInv, TypeOK, AgentsOf
      <4>2. CASE task' = [task EXCEPT ![n] = "cancelled"] /\ EndTracked(n, "FAILED", parent)
        BY <2>2, <3>1, <4>2, EndingsShape DEF TaskInv, TypeOK, AgentsOf
      <4> QED
        BY <3>4, <4>1, <4>2, <2>2 DEF Unwind, Becomes, tracker
    <3> QED
      BY <1>1, <3>2, <3>3, <3>4 DEF AgentStep
  <2> QED
    BY <2>1, <2>2
<1>2. CASE Moves
  BY <1>0, <1>2, GraphMoves DEF Moves, TaskInv, tracker
<1>3. CASE StopOthers \/ Disconnect \/ Reraise \/ UNCHANGED vars
  BY <1>0, <1>3 DEF StopOthers, Disconnect, Reraise, vars, tracker, TaskInv, AgentsOf
<1> QED
  BY <1>1, <1>2, <1>3 DEF Next, GraphStep, Finished, Moves

LEMMA OrderKept == IInv /\ [Next]_vars => OrderInv'
<1> SUFFICES ASSUME IInv, [Next]_vars PROVE OrderInv'
  OBVIOUS
<1>0. OrderInv /\ TypeOK
  BY DEF IInv
<1>1. ASSUME NEW n \in Agents, AgentStep(n) PROVE OrderInv'
  <2>1. /\ task[n] \in {"ready", "awaiting"} /\ n \in AgentsOf(step)
        /\ \A m \in Agents \ {n} : task'[m] = task[m]
        /\ UNCHANGED <<step, results, errors>>
    BY <1>1, AgentStepShape
  <2>2. task'["report"] = "returned" /\ n = "report" => "report" \in writes'
    BY <1>0, <1>1, OmitAssumption DEF AgentStep, Begin, Resume, Unwind, Becomes, TypeOK, Specialists
  <2>3. n # "report" => writes \subseteq writes'
    BY <1>1 DEF AgentStep, Begin, Resume, Unwind
  <2>4. CASE step = "specialists"
    BY <1>0, <2>1, <2>4 DEF OrderInv, AgentsOf, Agents, Specialists
  <2>5. CASE step = "report"
    BY <1>0, <2>1, <2>2, <2>5 DEF OrderInv, AllReturned, AgentsOf, Agents, Specialists
  <2>6. CASE step = "ceo"
    BY <1>0, <2>1, <2>6 DEF OrderInv, AllReturned, AgentsOf, Agents, Specialists
  <2> QED
    BY <2>1, <2>4, <2>5, <2>6 DEF AgentsOf
<1> USE DEF OrderInv, AllReturned, state
<1>2. CASE JoinSpecialists
  BY <1>0, <1>2 DEF JoinSpecialists, Advance, AgentsOf, Agents, Specialists
<1>3. CASE RouteAfterSpecialists
  BY <1>0, <1>3 DEF RouteAfterSpecialists, Advance, AgentsOf, Agents, Specialists
<1>4. CASE SummarizeErrors
  <2>1. errors' = <<Specialists \ results>>
    BY <1>0, <1>4 DEF SummarizeErrors
  <2> QED
    BY <1>0, <1>4, <2>1 DEF SummarizeErrors, Advance, AgentsOf, Agents, Specialists
<1>5. CASE FinishReport
  BY <1>0, <1>5 DEF FinishReport, Advance, AgentsOf, Agents, Specialists
<1>6. CASE FinishWorkflow
  <2>1. writes \subseteq {"ceo"}
    BY <1>0, <1>6 DEF FinishWorkflow, TypeOK, AgentsOf
  <2>2. Specialists \ results' = Specialists \ results /\ (Specialists \subseteq results' <=> Specialists \subseteq results)
    BY <1>6, <2>1 DEF FinishWorkflow, Specialists
  <2> QED
    BY <1>0, <1>6, <2>2 DEF FinishWorkflow, Advance, AgentsOf, Agents, Specialists
<1>7. CASE StopOthers \/ Disconnect \/ Reraise \/ UNCHANGED vars
  BY <1>0, <1>7 DEF StopOthers, Disconnect, Reraise, vars
<1> QED
  BY <1>1, <1>2, <1>3, <1>4, <1>5, <1>6, <1>7 DEF Next, GraphStep, Finished

LEMMA MergedKept == IInv /\ [Next]_vars => MergedInv'
<1> SUFFICES ASSUME IInv, [Next]_vars PROVE MergedInv'
  OBVIOUS
<1>0. MergedInv /\ OrderInv /\ TypeOK
  BY DEF IInv
<1>1. ASSUME NEW n \in Agents, AgentStep(n) PROVE MergedInv'
  <2>1. /\ task[n] \in {"ready", "awaiting"} /\ \A m \in Agents \ {n} : task'[m] = task[m]
        /\ UNCHANGED <<step, results>>
    BY <1>1, AgentStepShape
  <2>2. results \cup writes \subseteq Agents \ {n}
    BY <1>0, <2>1 DEF MergedInv, TypeOK, AgentsOf, Agents
  <2>3. writes' = writes \/ (writes' = writes \cup {n} /\ task'[n] = "returned")
    BY <1>0, <1>1 DEF AgentStep, Begin, Resume, Unwind, Becomes, TypeOK
  <2> QED
    BY <1>0, <2>1, <2>2, <2>3 DEF MergedInv
<1>2. CASE Moves
  <2>1. \A n \in Agents : task[n] = "returned" => task'[n] = "returned"
    BY <1>2, GraphMoves DEF Moves
  <2>2. results' \cup writes' \subseteq results \cup writes
    BY <1>2 DEF Moves, JoinSpecialists, RouteAfterSpecialists, SummarizeErrors, FinishReport,
      FinishWorkflow, state
  <2>3. results \cup writes \subseteq Agents
    BY <1>0 DEF TypeOK, AgentsOf, Agents
  <2>4. \A n \in results' \cup writes' : task'[n] = "returned"
    BY <1>0, <2>1, <2>2, <2>3 DEF MergedInv
  <2>5. writes \subseteq AgentsOf(step)
    BY <1>0 DEF TypeOK
  <2>6. CASE JoinSpecialists
    BY <1>0, <2>4, <2>5, <2>6 DEF JoinSpecialists, Advance, MergedInv, OrderInv, AgentsOf
  <2>7. CASE RouteAfterSpecialists
    BY <1>0, <2>4, <2>7 DEF RouteAfterSpecialists, Advance, MergedInv, state
  <2>8. CASE SummarizeErrors
    BY <1>0, <2>4, <2>8 DEF SummarizeErrors, Advance, MergedInv
  <2>9. CASE FinishReport
    BY <1>0, <2>4, <2>5, <2>9 DEF FinishReport, Advance, MergedInv, AgentsOf
  <2>10. CASE FinishWorkflow
    BY <2>4, <2>10 DEF FinishWorkflow, Advance, MergedInv
  <2> QED
    BY <1>2, <2>6, <2>7, <2>8, <2>9, <2>10 DEF Moves
<1>3. CASE StopOthers \/ Disconnect \/ Reraise \/ UNCHANGED vars
  BY <1>0, <1>3 DEF StopOthers, Disconnect, Reraise, vars, state, MergedInv
<1> QED
  BY <1>1, <1>2, <1>3 DEF Next, GraphStep, Finished, Moves

LEMMA RootKept == IInv /\ [Next]_vars => RootInv'
<1> SUFFICES ASSUME IInv, [Next]_vars PROVE RootInv'
  OBVIOUS
<1>0. RootInv /\ TypeOK
  BY DEF IInv
<1>1. ASSUME NEW n \in Agents, AgentStep(n) PROVE RootInv'
  <2>1. /\ task[n] \in {"ready", "awaiting"} /\ parent \in {"none", "open"} /\ Root = "open"
        /\ \A m \in Agents \ {n} : task'[m] = task[m] /\ child'[m] = child[m]
        /\ UNCHANGED <<faults, stop>>
    BY <1>1, AgentStepShape DEF Root
  <2>2. CASE n # "ceo"
    <3>1. parent' \in {"none", "open"}
      <4>1. \/ parent' \in {parent, Root}
            \/ \E status \in {"FINISHED", "FAILED"}, root \in {parent, Root} : EndTracked(n, status, root)
        BY <1>1 DEF AgentStep, Begin, Resume, Unwind, StartTracked, StartUntracked, tracker
      <4> QED
        BY <2>1, <2>2, <4>1, EndingsShape
    <3>2. "ceo" \in Agents
      BY DEF Agents
    <3> QED
      BY <1>0, <2>1, <2>2, <3>1, <3>2 DEF RootInv
  <2>3. CASE n = "ceo"
    <3>1. CASE task'["ceo"] # "returned" /\ parent' \in {"none", "open"}
      BY <3>1 DEF RootInv
    <3>2. CASE task'["ceo"] # "returned" /\ \E root \in {"none", "open"} : EndTracked(n, "FAILED", root)
      BY <1>0, <2>3, <3>2, EndingsShape DEF RootInv, TypeOK
    <3>3. CASE stop = "none" /\ EndTracked(n, "FINISHED", parent)
      BY <1>0, <2>1, <2>3, <3>3, EndingsShape DEF RootInv, TypeOK
    <3>4. CASE Begin(n)
      BY <1>0, <2>1, <2>3, <3>1, <3>2, <3>4
        DEF Begin, Becomes, StartTracked, StartUntracked, tracker, TypeOK
    <3>5. CASE Resume(n)
      BY <1>0, <2>1, <2>3, <3>1, <3>2, <3>3, <3>5 DEF Resume, Becomes, Running, tracker, TypeOK
    <3>6. CASE Unwind(n)
      BY <1>0, <2>1, <2>3, <3>1, <3>2, <3>6 DEF Unwind, Becomes, tracker, TypeOK
    <3> QED
      BY <1>1, <3>4, <3>5, <3>6 DEF AgentStep
  <2> QED
    BY <2>2, <2>3
<1>2. CASE Moves
  <2>1. "ceo" \in Agents /\ UNCHANGED <<faults, stop, tracker>>
    BY <1>2, GraphMoves DEF Moves, Agents
  <2>2. task'["ceo"] = "returned" => task["ceo"] = "returned"
    BY <1>2, <2>1, GraphMoves DEF Moves
  <2> QED
    BY <1>0, <2>1, <2>2 DEF RootInv, tracker
<1>3. CASE StopOthers
  <2>1. PICK n \in Agents : task[n] = "failed"
    BY <1>3 DEF StopOthers
  <2>2. parent # "FINISHED"
    <3>1. SUFFICES ASSUME child["ceo"] = "FINISHED" PROVE FALSE
      BY <1>0 DEF RootInv
    <3>2. task["ceo"] = "returned"
      BY <3>1 DEF IInv, TaskInv, Agents
    <3>3. step \in {"ceo", "end"}
      BY <1>0, <3>2 DEF IInv, OrderInv, TypeOK
    <3> QED
      BY <2>1, <3>2, <3>3, AloneAtWork
  <2> QED
    BY <1>0, <1>3, <2>2 DEF StopOthers, RootInv, tracker
<1>4. CASE Disconnect \/ Reraise \/ UNCHANGED vars
  BY <1>0, <1>4 DEF Disconnect, Reraise, vars, tracker, RootInv
<1> QED
  BY <1>1, <1>2, <1>3, <1>4 DEF Next, GraphStep, Finished, Moves

LEMMA AnswerKept == IInv /\ [Next]_vars => AnswerInv'
<1> SUFFICES ASSUME IInv, [Next]_vars PROVE AnswerInv'
  OBVIOUS
<1>0. AnswerInv /\ TypeOK
  BY DEF IInv
<1>1. ASSUME NEW n \in Agents, AgentStep(n) PROVE AnswerInv'
  <2>1. /\ task[n] \in {"ready", "awaiting"} /\ answer = "none"
        /\ \A m \in Agents \ {n} : task'[m] = task[m]
        /\ UNCHANGED <<stop, answer>>
    BY <1>1, AgentStepShape
  <2> QED
    BY <1>0, <2>1 DEF AnswerInv
<1>2. CASE FinishWorkflow
  <2>1. /\ \A n \in Agents : task'[n] = task[n]
        /\ stop' = "none" /\ answer' = "completed" /\ step' = "end" /\ task["ceo"] = "returned" /\ "ceo" \in Agents
    BY <1>2 DEF FinishWorkflow, Advance, AgentsOf, Running, Agents
  <2>2. Unsettled' = {}
    BY <1>2, <2>1, GraphMoves DEF Unsettled
  <2> QED
    BY <2>1, <2>2 DEF AnswerInv
<1>3. CASE Moves /\ ~FinishWorkflow
  BY <1>3 DEF Moves, JoinSpecialists, RouteAfterSpecialists, SummarizeErrors, FinishReport,
    Running, AnswerInv
<1>4. CASE StopOthers \/ Disconnect
  BY <1>4 DEF StopOthers, Disconnect, Running, AnswerInv
<1>5. CASE Reraise
  BY <1>0, <1>5 DEF Reraise, AnswerInv, Unsettled, TypeOK
<1>6. CASE UNCHANGED vars
  BY <1>0, <1>6 DEF vars, AnswerInv, Unsettled
<1> QED
  BY <1>1, <1>2, <1>3, <1>4, <1>5, <1>6 DEF Next, GraphStep, Finished, Moves

LEMMA AlwaysIInv == Spec => []IInv
<1>1. Init => IInv
  BY InitHolds
<1>2. IInv /\ [Next]_vars => IInv'
  BY TypeKept, TaskKept, OrderKept, MergedKept, RootKept, AnswerKept DEF IInv
<1> QED
  BY <1>1, <1>2, PTL DEF Spec

-----------------------------------------------------------------------------
(* Every variable of the graph keeps its type; no run of an agent calls its *)
(* provider more often than it has attempts.                                *)
THEOREM GraphTyped == Spec => []TypeOK
<1>1. IInv => TypeOK
  BY DEF IInv
<1> QED
  BY <1>1, AlwaysIInv, PTL

(* A failure keeps the workflow in its superstep, throws its results away   *)
(* and costs nothing further on; a failed answer has a failed agent behind  *)
(* it, a completed one the paid work of every agent it needed.              *)
THEOREM AlwaysOutcomeEarned == Spec => []OutcomeEarned
<1>1. IInv => OutcomeEarned
  <2> SUFFICES ASSUME IInv PROVE OutcomeEarned
    OBVIOUS
  <2>0. TypeOK /\ OrderInv /\ MergedInv /\ AnswerInv /\ \A n \in Agents : TaskInv(n)
    BY DEF IInv
  <2>1. \A n \in Agents \ AgentsOf(step) : calls[n] > 0 <=> task[n] = "returned"
    BY <2>0 DEF TypeOK, TaskInv
  <2>2. ASSUME NEW n \in Agents, task[n] \in {"failed", "cancelled"}
        PROVE  results \cap AgentsOf(step) = {} /\ answer # "completed"
    <3>1. step \in {"specialists", "report", "ceo"}
      BY <2>2, AloneAtWork
    <3>2. results \cap AgentsOf(step) = {}
      BY <2>0, <3>1 DEF OrderInv, MergedInv, AgentsOf, Specialists
    <3> QED
      BY <2>0, <3>1, <3>2 DEF AnswerInv
  <2>3. answer = "failed" => \E n \in Agents : task[n] = "failed"
    BY <2>0 DEF AnswerInv
  <2>4. ASSUME answer = "completed", NEW n \in Agents
        PROVE  \/ task[n] = "returned" /\ calls[n] > 0
               \/ n = "report" /\ calls[n] = 0 /\ errors # <<>>
    <3>1. step = "end" /\ task["ceo"] = "returned" /\ AllReturned
      BY <2>0, <2>4 DEF AnswerInv, OrderInv
    <3>2. task["report"] = "returned" \/ (task["report"] = "idle" /\ errors = <<Specialists \ results>>)
      BY <2>0, <3>1 DEF OrderInv, MergedInv
    <3>3. <<Specialists \ results>> # <<>>
      OBVIOUS
    <3> QED
      BY <2>0, <3>1, <3>2, <3>3 DEF AllReturned, TaskInv, Agents
  <2>5. \A n \in Agents : task[n] \in {"failed", "cancelled"} => n \in AgentsOf(step)
    BY <2>0 DEF TaskInv
  <2> QED
    BY <2>1, <2>2, <2>3, <2>4, <2>5 DEF OutcomeEarned
<1> QED
  BY <1>1, AlwaysIInv, PTL

(* A specialist's result is in the state only when all three branches have  *)
(* returned.                                                                *)
THEOREM AlwaysMergedTogether == Spec => []MergedTogether
<1>1. IInv => MergedTogether
  BY DEF IInv, OrderInv, AllReturned, MergedTogether
<1> QED
  BY <1>1, AlwaysIInv, PTL

(* The CEO runs behind a report of all results or behind one error summary  *)
(* that names what is missing, never both.                                  *)
THEOREM CEOAlwaysKnowsGaps == Spec => []CEOKnowsGaps
<1>1. IInv => CEOKnowsGaps
  BY DEF IInv, TypeOK, OrderInv, AllReturned, CEOKnowsGaps
<1> QED
  BY <1>1, AlwaysIInv, PTL

(* The tracker's tree never claims more than happened, and tells all of it  *)
(* while the tracker works.                                                 *)
THEOREM TrackerTreeTrue == Spec => []TrackerTree
<1>1. IInv => TrackerTree
  <2> SUFFICES ASSUME IInv PROVE TrackerTree
    OBVIOUS
  <2>0. "ceo" \in Agents /\ TypeOK /\ RootInv /\ AnswerInv /\ OrderInv /\ \A n \in Agents : TaskInv(n)
    BY DEF IInv, Agents
  <2>1. parent \in {"FINISHED", "FAILED"} =>
          child["ceo"] = parent /\ \A n \in Specialists : task[n] = "returned"
    BY <2>0 DEF RootInv, TaskInv, OrderInv, AllReturned, TypeOK
  <2>2. parent = "FINISHED" => task["ceo"] = "returned" /\ stop # "failed"
    BY <2>0 DEF RootInv, TaskInv
  <2>3. \A n \in Agents : /\ child[n] = "FINISHED" => task[n] = "returned"
                          /\ child[n] = "FAILED" => task[n] \in {"failed", "cancelled"}
    BY <2>0 DEF TaskInv
  <2>4. (answer # "none" /\ "tracking" \notin faults) =>
          /\ \A n \in Agents : child[n] # "open"
          /\ answer = "completed" => parent = "FINISHED"
    BY <2>0 DEF TaskInv, AnswerInv, RootInv, Unsettled
  <2> QED
    BY <2>1, <2>2, <2>3, <2>4 DEF TrackerTree
<1> QED
  BY <1>1, AlwaysIInv, PTL

(* The graph is the workflow its callers are promised, as far as a step can *)
(* tell: an agent starts while nothing is decided, an outcome is decided    *)
(* once, and it is handed over when every agent is at rest.                 *)
THEOREM PromiseKept == Spec => Promise!Init /\ [][Promise!Next]_(Promise!vars)
<1>1. Init => Promise!Init
  BY DEF Init, Promise!Init
<1>2. IInv /\ [Next]_vars => [Promise!Next]_(Promise!vars)
  <2> SUFFICES ASSUME IInv, [Next]_vars PROVE [Promise!Next]_(Promise!vars)
    OBVIOUS
  <2>0. TypeOK
    BY DEF IInv
  <2> DEFINE active == {n \in Agents : task[n] = "awaiting"}
             returned == {n \in Agents : task[n] = "returned"}
             outcome == IF answer # "none" THEN answer ELSE stop
  <2>1. ASSUME NEW n \in Agents, AgentStep(n) PROVE [Promise!Next]_(Promise!vars)
    <3>0. /\ task[n] \in {"ready", "awaiting"} /\ answer = "none"
          /\ \A m \in Agents \ {n} : task'[m] = task[m]
          /\ UNCHANGED <<stop, answer>>
      BY <2>1, AgentStepShape
    <3>1. outcome' = outcome /\ (answer' # "none") = (answer # "none")
      BY <3>0
    <3>2. CASE stop = "none" /\ task[n] = "ready" /\ task'[n] = "awaiting"
      <4>1. outcome = "none" /\ n \notin active \cup returned
            /\ active' = active \cup {n} /\ returned' = returned
        BY <3>0, <3>2
      <4>2. Promise!Start(n)
        BY <3>1, <4>1, Zenon DEF Promise!Start
      <4> QED
        BY <4>2 DEF Promise!Next
    <3>3. CASE task[n] = "awaiting" /\ task'[n] = "returned"
      <4>1. n \in active /\ active' = active \ {n} /\ returned' = returned \cup {n}
        BY <3>0, <3>3
      <4>2. Promise!Return(n)
        BY <3>1, <4>1, Zenon DEF Promise!Return
      <4> QED
        BY <4>2 DEF Promise!Next
    <3>4. CASE task[n] = "awaiting" /\ task'[n] \in {"failed", "cancelled"}
      <4>1. n \in active /\ active' = active \ {n} /\ returned' = returned
        BY <3>0, <3>4
      <4>2. Promise!Abort(n)
        BY <3>1, <4>1, Zenon DEF Promise!Abort
      <4> QED
        BY <4>2 DEF Promise!Next
    <3>5. CASE task'[n] = task[n] \/ (task[n] = "ready" /\ task'[n] \in {"failed", "cancelled"})
      <4>1. active' = active /\ returned' = returned
        BY <3>0, <3>5
      <4> QED
        BY <3>1, <4>1, Zenon DEF Promise!vars
    <3> QED
      BY <2>0, <2>1, <3>2, <3>3, <3>4, <3>5
        DEF AgentStep, Begin, Resume, Unwind, Becomes, Running, TypeOK
  <2>2. CASE Moves
    <3>1. active = {} /\ active' = {} /\ returned' = returned /\ stop = "none" /\ answer = "none"
          /\ stop' = stop
      BY <2>2, GraphMoves DEF Moves
    <3>2. CASE FinishWorkflow
      <4>1. "ceo" \in returned /\ outcome = "none" /\ outcome' = "completed" /\ answer' # "none"
        BY <3>1, <3>2 DEF FinishWorkflow, Agents
      <4>2. Promise!Complete
        BY <3>1, <4>1, Zenon DEF Promise!Complete
      <4> QED
        BY <4>2 DEF Promise!Next
    <3>3. CASE answer' = answer
      BY <3>1, <3>3 DEF Promise!vars
    <3> QED
      BY <2>2, <3>2, <3>3
        DEF Moves, JoinSpecialists, RouteAfterSpecialists, SummarizeErrors, FinishReport
  <2>3. CASE StopOthers \/ Disconnect
    <3>1. /\ active' = active /\ returned' = returned /\ answer = "none" /\ answer' = "none"
          /\ stop = "none" /\ stop' \in {"failed", "cancelled"}
      BY <2>3 DEF StopOthers, Disconnect, Running
    <3>2. Promise!Stop
      BY <3>1 DEF Promise!Stop
    <3> QED
      BY <3>2 DEF Promise!Next
  <2>4. CASE Reraise
    <3>1. /\ active' = active /\ returned' = returned /\ active = {}
          /\ answer = "none" /\ stop # "none" /\ answer' = stop /\ stop' = stop
      BY <2>4 DEF Reraise, Unsettled
    <3>2. Promise!HandOver
      BY <3>1 DEF Promise!HandOver
    <3> QED
      BY <3>2 DEF Promise!Next
  <2>5. CASE UNCHANGED vars
    BY <2>5 DEF vars, Promise!vars
  <2> QED
    BY <2>1, <2>2, <2>3, <2>4, <2>5 DEF Next, GraphStep, Finished, Moves
<1> QED
  BY <1>1, <1>2, AlwaysIInv, PTL DEF Spec
=============================================================================
