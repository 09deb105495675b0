------------------------------ MODULE AgentRun ------------------------------
(***************************************************************************)
(* One execution of an agent's  run  coroutine.  The five agents share one  *)
(* protocol: announce the run, collect evidence with deterministic tools,   *)
(* ask the provider, validate the answer, ask once more when the answer     *)
(* does not match its schema, and report the verdict to the audit backend,  *)
(* the experiment tracker, the tracer and the metrics registry.  Every one  *)
(* of those boundaries may fail, and the coroutine may be cancelled while   *)
(* it awaits the provider (its only suspension point).                      *)
(*                                                                         *)
(* A step of the model is one call of a boundary together with the local   *)
(* code up to the next one.  What the boundaries may do to the run is the  *)
(* constant  Faults , so that one module covers every deployment.          *)
(***************************************************************************)
EXTENDS Integers, Sequences, FiniteSets

CONSTANTS
  Agents,        \* the agents whose runs are considered
  MaxAttempts,   \* MAX_VALIDATION_ATTEMPTS
  Faults         \* what may go wrong in this deployment

AllAgents == {"finance", "marketing", "data_scientist", "report", "ceo"}

(* audit: an append raises AuditError.  lost_ack: the append that raises    *)
(* may have been committed.  tracking, tracing: the adapter raises.  tool:  *)
(* a tool or a prompt builder rejects its input.  llm: the provider reports *)
(* an LLMError.  provider: generate raises anything else.  cancel: the task *)
(* is cancelled.                                                            *)
AllFaults == {"audit", "lost_ack", "tracking", "tracing", "tool", "llm",
              "provider", "cancel"}

ASSUME AgentsAssumption == Agents \subseteq AllAgents
ASSUME AttemptsAssumption == MaxAttempts \in Nat \ {0}
ASSUME FaultsAssumption == Faults \subseteq AllFaults

VARIABLES
  agent,               \* whose run this is; never changes
  pc,                  \* where the coroutine is
  attempt,             \* local: attempt
  auditBackendFailed,  \* local: audit_backend_failed
  trackingStatus,      \* local: tracking_status
  primary,             \* the exception the run is failing with
  cause,               \* the failures reachable from it through __cause__
  calls,               \* provider calls issued
  trail,               \* this run's persisted audit events, oldest first
  refused,             \* appends that raised AuditError
  child,               \* the tracker's run for this execution
  span,                \* the tracer's span for this execution
  totals               \* what this run added to the agent counters

locals   == <<attempt, auditBackendFailed, trackingStatus>>
failure  == <<primary, cause>>
backend  == <<trail, refused>>
outside  == <<child, span, totals>>
vars     == <<agent, pc, locals, failure, calls, backend, outside>>

(* Next to some definitions stands a mutated form of it, named for the slip *)
(* it makes; the specification never uses those.                            *)

(***************************************************************************)
(* The ways the five runs differ.  calculates: the run computes KPIs before *)
(* it builds its prompt.  countsFirst: the attempt counter moves before the *)
(* correction is audited.  publishes: after the success verdict the run     *)
(* reads the audit log back and stores two artifacts.                       *)
(***************************************************************************)
FinanceRun       == [calculates |-> TRUE,  countsFirst |-> FALSE, publishes |-> FALSE]
MarketingRun     == [calculates |-> TRUE,  countsFirst |-> TRUE,  publishes |-> FALSE]
DataScientistRun == [calculates |-> TRUE,  countsFirst |-> TRUE,  publishes |-> FALSE]
ReportRun        == [calculates |-> FALSE, countsFirst |-> TRUE,  publishes |-> FALSE]
CEORun           == [calculates |-> FALSE, countsFirst |-> TRUE,  publishes |-> TRUE]

Profile ==
  CASE agent = "finance"        -> FinanceRun
    [] agent = "marketing"      -> MarketingRun
    [] agent = "data_scientist" -> DataScientistRun
    [] agent = "report"         -> ReportRun
    [] agent = "ceo"            -> CEORun

Events == {"start", "tool_call", "llm_request", "llm_response", "error",
           "finish_success", "finish_failed"}
Verdicts == {"finish_success", "finish_failed"}

Errors == {"audit", "tracking", "tracing", "tool", "llm", "provider",
           "validation", "cancelled"}

(* origin: whatever the primary error was already chained to when raised.   *)
(* schema: the pydantic ValidationError.  audit: an AuditError met while    *)
(* the failure was being reported.                                          *)
Causes == {"origin", "schema", "audit"}

Opening   == {"start", "track"}
Body      == {"calculate", "prompt", "request", "generate", "telemetry",
              "response", "validate", "invalid", "correct", "finish",
              "publish"}
Handling  == {"error", "abort", "close"}
Finalizing == {"finally", "end_run", "end_span"}
Labels    == Opening \cup Body \cup Handling \cup Finalizing \cup {"done"}

-----------------------------------------------------------------------------
(* An append either is persisted, or raises AuditError.  When the commit's *)
(* acknowledgement can be lost the event of a failed append may be there.   *)
Persisted(event) ==
  /\ trail' = Append(trail, event)
  /\ UNCHANGED refused

Rejected(event) ==
  /\ "audit" \in Faults
  /\ refused' = refused + 1
  /\ \/ trail' = trail
     \/ "lost_ack" \in Faults /\ trail' = Append(trail, event)

Goto(label) == pc' = label /\ UNCHANGED failure

(* An exception other than the agent's validation error reaches one of the  *)
(* handlers that call _audit_primary_failure.                               *)
Raise(error) ==
  /\ pc' = "error"
  /\ primary' = error
  /\ cause' \in {{}, {"origin"}}

(* The exception leaves the coroutine without passing the try statement. *)
Escape(error) ==
  /\ pc' = "done"
  /\ primary' = error
  /\ cause' \in {{}, {"origin"}}

(* _raise_primary_with_audit_failure: the primary error stays the one that *)
(* is raised, and its chain gains the audit failure beside what was there. *)
ChainAuditDropped == primary' = primary /\ UNCHANGED cause
ChainAuditMasking == primary' = "audit" /\ UNCHANGED cause
ChainAudit ==
  /\ primary' = primary
  /\ cause' = cause \cup {"audit"}

-----------------------------------------------------------------------------
Init ==
  /\ agent \in Agents
  /\ pc = "start"
  /\ attempt = 0
  /\ auditBackendFailed = FALSE
  /\ trackingStatus = "FAILED"
  /\ primary = "none"
  /\ cause = {}
  /\ calls = 0
  /\ trail = <<>>
  /\ refused = 0
  /\ child = "none"
  /\ span = "none"
  /\ totals = [runs |-> 0, retries |-> 0, failures |-> 0]

(* start_span, then log_start, both before the try statement. *)
LogStart ==
  /\ pc = "start"
  /\ \/ Persisted("start") /\ Goto("track") /\ span' = "open"
     \/ Rejected("start") /\ Escape("audit") /\ span' = "open"
     \/ "tracing" \in Faults /\ Escape("tracing") /\ UNCHANGED <<backend, span>>
  /\ UNCHANGED <<agent, locals, calls, child, totals>>

(* start_run on the tracker, still before the try statement. *)
StartTracking ==
  /\ pc = "track"
  /\ \/ /\ child' = "open"
        /\ Goto(IF Profile.calculates THEN "calculate" ELSE "prompt")
     \/ /\ "tracking" \in Faults
        /\ Escape("tracking")
        /\ UNCHANGED child
  /\ UNCHANGED <<agent, locals, calls, backend, span, totals>>

(* log_tool_call, then the deterministic KPI calculation it announces. *)
CalculateEvidence ==
  /\ pc = "calculate"
  /\ \/ Persisted("tool_call") /\ Goto("prompt")
     \/ Persisted("tool_call") /\ "tool" \in Faults /\ Raise("tool")
     \/ Rejected("tool_call") /\ Raise("audit")
  /\ UNCHANGED <<agent, locals, calls, outside>>

(* log_tool_call, then the prompt builder; attempt becomes 1 after it. *)
BuildPrompt ==
  /\ pc = "prompt"
  /\ \/ Persisted("tool_call") /\ Goto("request") /\ attempt' = 1
     \/ /\ Persisted("tool_call") /\ "tool" \in Faults /\ Raise("tool")
        /\ UNCHANGED attempt
     \/ Rejected("tool_call") /\ Raise("audit") /\ UNCHANGED attempt
  /\ UNCHANGED <<agent, auditBackendFailed, trackingStatus, calls, outside>>

(* log_llm_request, then the provider is called and the task suspends. *)
LogRequest ==
  /\ pc = "request"
  /\ \/ Persisted("llm_request") /\ Goto("generate") /\ calls' = calls + 1
     \/ Rejected("llm_request") /\ Raise("audit") /\ UNCHANGED calls
  /\ UNCHANGED <<agent, locals, outside>>

(* The awaited generate returns, or raises an LLMError or something else. *)
ResumeSwallowing ==
  /\ pc = "generate"
  /\ \/ Goto("telemetry")
     \/ "llm" \in Faults /\ Goto("finally")
  /\ UNCHANGED <<agent, locals, calls, backend, outside>>

Resume ==
  /\ pc = "generate"
  /\ \/ Goto("telemetry")
     \/ "llm" \in Faults /\ Raise("llm")
     \/ "provider" \in Faults /\ Raise("provider")
  /\ UNCHANGED <<agent, locals, calls, backend, outside>>

(* CancelledError is not an Exception: no handler runs, only the finally. *)
Cancel ==
  /\ pc = "generate"
  /\ "cancel" \in Faults
  /\ pc' = "finally"
  /\ primary' = "cancelled"
  /\ UNCHANGED <<agent, locals, cause, calls, backend, outside>>

(* Three attributes of the span, then log_params and log_metrics on the     *)
(* tracker, all inside the try statement.                                   *)
TrackGenerationRetried ==
  /\ pc = "telemetry"
  /\ \/ Goto("response")
     \/ "tracking" \in Faults /\ Goto("generate")
  /\ UNCHANGED <<agent, locals, calls, backend, outside>>

TrackGeneration ==
  /\ pc = "telemetry"
  /\ \/ Goto("response")
     \/ \E error \in Faults \cap {"tracing", "tracking"} : Raise(error)
  /\ UNCHANGED <<agent, locals, calls, backend, outside>>

LogResponse ==
  /\ pc = "response"
  /\ \/ Persisted("llm_response") /\ Goto("validate")
     \/ Rejected("llm_response") /\ Raise("audit")
  /\ UNCHANGED <<agent, locals, calls, outside>>

(* model_validate_json accepts the answer or raises ValidationError. *)
Validate ==
  /\ pc = "validate"
  /\ \E label \in {"finish", "invalid"} : Goto(label)
  /\ UNCHANGED <<agent, locals, calls, backend, outside>>

(* if attempt < MAX_VALIDATION_ATTEMPTS *)
CanRetryOffByOne == attempt <= MaxAttempts
CanRetry == attempt < MaxAttempts

(* log_error for the rejected answer; then one more attempt, or the agent's *)
(* validation error.  When the append fails the validation error is raised  *)
(* at once, chained to both failures, and the flag tells its handler.       *)
LogInvalid ==
  /\ pc = "invalid"
  /\ \/ /\ Persisted("error")
        /\ CanRetry
        /\ Goto("correct")
        /\ UNCHANGED auditBackendFailed
     \/ /\ Persisted("error")
        /\ ~CanRetry
        /\ pc' = "close"
        /\ primary' = "validation"
        /\ cause' = {"schema"}
        /\ UNCHANGED auditBackendFailed
     \/ /\ Rejected("error")
        /\ auditBackendFailed' = TRUE
        /\ pc' = "close"
        /\ primary' = "validation"
        /\ cause' = {"schema", "audit"}
  /\ UNCHANGED <<agent, attempt, trackingStatus, calls, outside>>

(* log_tool_call for the correction prompt.  The finance run counts the new *)
(* attempt after the append, the other runs before it.                      *)
PrepareCorrection ==
  /\ pc = "correct"
  /\ \/ /\ Persisted("tool_call")
        /\ attempt' = attempt + 1
        /\ Goto("request")
     \/ /\ Rejected("tool_call")
        /\ attempt' = IF Profile.countsFirst THEN attempt + 1 ELSE attempt
        /\ Raise("audit")
  /\ UNCHANGED <<agent, auditBackendFailed, trackingStatus, calls, outside>>

(* log_finish(success).  All runs but the CEO's then return. *)
LogSuccess ==
  /\ pc = "finish"
  /\ \/ /\ Persisted("finish_success")
        /\ IF Profile.publishes
             THEN Goto("publish") /\ UNCHANGED trackingStatus
             ELSE Goto("finally") /\ trackingStatus' = "FINISHED"
     \/ /\ Rejected("finish_success")
        /\ Raise("audit")
        /\ UNCHANGED trackingStatus
  /\ UNCHANGED <<agent, attempt, auditBackendFailed, calls, outside>>

(* The CEO run reads the audit log back and stores two artifacts, after its *)
(* success verdict is on record.                                            *)
Publish ==
  /\ pc = "publish"
  /\ \/ Goto("finally") /\ trackingStatus' = "FINISHED" /\ UNCHANGED refused
     \/ /\ "audit" \in Faults
        /\ refused' = refused + 1
        /\ Raise("audit")
        /\ UNCHANGED trackingStatus
     \/ /\ "tracking" \in Faults
        /\ Raise("tracking")
        /\ UNCHANGED <<refused, trackingStatus>>
  /\ UNCHANGED <<agent, attempt, auditBackendFailed, calls, trail, outside>>

-----------------------------------------------------------------------------
(* except ...ValidationError: nothing more is asked of a backend that just  *)
(* failed; otherwise log_finish(failed).                                    *)
CloseInvalid ==
  /\ pc = "close"
  /\ pc' = "finally"
  /\ \/ auditBackendFailed /\ UNCHANGED <<failure, backend>>
     \/ /\ ~auditBackendFailed
        /\ \/ Persisted("finish_failed") /\ UNCHANGED failure
           \/ Rejected("finish_failed") /\ ChainAudit
  /\ UNCHANGED <<agent, locals, calls, outside>>

(* _audit_primary_failure: log_error, then log_finish(failed), and nothing  *)
(* after the first append that fails.                                       *)
AuditErrorOnly ==
  /\ pc = "error"
  /\ pc' = "finally"
  /\ \/ Persisted("error") /\ UNCHANGED failure
     \/ Rejected("error") /\ ChainAudit
  /\ UNCHANGED <<agent, locals, calls, outside>>

AuditError ==
  /\ pc = "error"
  /\ \/ Persisted("error") /\ Goto("abort")
     \/ Rejected("error") /\ ChainAudit /\ pc' = "finally"
  /\ UNCHANGED <<agent, locals, calls, outside>>

AuditAbort ==
  /\ pc = "abort"
  /\ pc' = "finally"
  /\ \/ Persisted("finish_failed") /\ UNCHANGED failure
     \/ Rejected("finish_failed") /\ ChainAudit
  /\ UNCHANGED <<agent, locals, calls, outside>>

-----------------------------------------------------------------------------
(* finally: record_agent_metrics *)
RetryCountUnclamped == attempt - 1
RetryCountOffByOne == attempt
RetryCount == IF attempt = 0 THEN 0 ELSE attempt - 1

RecordMetrics ==
  /\ pc = "finally"
  /\ Goto("end_run")
  /\ totals' = [runs     |-> totals.runs + 1,
                retries  |-> totals.retries + RetryCount,
                failures |-> totals.failures
                               + (IF trackingStatus = "FINISHED" THEN 0 ELSE 1)]
  /\ UNCHANGED <<agent, locals, calls, backend, child, span>>

(* finally: log_metrics, log_tags, end_run.  The first failure skips what   *)
(* is left and is only logged; the tracker may have closed the run before   *)
(* it raised.                                                               *)
EndRunDefaultStatus ==
  /\ pc = "end_run"
  /\ Goto("end_span")
  /\ \/ child' = "FINISHED"
     \/ "tracking" \in Faults /\ UNCHANGED child
  /\ UNCHANGED <<agent, locals, calls, backend, span, totals>>

EndRun ==
  /\ pc = "end_run"
  /\ Goto("end_span")
  /\ \/ child' = trackingStatus
     \/ "tracking" \in Faults /\ UNCHANGED child
  /\ UNCHANGED <<agent, locals, calls, backend, span, totals>>

(* finally: record_exception, two attributes, end_span; failures are logged *)
(* and leave the span lost.                                                 *)
EndSpan ==
  /\ pc = "end_span"
  /\ Goto("done")
  /\ \/ span' = "ended"
     \/ "tracing" \in Faults /\ span' = "lost"
  /\ UNCHANGED <<agent, locals, calls, backend, child, totals>>

(* The caller has the result or the exception. *)
Finished == pc = "done" /\ UNCHANGED vars

-----------------------------------------------------------------------------
Step ==
  \/ LogStart \/ StartTracking \/ CalculateEvidence \/ BuildPrompt
  \/ LogRequest \/ Resume \/ TrackGeneration \/ LogResponse \/ Validate
  \/ LogInvalid \/ PrepareCorrection \/ LogSuccess \/ Publish
  \/ CloseInvalid \/ AuditError \/ AuditAbort
  \/ RecordMetrics \/ EndRun \/ EndSpan

Next == Step \/ Cancel \/ Finished

(* The event loop keeps running a task that can run.  That an awaited call  *)
(* comes back is owed to the SDKs of the hosted providers, whose requests    *)
(* time out by default; the Ollama client the composition root builds sets   *)
(* no timeout, and this fairness does not describe it.  Nobody has to        *)
(* cancel.                                                                  *)
Spec == Init /\ [][Next]_vars /\ WF_vars(Step)
-----------------------------------------------------------------------------
(* Properties *)

TypeOK ==
  /\ agent \in Agents
  /\ pc \in Labels
  /\ attempt \in 0 .. MaxAttempts
  /\ auditBackendFailed \in BOOLEAN
  /\ trackingStatus \in {"FAILED", "FINISHED"}
  /\ primary \in Errors \cup {"none"}
  /\ cause \subseteq Causes
  /\ calls \in 0 .. MaxAttempts
  /\ trail \in Seq(Events)
  /\ refused \in Nat
  /\ child \in {"none", "open", "FAILED", "FINISHED"}
  /\ span \in {"none", "open", "ended", "lost"}
  /\ totals \in [runs : Nat, retries : Nat, failures : Nat]

Positions(s, event) == {i \in DOMAIN s : s[i] = event}
Count(event) == Cardinality(Positions(trail, event))
VerdictCount == Count("finish_success") + Count("finish_failed")
Last == trail[Len(trail)]

(* Reporting a failure never replaces it: once an exception is under way it *)
(* is the one the caller gets, and no failure already reachable from it is  *)
(* lost when an audit failure is chained to it, whatever the audit, tracking *)
(* and tracing backends do meanwhile.                                       *)
PrimaryKept ==
  [][primary # "none" => primary' = primary /\ cause \subseteq cause']_vars

(* Every append that failed is visible in the exception the caller gets, as *)
(* the primary error or chained to it, and there are no others: a backend   *)
(* that is down is asked again at most once, and only to record its own     *)
(* failure.                                                                 *)
AuditFailuresSurface ==
  refused = (IF primary = "audit" THEN 1 ELSE 0)
              + (IF "audit" \in cause THEN 1 ELSE 0)

(* The provider is never called without a persisted llm_request of its own, *)
(* at most MAX_VALIDATION_ATTEMPTS times, and no response is on record that *)
(* no call returned.                                                        *)
EveryCallAudited ==
  /\ calls <= Count("llm_request")
  /\ calls <= MaxAttempts
  /\ Count("llm_response") <= calls

(* What the trail says about a finished run is what the caller was given.   *)
(* A result is only returned behind a success verdict that nothing follows  *)
(* or contradicts; a success verdict whose run then failed is possible only *)
(* where the code leaves room for it, in the CEO run's publication step or  *)
(* behind an append that was committed and still raised.                    *)
VerdictMatchesResult ==
  pc = "done" =>
    IF primary = "none"
      THEN /\ Last = "finish_success"
           /\ VerdictCount = 1
      ELSE Count("finish_success") > 0 =>
             \/ Profile.publishes
             \/ refused > 0 /\ "lost_ack" \in Faults

(* A run that got as far as its tracker, was not cancelled and met no audit *)
(* failure closes its trail: the last event is a verdict and, except for    *)
(* the CEO run's publication step, the only one.                            *)
TrailClosed ==
  (pc = "done" /\ refused = 0 /\ primary # "cancelled" /\ child # "none") =>
    /\ Last \in Verdicts
    /\ VerdictCount = 1 \/ Profile.publishes

(* agent_retry_total counts the correction requests that were sent.  The    *)
(* one exception: a retry is counted although the audit backend stopped it  *)
(* before the provider was called.                                          *)
RetriesReported ==
  totals.runs = 1 =>
    \/ totals.retries = (IF calls = 0 THEN 0 ELSE calls - 1)
    \/ primary = "audit" /\ totals.retries = calls

(* The registry, the tracker, the tracer and the caller tell one story: a   *)
(* run that was tracked is counted exactly once, as a failure iff it raised; *)
(* the tracker's final status agrees; only a run that never reached the     *)
(* try statement never tries to end its span.                               *)
OutcomesAgree ==
  pc = "done" =>
    /\ totals.runs = (IF child = "none" THEN 0 ELSE 1)
    /\ totals.failures = (IF primary = "none" THEN 0 ELSE totals.runs)
    /\ child \in {"FAILED", "FINISHED"} =>
         (child = "FINISHED" <=> primary = "none")
    /\ span = "open" => child = "none"

(* A run implements the contract its callers rely on: whatever the backends *)
(* do, at most MAX_VALIDATION_ATTEMPTS provider calls, none once the outcome *)
(* is settled, and exactly one delivery of that outcome.                    *)
Contract == INSTANCE AgentContract WITH
  phase <- (IF pc = "done" THEN "delivered"
            ELSE IF pc \in Opening \cup Body THEN "working"
            ELSE "settled"),
  error <- primary

ImplementsContract == Contract!Spec

(* Whatever fails, the coroutine hands its caller a result or an exception. *)
Termination == <>(pc = "done")

-----------------------------------------------------------------------------
(* What the repository says of the runs and the code does not do *)

(* config.py: experiment tracking is enabled "without changing application  *)
(* logic": the tracker never decides how a run ends.                        *)
TrackingIsTransparent == primary # "tracking"

(* finance_agent.py: _audit_primary_failure avoids "asking a failing        *)
(* backend to record its own failure": once a run fails with the backend's  *)
(* AuditError, it appends nothing more.                                     *)
NoRecursiveAudit == [][primary = "audit" => UNCHANGED backend]_vars
=============================================================================
