--------------------------- MODULE AgentRunProofs ---------------------------
(***************************************************************************)
(* Theorems about  AgentRun  for every set of agents, every bound on the    *)
(* attempts and every combination of faults.                                *)
(***************************************************************************)
EXTENDS AgentRun, FiniteSetTheorems, TLAPS

(***************************************************************************)
(* The inductive invariant.  Each part says what the code's position in the *)
(* coroutine implies for one group of variables.                            *)
(***************************************************************************)
AfterRequest == {"generate", "telemetry", "response", "validate", "invalid",
                 "correct", "finish", "publish"}

(* How the run can be failing, by where it is. *)
FailureShape ==
  /\ pc \in Opening \cup Body =>
       primary = "none" /\ cause = {} /\ refused = 0 /\ ~auditBackendFailed
  /\ pc \in {"error", "abort"} =>
       primary \notin {"none", "validation"} /\ "audit" \notin cause
  /\ pc = "close" =>
       /\ primary = "validation"
       /\ auditBackendFailed <=> "audit" \in cause
  /\ primary = "none" => cause = {} /\ pc \notin Handling

(* The coroutine reports success exactly when nothing went wrong. *)
StatusShape ==
  trackingStatus = "FINISHED" <=>
    pc \in Finalizing \cup {"done"} /\ primary = "none"

(* What the finally block has done so far. *)
FinalShape ==
  /\ pc = "start" => span = "none"
  /\ pc \in Opening => child = "none"
  /\ pc = "done" /\ child = "none" => primary # "none"
  /\ pc \in Labels \ (Opening \cup {"done"}) => child # "none"
  /\ pc \in Labels \ {"end_span", "done"} => child \in {"none", "open"}
  /\ pc \in {"end_span", "done"} => child \in {"none", "open", trackingStatus}
  /\ pc \notin {"end_run", "end_span", "done"} =>
       totals = [runs |-> 0, retries |-> 0, failures |-> 0]
  /\ pc \in {"end_run", "end_span", "done"} =>
       totals = IF child = "none"
                  THEN [runs |-> 0, retries |-> 0, failures |-> 0]
                  ELSE [runs |-> 1,
                        retries |-> RetryCount,
                        failures |-> IF primary = "none" THEN 0 ELSE 1]
  /\ pc = "done" /\ span = "open" => child = "none"

(* Attempts counted against calls issued. *)
AttemptShape ==
  /\ pc \in Opening \cup {"calculate", "prompt"} => attempt = 0 /\ calls = 0
  /\ pc = "request" => attempt = calls + 1
  /\ pc \in AfterRequest => attempt = calls /\ calls > 0
  /\ pc = "correct" => attempt < MaxAttempts
  /\ attempt = calls \/ (attempt = calls + 1 /\ (pc = "request" \/ primary = "audit"))

IInv ==
  /\ TypeOK
  /\ FailureShape
  /\ StatusShape
  /\ FinalShape
  /\ AttemptShape
  /\ AuditFailuresSurface
-----------------------------------------------------------------------------
LEMMA InitIInv == Init => IInv
<1> SUFFICES ASSUME Init PROVE IInv
  OBVIOUS
<1>1. <<>> \in Seq(Events)
  OBVIOUS
<1>2. 0 \in 0 .. MaxAttempts
  BY AttemptsAssumption
<1>3. TypeOK
  BY <1>1, <1>2, Zenon DEF Init, TypeOK, Labels, Opening, Errors
<1>4. FailureShape /\ StatusShape /\ FinalShape /\ AttemptShape
  BY DEF Init, FailureShape, StatusShape, FinalShape, AttemptShape, Labels,
     Opening, Body, Handling, Finalizing, AfterRequest, RetryCount
<1>5. AuditFailuresSurface
  BY DEF Init, AuditFailuresSurface
<1> QED
  BY <1>3, <1>4, <1>5 DEF IInv

(* Whatever an append does, the trail stays a sequence of events. *)
LEMMA AppendTyped ==
  ASSUME trail \in Seq(Events), refused \in Nat,
         NEW event \in Events, Persisted(event) \/ Rejected(event)
  PROVE  trail' \in Seq(Events) /\ refused' \in Nat
<1>1. Append(trail, event) \in Seq(Events)
  OBVIOUS
<1> QED
  BY <1>1 DEF Persisted, Rejected

LEMMA NextIInv == IInv /\ [Next]_vars => IInv'
<1> SUFFICES ASSUME IInv, [Next]_vars
             PROVE  IInv'
  OBVIOUS
<1> USE AttemptsAssumption
    DEF IInv, Labels, Opening, Body, Handling, Finalizing, AfterRequest,
        locals, failure, backend, outside
<1>1. CASE LogStart
  <2>1. trail' \in Seq(Events) /\ refused' \in Nat
    BY <1>1, AppendTyped DEF LogStart, TypeOK, Events
  <2>2. TypeOK'
    BY <1>1, <2>1 DEF LogStart, Goto, Escape,
       TypeOK, FinalShape, AttemptShape, Errors, Causes
  <2>3. FailureShape'
    BY <1>1 DEF LogStart, Persisted, Rejected, Goto, Escape,
       TypeOK, FailureShape
  <2>4. StatusShape'
    BY <1>1 DEF LogStart, Persisted, Rejected, Goto, Escape,
       TypeOK, FailureShape, StatusShape
  <2>5. FinalShape'
    BY <1>1 DEF LogStart, Persisted, Rejected, Goto, Escape,
       TypeOK, FailureShape, StatusShape, FinalShape, AttemptShape, RetryCount
  <2>6. AttemptShape'
    BY <1>1 DEF LogStart, Persisted, Rejected, Goto, Escape,
       TypeOK, FailureShape, AttemptShape
  <2>7. AuditFailuresSurface'
    BY <1>1 DEF LogStart, Persisted, Rejected, Goto, Escape,
       TypeOK, FailureShape, AuditFailuresSurface
  <2> QED
    BY <2>2, <2>3, <2>4, <2>5, <2>6, <2>7
<1>2. CASE StartTracking
  <2>1. TypeOK'
    BY <1>2 DEF StartTracking, Goto, Escape,
       TypeOK, FinalShape, AttemptShape, Errors, Causes, Events
  <2>2. FailureShape'
    BY <1>2 DEF StartTracking, Goto, Escape,
       TypeOK, FailureShape
  <2>3. StatusShape'
    BY <1>2 DEF StartTracking, Goto, Escape,
       TypeOK, FailureShape, StatusShape
  <2>4. FinalShape'
    BY <1>2 DEF StartTracking, Goto, Escape,
       TypeOK, FailureShape, StatusShape, FinalShape, AttemptShape, RetryCount
  <2>5. AttemptShape'
    BY <1>2 DEF StartTracking, Goto, Escape,
       TypeOK, FailureShape, AttemptShape
  <2>6. AuditFailuresSurface'
    BY <1>2 DEF StartTracking, Goto, Escape,
       TypeOK, FailureShape, AuditFailuresSurface
  <2> QED
    BY <2>1, <2>2, <2>3, <2>4, <2>5, <2>6
<1>3. CASE CalculateEvidence
  <2>1. trail' \in Seq(Events) /\ refused' \in Nat
    BY <1>3, AppendTyped DEF CalculateEvidence, TypeOK, Events
  <2>2. TypeOK'
    BY <1>3, <2>1 DEF CalculateEvidence, Goto, Raise,
       TypeOK, FinalShape, AttemptShape, Errors, Causes
  <2>3. FailureShape'
    BY <1>3 DEF CalculateEvidence, Persisted, Rejected, Goto, Raise,
       TypeOK, FailureShape
  <2>4. StatusShape'
    BY <1>3 DEF CalculateEvidence, Persisted, Rejected, Goto, Raise,
       TypeOK, FailureShape, StatusShape
  <2>5. FinalShape'
    BY <1>3 DEF CalculateEvidence, Persisted, Rejected, Goto, Raise,
       TypeOK, FailureShape, StatusShape, FinalShape, AttemptShape, RetryCount
  <2>6. AttemptShape'
    BY <1>3 DEF CalculateEvidence, Persisted, Rejected, Goto, Raise,
       TypeOK, FailureShape, AttemptShape
  <2>7. AuditFailuresSurface'
    BY <1>3 DEF CalculateEvidence, Persisted, Rejected, Goto, Raise,
       TypeOK, FailureShape, AuditFailuresSurface
  <2> QED
    BY <2>2, <2>3, <2>4, <2>5, <2>6, <2>7
<1>4. CASE BuildPrompt
  <2>1. trail' \in Seq(Events) /\ refused' \in Nat
    BY <1>4, AppendTyped DEF BuildPrompt, TypeOK, Events
  <2>2. attempt' \in 0 .. MaxAttempts
    BY <1>4 DEF BuildPrompt, TypeOK, AttemptShape
  <2>3. TypeOK'
    BY <1>4, <2>1, <2>2 DEF BuildPrompt, Goto, Raise,
       TypeOK, FinalShape, AttemptShape, Errors, Causes
  <2>4. FailureShape'
    BY <1>4 DEF BuildPrompt, Persisted, Rejected, Goto, Raise,
       TypeOK, FailureShape
  <2>5. StatusShape'
    BY <1>4 DEF BuildPrompt, Persisted, Rejected, Goto, Raise,
       TypeOK, FailureShape, StatusShape
  <2>6. FinalShape'
    BY <1>4 DEF BuildPrompt, Persisted, Rejected, Goto, Raise,
       TypeOK, FailureShape, StatusShape, FinalShape, AttemptShape, RetryCount
  <2>7. AttemptShape'
    BY <1>4 DEF BuildPrompt, Persisted, Rejected, Goto, Raise,
       TypeOK, FailureShape, AttemptShape
  <2>8. AuditFailuresSurface'
    BY <1>4 DEF BuildPrompt, Persisted, Rejected, Goto, Raise,
       TypeOK, FailureShape, AuditFailuresSurface
  <2> QED
    BY <2>3, <2>4, <2>5, <2>6, <2>7, <2>8
<1>5. CASE LogRequest
  <2>1. trail' \in Seq(Events) /\ refused' \in Nat
    BY <1>5, AppendTyped DEF LogRequest, TypeOK, Events
  <2>2. TypeOK'
    BY <1>5, <2>1 DEF LogRequest, Goto, Raise,
       TypeOK, FinalShape, AttemptShape, Errors, Causes
  <2>3. FailureShape'
    BY <1>5 DEF LogRequest, Persisted, Rejected, Goto, Raise,
       TypeOK, FailureShape
  <2>4. StatusShape'
    BY <1>5 DEF LogRequest, Persisted, Rejected, Goto, Raise,
       TypeOK, FailureShape, StatusShape
  <2>5. FinalShape'
    BY <1>5 DEF LogRequest, Persisted, Rejected, Goto, Raise,
       TypeOK, FailureShape, StatusShape, FinalShape, AttemptShape, RetryCount
  <2>6. AttemptShape'
    BY <1>5 DEF LogRequest, Persisted, Rejected, Goto, Raise,
       TypeOK, FailureShape, AttemptShape
  <2>7. AuditFailuresSurface'
    BY <1>5 DEF LogRequest, Persisted, Rejected, Goto, Raise,
       TypeOK, FailureShape, AuditFailuresSurface
  <2> QED
    BY <2>2, <2>3, <2>4, <2>5, <2>6, <2>7
<1>6. CASE Resume
  <2>1. TypeOK'
    BY <1>6 DEF Resume, Goto, Raise,
       TypeOK, FinalShape, AttemptShape, Errors, Causes, Events
  <2>2. FailureShape'
    BY <1>6 DEF Resume, Goto, Raise,
       TypeOK, FailureShape
  <2>3. StatusShape'
    BY <1>6 DEF Resume, Goto, Raise,
       TypeOK, FailureShape, StatusShape
  <2>4. FinalShape'
    BY <1>6 DEF Resume, Goto, Raise,
       TypeOK, FailureShape, StatusShape, FinalShape, AttemptShape, RetryCount
  <2>5. AttemptShape'
    BY <1>6 DEF Resume, Goto, Raise,
       TypeOK, FailureShape, AttemptShape
  <2>6. AuditFailuresSurface'
    BY <1>6 DEF Resume, Goto, Raise,
       TypeOK, FailureShape, AuditFailuresSurface
  <2> QED
    BY <2>1, <2>2, <2>3, <2>4, <2>5, <2>6
<1>7. CASE TrackGeneration
  <2>1. TypeOK'
    BY <1>7 DEF TrackGeneration, Goto, Raise,
       TypeOK, FinalShape, AttemptShape, Errors, Causes, Events
  <2>2. FailureShape'
    BY <1>7 DEF TrackGeneration, Goto, Raise,
       TypeOK, FailureShape
  <2>3. StatusShape'
    BY <1>7 DEF TrackGeneration, Goto, Raise,
       TypeOK, FailureShape, StatusShape
  <2>4. FinalShape'
    BY <1>7 DEF TrackGeneration, Goto, Raise,
       TypeOK, FailureShape, StatusShape, FinalShape, AttemptShape, RetryCount
  <2>5. AttemptShape'
    BY <1>7 DEF TrackGeneration, Goto, Raise,
       TypeOK, FailureShape, AttemptShape
  <2>6. AuditFailuresSurface'
    BY <1>7 DEF TrackGeneration, Goto, Raise,
       TypeOK, FailureShape, AuditFailuresSurface
  <2> QED
    BY <2>1, <2>2, <2>3, <2>4, <2>5, <2>6
<1>8. CASE LogResponse
  <2>1. trail' \in Seq(Events) /\ refused' \in Nat
    BY <1>8, AppendTyped DEF LogResponse, TypeOK, Events
  <2>2. TypeOK'
    BY <1>8, <2>1 DEF LogResponse, Goto, Raise,
       TypeOK, FinalShape, AttemptShape, Errors, Causes
  <2>3. FailureShape'
    BY <1>8 DEF LogResponse, Persisted, Rejected, Goto, Raise,
       TypeOK, FailureShape
  <2>4. StatusShape'
    BY <1>8 DEF LogResponse, Persisted, Rejected, Goto, Raise,
       TypeOK, FailureShape, StatusShape
  <2>5. FinalShape'
    BY <1>8 DEF LogResponse, Persisted, Rejected, Goto, Raise,
       TypeOK, FailureShape, StatusShape, FinalShape, AttemptShape, RetryCount
  <2>6. AttemptShape'
    BY <1>8 DEF LogResponse, Persisted, Rejected, Goto, Raise,
       TypeOK, FailureShape, AttemptShape
  <2>7. AuditFailuresSurface'
    BY <1>8 DEF LogResponse, Persisted, Rejected, Goto, Raise,
       TypeOK, FailureShape, AuditFailuresSurface
  <2> QED
    BY <2>2, <2>3, <2>4, <2>5, <2>6, <2>7
<1>9. CASE Validate
  <2>1. TypeOK'
    BY <1>9 DEF Validate, Goto,
       TypeOK, FinalShape, AttemptShape, Errors, Causes, Events
  <2>2. FailureShape'
    BY <1>9 DEF Validate, Goto,
       TypeOK, FailureShape
  <2>3. StatusShape'
    BY <1>9 DEF Validate, Goto,
       TypeOK, FailureShape, StatusShape
  <2>4. FinalShape'
    BY <1>9 DEF Validate, Goto,
       TypeOK, FailureShape, StatusShape, FinalShape, AttemptShape, RetryCount
  <2>5. AttemptShape'
    BY <1>9 DEF Validate, Goto,
       TypeOK, FailureShape, AttemptShape
  <2>6. AuditFailuresSurface'
    BY <1>9 DEF Validate, Goto,
       TypeOK, FailureShape, AuditFailuresSurface
  <2> QED
    BY <2>1, <2>2, <2>3, <2>4, <2>5, <2>6
<1>10. CASE LogInvalid
  <2>1. trail' \in Seq(Events) /\ refused' \in Nat
    BY <1>10, AppendTyped DEF LogInvalid, TypeOK, Events
  <2>2. TypeOK'
    BY <1>10, <2>1 DEF LogInvalid, CanRetry, Goto,
       TypeOK, FinalShape, AttemptShape, Errors, Causes
  <2>3. FailureShape'
    BY <1>10 DEF LogInvalid, CanRetry, Persisted, Rejected, Goto,
       TypeOK, FailureShape
  <2>4. StatusShape'
    BY <1>10 DEF LogInvalid, CanRetry, Persisted, Rejected, Goto,
       TypeOK, FailureShape, StatusShape
  <2>5. FinalShape'
    BY <1>10 DEF LogInvalid, CanRetry, Persisted, Rejected, Goto,
       TypeOK, FailureShape, StatusShape, FinalShape, AttemptShape, RetryCount
  <2>6. AttemptShape'
    BY <1>10 DEF LogInvalid, CanRetry, Persisted, Rejected, Goto,
       TypeOK, FailureShape, AttemptShape
  <2>7. AuditFailuresSurface'
    BY <1>10 DEF LogInvalid, CanRetry, Persisted, Rejected, Goto,
       TypeOK, FailureShape, AuditFailuresSurface
  <2> QED
    BY <2>2, <2>3, <2>4, <2>5, <2>6, <2>7
<1>11. CASE PrepareCorrection
  <2>1. trail' \in Seq(Events) /\ refused' \in Nat
    BY <1>11, AppendTyped DEF PrepareCorrection, TypeOK, Events
  <2>2. attempt' \in 0 .. MaxAttempts
    BY <1>11 DEF PrepareCorrection, TypeOK, AttemptShape
  <2>3. TypeOK'
    BY <1>11, <2>1, <2>2 DEF PrepareCorrection, Goto, Raise,
       TypeOK, FinalShape, AttemptShape, Errors, Causes
  <2>4. FailureShape'
    BY <1>11 DEF PrepareCorrection, Persisted, Rejected, Goto, Raise,
       TypeOK, FailureShape
  <2>5. StatusShape'
    BY <1>11 DEF PrepareCorrection, Persisted, Rejected, Goto, Raise,
       TypeOK, FailureShape, StatusShape
  <2>6. FinalShape'
    BY <1>11 DEF PrepareCorrection, Persisted, Rejected, Goto, Raise,
       TypeOK, FailureShape, StatusShape, FinalShape, AttemptShape, RetryCount
  <2>7. AttemptShape'
    BY <1>11 DEF PrepareCorrection, Persisted, Rejected, Goto, Raise,
       TypeOK, FailureShape, AttemptShape
  <2>8. AuditFailuresSurface'
    BY <1>11 DEF PrepareCorrection, Persisted, Rejected, Goto, Raise,
       TypeOK, FailureShape, AuditFailuresSurface
  <2> QED
    BY <2>3, <2>4, <2>5, <2>6, <2>7, <2>8
<1>12. CASE LogSuccess
  <2>1. trail' \in Seq(Events) /\ refused' \in Nat
    BY <1>12, AppendTyped DEF LogSuccess, TypeOK, Events
  <2>2. TypeOK'
    BY <1>12, <2>1 DEF LogSuccess, Goto, Raise,
       TypeOK, FinalShape, AttemptShape, Errors, Causes
  <2>3. FailureShape'
    BY <1>12 DEF LogSuccess, Persisted, Rejected, Goto, Raise,
       TypeOK, FailureShape
  <2>4. StatusShape'
    BY <1>12 DEF LogSuccess, Persisted, Rejected, Goto, Raise,
       TypeOK, FailureShape, StatusShape
  <2>5. FinalShape'
    BY <1>12 DEF LogSuccess, Persisted, Rejected, Goto, Raise,
       TypeOK, FailureShape, StatusShape, FinalShape, AttemptShape, RetryCount
  <2>6. AttemptShape'
    BY <1>12 DEF LogSuccess, Persisted, Rejected, Goto, Raise,
       TypeOK, FailureShape, AttemptShape
  <2>7. AuditFailuresSurface'
    BY <1>12 DEF LogSuccess, Persisted, Rejected, Goto, Raise,
       TypeOK, FailureShape, AuditFailuresSurface
  <2> QED
    BY <2>2, <2>3, <2>4, <2>5, <2>6, <2>7
<1>13. CASE Publish
  <2>1. refused' \in Nat
    BY <1>13 DEF Publish, TypeOK
  <2>2. pc' \in Labels /\ primary' \in Errors \cup {"none"} /\ cause' \subseteq Causes
    BY <1>13 DEF Publish, Goto, Raise, TypeOK, Errors, Causes
  <2>3. TypeOK'
    BY <1>13, <2>1, <2>2 DEF Publish, TypeOK
  <2>4. FailureShape'
    BY <1>13 DEF Publish, Goto, Raise,
       TypeOK, FailureShape
  <2>5. StatusShape'
    BY <1>13 DEF Publish, Goto, Raise,
       TypeOK, FailureShape, StatusShape
  <2>6. FinalShape'
    BY <1>13 DEF Publish, Goto, Raise,
       TypeOK, FailureShape, StatusShape, FinalShape, AttemptShape, RetryCount
  <2>7. AttemptShape'
    BY <1>13 DEF Publish, Goto, Raise,
       TypeOK, FailureShape, AttemptShape
  <2>8. AuditFailuresSurface'
    BY <1>13 DEF Publish, Goto, Raise,
       TypeOK, FailureShape, AuditFailuresSurface
  <2> QED
    BY <2>3, <2>4, <2>5, <2>6, <2>7, <2>8
<1>14. CASE CloseInvalid
  <2>1. trail' \in Seq(Events) /\ refused' \in Nat
    BY <1>14, AppendTyped DEF CloseInvalid, TypeOK, Events
  <2>2. TypeOK'
    BY <1>14, <2>1 DEF CloseInvalid, ChainAudit,
       TypeOK, FinalShape, AttemptShape, Errors, Causes
  <2>3. FailureShape'
    BY <1>14 DEF CloseInvalid, Persisted, Rejected, ChainAudit,
       TypeOK, FailureShape
  <2>4. StatusShape'
    BY <1>14 DEF CloseInvalid, Persisted, Rejected, ChainAudit,
       TypeOK, FailureShape, StatusShape
  <2>5. FinalShape'
    BY <1>14 DEF CloseInvalid, Persisted, Rejected, ChainAudit,
       TypeOK, FailureShape, StatusShape, FinalShape, AttemptShape, RetryCount
  <2>6. AttemptShape'
    BY <1>14 DEF CloseInvalid, Persisted, Rejected, ChainAudit,
       TypeOK, FailureShape, AttemptShape
  <2>7. AuditFailuresSurface'
    BY <1>14 DEF CloseInvalid, Persisted, Rejected, ChainAudit,
       TypeOK, FailureShape, AuditFailuresSurface
  <2> QED
    BY <2>2, <2>3, <2>4, <2>5, <2>6, <2>7
<1>15. CASE AuditError
  <2>1. trail' \in Seq(Events) /\ refused' \in Nat
    BY <1>15, AppendTyped DEF AuditError, TypeOK, Events
  <2>2. TypeOK'
    BY <1>15, <2>1 DEF AuditError, Goto, ChainAudit,
       TypeOK, FinalShape, AttemptShape, Errors, Causes
  <2>3. FailureShape'
    BY <1>15 DEF AuditError, Persisted, Rejected, Goto, ChainAudit,
       TypeOK, FailureShape
  <2>4. StatusShape'
    BY <1>15 DEF AuditError, Persisted, Rejected, Goto, ChainAudit,
       TypeOK, FailureShape, StatusShape
  <2>5. FinalShape'
    BY <1>15 DEF AuditError, Persisted, Rejected, Goto, ChainAudit,
       TypeOK, FailureShape, StatusShape, FinalShape, AttemptShape, RetryCount
  <2>6. AttemptShape'
    BY <1>15 DEF AuditError, Persisted, Rejected, Goto, ChainAudit,
       TypeOK, FailureShape, AttemptShape
  <2>7. AuditFailuresSurface'
    BY <1>15 DEF AuditError, Persisted, Rejected, Goto, ChainAudit,
       TypeOK, FailureShape, AuditFailuresSurface
  <2> QED
    BY <2>2, <2>3, <2>4, <2>5, <2>6, <2>7
<1>16. CASE AuditAbort
  <2>1. trail' \in Seq(Events) /\ refused' \in Nat
    BY <1>16, AppendTyped DEF AuditAbort, TypeOK, Events
  <2>2. TypeOK'
    BY <1>16, <2>1 DEF AuditAbort, ChainAudit,
       TypeOK, FinalShape, AttemptShape, Errors, Causes
  <2>3. FailureShape'
    BY <1>16 DEF AuditAbort, Persisted, Rejected, ChainAudit,
       TypeOK, FailureShape
  <2>4. StatusShape'
    BY <1>16 DEF AuditAbort, Persisted, Rejected, ChainAudit,
       TypeOK, FailureShape, StatusShape
  <2>5. FinalShape'
    BY <1>16 DEF AuditAbort, Persisted, Rejected, ChainAudit,
       TypeOK, FailureShape, StatusShape, FinalShape, AttemptShape, RetryCount
  <2>6. AttemptShape'
    BY <1>16 DEF AuditAbort, Persisted, Rejected, ChainAudit,
       TypeOK, FailureShape, AttemptShape
  <2>7. AuditFailuresSurface'
    BY <1>16 DEF AuditAbort, Persisted, Rejected, ChainAudit,
       TypeOK, FailureShape, AuditFailuresSurface
  <2> QED
    BY <2>2, <2>3, <2>4, <2>5, <2>6, <2>7
<1>17. CASE RecordMetrics
  <2>1. TypeOK'
    BY <1>17 DEF RecordMetrics, Goto,
       TypeOK, FinalShape, AttemptShape, Errors, Causes, Events, RetryCount
  <2>2. FailureShape'
    BY <1>17 DEF RecordMetrics, Goto,
       TypeOK, FailureShape
  <2>3. StatusShape'
    BY <1>17 DEF RecordMetrics, Goto,
       TypeOK, FailureShape, StatusShape
  <2>4. FinalShape'
    BY <1>17 DEF RecordMetrics, Goto,
       TypeOK, FailureShape, StatusShape, FinalShape, AttemptShape, RetryCount
  <2>5. AttemptShape'
    BY <1>17 DEF RecordMetrics, Goto,
       TypeOK, FailureShape, AttemptShape
  <2>6. AuditFailuresSurface'
    BY <1>17 DEF RecordMetrics, Goto,
       TypeOK, FailureShape, AuditFailuresSurface
  <2> QED
    BY <2>1, <2>2, <2>3, <2>4, <2>5, <2>6
<1>18. CASE EndRun
  <2>1. TypeOK'
    BY <1>18 DEF EndRun, Goto,
       TypeOK, FinalShape, AttemptShape, Errors, Causes, Events
  <2>2. FailureShape'
    BY <1>18 DEF EndRun, Goto,
       TypeOK, FailureShape
  <2>3. StatusShape'
    BY <1>18 DEF EndRun, Goto,
       TypeOK, FailureShape, StatusShape
  <2>4. FinalShape'
    BY <1>18 DEF EndRun, Goto,
       TypeOK, FailureShape, StatusShape, FinalShape, AttemptShape, RetryCount
  <2>5. AttemptShape'
    BY <1>18 DEF EndRun, Goto,
       TypeOK, FailureShape, AttemptShape
  <2>6. AuditFailuresSurface'
    BY <1>18 DEF EndRun, Goto,
       TypeOK, FailureShape, AuditFailuresSurface
  <2> QED
    BY <2>1, <2>2, <2>3, <2>4, <2>5, <2>6
<1>19. CASE EndSpan
  <2>1. TypeOK'
    BY <1>19 DEF EndSpan, Goto,
       TypeOK, FinalShape, AttemptShape, Errors, Causes, Events
  <2>2. FailureShape'
    BY <1>19 DEF EndSpan, Goto,
       TypeOK, FailureShape
  <2>3. StatusShape'
    BY <1>19 DEF EndSpan, Goto,
       TypeOK, FailureShape, StatusShape
  <2>4. FinalShape'
    BY <1>19 DEF EndSpan, Goto,
       TypeOK, FailureShape, StatusShape, FinalShape, AttemptShape, RetryCount
  <2>5. AttemptShape'
    BY <1>19 DEF EndSpan, Goto,
       TypeOK, FailureShape, AttemptShape
  <2>6. AuditFailuresSurface'
    BY <1>19 DEF EndSpan, Goto,
       TypeOK, FailureShape, AuditFailuresSurface
  <2> QED
    BY <2>1, <2>2, <2>3, <2>4, <2>5, <2>6
<1>20. CASE Cancel
  <2>1. TypeOK'
    BY <1>20 DEF Cancel,
       TypeOK, FinalShape, AttemptShape, Errors, Causes, Events
  <2>2. FailureShape'
    BY <1>20 DEF Cancel,
       TypeOK, FailureShape
  <2>3. StatusShape'
    BY <1>20 DEF Cancel,
       TypeOK, FailureShape, StatusShape
  <2>4. FinalShape'
    BY <1>20 DEF Cancel,
       TypeOK, FailureShape, StatusShape, FinalShape, AttemptShape, RetryCount
  <2>5. AttemptShape'
    BY <1>20 DEF Cancel,
       TypeOK, FailureShape, AttemptShape
  <2>6. AuditFailuresSurface'
    BY <1>20 DEF Cancel,
       TypeOK, FailureShape, AuditFailuresSurface
  <2> QED
    BY <2>1, <2>2, <2>3, <2>4, <2>5, <2>6
<1>21. CASE UNCHANGED vars
  BY <1>21 DEF vars, TypeOK, FailureShape, StatusShape, FinalShape, AttemptShape,
     AuditFailuresSurface, RetryCount
<1>22. QED
  BY <1>1, <1>2, <1>3, <1>4, <1>5, <1>6, <1>7, <1>8, <1>9, <1>10, <1>11, <1>12, <1>13, <1>14, <1>15, <1>16, <1>17, <1>18, <1>19, <1>20, <1>21 DEF Next, Step, Finished
-----------------------------------------------------------------------------
LEMMA Invariant == Spec => []IInv
  BY InitIInv, NextIInv, PTL DEF Spec

(* Every variable of a run keeps its type: in particular the attempt and    *)
(* call counters never pass MAX_VALIDATION_ATTEMPTS.                        *)
THEOREM TypeCorrect == Spec => []TypeOK
  BY Invariant, PTL DEF IInv

(* No audit failure disappears: each one is the exception the caller gets,  *)
(* or is chained to it, and a failing backend is asked at most once more.   *)
THEOREM AuditFailuresAlwaysSurface == Spec => []AuditFailuresSurface
  BY Invariant, PTL DEF IInv

(* The metrics registry, the tracker, the tracer and the caller agree on    *)
(* how a run ended.                                                         *)
THEOREM OutcomesAlwaysAgree == Spec => []OutcomesAgree
<1>1. IInv => OutcomesAgree
  <2> SUFFICES ASSUME IInv, pc = "done" PROVE OutcomesAgree
    BY DEF OutcomesAgree
  <2>1. TypeOK /\ StatusShape /\ FinalShape
    BY DEF IInv
  <2> QED
    BY <2>1 DEF OutcomesAgree, TypeOK, StatusShape, FinalShape
<1> QED
  BY <1>1, Invariant, PTL

(* The retry counter is the number of corrections sent, except that a retry *)
(* stopped by the audit backend is counted too.                             *)
THEOREM RetriesAlwaysReported == Spec => []RetriesReported
<1>1. IInv => RetriesReported
  BY DEF IInv, RetriesReported, TypeOK, FinalShape, AttemptShape, RetryCount,
     Labels, Opening, Body, Handling, Finalizing
<1> QED
  BY <1>1, Invariant, PTL

(* The exception under way is never replaced and its chain never shrinks.   *)
THEOREM PrimaryAlwaysKept == Spec => PrimaryKept
<1>1. IInv /\ [Next]_vars => [primary # "none" => primary' = primary /\ cause \subseteq cause']_vars
  <2> SUFFICES ASSUME IInv, Next, primary # "none"
               PROVE  primary' = primary /\ cause \subseteq cause'
    BY DEF vars
  <2>1. pc \in Handling \cup Finalizing \cup {"done"}
    BY DEF IInv, TypeOK, FailureShape, Labels
  <2> QED
    BY <2>1 DEF Next, Step, Finished, Handling, Finalizing, failure, vars,
       LogStart, StartTracking, CalculateEvidence, BuildPrompt, LogRequest,
       Resume, Cancel, TrackGeneration, LogResponse, Validate, LogInvalid,
       PrepareCorrection, LogSuccess, Publish, CloseInvalid, AuditError,
       AuditAbort, RecordMetrics, EndRun, EndSpan, Goto, ChainAudit
<1> QED
  BY <1>1, Invariant, PTL DEF Spec, PrimaryKept
-----------------------------------------------------------------------------
(* How an append changes the number of events of one type. *)
LEMMA CountAppend ==
  ASSUME NEW s \in Seq(Events), NEW e \in Events, NEW x \in Events
  PROVE  /\ IsFiniteSet(Positions(s, x))
         /\ Cardinality(Positions(s, x)) \in Nat
         /\ Cardinality(Positions(Append(s, e), x))
              = Cardinality(Positions(s, x)) + (IF e = x THEN 1 ELSE 0)
<1> DEFINE t == Append(s, e)
           n == Len(s) + 1
<1>1. /\ Len(s) \in Nat
      /\ DOMAIN s = 1 .. Len(s)
      /\ DOMAIN t = 1 .. n
      /\ t[n] = e
      /\ \A i \in 1 .. Len(s) : t[i] = s[i]
  OBVIOUS
<1>2. IsFiniteSet(Positions(s, x))
  <2>1. IsFiniteSet(1 .. Len(s))
    BY <1>1, FS_Interval
  <2> QED
    BY <1>1, <2>1, FS_Subset DEF Positions
<1>3. Cardinality(Positions(s, x)) \in Nat
  BY <1>2, FS_CardinalityType
<1>4. CASE e = x
  <2>1. Positions(t, x) = Positions(s, x) \cup {n}
    BY <1>1, <1>4 DEF Positions
  <2>2. n \notin Positions(s, x)
    BY <1>1 DEF Positions
  <2>3. Cardinality(Positions(t, x)) = Cardinality(Positions(s, x)) + 1
    <3> HIDE DEF t, n
    <3> QED
      BY <1>2, <2>1, <2>2, FS_AddElement
  <2> QED
    BY <1>2, <1>3, <1>4, <2>3
<1>5. CASE e # x
  <2>1. Positions(t, x) = Positions(s, x)
    BY <1>1, <1>5 DEF Positions
  <2> QED
    BY <1>2, <1>3, <1>5, <2>1
<1> QED
  BY <1>4, <1>5

(* Requests and responses on record, against the calls made. *)
CallShape ==
  /\ calls <= Count("llm_request")
  /\ Count("llm_response") <= calls
  /\ pc \in {"generate", "telemetry", "response"} =>
       Count("llm_response") < calls

LEMMA CountTyped ==
  ASSUME TypeOK, NEW x \in Events
  PROVE  Count(x) \in Nat
<1>1. "start" \in Events /\ trail \in Seq(Events)
  BY DEF TypeOK, Events
<1> QED
  BY <1>1, CountAppend DEF Count

(* A step appends one event, or none. *)
LEMMA CountStep ==
  ASSUME TypeOK, NEW e \in Events, NEW x \in Events,
         Persisted(e) \/ Rejected(e) \/ UNCHANGED trail
  PROVE  /\ Count(x) \in Nat /\ Count(x)' \in Nat
         /\ Count(x) <= Count(x)'
         /\ Count(x)' <= Count(x) + (IF e = x THEN 1 ELSE 0)
         /\ Persisted(e) => Count(x)' = Count(x) + (IF e = x THEN 1 ELSE 0)
<1>1. trail \in Seq(Events)
  BY DEF TypeOK
<1>2. Count(x) \in Nat
  BY CountTyped
<1>3. CASE trail' = trail
  <2>1. Count(x)' = Count(x)
    BY <1>3 DEF Count, Positions
  <2>2. ~Persisted(e)
    <3>1. Append(trail, e) # trail
      BY <1>1
    <3> QED
      BY <1>3, <3>1 DEF Persisted
  <2> QED
    BY <1>2, <2>1, <2>2
<1>4. CASE trail' = Append(trail, e)
  <2>1. Count(x)' = Count(x) + (IF e = x THEN 1 ELSE 0)
    BY <1>1, <1>4, CountAppend DEF Count
  <2> QED
    BY <1>2, <2>1
<1> QED
  BY <1>3, <1>4 DEF Persisted, Rejected

LEMMA InitCallShape == Init => CallShape
<1> SUFFICES ASSUME Init PROVE CallShape
  OBVIOUS
<1>1. \A x : Positions(trail, x) = {}
  BY DEF Init, Positions
<1>2. Count("llm_request") = 0 /\ Count("llm_response") = 0
  BY <1>1, FS_EmptySet DEF Count
<1> QED
  BY <1>2 DEF Init, CallShape

LEMMA NextCallShape == IInv /\ CallShape /\ [Next]_vars => CallShape'
<1> SUFFICES ASSUME TypeOK, CallShape, [Next]_vars
             PROVE  CallShape'
  BY DEF IInv
<1> DEFINE asked == Count("llm_request")
           answered == Count("llm_response")
<1>1. calls \in Nat /\ asked \in Nat /\ answered \in Nat
  BY CountTyped, AttemptsAssumption DEF TypeOK, Events
<1>2. "llm_request" \in Events /\ "llm_response" \in Events
  BY DEF Events
<1>3. CASE LogRequest
  <2>1. /\ asked' \in Nat /\ answered' \in Nat
        /\ asked <= asked' /\ answered' = answered
        /\ Persisted("llm_request") => asked' = asked + 1
    <3>1. Persisted("llm_request") \/ Rejected("llm_request") \/ UNCHANGED trail
      BY <1>3 DEF LogRequest
    <3>2. /\ asked' \in Nat /\ asked <= asked'
          /\ Persisted("llm_request") => asked' = asked + 1
      BY <1>2, <3>1, CountStep
    <3>3. /\ answered' \in Nat /\ answered <= answered'
          /\ answered' <= answered + 0
      BY <1>2, <3>1, CountStep
    <3> HIDE DEF asked, answered
    <3> QED
      BY <1>1, <3>2, <3>3
  <2>2. CASE Persisted("llm_request") /\ calls' = calls + 1
    BY <1>1, <2>1, <2>2 DEF CallShape
  <2>3. CASE calls' = calls /\ pc' = "error"
    BY <1>1, <2>1, <2>3 DEF CallShape
  <2> QED
    BY <1>3, <2>2, <2>3 DEF LogRequest, Raise
<1>4. CASE LogResponse
  <2>1. Persisted("llm_response") \/ Rejected("llm_response") \/ UNCHANGED trail
    BY <1>4 DEF LogResponse
  <2>2. asked' \in Nat /\ asked <= asked'
    BY <1>2, <2>1, CountStep
  <2>3. answered' \in Nat /\ answered' <= answered + 1
    BY <1>2, <2>1, CountStep
  <2>4. answered < calls /\ calls' = calls /\ pc' \in {"validate", "error"}
    BY <1>4 DEF LogResponse, Goto, Raise, CallShape
  <2> QED
    BY <1>1, <2>2, <2>3, <2>4 DEF CallShape
<1>5. CASE calls' = calls /\ trail' = trail /\
           (pc' \in {"generate", "telemetry", "response"} =>
              pc \in {"generate", "telemetry", "response"})
  <2>1. asked' = asked /\ answered' = answered
    BY <1>5 DEF Count, Positions
  <2> QED
    BY <1>5, <2>1 DEF CallShape
<1>6. CASE \E e \in Events \ {"llm_request", "llm_response"} :
             /\ Persisted(e) \/ Rejected(e) \/ UNCHANGED trail
             /\ calls' = calls
             /\ pc' \notin {"generate", "telemetry", "response"}
  <2>1. PICK e \in Events \ {"llm_request", "llm_response"} :
             /\ Persisted(e) \/ Rejected(e) \/ UNCHANGED trail
             /\ calls' = calls
             /\ pc' \notin {"generate", "telemetry", "response"}
    BY <1>6
  <2>2. asked' \in Nat /\ asked <= asked' /\ asked' <= asked + 0
    BY <1>2, <2>1, CountStep
  <2>3. answered' \in Nat /\ answered <= answered' /\ answered' <= answered + 0
    BY <1>2, <2>1, CountStep
  <2> QED
    BY <1>1, <2>1, <2>2, <2>3 DEF CallShape
<1>7. CASE LogStart \/ CalculateEvidence \/ BuildPrompt \/ LogInvalid
             \/ PrepareCorrection \/ LogSuccess
  BY <1>6, <1>7 DEF LogStart, CalculateEvidence, BuildPrompt, LogInvalid, backend,
     PrepareCorrection, LogSuccess, Goto, Raise, Escape, Events
<1>8. CASE CloseInvalid \/ AuditError \/ AuditAbort
  BY <1>6, <1>8 DEF CloseInvalid, AuditError, AuditAbort, Goto, Events, backend
<1>9. CASE StartTracking \/ Resume \/ TrackGeneration \/ Validate \/ Publish
  BY <1>5, <1>9 DEF StartTracking, Resume, TrackGeneration, Validate, Publish,
     Goto, Raise, Escape, backend
<1>10. CASE RecordMetrics \/ EndRun \/ EndSpan \/ Cancel \/ UNCHANGED vars
  BY <1>5, <1>10 DEF RecordMetrics, EndRun, EndSpan, Cancel, Goto, backend, vars
<1> QED
  BY <1>3, <1>4, <1>7, <1>8, <1>9, <1>10 DEF Next, Step, Finished

(* The provider is never called off the record: each call has a persisted   *)
(* llm_request, there are at most MaxAttempts, and each response on record  *)
(* answers a call.                                                          *)
THEOREM EveryCallAlwaysAudited == Spec => []EveryCallAudited
<1>1. TypeOK /\ CallShape => EveryCallAudited
  BY AttemptsAssumption DEF TypeOK, CallShape, EveryCallAudited
<1> QED
  BY <1>1, Invariant, InitCallShape, NextCallShape, PTL DEF Spec, IInv
-----------------------------------------------------------------------------
(* The verdicts on the trail, by where the run is: none before log_finish,  *)
(* the success verdict and nothing behind it where no error is under way,   *)
(* the failure verdict last where a handler recorded it; a success verdict   *)
(* whose run is failing was left by a lost acknowledgement or a publication. *)
VerdictShape ==
  /\ pc \in (Opening \cup Body \cup {"close"}) \ {"publish"} => Count("finish_success") = 0
  /\ pc \in Opening \cup Body \cup Handling => Count("finish_failed") = 0
  /\ pc = "publish" => Profile.publishes
  /\ pc = "publish" \/ (primary = "none" /\ pc \in Finalizing \cup {"done"}) =>
       Last = "finish_success" /\ Count("finish_success") = 1 /\ Count("finish_failed") = 0
  /\ primary # "none" /\ Count("finish_success") > 0 =>
       Profile.publishes \/ (refused > 0 /\ "lost_ack" \in Faults)
  /\ (pc \in Finalizing \cup {"done"} /\ refused = 0 /\ primary \notin {"none", "cancelled"}
        /\ child # "none") =>
       Last = "finish_failed" /\ Count("finish_failed") = 1

LEMMA InitVerdictShape == Init => VerdictShape
<1> SUFFICES ASSUME Init PROVE VerdictShape
  OBVIOUS
<1>1. \A x : Positions(trail, x) = {}
  BY DEF Init, Positions
<1>2. Count("finish_success") = 0 /\ Count("finish_failed") = 0
  BY <1>1, FS_EmptySet DEF Count
<1> QED
  BY <1>2 DEF Init, VerdictShape, Opening, Body, Handling, Finalizing

(* An append that returned is the last event. *)
LEMMA LastAppended ==
  ASSUME TypeOK, NEW e \in Events, Persisted(e)
  PROVE  Last' = e
<1>1. trail \in Seq(Events) /\ trail' = Append(trail, e)
  BY DEF TypeOK, Persisted
<1>2. Len(trail') = Len(trail) + 1 /\ trail'[Len(trail) + 1] = e
  BY <1>1
<1> QED
  BY <1>2 DEF Last

LEMMA NextVerdictShape == IInv /\ VerdictShape /\ [Next]_vars => VerdictShape'
<1> SUFFICES ASSUME IInv, VerdictShape, [Next]_vars
             PROVE  VerdictShape'
  OBVIOUS
<1> DEFINE good == Count("finish_success")
           bad == Count("finish_failed")
<1> USE DEF Opening, Body, Handling, Finalizing
<1>0. TypeOK /\ "finish_success" \in Events /\ "finish_failed" \in Events /\ "error" \in Events
  BY DEF IInv, Events
<1>1. good \in Nat /\ bad \in Nat /\ refused \in Nat
  BY <1>0, CountTyped DEF TypeOK
<1>2. agent' = agent /\ Profile' = Profile
  <2>1. agent' = agent
    BY DEF Next, Step, Finished, vars, LogStart, StartTracking, CalculateEvidence, BuildPrompt,
       LogRequest, Resume, Cancel, TrackGeneration, LogResponse, Validate, LogInvalid,
       PrepareCorrection, LogSuccess, Publish, CloseInvalid, AuditError, AuditAbort,
       RecordMetrics, EndRun, EndSpan
  <2> QED
    BY <2>1 DEF Profile
<1>3. ASSUME UNCHANGED trail PROVE good' = good /\ bad' = bad /\ Last' = Last
  BY <1>3 DEF Count, Positions, Last
<1>4. ASSUME NEW e \in Events \ Verdicts, Persisted(e) \/ Rejected(e) \/ UNCHANGED trail
      PROVE  good' = good /\ bad' = bad
  <2>1. good' \in Nat /\ good <= good' /\ good' <= good + 0
    BY <1>0, <1>4, CountStep DEF Verdicts
  <2>2. bad' \in Nat /\ bad <= bad' /\ bad' <= bad + 0
    BY <1>0, <1>4, CountStep DEF Verdicts
  <2> HIDE DEF good, bad
  <2> QED
    BY <1>1, <2>1, <2>2
<1>5. ASSUME \E e \in Events \ Verdicts : Persisted(e) \/ Rejected(e) \/ UNCHANGED trail,
             pc \in (Opening \cup Body) \ {"publish"},
             \/ pc' \in (Opening \cup Body \cup {"error", "close"}) \ {"publish"}
             \/ primary' = "cancelled" /\ pc' = "finally"
             \/ primary' # "none" /\ child' = "none" /\ pc' = "done"
      PROVE  VerdictShape'
  <2>1. good' = 0 /\ bad' = 0
    BY <1>4, <1>5 DEF VerdictShape
  <2> QED
    BY <1>5, <2>1 DEF VerdictShape
<1>6. CASE LogStart \/ StartTracking
  <2>1. pc \in Opening /\ child = "none"
    BY <1>6 DEF LogStart, StartTracking, IInv, FinalShape
  <2>2. \/ pc' \in {"track", "calculate", "prompt"}
        \/ primary' # "none" /\ child' = "none" /\ pc' = "done"
    BY <1>6, <2>1 DEF LogStart, StartTracking, Goto, Escape
  <2>3. \E e \in Events \ Verdicts : Persisted(e) \/ Rejected(e) \/ UNCHANGED trail
    BY <1>6 DEF LogStart, StartTracking, Events, Verdicts, backend
  <2> QED
    BY <1>5, <2>1, <2>2, <2>3
<1>7. CASE CalculateEvidence \/ BuildPrompt \/ LogRequest \/ LogResponse \/ LogInvalid
             \/ PrepareCorrection
  BY <1>5, <1>7 DEF CalculateEvidence, BuildPrompt, LogRequest, LogResponse, LogInvalid,
     PrepareCorrection, Goto, Raise, Events, Verdicts
<1>8. CASE Resume \/ TrackGeneration \/ Validate \/ Cancel
  BY <1>0, <1>5, <1>8 DEF Resume, TrackGeneration, Validate, Cancel, Goto, Raise, Verdicts, backend
<1>9. CASE LogSuccess
  <2>1. pc = "finish" /\ good = 0 /\ bad = 0 /\ primary = "none"
    BY <1>9 DEF LogSuccess, VerdictShape, IInv, FailureShape
  <2>2. Persisted("finish_success") \/ Rejected("finish_success")
    BY <1>9 DEF LogSuccess
  <2>3. bad' = 0
    <3>1. bad' \in Nat /\ bad' <= bad + 0
      BY <1>0, <2>2, CountStep
    <3> HIDE DEF bad
    <3> QED
      BY <2>1, <3>1
  <2>4. CASE Persisted("finish_success") /\ primary' = primary
             /\ pc' = (IF Profile.publishes THEN "publish" ELSE "finally")
    <3>1. good' = good + 1 /\ Last' = "finish_success"
      BY <1>0, <2>4, CountStep, LastAppended
    <3> QED
      BY <1>2, <2>1, <2>3, <2>4, <3>1 DEF VerdictShape
  <2>5. CASE Rejected("finish_success") /\ Raise("audit")
    <3>1. refused' > 0 /\ ("lost_ack" \in Faults \/ trail' = trail)
      BY <1>1, <2>5 DEF Rejected
    <3>2. "lost_ack" \in Faults \/ good' = 0
      BY <1>3, <2>1, <3>1
    <3> QED
      BY <2>3, <2>5, <3>1, <3>2 DEF VerdictShape, Raise
  <2> QED
    BY <1>9, <2>4, <2>5 DEF LogSuccess, Goto, failure
<1>10. CASE Publish
  <2>1. good' = 1 /\ bad' = 0 /\ Last' = "finish_success" /\ Profile'.publishes
    BY <1>2, <1>3, <1>10 DEF Publish, VerdictShape
  <2>2. pc' = "error" \/ (pc' = "finally" /\ primary' = "none")
    BY <1>10 DEF Publish, Goto, Raise, IInv, FailureShape, failure
  <2> QED
    BY <2>1, <2>2 DEF VerdictShape
<1>11. CASE AuditError
  <2>1. pc = "error" /\ primary # "none" /\ primary' = primary /\ bad = 0
    BY <1>11 DEF AuditError, Goto, ChainAudit, IInv, FailureShape, VerdictShape, failure
  <2>2. good' = good /\ bad' = 0
    BY <1>0, <1>4, <1>11, <2>1 DEF AuditError, Verdicts
  <2>3. (pc' = "abort" /\ refused' = refused) \/ (pc' = "finally" /\ refused' = refused + 1)
    BY <1>11 DEF AuditError, Goto, Persisted, Rejected
  <2> QED
    BY <1>1, <1>2, <2>1, <2>2, <2>3 DEF VerdictShape
<1>12. CASE CloseInvalid \/ AuditAbort
  <2>1. /\ primary # "none" /\ primary' = primary /\ pc' = "finally" /\ pc \in {"close", "abort"}
        /\ bad = 0
    BY <1>12 DEF CloseInvalid, AuditAbort, ChainAudit, IInv, FailureShape, VerdictShape, failure
  <2>2. \/ Persisted("finish_failed") \/ Rejected("finish_failed")
        \/ refused > 0 /\ UNCHANGED <<trail, refused>>
    BY <1>12 DEF CloseInvalid, AuditAbort, IInv, FailureShape, AuditFailuresSurface, backend
  <2>3. good' = good
    <3>1. good' \in Nat /\ good <= good' /\ good' <= good + 0
      BY <1>0, <2>2, CountStep
    <3> HIDE DEF good
    <3> QED
      BY <1>1, <3>1
  <2>4. (refused' = refused /\ Last' = "finish_failed" /\ bad' = 1) \/ refused' > 0
    <3>1. CASE Persisted("finish_failed")
      <4>1. bad' = bad + 1 /\ Last' = "finish_failed"
        BY <1>0, <3>1, CountStep, LastAppended
      <4> QED
        BY <2>1, <3>1, <4>1 DEF Persisted
    <3>2. CASE Rejected("finish_failed")
      BY <1>1, <3>2 DEF Rejected
    <3> QED
      BY <1>1, <2>2, <3>1, <3>2
  <2>5. refused' \in Nat /\ refused <= refused'
    BY <1>1, <2>2 DEF Persisted, Rejected
  <2> HIDE DEF good, bad
  <2> QED
    BY <1>1, <1>2, <2>1, <2>3, <2>4, <2>5 DEF VerdictShape, good, bad
<1>13. CASE RecordMetrics \/ EndRun \/ EndSpan \/ UNCHANGED vars
  <2>1. UNCHANGED <<trail, refused, primary>>
    BY <1>13 DEF RecordMetrics, EndRun, EndSpan, vars, Goto, backend, failure
  <2>2. pc' = pc \/ (pc \in Finalizing /\ pc' \in Finalizing \cup {"done"})
    BY <1>13 DEF RecordMetrics, EndRun, EndSpan, vars, Goto
  <2>3. child' = child \/ child # "none"
    BY <1>13 DEF RecordMetrics, EndRun, EndSpan, vars, outside, IInv, FinalShape, Labels
  <2>4. good' = good /\ bad' = bad /\ Last' = Last
    BY <1>3, <2>1
  <2> QED
    BY <1>2, <2>1, <2>2, <2>3, <2>4 DEF VerdictShape
<1> QED
  BY <1>6, <1>7, <1>8, <1>9, <1>10, <1>11, <1>12, <1>13 DEF Next, Step, Finished

LEMMA AlwaysVerdictShape == Spec => [](IInv /\ VerdictShape)
  BY InitIInv, NextIInv, InitVerdictShape, NextVerdictShape, PTL DEF Spec

(* A caller has a result only if the trail ends with the one success        *)
(* verdict; one of a run that failed is a publication's or a lost           *)
(* acknowledgement's.                                                       *)
THEOREM VerdictsAlwaysMatch == Spec => []VerdictMatchesResult
<1>1. IInv /\ VerdictShape => VerdictMatchesResult
  BY DEF VerdictShape, VerdictMatchesResult, VerdictCount
<1> QED
  BY <1>1, AlwaysVerdictShape, PTL

(* Where the audit backend worked and nobody cancelled the run, its trail   *)
(* ends with a verdict, the only one unless a publication failed.           *)
THEOREM TrailAlwaysClosed == Spec => []TrailClosed
<1>1. IInv /\ VerdictShape => TrailClosed
  <2> SUFFICES ASSUME IInv, VerdictShape, pc = "done", refused = 0, primary # "cancelled",
                      child # "none"
               PROVE  /\ Last \in Verdicts
                      /\ VerdictCount = 1 \/ Profile.publishes
    BY DEF TrailClosed
  <2>1. Count("finish_success") \in Nat /\ Count("finish_failed") \in Nat
    BY CountTyped DEF IInv, Events
  <2>2. CASE primary = "none"
    BY <2>2 DEF VerdictShape, VerdictCount, Verdicts
  <2>3. CASE primary # "none"
    BY <2>1, <2>3 DEF VerdictShape, VerdictCount, Verdicts, Finalizing
  <2> QED
    BY <2>2, <2>3
<1> QED
  BY <1>1, AlwaysVerdictShape, PTL
-----------------------------------------------------------------------------
(* The run implements, as far as safety goes, what its callers are promised. *)
LEMMA InitContract == Init => Contract!Init
  BY DEF Init, Contract!Init, Opening, Body

LEMMA NextContract ==
  IInv /\ [Next]_vars => [Contract!Next]_(Contract!vars)
<1> SUFFICES ASSUME IInv, [Next]_vars
             PROVE  [Contract!Next]_(Contract!vars)
  OBVIOUS
<1> USE AttemptsAssumption
    DEF IInv, TypeOK, FailureShape, AttemptShape, AfterRequest, Labels, Opening,
        Body, Handling, Finalizing, locals, failure, backend, outside,
        Goto, Raise, Escape, Contract!vars, Contract!Next
<1>1. CASE LogRequest
  BY <1>1 DEF LogRequest, Contract!CallProvider, Contract!Fail, Errors
<1>2. CASE LogStart \/ StartTracking
  BY <1>2 DEF LogStart, StartTracking, Contract!Fail, Errors
<1>3. CASE CalculateEvidence \/ BuildPrompt \/ TrackGeneration \/ LogResponse
  BY <1>3 DEF CalculateEvidence, BuildPrompt, TrackGeneration, LogResponse,
     Contract!Fail, Errors
<1>4. CASE Resume \/ Cancel \/ Validate \/ LogInvalid \/ PrepareCorrection
  BY <1>4 DEF Resume, Cancel, Validate, LogInvalid, PrepareCorrection,
     Contract!Fail, Errors
<1>5. CASE LogSuccess \/ Publish
  BY <1>5 DEF LogSuccess, Publish, Contract!Succeed, Contract!Fail, Errors
<1>6. CASE CloseInvalid \/ AuditError \/ AuditAbort \/ RecordMetrics \/ EndRun
  BY <1>6 DEF CloseInvalid, AuditError, AuditAbort, RecordMetrics, EndRun, ChainAudit
<1>7. CASE EndSpan
  BY <1>7 DEF EndSpan, Contract!Deliver
<1>8. CASE UNCHANGED vars
  BY <1>8 DEF vars
<1> QED
  BY <1>1, <1>2, <1>3, <1>4, <1>5, <1>6, <1>7, <1>8 DEF Next, Step, Finished

(* Every step of a run is a step of the contract or leaves it unchanged: at *)
(* most MaxAttempts provider calls, none after the outcome is settled, and  *)
(* one delivery of the outcome settled first.                               *)
THEOREM ContractKept ==
  Spec => Contract!Init /\ [][Contract!Next]_(Contract!vars)
  BY InitContract, NextContract, Invariant, PTL DEF Spec
=============================================================================
