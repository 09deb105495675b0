------------------------------ MODULE HttpEdge ------------------------------
(***************************************************************************)
(* The API around the workflow: MetricsMiddleware outside TracingMiddleware *)
(* outside FastAPI's routes and exception handlers, for several requests at *)
(* once.  Requests share the metrics registry, the tokens that were issued  *)
(* and nothing else; each has a tracer of its own, in which the agents of   *)
(* its workflow open spans from tasks of their own.                         *)
(***************************************************************************)
EXTENDS Integers, FiniteSets, Tracer

CONSTANTS
  Requests,   \* HTTP requests
  Agents,     \* agents that run in parallel in one workflow
  MaxTime,    \* bound: ticks of the clock
  Lifetime    \* access_token_expire_minutes

ASSUME EdgeAssumption ==
  MaxTime \in Nat /\ Lifetime \in Nat \ {0} /\ IsFiniteSet(Requests)

VARIABLES
  now,        \* the time
  secret,     \* whether JWT_SECRET_KEY is configured
  tokens,     \* the expiry times of the tokens that login has issued
  pc,         \* where each request is
  kind,       \* what it asks for
  bearer,     \* the credentials it came with
  admitted,   \* when its graph was started, -1 while it was not
  sent,       \* the status its client has been sent, 0 before
  agent,      \* what the agents of its workflow are doing
  failure,    \* why its workflow failed
  tracer,     \* its tracer
  metrics     \* the metrics registry

request == <<pc, kind, bearer, admitted, sent>>
workflow == <<agent, failure>>
vars == <<now, secret, tokens, request, workflow, tracer, metrics>>

Kinds == {"run", "stream", "login", "other"}
Workflows == {"run", "stream"}
Main == "request"
RequestSpan == <<"http.request", Main>>
WorkflowSpan == <<"workflow.execute", Main>>
AgentSpan(a) == <<"agent", a>>

(* An agent runs in a task of its own. *)
ASSUME TaskAssumption == Main \notin Agents

(* Next to some definitions stands a mutated form of it, named for the slip *)
(* it makes; the specification never uses those.                            *)

(* A token says when it expires and is not stored anywhere: those issued     *)
(* before the server was last started are still good, say until time 0.     *)
Earlier == {0}

Statuses == {200, 400, 401, 422, 500, 503}

Init ==
  /\ now = 0
  /\ secret \in BOOLEAN
  /\ tokens \in IF secret THEN {{}, Earlier} ELSE {{}}
  /\ pc = [r \in Requests |-> "new"]
  /\ kind = [r \in Requests |-> "other"]
  /\ bearer = [r \in Requests |-> [issued |-> FALSE, exp |-> 0]]
  /\ admitted = [r \in Requests |-> -1]
  /\ sent = [r \in Requests |-> 0]
  /\ agent = [r \in Requests |-> [a \in Agents |-> "none"]]
  /\ failure = [r \in Requests |-> "none"]
  /\ tracer = [r \in Requests |-> NewTracer(Agents \cup {Main})]
  /\ metrics = [http |-> [s \in Statuses |-> 0],
                workflows |-> [success |-> 0, failure |-> 0],
                logins |-> [success |-> 0, failure |-> 0],
                active |-> 0, audited |-> 0, refused |-> 0]
-----------------------------------------------------------------------------
(* The request enters both middlewares: a workflow raises the gauge, the    *)
(* request's spans are opened.                                              *)
AdjustActiveWorkflows(registry, by) == [registry EXCEPT !.active = @ + by]

Credentials == [issued : {FALSE}, exp : {0}] \cup [issued : {TRUE}, exp : tokens]

Arrive(r) ==
  /\ pc[r] = "new"
  /\ pc' = [pc EXCEPT ![r] = "routing"]
  /\ \E k \in Kinds :
       /\ kind' = [kind EXCEPT ![r] = k]
       /\ \E c \in Credentials :
            /\ k \notin Workflows => ~c.issued
            /\ bearer' = [bearer EXCEPT ![r] = c]
       /\ metrics' = IF k \in Workflows THEN AdjustActiveWorkflows(metrics, 1) ELSE metrics
       /\ LET opened == StartSpan(tracer[r], Main, RequestSpan[1], Unknown)
          IN tracer' = [tracer EXCEPT ![r] =
               IF k \in Workflows THEN StartSpan(opened, Main, WorkflowSpan[1], Unknown)
               ELSE opened]
  /\ UNCHANGED <<now, secret, tokens, admitted, sent, workflow>>

(* The finally block of TracingMiddleware, the inner of the two: an         *)
(* exception on its way out is recorded, then both spans end.               *)
LeaveTracing(t, status, raises) ==
  LET Mark(u, span) ==
        LET v == IF raises THEN RecordException(u, span) ELSE u
        IN EndSpan(SetSuccess(v, span, status < 500), span)
  IN Mark(IF IsActive(t, WorkflowSpan) THEN Mark(t, WorkflowSpan) ELSE t, RequestSpan)

(* The finally block of MetricsMiddleware. *)
Verdict(good) == IF good THEN "success" ELSE "failure"
CountRequest(registry, status) == [registry EXCEPT !.http[status] = @ + 1]
CountWorkflow(registry, good) == [registry EXCEPT !.workflows[Verdict(good)] = @ + 1]
CountLogin(registry, good) == [registry EXCEPT !.logins[Verdict(good)] = @ + 1]

LeaveMetricsAlways(registry, k, status, raises) ==
  LET counted == AdjustActiveWorkflows(CountRequest(registry, status), -1)
  IN CASE k \in Workflows -> CountWorkflow(counted, ~raises /\ status < 500)
       [] k = "login" -> CountLogin(counted, status < 400)
       [] OTHER -> counted

LeaveMetricsOnReturn(registry, k, status, raises) ==
  LET counted == CountRequest(registry, status)
      ended == CountWorkflow(counted, ~raises /\ status < 500)
  IN CASE k \in Workflows -> IF raises THEN ended ELSE AdjustActiveWorkflows(ended, -1)
       [] k = "login" -> CountLogin(counted, status < 400)
       [] OTHER -> counted

LeaveMetricsByStatus(registry, k, status, raises) ==
  LET counted == CountRequest(registry, status)
  IN CASE k \in Workflows -> AdjustActiveWorkflows(CountWorkflow(counted, status < 500), -1)
       [] k = "login" -> CountLogin(counted, status < 400)
       [] OTHER -> counted

LeaveMetrics(registry, k, status, raises) ==
  LET counted == CountRequest(registry, status)
      ended == CountWorkflow(counted, ~raises /\ status < 500)
  IN CASE k \in Workflows -> AdjustActiveWorkflows(ended, -1)
       [] k = "login" -> CountLogin(counted, status < 400)
       [] OTHER -> counted

(* The application is through with the request.  It has sent a response     *)
(* ("responds"), or an exception passes both middlewares ("raises", and     *)
(* the server's error handler turns it into a 500 if nothing was sent), or  *)
(* the task was cancelled ("cancelled").  Both middlewares take 500 for the *)
(* status where they have seen none.                                        *)
Leave(r, ending, status) ==
  LET seen == IF sent[r] # 0 THEN sent[r] ELSE IF ending = "responds" THEN status ELSE 500
  IN /\ pc' = [pc EXCEPT ![r] = "over"]
     /\ sent' = [sent EXCEPT ![r] = IF ending = "cancelled" THEN @ ELSE seen]
     /\ tracer' = [tracer EXCEPT ![r] = LeaveTracing(@, seen, ending # "responds")]
     /\ metrics' = LeaveMetrics(metrics, kind[r], seen, ending # "responds")
     /\ UNCHANGED <<kind, bearer, admitted>>

(* A body that is not JSON is refused before FastAPI looks at credentials,  *)
(* one that does not fit the route's schema after.                          *)
Unprocessable(r) ==
  /\ pc[r] = "routing" /\ kind[r] # "other"
  /\ Leave(r, "responds", 422)
  /\ UNCHANGED <<now, secret, tokens, workflow>>

(* /health, /version and /metrics *)
Serve(r) ==
  /\ pc[r] = "routing" /\ kind[r] = "other"
  /\ Leave(r, "responds", 200)
  /\ UNCHANGED <<now, secret, tokens, workflow>>

-----------------------------------------------------------------------------
(* /auth/login: wrong credentials are a 401, whoever has the right ones is  *)
(* issued a token; without a secret create_access_token raises, as does     *)
(* compare_digest for a user name outside ASCII.                            *)
CreateAccessToken == now + Lifetime

Login(r) ==
  /\ pc[r] = "routing" /\ kind[r] = "login"
  /\ \/ /\ secret
        /\ tokens' = tokens \cup {CreateAccessToken}
        /\ Leave(r, "responds", 200)
     \/ /\ UNCHANGED tokens
        /\ \/ Leave(r, "responds", 401)
           \/ Leave(r, "raises", 500)
  /\ UNCHANGED <<now, secret, workflow>>

(* verify_access_token: a configured secret, a signature of ours, an expiry *)
(* that has not passed; every failure is a 401.                             *)
VerifyAnyAge(c) ==
  /\ secret /\ c.issued

VerifyAccessToken(c) ==
  /\ secret /\ c.issued
  /\ now <= c.exp

Refuse(r) ==
  /\ pc[r] = "routing" /\ kind[r] \in Workflows
  /\ ~VerifyAccessToken(bearer[r])
  /\ Leave(r, "responds", 401)
  /\ UNCHANGED <<now, secret, tokens, workflow>>

(* The graph is built and started, a task for each agent; the stream's      *)
(* headers are sent before that.                                            *)
Admit(r) ==
  /\ pc[r] = "routing" /\ kind[r] \in Workflows
  /\ VerifyAccessToken(bearer[r])
  /\ pc' = [pc EXCEPT ![r] = "running"]
  /\ admitted' = [admitted EXCEPT ![r] = now]
  /\ sent' = [sent EXCEPT ![r] = IF kind[r] = "stream" THEN 200 ELSE 0]
  /\ agent' = [agent EXCEPT ![r] = [a \in Agents |-> "created"]]
  /\ tracer' = [tracer EXCEPT ![r] = Inherit(@, Agents, Main)]
  /\ UNCHANGED <<now, secret, tokens, kind, bearer, failure, metrics>>

-----------------------------------------------------------------------------
(* The agents, seen from their spans and from MetricsAuditLogger; what they *)
(* do otherwise is AgentRun's.                                              *)
MeasuredCall(registry, succeeds) ==
  IF succeeds THEN [registry EXCEPT !.audited = @ + 1]
  ELSE [registry EXCEPT !.refused = @ + 1]

Becomes(r, a, state) == agent' = [agent EXCEPT ![r][a] = state]
FailsWith(r, why) == failure' = [failure EXCEPT ![r] = IF @ = "none" THEN why ELSE @]
Untouched == UNCHANGED <<now, secret, tokens, request>>

(* Up to the await of the provider.  log_start and start_run come before    *)
(* the try statement: if one raises, the agent's span is never ended.  The  *)
(* tools may reject the data.                                               *)
BeginAgent(r, a) ==
  /\ agent[r][a] = "created"
  /\ LET started == StartSpan(tracer[r], a, AgentSpan(a)[1], r)
         audited == TracedAuditCall(started, a, "audit.log_start", r, TRUE)
         tracked == TracedTrackingCall(audited, a, "mlflow.start_run", r, TRUE)
     IN \/ /\ tracer' = [tracer EXCEPT ![r] = TracedAuditCall(started, a, "audit.log_start", r, FALSE)]
           /\ metrics' = MeasuredCall(metrics, FALSE)
           /\ Becomes(r, a, "leaked") /\ FailsWith(r, "other")
        \/ /\ tracer' = [tracer EXCEPT ![r] = TracedTrackingCall(audited, a, "mlflow.start_run", r, FALSE)]
           /\ metrics' = MeasuredCall(metrics, TRUE)
           /\ Becomes(r, a, "leaked") /\ FailsWith(r, "other")
        \/ /\ tracer' = [tracer EXCEPT ![r] = EndSpan(RecordException(tracked, AgentSpan(a)), AgentSpan(a))]
           /\ metrics' = MeasuredCall(metrics, TRUE)
           /\ Becomes(r, a, "ended") /\ FailsWith(r, "domain")
        \/ /\ tracer' = [tracer EXCEPT ![r] = tracked]
           /\ metrics' = MeasuredCall(metrics, TRUE)
           /\ Becomes(r, a, "awaiting") /\ UNCHANGED failure
  /\ Untouched

(* From the provider's answer to the end: one more audited call, and the    *)
(* finally block ends the span.                                             *)
EndAgent(r, a) ==
  /\ agent[r][a] = "awaiting"
  /\ \E logged \in BOOLEAN, why \in {"none", "llm", "other"} :
       LET audited == TracedAuditCall(tracer[r], a, "audit.log_finish", r, logged)
           error == IF ~logged /\ why = "none" THEN "other" ELSE why
           marked == SetSuccess(audited, AgentSpan(a), error = "none")
       IN /\ tracer' = [tracer EXCEPT ![r] = EndSpan(
               IF error = "none" THEN marked ELSE RecordException(marked, AgentSpan(a)),
               AgentSpan(a))]
          /\ metrics' = MeasuredCall(metrics, logged)
          /\ FailsWith(r, error)
  /\ Becomes(r, a, "ended")
  /\ Untouched

(* LangGraph stops the siblings of an agent that failed, and all agents of  *)
(* a request that is cancelled; only the finally block runs.                *)
CancelAgent(r, a) ==
  /\ failure[r] # "none"
  /\ \/ /\ agent[r][a] = "created"
        /\ UNCHANGED tracer
     \/ /\ agent[r][a] = "awaiting"
        /\ LET marked == SetSuccess(RecordException(tracer[r], AgentSpan(a)), AgentSpan(a), FALSE)
           IN tracer' = [tracer EXCEPT ![r] = EndSpan(marked, AgentSpan(a))]
  /\ Becomes(r, a, "ended")
  /\ UNCHANGED <<failure, metrics>>
  /\ Untouched

(* The server cancels the request's task, or the stream's client leaves. *)
Interrupt(r) ==
  /\ pc[r] = "running" /\ failure[r] = "none"
  /\ \E why \in {"cancelled", "left"} :
       /\ why = "left" => kind[r] = "stream"
       /\ failure' = [failure EXCEPT ![r] = why]
  /\ UNCHANGED <<agent, tracer, metrics>>
  /\ Untouched

(* What the exception handlers of create_app make of a failed graph.  The   *)
(* handler for every other exception sits outside the middlewares.          *)
HandledStatus == [domain |-> 400, llm |-> 503]

FinishRun(r) ==
  /\ kind[r] = "run"
  /\ CASE failure[r] = "none" -> Leave(r, "responds", 200)
       [] failure[r] \in DOMAIN HandledStatus -> Leave(r, "responds", HandledStatus[failure[r]])
       [] failure[r] = "other" -> Leave(r, "raises", 500)
       [] failure[r] = "cancelled" -> Leave(r, "cancelled", 500)

(* The generator behind the stream reports a failed graph as an event and   *)
(* ends like any other; a client that left may show as an exception.        *)
FinishStream(r) ==
  /\ kind[r] = "stream"
  /\ CASE failure[r] = "cancelled" -> Leave(r, "cancelled", 500)
       [] failure[r] = "left" -> \E e \in {"responds", "raises"} : Leave(r, e, 200)
       [] OTHER -> Leave(r, "responds", 200)

Finish(r) ==
  /\ pc[r] = "running"
  /\ \A a \in Agents : agent[r][a] \in {"ended", "leaked"}
  /\ FinishRun(r) \/ FinishStream(r)
  /\ UNCHANGED <<now, secret, tokens, workflow>>

Tick ==
  /\ now < MaxTime
  /\ now' = now + 1
  /\ UNCHANGED <<secret, tokens, request, workflow, tracer, metrics>>

Next ==
  \/ \E r \in Requests :
       \/ Arrive(r) \/ Unprocessable(r) \/ Serve(r) \/ Login(r) \/ Refuse(r) \/ Admit(r)
       \/ Interrupt(r) \/ Finish(r)
       \/ \E a \in Agents : BeginAgent(r, a) \/ EndAgent(r, a) \/ CancelAgent(r, a)
  \/ Tick

Spec == Init /\ [][Next]_vars
-----------------------------------------------------------------------------
(* Neither requests nor agents have an order: TLC takes them for symmetric. *)
Interchangeable == Permutations(Requests) \cup Permutations(Agents)

(* Properties *)

Over == {r \in Requests : pc[r] = "over"}
Through(k) == {r \in Over : kind[r] \in k}

TypeOK ==
  /\ now \in 0 .. MaxTime
  /\ tokens \subseteq Earlier \cup Lifetime .. MaxTime + Lifetime
  /\ pc \in [Requests -> {"new", "routing", "running", "over"}]
  /\ kind \in [Requests -> Kinds]
  /\ admitted \in [Requests -> -1 .. MaxTime]
  /\ sent \in [Requests -> Statuses \cup {0}]
  /\ failure \in [Requests -> {"none", "domain", "llm", "other", "cancelled", "left"}]
  /\ \A r \in Requests :
       /\ agent[r] \in [Agents -> {"none", "created", "awaiting", "ended", "leaked"}]
       /\ DOMAIN tracer[r].active \subseteq
            {RequestSpan, WorkflowSpan} \cup {AgentSpan(a) : a \in Agents}
  /\ metrics.active \in 0 .. Cardinality(Requests)

(* The gauge is the number of workflow requests in flight, however they     *)
(* overlap and end: it is back at zero when they are through.               *)
GaugeCountsWorkflows ==
  metrics.active =
    Cardinality({r \in Requests : pc[r] \in {"routing", "running"} /\ kind[r] \in Workflows})

(* Clients, registry and spans tell one story.  A status is counted as      *)
(* often as clients were sent it, but for a task cancelled before it had    *)
(* sent anything, which counts as a 500; each workflow is a success or a    *)
(* failure, once, and a success exactly if its client got a complete        *)
(* response below 500; the span of a request says success whenever the      *)
(* metric does, and otherwise only for a stream broken behind its header;   *)
(* there are as many audited calls as spans of them, good ones and failed.  *)
Complete(r) == sent[r] \in 1 .. 499 /\ failure[r] # "cancelled"

Audits == {"audit.log_start", "audit.log_finish"}

AuditSpans(good) ==
  UNION {{<<r, s>> : s \in {e \in tracer[r].exported : e.handle[1] \in Audits /\ e.success = good}} :
           r \in Requests}

OutcomesAgree ==
  LET Cut == {r \in Over : sent[r] = 0}
      RequestExport(r) == CHOOSE s \in tracer[r].exported : s.handle = RequestSpan
      Broken(r) == kind[r] = "stream" /\ failure[r] \in {"cancelled", "left"}
  IN /\ \A s \in Statuses : metrics.http[s] =
          Cardinality({r \in Over : sent[r] = s}) + (IF s = 500 THEN Cardinality(Cut) ELSE 0)
     /\ metrics.workflows.success + metrics.workflows.failure = Cardinality(Through(Workflows))
     /\ metrics.workflows.success <= Cardinality({r \in Through(Workflows) : Complete(r)})
     /\ metrics.workflows.success >=
          Cardinality({r \in Through(Workflows) : Complete(r) /\ failure[r] # "left"})
     /\ metrics.logins.success = Cardinality({r \in Through({"login"}) : sent[r] = 200})
     /\ \A r \in Over :
          LET s == RequestExport(r)
          IN /\ s.success <=> sent[r] \in 1 .. 499
             /\ s.success /\ s.error => Broken(r)
     /\ metrics.audited = Cardinality(AuditSpans(TRUE))
     /\ metrics.refused = Cardinality(AuditSpans(FALSE))

(* Spans nest by task: an agent's span under its own workflow's, the calls  *)
(* it makes under its own, whatever the siblings have open.  The workflow   *)
(* of an agent is known on every span above it.  When the request is over   *)
(* its spans are exported and its context is restored; the only spans left  *)
(* open are those of agents that failed before their try statement.         *)
Began(r, a) ==
  agent[r][a] \in {"awaiting", "leaked"} \/ \E s \in tracer[r].exported : s.handle = AgentSpan(a)

SpansNest ==
  \A r \in Requests :
    /\ \A s \in tracer[r].exported :
         /\ s.parent = CASE s.handle[1] \in Audits \cup {"mlflow.start_run"} -> AgentSpan(s.handle[2])
                         [] s.handle[1] = "agent" -> WorkflowSpan
                         [] s.handle = WorkflowSpan -> RequestSpan
                         [] OTHER -> NoSpan
         /\ s.run = IF s.handle \in {RequestSpan, WorkflowSpan} /\ ~\E a \in Agents : Began(r, a)
                    THEN Unknown ELSE r
    /\ pc[r] = "over" =>
         /\ DOMAIN tracer[r].active = {AgentSpan(a) : a \in {b \in Agents : agent[r][b] = "leaked"}}
         /\ tracer[r].current[Main] = NoSpan

(* A workflow only runs with a token that a login was answered with, in     *)
(* this or an earlier life of the server, and that had not expired when the *)
(* graph was started; without a secret nobody gets in.                      *)
OnlyTokenHolders ==
  \A r \in Requests : admitted[r] >= 0 =>
    /\ secret
    /\ bearer[r].issued /\ bearer[r].exp \in tokens
    /\ admitted[r] <= bearer[r].exp
    /\ bearer[r].exp \in Earlier \/ \E l \in Through({"login"}) : sent[l] = 200
=============================================================================
