--------------------------- MODULE HttpEdgeProofs ---------------------------
(***************************************************************************)
(* Proofs about HttpEdge for any number of requests, agents and ticks:      *)
(*   IInv   the gauge of the workflows in flight, and who gets a workflow   *)
(*          to run; the spans play no part in either                        *)
(*   SInv   the spans of each request, by where it and its agents are       *)
(*   OInv   the counts, of requests that are over and of audited calls      *)
(* Each rests on the one before.  The types and bounds come last.           *)
(***************************************************************************)
EXTENDS HttpEdge, FiniteSetTheorems, TLAPS

Counter == [success : Nat, failure : Nat]
Registry == [http : [Statuses -> Nat], workflows : Counter, logins : Counter,
             active : Int, audited : Nat, refused : Nat]
Failures == {"none", "domain", "llm", "other", "cancelled", "left"}

Typed ==
  /\ now \in Nat
  /\ tokens \subseteq Int
  /\ pc \in [Requests -> {"new", "routing", "running", "over"}]
  /\ kind \in [Requests -> Kinds]
  /\ bearer \in [Requests -> [issued : BOOLEAN, exp : Int]]
  /\ admitted \in [Requests -> Int]
  /\ sent \in [Requests -> Statuses \cup {0}]
  /\ agent \in [Requests -> [Agents -> {"none", "created", "awaiting", "ended", "leaked"}]]
  /\ failure \in [Requests -> Failures]
  /\ metrics \in Registry

InFlight == {r \in Requests : pc[r] \in {"routing", "running"} /\ kind[r] \in Workflows}

(* A request that has not been admitted has no workflow that could fail, and *)
(* only a stream can be left.                                               *)
RequestInv(r) ==
  /\ pc[r] \in {"new", "routing"} =>
       /\ admitted[r] = -1 /\ sent[r] = 0 /\ failure[r] = "none"
       /\ \A a \in Agents : agent[r][a] = "none"
  /\ failure[r] = "left" => kind[r] = "stream"

(* Tokens outlive the request that was answered with them. *)
TokenInv ==
  /\ ~secret => tokens = {}
  /\ \A t \in tokens : t \in Earlier \/ \E l \in Through({"login"}) : sent[l] = 200

BearerInv(r) ==
  /\ bearer[r].issued => bearer[r].exp \in tokens
  /\ admitted[r] >= 0 => secret /\ bearer[r].issued /\ admitted[r] <= bearer[r].exp

IInv ==
  /\ Typed
  /\ \A r \in Requests : RequestInv(r) /\ BearerInv(r)
  /\ TokenInv
  /\ GaugeCountsWorkflows

-----------------------------------------------------------------------------
(* The initial states satisfy the invariant. *)
LEMMA InitHolds == Init => IInv
<1> SUFFICES ASSUME Init PROVE IInv
  OBVIOUS
<1>1. metrics \in Registry /\ metrics.active = 0
  BY DEF Init, Registry, Counter
<1>2. Typed
  BY <1>1 DEF Init, Typed, Earlier, Kinds, Failures
<1>3. ASSUME NEW r \in Requests PROVE RequestInv(r) /\ BearerInv(r)
  BY DEF Init, RequestInv, BearerInv
<1>4. TokenInv
  BY DEF Init, TokenInv
<1>5. GaugeCountsWorkflows
  <2>1. InFlight = {}
    BY DEF Init, InFlight
  <2> QED
    BY <1>1, <2>1, FS_EmptySet DEF GaugeCountsWorkflows, InFlight
<1> QED
  BY <1>2, <1>3, <1>4, <1>5 DEF IInv

(* What a request that leaves does to the counters *)
LEMMA LeaveMetricsShape ==
  ASSUME NEW registry \in Registry, NEW k \in Kinds, NEW status \in Statuses, NEW raises \in BOOLEAN
  PROVE  /\ LeaveMetrics(registry, k, status, raises) \in Registry
         /\ LeaveMetrics(registry, k, status, raises).active =
              registry.active - (IF k \in Workflows THEN 1 ELSE 0)
<1> DEFINE counted == CountRequest(registry, status)
           ended == CountWorkflow(counted, ~raises /\ status < 500)
           login == CountLogin(counted, status < 400)
<1>1. counted \in Registry /\ counted.active = registry.active
  BY DEF CountRequest, Registry
<1>2. \A good \in BOOLEAN : Verdict(good) \in {"success", "failure"}
  BY DEF Verdict
<1> HIDE DEF counted
<1>3. \A good \in BOOLEAN : /\ CountWorkflow(counted, good) \in Registry
                            /\ CountWorkflow(counted, good).active = counted.active
  BY <1>1, <1>2 DEF CountWorkflow, Registry, Counter
<1>4. \A good \in BOOLEAN : /\ CountLogin(counted, good) \in Registry
                            /\ CountLogin(counted, good).active = counted.active
  BY <1>1, <1>2 DEF CountLogin, Registry, Counter
<1>5. \A g \in Registry : /\ AdjustActiveWorkflows(g, -1) \in Registry
                          /\ AdjustActiveWorkflows(g, -1).active = g.active - 1
  BY DEF AdjustActiveWorkflows, Registry
<1>6. LeaveMetrics(registry, k, status, raises) =
        IF k \in Workflows THEN AdjustActiveWorkflows(ended, -1)
        ELSE IF k = "login" THEN login ELSE counted
  BY Zenon DEF LeaveMetrics, counted, Workflows
<1>7. ended \in Registry /\ ended.active = registry.active
  BY <1>1, <1>3
<1>8. login \in Registry /\ login.active = registry.active
  <2>1. (status < 400) \in BOOLEAN
    BY DEF Statuses
  <2> QED
    BY <1>1, <1>4, <2>1, Zenon
<1> HIDE DEF ended, login
<1>9. CASE k \in Workflows
  BY <1>5, <1>6, <1>7, <1>9
<1>10. CASE k \notin Workflows
  <2>1. registry.active - 0 = registry.active
    BY DEF Registry
  <2> QED
    BY <1>1, <1>6, <1>8, <1>10, <2>1
<1> QED
  BY <1>9, <1>10

(* A request that leaves *)
LEMMA LeaveKeeps ==
  ASSUME IInv, NEW r \in Requests, NEW ending, NEW status \in Statuses, Leave(r, ending, status),
         pc[r] \in {"routing", "running"}, UNCHANGED <<now, secret, workflow>>,
         tokens \subseteq tokens', ~secret => tokens' = {}, tokens' \subseteq Int,
         \A t \in tokens' \ tokens : kind[r] = "login" /\ pc[r] = "routing"
                                     /\ ending = "responds" /\ status = 200
  PROVE  IInv'
<1> USE DEF request, workflow
<1> DEFINE seen == IF sent[r] # 0 THEN sent[r] ELSE IF ending = "responds" THEN status ELSE 500
<1>0. Typed /\ TokenInv /\ RequestInv(r)
  BY DEF IInv
<1>1. seen \in Statuses
  BY <1>0 DEF Typed, Statuses
<1>2. /\ pc' = [pc EXCEPT ![r] = "over"]
      /\ sent' = [sent EXCEPT ![r] = IF ending = "cancelled" THEN @ ELSE seen]
      /\ metrics' = LeaveMetrics(metrics, kind[r], seen, ending # "responds")
      /\ UNCHANGED <<kind, bearer, admitted>>
  BY DEF Leave
<1>3. metrics' \in Registry /\ metrics'.active = metrics.active - (IF kind[r] \in Workflows THEN 1 ELSE 0)
  <2>1. (ending # "responds") \in BOOLEAN /\ kind[r] \in Kinds /\ metrics \in Registry
    BY <1>0, Zenon DEF Typed
  <2> HIDE DEF seen
  <2> QED
    BY <1>1, <1>2, <2>1, LeaveMetricsShape, Zenon
<1>4. Typed'
  BY <1>0, <1>1, <1>2, <1>3 DEF Typed
<1>5. ASSUME NEW q \in Requests PROVE RequestInv(q)' /\ BearerInv(q)'
  <2>1. RequestInv(q) /\ BearerInv(q)
    BY DEF IInv
  <2>2. RequestInv(q)'
    BY <1>0, <1>2, <2>1 DEF RequestInv, Typed
  <2>3. BearerInv(q)'
    BY <1>2, <2>1 DEF BearerInv
  <2> QED
    BY <2>2, <2>3
<1>6. TokenInv'
  <2>1. ASSUME NEW t \in tokens', t \notin Earlier
        PROVE  \E l \in Requests : pc'[l] = "over" /\ kind'[l] = "login" /\ sent'[l] = 200
    <3>1. CASE t \in tokens
      <4>1. PICK l \in Requests : pc[l] = "over" /\ kind[l] = "login" /\ sent[l] = 200
        BY <1>0, <2>1, <3>1 DEF TokenInv, Through, Over
      <4>2. l # r
        BY <4>1
      <4> QED
        BY <1>0, <1>2, <4>1, <4>2 DEF Typed
    <3>2. CASE t \notin tokens
      <4>1. kind[r] = "login" /\ sent[r] = 0 /\ ending = "responds" /\ status = 200
        BY <1>0, <3>2 DEF RequestInv
      <4> QED
        BY <1>0, <1>2, <4>1 DEF Typed
    <3> QED
      BY <3>1, <3>2
  <2> QED
    BY <2>1 DEF TokenInv, Through, Over
<1>7. GaugeCountsWorkflows'
  <2>1. IsFiniteSet(InFlight) /\ metrics.active = Cardinality(InFlight)
    BY EdgeAssumption, FS_Subset DEF InFlight, IInv, GaugeCountsWorkflows
  <2>2. CASE kind[r] \in Workflows
    <3>1. InFlight' = InFlight \ {r} /\ r \in InFlight
      BY <1>0, <1>2, <2>2 DEF InFlight, Typed
    <3>2. Cardinality(InFlight') = Cardinality(InFlight) - 1
      BY <2>1, <3>1, FS_RemoveElement
    <3> QED
      BY <1>3, <2>1, <2>2, <3>2 DEF GaugeCountsWorkflows, InFlight
  <2>3. CASE kind[r] \notin Workflows
    <3>1. InFlight' = InFlight
      BY <1>0, <1>2, <2>3 DEF InFlight, Typed
    <3>2. metrics'.active = metrics.active
      BY <1>0, <1>3, <2>3 DEF Typed, Registry
    <3> QED
      BY <2>1, <3>1, <3>2 DEF GaugeCountsWorkflows, InFlight
  <2> QED
    BY <2>2, <2>3
<1> QED
  BY <1>4, <1>5, <1>6, <1>7 DEF IInv

(* A step that neither admits a request nor lets one leave, nor touches the *)
(* gauge *)
LEMMA QuietKeeps ==
  ASSUME IInv, UNCHANGED <<now, secret, tokens, request>>, metrics' \in Registry,
         metrics'.active = metrics.active,
         agent' \in [Requests -> [Agents -> {"none", "created", "awaiting", "ended", "leaked"}]],
         failure' \in [Requests -> Failures],
         \A r \in Requests : pc[r] \in {"new", "routing"} =>
                               agent'[r] = agent[r] /\ failure'[r] = failure[r],
         \A r \in Requests : failure'[r] = "left" => failure[r] = "left" \/ kind[r] = "stream"
  PROVE  IInv'
<1> USE DEF request
<1>1. Typed'
  BY DEF IInv, Typed
<1>2. ASSUME NEW r \in Requests PROVE RequestInv(r)' /\ BearerInv(r)'
  BY DEF IInv, RequestInv, BearerInv
<1>3. TokenInv'
  BY DEF IInv, TokenInv, Through, Over
<1>4. GaugeCountsWorkflows'
  <2>1. pc' = pc /\ kind' = kind
    OBVIOUS
  <2>2. InFlight' = InFlight
    BY <2>1 DEF InFlight
  <2> QED
    BY <2>2 DEF IInv, GaugeCountsWorkflows, InFlight
<1> QED
  BY <1>1, <1>2, <1>3, <1>4 DEF IInv

(* A measured call and a failure, in the workflow of an admitted request *)
LEMMA AgentKeeps ==
  ASSUME IInv, NEW r \in Requests, NEW a \in Agents,
         BeginAgent(r, a) \/ EndAgent(r, a) \/ CancelAgent(r, a)
  PROVE  IInv'
<1>0. Typed /\ RequestInv(r)
  BY DEF IInv
<1>1. \A good \in BOOLEAN : /\ MeasuredCall(metrics, good) \in Registry
                            /\ MeasuredCall(metrics, good).active = metrics.active
  <2>1. metrics \in Registry
    BY <1>0 DEF Typed
  <2> QED
    BY <2>1 DEF Registry, MeasuredCall
<1>2. metrics' \in Registry /\ metrics'.active = metrics.active
  <2>1. metrics' = metrics \/ \E good \in BOOLEAN : metrics' = MeasuredCall(metrics, good)
    BY Zenon DEF BeginAgent, EndAgent, CancelAgent
  <2> QED
    BY <1>0, <1>1, <2>1 DEF Typed
<1>3. /\ UNCHANGED <<now, secret, tokens, request>>
      /\ agent[r][a] \in {"created", "awaiting"}
      /\ \E s \in {"leaked", "ended", "awaiting"} : Becomes(r, a, s)
      /\ failure' = failure \/ \E why \in {"other", "domain", "none", "llm"} : FailsWith(r, why)
  <2>1. CASE BeginAgent(r, a)
    BY <2>1 DEF BeginAgent, Untouched
  <2>2. CASE EndAgent(r, a)
    <3>1. \E why \in {"other", "domain", "none", "llm"} : FailsWith(r, why)
      BY <2>2, Zenon DEF EndAgent
    <3> QED
      BY <2>2, <3>1 DEF EndAgent, Untouched
  <2>3. CASE CancelAgent(r, a)
    BY <2>3 DEF CancelAgent, Untouched
  <2> QED
    BY <2>1, <2>2, <2>3
<1>4. agent' \in [Requests -> [Agents -> {"none", "created", "awaiting", "ended", "leaked"}]]
      /\ \A q \in Requests \ {r} : agent'[q] = agent[q]
  <2>1. PICK s \in {"leaked", "ended", "awaiting"} : agent' = [agent EXCEPT ![r][a] = s]
    BY <1>3 DEF Becomes
  <2> QED
    BY <1>0, <2>1 DEF Typed
<1>5. /\ failure' \in [Requests -> Failures]
      /\ \A q \in Requests : failure'[q] = "left" => failure[q] = "left"
      /\ \A q \in Requests \ {r} : failure'[q] = failure[q]
  <2>1. failure \in [Requests -> Failures]
    BY <1>0 DEF Typed
  <2>2. CASE failure' = failure
    BY <2>1, <2>2
  <2>3. CASE \E why \in {"other", "domain", "none", "llm"} : FailsWith(r, why)
    BY <2>1, <2>3 DEF FailsWith, Failures
  <2> QED
    BY <1>3, <2>2, <2>3
<1>6. pc[r] \notin {"new", "routing"}
  BY <1>0, <1>3 DEF RequestInv
<1> QED
  BY <1>2, <1>3, <1>4, <1>5, <1>6, QuietKeeps

(* A request arrives: a workflow is in flight from here on. *)
LEMMA ArriveKeeps ==
  ASSUME IInv, NEW r \in Requests, Arrive(r)
  PROVE  IInv'
<1>0. Typed /\ TokenInv /\ pc[r] = "new"
  BY DEF IInv, Arrive
<1>1. PICK k \in Kinds, c \in Credentials :
        /\ kind' = [kind EXCEPT ![r] = k] /\ bearer' = [bearer EXCEPT ![r] = c]
        /\ metrics' = IF k \in Workflows THEN AdjustActiveWorkflows(metrics, 1) ELSE metrics
        /\ pc' = [pc EXCEPT ![r] = "routing"]
        /\ UNCHANGED <<now, secret, tokens, admitted, sent, agent, failure>>
  BY DEF Arrive, workflow
<1>2. metrics' \in Registry /\ metrics'.active = metrics.active + (IF k \in Workflows THEN 1 ELSE 0)
  <2>1. metrics \in Registry
    BY <1>0 DEF Typed
  <2>2. CASE k \in Workflows
    BY <1>1, <2>1, <2>2 DEF Registry, AdjustActiveWorkflows
  <2>3. CASE k \notin Workflows
    BY <1>1, <2>1, <2>3 DEF Registry
  <2> QED
    BY <2>2, <2>3
<1>3. c \in [issued : BOOLEAN, exp : Int] /\ (c.issued => c.exp \in tokens)
  <2>1. tokens \subseteq Int
    BY <1>0 DEF Typed
  <2>2. c \in [issued : {FALSE}, exp : {0}] \/ c \in [issued : {TRUE}, exp : tokens]
    BY DEF Credentials
  <2>3. CASE c \in [issued : {FALSE}, exp : {0}]
    <3>1. c = [issued |-> c.issued, exp |-> c.exp] /\ c.issued = FALSE /\ c.exp = 0
      BY <2>3
    <3>2. ~c.issued
      BY <3>1, Zenon
    <3>3. c.issued \in BOOLEAN
      BY <3>1, Zenon
    <3>4. c.exp \in Int
      BY <3>1, SMT
    <3> QED
      BY <3>1, <3>2, <3>3, <3>4, Zenon
  <2>4. CASE c \in [issued : {TRUE}, exp : tokens]
    <3>1. c = [issued |-> c.issued, exp |-> c.exp] /\ c.issued = TRUE /\ c.exp \in tokens
      BY <2>4
    <3>2. c.exp \in Int /\ c.issued \in BOOLEAN
      BY <2>1, <3>1
    <3> QED
      BY <3>1, <3>2
  <2> QED
    BY <2>2, <2>3, <2>4
<1>4. Typed'
  BY <1>0, <1>1, <1>2, <1>3 DEF Typed
<1>5. ASSUME NEW q \in Requests PROVE RequestInv(q)' /\ BearerInv(q)'
  <2>1. RequestInv(q) /\ BearerInv(q)
    BY DEF IInv
  <2>2. CASE q = r
    <3>1. admitted'[r] = -1 /\ sent'[r] = 0 /\ failure'[r] = "none" /\ agent' = agent
      BY <1>0, <1>1, <2>1, <2>2 DEF RequestInv
    <3>2. bearer'[r] = c /\ ~(admitted'[r] >= 0)
      BY <1>0, <1>1, <3>1 DEF Typed
    <3> QED
      BY <1>0, <1>1, <1>3, <2>1, <2>2, <3>1, <3>2 DEF RequestInv, BearerInv
  <2>3. CASE q # r
    BY <1>0, <1>1, <2>1, <2>3 DEF RequestInv, BearerInv, Typed
  <2> QED
    BY <2>2, <2>3
<1>6. TokenInv'
  <2>1. \A l \in Requests : pc[l] = "over" => pc'[l] = "over" /\ kind'[l] = kind[l]
    BY <1>0, <1>1 DEF Typed
  <2> QED
    BY <1>0, <1>1, <2>1 DEF TokenInv, Through, Over
<1>7. GaugeCountsWorkflows'
  <2>1. IsFiniteSet(InFlight) /\ metrics.active = Cardinality(InFlight) /\ r \notin InFlight
    BY <1>0, EdgeAssumption, FS_Subset DEF InFlight, IInv, GaugeCountsWorkflows
  <2>2. CASE k \in Workflows
    <3>1. InFlight' = InFlight \cup {r}
      BY <1>0, <1>1, <2>2 DEF InFlight, Typed
    <3>2. Cardinality(InFlight') = Cardinality(InFlight) + 1
      BY <2>1, <3>1, FS_AddElement
    <3> QED
      BY <1>2, <2>1, <2>2, <3>2 DEF GaugeCountsWorkflows, InFlight
  <2>3. CASE k \notin Workflows
    <3>1. InFlight' = InFlight
      BY <1>0, <1>1, <2>1, <2>3 DEF InFlight, Typed
    <3>2. metrics' = metrics
      BY <1>1, <2>3
    <3> QED
      BY <2>1, <3>1, <3>2 DEF GaugeCountsWorkflows, InFlight
  <2> QED
    BY <2>2, <2>3
<1> QED
  BY <1>4, <1>5, <1>6, <1>7 DEF IInv

(* A workflow is started, for the holder of a token that is still good. *)
LEMMA AdmitKeeps ==
  ASSUME IInv, NEW r \in Requests, Admit(r)
  PROVE  IInv'
<1>0. Typed /\ TokenInv
  BY DEF IInv
<1>1. /\ pc[r] = "routing" /\ kind[r] \in Workflows /\ pc' = [pc EXCEPT ![r] = "running"]
      /\ secret /\ bearer[r].issued /\ now <= bearer[r].exp
      /\ admitted' = [admitted EXCEPT ![r] = now]
      /\ sent' = [sent EXCEPT ![r] = IF kind[r] = "stream" THEN 200 ELSE 0]
      /\ agent' = [agent EXCEPT ![r] = [a \in Agents |-> "created"]]
      /\ UNCHANGED <<now, secret, tokens, kind, bearer, failure, metrics>>
  BY DEF Admit, VerifyAccessToken
<1>2. Typed'
  BY <1>0, <1>1 DEF Typed, Statuses
<1>3. ASSUME NEW q \in Requests PROVE RequestInv(q)' /\ BearerInv(q)'
  <2>1. RequestInv(q) /\ BearerInv(q)
    BY DEF IInv
  <2>2. CASE q = r
    BY <1>0, <1>1, <2>1, <2>2 DEF RequestInv, BearerInv, Typed
  <2>3. CASE q # r
    BY <1>0, <1>1, <2>1, <2>3 DEF RequestInv, BearerInv, Typed
  <2> QED
    BY <2>2, <2>3
<1>4. TokenInv'
  <2>1. \A l \in Requests : pc[l] = "over" => pc'[l] = "over" /\ sent'[l] = sent[l]
    BY <1>0, <1>1 DEF Typed
  <2> QED
    BY <1>0, <1>1, <2>1 DEF TokenInv, Through, Over
<1>5. GaugeCountsWorkflows'
  <2>1. InFlight' = InFlight
    BY <1>0, <1>1 DEF InFlight, Typed
  <2> QED
    BY <1>1, <2>1 DEF IInv, GaugeCountsWorkflows, InFlight
<1> QED
  BY <1>2, <1>3, <1>4, <1>5 DEF IInv

(* The ways a request can leave: refused, served, logged in or through with *)
(* its workflow                                                             *)
LEMMA DepartureKeeps ==
  ASSUME IInv, NEW r \in Requests,
         Unprocessable(r) \/ Serve(r) \/ Login(r) \/ Refuse(r) \/ Finish(r)
  PROVE  IInv'
<1>0. Typed /\ TokenInv /\ RequestInv(r)
  BY DEF IInv
<1>1. ASSUME NEW ending, NEW status \in Statuses, Leave(r, ending, status),
             pc[r] \in {"routing", "running"}, UNCHANGED <<now, secret, tokens, workflow>>
      PROVE  IInv'
  <2>1. /\ UNCHANGED <<now, secret, workflow>>
        /\ tokens \subseteq tokens' /\ tokens' \subseteq Int /\ tokens' \ tokens = {}
        /\ ~secret => tokens' = {}
    BY <1>0, <1>1 DEF TokenInv, Typed
  <2> QED
    BY <1>1, <2>1, LeaveKeeps
<1>2. CASE Unprocessable(r) \/ Serve(r) \/ Refuse(r)
  <2>1. /\ pc[r] = "routing" /\ UNCHANGED <<now, secret, tokens, workflow>>
        /\ \E s \in {200, 401, 422} : Leave(r, "responds", s)
    BY <1>2 DEF Unprocessable, Serve, Refuse
  <2> QED
    BY <1>1, <2>1 DEF Statuses
<1>3. CASE Login(r)
  <2>1. pc[r] = "routing" /\ kind[r] = "login" /\ UNCHANGED <<now, secret, workflow>>
    BY <1>3 DEF Login
  <2>2. CASE secret /\ tokens' = tokens \cup {CreateAccessToken} /\ Leave(r, "responds", 200)
    <3>1. CreateAccessToken \in Int
      BY <1>0, EdgeAssumption DEF CreateAccessToken, Typed
    <3>2. /\ tokens \subseteq tokens' /\ tokens' \subseteq Int /\ 200 \in Statuses
          /\ ~secret => tokens' = {}
      BY <1>0, <2>2, <3>1 DEF Typed, Statuses
    <3> QED
      BY <2>1, <2>2, <3>2, LeaveKeeps
  <2>3. CASE UNCHANGED tokens /\ \E e \in {"responds", "raises"}, s \in {401, 500} : Leave(r, e, s)
    BY <1>1, <2>1, <2>3 DEF Statuses
  <2> QED
    BY <1>3, <2>2, <2>3 DEF Login
<1>4. CASE Finish(r)
  <2>1. pc[r] = "running" /\ UNCHANGED <<now, secret, tokens, workflow>>
    BY <1>4 DEF Finish
  <2>2. \E e \in {"responds", "raises", "cancelled"}, s \in Statuses : Leave(r, e, s)
    <3>1. failure[r] \in Failures /\ (failure[r] = "left" => kind[r] = "stream")
      BY <1>0 DEF Typed, RequestInv
    <3>2. CASE FinishRun(r)
      <4>1. kind[r] = "run" /\ failure[r] \in {"none", "domain", "llm", "other", "cancelled"}
        BY <3>1, <3>2 DEF FinishRun, Failures
      <4>2. DOMAIN HandledStatus = {"domain", "llm"} /\ HandledStatus["domain"] = 400
            /\ HandledStatus["llm"] = 503
        BY DEF HandledStatus
      <4> QED
        <5>1. CASE failure[r] = "none"
          <6>1. Leave(r, "responds", 200)
            BY <3>2, <4>2, <5>1 DEF FinishRun
          <6> QED
            BY <6>1 DEF Statuses
        <5>2. CASE failure[r] \in {"domain", "llm"}
          <6>1. Leave(r, "responds", HandledStatus[failure[r]])
            BY <3>2, <4>2, <5>2 DEF FinishRun
          <6> QED
            BY <4>2, <5>2, <6>1 DEF Statuses
        <5>3. CASE failure[r] = "other"
          <6>1. Leave(r, "raises", 500)
            BY <3>2, <4>2, <5>3 DEF FinishRun
          <6> QED
            BY <6>1 DEF Statuses
        <5>4. CASE failure[r] = "cancelled"
          <6>1. Leave(r, "cancelled", 500)
            BY <3>2, <4>2, <5>4 DEF FinishRun
          <6> QED
            BY <6>1 DEF Statuses
        <5> QED
          BY <4>1, <5>1, <5>2, <5>3, <5>4
    <3>3. CASE FinishStream(r)
      BY <3>1, <3>3 DEF FinishStream, Failures, Statuses
    <3> QED
      BY <1>4, <3>2, <3>3 DEF Finish
  <2> QED
    BY <1>1, <2>1, <2>2
<1> QED
  BY <1>2, <1>3, <1>4

(* Every step preserves the invariant. *)
LEMMA NextKeeps == IInv /\ [Next]_vars => IInv'
<1> SUFFICES ASSUME IInv, [Next]_vars PROVE IInv'
  OBVIOUS
<1>0. Typed
  BY DEF IInv
<1>1. ASSUME NEW r \in Requests, Interrupt(r) PROVE IInv'
  <2>1. /\ pc[r] = "running" /\ UNCHANGED <<agent, metrics>>
        /\ UNCHANGED <<now, secret, tokens, request>>
    BY <1>1 DEF Interrupt, Untouched
  <2>2. PICK why \in {"cancelled", "left"} :
          failure' = [failure EXCEPT ![r] = why] /\ (why = "left" => kind[r] = "stream")
    BY <1>1 DEF Interrupt
  <2>3. /\ failure' \in [Requests -> Failures]
        /\ \A q \in Requests : failure'[q] = "left" => failure[q] = "left" \/ kind[q] = "stream"
        /\ \A q \in Requests \ {r} : failure'[q] = failure[q]
    BY <1>0, <2>2 DEF Typed, Failures
  <2> QED
    BY <1>0, <2>1, <2>3, QuietKeeps DEF Typed
<1>2. CASE Tick
  <2>1. now' = now + 1 /\ UNCHANGED <<secret, tokens, request, workflow, metrics>>
    BY <1>2 DEF Tick
  <2>2. Typed'
    BY <1>0, <2>1 DEF Typed, request, workflow
  <2> QED
    BY <2>1, <2>2 DEF IInv, request, workflow, RequestInv, BearerInv, TokenInv, Through, Over,
      GaugeCountsWorkflows
<1>3. CASE UNCHANGED vars
  BY <1>0, <1>3, QuietKeeps DEF vars, request, workflow, Typed, IInv
<1> QED
  BY <1>1, <1>2, <1>3, ArriveKeeps, AdmitKeeps, DepartureKeeps, AgentKeeps DEF Next

(* So it always holds. *)
LEMMA AlwaysIInv == Spec => []IInv
<1>1. Init => IInv
  BY InitHolds
<1>2. IInv /\ [Next]_vars => IInv'
  BY NextKeeps
<1> QED
  BY <1>1, <1>2, PTL DEF Spec

-----------------------------------------------------------------------------
(* The gauge is the number of workflow requests in flight, whatever they    *)
(* end with and however many overlap.                                       *)
THEOREM GaugeAlwaysCounts == Spec => []GaugeCountsWorkflows
<1>1. IInv => GaugeCountsWorkflows
  BY DEF IInv
<1> QED
  BY <1>1, AlwaysIInv, PTL

(* No workflow runs but for the holder of a token that a login was answered *)
(* with and that had not expired.                                           *)
THEOREM OnlyTokenHoldersRun == Spec => []OnlyTokenHolders
<1>1. IInv => OnlyTokenHolders
  BY DEF IInv, BearerInv, TokenInv, OnlyTokenHolders
<1> QED
  BY <1>1, AlwaysIInv, PTL

-----------------------------------------------------------------------------
(* Spans: what Tracer's operators do to a tracer of this component. A       *)
(* tracer is kept in its form (IsTracer), a span is changed or exported on  *)
(* its own, and the open spans of a running workflow form a trunk, request  *)
(* and workflow, from which the agents' grow.                               *)

(* A tracer's fields, and its open spans and contexts as functions *)
IsTracer(t) ==
  /\ t = [active |-> t.active, current |-> t.current, exported |-> t.exported]
  /\ t.active = [h \in DOMAIN t.active |-> t.active[h]]
  /\ t.current = [task \in Agents \cup {Main} |-> t.current[task]]

Span(parent, run, error, success) ==
  [parent |-> parent, run |-> run, error |-> error, success |-> success]

IsSpan(x) == x = Span(x.parent, x.run, x.error, x.success)

(* What a span is made of *)
LEMMA SpanFields ==
  ASSUME NEW x, NEW p, NEW r, NEW e, NEW s, x = Span(p, r, e, s)
  PROVE  IsSpan(x) /\ x.parent = p /\ x.run = r /\ x.error = e /\ x.success = s
<1>1. x.parent = p /\ x.run = r /\ x.error = e /\ x.success = s
  BY DEF Span
<1> QED
  BY <1>1, Zenon DEF IsSpan

(* A span as it is opened *)
Fresh(parent, run) == Span(parent, run, FALSE, TRUE)

(* What a fresh span is made of, and that learning its run leaves it fresh *)
LEMMA FreshFields ==
  /\ \A x, p, r : x = Fresh(p, r) => IsSpan(x) /\ x.parent = p /\ x.run = r
  /\ \A x, p, r, q : x = Fresh(p, q) => Span(x.parent, r, x.error, x.success) = Fresh(p, r)
<1>1. \A x, p, r : x = Fresh(p, r) => x.parent = p /\ x.run = r
                                     /\ x = Span(x.parent, x.run, x.error, x.success)
  BY DEF Fresh, Span
<1>2. \A x, p, r, q : x = Fresh(p, q) => Span(x.parent, r, x.error, x.success) = Fresh(p, r)
  BY DEF Fresh, Span
<1> QED
  BY <1>1, <1>2, Zenon DEF IsSpan

CallNames == {"audit.log_start", "mlflow.start_run", "audit.log_finish"}
IsCall(h, a) == h[1] \in CallNames /\ h = <<h[1], a>>

(* Every open span has the parent SpansNest states. *)
Layered(active) ==
  \A h \in DOMAIN active :
    \/ h = RequestSpan /\ active[h].parent = NoSpan
    \/ h = WorkflowSpan /\ active[h].parent = RequestSpan
    \/ \E a \in Agents : h = AgentSpan(a) /\ active[h].parent = WorkflowSpan
    \/ \E a \in Agents : IsCall(h, a) /\ active[h].parent = AgentSpan(a)

(* The handles of requests, workflows, agents and their calls are           *)
(* different.                                                               *)
LEMMA Handles ==
  /\ RequestSpan # WorkflowSpan /\ NoSpan \notin {RequestSpan, WorkflowSpan}
  /\ \A a, b : /\ AgentSpan(a) \notin {RequestSpan, WorkflowSpan, NoSpan}
               /\ AgentSpan(a) = AgentSpan(b) => a = b
  /\ \A h, a, b : /\ IsCall(h, a) => h \notin {RequestSpan, WorkflowSpan, NoSpan, AgentSpan(b)}
                  /\ IsCall(h, a) /\ IsCall(h, b) => a = b
  BY DEF RequestSpan, WorkflowSpan, NoSpan, AgentSpan, IsCall, CallNames

(* The open spans form a line from each agent to its request: what          *)
(* _propagate_identity walks along                                          *)
LEMMA Lines ==
  ASSUME NEW active, Layered(active), {RequestSpan, WorkflowSpan} \subseteq DOMAIN active
  PROVE  /\ Ancestry(active, WorkflowSpan) = {WorkflowSpan, RequestSpan}
         /\ \A a \in Agents : AgentSpan(a) \in DOMAIN active =>
              Ancestry(active, AgentSpan(a)) = {AgentSpan(a), WorkflowSpan, RequestSpan}
         /\ Ancestry(active, NoSpan) = {}
<1> DEFINE D == DOMAIN active
           Solves(f) == f = [h \in D |-> {h} \cup (IF active[h].parent \in D THEN f[active[h].parent] ELSE {})]
           rest(h) == IF h = RequestSpan THEN {}
                      ELSE IF h = WorkflowSpan THEN {RequestSpan}
                      ELSE IF active[h].parent = WorkflowSpan THEN {WorkflowSpan, RequestSpan}
                      ELSE IF active[h].parent \in D THEN {active[h].parent, WorkflowSpan, RequestSpan}
                      ELSE {}
           U == [h \in D |-> {h} \cup rest(h)]
<1>1. NoSpan \notin D
  BY Handles DEF Layered
<1>2. ASSUME NEW h \in D
      PROVE  U[h] = {h} \cup (IF active[h].parent \in D THEN U[active[h].parent] ELSE {})
  <2>0. U[h] = {h} \cup rest(h) /\ U[RequestSpan] = {RequestSpan} /\ U[WorkflowSpan] = {WorkflowSpan, RequestSpan}
    BY Handles
  <2> HIDE DEF U
  <2>1. CASE h = RequestSpan /\ active[h].parent = NoSpan
    BY <1>1, <2>0, <2>1
  <2>2. CASE h = WorkflowSpan /\ active[h].parent = RequestSpan
    BY <2>0, <2>2, Handles
  <2>3. ASSUME NEW a \in Agents, h = AgentSpan(a), active[h].parent = WorkflowSpan
        PROVE U[h] = {h} \cup (IF active[h].parent \in D THEN U[active[h].parent] ELSE {})
    <3>1. rest(h) = {WorkflowSpan, RequestSpan}
      BY <2>3, Handles
    <3> QED
      BY <2>0, <2>3, <3>1
  <2>4. ASSUME NEW a \in Agents, IsCall(h, a), active[h].parent = AgentSpan(a)
        PROVE U[h] = {h} \cup (IF active[h].parent \in D THEN U[active[h].parent] ELSE {})
    <3>1. CASE AgentSpan(a) \in D
      <4>1. active[AgentSpan(a)].parent = WorkflowSpan
        BY <3>1, Handles DEF Layered
      <4>2. rest(AgentSpan(a)) = {WorkflowSpan, RequestSpan}
        BY <4>1, Handles
      <4>3. U[AgentSpan(a)] = {AgentSpan(a), WorkflowSpan, RequestSpan}
        BY <3>1, <4>2 DEF U
      <4>4. rest(h) = {AgentSpan(a), WorkflowSpan, RequestSpan}
        BY <2>4, <3>1, Handles
      <4> HIDE DEF rest
      <4> QED
        BY <2>0, <2>4, <3>1, <4>3, <4>4
    <3>2. CASE AgentSpan(a) \notin D
      <4>1. rest(h) = {}
        BY <2>4, <3>2, Handles
      <4> HIDE DEF rest
      <4> QED
        BY <2>0, <2>4, <3>2, <4>1
    <3> QED
      BY <3>1, <3>2
  <2> QED
    BY <2>1, <2>2, <2>3, <2>4 DEF Layered
<1>3. Solves(U)
  BY <1>2
<1>4. PICK up : Solves(up) /\ \A h : Ancestry(active, h) = IF h \in D THEN up[h] ELSE {}
  <2>1. Solves(CHOOSE f : Solves(f))
    BY <1>3, Zenon
  <2>2. \A h : Ancestry(active, h) = IF h \in D THEN (CHOOSE f : Solves(f))[h] ELSE {}
    BY Zenon DEF Ancestry
  <2> QED
    BY <2>1, <2>2, Zenon
<1> HIDE DEF U
<1>5. \A h \in D : up[h] = {h} \cup (IF active[h].parent \in D THEN up[active[h].parent] ELSE {})
  BY <1>4
<1>6. active[RequestSpan].parent = NoSpan /\ active[WorkflowSpan].parent = RequestSpan
  BY Handles DEF Layered
<1>7. up[RequestSpan] = {RequestSpan}
  BY <1>1, <1>5, <1>6
<1>8. up[WorkflowSpan] = {WorkflowSpan, RequestSpan}
  BY <1>5, <1>6, <1>7
<1>9. ASSUME NEW a \in Agents, AgentSpan(a) \in D
      PROVE  up[AgentSpan(a)] = {AgentSpan(a), WorkflowSpan, RequestSpan}
  <2>1. active[AgentSpan(a)].parent = WorkflowSpan
    BY <1>9, Handles DEF Layered
  <2> QED
    BY <1>5, <1>8, <1>9, <2>1
<1> QED
  BY <1>1, <1>4, <1>8, <1>9

(* start_span: the task's new span under its context, which it becomes *)
LEMMA StartSpanShape ==
  ASSUME NEW t, IsTracer(t), NEW task \in Agents \cup {Main}, NEW name, NEW run
  PROVE  LET u == StartSpan(t, task, name, run)
             more == With(t.active, <<name, task>>, Fresh(t.current[task], run))
         IN /\ IsTracer(u)
            /\ u.active = PropagateIdentity(more, t.current[task], run)
            /\ DOMAIN u.active = DOMAIN t.active \cup {<<name, task>>}
            /\ u.current[task] = <<name, task>>
            /\ \A k \in (Agents \cup {Main}) \ {task} : u.current[k] = t.current[k]
            /\ u.exported = t.exported
<1> DEFINE span == Fresh(t.current[task], run)
           more == With(t.active, <<name, task>>, span)
           spread == PropagateIdentity(more, t.current[task], run)
           u == StartSpan(t, task, name, run)
<1>1. u = [t EXCEPT !.active = spread, !.current[task] = <<name, task>>]
  BY Zenon DEF StartSpan, Fresh, Span
<1>2. DOMAIN more = DOMAIN t.active \cup {<<name, task>>} /\ more = [h \in DOMAIN more |-> more[h]]
  BY DEF With
<1> HIDE DEF more
<1>3. spread = [h \in DOMAIN spread |-> spread[h]] /\ DOMAIN spread = DOMAIN more
  BY <1>2 DEF PropagateIdentity
<1> HIDE DEF spread, u
<1>4. /\ t = [active |-> t.active, current |-> t.current, exported |-> t.exported]
      /\ t.current = [k \in Agents \cup {Main} |-> t.current[k]]
  BY DEF IsTracer
<1>5. u = [active |-> spread, current |-> [t.current EXCEPT ![task] = <<name, task>>],
           exported |-> t.exported]
  BY <1>1, <1>4
<1>6. u.active = spread /\ u.exported = t.exported
      /\ u.current = [t.current EXCEPT ![task] = <<name, task>>]
  BY <1>5
<1>7. /\ u.current = [k \in Agents \cup {Main} |-> u.current[k]]
      /\ u.current[task] = <<name, task>>
      /\ \A k \in (Agents \cup {Main}) \ {task} : u.current[k] = t.current[k]
  BY <1>4, <1>6
<1>8. IsTracer(u)
  BY <1>3, <1>5, <1>6, <1>7 DEF IsTracer
<1> QED
  BY <1>2, <1>3, <1>6, <1>7, <1>8 DEF spread, more, span, u

(* One span more is exported. *)
Exports(t, u, handle, parent, run, error, success) ==
  \E s : /\ u.exported = t.exported \cup {s}
         /\ s.handle = handle /\ s.parent = parent /\ s.run = run
         /\ s.error = error /\ s.success = success

(* end_span: the span is exported with what was recorded on it, and its     *)
(* task is back in its parent                                               *)
LEMMA EndSpanShape ==
  ASSUME NEW t, IsTracer(t), NEW task \in Agents \cup {Main}, NEW h, h[2] = task, h \in DOMAIN t.active,
         NEW parent, NEW run, NEW error, NEW success,
         t.active[h] = Span(parent, run, error, success)
  PROVE  LET u == EndSpan(t, h)
         IN /\ IsTracer(u)
            /\ DOMAIN u.active = DOMAIN t.active \ {h}
            /\ \A g \in DOMAIN u.active : u.active[g] = t.active[g]
            /\ u.current[task] = parent
            /\ \A k \in (Agents \cup {Main}) \ {task} : u.current[k] = t.current[k]
            /\ Exports(t, u, h, parent, run, error, success)
<1> DEFINE u == EndSpan(t, h)
           s == [handle |-> h, parent |-> t.active[h].parent, run |-> t.active[h].run,
                 error |-> t.active[h].error, success |-> t.active[h].success]
<1>1. s.handle = h /\ s.parent = parent /\ s.run = run /\ s.error = error /\ s.success = success
  BY DEF Span
<1> HIDE DEF s
<1>2. u = [active |-> [g \in DOMAIN t.active \ {h} |-> t.active[g]],
           current |-> [t.current EXCEPT ![h[2]] = t.active[h].parent],
           exported |-> t.exported \cup {s}]
  BY Zenon DEF EndSpan, s
<1> HIDE DEF u
<1>3. u.active = [g \in DOMAIN t.active \ {h} |-> t.active[g]]
  BY <1>2
<1>4. u.current = [t.current EXCEPT ![task] = parent]
  BY <1>2 DEF Span
<1>5. u.exported = t.exported \cup {s}
  BY <1>2
<1>6. u = [active |-> u.active, current |-> u.current, exported |-> u.exported]
  BY <1>2
<1>7. t.current = [k \in Agents \cup {Main} |-> t.current[k]]
  BY DEF IsTracer
<1>8. u.current = [k \in Agents \cup {Main} |-> u.current[k]]
  BY <1>4, <1>7
<1>9. u.current[task] = parent /\ \A k \in (Agents \cup {Main}) \ {task} : u.current[k] = t.current[k]
  BY <1>4, <1>7
<1>10. /\ u.active = [g \in DOMAIN u.active |-> u.active[g]] /\ DOMAIN u.active = DOMAIN t.active \ {h}
       /\ \A g \in DOMAIN u.active : u.active[g] = t.active[g]
  BY <1>3
<1>11. IsTracer(u)
  BY <1>6, <1>8, <1>10 DEF IsTracer
<1>12. Exports(t, u, h, parent, run, error, success)
  BY <1>1, <1>5, Zenon DEF Exports
<1> QED
  BY <1>9, <1>10, <1>11, <1>12, Zenon DEF u

(* An open span changed in place *)
Changed(t, u, h, span) ==
  /\ IsTracer(u) /\ DOMAIN u.active = DOMAIN t.active
  /\ u.active[h] = span
  /\ \A g \in DOMAIN t.active \ {h} : u.active[g] = t.active[g]
  /\ u.current = t.current /\ u.exported = t.exported

(* record_exception and set_attribute change one open span, and nothing     *)
(* else.                                                                    *)
LEMMA MarkShape ==
  ASSUME NEW t, IsTracer(t), NEW h \in DOMAIN t.active,
         NEW parent, NEW run, NEW error, NEW success,
         t.active[h] = Span(parent, run, error, success)
  PROVE  /\ Changed(t, RecordException(t, h), h, Span(parent, run, TRUE, success))
         /\ \A value : Changed(t, SetSuccess(t, h, value), h, Span(parent, run, error, value))
<1>1. /\ t = [active |-> t.active, current |-> t.current, exported |-> t.exported]
      /\ t.active = [g \in DOMAIN t.active |-> t.active[g]]
      /\ t.current = [k \in Agents \cup {Main} |-> t.current[k]]
  BY DEF IsTracer
<1>2. ASSUME NEW u, NEW span, u = [t EXCEPT !.active = [t.active EXCEPT ![h] = span]]
      PROVE  Changed(t, u, h, span)
  <2>1. u = [active |-> [t.active EXCEPT ![h] = span], current |-> t.current, exported |-> t.exported]
    BY <1>1, <1>2
  <2>2. u.active = [t.active EXCEPT ![h] = span] /\ u.current = t.current /\ u.exported = t.exported
    BY <2>1
  <2>3. /\ u.active = [g \in DOMAIN u.active |-> u.active[g]] /\ DOMAIN u.active = DOMAIN t.active
        /\ u.active[h] = span /\ \A g \in DOMAIN t.active \ {h} : u.active[g] = t.active[g]
    BY <1>1, <2>2
  <2>4. u = [active |-> u.active, current |-> u.current, exported |-> u.exported]
    BY <2>1
  <2> QED
    BY <1>1, <2>2, <2>3, <2>4 DEF Changed, IsTracer
<1>3. \A value : [t.active[h] EXCEPT !.error = value] = Span(parent, run, value, success)
  BY DEF Span
<1>4. RecordException(t, h) = [t EXCEPT !.active = [t.active EXCEPT ![h] = Span(parent, run, TRUE, success)]]
  BY <1>3, Zenon DEF RecordException
<1>5. ASSUME NEW value
      PROVE  SetSuccess(t, h, value) = [t EXCEPT !.active = [t.active EXCEPT ![h] = Span(parent, run, error, value)]]
  <2>1. [t.active[h] EXCEPT !.success = value] = Span(parent, run, error, value)
    BY DEF Span
  <2> QED
    BY <2>1, Zenon DEF SetSuccess
<1> QED
  BY <1>2, <1>4, <1>5, Zenon

(* A span added to spans that nest: what it tells its ancestors *)
LEMMA SpreadShape ==
  ASSUME NEW active, NEW handle, NEW run,
         active = [h \in DOMAIN active |-> active[h]],
         \A h \in DOMAIN active : IsSpan(active[h])
  PROVE  LET u == PropagateIdentity(active, handle, run)
         IN /\ DOMAIN u = DOMAIN active
            /\ \A h \in DOMAIN active :
                 u[h] = Span(active[h].parent,
                             IF run # Unknown /\ h \in Ancestry(active, handle) THEN run ELSE active[h].run,
                             active[h].error, active[h].success)
<1> DEFINE u == PropagateIdentity(active, handle, run)
<1>1. CASE run = Unknown
  BY <1>1 DEF PropagateIdentity, IsSpan
<1>2. CASE run # Unknown
  <2>1. u = [h \in DOMAIN active |-> IF h \in Ancestry(active, handle) THEN [active[h] EXCEPT !.run = run]
                                     ELSE active[h]]
    BY <1>2, Zenon DEF PropagateIdentity
  <2>2. ASSUME NEW h \in DOMAIN active
        PROVE  [active[h] EXCEPT !.run = run] = Span(active[h].parent, run, active[h].error, active[h].success)
    BY DEF Span, IsSpan
  <2> HIDE DEF u
  <2> QED
    BY <1>2, <2>1, <2>2 DEF u, IsSpan
<1> QED
  BY <1>1, <1>2

(* The spans of a workflow in flight between two steps: the request's and   *)
(* the workflow's, which know the run or not yet, and those of agents.      *)
Trunk(t, r, run) ==
  /\ IsTracer(t)
  /\ {RequestSpan, WorkflowSpan} \subseteq DOMAIN t.active
  /\ t.active[RequestSpan] = Fresh(NoSpan, run)
  /\ t.active[WorkflowSpan] = Fresh(RequestSpan, run)
  /\ \A h \in DOMAIN t.active \ {RequestSpan, WorkflowSpan} :
       \E a \in Agents : h = AgentSpan(a) /\ t.active[h] = Fresh(WorkflowSpan, r)

(* Only the task a has moved. *)
OnlyMoves(t, u, a, to) ==
  u.current[a] = to /\ \A k \in (Agents \cup {Main}) \ {a} : u.current[k] = t.current[k]

(* What an agent opens, and under what *)
Opens(a, h, parent) ==
  \/ h = AgentSpan(a) /\ parent = WorkflowSpan
  \/ IsCall(h, a) /\ parent = AgentSpan(a)

(* Open spans with one more that nests as the others do *)
Grown(active, more, h, x) ==
  /\ Layered(more) /\ DOMAIN more = DOMAIN active \cup {h} /\ more = [g \in DOMAIN more |-> more[g]]
  /\ more[h] = x /\ \A g \in DOMAIN active \ {h} : more[g] = active[g]
  /\ \A g \in DOMAIN more : IsSpan(more[g])

(* A span opened by an agent grows the trunk by one layer. *)
LEMMA TrunkLayered ==
  ASSUME NEW t, NEW r, NEW run, Trunk(t, r, run), NEW a \in Agents, NEW h, NEW parent,
         Opens(a, h, parent), NEW x, x = Fresh(parent, r)
  PROVE  Grown(t.active, With(t.active, h, x), h, x)
<1> DEFINE w == With(t.active, h, x)
<1>1. /\ DOMAIN w = DOMAIN t.active \cup {h} /\ w = [g \in DOMAIN w |-> w[g]]
      /\ w[h] = x /\ \A g \in DOMAIN t.active \ {h} : w[g] = t.active[g]
  BY DEF With
<1> HIDE DEF w
<1>2. ASSUME NEW g \in DOMAIN w
      PROVE  /\ IsSpan(w[g])
             /\ \/ g = RequestSpan /\ w[g].parent = NoSpan
                \/ g = WorkflowSpan /\ w[g].parent = RequestSpan
                \/ \E b \in Agents : g = AgentSpan(b) /\ w[g].parent = WorkflowSpan
                \/ \E b \in Agents : IsCall(g, b) /\ w[g].parent = AgentSpan(b)
  <2>1. CASE g = h
    <3>1. IsSpan(w[g]) /\ w[g].parent = parent
      BY <1>1, <2>1, FreshFields
    <3> QED
      BY <2>1, <3>1, Zenon DEF Opens
  <2>3. ASSUME g # h, g = RequestSpan
        PROVE  IsSpan(w[g]) /\ w[g].parent = NoSpan
    <3>1. w[g] = Fresh(NoSpan, run)
      BY <1>1, <2>3 DEF Trunk
    <3> QED
      BY <3>1, FreshFields
  <2>4. ASSUME g # h, g = WorkflowSpan
        PROVE  IsSpan(w[g]) /\ w[g].parent = RequestSpan
    <3>1. w[g] = Fresh(RequestSpan, run)
      BY <1>1, <2>4 DEF Trunk
    <3> QED
      BY <3>1, FreshFields
  <2>5. ASSUME g # h, g \notin {RequestSpan, WorkflowSpan}
        PROVE  IsSpan(w[g]) /\ \E b \in Agents : g = AgentSpan(b) /\ w[g].parent = WorkflowSpan
    <3>0. g \in DOMAIN t.active \ {RequestSpan, WorkflowSpan} /\ w[g] = t.active[g]
      BY <1>1, <1>2, <2>5
    <3>1. PICK b \in Agents : g = AgentSpan(b) /\ t.active[g] = Fresh(WorkflowSpan, r)
      BY <3>0 DEF Trunk
    <3>2. w[g] = Fresh(WorkflowSpan, r)
      BY <3>0, <3>1, Zenon
    <3> QED
      BY <3>1, <3>2, FreshFields
  <2> QED
    BY <2>1, <2>3, <2>4, <2>5, Zenon
<1>3. Layered(w)
  BY <1>2 DEF Layered
<1>4. Grown(t.active, w, h, x)
  BY <1>1, <1>2, <1>3, Zenon DEF Grown
<1> QED
  BY <1>4 DEF w

(* An agent's span opens under the workflow's and tells its ancestors the   *)
(* run.                                                                     *)
LEMMA AgentStart ==
  ASSUME NEW t, NEW r, NEW run \in {Unknown, r}, Trunk(t, r, run), NEW a \in Agents,
         AgentSpan(a) \notin DOMAIN t.active, t.current[a] = WorkflowSpan
  PROVE  LET u == StartSpan(t, a, AgentSpan(a)[1], r)
         IN /\ Trunk(u, r, r) /\ DOMAIN u.active = DOMAIN t.active \cup {AgentSpan(a)}
            /\ OnlyMoves(t, u, a, AgentSpan(a)) /\ u.exported = t.exported
<1> DEFINE x == Fresh(WorkflowSpan, r)
           w == With(t.active, AgentSpan(a), x)
           u == StartSpan(t, a, AgentSpan(a)[1], r)
<1>1. AgentSpan(a)[1] = "agent" /\ AgentSpan(a) = <<"agent", a>> /\ IsTracer(t)
  BY DEF AgentSpan, Trunk
<1>2. /\ IsTracer(u) /\ u.active = PropagateIdentity(w, WorkflowSpan, r)
      /\ DOMAIN u.active = DOMAIN t.active \cup {AgentSpan(a)}
      /\ OnlyMoves(t, u, a, AgentSpan(a)) /\ u.exported = t.exported
  <2> DEFINE v == StartSpan(t, a, "agent", r)
  <2>1. /\ IsTracer(v)
        /\ v.active = PropagateIdentity(With(t.active, <<"agent", a>>, Fresh(t.current[a], r)), t.current[a], r)
        /\ DOMAIN v.active = DOMAIN t.active \cup {<<"agent", a>>}
        /\ v.current[a] = <<"agent", a>>
        /\ \A k \in (Agents \cup {Main}) \ {a} : v.current[k] = t.current[k]
        /\ v.exported = t.exported
    <3>1. a \in Agents \cup {Main} /\ IsTracer(t)
      BY <1>1
    <3> QED
      BY <3>1, StartSpanShape
  <2>2. u = v
    BY <1>1, Zenon
  <2>3. With(t.active, <<"agent", a>>, Fresh(t.current[a], r)) = w /\ t.current[a] = WorkflowSpan
    BY <1>1, Zenon
  <2> HIDE DEF u, v, w
  <2> QED
    BY <1>1, <2>1, <2>2, <2>3, Zenon DEF OnlyMoves
<1>3. /\ Layered(w) /\ DOMAIN w = DOMAIN t.active \cup {AgentSpan(a)}
      /\ w = [g \in DOMAIN w |-> w[g]] /\ w[AgentSpan(a)] = x
      /\ \A g \in DOMAIN t.active \ {AgentSpan(a)} : w[g] = t.active[g]
      /\ \A g \in DOMAIN w : IsSpan(w[g])
  <2>1. Opens(a, AgentSpan(a), WorkflowSpan)
    BY DEF Opens
  <2>2. x = Fresh(WorkflowSpan, r)
    OBVIOUS
  <2> HIDE DEF x
  <2>3. Grown(t.active, w, AgentSpan(a), x)
    BY <2>1, <2>2, TrunkLayered
  <2> HIDE DEF w
  <2> QED
    BY <2>3, Zenon DEF Grown
<1> HIDE DEF w, u
<1>4. {RequestSpan, WorkflowSpan} \subseteq DOMAIN w
  BY <1>3 DEF Trunk
<1>5. Ancestry(w, WorkflowSpan) = {WorkflowSpan, RequestSpan}
  BY <1>3, <1>4, Lines
<1>6. \A h \in DOMAIN w : u.active[h] =
        Span(w[h].parent, IF r # Unknown /\ h \in {WorkflowSpan, RequestSpan} THEN r ELSE w[h].run,
             w[h].error, w[h].success)
  BY <1>2, <1>3, <1>5, SpreadShape
<1>7. w[RequestSpan] = Fresh(NoSpan, run) /\ w[WorkflowSpan] = Fresh(RequestSpan, run)
  BY <1>3, Handles DEF Trunk
<1>8. /\ u.active[RequestSpan] = Fresh(NoSpan, r)
      /\ u.active[WorkflowSpan] = Fresh(RequestSpan, r)
  <2>1. (IF r # Unknown THEN r ELSE run) = r
    OBVIOUS
  <2>2. ASSUME NEW h \in {WorkflowSpan, RequestSpan}, NEW p, w[h] = Fresh(p, run)
        PROVE  u.active[h] = Fresh(p, r)
    <3>1. w[h].run = run
      BY <2>2, FreshFields
    <3>2. u.active[h] = Span(w[h].parent, IF r # Unknown THEN r ELSE w[h].run, w[h].error, w[h].success)
      BY <1>4, <1>6
    <3>3. u.active[h] = Span(w[h].parent, r, w[h].error, w[h].success)
      BY <2>1, <3>1, <3>2
    <3> QED
      BY <2>2, <3>3, FreshFields
  <2> QED
    BY <1>7, <2>2, Zenon
<1>9. ASSUME NEW h \in DOMAIN w \ {RequestSpan, WorkflowSpan}
      PROVE  \E b \in Agents : h = AgentSpan(b) /\ u.active[h] = Fresh(WorkflowSpan, r)
  <2>1. PICK b \in Agents : h = AgentSpan(b) /\ w[h] = Fresh(WorkflowSpan, r)
    <3>1. CASE h = AgentSpan(a)
      BY <1>3, <3>1
    <3>2. CASE h # AgentSpan(a)
      <4>1. h \in DOMAIN t.active \ {RequestSpan, WorkflowSpan} /\ w[h] = t.active[h]
        BY <1>3, <3>2
      <4> QED
        BY <4>1 DEF Trunk
    <3> QED
      BY <3>1, <3>2
  <2>2. w[h].run = r
    BY <2>1, FreshFields
  <2>3. u.active[h] = Span(w[h].parent, r, w[h].error, w[h].success)
    BY <1>6, <2>2
  <2> QED
    BY <2>1, <2>3, FreshFields
<1>10. Trunk(u, r, r)
  BY <1>2, <1>3, <1>4, <1>8, <1>9 DEF Trunk
<1> QED
  BY <1>2, <1>10 DEF u

(* An audited or tracked call opens and ends a span of its own; the rest    *)
(* stays.                                                                   *)
LEMMA CallShape ==
  ASSUME NEW t, NEW r, Trunk(t, r, r), NEW a \in Agents, NEW name \in CallNames,
         AgentSpan(a) \in DOMAIN t.active, t.current[a] = AgentSpan(a), NEW ok \in BOOLEAN
  PROVE  LET u == TracedCall(t, a, name, r, ok)
         IN /\ IsTracer(u) /\ u.active = t.active /\ u.current = t.current
            /\ Exports(t, u, <<name, a>>, AgentSpan(a), r, ~ok, ok)
<1> DEFINE h == <<name, a>>
           x == Fresh(AgentSpan(a), r)
           w == With(t.active, h, x)
           v == StartSpan(t, a, name, r)
           m == SetSuccess(v, h, ok)
           n == IF ok THEN m ELSE RecordException(m, h)
           u == EndSpan(n, h)
<1>0. u = TracedCall(t, a, name, r, ok)
  BY Zenon DEF TracedCall
<1>1. a \in Agents \cup {Main} /\ IsTracer(t) /\ IsCall(h, a) /\ h[2] = a
  BY DEF Trunk, IsCall
<1>2. /\ IsTracer(v) /\ v.active = PropagateIdentity(w, AgentSpan(a), r)
      /\ v.current[a] = h /\ \A k \in (Agents \cup {Main}) \ {a} : v.current[k] = t.current[k]
      /\ v.exported = t.exported
  <2>1. /\ IsTracer(v)
        /\ v.active = PropagateIdentity(With(t.active, <<name, a>>, Fresh(t.current[a], r)), t.current[a], r)
        /\ v.current[a] = <<name, a>>
        /\ \A k \in (Agents \cup {Main}) \ {a} : v.current[k] = t.current[k]
        /\ v.exported = t.exported
    BY <1>1, StartSpanShape
  <2> HIDE DEF v
  <2> QED
    BY <2>1, Zenon
<1>3. h \notin DOMAIN t.active
  <2> HIDE DEF h
  <2>1. h \notin {RequestSpan, WorkflowSpan} /\ \A b \in Agents : h # AgentSpan(b)
    BY <1>1, Handles
  <2> QED
    BY <2>1 DEF Trunk
<1>4. /\ DOMAIN w = DOMAIN t.active \cup {h} /\ w = [g \in DOMAIN w |-> w[g]]
      /\ w[h] = x /\ \A g \in DOMAIN t.active : w[g] = t.active[g]
      /\ \A g \in DOMAIN w : IsSpan(w[g])
  <2>1. Opens(a, h, AgentSpan(a))
    BY <1>1 DEF Opens
  <2>2. x = Fresh(AgentSpan(a), r)
    OBVIOUS
  <2> HIDE DEF x, h
  <2>3. Grown(t.active, w, h, x)
    BY <2>1, <2>2, TrunkLayered
  <2> HIDE DEF w
  <2>4. DOMAIN t.active \ {h} = DOMAIN t.active
    BY <1>3
  <2> QED
    BY <2>3, <2>4, Zenon DEF Grown
<1> HIDE DEF w, v
<1>5. \A g \in DOMAIN w : w[g].run = r
  <2>1. ASSUME NEW g \in DOMAIN t.active PROVE \E p : t.active[g] = Fresh(p, r)
    BY DEF Trunk
  <2> HIDE DEF x
  <2>2. \A g \in DOMAIN t.active : w[g].run = r
    BY <1>4, <2>1, FreshFields
  <2>3. w[h].run = r
    BY <1>4, FreshFields DEF x
  <2> QED
    BY <1>4, <2>2, <2>3
<1>6. DOMAIN v.active = DOMAIN w /\ \A g \in DOMAIN w : v.active[g] = w[g]
  <2>1. /\ DOMAIN v.active = DOMAIN w
        /\ \A g \in DOMAIN w : v.active[g] =
             Span(w[g].parent, IF r # Unknown /\ g \in Ancestry(w, AgentSpan(a)) THEN r ELSE w[g].run,
                  w[g].error, w[g].success)
    BY <1>2, <1>4, SpreadShape
  <2>2. \A g \in DOMAIN w : v.active[g] = Span(w[g].parent, w[g].run, w[g].error, w[g].success)
    BY <1>5, <2>1
  <2> QED
    BY <1>4, <2>1, <2>2 DEF IsSpan
<1>7. v.active[h] = Span(AgentSpan(a), r, FALSE, TRUE) /\ h \in DOMAIN v.active
  BY <1>4, <1>6, Zenon DEF Fresh
<1>8. Changed(v, m, h, Span(AgentSpan(a), r, FALSE, ok))
  <2> HIDE DEF h
  <2> QED
    BY <1>2, <1>7, MarkShape
<1> HIDE DEF m
<1>9. Changed(v, n, h, Span(AgentSpan(a), r, ~ok, ok))
  <2>1. CASE ok
    <3>1. n = m /\ ok = TRUE /\ (~ok) = FALSE
      BY <2>1, Zenon
    <3> QED
      BY <1>8, <3>1, Zenon
  <2>2. CASE ~ok
    <3>1. n = RecordException(m, h) /\ ok = FALSE /\ (~ok) = TRUE
      BY <2>2, Zenon
    <3>2. IsTracer(m) /\ h \in DOMAIN m.active /\ m.active[h] = Span(AgentSpan(a), r, FALSE, ok)
      BY <1>7, <1>8 DEF Changed
    <3>3. Changed(m, n, h, Span(AgentSpan(a), r, TRUE, ok))
      <4> HIDE DEF n, h
      <4> QED
        BY <3>1, <3>2, MarkShape
    <3> HIDE DEF n, h
    <3>4. Changed(v, n, h, Span(AgentSpan(a), r, TRUE, ok))
      BY <1>8, <3>3 DEF Changed
    <3> QED
      BY <3>1, <3>4, Zenon
  <2> QED
    BY <2>1, <2>2
<1> HIDE DEF n
<1>10. /\ IsTracer(u) /\ DOMAIN u.active = DOMAIN n.active \ {h}
       /\ \A g \in DOMAIN u.active : u.active[g] = n.active[g]
       /\ u.current[a] = AgentSpan(a)
       /\ \A k \in (Agents \cup {Main}) \ {a} : u.current[k] = n.current[k]
       /\ Exports(n, u, h, AgentSpan(a), r, ~ok, ok)
  <2>1. IsTracer(n) /\ h \in DOMAIN n.active /\ n.active[h] = Span(AgentSpan(a), r, ~ok, ok)
    BY <1>7, <1>9 DEF Changed
  <2> HIDE DEF h
  <2> QED
    BY <1>1, <2>1, EndSpanShape
<1> HIDE DEF u
<1>11. u.active = t.active
  <2>1. DOMAIN u.active = DOMAIN t.active
    BY <1>3, <1>4, <1>6, <1>9, <1>10 DEF Changed
  <2>2. \A g \in DOMAIN t.active : u.active[g] = t.active[g]
    BY <1>3, <1>4, <1>6, <1>9, <1>10, <2>1 DEF Changed
  <2> QED
    BY <1>1, <1>10, <2>1, <2>2 DEF IsTracer
<1>12. u.current = t.current
  <2>1. \A k \in Agents \cup {Main} : u.current[k] = t.current[k]
    BY <1>2, <1>9, <1>10 DEF Changed
  <2> QED
    BY <1>1, <1>10, <2>1 DEF IsTracer
<1>13. Exports(t, u, h, AgentSpan(a), r, ~ok, ok)
  <2>1. n.exported = t.exported
    BY <1>2, <1>9 DEF Changed
  <2> QED
    BY <1>10, <2>1, Zenon DEF Exports
<1> QED
  BY <1>0, <1>10, <1>11, <1>12, <1>13, Zenon

(* Two marks on one span leave the second. *)
LEMMA ChangedTwice ==
  ASSUME NEW t, NEW u, NEW v, NEW h \in DOMAIN t.active, NEW x, NEW y,
         Changed(t, u, h, x), Changed(u, v, h, y)
  PROVE  Changed(t, v, h, y)
  BY DEF Changed

(* An agent's span ends. *)
LEMMA AgentEnd ==
  ASSUME NEW t, NEW r, Trunk(t, r, r), NEW a \in Agents, AgentSpan(a) \in DOMAIN t.active,
         NEW u, NEW e, NEW s, Changed(t, u, AgentSpan(a), Span(WorkflowSpan, r, e, s))
  PROVE  LET v == EndSpan(u, AgentSpan(a))
         IN /\ Trunk(v, r, r) /\ DOMAIN v.active = DOMAIN t.active \ {AgentSpan(a)}
            /\ OnlyMoves(t, v, a, WorkflowSpan)
            /\ Exports(t, v, AgentSpan(a), WorkflowSpan, r, e, s)
<1> DEFINE h == AgentSpan(a)
           v == EndSpan(u, h)
<1>1. /\ IsTracer(u) /\ DOMAIN u.active = DOMAIN t.active /\ h \in DOMAIN u.active
      /\ u.active[h] = Span(WorkflowSpan, r, e, s)
      /\ \A g \in DOMAIN t.active \ {h} : u.active[g] = t.active[g]
      /\ u.current = t.current /\ u.exported = t.exported
  BY DEF Changed
<1>2. a \in Agents \cup {Main} /\ h[2] = a /\ h \notin {RequestSpan, WorkflowSpan}
  BY Handles DEF AgentSpan
<1> HIDE DEF h
<1>3. /\ IsTracer(v) /\ DOMAIN v.active = DOMAIN u.active \ {h}
      /\ \A g \in DOMAIN v.active : v.active[g] = u.active[g]
      /\ v.current[a] = WorkflowSpan
      /\ \A k \in (Agents \cup {Main}) \ {a} : v.current[k] = u.current[k]
      /\ Exports(u, v, h, WorkflowSpan, r, e, s)
  BY <1>1, <1>2, EndSpanShape
<1> HIDE DEF v
<1>4. DOMAIN v.active = DOMAIN t.active \ {h} /\ \A g \in DOMAIN v.active : v.active[g] = t.active[g]
  BY <1>1, <1>3
<1>5. Trunk(v, r, r)
  BY <1>2, <1>3, <1>4 DEF Trunk
<1>6. OnlyMoves(t, v, a, WorkflowSpan)
  BY <1>1, <1>3 DEF OnlyMoves
<1>7. Exports(t, v, h, WorkflowSpan, r, e, s)
  BY <1>1, <1>3, Zenon DEF Exports
<1> QED
  BY <1>4, <1>5, <1>6, <1>7, Zenon DEF v, h

(* How an agent's span is marked before it ends *)
LEMMA AgentMarks ==
  ASSUME NEW t, NEW r, Trunk(t, r, r), NEW a \in Agents, AgentSpan(a) \in DOMAIN t.active
  PROVE  LET h == AgentSpan(a)
         IN /\ Changed(t, RecordException(t, h), h, Span(WorkflowSpan, r, TRUE, TRUE))
            /\ \A good \in BOOLEAN :
                 /\ Changed(t, SetSuccess(t, h, good), h, Span(WorkflowSpan, r, FALSE, good))
                 /\ Changed(t, RecordException(SetSuccess(t, h, good), h), h, Span(WorkflowSpan, r, TRUE, good))
                 /\ Changed(t, SetSuccess(RecordException(t, h), h, good), h, Span(WorkflowSpan, r, TRUE, good))
<1> DEFINE h == AgentSpan(a)
<1>1. IsTracer(t) /\ h \in DOMAIN t.active /\ t.active[h] = Span(WorkflowSpan, r, FALSE, TRUE)
  <2>1. h \in DOMAIN t.active \ {RequestSpan, WorkflowSpan}
    BY Handles
  <2>2. PICK b \in Agents : h = AgentSpan(b) /\ t.active[h] = Fresh(WorkflowSpan, r)
    BY <2>1 DEF Trunk
  <2> QED
    BY <2>1, <2>2, Zenon DEF Trunk, Fresh
<1> HIDE DEF h
<1>2. /\ Changed(t, RecordException(t, h), h, Span(WorkflowSpan, r, TRUE, TRUE))
      /\ \A good : Changed(t, SetSuccess(t, h, good), h, Span(WorkflowSpan, r, FALSE, good))
  BY <1>1, MarkShape
<1>3. ASSUME NEW good \in BOOLEAN, NEW u, NEW e, Changed(t, u, h, Span(WorkflowSpan, r, e, good))
      PROVE  Changed(t, RecordException(u, h), h, Span(WorkflowSpan, r, TRUE, good))
  <2>1. IsTracer(u) /\ h \in DOMAIN u.active /\ u.active[h] = Span(WorkflowSpan, r, e, good)
    BY <1>1, <1>3 DEF Changed
  <2>2. Changed(u, RecordException(u, h), h, Span(WorkflowSpan, r, TRUE, good))
    BY <2>1, MarkShape
  <2> QED
    BY <1>1, <1>3, <2>2, ChangedTwice
<1>4. ASSUME NEW good \in BOOLEAN, NEW u, NEW e, Changed(t, u, h, Span(WorkflowSpan, r, TRUE, e))
      PROVE  Changed(t, SetSuccess(u, h, good), h, Span(WorkflowSpan, r, TRUE, good))
  <2>1. IsTracer(u) /\ h \in DOMAIN u.active /\ u.active[h] = Span(WorkflowSpan, r, TRUE, e)
    BY <1>1, <1>4 DEF Changed
  <2>2. Changed(u, SetSuccess(u, h, good), h, Span(WorkflowSpan, r, TRUE, good))
    BY <2>1, MarkShape
  <2> QED
    BY <1>1, <1>4, <2>2, ChangedTwice
<1> QED
  BY <1>2, <1>3, <1>4, Zenon DEF h
(* The middleware opens a span under the one it has open. *)
LEMMA RootStart ==
  ASSUME NEW t, IsTracer(t), NEW name
  PROVE  LET u == StartSpan(t, Main, name, Unknown)
             h == <<name, Main>>
         IN /\ IsTracer(u) /\ DOMAIN u.active = DOMAIN t.active \cup {h}
            /\ u.active[h] = Fresh(t.current[Main], Unknown)
            /\ \A g \in DOMAIN t.active \ {h} : u.active[g] = t.active[g]
            /\ OnlyMoves(t, u, Main, h) /\ u.exported = t.exported
<1> DEFINE u == StartSpan(t, Main, name, Unknown)
           h == <<name, Main>>
           x == Fresh(t.current[Main], Unknown)
<1>1. /\ IsTracer(u) /\ u.active = PropagateIdentity(With(t.active, h, x), t.current[Main], Unknown)
      /\ DOMAIN u.active = DOMAIN t.active \cup {h} /\ u.current[Main] = h
      /\ \A k \in (Agents \cup {Main}) \ {Main} : u.current[k] = t.current[k]
      /\ u.exported = t.exported
  <2>1. Main \in Agents \cup {Main}
    OBVIOUS
  <2> HIDE DEF x
  <2> QED
    BY <2>1, StartSpanShape DEF x
<1> HIDE DEF u, h, x
<1>2. u.active = With(t.active, h, x)
  BY <1>1 DEF PropagateIdentity
<1>3. u.active[h] = x /\ \A g \in DOMAIN t.active \ {h} : u.active[g] = t.active[g]
  BY <1>2 DEF With
<1>4. OnlyMoves(t, u, Main, h)
  BY <1>1 DEF OnlyMoves
<1> QED
  BY <1>1, <1>3, <1>4, Zenon DEF u, h, x

(* It marks a span of its own and ends it. *)
MarkAndEnd(t, h, raises, good) ==
  EndSpan(SetSuccess(IF raises THEN RecordException(t, h) ELSE t, h, good), h)

(* A middleware ends one of its spans: it exports what was marked on it and *)
(* touches no other.                                                        *)
LEMMA RootEnd ==
  ASSUME NEW t, IsTracer(t), NEW h \in {RequestSpan, WorkflowSpan}, h \in DOMAIN t.active,
         NEW parent, NEW run, t.active[h] = Fresh(parent, run),
         NEW raises \in BOOLEAN, NEW good
  PROVE  LET v == MarkAndEnd(t, h, raises, good)
         IN /\ IsTracer(v) /\ DOMAIN v.active = DOMAIN t.active \ {h}
            /\ \A g \in DOMAIN v.active : v.active[g] = t.active[g]
            /\ OnlyMoves(t, v, Main, parent)
            /\ Exports(t, v, h, parent, run, raises, good)
<1> DEFINE m == IF raises THEN RecordException(t, h) ELSE t
           n == SetSuccess(m, h, good)
           v == EndSpan(n, h)
<1>1. h[2] = Main /\ Main \in Agents \cup {Main}
  BY DEF RequestSpan, WorkflowSpan
<1>2. t.active[h] = Span(parent, run, FALSE, TRUE)
  BY Zenon DEF Fresh
<1>3. Changed(t, m, h, Span(parent, run, raises, TRUE))
  <2>1. CASE raises
    <3>1. m = RecordException(t, h) /\ raises = TRUE
      BY <2>1, Zenon
    <3>2. Changed(t, RecordException(t, h), h, Span(parent, run, TRUE, TRUE))
      BY <1>2, MarkShape
    <3> QED
      BY <3>1, <3>2, Zenon
  <2>2. CASE ~raises
    <3>1. m = t /\ raises = FALSE
      BY <2>2, Zenon
    <3>2. Changed(t, t, h, Span(parent, run, FALSE, TRUE))
      BY <1>2 DEF Changed
    <3> QED
      BY <3>1, <3>2, Zenon
  <2> QED
    BY <2>1, <2>2
<1> HIDE DEF m
<1>4. Changed(t, n, h, Span(parent, run, raises, good))
  <2>1. IsTracer(m) /\ h \in DOMAIN m.active /\ m.active[h] = Span(parent, run, raises, TRUE)
    BY <1>3 DEF Changed
  <2>2. Changed(m, n, h, Span(parent, run, raises, good))
    BY <2>1, MarkShape
  <2> QED
    BY <1>3, <2>2, ChangedTwice
<1> HIDE DEF n
<1>5. /\ IsTracer(n) /\ h \in DOMAIN n.active /\ n.active[h] = Span(parent, run, raises, good)
      /\ DOMAIN n.active = DOMAIN t.active /\ \A g \in DOMAIN t.active \ {h} : n.active[g] = t.active[g]
      /\ n.current = t.current /\ n.exported = t.exported
  BY <1>4 DEF Changed
<1>6. /\ IsTracer(v) /\ DOMAIN v.active = DOMAIN n.active \ {h}
      /\ \A g \in DOMAIN v.active : v.active[g] = n.active[g]
      /\ v.current[Main] = parent
      /\ \A k \in (Agents \cup {Main}) \ {Main} : v.current[k] = n.current[k]
      /\ Exports(n, v, h, parent, run, raises, good)
  BY <1>1, <1>5, EndSpanShape
<1> HIDE DEF v
<1>7. /\ DOMAIN v.active = DOMAIN t.active \ {h} /\ \A g \in DOMAIN v.active : v.active[g] = t.active[g]
  BY <1>5, <1>6
<1>8. OnlyMoves(t, v, Main, parent)
  BY <1>5, <1>6 DEF OnlyMoves
<1>9. Exports(t, v, h, parent, run, raises, good)
  BY <1>5, <1>6, Zenon DEF Exports
<1>10. v = MarkAndEnd(t, h, raises, good)
  BY Zenon DEF MarkAndEnd, m, n, v
<1> QED
  BY <1>6, <1>7, <1>8, <1>9, <1>10, Zenon

(* The request's span is exported, and the workflow's if there is one. *)
ExportsRoots(t, u, run, raises, good) ==
  \E s, more :
    /\ u.exported = t.exported \cup {s} \cup more
    /\ s.handle = RequestSpan /\ s.parent = NoSpan /\ s.run = run /\ s.error = raises /\ s.success = good
    /\ \A x \in more : x.handle = WorkflowSpan /\ x.parent = RequestSpan /\ x.run = run

(* TracingMiddleware is left: both its spans are exported, the context is   *)
(* the one it was entered with, and the spans agents left open are          *)
(* untouched.                                                               *)
LEMMA LeaveShape ==
  ASSUME NEW t, IsTracer(t), NEW run, RequestSpan \in DOMAIN t.active,
         t.active[RequestSpan] = Fresh(NoSpan, run),
         WorkflowSpan \in DOMAIN t.active => t.active[WorkflowSpan] = Fresh(RequestSpan, run),
         NEW status, NEW raises \in BOOLEAN
  PROVE  LET u == LeaveTracing(t, status, raises)
         IN /\ IsTracer(u) /\ DOMAIN u.active = DOMAIN t.active \ {RequestSpan, WorkflowSpan}
            /\ \A g \in DOMAIN u.active : u.active[g] = t.active[g]
            /\ OnlyMoves(t, u, Main, NoSpan)
            /\ ExportsRoots(t, u, run, raises, status < 500)
<1> DEFINE u == LeaveTracing(t, status, raises)
           good == status < 500
           v == IF WorkflowSpan \in DOMAIN t.active THEN MarkAndEnd(t, WorkflowSpan, raises, good) ELSE t
           w == MarkAndEnd(v, RequestSpan, raises, good)
<1>2. u = w
  BY Zenon DEF LeaveTracing, MarkAndEnd, IsActive
<1> HIDE DEF good
<1>3. /\ IsTracer(v) /\ DOMAIN v.active = DOMAIN t.active \ {WorkflowSpan}
      /\ \A g \in DOMAIN v.active : v.active[g] = t.active[g]
      /\ \A k \in Agents : v.current[k] = t.current[k]
      /\ \E more : /\ v.exported = t.exported \cup more
                   /\ \A x \in more : x.handle = WorkflowSpan /\ x.parent = RequestSpan /\ x.run = run
  <2>1. CASE WorkflowSpan \in DOMAIN t.active
    <3> DEFINE m == MarkAndEnd(t, WorkflowSpan, raises, good)
    <3>1. /\ IsTracer(m) /\ DOMAIN m.active = DOMAIN t.active \ {WorkflowSpan}
          /\ \A g \in DOMAIN m.active : m.active[g] = t.active[g]
          /\ OnlyMoves(t, m, Main, RequestSpan)
          /\ Exports(t, m, WorkflowSpan, RequestSpan, run, raises, good)
      BY <2>1, RootEnd
    <3>2. v = m
      BY <2>1
    <3> HIDE DEF m, v
    <3>3. \A k \in Agents : v.current[k] = t.current[k]
      BY <3>1, <3>2, TaskAssumption DEF OnlyMoves
    <3>4. PICK s : v.exported = t.exported \cup {s} /\ s.handle = WorkflowSpan /\ s.parent = RequestSpan /\ s.run = run
      BY <3>1, <3>2, Zenon DEF Exports
    <3>5. \A x \in {s} : x.handle = WorkflowSpan /\ x.parent = RequestSpan /\ x.run = run
      BY <3>4
    <3>6. \E more : /\ v.exported = t.exported \cup more
                    /\ \A x \in more : x.handle = WorkflowSpan /\ x.parent = RequestSpan /\ x.run = run
      BY <3>4, <3>5, Zenon
    <3>7. /\ IsTracer(v) /\ DOMAIN v.active = DOMAIN t.active \ {WorkflowSpan}
          /\ \A g \in DOMAIN v.active : v.active[g] = t.active[g]
      BY <3>1, <3>2
    <3> QED
      BY <3>3, <3>6, <3>7, Zenon
  <2>2. CASE WorkflowSpan \notin DOMAIN t.active
    <3>1. v = t /\ v.exported = t.exported \cup {}
      BY <2>2
    <3>2. DOMAIN t.active = DOMAIN t.active \ {WorkflowSpan}
      BY <2>2
    <3> HIDE DEF v
    <3>3. \E more : /\ v.exported = t.exported \cup more
                    /\ \A x \in more : x.handle = WorkflowSpan /\ x.parent = RequestSpan /\ x.run = run
      <4>1. PICK none : none = {}
        OBVIOUS
      <4>2. v.exported = t.exported \cup none
        BY <3>1, <4>1
      <4>3. \A x \in none : x.handle = WorkflowSpan /\ x.parent = RequestSpan /\ x.run = run
        BY <4>1
      <4> QED
        BY <4>2, <4>3, Zenon
    <3>4. /\ IsTracer(v) /\ DOMAIN v.active = DOMAIN t.active \ {WorkflowSpan}
          /\ \A g \in DOMAIN v.active : v.active[g] = t.active[g]
          /\ \A k \in Agents : v.current[k] = t.current[k]
      BY <3>1, <3>2
    <3> QED
      BY <3>3, <3>4, Zenon
  <2> QED
    BY <2>1, <2>2
<1> HIDE DEF v
<1>4. /\ IsTracer(w) /\ DOMAIN w.active = DOMAIN v.active \ {RequestSpan}
      /\ \A g \in DOMAIN w.active : w.active[g] = v.active[g]
      /\ OnlyMoves(v, w, Main, NoSpan)
      /\ Exports(v, w, RequestSpan, NoSpan, run, raises, good)
  <2>1. RequestSpan \in DOMAIN v.active /\ v.active[RequestSpan] = Fresh(NoSpan, run)
    BY <1>3, Handles
  <2> QED
    BY <1>3, <2>1, RootEnd
<1> HIDE DEF w
<1>5. /\ DOMAIN w.active = DOMAIN t.active \ {RequestSpan, WorkflowSpan}
      /\ \A g \in DOMAIN w.active : w.active[g] = t.active[g]
  BY <1>3, <1>4
<1>6. OnlyMoves(t, w, Main, NoSpan)
  BY <1>3, <1>4 DEF OnlyMoves
<1>7. ExportsRoots(t, w, run, raises, good)
  <2>1. PICK s : /\ w.exported = v.exported \cup {s} /\ s.handle = RequestSpan /\ s.parent = NoSpan
                 /\ s.run = run /\ s.error = raises /\ s.success = good
    BY <1>4, Zenon DEF Exports
  <2>2. PICK more : /\ v.exported = t.exported \cup more
                    /\ \A x \in more : x.handle = WorkflowSpan /\ x.parent = RequestSpan /\ x.run = run
    BY <1>3
  <2>3. w.exported = t.exported \cup {s} \cup more
    BY <2>1, <2>2
  <2> QED
    BY <2>1, <2>2, <2>3, Zenon DEF ExportsRoots
<1>8. /\ IsTracer(u) /\ DOMAIN u.active = DOMAIN t.active \ {RequestSpan, WorkflowSpan}
      /\ \A g \in DOMAIN u.active : u.active[g] = t.active[g]
      /\ OnlyMoves(t, u, Main, NoSpan) /\ ExportsRoots(t, u, run, raises, good)
  <2> HIDE DEF u
  <2> QED
    BY <1>2, <1>4, <1>5, <1>6, <1>7, Zenon
<1> QED
  BY <1>8, Zenon DEF good

-----------------------------------------------------------------------------
(* Spans: the invariant. SpanInv(r) relates the tracer of a request to      *)
(* where the request and its agents are; Spans says the same of any such    *)
(* values, so that a step can be looked at apart from the variables it      *)
(* changes.                                                                 *)
(* Whether an agent of the workflow has begun, and the run its spans know *)
BeganIn(t, ag, a) ==
  ag[a] \in {"awaiting", "leaked"} \/ \E s \in t.exported : s.handle = AgentSpan(a)
RunIn(r, t, ag) == IF \E a \in Agents : BeganIn(t, ag, a) THEN r ELSE Unknown
InRequest(p) == p \in {"routing", "running"}

(* The open spans, by where the request and its agents are *)
Standing(r, t, p, k, ag) ==
  /\ RequestSpan \in DOMAIN t.active <=> InRequest(p)
  /\ WorkflowSpan \in DOMAIN t.active <=> InRequest(p) /\ k \in Workflows
  /\ \A a \in Agents : AgentSpan(a) \in DOMAIN t.active <=> ag[a] \in {"awaiting", "leaked"}
  /\ InRequest(p) => t.active[RequestSpan] = Fresh(NoSpan, RunIn(r, t, ag))
  /\ InRequest(p) /\ k \in Workflows => t.active[WorkflowSpan] = Fresh(RequestSpan, RunIn(r, t, ag))
  /\ \A h \in DOMAIN t.active \ {RequestSpan, WorkflowSpan} :
       \E a \in Agents : h = AgentSpan(a) /\ t.active[h] = Fresh(WorkflowSpan, r)

(* The contexts in which the next spans will be opened *)
Contexts(t, p, k, ag) ==
  /\ t.current[Main] = IF ~InRequest(p) THEN NoSpan
                       ELSE IF k \in Workflows THEN WorkflowSpan ELSE RequestSpan
  /\ \A a \in Agents : /\ ag[a] = "created" => t.current[a] = WorkflowSpan
                       /\ ag[a] = "awaiting" => t.current[a] = AgentSpan(a)

(* A finished span: of the request, of its workflow, of an agent or of one  *)
(* of an agent's calls                                                      *)
FiledBy(r, ag, a, s) ==
  /\ s.run = r
  /\ \/ s.handle = AgentSpan(a) /\ s.parent = WorkflowSpan /\ ag[a] = "ended"
     \/ /\ s.handle \in {<<"audit.log_start", a>>, <<"mlflow.start_run", a>>}
        /\ s.parent = AgentSpan(a) /\ ag[a] \in {"awaiting", "leaked", "ended"}
     \/ s.handle = <<"audit.log_finish", a>> /\ s.parent = AgentSpan(a) /\ ag[a] = "ended"

Filed(r, run, p, ag, s) ==
  \/ s.handle = RequestSpan /\ s.parent = NoSpan /\ s.run = run /\ p = "over"
  \/ s.handle = WorkflowSpan /\ s.parent = RequestSpan /\ s.run = run /\ p = "over"
  \/ \E a \in Agents : FiledBy(r, ag, a, s)

(* What the one span of a finished request says *)
Verdicts(t, p, k, status, why) ==
  p = "over" => \E s \in t.exported :
    /\ s.handle = RequestSpan /\ \A x \in t.exported : x.handle = RequestSpan => x = s
    /\ s.success <=> status \in 1 .. 499
    /\ s.success /\ s.error => k = "stream" /\ why \in {"cancelled", "left"}

(* Agents work while their request runs. *)
Working(p, k, ag, status) ==
  /\ p # "running" => \A a \in Agents : ag[a] \in {"none", "ended", "leaked"}
  /\ p = "running" => /\ k \in Workflows /\ status = (IF k = "stream" THEN 200 ELSE 0)
                      /\ \A a \in Agents : ag[a] # "none"

Spans(r, t, p, k, ag, status, why) ==
  /\ IsTracer(t) /\ Standing(r, t, p, k, ag) /\ Contexts(t, p, k, ag)
  /\ \A s \in t.exported : Filed(r, RunIn(r, t, ag), p, ag, s)
  /\ Verdicts(t, p, k, status, why) /\ Working(p, k, ag, status)

SpanInv(r) == Spans(r, tracer[r], pc[r], kind[r], agent[r], sent[r], failure[r])
SInv == IInv /\ tracer = [r \in Requests |-> tracer[r]] /\ \A r \in Requests : SpanInv(r)

-----------------------------------------------------------------------------
(* The invariant of the spans says what SpansNest says. *)
LEMMA SpansNested == SInv => SpansNest
<1> SUFFICES ASSUME SInv, NEW r \in Requests
             PROVE  /\ \A s \in tracer[r].exported :
                         /\ s.parent = CASE s.handle[1] \in Audits \cup {"mlflow.start_run"} -> AgentSpan(s.handle[2])
                                         [] s.handle[1] = "agent" -> WorkflowSpan
                                         [] s.handle = WorkflowSpan -> RequestSpan
                                         [] OTHER -> NoSpan
                         /\ s.run = IF s.handle \in {RequestSpan, WorkflowSpan} /\ ~\E a \in Agents : Began(r, a)
                                    THEN Unknown ELSE r
                    /\ pc[r] = "over" =>
                         /\ DOMAIN tracer[r].active = {AgentSpan(a) : a \in {b \in Agents : agent[r][b] = "leaked"}}
                         /\ tracer[r].current[Main] = NoSpan
  BY DEF SpansNest
<1>0. SpanInv(r)
  BY DEF SInv
<1>1. RunIn(r, tracer[r], agent[r]) = IF \E a \in Agents : Began(r, a) THEN r ELSE Unknown
  BY Zenon DEF RunIn, BeganIn, Began
<1>2. ASSUME NEW s \in tracer[r].exported
      PROVE  /\ s.parent = CASE s.handle[1] \in Audits \cup {"mlflow.start_run"} -> AgentSpan(s.handle[2])
                             [] s.handle[1] = "agent" -> WorkflowSpan
                             [] s.handle = WorkflowSpan -> RequestSpan
                             [] OTHER -> NoSpan
             /\ s.run = IF s.handle \in {RequestSpan, WorkflowSpan} /\ ~\E a \in Agents : Began(r, a)
                        THEN Unknown ELSE r
  <2>1. Filed(r, RunIn(r, tracer[r], agent[r]), pc[r], agent[r], s)
    BY <1>0 DEF SpanInv, Spans
  <2>2. CASE s.handle = RequestSpan /\ s.parent = NoSpan /\ s.run = RunIn(r, tracer[r], agent[r])
    <3>1. s.handle[1] \notin Audits \cup {"mlflow.start_run", "agent"} /\ s.handle # WorkflowSpan
      BY <2>2 DEF RequestSpan, WorkflowSpan, Audits
    <3> QED
      BY <1>1, <2>2, <3>1
  <2>3. CASE s.handle = WorkflowSpan /\ s.parent = RequestSpan /\ s.run = RunIn(r, tracer[r], agent[r])
    <3>1. s.handle[1] \notin Audits \cup {"mlflow.start_run", "agent"}
      BY <2>3 DEF WorkflowSpan, Audits
    <3> QED
      BY <1>1, <2>3, <3>1
  <2>4. ASSUME NEW a \in Agents, s.run = r, s.handle = AgentSpan(a), s.parent = WorkflowSpan
        PROVE  /\ s.handle[1] = "agent" /\ s.handle[1] \notin Audits \cup {"mlflow.start_run"}
               /\ s.handle \notin {RequestSpan, WorkflowSpan}
    BY <2>4, Handles DEF AgentSpan, Audits
  <2>5. ASSUME NEW a \in Agents, s.run = r, s.parent = AgentSpan(a),
               s.handle \in {<<"audit.log_start", a>>, <<"mlflow.start_run", a>>, <<"audit.log_finish", a>>}
        PROVE  /\ s.handle[1] \in Audits \cup {"mlflow.start_run"} /\ s.handle[2] = a
               /\ s.handle \notin {RequestSpan, WorkflowSpan}
    BY <2>5 DEF RequestSpan, WorkflowSpan, Audits
  <2>6. CASE \E a \in Agents : FiledBy(r, agent[r], a, s)
    <3>1. PICK a \in Agents : FiledBy(r, agent[r], a, s)
      BY <2>6
    <3>2. s.run = r
      BY <3>1 DEF FiledBy
    <3>3. CASE s.handle = AgentSpan(a) /\ s.parent = WorkflowSpan
      BY <2>4, <3>2, <3>3
    <3>4. CASE /\ s.parent = AgentSpan(a)
               /\ s.handle \in {<<"audit.log_start", a>>, <<"mlflow.start_run", a>>, <<"audit.log_finish", a>>}
      BY <2>5, <3>2, <3>4
    <3> QED
      BY <3>1, <3>3, <3>4 DEF FiledBy
  <2> QED
    BY <2>1, <2>2, <2>3, <2>6 DEF Filed
<1>3. ASSUME pc[r] = "over"
      PROVE  /\ DOMAIN tracer[r].active = {AgentSpan(a) : a \in {b \in Agents : agent[r][b] = "leaked"}}
             /\ tracer[r].current[Main] = NoSpan
  <2>1. ~InRequest(pc[r])
    BY <1>3 DEF InRequest
  <2>2. \A a \in Agents : agent[r][a] \in {"awaiting", "leaked"} <=> agent[r][a] = "leaked"
    BY <1>0, <1>3 DEF SpanInv, Spans, Working
  <2>3. \A h \in DOMAIN tracer[r].active : \E a \in Agents : h = AgentSpan(a) /\ agent[r][a] = "leaked"
    BY <1>0, <2>1, <2>2 DEF SpanInv, Spans, Standing
  <2>4. \A a \in Agents : agent[r][a] = "leaked" => AgentSpan(a) \in DOMAIN tracer[r].active
    BY <1>0, <2>2 DEF SpanInv, Spans, Standing
  <2>5. tracer[r].current[Main] = NoSpan
    BY <1>0, <2>1 DEF SpanInv, Spans, Contexts
  <2> QED
    BY <2>3, <2>4, <2>5
<1> QED
  BY <1>2, <1>3

-----------------------------------------------------------------------------
(* The agents of a workflow that runs *)
LEMMA OpenTrunk ==
  ASSUME NEW r, NEW t, NEW k, NEW ag, NEW status, NEW why, Spans(r, t, "running", k, ag, status, why)
  PROVE  /\ Trunk(t, r, RunIn(r, t, ag)) /\ k \in Workflows
         /\ RunIn(r, t, ag) \in {Unknown, r}
<1>1. k \in Workflows /\ InRequest("running")
  BY DEF Spans, Working, InRequest
<1>2. Trunk(t, r, RunIn(r, t, ag))
  BY <1>1 DEF Spans, Standing, Trunk
<1> QED
  BY <1>1, <1>2 DEF RunIn

AgentStates == {"none", "created", "awaiting", "ended", "leaked"}

(* A step of an agent opens or ends its span and moves it alone. *)
Moved(r, run, t, u, a, state) ==
  /\ Trunk(u, r, run)
  /\ DOMAIN u.active \ {AgentSpan(a)} = DOMAIN t.active \ {AgentSpan(a)}
  /\ AgentSpan(a) \in DOMAIN u.active <=> state # "ended"
  /\ \A j \in (Agents \cup {Main}) \ {a} : u.current[j] = t.current[j]
  /\ state = "awaiting" => u.current[a] = AgentSpan(a)

(* A tracer that moves as an agent makes it move keeps its form. *)
LEMMA AgentMoves ==
  ASSUME NEW r, NEW t, NEW k, NEW ag \in [Agents -> AgentStates], NEW status, NEW why, NEW why2,
         Spans(r, t, "running", k, ag, status, why), NEW a \in Agents,
         NEW state \in {"awaiting", "leaked", "ended"},
         ag[a] \in {"created", "awaiting"},
         NEW ag2, ag2 = [ag EXCEPT ![a] = state],
         NEW u, Moved(r, RunIn(r, u, ag2), t, u, a, state),
         \A s \in u.exported : s \in t.exported \/ FiledBy(r, ag2, a, s)
  PROVE  Spans(r, u, "running", k, ag2, status, why2)
<1>0. /\ IsTracer(t) /\ Standing(r, t, "running", k, ag) /\ Contexts(t, "running", k, ag)
      /\ \A s \in t.exported : Filed(r, RunIn(r, t, ag), "running", ag, s)
      /\ Working("running", k, ag, status)
  BY DEF Spans
<1> USE DEF Moved
<1>1. k \in Workflows /\ InRequest("running")
  BY <1>0 DEF Working, InRequest
<1>2. ag2[a] = state /\ \A b \in Agents \ {a} : ag2[b] = ag[b]
  OBVIOUS
<1>3. Standing(r, u, "running", k, ag2)
  <2>1. \A b \in Agents : AgentSpan(b) \in DOMAIN u.active <=> ag2[b] \in {"awaiting", "leaked"}
    <3>1. ASSUME NEW b \in Agents \ {a}
          PROVE  AgentSpan(b) \in DOMAIN u.active <=> ag2[b] \in {"awaiting", "leaked"}
      <4>1. AgentSpan(b) # AgentSpan(a)
        BY Handles
      <4> QED
        BY <1>0, <1>2, <4>1 DEF Standing
    <3>2. AgentSpan(a) \in DOMAIN u.active <=> ag2[a] \in {"awaiting", "leaked"}
      BY <1>2
    <3> QED
      BY <3>1, <3>2
  <2>2. /\ {RequestSpan, WorkflowSpan} \subseteq DOMAIN u.active
        /\ u.active[RequestSpan] = Fresh(NoSpan, RunIn(r, u, ag2))
        /\ u.active[WorkflowSpan] = Fresh(RequestSpan, RunIn(r, u, ag2))
        /\ \A h \in DOMAIN u.active \ {RequestSpan, WorkflowSpan} :
             \E b \in Agents : h = AgentSpan(b) /\ u.active[h] = Fresh(WorkflowSpan, r)
    BY DEF Trunk
  <2> QED
    BY <1>1, <2>1, <2>2 DEF Standing
<1>4. Contexts(u, "running", k, ag2)
  <2>1. u.current[Main] = WorkflowSpan
    BY <1>0, <1>1, TaskAssumption DEF Contexts
  <2>2. ASSUME NEW b \in Agents
        PROVE  /\ ag2[b] = "created" => u.current[b] = WorkflowSpan
               /\ ag2[b] = "awaiting" => u.current[b] = AgentSpan(b)
    BY <1>0, <1>2 DEF Contexts
  <2> QED
    BY <1>1, <2>1, <2>2 DEF Contexts
<1>5. ASSUME NEW s \in u.exported PROVE \E b \in Agents : FiledBy(r, ag2, b, s)
  <2>1. CASE s \in t.exported
    <3>1. PICK b \in Agents : FiledBy(r, ag, b, s)
      BY <1>0, <2>1 DEF Filed
    <3>2. FiledBy(r, ag2, b, s)
      BY <1>2, <3>1 DEF FiledBy
    <3> QED
      BY <3>2
  <2>2. CASE FiledBy(r, ag2, a, s)
    BY <2>2
  <2> QED
    BY <1>5, <2>1, <2>2
<1>6. \A s \in u.exported : Filed(r, RunIn(r, u, ag2), "running", ag2, s)
  BY <1>5 DEF Filed
<1>7. Verdicts(u, "running", k, status, why2)
  BY DEF Verdicts
<1>8. Working("running", k, ag2, status)
  BY <1>0, <1>2 DEF Working
<1> QED
  BY <1>3, <1>4, <1>6, <1>7, <1>8 DEF Spans, Trunk

(* Once an agent has begun, its spans know their run. *)
LEMMA RunKnown ==
  ASSUME NEW r, NEW u, NEW ag, NEW a \in Agents, BeganIn(u, ag, a)
  PROVE  RunIn(r, u, ag) = r
  BY DEF RunIn

(* What a step of an agent makes of its request's tracer: it logs once, and *)
(* may track its run and end its span.                                      *)
Also(r, a, state, x) ==
  /\ x.run = r
  /\ \/ x.handle = AgentSpan(a) /\ x.parent = WorkflowSpan /\ state = "ended"
     \/ x.handle = <<"mlflow.start_run", a>> /\ x.parent = AgentSpan(a)

Logs(r, t, u, a, state, name, ok) ==
  \E s, rest :
    /\ u.exported = t.exported \cup {s} \cup rest
    /\ s.handle = <<name, a>> /\ s.parent = AgentSpan(a) /\ s.run = r /\ s.success = ok
    /\ \A x \in rest : Also(r, a, state, x)
    /\ state = "ended" => \E x \in rest : x.handle = AgentSpan(a)

AgentStep(r, t, u, a, state, name, ok) ==
  Moved(r, r, t, u, a, state) /\ Logs(r, t, u, a, state, name, ok)

(* So does one whose agent takes a whole step. *)
LEMMA AgentStepKeeps ==
  ASSUME NEW r, NEW t, NEW k, NEW ag \in [Agents -> AgentStates], NEW status, NEW why, NEW why2,
         Spans(r, t, "running", k, ag, status, why), NEW a \in Agents,
         NEW state \in {"awaiting", "leaked", "ended"},
         ag[a] \in {"created", "awaiting"}, NEW ag2, ag2 = [ag EXCEPT ![a] = state],
         NEW u, NEW name, NEW ok, AgentStep(r, t, u, a, state, name, ok),
         name # "audit.log_start" => name = "audit.log_finish" /\ state = "ended"
  PROVE  Spans(r, u, "running", k, ag2, status, why2)
<1>1. PICK s, rest :
        /\ u.exported = t.exported \cup {s} \cup rest
        /\ s.handle = <<name, a>> /\ s.parent = AgentSpan(a) /\ s.run = r
        /\ \A x \in rest : Also(r, a, state, x)
        /\ state = "ended" => \E x \in rest : x.handle = AgentSpan(a)
  BY Zenon DEF AgentStep, Logs
<1>2. ag2[a] = state
  OBVIOUS
<1>3. FiledBy(r, ag2, a, s)
  BY <1>1, <1>2 DEF FiledBy
<1>4. \A x \in rest : FiledBy(r, ag2, a, x)
  BY <1>1, <1>2 DEF FiledBy, Also
<1>5. BeganIn(u, ag2, a)
  <2>1. CASE state = "ended"
    <3>1. PICK x \in rest : x.handle = AgentSpan(a)
      BY <1>1, <2>1
    <3>2. x \in u.exported
      BY <1>1, <3>1
    <3> QED
      BY <3>1, <3>2 DEF BeganIn
  <2>2. CASE state # "ended"
    BY <1>2, <2>2 DEF BeganIn
  <2> QED
    BY <2>1, <2>2
<1>6. Moved(r, RunIn(r, u, ag2), t, u, a, state)
  BY <1>5, RunKnown DEF AgentStep
<1>7. \A x \in u.exported : x \in t.exported \/ FiledBy(r, ag2, a, x)
  BY <1>1, <1>3, <1>4
<1> QED
  BY <1>6, <1>7, AgentMoves

(* A call of an agent's, which only shows among the finished spans *)
Called(r, t, u, a, name, ok) ==
  /\ Trunk(u, r, r) /\ u.active = t.active /\ u.current = t.current
  /\ \E s : /\ u.exported = t.exported \cup {s} /\ s.handle = <<name, a>>
            /\ s.parent = AgentSpan(a) /\ s.run = r /\ s.success = ok

(* A traced call of an agent: a span is exported below its own, and no span *)
(* stays open.                                                              *)
LEMMA CallTrunk ==
  ASSUME NEW t, NEW r, Trunk(t, r, r), NEW a \in Agents, NEW name \in CallNames,
         AgentSpan(a) \in DOMAIN t.active, t.current[a] = AgentSpan(a), NEW ok \in BOOLEAN,
         NEW u, u = TracedCall(t, a, name, r, ok)
  PROVE  Called(r, t, u, a, name, ok)
<1>1. /\ IsTracer(u) /\ u.active = t.active /\ u.current = t.current
      /\ Exports(t, u, <<name, a>>, AgentSpan(a), r, ~ok, ok)
  BY CallShape
<1>2. Trunk(u, r, r)
  BY <1>1 DEF Trunk
<1> QED
  BY <1>1, <1>2, Zenon DEF Exports, Called

(* The call of log_start in a span just opened, and what may follow it *)
LEMMA BeginShape ==
  ASSUME NEW r, NEW t, NEW k, NEW ag \in [Agents -> AgentStates], NEW status, NEW why,
         Spans(r, t, "running", k, ag, status, why), NEW a \in Agents, ag[a] = "created"
  PROVE  LET started == StartSpan(t, a, AgentSpan(a)[1], r)
             audited == TracedAuditCall(started, a, "audit.log_start", r, TRUE)
             tracked == TracedTrackingCall(audited, a, "mlflow.start_run", r, TRUE)
             logged == "audit.log_start"
         IN /\ AgentStep(r, t, TracedAuditCall(started, a, "audit.log_start", r, FALSE), a, "leaked", logged, FALSE)
            /\ AgentStep(r, t, TracedTrackingCall(audited, a, "mlflow.start_run", r, FALSE), a, "leaked", logged, TRUE)
            /\ AgentStep(r, t, EndSpan(RecordException(tracked, AgentSpan(a)), AgentSpan(a)), a, "ended", logged, TRUE)
            /\ AgentStep(r, t, tracked, a, "awaiting", logged, TRUE)
<1> DEFINE h == AgentSpan(a)
           started == StartSpan(t, a, AgentSpan(a)[1], r)
           audited(ok) == TracedAuditCall(started, a, "audit.log_start", r, ok)
           tracked(ok) == TracedTrackingCall(audited(TRUE), a, "mlflow.start_run", r, ok)
           ended == EndSpan(RecordException(tracked(TRUE), AgentSpan(a)), AgentSpan(a))
<1>1. /\ Trunk(started, r, r) /\ DOMAIN started.active = DOMAIN t.active \cup {h}
      /\ OnlyMoves(t, started, a, h) /\ started.exported = t.exported
      /\ h \notin DOMAIN t.active
  <2>1. /\ Trunk(t, r, RunIn(r, t, ag)) /\ RunIn(r, t, ag) \in {Unknown, r}
        /\ h \notin DOMAIN t.active /\ t.current[a] = WorkflowSpan
    BY OpenTrunk DEF Spans, Standing, Contexts
  <2> QED
    BY <2>1, AgentStart
<1> HIDE DEF h, started
<1>2. {"audit.log_start", "mlflow.start_run"} \subseteq CallNames
  BY DEF CallNames
<1>3. h \in DOMAIN started.active /\ started.current[a] = h
  BY <1>1 DEF OnlyMoves
<1>4. ASSUME NEW ok \in BOOLEAN
      PROVE  /\ Trunk(audited(ok), r, r) /\ audited(ok).active = started.active
             /\ audited(ok).current = started.current
             /\ \E s : /\ audited(ok).exported = t.exported \cup {s} /\ s.handle = <<"audit.log_start", a>>
                       /\ s.parent = h /\ s.run = r /\ s.success = ok
  <2>1. audited(ok) = TracedCall(started, a, "audit.log_start", r, ok)
    BY DEF TracedAuditCall
  <2> HIDE DEF audited
  <2>2. Called(r, started, audited(ok), a, "audit.log_start", ok)
    BY <1>1, <1>2, <1>3, <2>1, CallTrunk DEF h
  <2>3. started.exported = t.exported
    BY <1>1
  <2> QED
    BY <2>2, <2>3, Zenon DEF Called, h
<1> HIDE DEF audited
<1>5. ASSUME NEW ok \in BOOLEAN
      PROVE  /\ Trunk(tracked(ok), r, r) /\ tracked(ok).active = started.active
             /\ tracked(ok).current = started.current
             /\ \E s : /\ tracked(ok).exported = audited(TRUE).exported \cup {s}
                       /\ s.handle = <<"mlflow.start_run", a>> /\ s.parent = h /\ s.run = r
  <2>1. tracked(ok) = TracedCall(audited(TRUE), a, "mlflow.start_run", r, ok)
    BY DEF TracedTrackingCall
  <2>2. Trunk(audited(TRUE), r, r) /\ audited(TRUE).active = started.active
        /\ audited(TRUE).current = started.current
    BY <1>4
  <2> HIDE DEF tracked
  <2>3. h \in DOMAIN audited(TRUE).active /\ audited(TRUE).current[a] = h
    BY <1>3, <2>2
  <2>4. Called(r, audited(TRUE), tracked(ok), a, "mlflow.start_run", ok)
    BY <1>2, <2>1, <2>2, <2>3, CallTrunk DEF h
  <2>5. tracked(ok).active = started.active /\ tracked(ok).current = started.current
    BY <2>2, <2>4 DEF Called
  <2> QED
    BY <2>4, <2>5, Zenon DEF Called, h
<1> HIDE DEF tracked
<1>6. /\ Trunk(ended, r, r) /\ DOMAIN ended.active = DOMAIN started.active \ {h}
      /\ \A j \in (Agents \cup {Main}) \ {a} : ended.current[j] = started.current[j]
      /\ \E s : /\ ended.exported = tracked(TRUE).exported \cup {s}
                /\ s.handle = h /\ s.parent = WorkflowSpan /\ s.run = r
  <2>1. /\ Trunk(tracked(TRUE), r, r) /\ tracked(TRUE).active = started.active
        /\ tracked(TRUE).current = started.current
    BY <1>5
  <2>2. h \in DOMAIN tracked(TRUE).active
    BY <1>3, <2>1
  <2>3. Changed(tracked(TRUE), RecordException(tracked(TRUE), AgentSpan(a)), AgentSpan(a), Span(WorkflowSpan, r, TRUE, TRUE))
    BY <2>1, <2>2, AgentMarks DEF h
  <2>4. /\ Trunk(ended, r, r) /\ DOMAIN ended.active = DOMAIN tracked(TRUE).active \ {h}
        /\ OnlyMoves(tracked(TRUE), ended, a, WorkflowSpan)
        /\ Exports(tracked(TRUE), ended, h, WorkflowSpan, r, TRUE, TRUE)
    BY <2>1, <2>2, <2>3, AgentEnd DEF h
  <2> HIDE DEF ended
  <2>5. \E s : /\ ended.exported = tracked(TRUE).exported \cup {s}
               /\ s.handle = h /\ s.parent = WorkflowSpan /\ s.run = r
    BY <2>4, Zenon DEF Exports
  <2> QED
    BY <2>1, <2>4, <2>5 DEF OnlyMoves
<1> HIDE DEF ended
<1>7. \A j \in (Agents \cup {Main}) \ {a} : started.current[j] = t.current[j]
  BY <1>1 DEF OnlyMoves
<1>8. ASSUME NEW ok \in BOOLEAN, NEW u, NEW state \in {"leaked", "awaiting"}, NEW rest,
             Trunk(u, r, r), u.active = started.active, u.current = started.current,
             u.exported = audited(ok).exported \cup rest, \A x \in rest : Also(r, a, state, x)
      PROVE  AgentStep(r, t, u, a, state, "audit.log_start", ok)
  <2>1. PICK s : /\ audited(ok).exported = t.exported \cup {s} /\ s.handle = <<"audit.log_start", a>>
                 /\ s.parent = h /\ s.run = r /\ s.success = ok
    BY <1>4
  <2>2. u.exported = t.exported \cup {s} \cup rest /\ ~(state = "ended")
    BY <1>8, <2>1
  <2>3. Logs(r, t, u, a, state, "audit.log_start", ok)
    BY <1>8, <2>1, <2>2, Zenon DEF Logs, h
  <2>4. /\ DOMAIN u.active \ {h} = DOMAIN t.active \ {h} /\ h \in DOMAIN u.active
        /\ \A j \in (Agents \cup {Main}) \ {a} : u.current[j] = t.current[j]
        /\ u.current[a] = h
    BY <1>1, <1>3, <1>7, <1>8
  <2> QED
    BY <1>8, <2>2, <2>3, <2>4, Zenon DEF AgentStep, Moved, h
<1>9. AgentStep(r, t, audited(FALSE), a, "leaked", "audit.log_start", FALSE)
  <2>1. PICK none : none = {}
    OBVIOUS
  <2>2. audited(FALSE).exported = audited(FALSE).exported \cup none /\ \A x \in none : Also(r, a, "leaked", x)
    BY <2>1
  <2>3. Trunk(audited(FALSE), r, r) /\ audited(FALSE).active = started.active
        /\ audited(FALSE).current = started.current
    BY <1>4
  <2> QED
    BY <1>8, <2>2, <2>3
<1>10. ASSUME NEW ok \in BOOLEAN, NEW state \in {"leaked", "awaiting"}
       PROVE  AgentStep(r, t, tracked(ok), a, state, "audit.log_start", TRUE)
  <2>1. PICK s : /\ tracked(ok).exported = audited(TRUE).exported \cup {s}
                 /\ s.handle = <<"mlflow.start_run", a>> /\ s.parent = h /\ s.run = r
    BY <1>5
  <2>2. \A x \in {s} : Also(r, a, state, x)
    BY <2>1 DEF Also, h
  <2>3. Trunk(tracked(ok), r, r) /\ tracked(ok).active = started.active
        /\ tracked(ok).current = started.current
    BY <1>5
  <2> QED
    BY <1>8, <2>1, <2>2, <2>3
<1>11. AgentStep(r, t, ended, a, "ended", "audit.log_start", TRUE)
  <2>1. PICK s1 : /\ audited(TRUE).exported = t.exported \cup {s1} /\ s1.handle = <<"audit.log_start", a>>
                  /\ s1.parent = h /\ s1.run = r /\ s1.success = TRUE
    BY <1>4
  <2>2. PICK s2 : /\ tracked(TRUE).exported = audited(TRUE).exported \cup {s2}
                  /\ s2.handle = <<"mlflow.start_run", a>> /\ s2.parent = h /\ s2.run = r
    BY <1>5
  <2>3. PICK s3 : /\ ended.exported = tracked(TRUE).exported \cup {s3}
                  /\ s3.handle = h /\ s3.parent = WorkflowSpan /\ s3.run = r
    BY <1>6
  <2>4. ended.exported = t.exported \cup {s1} \cup {s2, s3}
    BY <2>1, <2>2, <2>3
  <2>5. (\A x \in {s2, s3} : Also(r, a, "ended", x)) /\ \E x \in {s2, s3} : x.handle = h
    BY <2>2, <2>3 DEF Also, h
  <2>6. Logs(r, t, ended, a, "ended", "audit.log_start", TRUE)
    BY <2>1, <2>4, <2>5, Zenon DEF Logs, h
  <2>7. /\ DOMAIN ended.active \ {h} = DOMAIN t.active \ {h} /\ h \notin DOMAIN ended.active
        /\ \A j \in (Agents \cup {Main}) \ {a} : ended.current[j] = t.current[j]
    BY <1>1, <1>6, <1>7
  <2> QED
    BY <1>6, <2>6, <2>7, Zenon DEF AgentStep, Moved, h
<1> QED
  BY <1>9, <1>10, <1>11, Zenon DEF started, audited, tracked, ended

(* An agent whose span is open *)
LEMMA AwaitingTrunk ==
  ASSUME NEW r, NEW t, NEW k, NEW ag, NEW status, NEW why, Spans(r, t, "running", k, ag, status, why),
         NEW a \in Agents, ag[a] = "awaiting"
  PROVE  /\ Trunk(t, r, r) /\ AgentSpan(a) \in DOMAIN t.active /\ t.current[a] = AgentSpan(a)
<1>1. BeganIn(t, ag, a)
  BY DEF BeganIn
<1>2. Trunk(t, r, r)
  BY <1>1, RunKnown, OpenTrunk
<1> QED
  BY <1>2 DEF Spans, Standing, Contexts

(* From the answer of the provider to the end of the agent, both ways *)
LEMMA EndShape ==
  ASSUME NEW r, NEW t, NEW k, NEW ag, NEW status, NEW why, Spans(r, t, "running", k, ag, status, why),
         NEW a \in Agents, ag[a] = "awaiting", NEW logged \in BOOLEAN, NEW good \in BOOLEAN
  PROVE  LET marked == SetSuccess(TracedAuditCall(t, a, "audit.log_finish", r, logged), AgentSpan(a), good)
         IN /\ AgentStep(r, t, EndSpan(marked, AgentSpan(a)), a, "ended", "audit.log_finish", logged)
            /\ AgentStep(r, t, EndSpan(RecordException(marked, AgentSpan(a)), AgentSpan(a)),
                         a, "ended", "audit.log_finish", logged)
<1> DEFINE h == AgentSpan(a)
           audited == TracedAuditCall(t, a, "audit.log_finish", r, logged)
           marked == SetSuccess(audited, h, good)
<1>1. Trunk(t, r, r) /\ h \in DOMAIN t.active /\ t.current[a] = h
  BY AwaitingTrunk
<1> HIDE DEF h
<1>2. Called(r, t, audited, a, "audit.log_finish", logged)
  <2>1. audited = TracedCall(t, a, "audit.log_finish", r, logged) /\ "audit.log_finish" \in CallNames
    BY DEF TracedAuditCall, CallNames
  <2> HIDE DEF audited
  <2> QED
    BY <1>1, <2>1, CallTrunk DEF h
<1> HIDE DEF audited
<1>3. Trunk(audited, r, r) /\ audited.active = t.active /\ audited.current = t.current
  BY <1>2 DEF Called
<1>4. ASSUME NEW u, NEW e, Changed(audited, u, h, Span(WorkflowSpan, r, e, good))
      PROVE  AgentStep(r, t, EndSpan(u, h), a, "ended", "audit.log_finish", logged)
  <2> DEFINE v == EndSpan(u, h)
  <2>1. /\ Trunk(v, r, r) /\ DOMAIN v.active = DOMAIN audited.active \ {h}
        /\ OnlyMoves(audited, v, a, WorkflowSpan) /\ Exports(audited, v, h, WorkflowSpan, r, e, good)
    BY <1>1, <1>3, <1>4, AgentEnd DEF h
  <2> HIDE DEF v
  <2>2. Moved(r, r, t, v, a, "ended")
    <3>1. DOMAIN v.active \ {h} = DOMAIN t.active \ {h} /\ h \notin DOMAIN v.active
      BY <1>3, <2>1
    <3>2. \A j \in (Agents \cup {Main}) \ {a} : v.current[j] = t.current[j]
      BY <1>3, <2>1 DEF OnlyMoves
    <3> QED
      BY <2>1, <3>1, <3>2, Zenon DEF Moved, h
  <2>3. PICK s1 : /\ audited.exported = t.exported \cup {s1} /\ s1.handle = <<"audit.log_finish", a>>
                  /\ s1.parent = h /\ s1.run = r /\ s1.success = logged
    BY <1>2, Zenon DEF Called, h
  <2>4. PICK s2 : v.exported = audited.exported \cup {s2} /\ s2.handle = h /\ s2.parent = WorkflowSpan /\ s2.run = r
    BY <2>1, Zenon DEF Exports
  <2>5. v.exported = t.exported \cup {s1} \cup {s2}
    BY <2>3, <2>4
  <2>6. (\A x \in {s2} : Also(r, a, "ended", x)) /\ \E x \in {s2} : x.handle = h
    BY <2>4 DEF Also, h
  <2>7. Logs(r, t, v, a, "ended", "audit.log_finish", logged)
    BY <2>3, <2>5, <2>6, Zenon DEF Logs, h
  <2> QED
    BY <2>2, <2>7 DEF AgentStep, v
<1>5. /\ Changed(audited, marked, h, Span(WorkflowSpan, r, FALSE, good))
      /\ Changed(audited, RecordException(marked, h), h, Span(WorkflowSpan, r, TRUE, good))
  <2>1. h \in DOMAIN audited.active
    BY <1>1, <1>3
  <2> QED
    BY <1>3, <2>1, AgentMarks DEF h
<1> HIDE DEF marked
<1>6. /\ AgentStep(r, t, EndSpan(marked, h), a, "ended", "audit.log_finish", logged)
      /\ AgentStep(r, t, EndSpan(RecordException(marked, h), h), a, "ended", "audit.log_finish", logged)
  BY <1>4, <1>5, Zenon
<1> QED
  BY <1>6, Zenon DEF marked, audited, h

(* An agent that is cancelled logs nothing. *)
Stops(t, u, ag, a) ==
  \/ ag[a] = "created" /\ u = t
  \/ /\ ag[a] = "awaiting"
     /\ u = EndSpan(SetSuccess(RecordException(t, AgentSpan(a)), AgentSpan(a), FALSE), AgentSpan(a))

Stopped(t, u, a) ==
  t.exported \subseteq u.exported /\ \A s \in u.exported : s \in t.exported \/ s.handle = AgentSpan(a)

(* An agent that is cancelled files its span, if it had one. *)
LEMMA CancelKeeps ==
  ASSUME NEW r, NEW t, NEW k, NEW ag \in [Agents -> AgentStates], NEW status, NEW why,
         Spans(r, t, "running", k, ag, status, why), NEW a \in Agents,
         NEW ag2, ag2 = [ag EXCEPT ![a] = "ended"], NEW u, Stops(t, u, ag, a)
  PROVE  Spans(r, u, "running", k, ag2, status, why) /\ Stopped(t, u, a)
<1> DEFINE h == AgentSpan(a)
<1>1. CASE ag[a] = "created" /\ u = t
  <2>1. RunIn(r, t, ag2) = RunIn(r, t, ag)
    <3>1. \A b \in Agents : BeganIn(t, ag2, b) <=> BeganIn(t, ag, b)
      BY <1>1 DEF BeganIn
    <3> QED
      BY <3>1 DEF RunIn
  <2>2. Trunk(t, r, RunIn(r, t, ag2)) /\ h \notin DOMAIN t.active
    BY <1>1, <2>1, OpenTrunk DEF Spans, Standing
  <2>3. Moved(r, RunIn(r, u, ag2), t, u, a, "ended")
    BY <1>1, <2>2 DEF Moved
  <2>4. \A s \in u.exported : s \in t.exported \/ FiledBy(r, ag2, a, s)
    BY <1>1
  <2> QED
    BY <1>1, <2>3, <2>4, AgentMoves DEF Stopped
<1>2. CASE ag[a] = "awaiting" /\ u = EndSpan(SetSuccess(RecordException(t, h), h, FALSE), h)
  <2>1. Trunk(t, r, r) /\ h \in DOMAIN t.active
    BY <1>2, AwaitingTrunk
  <2> DEFINE m == SetSuccess(RecordException(t, h), h, FALSE)
  <2>2. Changed(t, m, h, Span(WorkflowSpan, r, TRUE, FALSE))
    BY <2>1, AgentMarks
  <2> HIDE DEF m
  <2>3. /\ Trunk(u, r, r) /\ DOMAIN u.active = DOMAIN t.active \ {h}
        /\ OnlyMoves(t, u, a, WorkflowSpan) /\ Exports(t, u, h, WorkflowSpan, r, TRUE, FALSE)
    BY <1>2, <2>1, <2>2, AgentEnd DEF m
  <2>4. PICK s : u.exported = t.exported \cup {s} /\ s.handle = h /\ s.parent = WorkflowSpan /\ s.run = r
    BY <2>3, Zenon DEF Exports
  <2>5. BeganIn(u, ag2, a) /\ FiledBy(r, ag2, a, s)
    <3>1. s \in u.exported /\ ag2[a] = "ended"
      BY <2>4
    <3> QED
      BY <2>4, <3>1 DEF BeganIn, FiledBy
  <2>6. Moved(r, r, t, u, a, "ended")
    <3>1. DOMAIN u.active \ {h} = DOMAIN t.active \ {h} /\ h \notin DOMAIN u.active
      BY <2>3
    <3>2. \A j \in (Agents \cup {Main}) \ {a} : u.current[j] = t.current[j]
      BY <2>3 DEF OnlyMoves
    <3> QED
      BY <2>3, <3>1, <3>2, Zenon DEF Moved
  <2>7. RunIn(r, u, ag2) = r
    BY <2>5, RunKnown
  <2>8. Moved(r, RunIn(r, u, ag2), t, u, a, "ended")
    BY <2>6, <2>7
  <2>9. \A x \in u.exported : x \in t.exported \/ FiledBy(r, ag2, a, x)
    BY <2>4, <2>5
  <2>10. Spans(r, u, "running", k, ag2, status, why)
    BY <1>2, <2>8, <2>9, AgentMoves
  <2> QED
    BY <2>4, <2>10 DEF Stopped
<1> QED
  BY <1>1, <1>2 DEF Stops

-----------------------------------------------------------------------------
(* The request's own steps *)
LEMMA ArriveShape ==
  ASSUME NEW r, NEW t, NEW k0, NEW k, NEW ag, NEW status, NEW why, Spans(r, t, "new", k0, ag, status, why),
         \A a \in Agents : ag[a] = "none",
         NEW opened, opened = StartSpan(t, Main, RequestSpan[1], Unknown),
         NEW u, u = IF k \in Workflows THEN StartSpan(opened, Main, WorkflowSpan[1], Unknown) ELSE opened
  PROVE  Spans(r, u, "routing", k, ag, status, why) /\ u.exported = t.exported
<1>0. /\ IsTracer(t) /\ Standing(r, t, "new", k0, ag) /\ Contexts(t, "new", k0, ag)
      /\ \A s \in t.exported : Filed(r, RunIn(r, t, ag), "new", ag, s)
  BY DEF Spans
<1>1. ~InRequest("new") /\ InRequest("routing")
  BY DEF InRequest
<1>2. t.exported = {}
  BY <1>0 DEF Filed, FiledBy
<1>3. DOMAIN t.active = {}
  BY <1>0, <1>1 DEF Standing
<1>4. t.current[Main] = NoSpan
  BY <1>0, <1>1 DEF Contexts
<1>5. /\ IsTracer(opened) /\ DOMAIN opened.active = {RequestSpan}
      /\ opened.active[RequestSpan] = Fresh(NoSpan, Unknown)
      /\ OnlyMoves(t, opened, Main, RequestSpan) /\ opened.exported = {}
  <2>1. RequestSpan[1] = "http.request" /\ RequestSpan = <<"http.request", Main>>
    BY DEF RequestSpan
  <2>2. opened = StartSpan(t, Main, "http.request", Unknown)
    BY <2>1, Zenon
  <2>3. /\ IsTracer(opened) /\ DOMAIN opened.active = DOMAIN t.active \cup {<<"http.request", Main>>}
        /\ opened.active[<<"http.request", Main>>] = Fresh(t.current[Main], Unknown)
        /\ OnlyMoves(t, opened, Main, <<"http.request", Main>>) /\ opened.exported = t.exported
    BY <1>0, <2>2, RootStart
  <2> QED
    BY <1>2, <1>3, <1>4, <2>1, <2>3
<1>6. CASE k \in Workflows
  <2>1. WorkflowSpan[1] = "workflow.execute" /\ WorkflowSpan = <<"workflow.execute", Main>>
    BY DEF WorkflowSpan
  <2>2. u = StartSpan(opened, Main, "workflow.execute", Unknown)
    BY <1>6, <2>1, Zenon
  <2>3. /\ IsTracer(u) /\ DOMAIN u.active = DOMAIN opened.active \cup {<<"workflow.execute", Main>>}
        /\ u.active[<<"workflow.execute", Main>>] = Fresh(opened.current[Main], Unknown)
        /\ \A g \in DOMAIN opened.active \ {<<"workflow.execute", Main>>} : u.active[g] = opened.active[g]
        /\ OnlyMoves(opened, u, Main, <<"workflow.execute", Main>>) /\ u.exported = opened.exported
    BY <1>5, <2>2, RootStart
  <2>4. opened.current[Main] = RequestSpan
    BY <1>5 DEF OnlyMoves
  <2>5. /\ IsTracer(u) /\ DOMAIN u.active = {RequestSpan, WorkflowSpan}
        /\ u.active[RequestSpan] = Fresh(NoSpan, Unknown)
        /\ u.active[WorkflowSpan] = Fresh(RequestSpan, Unknown)
        /\ u.current[Main] = WorkflowSpan /\ u.exported = {}
    BY <1>5, <2>1, <2>3, <2>4, Handles DEF OnlyMoves
  <2>6. RunIn(r, u, ag) = Unknown
    BY <2>5 DEF RunIn, BeganIn
  <2>7. Standing(r, u, "routing", k, ag)
    BY <1>1, <1>6, <2>5, <2>6, Handles DEF Standing
  <2>8. Contexts(u, "routing", k, ag)
    BY <1>1, <1>6, <2>5 DEF Contexts
  <2> QED
    BY <1>2, <2>5, <2>7, <2>8 DEF Spans, Verdicts, Working
<1>7. CASE k \notin Workflows
  <2>1. u = opened /\ u.current[Main] = RequestSpan
    BY <1>5, <1>7 DEF OnlyMoves
  <2>2. RunIn(r, u, ag) = Unknown
    BY <1>5, <2>1 DEF RunIn, BeganIn
  <2>3. Standing(r, u, "routing", k, ag)
    BY <1>1, <1>5, <1>7, <2>1, <2>2, Handles DEF Standing
  <2>4. Contexts(u, "routing", k, ag)
    BY <1>1, <1>7, <2>1 DEF Contexts
  <2> QED
    BY <1>2, <1>5, <2>1, <2>3, <2>4 DEF Spans, Verdicts, Working
<1> QED
  BY <1>6, <1>7

(* The agents inherit the context of the task that starts them. *)
LEMMA AdmitShape ==
  ASSUME NEW r, NEW t, NEW k \in Workflows, NEW ag, NEW status, NEW why,
         Spans(r, t, "routing", k, ag, status, why), \A a \in Agents : ag[a] = "none",
         NEW ag2, ag2 = [a \in Agents |-> "created"], NEW u, u = Inherit(t, Agents, Main),
         NEW status2, status2 = IF k = "stream" THEN 200 ELSE 0
  PROVE  Spans(r, u, "running", k, ag2, status2, why) /\ u.exported = t.exported
<1>0. /\ IsTracer(t) /\ Standing(r, t, "routing", k, ag) /\ Contexts(t, "routing", k, ag)
      /\ \A s \in t.exported : Filed(r, RunIn(r, t, ag), "routing", ag, s)
  BY DEF Spans
<1>1. InRequest("routing") /\ InRequest("running")
  BY DEF InRequest
<1>2. t.exported = {}
  BY <1>0 DEF Filed, FiledBy
<1>3. /\ IsTracer(u) /\ u.active = t.active /\ u.exported = t.exported
      /\ \A a \in Agents : u.current[a] = t.current[Main]
      /\ u.current[Main] = t.current[Main]
  <2> DEFINE c == [x \in DOMAIN t.current |-> IF x \in Agents THEN t.current[Main] ELSE t.current[x]]
  <2>1. u = [t EXCEPT !.current = c]
    BY Zenon DEF Inherit
  <2>2. /\ t = [active |-> t.active, current |-> t.current, exported |-> t.exported]
        /\ t.active = [h \in DOMAIN t.active |-> t.active[h]]
        /\ DOMAIN t.current = Agents \cup {Main}
    BY <1>0 DEF IsTracer
  <2>3. c = [x \in Agents \cup {Main} |-> c[x]] /\ c[Main] = t.current[Main] /\ \A a \in Agents : c[a] = t.current[Main]
    BY <2>2, TaskAssumption
  <2> HIDE DEF c
  <2>4. u = [active |-> t.active, current |-> c, exported |-> t.exported]
    BY <2>1, <2>2
  <2>5. u.active = t.active /\ u.current = c /\ u.exported = t.exported
    BY <2>4
  <2> QED
    BY <2>2, <2>3, <2>4, <2>5 DEF IsTracer
<1>4. t.current[Main] = WorkflowSpan
  BY <1>0, <1>1 DEF Contexts
<1>5. RunIn(r, u, ag2) = RunIn(r, t, ag)
  BY <1>2, <1>3 DEF RunIn, BeganIn
<1>6. Standing(r, u, "running", k, ag2)
  BY <1>0, <1>1, <1>3, <1>5 DEF Standing
<1>7. Contexts(u, "running", k, ag2)
  BY <1>1, <1>3, <1>4 DEF Contexts
<1> QED
  BY <1>2, <1>3, <1>6, <1>7 DEF Spans, Verdicts, Working

(* What the middleware saw of the response agrees with the status sent and the failure of the run. *)
Answered(seen, raises, k, status, why) ==
  /\ seen < 500 <=> status \in 1 .. 499
  /\ seen < 500 /\ raises => k = "stream" /\ why \in {"cancelled", "left"}

(* Leaving files nothing but the two roots. *)
LeftSpans(t, u) ==
  /\ t.exported \subseteq u.exported
  /\ \A s \in u.exported : s \in t.exported \/ s.handle \in {RequestSpan, WorkflowSpan}

(* A request that leaves files its two spans, with the verdict its client   *)
(* got.                                                                     *)
LEMMA LeaveSpans ==
  ASSUME NEW r, NEW t, NEW p \in {"routing", "running"}, NEW k, NEW ag, NEW status, NEW why,
         Spans(r, t, p, k, ag, status, why), \A a \in Agents : ag[a] \in {"none", "ended", "leaked"},
         NEW seen, NEW raises \in BOOLEAN, NEW u, u = LeaveTracing(t, seen, raises),
         NEW status2, Answered(seen, raises, k, status2, why)
  PROVE  Spans(r, u, "over", k, ag, status2, why) /\ LeftSpans(t, u)
<1> DEFINE run == RunIn(r, t, ag)
           good == seen < 500
<1>0. /\ IsTracer(t) /\ Standing(r, t, p, k, ag) /\ Contexts(t, p, k, ag)
      /\ \A s \in t.exported : Filed(r, run, p, ag, s)
  BY DEF Spans
<1>1. InRequest(p) /\ ~InRequest("over") /\ p # "over"
  BY DEF InRequest
<1>2. /\ IsTracer(u) /\ DOMAIN u.active = DOMAIN t.active \ {RequestSpan, WorkflowSpan}
      /\ \A g \in DOMAIN u.active : u.active[g] = t.active[g]
      /\ OnlyMoves(t, u, Main, NoSpan) /\ ExportsRoots(t, u, run, raises, good)
  <2>1. /\ RequestSpan \in DOMAIN t.active /\ t.active[RequestSpan] = Fresh(NoSpan, run)
        /\ WorkflowSpan \in DOMAIN t.active => t.active[WorkflowSpan] = Fresh(RequestSpan, run)
    BY <1>0, <1>1 DEF Standing
  <2> HIDE DEF run
  <2> QED
    BY <1>0, <2>1, LeaveShape
<1> HIDE DEF good
<1>3. PICK s, more :
        /\ u.exported = t.exported \cup {s} \cup more
        /\ s.handle = RequestSpan /\ s.parent = NoSpan /\ s.run = run /\ s.error = raises /\ s.success = good
        /\ \A x \in more : x.handle = WorkflowSpan /\ x.parent = RequestSpan /\ x.run = run
  BY <1>2, Zenon DEF ExportsRoots
<1>4. RunIn(r, u, ag) = run
  <2>1. ASSUME NEW a \in Agents PROVE BeganIn(u, ag, a) <=> BeganIn(t, ag, a)
    BY <1>3, Handles DEF BeganIn
  <2> QED
    BY <2>1 DEF RunIn
<1> HIDE DEF run
<1>5. \A x \in t.exported : x.handle # RequestSpan /\ \E a \in Agents : FiledBy(r, ag, a, x)
  <2>1. ASSUME NEW x \in t.exported, NEW a \in Agents, FiledBy(r, ag, a, x) PROVE x.handle # RequestSpan
    <3>1. x.handle = AgentSpan(a) \/ IsCall(x.handle, a)
      BY <2>1 DEF FiledBy, IsCall, CallNames
    <3> QED
      BY <3>1, Handles
  <2> QED
    BY <1>0, <1>1, <2>1 DEF Filed
<1>6. ASSUME NEW x \in u.exported PROVE Filed(r, run, "over", ag, x)
  <2>1. CASE x \in t.exported
    BY <1>5, <2>1 DEF Filed
  <2>2. CASE x = s
    BY <1>3, <2>2 DEF Filed
  <2>3. CASE x \in more
    BY <1>3, <2>3 DEF Filed
  <2> QED
    BY <1>3, <2>1, <2>2, <2>3
<1>7. Verdicts(u, "over", k, status2, why)
  <2>1. s \in u.exported /\ \A x \in u.exported : x.handle = RequestSpan => x = s
    BY <1>3, <1>5, Handles
  <2>2. good <=> status2 \in 1 .. 499
    BY DEF good, Answered
  <2>3. good /\ raises => k = "stream" /\ why \in {"cancelled", "left"}
    BY DEF good, Answered
  <2>4. /\ s.success <=> status2 \in 1 .. 499
        /\ s.success /\ s.error => k = "stream" /\ why \in {"cancelled", "left"}
    BY <1>3, <2>2, <2>3, Zenon
  <2> QED
    BY <1>3, <2>1, <2>4, Zenon DEF Verdicts
<1>8. Standing(r, u, "over", k, ag)
  <2>1. /\ RequestSpan \notin DOMAIN u.active /\ WorkflowSpan \notin DOMAIN u.active
        /\ \A a \in Agents : AgentSpan(a) \in DOMAIN u.active <=> AgentSpan(a) \in DOMAIN t.active
    BY <1>2, Handles
  <2>2. \A h \in DOMAIN u.active \ {RequestSpan, WorkflowSpan} :
          \E a \in Agents : h = AgentSpan(a) /\ u.active[h] = Fresh(WorkflowSpan, r)
    BY <1>0, <1>2 DEF Standing
  <2> QED
    BY <1>0, <1>1, <2>1, <2>2 DEF Standing
<1>9. Contexts(u, "over", k, ag)
  <2>1. u.current[Main] = NoSpan /\ \A a \in Agents : u.current[a] = t.current[a]
    BY <1>2, TaskAssumption DEF OnlyMoves
  <2> QED
    BY <1>0, <1>1, <2>1 DEF Contexts
<1>10. Working("over", k, ag, status2)
  BY DEF Working
<1>11. LeftSpans(t, u)
  BY <1>3 DEF LeftSpans
<1> QED
  BY <1>2, <1>4, <1>6, <1>7, <1>8, <1>9, <1>10, <1>11 DEF Spans

-----------------------------------------------------------------------------
(* Spans: the steps of requests and of agents. Each keeps SInv, touches one *)
(* request only, and adds one finished span of an audited call or none.     *)

(* Every other request stays as it is. *)
Elsewhere(r) ==
  /\ tracer' = [tracer EXCEPT ![r] = tracer'[r]]
  /\ \A q \in Requests \ {r} : /\ pc'[q] = pc[q] /\ kind'[q] = kind[q] /\ sent'[q] = sent[q]
                               /\ agent'[q] = agent[q] /\ failure'[q] = failure[q]

(* The spans of a request are a matter of its own steps. *)
LEMMA OthersKeep ==
  ASSUME SInv, IInv', NEW r \in Requests, Elsewhere(r),
         Spans(r, tracer'[r], pc'[r], kind'[r], agent'[r], sent'[r], failure'[r])
  PROVE  SInv'
<1>1. tracer = [q \in Requests |-> tracer[q]] /\ \A q \in Requests : SpanInv(q)
  BY DEF SInv
<1>2. tracer' = [tracer EXCEPT ![r] = tracer'[r]]
  BY DEF Elsewhere
<1>3. tracer' = [q \in Requests |-> tracer'[q]] /\ \A q \in Requests \ {r} : tracer'[q] = tracer[q]
  BY <1>1, <1>2
<1>4. ASSUME NEW q \in Requests PROVE SpanInv(q)'
  <2>1. CASE q = r
    BY <2>1 DEF SpanInv
  <2>2. CASE q # r
    <3>1. /\ tracer'[q] = tracer[q] /\ pc'[q] = pc[q] /\ kind'[q] = kind[q] /\ agent'[q] = agent[q]
          /\ sent'[q] = sent[q] /\ failure'[q] = failure[q]
      BY <1>3, <2>2 DEF Elsewhere
    <3>2. Spans(q, tracer[q], pc[q], kind[q], agent[q], sent[q], failure[q])
      BY <1>1 DEF SpanInv
    <3> QED
      BY <3>1, <3>2 DEF SpanInv
  <2> QED
    BY <2>1, <2>2
<1> QED
  BY <1>3, <1>4 DEF SInv

(* The initial states satisfy the invariant of the spans. *)
LEMMA SpansInit == Init => SInv
<1> SUFFICES ASSUME Init PROVE SInv
  OBVIOUS
<1>1. IInv
  BY InitHolds
<1>2. tracer = [q \in Requests |-> tracer[q]]
  BY DEF Init
<1>3. ASSUME NEW r \in Requests PROVE SpanInv(r)
  <2> DEFINE t == tracer[r]
  <2>1. t = [active |-> <<>>, current |-> [x \in Agents \cup {Main} |-> NoSpan], exported |-> {}]
    BY DEF Init, NewTracer
  <2>2. pc[r] = "new" /\ \A a \in Agents : agent[r][a] = "none"
    BY DEF Init
  <2> HIDE DEF t
  <2>3. t.active = <<>> /\ t.current = [x \in Agents \cup {Main} |-> NoSpan] /\ t.exported = {}
    BY <2>1
  <2>4. DOMAIN t.active = {} /\ t.active = [h \in DOMAIN t.active |-> t.active[h]]
    BY <2>3
  <2>5. IsTracer(t)
    BY <2>1, <2>3, <2>4 DEF IsTracer
  <2>6. Standing(r, t, "new", kind[r], agent[r])
    BY <2>2, <2>4 DEF Standing, InRequest
  <2>7. Contexts(t, "new", kind[r], agent[r])
    BY <2>2, <2>3 DEF Contexts, InRequest
  <2>8. Working("new", kind[r], agent[r], sent[r]) /\ Verdicts(t, "new", kind[r], sent[r], failure[r])
    BY <2>2 DEF Working, Verdicts
  <2>9. Spans(r, t, "new", kind[r], agent[r], sent[r], failure[r])
    BY <2>3, <2>5, <2>6, <2>7, <2>8 DEF Spans
  <2> QED
    BY <2>2, <2>9 DEF SpanInv, t
<1> QED
  BY <1>1, <1>2, <1>3 DEF SInv

(* The finished spans of audited calls: none are added, or one is. *)
KeepsAudits(r) ==
  /\ tracer[r].exported \subseteq tracer'[r].exported
  /\ \A s \in tracer'[r].exported : s \in tracer[r].exported \/ s.handle[1] \notin Audits

AddsAudit(r, ok) ==
  /\ tracer[r].exported \subseteq tracer'[r].exported
  /\ \E s \in tracer'[r].exported \ tracer[r].exported :
       /\ s.handle[1] \in Audits /\ s.success = ok
       /\ \A x \in tracer'[r].exported : x = s \/ x \in tracer[r].exported \/ x.handle[1] \notin Audits

(* The steps of a request, one by one. It arrives: *)
LEMMA ArriveSpans ==
  ASSUME SInv, NEW r \in Requests, Arrive(r)
  PROVE  SInv' /\ Elsewhere(r) /\ KeepsAudits(r)
<1>1. IInv' /\ Typed /\ RequestInv(r) /\ SpanInv(r) /\ tracer = [q \in Requests |-> tracer[q]]
  BY ArriveKeeps DEF SInv, IInv
<1>2. pc[r] = "new" /\ \A a \in Agents : agent[r][a] = "none"
  BY <1>1 DEF Arrive, RequestInv
<1>3. PICK k \in Kinds :
        /\ kind' = [kind EXCEPT ![r] = k]
        /\ tracer' = [tracer EXCEPT ![r] =
             IF k \in Workflows
             THEN StartSpan(StartSpan(tracer[r], Main, RequestSpan[1], Unknown), Main, WorkflowSpan[1], Unknown)
             ELSE StartSpan(tracer[r], Main, RequestSpan[1], Unknown)]
        /\ pc' = [pc EXCEPT ![r] = "routing"] /\ UNCHANGED <<sent, agent, failure>>
  BY Zenon DEF Arrive, workflow
<1> DEFINE opened == StartSpan(tracer[r], Main, RequestSpan[1], Unknown)
           u == IF k \in Workflows THEN StartSpan(opened, Main, WorkflowSpan[1], Unknown) ELSE opened
<1>4. tracer' = [tracer EXCEPT ![r] = u]
  BY <1>3
<1>5. Spans(r, tracer[r], "new", kind[r], agent[r], sent[r], failure[r])
  BY <1>1, <1>2 DEF SpanInv
<1>6. Spans(r, u, "routing", k, agent[r], sent[r], failure[r]) /\ u.exported = tracer[r].exported
  BY <1>2, <1>5, ArriveShape
<1> HIDE DEF u
<1>7. /\ tracer'[r] = u /\ pc'[r] = "routing" /\ kind'[r] = k /\ agent' = agent /\ sent' = sent /\ failure' = failure
  BY <1>1, <1>3, <1>4 DEF Typed
<1>8. Elsewhere(r)
  <2>1. \A q \in Requests \ {r} : pc'[q] = pc[q] /\ kind'[q] = kind[q]
    BY <1>1, <1>3 DEF Typed
  <2> QED
    BY <1>4, <1>7, <2>1 DEF Elsewhere
<1>9. SInv'
  BY <1>1, <1>6, <1>7, <1>8, OthersKeep
<1> QED
  BY <1>6, <1>7, <1>8, <1>9 DEF KeepsAudits

(* its workflow is started: *)
LEMMA AdmitSpans ==
  ASSUME SInv, NEW r \in Requests, Admit(r)
  PROVE  SInv' /\ Elsewhere(r) /\ KeepsAudits(r)
<1>1. IInv' /\ Typed /\ RequestInv(r) /\ SpanInv(r) /\ tracer = [q \in Requests |-> tracer[q]]
  BY AdmitKeeps DEF SInv, IInv
<1>2. /\ pc[r] = "routing" /\ kind[r] \in Workflows /\ pc' = [pc EXCEPT ![r] = "running"]
      /\ sent' = [sent EXCEPT ![r] = IF kind[r] = "stream" THEN 200 ELSE 0]
      /\ agent' = [agent EXCEPT ![r] = [a \in Agents |-> "created"]]
      /\ tracer' = [tracer EXCEPT ![r] = Inherit(tracer[r], Agents, Main)]
      /\ UNCHANGED <<kind, failure>>
  BY Zenon DEF Admit
<1>3. Spans(r, tracer[r], "routing", kind[r], agent[r], sent[r], failure[r]) /\ \A a \in Agents : agent[r][a] = "none"
  BY <1>1, <1>2 DEF SpanInv, RequestInv
<1> DEFINE u == Inherit(tracer[r], Agents, Main)
           ag2 == [a \in Agents |-> "created"]
           status2 == IF kind[r] = "stream" THEN 200 ELSE 0
<1>4. Spans(r, u, "running", kind[r], ag2, status2, failure[r]) /\ u.exported = tracer[r].exported
  BY <1>2, <1>3, AdmitShape
<1>5. tracer' = [tracer EXCEPT ![r] = u]
  BY <1>2
<1> HIDE DEF u
<1>6. /\ tracer'[r] = u /\ pc'[r] = "running" /\ kind' = kind /\ agent'[r] = ag2 /\ sent'[r] = status2
      /\ failure' = failure
  BY <1>1, <1>2, <1>5 DEF Typed
<1>7. Elsewhere(r)
  <2>1. \A q \in Requests \ {r} : pc'[q] = pc[q] /\ agent'[q] = agent[q] /\ sent'[q] = sent[q]
    BY <1>1, <1>2 DEF Typed
  <2> QED
    BY <1>5, <1>6, <2>1 DEF Elsewhere
<1> HIDE DEF ag2, status2
<1>8. SInv'
  BY <1>1, <1>4, <1>6, <1>7, OthersKeep
<1> QED
  BY <1>4, <1>6, <1>7, <1>8 DEF KeepsAudits

(* An agent's step: it logs once, or not at all when it is cancelled. *)
LEMMA LogsAudit ==
  ASSUME NEW r \in Requests, NEW k, NEW ag, NEW status, NEW why,
         Spans(r, tracer[r], "running", k, ag, status, why), NEW a \in Agents,
         ag[a] = "created" \/ ag[a] = "awaiting",
         NEW u, NEW state, NEW name, NEW ok, Logs(r, tracer[r], u, a, state, name, ok),
         (name = "audit.log_start" /\ ag[a] = "created") \/ name = "audit.log_finish",
         tracer'[r] = u
  PROVE  AddsAudit(r, ok)
<1>1. PICK s, rest :
        /\ u.exported = tracer[r].exported \cup {s} \cup rest
        /\ s.handle = <<name, a>> /\ s.success = ok
        /\ \A x \in rest : Also(r, a, state, x)
  BY Zenon DEF Logs
<1>2. \A x \in rest : x.handle[1] \notin Audits
  BY <1>1 DEF Also, AgentSpan, Audits
<1>3. s.handle[1] \in Audits
  BY <1>1 DEF Audits
<1>4. s \notin tracer[r].exported
  <2>1. SUFFICES ASSUME s \in tracer[r].exported PROVE FALSE
    OBVIOUS
  <2>2. PICK b \in Agents : FiledBy(r, ag, b, s)
    BY <2>1 DEF Spans, Filed
  <2>3. s.handle # AgentSpan(b)
    BY <1>1, <1>3 DEF AgentSpan, Audits
  <2>4. a = b
    BY <1>1, <2>2, <2>3 DEF FiledBy
  <2> QED
    BY <1>1, <2>2, <2>3, <2>4 DEF FiledBy
<1>5. s \in u.exported \ tracer[r].exported /\ tracer[r].exported \subseteq u.exported
      /\ \A x \in u.exported : x = s \/ x \in tracer[r].exported \/ x.handle[1] \notin Audits
  BY <1>1, <1>2, <1>4
<1> QED
  BY <1>1, <1>3, <1>5 DEF AddsAudit

(* An agent that logs once keeps the spans in form and adds one audited     *)
(* call.                                                                    *)
LEMMA AgentLogs ==
  ASSUME SInv, NEW r \in Requests, NEW a \in Agents, IInv', Untouched,
         NEW state \in {"awaiting", "leaked", "ended"}, Becomes(r, a, state),
         NEW why, FailsWith(r, why) \/ failure' = failure,
         NEW u, tracer' = [tracer EXCEPT ![r] = u], NEW name, NEW ok,
         pc[r] = "running", AgentStep(r, tracer[r], u, a, state, name, ok),
         \/ name = "audit.log_start" /\ agent[r][a] = "created"
         \/ name = "audit.log_finish" /\ agent[r][a] = "awaiting" /\ state = "ended"
  PROVE  SInv' /\ Elsewhere(r) /\ AddsAudit(r, ok)
<1>1. Typed /\ SpanInv(r) /\ tracer = [q \in Requests |-> tracer[q]]
  BY DEF SInv, IInv
<1>2. agent[r] \in [Agents -> AgentStates] /\ Spans(r, tracer[r], "running", kind[r], agent[r], sent[r], failure[r])
  BY <1>1 DEF SpanInv, Typed, AgentStates
<1> DEFINE ag2 == [agent[r] EXCEPT ![a] = state]
<1>3. /\ agent' = [agent EXCEPT ![r] = ag2] /\ UNCHANGED <<pc, kind, sent>>
      /\ failure' \in [Requests -> Failures] /\ \A q \in Requests \ {r} : failure'[q] = failure[q]
  <2>1. agent' = [agent EXCEPT ![r] = ag2] /\ UNCHANGED <<pc, kind, sent>>
    BY DEF Becomes, Untouched, request
  <2>2. failure' \in [Requests -> Failures]
    BY DEF IInv, Typed
  <2>3. \A q \in Requests \ {r} : failure'[q] = failure[q]
    BY <1>1 DEF FailsWith, Typed
  <2> QED
    BY <2>1, <2>2, <2>3
<1>4. Spans(r, u, "running", kind[r], ag2, sent[r], failure'[r])
  <2>1. agent[r][a] \in {"created", "awaiting"}
    OBVIOUS
  <2>2. name # "audit.log_start" => name = "audit.log_finish" /\ state = "ended"
    OBVIOUS
  <2> QED
    BY <1>2, <2>1, <2>2, AgentStepKeeps
<1>5. tracer'[r] = u /\ agent'[r] = ag2 /\ \A q \in Requests \ {r} : agent'[q] = agent[q]
  BY <1>1, <1>3 DEF Typed
<1>6. Elsewhere(r)
  BY <1>3, <1>5 DEF Elsewhere
<1> HIDE DEF ag2
<1>7. SInv'
  BY <1>3, <1>4, <1>5, <1>6, OthersKeep
<1>8. AddsAudit(r, ok)
  <2>1. Logs(r, tracer[r], u, a, state, name, ok)
    BY DEF AgentStep
  <2> QED
    BY <1>2, <1>5, <2>1, LogsAudit
<1> QED
  BY <1>6, <1>7, <1>8

(* An agent works while its request is running. *)
LEMMA WorkingRuns ==
  ASSUME SInv, NEW r \in Requests, NEW a \in Agents, agent[r][a] \in {"created", "awaiting"}
  PROVE  pc[r] = "running" /\ Spans(r, tracer[r], "running", kind[r], agent[r], sent[r], failure[r])
         /\ agent[r] \in [Agents -> AgentStates]
<1>1. SpanInv(r) /\ Typed
  BY DEF SInv, IInv
<1>2. pc[r] = "running"
  BY <1>1 DEF SpanInv, Spans, Working
<1> QED
  BY <1>1, <1>2 DEF SpanInv, Typed, AgentStates

(* An agent begins, whichever way it ends up. *)
LEMMA BeginSpans ==
  ASSUME SInv, NEW r \in Requests, NEW a \in Agents, BeginAgent(r, a)
  PROVE  SInv' /\ Elsewhere(r) /\ \E ok \in BOOLEAN : AddsAudit(r, ok) /\ metrics' = MeasuredCall(metrics, ok)
<1>1. IInv' /\ agent[r][a] = "created" /\ Untouched
  BY AgentKeeps DEF SInv, BeginAgent
<1>2. pc[r] = "running" /\ Spans(r, tracer[r], "running", kind[r], agent[r], sent[r], failure[r])
      /\ agent[r] \in [Agents -> AgentStates]
  BY <1>1, WorkingRuns
<1> DEFINE t == tracer[r]
           started == StartSpan(t, a, AgentSpan(a)[1], r)
           audited == TracedAuditCall(started, a, "audit.log_start", r, TRUE)
           tracked == TracedTrackingCall(audited, a, "mlflow.start_run", r, TRUE)
           unlogged == TracedAuditCall(started, a, "audit.log_start", r, FALSE)
           untracked == TracedTrackingCall(audited, a, "mlflow.start_run", r, FALSE)
           rejected == EndSpan(RecordException(tracked, AgentSpan(a)), AgentSpan(a))
<1>3. /\ AgentStep(r, t, unlogged, a, "leaked", "audit.log_start", FALSE)
      /\ AgentStep(r, t, untracked, a, "leaked", "audit.log_start", TRUE)
      /\ AgentStep(r, t, rejected, a, "ended", "audit.log_start", TRUE)
      /\ AgentStep(r, t, tracked, a, "awaiting", "audit.log_start", TRUE)
  <2> HIDE DEF t
  <2> QED
    BY <1>1, <1>2, BeginShape DEF t
<1>4. \/ /\ tracer' = [tracer EXCEPT ![r] = unlogged] /\ metrics' = MeasuredCall(metrics, FALSE)
         /\ Becomes(r, a, "leaked") /\ FailsWith(r, "other")
      \/ /\ tracer' = [tracer EXCEPT ![r] = untracked] /\ metrics' = MeasuredCall(metrics, TRUE)
         /\ Becomes(r, a, "leaked") /\ FailsWith(r, "other")
      \/ /\ tracer' = [tracer EXCEPT ![r] = rejected] /\ metrics' = MeasuredCall(metrics, TRUE)
         /\ Becomes(r, a, "ended") /\ FailsWith(r, "domain")
      \/ /\ tracer' = [tracer EXCEPT ![r] = tracked] /\ metrics' = MeasuredCall(metrics, TRUE)
         /\ Becomes(r, a, "awaiting") /\ UNCHANGED failure
  BY Zenon DEF BeginAgent
<1> HIDE DEF unlogged, untracked, rejected, tracked, audited, started
<1>5. CASE /\ tracer' = [tracer EXCEPT ![r] = unlogged] /\ metrics' = MeasuredCall(metrics, FALSE)
           /\ Becomes(r, a, "leaked") /\ FailsWith(r, "other")
  <2>1. SInv' /\ Elsewhere(r) /\ AddsAudit(r, FALSE)
    BY <1>1, <1>2, <1>3, <1>5, AgentLogs
  <2> QED
    BY <1>5, <2>1
<1>6. CASE /\ tracer' = [tracer EXCEPT ![r] = untracked] /\ metrics' = MeasuredCall(metrics, TRUE)
           /\ Becomes(r, a, "leaked") /\ FailsWith(r, "other")
  <2>1. SInv' /\ Elsewhere(r) /\ AddsAudit(r, TRUE)
    BY <1>1, <1>2, <1>3, <1>6, AgentLogs
  <2> QED
    BY <1>6, <2>1
<1>7. CASE /\ tracer' = [tracer EXCEPT ![r] = rejected] /\ metrics' = MeasuredCall(metrics, TRUE)
           /\ Becomes(r, a, "ended") /\ FailsWith(r, "domain")
  <2>1. SInv' /\ Elsewhere(r) /\ AddsAudit(r, TRUE)
    BY <1>1, <1>2, <1>3, <1>7, AgentLogs
  <2> QED
    BY <1>7, <2>1
<1>8. CASE /\ tracer' = [tracer EXCEPT ![r] = tracked] /\ metrics' = MeasuredCall(metrics, TRUE)
           /\ Becomes(r, a, "awaiting") /\ UNCHANGED failure
  <2>1. SInv' /\ Elsewhere(r) /\ AddsAudit(r, TRUE)
    BY <1>1, <1>2, <1>3, <1>8, AgentLogs
  <2> QED
    BY <1>8, <2>1
<1> QED
  BY <1>4, <1>5, <1>6, <1>7, <1>8

(* An agent ends, whatever the provider answered. *)
LEMMA EndSpans ==
  ASSUME SInv, NEW r \in Requests, NEW a \in Agents, EndAgent(r, a)
  PROVE  SInv' /\ Elsewhere(r) /\ \E ok \in BOOLEAN : AddsAudit(r, ok) /\ metrics' = MeasuredCall(metrics, ok)
<1>1. IInv' /\ agent[r][a] = "awaiting" /\ Untouched /\ Becomes(r, a, "ended")
  BY AgentKeeps DEF SInv, EndAgent
<1>2. pc[r] = "running" /\ Spans(r, tracer[r], "running", kind[r], agent[r], sent[r], failure[r])
      /\ agent[r] \in [Agents -> AgentStates]
  BY <1>1, WorkingRuns
<1> DEFINE t == tracer[r]
           audited(ok) == TracedAuditCall(t, a, "audit.log_finish", r, ok)
           marked(ok, error) == SetSuccess(audited(ok), AgentSpan(a), error = "none")
           u(ok, error) == EndSpan(IF error = "none" THEN marked(ok, error)
                                   ELSE RecordException(marked(ok, error), AgentSpan(a)), AgentSpan(a))
<1>3. PICK ok \in BOOLEAN, error \in {"none", "llm", "other"} :
        /\ tracer' = [tracer EXCEPT ![r] = u(ok, error)]
        /\ metrics' = MeasuredCall(metrics, ok) /\ FailsWith(r, error)
  <2>1. PICK ok \in BOOLEAN, why \in {"none", "llm", "other"} :
          LET error == IF ~ok /\ why = "none" THEN "other" ELSE why
          IN /\ tracer' = [tracer EXCEPT ![r] = u(ok, error)]
             /\ metrics' = MeasuredCall(metrics, ok) /\ FailsWith(r, error)
    BY Zenon DEF EndAgent
  <2>2. PICK error : error = IF ~ok /\ why = "none" THEN "other" ELSE why
    OBVIOUS
  <2>3. error \in {"none", "llm", "other"}
    BY <2>2
  <2> HIDE DEF u
  <2> QED
    BY <2>1, <2>2, <2>3, Zenon
<1>4. PICK good \in BOOLEAN : good = (error = "none")
  OBVIOUS
<1> DEFINE m == SetSuccess(audited(ok), AgentSpan(a), good)
<1>5. /\ AgentStep(r, t, EndSpan(m, AgentSpan(a)), a, "ended", "audit.log_finish", ok)
      /\ AgentStep(r, t, EndSpan(RecordException(m, AgentSpan(a)), AgentSpan(a)), a, "ended", "audit.log_finish", ok)
  <2> HIDE DEF t
  <2> QED
    BY <1>1, <1>2, EndShape DEF t
<1>6. u(ok, error) = EndSpan(m, AgentSpan(a)) \/ u(ok, error) = EndSpan(RecordException(m, AgentSpan(a)), AgentSpan(a))
  BY <1>4, Zenon
<1> HIDE DEF m, u
<1>7. AgentStep(r, t, u(ok, error), a, "ended", "audit.log_finish", ok)
  BY <1>5, <1>6, Zenon
<1>8. SInv' /\ Elsewhere(r) /\ AddsAudit(r, ok)
  BY <1>1, <1>2, <1>3, <1>7, AgentLogs
<1> QED
  BY <1>3, <1>8

(* An agent is cancelled. *)
LEMMA CancelSpans ==
  ASSUME SInv, NEW r \in Requests, NEW a \in Agents, CancelAgent(r, a)
  PROVE  SInv' /\ Elsewhere(r) /\ KeepsAudits(r)
<1>1. IInv' /\ agent[r][a] \in {"created", "awaiting"} /\ UNCHANGED <<failure, metrics, pc, kind, sent>>
      /\ agent' = [agent EXCEPT ![r][a] = "ended"]
  BY AgentKeeps DEF SInv, CancelAgent, Becomes, Untouched, request
<1>2. pc[r] = "running" /\ Spans(r, tracer[r], "running", kind[r], agent[r], sent[r], failure[r])
      /\ agent[r] \in [Agents -> AgentStates]
  BY <1>1, WorkingRuns
<1> DEFINE t == tracer[r]
           ag2 == [agent[r] EXCEPT ![a] = "ended"]
           ended == EndSpan(SetSuccess(RecordException(t, AgentSpan(a)), AgentSpan(a), FALSE), AgentSpan(a))
<1>3. Typed /\ tracer = [q \in Requests |-> tracer[q]]
  BY DEF SInv, IInv
<1>4. PICK u : tracer' = [tracer EXCEPT ![r] = u] /\ Stops(t, u, agent[r], a)
  <2>1. \/ agent[r][a] = "created" /\ tracer' = tracer
        \/ agent[r][a] = "awaiting" /\ tracer' = [tracer EXCEPT ![r] = ended]
    BY Zenon DEF CancelAgent
  <2>2. tracer = [tracer EXCEPT ![r] = t]
    BY <1>3
  <2>3. CASE agent[r][a] = "created" /\ tracer' = tracer
    BY <2>2, <2>3, Zenon DEF Stops
  <2>4. CASE agent[r][a] = "awaiting" /\ tracer' = [tracer EXCEPT ![r] = ended]
    BY <2>4, Zenon DEF Stops
  <2> QED
    BY <2>1, <2>3, <2>4
<1> HIDE DEF ended
<1>5. /\ Spans(r, u, "running", kind[r], ag2, sent[r], failure[r])
      /\ \A s \in u.exported : s \in t.exported \/ s.handle = AgentSpan(a)
      /\ t.exported \subseteq u.exported
  <2>1. ag2 = [agent[r] EXCEPT ![a] = "ended"] /\ Spans(r, t, "running", kind[r], agent[r], sent[r], failure[r])
    BY <1>2
  <2> HIDE DEF t, ag2
  <2>2. agent[r] \in [Agents -> AgentStates] /\ Stops(t, u, agent[r], a)
    BY <1>2, <1>4
  <2>3. Spans(r, u, "running", kind[r], ag2, sent[r], failure[r]) /\ Stopped(t, u, a)
    BY <2>1, <2>2, CancelKeeps
  <2> QED
    BY <2>3 DEF Stopped
<1> HIDE DEF t
<1>6. /\ tracer'[r] = u /\ agent'[r] = ag2 /\ \A q \in Requests \ {r} : agent'[q] = agent[q]
  BY <1>1, <1>3, <1>4 DEF Typed
<1>7. Elsewhere(r)
  BY <1>1, <1>4, <1>6 DEF Elsewhere
<1> HIDE DEF ag2
<1>8. SInv'
  BY <1>1, <1>2, <1>5, <1>6, <1>7, OthersKeep
<1>9. \A s \in u.exported : s \in t.exported \/ s.handle[1] \notin Audits
  BY <1>5 DEF AgentSpan, Audits
<1> QED
  BY <1>5, <1>6, <1>7, <1>8, <1>9 DEF KeepsAudits, t

-----------------------------------------------------------------------------
(* Spans: how requests end. A departure is a Leave whose ending fits what   *)
(* went before; the agents are through by then.                             *)

(* How a request can end *)
Endings == {"responds", "raises", "cancelled"}
Seen(r, ending, status) ==
  IF sent[r] # 0 THEN sent[r] ELSE IF ending = "responds" THEN status ELSE 500

Ends(r, ending, seen) ==
  /\ pc[r] \in {"routing", "running"} /\ \A a \in Agents : agent[r][a] \in {"none", "ended", "leaked"}
  /\ kind[r] \in Workflows /\ ending = "responds" => failure[r] # "cancelled"
  /\ ending # "responds" /\ seen < 500 => kind[r] = "stream" /\ failure[r] \in {"cancelled", "left"}
  /\ kind[r] = "login" => ending # "cancelled" /\ seen \in {200, 401, 422, 500}

Departs(r) ==
  \E ending \in Endings, status \in Statuses :
    Leave(r, ending, status) /\ Ends(r, ending, Seen(r, ending, status)) /\ UNCHANGED <<agent, failure>>

(* Every way out of the application is one of these. *)
LEMMA Departures ==
  ASSUME SInv, NEW r \in Requests, Unprocessable(r) \/ Serve(r) \/ Login(r) \/ Refuse(r) \/ Finish(r)
  PROVE  Departs(r)
<1>0. Typed /\ RequestInv(r) /\ SpanInv(r)
  BY DEF SInv, IInv
<1>1. UNCHANGED <<agent, failure>>
  BY DEF Unprocessable, Serve, Login, Refuse, Finish, workflow
<1>2. ASSUME NEW ending \in Endings, NEW status \in Statuses, Leave(r, ending, status),
             Ends(r, ending, Seen(r, ending, status))
      PROVE  Departs(r)
  BY <1>1, <1>2 DEF Departs
<1>3. CASE pc[r] = "routing"
  <2>1. sent[r] = 0 /\ failure[r] = "none" /\ \A a \in Agents : agent[r][a] = "none"
    BY <1>0, <1>3 DEF RequestInv
  <2>2. ASSUME NEW status \in {200, 401, 422}, Leave(r, "responds", status) PROVE Departs(r)
    <3>1. Seen(r, "responds", status) = status /\ status \in Statuses /\ "responds" \in Endings
      BY <2>1 DEF Seen, Statuses, Endings
    <3>2. Ends(r, "responds", status)
      BY <1>3, <2>1, <2>2 DEF Ends
    <3> QED
      BY <1>2, <2>2, <3>1, <3>2
  <2>3. ASSUME kind[r] = "login", Leave(r, "raises", 500) PROVE Departs(r)
    <3>1. Seen(r, "raises", 500) = 500 /\ 500 \in Statuses /\ "raises" \in Endings
      BY <2>1 DEF Seen, Statuses, Endings
    <3>2. Ends(r, "raises", 500)
      BY <1>3, <2>1, <2>3 DEF Ends, Workflows
    <3> QED
      BY <1>2, <2>3, <3>1, <3>2
  <2>4. ~Finish(r)
    BY <1>3 DEF Finish
  <2> QED
    BY <2>2, <2>3, <2>4 DEF Unprocessable, Serve, Login, Refuse
<1>4. CASE pc[r] # "routing"
  <2>1. pc[r] = "running" /\ (FinishRun(r) \/ FinishStream(r))
        /\ \A a \in Agents : agent[r][a] \in {"none", "ended", "leaked"}
    BY <1>4 DEF Unprocessable, Serve, Login, Refuse, Finish
  <2>2. kind[r] \in Workflows /\ sent[r] = IF kind[r] = "stream" THEN 200 ELSE 0
    BY <1>0, <2>1 DEF SpanInv, Spans, Working
  <2>3. failure[r] \in Failures /\ (failure[r] = "left" => kind[r] = "stream")
    BY <1>0 DEF Typed, RequestInv
  <2>4. CASE FinishRun(r)
    <3>1. kind[r] = "run" /\ sent[r] = 0 /\ failure[r] \in {"none", "domain", "llm", "other", "cancelled"}
      BY <2>2, <2>3, <2>4 DEF FinishRun, Failures
    <3>2. DOMAIN HandledStatus = {"domain", "llm"} /\ HandledStatus["domain"] = 400
          /\ HandledStatus["llm"] = 503
      BY DEF HandledStatus
    <3>3. ASSUME NEW status \in Statuses, failure[r] # "cancelled", Leave(r, "responds", status) PROVE Departs(r)
      <4>1. Seen(r, "responds", status) = status /\ "responds" \in Endings
        BY <3>1 DEF Seen, Endings
      <4>2. Ends(r, "responds", status)
        BY <2>1, <3>1, <3>3 DEF Ends
      <4> QED
        BY <1>2, <3>3, <4>1, <4>2
    <3>4. ASSUME NEW ending \in {"raises", "cancelled"}, Leave(r, ending, 500) PROVE Departs(r)
      <4>1. Seen(r, ending, 500) = 500 /\ ending \in Endings /\ 500 \in Statuses
        BY <3>1 DEF Seen, Endings, Statuses
      <4>2. Ends(r, ending, 500)
        BY <2>1, <3>1, <3>4 DEF Ends
      <4> QED
        BY <1>2, <3>4, <4>1, <4>2
    <3>5. CASE failure[r] = "none"
      <4>1. Leave(r, "responds", 200)
        BY <2>4, <3>2, <3>5 DEF FinishRun
      <4> QED
        BY <3>3, <3>5, <4>1 DEF Statuses
    <3>6. CASE failure[r] \in {"domain", "llm"}
      <4>1. Leave(r, "responds", HandledStatus[failure[r]])
        BY <2>4, <3>2, <3>6 DEF FinishRun
      <4>2. HandledStatus[failure[r]] \in Statuses
        BY <3>2, <3>6 DEF Statuses
      <4> QED
        BY <3>3, <3>6, <4>1, <4>2
    <3>7. CASE failure[r] = "other"
      <4>1. Leave(r, "raises", 500)
        BY <2>4, <3>2, <3>7 DEF FinishRun
      <4> QED
        BY <3>4, <4>1
    <3>8. CASE failure[r] = "cancelled"
      <4>1. Leave(r, "cancelled", 500)
        BY <2>4, <3>2, <3>8 DEF FinishRun
      <4> QED
        BY <3>4, <4>1
    <3> QED
      BY <3>1, <3>5, <3>6, <3>7, <3>8
  <2>5. CASE FinishStream(r)
    <3>1. kind[r] = "stream" /\ sent[r] = 200
      BY <2>2, <2>5 DEF FinishStream
    <3>2. \A ending, status : Seen(r, ending, status) = 200
      BY <3>1 DEF Seen
    <3>3. CASE failure[r] = "cancelled"
      <4>1. Leave(r, "cancelled", 500) /\ Ends(r, "cancelled", 200)
        BY <2>1, <2>5, <3>1, <3>3 DEF FinishStream, Ends
      <4> QED
        BY <1>2, <3>2, <4>1 DEF Endings, Statuses
    <3>4. CASE failure[r] = "left"
      <4>1. PICK e \in {"responds", "raises"} : Leave(r, e, 200)
        BY <2>5, <3>4 DEF FinishStream
      <4>2. Ends(r, e, 200)
        BY <2>1, <3>1, <3>4 DEF Ends
      <4> QED
        BY <1>2, <3>2, <4>1, <4>2 DEF Endings, Statuses
    <3>5. CASE failure[r] \notin {"cancelled", "left"}
      <4>1. Leave(r, "responds", 200) /\ Ends(r, "responds", 200)
        BY <2>1, <2>5, <3>1, <3>5 DEF FinishStream, Ends
      <4> QED
        BY <1>2, <3>2, <4>1 DEF Endings, Statuses
    <3> QED
      BY <3>3, <3>4, <3>5
  <2> QED
    BY <2>1, <2>4, <2>5
<1> QED
  BY <1>3, <1>4

(* A request that departs leaves its spans in order. *)
LEMMA DepartureSpans ==
  ASSUME SInv, IInv', NEW r \in Requests, Departs(r)
  PROVE  SInv' /\ Elsewhere(r) /\ KeepsAudits(r)
<1>0. Typed /\ SpanInv(r) /\ tracer = [q \in Requests |-> tracer[q]]
  BY DEF SInv, IInv
<1>1. PICK ending \in Endings, status \in Statuses :
        Leave(r, ending, status) /\ Ends(r, ending, Seen(r, ending, status)) /\ UNCHANGED <<agent, failure>>
  BY DEF Departs
<1> DEFINE seen == Seen(r, ending, status)
           u == LeaveTracing(tracer[r], seen, ending # "responds")
<1>2. /\ pc' = [pc EXCEPT ![r] = "over"]
      /\ sent' = [sent EXCEPT ![r] = IF ending = "cancelled" THEN sent[r] ELSE seen]
      /\ tracer' = [tracer EXCEPT ![r] = u] /\ UNCHANGED kind
  BY <1>1, Zenon DEF Leave, Seen
<1>3. seen \in Statuses /\ sent[r] \in Statuses \cup {0}
  BY <1>0 DEF Seen, Typed, Statuses
<1>4. tracer'[r] = u /\ pc'[r] = "over" /\ sent'[r] = (IF ending = "cancelled" THEN sent[r] ELSE seen)
  <2> HIDE DEF u, seen
  <2> QED
    BY <1>0, <1>2 DEF Typed
<1>5. seen < 500 <=> sent'[r] \in 1 .. 499
  <2>1. CASE ending # "cancelled" \/ sent[r] # 0
    <3>1. sent'[r] = seen
      BY <1>4, <2>1 DEF Seen
    <3> QED
      BY <1>3, <3>1 DEF Statuses
  <2>2. CASE ending = "cancelled" /\ sent[r] = 0
    <3>1. sent'[r] = 0 /\ seen = 500
      BY <1>4, <2>2 DEF Seen
    <3> QED
      BY <3>1
  <2> QED
    BY <2>1, <2>2
<1>6. Spans(r, tracer[r], pc[r], kind[r], agent[r], sent[r], failure[r])
  BY <1>0 DEF SpanInv
<1>7. PICK raises \in BOOLEAN : raises = (ending # "responds")
  OBVIOUS
<1>8. u = LeaveTracing(tracer[r], seen, raises)
  BY <1>7, Zenon
<1>9. Ends(r, ending, seen)
  BY <1>1
<1> HIDE DEF seen, u
<1>10. /\ pc[r] \in {"routing", "running"} /\ \A a \in Agents : agent[r][a] \in {"none", "ended", "leaked"}
       /\ seen < 500 /\ raises => kind[r] = "stream" /\ failure[r] \in {"cancelled", "left"}
  BY <1>7, <1>9 DEF Ends
<1>11. Spans(r, u, "over", kind[r], agent[r], sent'[r], failure[r]) /\ LeftSpans(tracer[r], u)
  <2>1. Answered(seen, raises, kind[r], sent'[r], failure[r])
    BY <1>5, <1>10 DEF Answered
  <2>2. PICK st : st = sent'[r]
    OBVIOUS
  <2>3. Spans(r, u, "over", kind[r], agent[r], st, failure[r]) /\ LeftSpans(tracer[r], u)
    BY <1>6, <1>8, <1>10, <2>1, <2>2, LeaveSpans
  <2> QED
    BY <2>2, <2>3
<1>12. Elsewhere(r)
  <2>1. \A q \in Requests \ {r} : pc'[q] = pc[q] /\ sent'[q] = sent[q]
    BY <1>0, <1>2 DEF Typed
  <2> QED
    BY <1>1, <1>2, <1>4, <2>1 DEF Elsewhere
<1>13. SInv'
  <2>1. kind'[r] = kind[r] /\ agent'[r] = agent[r] /\ failure'[r] = failure[r]
    BY <1>1, <1>2
  <2> QED
    BY <1>4, <1>11, <1>12, <2>1, OthersKeep
<1>14. \A s \in u.exported : s \in tracer[r].exported \/ s.handle[1] \notin Audits
  BY <1>11 DEF LeftSpans, RequestSpan, WorkflowSpan, Audits
<1> QED
  BY <1>4, <1>11, <1>12, <1>13, <1>14 DEF LeftSpans, KeepsAudits

(* An interruption touches no span. *)
LEMMA InterruptSpans ==
  ASSUME SInv, IInv', NEW r \in Requests, Interrupt(r)
  PROVE  SInv' /\ Elsewhere(r) /\ KeepsAudits(r)
<1>0. Typed /\ SpanInv(r) /\ tracer = [q \in Requests |-> tracer[q]]
  BY DEF SInv, IInv
<1>1. /\ pc[r] = "running" /\ UNCHANGED <<agent, tracer, pc, kind, sent>>
      /\ \A q \in Requests \ {r} : failure'[q] = failure[q]
  BY <1>0 DEF Interrupt, Untouched, request, Typed
<1>2. tracer' = [tracer EXCEPT ![r] = tracer'[r]]
  BY <1>0, <1>1
<1>3. Elsewhere(r)
  BY <1>1, <1>2 DEF Elsewhere
<1>4. Spans(r, tracer[r], pc[r], kind[r], agent[r], sent[r], failure'[r])
  BY <1>0, <1>1 DEF SpanInv, Spans, Verdicts
<1>5. SInv'
  BY <1>1, <1>3, <1>4, OthersKeep
<1> QED
  BY <1>1, <1>3, <1>5 DEF KeepsAudits

(* Nor does the clock. *)
LEMMA QuietSpans ==
  ASSUME SInv, IInv', Tick \/ UNCHANGED vars
  PROVE  SInv' /\ UNCHANGED <<pc, kind, sent, agent, failure, tracer, metrics>>
<1>1. UNCHANGED <<pc, kind, sent, agent, failure, tracer, metrics>>
  BY DEF Tick, vars, request, workflow
<1>2. ASSUME NEW r \in Requests PROVE SpanInv(r)'
  BY <1>1 DEF SInv, SpanInv
<1> QED
  BY <1>1, <1>2 DEF SInv

(* What each step of a request is to the tracers *)
LEMMA StepSpans ==
  ASSUME SInv, [Next]_vars
  PROVE  SInv'
<1>0. IInv'
  BY NextKeeps DEF SInv
<1> QED
  BY <1>0, ArriveSpans, AdmitSpans, Departures, DepartureSpans, InterruptSpans, BeginSpans, EndSpans, CancelSpans,
     QuietSpans DEF Next

(* Spans nest by task, whatever the siblings have open; they know their     *)
(* run; and when their request is over they are exported, but for those of  *)
(* agents that failed before their try statement.                           *)
THEOREM SpansAlwaysNest == Spec => []SpansNest
<1>1. Init => SInv
  BY SpansInit
<1>2. SInv /\ [Next]_vars => SInv'
  BY StepSpans
<1>3. SInv => SpansNest
  BY SpansNested
<1> QED
  BY <1>1, <1>2, <1>3, PTL DEF Spec

-----------------------------------------------------------------------------
(* Counts: the registry against the requests that are over. *)

(* What the registry has counted of the requests that are over.  A status   *)
(* of 500 also stands for a client that was sent nothing.                   *)
Tallied(s) == {r \in Over : sent[r] = s \/ (s = 500 /\ sent[r] = 0)}
Completed == {r \in Through(Workflows) : Complete(r)}
Watched == {r \in Through(Workflows) : Complete(r) /\ failure[r] # "left"}
LoggedIn == {r \in Through({"login"}) : sent[r] = 200}

Counts ==
  /\ \A s \in Statuses : metrics.http[s] = Cardinality(Tallied(s))
  /\ metrics.workflows.success + metrics.workflows.failure = Cardinality(Through(Workflows))
  /\ metrics.workflows.success <= Cardinality(Completed)
  /\ metrics.workflows.success >= Cardinality(Watched)
  /\ metrics.logins.success = Cardinality(LoggedIn)

AuditCounts ==
  /\ \A good \in BOOLEAN : IsFiniteSet(AuditSpans(good))
  /\ metrics.audited = Cardinality(AuditSpans(TRUE))
  /\ metrics.refused = Cardinality(AuditSpans(FALSE))

OInv == SInv /\ Counts /\ AuditCounts

-----------------------------------------------------------------------------
(* Counting a set that grows by at most one element *)
LEMMA OneMore ==
  ASSUME NEW S, IsFiniteSet(S), NEW x, x \notin S, NEW T, NEW yes \in BOOLEAN,
         T = IF yes THEN S \cup {x} ELSE S
  PROVE  IsFiniteSet(T) /\ Cardinality(S) \in Nat
         /\ Cardinality(T) = Cardinality(S) + (IF yes THEN 1 ELSE 0)
<1>1. Cardinality(S) \in Nat
  BY FS_CardinalityType
<1>2. CASE yes
  BY <1>1, <1>2, FS_AddElement
<1>3. CASE ~yes
  BY <1>1, <1>3
<1> QED
  BY <1>2, <1>3

(* What a leaving request leaves in the registry *)
Leaves(m, n, k, status, good) ==
  /\ n.http = [m.http EXCEPT ![status] = @ + 1]
  /\ n.workflows = IF k \in Workflows THEN [m.workflows EXCEPT ![Verdict(good)] = @ + 1] ELSE m.workflows
  /\ n.logins = IF k = "login" THEN [m.logins EXCEPT ![Verdict(status < 400)] = @ + 1] ELSE m.logins
  /\ n.audited = m.audited /\ n.refused = m.refused

(* LeaveMetrics counts a leaving request so. *)
LEMMA LeavesCounted ==
  ASSUME NEW m \in Registry, NEW k \in Kinds, NEW status, NEW raises
  PROVE  Leaves(m, LeaveMetrics(m, k, status, raises), k, status, ~raises /\ status < 500)
<1> DEFINE counted == CountRequest(m, status)
           good == ~raises /\ status < 500
           ended == CountWorkflow(counted, good)
           login == CountLogin(counted, status < 400)
           n == LeaveMetrics(m, k, status, raises)
<1>1. /\ counted.http = [m.http EXCEPT ![status] = @ + 1] /\ counted.workflows = m.workflows
      /\ counted.logins = m.logins /\ counted.audited = m.audited /\ counted.refused = m.refused
      /\ counted = [counted EXCEPT !.active = counted.active]
      /\ DOMAIN counted = {"http", "workflows", "logins", "active", "audited", "refused"}
  BY DEF CountRequest, Registry
<1>2. n = IF k \in Workflows THEN AdjustActiveWorkflows(ended, -1)
          ELSE IF k = "login" THEN login ELSE counted
  BY Zenon DEF LeaveMetrics, Workflows
<1> HIDE DEF counted, good, n
<1>3. /\ login.http = counted.http /\ login.workflows = counted.workflows
      /\ login.logins = [counted.logins EXCEPT ![Verdict(status < 400)] = @ + 1]
      /\ login.audited = counted.audited /\ login.refused = counted.refused
  BY <1>1 DEF CountLogin
<1>4. /\ ended.http = counted.http /\ ended.logins = counted.logins
      /\ ended.workflows = [counted.workflows EXCEPT ![Verdict(good)] = @ + 1]
      /\ ended.audited = counted.audited /\ ended.refused = counted.refused
      /\ DOMAIN ended = {"http", "workflows", "logins", "active", "audited", "refused"}
  BY <1>1 DEF CountWorkflow
<1> HIDE DEF ended, login
<1>5. LET x == AdjustActiveWorkflows(ended, -1)
      IN /\ x.http = ended.http /\ x.logins = ended.logins /\ x.workflows = ended.workflows
         /\ x.audited = ended.audited /\ x.refused = ended.refused
  BY <1>4 DEF AdjustActiveWorkflows
<1>6. CASE k \in Workflows
  <2>1. k # "login"
    BY <1>6 DEF Workflows
  <2> QED
    BY <1>1, <1>2, <1>4, <1>5, <1>6, <2>1, Zenon DEF Leaves, good, n
<1>7. CASE k \notin Workflows /\ k = "login"
  <2>1. n = login
    BY <1>2, <1>7
  <2>2. /\ n.http = [m.http EXCEPT ![status] = @ + 1] /\ n.workflows = m.workflows
        /\ n.logins = [m.logins EXCEPT ![Verdict(status < 400)] = @ + 1]
        /\ n.audited = m.audited /\ n.refused = m.refused
    BY <1>1, <1>3, <2>1
  <2> QED
    BY <1>7, <2>2, Zenon DEF Leaves, n
<1>8. CASE k \notin Workflows /\ k # "login"
  BY <1>1, <1>2, <1>8, Zenon DEF Leaves, n
<1> QED
  BY <1>6, <1>7, <1>8 DEF good, n

(* Neither arrivals nor audited calls touch what requests are counted in. *)
SameCounters == UNCHANGED <<metrics.http, metrics.workflows, metrics.logins>>
SameCalls == UNCHANGED <<metrics.audited, metrics.refused>>

(* An audited call is counted as good or as failed. *)
LEMMA MeasuredShape ==
  ASSUME NEW m \in Registry, NEW ok \in BOOLEAN, NEW n, n = MeasuredCall(m, ok)
  PROVE  /\ n.http = m.http /\ n.workflows = m.workflows /\ n.logins = m.logins
         /\ n.audited = m.audited + (IF ok THEN 1 ELSE 0)
         /\ n.refused = m.refused + (IF ok THEN 0 ELSE 1)
BY DEF MeasuredCall, Registry

(* The gauge alone moves. *)
LEMMA AdjustedShape ==
  ASSUME NEW m \in Registry, NEW by, NEW n, n = AdjustActiveWorkflows(m, by)
  PROVE  /\ n.http = m.http /\ n.workflows = m.workflows /\ n.logins = m.logins
         /\ n.audited = m.audited /\ n.refused = m.refused
BY DEF AdjustActiveWorkflows, Registry

-----------------------------------------------------------------------------
(* While nobody leaves, nothing is counted. *)
LEMMA CountsKept ==
  ASSUME IInv, IInv', Counts, SameCounters,
         \A q \in Requests : pc'[q] = "over" <=> pc[q] = "over",
         \A q \in Over : kind'[q] = kind[q] /\ sent'[q] = sent[q] /\ failure'[q] = failure[q]
  PROVE  Counts'
<1>1. Over' = Over
  BY DEF Over
<1>2. \A s : Tallied(s)' = Tallied(s)
  BY <1>1 DEF Tallied
<1>3. Through(Workflows)' = Through(Workflows)
  BY <1>1 DEF Through, Workflows
<1>4. Completed' = Completed
  BY <1>1, <1>3 DEF Completed, Through, Complete
<1>5. Watched' = Watched
  BY <1>1, <1>3 DEF Watched, Through, Complete
<1>6. LoggedIn' = LoggedIn
  BY <1>1 DEF LoggedIn, Through
<1> QED
  BY <1>2, <1>3, <1>4, <1>5, <1>6, Zenon DEF Counts, SameCounters

(* Nothing is counted at first. *)
LEMMA CountsInit == Init => Counts /\ AuditCounts
<1> SUFFICES ASSUME Init PROVE Counts /\ AuditCounts
  OBVIOUS
<1>1. Over = {}
  BY DEF Init, Over
<1>2. Cardinality({}) = 0 /\ IsFiniteSet({})
  BY FS_EmptySet
<1>3. /\ \A s \in Statuses : metrics.http[s] = 0
      /\ metrics.workflows.success = 0 /\ metrics.workflows.failure = 0 /\ metrics.logins.success = 0
      /\ metrics.audited = 0 /\ metrics.refused = 0
  BY DEF Init
<1>4. \A s : Tallied(s) = {}
  BY <1>1 DEF Tallied
<1>5. Through(Workflows) = {} /\ Completed = {} /\ Watched = {} /\ LoggedIn = {}
  BY <1>1 DEF Through, Completed, Watched, LoggedIn
<1>6. \A r \in Requests : tracer[r].exported = {}
  BY DEF Init, NewTracer
<1>7. \A good \in BOOLEAN : AuditSpans(good) = {}
  BY <1>6 DEF AuditSpans
<1>8. AuditSpans(TRUE) = {} /\ AuditSpans(FALSE) = {}
  BY <1>7
<1>9. Counts
  BY <1>2, <1>3, <1>4, <1>5 DEF Counts
<1> QED
  BY <1>2, <1>3, <1>7, <1>8, <1>9 DEF AuditCounts

-----------------------------------------------------------------------------
(* A request that departs is counted once, for what its client was sent. *)
LEMMA DepartureCounts ==
  ASSUME IInv, IInv', Counts, NEW r \in Requests, Departs(r)
  PROVE  Counts' /\ SameCalls
<1>0. Typed /\ Typed'
  BY DEF IInv
<1>1. PICK ending \in Endings, status \in Statuses :
        Leave(r, ending, status) /\ Ends(r, ending, Seen(r, ending, status)) /\ UNCHANGED <<agent, failure>>
  BY DEF Departs
<1> DEFINE seen == Seen(r, ending, status)
           good == ending = "responds" /\ seen < 500
<1>2. /\ pc' = [pc EXCEPT ![r] = "over"]
      /\ sent' = [sent EXCEPT ![r] = IF ending = "cancelled" THEN sent[r] ELSE seen]
      /\ metrics' = LeaveMetrics(metrics, kind[r], seen, ending # "responds") /\ UNCHANGED kind
  BY <1>1, Zenon DEF Leave, Seen
<1>3. Leaves(metrics, metrics', kind[r], seen, ~(ending # "responds") /\ seen < 500)
  <2>1. metrics \in Registry /\ kind[r] \in Kinds
    BY <1>0 DEF Typed
  <2> QED
    BY <1>2, <2>1, LeavesCounted, Zenon
<1>4. /\ seen \in Statuses
      /\ ending # "cancelled" => sent'[r] = seen
      /\ ending = "cancelled" => sent'[r] = sent[r] /\ (sent[r] # 0 => seen = sent[r]) /\ (sent[r] = 0 => seen = 500)
  BY <1>0, <1>1, <1>2 DEF Seen, Typed, Statuses
<1>5. pc[r] # "over" /\ Ends(r, ending, seen)
  BY <1>1 DEF Ends
<1>6. /\ Over' = Over \cup {r} /\ r \notin Over /\ kind' = kind /\ failure' = failure
      /\ \A q \in Requests \ {r} : sent'[q] = sent[q]
  BY <1>0, <1>1, <1>2, <1>5 DEF Over, Typed
<1> HIDE DEF seen, good
<1>7. \A S : S \subseteq Over => IsFiniteSet(S) /\ r \notin S
  BY <1>6, EdgeAssumption, FS_Subset DEF Over
<1>8. metrics'.http = [metrics.http EXCEPT ![seen] = @ + 1]
  BY <1>3 DEF Leaves
<1>9. ASSUME NEW s \in Statuses PROVE metrics'.http[s] = Cardinality(Tallied(s)')
  <2>1. Tallied(s) \subseteq Over /\ metrics.http[s] = Cardinality(Tallied(s))
    BY DEF Tallied, Counts
  <2>2. sent'[r] = s \/ (s = 500 /\ sent'[r] = 0) <=> s = seen
    BY <1>4 DEF Statuses
  <2>3. Tallied(s)' = IF s = seen THEN Tallied(s) \cup {r} ELSE Tallied(s)
    BY <1>6, <2>2 DEF Tallied, Over
  <2>4. PICK yes \in BOOLEAN : yes = (s = seen)
    OBVIOUS
  <2>5. PICK S, T : S = Tallied(s) /\ T = Tallied(s)'
    OBVIOUS
  <2>6. IsFiniteSet(S) /\ r \notin S /\ T = IF yes THEN S \cup {r} ELSE S
    BY <1>7, <2>1, <2>3, <2>4, <2>5
  <2>7. Cardinality(T) = Cardinality(S) + (IF yes THEN 1 ELSE 0)
    BY <2>6, OneMore
  <2>8. metrics'.http[s] = metrics.http[s] + (IF s = seen THEN 1 ELSE 0)
    BY <1>0, <1>8, <2>1 DEF Typed, Registry
  <2> QED
    BY <2>1, <2>4, <2>5, <2>7, <2>8
<1>10. /\ \A q \in Over : q \in Requests /\ q # r
       /\ \A k : Through(k) \subseteq Over /\ Through(k)' = IF kind[r] \in k THEN Through(k) \cup {r} ELSE Through(k)
  BY <1>6 DEF Over, Through
<1>11. PICK done \in BOOLEAN : done = Complete(r)'
  BY DEF Complete
<1>12. \A q \in Over : Complete(q)' = Complete(q)
  BY <1>6, <1>10 DEF Complete
<1>13. ASSUME kind[r] \in Workflows PROVE (good => done) /\ (done /\ failure[r] # "left" => good)
  <2>1. done <=> sent'[r] \in 1 .. 499 /\ failure[r] # "cancelled"
    BY <1>6, <1>11 DEF Complete
  <2>2. good <=> ending = "responds" /\ seen < 500
    BY DEF good
  <2>3. sent'[r] \in 1 .. 499 => seen < 500
    BY <1>4
  <2>4. CASE good
    <3>1. sent'[r] = seen /\ seen \in 1 .. 499
      BY <1>4, <2>2, <2>4 DEF Statuses
    <3>2. failure[r] # "cancelled"
      BY <1>5, <1>13, <2>2, <2>4 DEF Ends
    <3> QED
      BY <2>1, <2>4, <3>1, <3>2
  <2>5. CASE done /\ failure[r] # "left"
    BY <1>5, <2>1, <2>2, <2>3, <2>5 DEF Ends
  <2> QED
    BY <2>4, <2>5
<1>14. PICK w, w2 : w = metrics.workflows /\ w2 = metrics'.workflows
  OBVIOUS
<1>15. w \in Counter /\ w2 \in Counter
  BY <1>0, <1>14 DEF Typed, Registry
<1>16. /\ kind[r] \notin Workflows => w2 = w
       /\ kind[r] \in Workflows => /\ w2.success = w.success + (IF good THEN 1 ELSE 0)
                                  /\ w2.failure = w.failure + (IF good THEN 0 ELSE 1)
  <2>1. w2 = IF kind[r] \in Workflows THEN [w EXCEPT ![Verdict(good)] = @ + 1] ELSE w
    <3>1. good = (~(ending # "responds") /\ seen < 500)
      BY DEF good
    <3> QED
      BY <1>3, <1>14, <3>1 DEF Leaves
  <2> QED
    BY <1>15, <2>1 DEF Verdict, Counter
<1>17. PICK flow \in BOOLEAN, well \in BOOLEAN, a \in Nat, b \in Nat, a2 \in Nat, b2 \in Nat :
         /\ (flow <=> kind[r] \in Workflows) /\ (well <=> good)
         /\ a = w.success /\ b = w.failure /\ a2 = w2.success /\ b2 = w2.failure
         /\ a2 = a + (IF flow /\ well THEN 1 ELSE 0)
         /\ b2 = b + (IF flow /\ ~well THEN 1 ELSE 0)
  <2>1. PICK flow \in BOOLEAN : flow <=> kind[r] \in Workflows
    BY Zenon
  <2>2. PICK well \in BOOLEAN : well <=> good
    BY Zenon
  <2> QED
    BY <1>15, <1>16, <2>1, <2>2 DEF Counter
<1>18. ASSUME NEW S, NEW T, S \subseteq Over, NEW yes \in BOOLEAN, T = IF yes THEN S \cup {r} ELSE S
       PROVE  Cardinality(S) \in Nat /\ Cardinality(T) = Cardinality(S) + (IF yes THEN 1 ELSE 0)
  BY <1>7, <1>18, OneMore
<1>19. w2.success + w2.failure = Cardinality(Through(Workflows)')
  <2>1. PICK S, T : S = Through(Workflows) /\ T = Through(Workflows)'
    OBVIOUS
  <2>2. S \subseteq Over /\ T = IF flow THEN S \cup {r} ELSE S
    BY <1>10, <1>17, <2>1 DEF Through, Workflows
  <2>3. Cardinality(S) \in Nat /\ Cardinality(T) = Cardinality(S) + (IF flow THEN 1 ELSE 0)
    BY <1>18, <2>2
  <2>4. w.success + w.failure = Cardinality(S)
    BY <1>14, <2>1 DEF Counts
  <2> QED
    BY <1>17, <2>1, <2>3, <2>4
<1>20. w2.success <= Cardinality(Completed')
  <2>1. PICK S, T : S = Completed /\ T = Completed'
    OBVIOUS
  <2>2. PICK yes \in BOOLEAN : yes = (flow /\ done)
    OBVIOUS
  <2>3. S \subseteq Over /\ T = IF yes THEN S \cup {r} ELSE S
    BY <1>6, <1>10, <1>11, <1>12, <1>17, <2>1, <2>2 DEF Completed, Through, Workflows
  <2>4. Cardinality(S) \in Nat /\ Cardinality(T) = Cardinality(S) + (IF yes THEN 1 ELSE 0)
    BY <1>18, <2>3
  <2>5. w.success <= Cardinality(S)
    BY <1>14, <2>1 DEF Counts
  <2> QED
    BY <1>13, <1>17, <2>1, <2>2, <2>4, <2>5
<1>21. w2.success >= Cardinality(Watched')
  <2>1. PICK S, T : S = Watched /\ T = Watched'
    OBVIOUS
  <2>2. PICK yes \in BOOLEAN : yes = (flow /\ done /\ failure[r] # "left")
    OBVIOUS
  <2>3. S \subseteq Over /\ T = IF yes THEN S \cup {r} ELSE S
    BY <1>6, <1>10, <1>11, <1>12, <1>17, <2>1, <2>2 DEF Watched, Through, Workflows
  <2>4. Cardinality(S) \in Nat /\ Cardinality(T) = Cardinality(S) + (IF yes THEN 1 ELSE 0)
    BY <1>18, <2>3
  <2>5. w.success >= Cardinality(S)
    BY <1>14, <2>1 DEF Counts
  <2> QED
    BY <1>13, <1>17, <2>1, <2>2, <2>4, <2>5
<1>22. metrics'.logins.success = Cardinality(LoggedIn')
  <2>1. PICK S, T : S = LoggedIn /\ T = LoggedIn'
    OBVIOUS
  <2>2. PICK yes \in BOOLEAN : yes = (kind[r] = "login" /\ sent'[r] = 200)
    OBVIOUS
  <2>3. S \subseteq Over /\ T = IF yes THEN S \cup {r} ELSE S
    <3>1. S = {q \in Over : kind[q] = "login" /\ sent[q] = 200}
      BY <2>1 DEF LoggedIn, Through
    <3>2. T = {q \in Over \cup {r} : kind[q] = "login" /\ sent'[q] = 200}
      BY <1>6, <2>1 DEF LoggedIn, Through
    <3>3. \A q \in Over : q # r /\ sent'[q] = sent[q]
      BY <1>6, <1>10
    <3>4. S \subseteq Over
      BY <3>1
    <3>5. yes <=> kind[r] = "login" /\ sent'[r] = 200
      BY <2>2, Zenon
    <3>6. \A q : q \in T <=> q \in S \/ (yes /\ q = r)
      BY <3>1, <3>2, <3>3, <3>5
    <3>7. T = IF yes THEN S \cup {r} ELSE S
      BY <3>6
    <3> QED
      BY <3>4, <3>7
  <2>4. Cardinality(S) \in Nat /\ Cardinality(T) = Cardinality(S) + (IF yes THEN 1 ELSE 0)
    BY <1>18, <2>3
  <2>5. metrics.logins.success = Cardinality(S)
    BY <2>1 DEF Counts
  <2>6. kind[r] = "login" => (seen < 400 <=> sent'[r] = 200)
    BY <1>4, <1>5 DEF Ends
  <2>7. metrics'.logins.success = metrics.logins.success + (IF yes THEN 1 ELSE 0)
    <3>1. metrics.logins \in Counter
      BY <1>0 DEF Typed, Registry
    <3>2. metrics'.logins = IF kind[r] = "login" THEN [metrics.logins EXCEPT ![Verdict(seen < 400)] = @ + 1]
                            ELSE metrics.logins
      BY <1>3 DEF Leaves
    <3>3. CASE yes
      <4>1. metrics'.logins = [metrics.logins EXCEPT !.success = @ + 1]
        BY <2>2, <2>6, <3>2, <3>3 DEF Verdict
      <4> QED
        BY <3>1, <3>3, <4>1 DEF Counter
    <3>4. CASE kind[r] = "login" /\ ~yes
      <4>1. metrics'.logins = [metrics.logins EXCEPT !.failure = @ + 1]
        BY <2>2, <2>6, <3>2, <3>4 DEF Verdict
      <4> QED
        BY <3>1, <3>4, <4>1 DEF Counter
    <3>5. CASE kind[r] # "login"
      <4>1. ~yes /\ metrics'.logins = metrics.logins /\ metrics.logins.success \in Nat
        BY <2>2, <3>1, <3>2, <3>5 DEF Counter
      <4> QED
        BY <4>1
    <3> QED
      BY <3>3, <3>4, <3>5
  <2> QED
    BY <2>1, <2>4, <2>5, <2>7
<1>23. SameCalls
  BY <1>3 DEF Leaves, SameCalls
<1> QED
  BY <1>9, <1>14, <1>19, <1>20, <1>21, <1>22, <1>23 DEF Counts

-----------------------------------------------------------------------------
(* Counts: the registry against the finished spans of audited calls. *)

LEMMA AuditSpansMember ==
  ASSUME NEW good, NEW x
  PROVE  x \in AuditSpans(good) <=>
           \E r \in Requests : \E s \in tracer[r].exported :
             s.handle[1] \in Audits /\ s.success = good /\ x = <<r, s>>
<1> DEFINE Of(r) == {<<r, s>> : s \in {e \in tracer[r].exported : e.handle[1] \in Audits /\ e.success = good}}
<1>1. x \in AuditSpans(good) <=> \E r \in Requests : x \in Of(r)
  BY DEF AuditSpans
<1>2. ASSUME NEW r \in Requests
      PROVE  x \in Of(r) <=> \E s \in tracer[r].exported :
                                s.handle[1] \in Audits /\ s.success = good /\ x = <<r, s>>
  OBVIOUS
<1> HIDE DEF Of
<1> QED
  BY <1>1, <1>2

(* The same of the next state *)
LEMMA AuditSpansMemberNext ==
  ASSUME NEW good, NEW x
  PROVE  x \in AuditSpans(good)' <=>
           \E r \in Requests : \E s \in tracer'[r].exported :
             s.handle[1] \in Audits /\ s.success = good /\ x = <<r, s>>
<1> DEFINE Of(r) == {<<r, s>> : s \in {e \in tracer[r].exported : e.handle[1] \in Audits /\ e.success = good}}
<1>1. x \in AuditSpans(good)' <=> \E r \in Requests : x \in Of(r)'
  BY DEF AuditSpans
<1>2. ASSUME NEW r \in Requests
      PROVE  x \in Of(r)' <=> \E s \in tracer'[r].exported :
                                s.handle[1] \in Audits /\ s.success = good /\ x = <<r, s>>
  OBVIOUS
<1> HIDE DEF Of
<1> QED
  BY <1>1, <1>2

(* Audited calls are counted as often as spans of them are finished. *)
LEMMA AuditsKept ==
  ASSUME SInv, AuditCounts, NEW r \in Requests, Elsewhere(r), KeepsAudits(r), SameCalls
  PROVE  AuditCounts'
<1>1. \A q \in Requests \ {r} : tracer'[q] = tracer[q]
  BY DEF SInv, Elsewhere
<1>2. ASSUME NEW good PROVE AuditSpans(good)' = AuditSpans(good)
  <2>1. ASSUME NEW q \in Requests, NEW s, s.handle[1] \in Audits
        PROVE  s \in tracer'[q].exported <=> s \in tracer[q].exported
    BY <1>1, <2>1 DEF KeepsAudits
  <2>2. ASSUME NEW x PROVE x \in AuditSpans(good)' <=> x \in AuditSpans(good)
    BY <2>1, AuditSpansMember, AuditSpansMemberNext
  <2> QED
    BY <2>2
<1> QED
  BY <1>2 DEF AuditCounts, SameCalls

(* A measured call adds one to its count and one to its spans. *)
LEMMA AuditsAdded ==
  ASSUME SInv, AuditCounts, NEW r \in Requests, Elsewhere(r), NEW ok \in BOOLEAN, AddsAudit(r, ok),
         metrics' = MeasuredCall(metrics, ok)
  PROVE  AuditCounts' /\ SameCounters
<1>1. \A q \in Requests \ {r} : tracer'[q] = tracer[q]
  BY DEF SInv, Elsewhere
<1>2. PICK s \in tracer'[r].exported :
        /\ s \notin tracer[r].exported /\ s.handle[1] \in Audits /\ s.success = ok
        /\ \A x \in tracer'[r].exported : x = s \/ x \in tracer[r].exported \/ x.handle[1] \notin Audits
  BY DEF AddsAudit
<1>3. tracer[r].exported \subseteq tracer'[r].exported
  BY DEF AddsAudit
<1>4. ASSUME NEW good
      PROVE  /\ <<r, s>> \notin AuditSpans(good)
             /\ AuditSpans(good)' = IF good = ok THEN AuditSpans(good) \cup {<<r, s>>} ELSE AuditSpans(good)
  <2>1. <<r, s>> \notin AuditSpans(good)
    BY <1>2, AuditSpansMember
  <2>2. ASSUME NEW q \in Requests, NEW x, x.handle[1] \in Audits
        PROVE  x \in tracer'[q].exported <=> x \in tracer[q].exported \/ (q = r /\ x = s)
    BY <1>1, <1>2, <1>3, <2>2
  <2>3. ASSUME NEW y
        PROVE  y \in AuditSpans(good)' <=> y \in AuditSpans(good) \/ (good = ok /\ y = <<r, s>>)
    BY <1>2, <2>2, AuditSpansMember, AuditSpansMemberNext
  <2> QED
    BY <2>1, <2>3
<1>5. ASSUME NEW good \in BOOLEAN
      PROVE  /\ IsFiniteSet(AuditSpans(good)') /\ Cardinality(AuditSpans(good)) \in Nat
             /\ Cardinality(AuditSpans(good)') = Cardinality(AuditSpans(good)) + (IF good = ok THEN 1 ELSE 0)
  <2>1. PICK S, T : S = AuditSpans(good) /\ T = AuditSpans(good)'
    OBVIOUS
  <2>2. PICK yes \in BOOLEAN : yes <=> good = ok
    BY Zenon
  <2>3. IsFiniteSet(S)
    BY <2>1 DEF AuditCounts
  <2>4. <<r, s>> \notin S /\ T = IF yes THEN S \cup {<<r, s>>} ELSE S
    BY <1>4, <2>1, <2>2
  <2>5. /\ IsFiniteSet(T) /\ Cardinality(S) \in Nat
        /\ Cardinality(T) = Cardinality(S) + (IF yes THEN 1 ELSE 0)
    BY <2>3, <2>4, OneMore
  <2> QED
    BY <2>1, <2>2, <2>5
<1>6. /\ metrics'.http = metrics.http /\ metrics'.workflows = metrics.workflows /\ metrics'.logins = metrics.logins
      /\ metrics'.audited = metrics.audited + (IF ok THEN 1 ELSE 0)
      /\ metrics'.refused = metrics.refused + (IF ok THEN 0 ELSE 1)
  <2>1. metrics \in Registry
    BY DEF SInv, IInv, Typed
  <2> QED
    BY <2>1, MeasuredShape
<1>7. metrics'.audited = Cardinality(AuditSpans(TRUE)')
  <2>1. PICK yes \in BOOLEAN : yes = TRUE
    OBVIOUS
  <2> QED
    BY <1>5, <1>6, <2>1 DEF AuditCounts
<1>8. metrics'.refused = Cardinality(AuditSpans(FALSE)')
  <2>1. PICK no \in BOOLEAN : no = FALSE
    OBVIOUS
  <2> QED
    BY <1>5, <1>6, <2>1 DEF AuditCounts
<1> QED
  BY <1>5, <1>6, <1>7, <1>8 DEF AuditCounts, SameCounters

-----------------------------------------------------------------------------
(* While a request stays, no count of requests changes. *)
LEMMA StayCounts ==
  ASSUME SInv, IInv', Counts, NEW r \in Requests, Elsewhere(r), pc[r] # "over", pc'[r] # "over", SameCounters
  PROVE  Counts'
<1>1. \A q \in Requests \ {r} : pc'[q] = pc[q] /\ kind'[q] = kind[q] /\ sent'[q] = sent[q] /\ failure'[q] = failure[q]
  BY DEF Elsewhere
<1>2. \A q \in Requests : pc'[q] = "over" <=> pc[q] = "over"
  BY <1>1
<1>3. \A q \in Over : kind'[q] = kind[q] /\ sent'[q] = sent[q] /\ failure'[q] = failure[q]
  BY <1>1 DEF Over
<1> QED
  BY <1>2, <1>3, CountsKept DEF SInv

(* Which holds of a request that arrives, *)
LEMMA ArriveCounts ==
  ASSUME SInv, NEW r \in Requests, Arrive(r)
  PROVE  SameCounters /\ SameCalls /\ pc[r] # "over" /\ pc'[r] # "over"
<1>1. Typed
  BY DEF SInv, IInv
<1>2. pc[r] = "new" /\ pc'[r] = "routing"
  BY <1>1 DEF Arrive, Typed
<1>3. metrics' = metrics \/ metrics' = AdjustActiveWorkflows(metrics, 1)
  BY Zenon DEF Arrive
<1>4. metrics \in Registry
  BY <1>1 DEF Typed
<1> QED
  BY <1>2, <1>3, <1>4, AdjustedShape DEF SameCounters, SameCalls

(* of one whose workflow is started, *)
LEMMA AdmitCounts ==
  ASSUME SInv, NEW r \in Requests, Admit(r)
  PROVE  SameCounters /\ SameCalls /\ pc[r] # "over" /\ pc'[r] # "over"
<1>1. Typed
  BY DEF SInv, IInv
<1>2. pc[r] = "routing" /\ pc'[r] = "running"
  BY <1>1 DEF Admit, Typed
<1>3. metrics' = metrics
  BY DEF Admit
<1> QED
  BY <1>2, <1>3 DEF SameCounters, SameCalls

(* of one that is interrupted, *)
LEMMA InterruptCounts ==
  ASSUME SInv, NEW r \in Requests, Interrupt(r)
  PROVE  SameCounters /\ SameCalls /\ pc[r] # "over" /\ pc'[r] # "over"
<1>1. pc[r] = "running" /\ pc' = pc /\ metrics' = metrics
  BY DEF Interrupt, Untouched, request
<1> QED
  BY <1>1 DEF SameCounters, SameCalls

(* and of one whose agents work. *)
LEMMA AgentCounts ==
  ASSUME SInv, NEW r \in Requests, NEW a \in Agents, BeginAgent(r, a) \/ EndAgent(r, a) \/ CancelAgent(r, a)
  PROVE  pc[r] # "over" /\ pc'[r] # "over"
<1>1. agent[r][a] \in {"created", "awaiting"} /\ pc' = pc
  BY DEF BeginAgent, EndAgent, CancelAgent, Untouched, request
<1> QED
  BY <1>1, WorkingRuns

(* Every step preserves the counts. *)
LEMMA StepCounts == OInv /\ [Next]_vars => OInv'
<1> SUFFICES ASSUME OInv, [Next]_vars PROVE OInv'
  OBVIOUS
<1>0. SInv /\ Counts /\ AuditCounts /\ SInv' /\ IInv /\ IInv'
  BY StepSpans DEF OInv, SInv
<1>1. ASSUME NEW r \in Requests, Elsewhere(r), KeepsAudits(r), SameCounters, SameCalls,
             pc[r] # "over", pc'[r] # "over"
      PROVE  OInv'
  BY <1>0, <1>1, StayCounts, AuditsKept DEF OInv
<1>2. ASSUME NEW r \in Requests, Elsewhere(r), pc[r] # "over", pc'[r] # "over",
             NEW ok \in BOOLEAN, AddsAudit(r, ok), metrics' = MeasuredCall(metrics, ok)
      PROVE  OInv'
  BY <1>0, <1>2, StayCounts, AuditsAdded DEF OInv
<1>3. ASSUME NEW r \in Requests, Arrive(r) PROVE OInv'
  BY <1>0, <1>1, <1>3, ArriveSpans, ArriveCounts
<1>4. ASSUME NEW r \in Requests, Admit(r) PROVE OInv'
  BY <1>0, <1>1, <1>4, AdmitSpans, AdmitCounts
<1>5. ASSUME NEW r \in Requests, Interrupt(r) PROVE OInv'
  BY <1>0, <1>1, <1>5, InterruptSpans, InterruptCounts
<1>6. ASSUME NEW r \in Requests, NEW a \in Agents, BeginAgent(r, a) \/ EndAgent(r, a) PROVE OInv'
  BY <1>0, <1>2, <1>6, BeginSpans, EndSpans, AgentCounts
<1>7. ASSUME NEW r \in Requests, NEW a \in Agents, CancelAgent(r, a) PROVE OInv'
  <2>1. SameCounters /\ SameCalls
    BY <1>7 DEF CancelAgent, SameCounters, SameCalls
  <2> QED
    BY <1>0, <1>1, <1>7, <2>1, CancelSpans, AgentCounts
<1>8. ASSUME NEW r \in Requests, Unprocessable(r) \/ Serve(r) \/ Login(r) \/ Refuse(r) \/ Finish(r) PROVE OInv'
  <2>1. Departs(r)
    BY <1>0, <1>8, Departures
  <2>2. Elsewhere(r) /\ KeepsAudits(r)
    BY <1>0, <2>1, DepartureSpans
  <2>3. Counts' /\ SameCalls
    BY <1>0, <2>1, DepartureCounts
  <2> QED
    BY <1>0, <2>2, <2>3, AuditsKept DEF OInv
<1>9. CASE Tick \/ UNCHANGED vars
  <2>1. UNCHANGED <<pc, kind, sent, agent, failure, tracer, metrics>>
    BY <1>0, <1>9, QuietSpans
  <2>2. Counts'
    BY <1>0, <2>1, CountsKept DEF SameCounters
  <2>3. \A good : AuditSpans(good)' = AuditSpans(good)
    BY <2>1 DEF AuditSpans
  <2>4. AuditCounts'
    BY <1>0, <2>1, <2>3 DEF AuditCounts
  <2> QED
    BY <1>0, <2>2, <2>4 DEF OInv
<1> QED
  BY <1>3, <1>4, <1>5, <1>6, <1>7, <1>8, <1>9 DEF Next

-----------------------------------------------------------------------------
(* OutcomesAgree and TypeOK follow. *)

LEMMA CountsAgree == OInv => OutcomesAgree
<1> SUFFICES ASSUME OInv PROVE OutcomesAgree
  OBVIOUS
<1> DEFINE Cut == {r \in Over : sent[r] = 0}
           Told(s) == {r \in Over : sent[r] = s}
           RequestExport(r) == CHOOSE s \in tracer[r].exported : s.handle = RequestSpan
           Broken(r) == kind[r] = "stream" /\ failure[r] \in {"cancelled", "left"}
<1>0. SInv /\ Counts /\ AuditCounts
  BY DEF OInv
<1>1. ASSUME NEW s \in Statuses
      PROVE  metrics.http[s] = Cardinality(Told(s)) + (IF s = 500 THEN Cardinality(Cut) ELSE 0)
  <2>1. PICK S, T, U : S = Told(s) /\ T = Cut /\ U = Tallied(s)
    OBVIOUS
  <2>2. IsFiniteSet(S) /\ IsFiniteSet(T)
    <3>1. S \subseteq Requests /\ T \subseteq Requests
      BY <2>1 DEF Over
    <3> QED
      BY <3>1, EdgeAssumption, FS_Subset
  <2>3. Cardinality(S) \in Nat /\ Cardinality(T) \in Nat
    BY <2>2, FS_CardinalityType
  <2>4. metrics.http[s] = Cardinality(U)
    BY <1>0, <2>1 DEF Counts
  <2>5. S \cap T = {}
    BY <2>1 DEF Statuses
  <2>6. U = IF s = 500 THEN S \cup T ELSE S
    BY <2>1 DEF Tallied
  <2>7. Cardinality(S \cup T) = Cardinality(S) + Cardinality(T)
    <3>1. Cardinality(S \cup T) = Cardinality(S) + Cardinality(T) - Cardinality(S \cap T)
      BY <2>2, FS_Union
    <3>2. Cardinality(S \cap T) = 0
      BY <2>5, FS_EmptySet
    <3> QED
      BY <2>3, <3>1, <3>2
  <2> HIDE DEF Told, Cut
  <2>8. metrics.http[s] = Cardinality(S) + (IF s = 500 THEN Cardinality(T) ELSE 0)
    BY <2>3, <2>4, <2>6, <2>7
  <2> QED
    BY <2>1, <2>8
<1>2. ASSUME NEW r \in Over
      PROVE  /\ RequestExport(r).success <=> sent[r] \in 1 .. 499
             /\ RequestExport(r).success /\ RequestExport(r).error => Broken(r)
  <2>1. r \in Requests /\ Verdicts(tracer[r], "over", kind[r], sent[r], failure[r])
    BY <1>0 DEF Over, SInv, SpanInv, Spans
  <2>2. PICK s \in tracer[r].exported :
          /\ s.handle = RequestSpan /\ \A x \in tracer[r].exported : x.handle = RequestSpan => x = s
          /\ s.success <=> sent[r] \in 1 .. 499
          /\ s.success /\ s.error => kind[r] = "stream" /\ failure[r] \in {"cancelled", "left"}
    BY <2>1 DEF Verdicts
  <2>3. RequestExport(r) = s
    BY <2>2
  <2> QED
    BY <2>2, <2>3, Zenon
<1>3. /\ metrics.workflows.success <= Cardinality({r \in Through(Workflows) : Complete(r)})
      /\ metrics.workflows.success >= Cardinality({r \in Through(Workflows) : Complete(r) /\ failure[r] # "left"})
      /\ metrics.logins.success = Cardinality({r \in Through({"login"}) : sent[r] = 200})
  BY <1>0 DEF Counts, Completed, Watched, LoggedIn
<1>4. metrics.workflows.success + metrics.workflows.failure = Cardinality(Through(Workflows))
  BY <1>0 DEF Counts
<1>5. metrics.audited = Cardinality(AuditSpans(TRUE)) /\ metrics.refused = Cardinality(AuditSpans(FALSE))
  BY <1>0 DEF AuditCounts
<1> QED
  BY <1>1, <1>2, <1>3, <1>4, <1>5, Zenon DEF OutcomesAgree

(* So they always hold. *)
LEMMA AlwaysOInv == Spec => []OInv
<1>1. Init => OInv
  BY SpansInit, CountsInit DEF OInv
<1>2. OInv /\ [Next]_vars => OInv'
  BY StepCounts
<1> QED
  BY <1>1, <1>2, PTL DEF Spec

(* Clients, registry and spans always tell one story: statuses, workflows,  *)
(* logins and audited calls are counted as often as they occurred, whatever *)
(* the requests did and however they ended.                                 *)
THEOREM OutcomesAlwaysAgree == Spec => []OutcomesAgree
<1>1. OInv => OutcomesAgree
  BY CountsAgree
<1> QED
  BY <1>1, AlwaysOInv, PTL

-----------------------------------------------------------------------------
(* The bounds of the clock *)
Bounded ==
  /\ now <= MaxTime
  /\ tokens \subseteq Earlier \cup Lifetime .. MaxTime + Lifetime
  /\ admitted \in [Requests -> -1 .. MaxTime]

(* The clock and what is read from it keep their bounds. *)
LEMMA StepBounded == SInv /\ Bounded /\ [Next]_vars => Bounded'
<1> SUFFICES ASSUME SInv, Bounded, [Next]_vars PROVE Bounded'
  OBVIOUS
<1>0. now \in 0 .. MaxTime /\ now \in Nat /\ MaxTime \in Nat /\ Lifetime \in Nat
  BY EdgeAssumption DEF SInv, IInv, Typed, Bounded
<1>1. CASE UNCHANGED <<now, tokens, admitted>>
  BY <1>1 DEF Bounded
<1>2. CASE Tick
  BY <1>0, <1>2 DEF Tick, Bounded, request
<1>3. ASSUME NEW r \in Requests, Login(r) PROVE Bounded'
  <2>1. UNCHANGED <<now, admitted>> /\ (tokens' = tokens \/ tokens' = tokens \cup {CreateAccessToken})
    BY <1>3 DEF Login, Leave
  <2>2. CreateAccessToken \in Lifetime .. MaxTime + Lifetime
    BY <1>0 DEF CreateAccessToken
  <2> QED
    BY <2>1, <2>2 DEF Bounded
<1>4. ASSUME NEW r \in Requests, Admit(r) PROVE Bounded'
  BY <1>0, <1>4 DEF Admit, Bounded
<1>5. ASSUME NEW r \in Requests, Unprocessable(r) \/ Serve(r) \/ Refuse(r) PROVE Bounded'
  BY <1>1, <1>5 DEF Unprocessable, Serve, Refuse, Leave
<1>6. ASSUME NEW r \in Requests, Finish(r) PROVE Bounded'
  <2>1. Departs(r)
    BY <1>6, Departures
  <2> QED
    BY <1>1, <1>6, <2>1 DEF Finish, Departs, Leave
<1>7. ASSUME NEW r \in Requests, Arrive(r) \/ Interrupt(r) PROVE Bounded'
  BY <1>1, <1>7 DEF Arrive, Interrupt, Untouched, request
<1>8. ASSUME NEW r \in Requests, NEW a \in Agents, BeginAgent(r, a) \/ EndAgent(r, a) \/ CancelAgent(r, a)
      PROVE  Bounded'
  BY <1>1, <1>8 DEF BeginAgent, EndAgent, CancelAgent, Untouched, request
<1>9. CASE UNCHANGED vars
  BY <1>1, <1>9 DEF vars, request
<1> QED
  BY <1>2, <1>3, <1>4, <1>5, <1>6, <1>7, <1>8, <1>9 DEF Next

(* Types, bounds and spans together give the type invariant. *)
LEMMA TypesHold == SInv /\ Bounded => TypeOK
<1> SUFFICES ASSUME SInv, Bounded PROVE TypeOK
  OBVIOUS
<1>0. Typed /\ IInv
  BY DEF SInv, IInv
<1>1. now \in 0 .. MaxTime
  BY <1>0, EdgeAssumption DEF Typed, Bounded
<1>2. ASSUME NEW r \in Requests
      PROVE  /\ agent[r] \in [Agents -> {"none", "created", "awaiting", "ended", "leaked"}]
             /\ DOMAIN tracer[r].active \subseteq
                  {RequestSpan, WorkflowSpan} \cup {AgentSpan(a) : a \in Agents}
  <2>1. Standing(r, tracer[r], pc[r], kind[r], agent[r])
    BY DEF SInv, SpanInv, Spans
  <2>2. \A h \in DOMAIN tracer[r].active \ {RequestSpan, WorkflowSpan} : \E a \in Agents : h = AgentSpan(a)
    BY <2>1 DEF Standing
  <2> QED
    BY <1>0, <2>2 DEF Typed
<1>3. metrics.active \in 0 .. Cardinality(Requests)
  <2>1. IsFiniteSet(Requests) /\ InFlight \subseteq Requests /\ metrics.active = Cardinality(InFlight)
    BY <1>0, EdgeAssumption DEF IInv, GaugeCountsWorkflows, InFlight
  <2>2. IsFiniteSet(InFlight) /\ Cardinality(InFlight) <= Cardinality(Requests)
    BY <2>1, FS_Subset
  <2>3. Cardinality(InFlight) \in Nat /\ Cardinality(Requests) \in Nat
    BY <2>1, <2>2, FS_CardinalityType
  <2> QED
    BY <2>1, <2>2, <2>3
<1> QED
  BY <1>0, <1>1, <1>2, <1>3 DEF TypeOK, Typed, Bounded, Failures

(* Time, tokens, tracers and the gauge of the API stay within their types   *)
(* and bounds.                                                              *)
THEOREM AlwaysTypeOK == Spec => []TypeOK
<1>1. Init => SInv /\ Bounded
  <2>1. Init => Bounded
    BY EdgeAssumption DEF Init, Bounded
  <2> QED
    BY <2>1, SpansInit
<1>2. SInv /\ Bounded /\ [Next]_vars => (SInv /\ Bounded)'
  BY StepSpans, StepBounded
<1>3. SInv /\ Bounded => TypeOK
  BY TypesHold
<1> QED
  BY <1>1, <1>2, <1>3, PTL DEF Spec
=============================================================================
