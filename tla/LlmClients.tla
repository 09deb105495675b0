----------------------------- MODULE LlmClients -----------------------------
(***************************************************************************)
(* The provider clients behind LLMRouter, shared by the agents of one       *)
(* workflow.  The router picks one client when it is built; the agents'     *)
(* tasks then call generate concurrently.  The clients of the hosted        *)
(* services make one SDK request per call; the Ollama client has a retry    *)
(* loop of its own, inside the correction loop of the agent.  A request is  *)
(* answered by the service, or ends in a timeout where there is one.        *)
(***************************************************************************)
EXTENDS Naturals, Sequences

CONSTANTS
  Agents,         \* agents that share the client
  MaxAttempts,    \* MAX_VALIDATION_ATTEMPTS of the agents
  MaxRetries,     \* max_retries of the Ollama client
  OllamaTimeout   \* whether it is built with timeout_seconds

ASSUME ClientAssumption ==
  /\ MaxAttempts \in Nat \ {0}
  /\ MaxRetries \in Nat
  /\ OllamaTimeout \in BOOLEAN

VARIABLES
  client,     \* the client the router has constructed
  pc,         \* where each agent's task stands
  tries,      \* generate calls of each agent's run
  attempt,    \* retries made within the present call, a local of generate
  results,    \* how the requests of the present call ended
  requests,   \* requests of the whole run
  outcome     \* what the latest call ended with

counters == <<tries, attempt, results, requests>>
vars == <<client, pc, outcome, counters>>

(* Next to some definitions stands a mutated form of it, named for the slip *)
(* it makes; the specification never uses those.                            *)

-----------------------------------------------------------------------------
(* LLMRouter.__init__: the configured name, in any case, with "claude" as   *)
(* an alias; an unregistered name is a ConfigurationError and no router.    *)
(* The fake provider is registered by tests only.                           *)
Factories == {"anthropic", "openai", "grok", "ollama"}
Configured == Factories \cup {"claude"}
Resolve(name) == IF name = "claude" THEN "anthropic" ELSE name

(* Which of the errors an SDK or httpx raises is which: a timeout is also a *)
(* connection error of the SDKs, and a rate limit a status error.           *)
ConnectionErrors == {"timeout", "connection"}
StatusErrors == {"rate_limited", "server_error", "refused"}
TransportErrors == ConnectionErrors \cup StatusErrors

(* _translate_http_error of the Ollama client *)
TranslateHttpError(error) ==
  IF error = "timeout" THEN "LLMTimeoutError"
  ELSE IF error \in StatusErrors
    THEN IF error = "rate_limited" THEN "LLMRateLimitError"
         ELSE IF error = "server_error" THEN "LLMUnavailableError"
         ELSE "LLMError"
  ELSE "LLMUnavailableError"

(* _translate_sdk_error of the Anthropic and of the OpenAI client: the      *)
(* order of the isinstance tests decides.                                   *)
TranslateSdkError(error) ==
  IF error = "timeout" THEN "LLMTimeoutError"
  ELSE IF error = "rate_limited" THEN "LLMRateLimitError"
  ELSE IF error \in ConnectionErrors THEN "LLMUnavailableError"
  ELSE IF error = "server_error" THEN "LLMUnavailableError"
  ELSE "LLMError"

(* What generate makes of a complete response: without text it is an        *)
(* LLMUnavailableError; text that is only blanks passes the clients' test   *)
(* and is refused by GenerationResult, whose ValidationError is no LLM      *)
(* error; so is whatever is neither httpx.HTTPError nor APIError.           *)
Responses == {"text", "no_text", "blank", "unexpected"}
ReadResponse(response) ==
  CASE response = "text" -> "text"
    [] response = "no_text" -> "LLMUnavailableError"
    [] response \in {"blank", "unexpected"} -> "error"

Results == TransportErrors \cup Responses
Transient == {"LLMTimeoutError", "LLMRateLimitError", "LLMUnavailableError"}
LLMErrors == Transient \cup {"LLMError"}

Translate(result) ==
  IF result \in Responses THEN ReadResponse(result)
  ELSE IF client = "ollama" THEN TranslateHttpError(result)
  ELSE TranslateSdkError(result)

(* __init__: the SDK clients time out by default and are built without      *)
(* retries; httpx takes no timeout_seconds as no timeout.                   *)
TimesOut == client = "ollama" => OllamaTimeout

Init ==
  /\ \E name \in Configured : client = Resolve(name)
  /\ pc = [a \in Agents |-> "ready"]
  /\ tries = [a \in Agents |-> 0]
  /\ attempt = [a \in Agents |-> 0]
  /\ results = [a \in Agents |-> <<>>]
  /\ requests = [a \in Agents |-> 0]
  /\ outcome = [a \in Agents |-> "none"]
-----------------------------------------------------------------------------
(* The agent awaits the router's generate, which awaits the client's: the   *)
(* first request of a call is on its way.                                   *)
Generate(a) ==
  /\ pc[a] = "ready"
  /\ pc' = [pc EXCEPT ![a] = "awaiting"]
  /\ tries' = [tries EXCEPT ![a] = @ + 1]
  /\ attempt' = [attempt EXCEPT ![a] = 0]
  /\ results' = [results EXCEPT ![a] = <<>>]
  /\ requests' = [requests EXCEPT ![a] = @ + 1]
  /\ UNCHANGED <<client, outcome>>

(* The call ends: generate returns or raises. *)
EndCall(a, result) ==
  /\ outcome' = [outcome EXCEPT ![a] = Translate(result)]
  /\ pc' = [pc EXCEPT ![a] = IF result = "text" THEN "returned" ELSE "over"]
  /\ UNCHANGED <<attempt, requests>>

(* OllamaClient.generate: another turn of the loop for a transport error    *)
(* that may pass, while there are retries left.                             *)
RetriesShared(a, error) ==
  /\ Translate(error) \in Transient
  /\ \A b \in Agents : attempt[b] < MaxRetries
RetriesOffByOne(a, error) ==
  /\ Translate(error) \in Transient
  /\ attempt[a] <= MaxRetries
Retries(a, error) ==
  /\ Translate(error) \in Transient
  /\ attempt[a] < MaxRetries

OllamaRequestEnds(a, result) ==
  IF result \in TransportErrors /\ Retries(a, result)
    THEN /\ attempt' = [attempt EXCEPT ![a] = @ + 1]
         /\ requests' = [requests EXCEPT ![a] = @ + 1]
         /\ UNCHANGED <<pc, outcome>>
    ELSE EndCall(a, result)

(* The generate of the SDK clients: one request, whatever comes of it. *)
AnthropicRequestEnds(a, result) == EndCall(a, result)
OpenAIRequestEnds(a, result) == EndCall(a, result)

RequestEnds(a, result) ==
  /\ pc[a] = "awaiting"
  /\ results' = [results EXCEPT ![a] = Append(@, result)]
  /\ CASE client = "ollama" -> OllamaRequestEnds(a, result)
       [] client = "anthropic" -> AnthropicRequestEnds(a, result)
       [] client \in {"openai", "grok"} -> OpenAIRequestEnds(a, result)
  /\ UNCHANGED <<client, tries>>

(* The service answers, or the transport fails by itself. *)
ServiceAnswers(a) == \E result \in Results \ {"timeout"} : RequestEnds(a, result)

(* The request has taken too long. *)
TimeOut(a) == TimesOut /\ RequestEnds(a, "timeout")

(* The task is cancelled in its await; nothing in generate catches that. *)
Cancel(a) ==
  /\ pc[a] = "awaiting"
  /\ pc' = [pc EXCEPT ![a] = "over"]
  /\ outcome' = [outcome EXCEPT ![a] = "cancelled"]
  /\ UNCHANGED <<client, counters>>

(* The agent validates a text: it is accepted, or rejected for good, or a   *)
(* correction is sent while there are attempts left.                        *)
ValidateAnyAnswer(a) ==
  /\ pc[a] = "returned" \/ outcome[a] = "LLMUnavailableError"
  /\ \/ pc' = [pc EXCEPT ![a] = "over"]
     \/ /\ tries[a] < MaxAttempts
        /\ pc' = [pc EXCEPT ![a] = "ready"]
  /\ UNCHANGED <<client, outcome, counters>>

Validate(a) ==
  /\ pc[a] = "returned"
  /\ \/ pc' = [pc EXCEPT ![a] = "over"]
     \/ /\ tries[a] < MaxAttempts
        /\ pc' = [pc EXCEPT ![a] = "ready"]
  /\ UNCHANGED <<client, outcome, counters>>

Next == \E a \in Agents :
  Generate(a) \/ ServiceAnswers(a) \/ TimeOut(a) \/ Cancel(a) \/ Validate(a)

(* The event loop runs what can run and the timers expire; the service owes *)
(* nothing, and nobody has to cancel.                                       *)
Spec ==
  /\ Init /\ [][Next]_vars
  /\ \A a \in Agents : WF_vars(Generate(a)) /\ WF_vars(TimeOut(a)) /\ WF_vars(Validate(a))
-----------------------------------------------------------------------------
(* Properties *)

Budget == IF client = "ollama" THEN MaxRetries ELSE 0

TypeOK ==
  /\ client \in Factories
  /\ pc \in [Agents -> {"ready", "awaiting", "returned", "over"}]
  /\ tries \in [Agents -> 0 .. MaxAttempts]
  /\ attempt \in [Agents -> 0 .. MaxRetries]
  /\ \A a \in Agents : results[a] \in Seq(Results) /\ Len(results[a]) <= MaxRetries + 1
  /\ requests \in [Agents -> 0 .. MaxAttempts * (MaxRetries + 1)]
  /\ outcome \in [Agents -> {"none", "text", "error", "cancelled"} \cup LLMErrors]

Category == [timeout |-> "LLMTimeoutError", rate_limited |-> "LLMRateLimitError",
             connection |-> "LLMUnavailableError", server_error |-> "LLMUnavailableError",
             refused |-> "LLMError", no_text |-> "LLMUnavailableError"]
Passing == {"timeout", "rate_limited", "connection", "server_error"}

Explained(a) ==
  LET n == Len(results[a])
      last == results[a][n]
  IN /\ outcome[a] = Category[last]
     /\ \A i \in 1 .. n - 1 : results[a][i] \in Passing
     /\ last \in Passing => n = Budget + 1

(* An error tells the truth about its call, whatever the siblings' calls on *)
(* the same client do: it is that of the last request, in the category the  *)
(* documentation promises; every earlier request met a failure that may     *)
(* pass; and a transport failure that may pass is only reported when the    *)
(* call's own retries are used up.                                          *)
FailureExplained ==
  \A a \in Agents : (pc[a] = "over" /\ outcome[a] \in LLMErrors) => Explained(a)

(* The two loops multiply and do no more: one call makes at most one        *)
(* request and the client's retries, and a run makes as many calls as the   *)
(* correction loop allows.                                                  *)
RequestBudget ==
  \A a \in Agents :
    /\ Len(results[a]) <= Budget + 1
    /\ requests[a] <= tries[a] * (Budget + 1)
    /\ tries[a] <= MaxAttempts

(* The clients are the provider AgentRun assumes: every call ends, a failed *)
(* one is the run's last, and corrections are asked for on top of a text.   *)
Provider == INSTANCE LlmProvider WITH
  status <- [a \in Agents |-> IF pc[a] = "awaiting" THEN "open"
                              ELSE CASE outcome[a] = "none" -> "idle"
                                     [] outcome[a] \in LLMErrors -> "llm_error"
                                     [] OTHER -> outcome[a]],
  calls <- tries,
  MaxCalls <- MaxAttempts

ImplementsProvider == Provider!Spec

-----------------------------------------------------------------------------
(* What the repository says of the clients and one of them does not do *)

(* llm_router.py: implementations must "surface timeouts through their      *)
(* provider-neutral exception contract": a request to a service that never  *)
(* answers does not stay open.                                              *)
TimeoutsSurface == \A a \in Agents : pc[a] = "awaiting" ~> pc[a] # "awaiting"
=============================================================================
