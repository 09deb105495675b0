-------------------------- MODULE LlmClientsProofs --------------------------
(***************************************************************************)
(* Proofs about LlmClients for any set of agents and any number of attempts *)
(* and retries: the bound on the requests, and what an error says of its    *)
(* call.  Both need to know where a call stands while its request is out.   *)
(***************************************************************************)
EXTENDS LlmClients, SequenceTheorems, TLAPS

(* The types, without the bound on the requests, which is a product and     *)
(* follows from the rest.                                                   *)
Typed ==
  /\ client \in Factories
  /\ pc \in [Agents -> {"ready", "awaiting", "returned", "over"}]
  /\ tries \in [Agents -> 0 .. MaxAttempts]
  /\ attempt \in [Agents -> 0 .. MaxRetries]
  /\ results \in [Agents -> Seq(Results)]
  /\ requests \in [Agents -> Nat]
  /\ outcome \in [Agents -> {"none", "text", "error", "cancelled"} \cup LLMErrors]

(* While a request is out, every answer so far was a failure that may pass, *)
(* one for each retry, and the retries left are already within the budget.  *)
CallOpen(a) ==
  /\ Len(results[a]) = attempt[a]
  /\ \A i \in 1 .. Len(results[a]) : results[a][i] \in Passing
  /\ requests[a] + (Budget - attempt[a]) <= tries[a] * (Budget + 1)

CallInv(a) ==
  /\ attempt[a] <= Budget
  /\ Len(results[a]) <= Budget + 1
  /\ requests[a] <= tries[a] * (Budget + 1)
  /\ pc[a] = "ready" => tries[a] < MaxAttempts
  /\ pc[a] = "returned" => outcome[a] = "text"
  /\ pc[a] = "awaiting" => CallOpen(a)
  /\ (pc[a] = "over" /\ outcome[a] \in LLMErrors) => Explained(a)

IInv == Typed /\ \A a \in Agents : CallInv(a)

-----------------------------------------------------------------------------
(* One more call brings its own budget. *)
LEMMA OneMoreCall ==
  ASSUME NEW t \in Nat, NEW b \in Nat
  PROVE  (t + 1) * (b + 1) = t * (b + 1) + (b + 1)
OBVIOUS

(* A product of naturals grows with its factors. *)
LEMMA ProductGrows ==
  ASSUME NEW t \in Nat, NEW m \in Nat, NEW b \in Nat, NEW r \in Nat,
         t <= m, b <= r
  PROVE  t * (b + 1) <= m * (r + 1)
<1> DEFINE d == m - t
           e == r - b
<1>1. d \in Nat /\ e \in Nat /\ m = t + d /\ r = b + e
  OBVIOUS
<1> HIDE DEF d, e
<1>2. (t + d) * (b + 1) = t * (b + 1) + d * (b + 1)
  BY <1>1
<1>3. (t + d) * ((b + 1) + e) = (t + d) * (b + 1) + (t + d) * e
  BY <1>1
<1>4. d * (b + 1) \in Nat /\ (t + d) * e \in Nat /\ t * (b + 1) \in Nat
  BY <1>1
<1> QED
  BY <1>1, <1>2, <1>3, <1>4

(* The budget of a client is a number of retries. *)
LEMMA BudgetBound == Budget \in Nat /\ Budget <= MaxRetries
BY ClientAssumption DEF Budget

(* A failure that ends a call has the documented category, and the          *)
(* translation calls transient what may pass.                               *)
LEMMA TranslationRight ==
  ASSUME client \in Factories, NEW r \in Results
  PROVE  /\ Translate(r) \in {"text", "error"} \cup LLMErrors
         /\ Translate(r) \in LLMErrors => Translate(r) = Category[r]
         /\ r \in TransportErrors => (Translate(r) \in Transient <=> r \in Passing)
         /\ r = "text" <=> Translate(r) = "text"
         /\ r \in Passing => r \in TransportErrors
BY DEF Translate, ReadResponse, TranslateHttpError, TranslateSdkError, Category, Passing,
  Results, Responses, TransportErrors, ConnectionErrors, StatusErrors, LLMErrors, Transient,
  Factories

LEMMA InitIInv == Init => IInv
<1> SUFFICES ASSUME Init PROVE IInv
  OBVIOUS
<1>1. client \in Factories
  BY DEF Init, Configured, Resolve, Factories
<1>2. Typed
  BY <1>1, ClientAssumption DEF Init, Typed
<1>3. ASSUME NEW a \in Agents PROVE CallInv(a)
  <2>1. /\ pc[a] = "ready" /\ tries[a] = 0 /\ attempt[a] = 0
        /\ results[a] = <<>> /\ requests[a] = 0
    BY DEF Init
  <2>2. 0 * (Budget + 1) = 0
    BY BudgetBound
  <2> QED
    BY <2>1, <2>2, BudgetBound, ClientAssumption DEF CallInv
<1> QED
  BY <1>2, <1>3 DEF IInv

(* What a step of one agent leaves alone in the others. *)
LEMMA OthersKeep ==
  ASSUME NEW a, CallInv(a), UNCHANGED client,
         /\ pc'[a] = pc[a] /\ tries'[a] = tries[a] /\ attempt'[a] = attempt[a]
         /\ results'[a] = results[a] /\ requests'[a] = requests[a] /\ outcome'[a] = outcome[a]
  PROVE  CallInv(a)'
BY DEF CallInv, CallOpen, Explained, Budget

LEMMA GenerateKeeps ==
  ASSUME IInv, NEW a \in Agents, Generate(a)
  PROVE  IInv'
<1> USE DEF IInv, Typed
<1>1. Typed'
  <2>1. tries[a] \in Nat /\ tries[a] < MaxAttempts /\ pc[a] = "ready"
    BY ClientAssumption DEF Generate, CallInv
  <2>2. tries[a] + 1 \in 0 .. MaxAttempts /\ 0 \in 0 .. MaxRetries
    BY <2>1, ClientAssumption
  <2>3. tries' \in [Agents -> 0 .. MaxAttempts]
    BY <2>2 DEF Generate
  <2>4. attempt' \in [Agents -> 0 .. MaxRetries]
    BY <2>2 DEF Generate
  <2>5. results' \in [Agents -> Seq(Results)] /\ requests' \in [Agents -> Nat]
    BY DEF Generate
  <2> QED
    BY <2>3, <2>4, <2>5 DEF Generate
<1>2. CallInv(a)'
  <2>1. /\ pc'[a] = "awaiting" /\ tries'[a] = tries[a] + 1 /\ attempt'[a] = 0
        /\ results'[a] = <<>> /\ requests'[a] = requests[a] + 1 /\ Budget' = Budget
    BY DEF Generate, Budget
  <2>2. (tries[a] + 1) * (Budget + 1) = tries[a] * (Budget + 1) + (Budget + 1)
    <3>1. tries[a] \in Nat
      OBVIOUS
    <3> QED
      BY <3>1, OneMoreCall, BudgetBound
  <2>3. requests[a] <= tries[a] * (Budget + 1)
    BY DEF CallInv
  <2>4. tries[a] * (Budget + 1) \in Nat /\ requests[a] \in Nat
    BY BudgetBound
  <2>5. /\ requests[a] + 1 <= (tries[a] + 1) * (Budget + 1)
        /\ (requests[a] + 1) + (Budget - 0) <= (tries[a] + 1) * (Budget + 1)
    BY <2>2, <2>3, <2>4, BudgetBound
  <2> QED
    BY <2>1, <2>5, BudgetBound DEF CallInv, CallOpen
<1>3. ASSUME NEW b \in Agents, b # a PROVE CallInv(b)'
  BY <1>3, OthersKeep DEF Generate
<1> QED
  BY <1>1, <1>2, <1>3

(* Another turn of the Ollama client's loop. *)
LEMMA RetryKeeps ==
  ASSUME IInv, NEW a \in Agents, NEW r \in Results,
         pc[a] = "awaiting", client = "ollama", r \in TransportErrors, Retries(a, r),
         results' = [results EXCEPT ![a] = Append(@, r)],
         attempt' = [attempt EXCEPT ![a] = @ + 1],
         requests' = [requests EXCEPT ![a] = @ + 1],
         UNCHANGED <<pc, outcome, client, tries>>
  PROVE  IInv'
<1> USE DEF IInv, Typed
<1>0. r \in Passing /\ attempt[a] < MaxRetries /\ Budget = MaxRetries
  BY TranslationRight DEF Retries, Budget
<1>1. Typed'
  BY <1>0, ClientAssumption
<1>2. CallInv(a)'
  <2>1. /\ pc'[a] = "awaiting" /\ tries'[a] = tries[a] /\ attempt'[a] = attempt[a] + 1
        /\ results'[a] = Append(results[a], r) /\ requests'[a] = requests[a] + 1
        /\ Budget' = Budget
    BY DEF Budget
  <2>2. CallOpen(a) /\ results[a] \in Seq(Results) /\ attempt[a] \in Nat /\ requests[a] \in Nat
    BY DEF CallInv
  <2>3. /\ Len(results'[a]) = attempt[a] + 1
        /\ \A i \in 1 .. Len(results'[a]) : results'[a][i] \in Passing
    <3>1. Len(results[a]) = attempt[a] /\ \A i \in 1 .. attempt[a] : results[a][i] \in Passing
      BY <2>2 DEF CallOpen
    <3>2. /\ Len(results'[a]) = attempt[a] + 1 /\ results'[a][attempt[a] + 1] = r
          /\ \A i \in 1 .. attempt[a] : results'[a][i] = results[a][i]
      BY <2>1, <2>2, <3>1, AppendProperties
    <3>3. ASSUME NEW i \in 1 .. attempt[a] PROVE results'[a][i] \in Passing
      BY <3>1, <3>2
    <3> QED
      BY <2>2, <3>2, <3>3, <1>0 DEF Passing
  <2>4. tries[a] * (Budget + 1) \in Nat
    BY BudgetBound
  <2>5. requests[a] + (Budget - attempt[a]) <= tries[a] * (Budget + 1)
    BY <2>2 DEF CallOpen
  <2>6. /\ requests[a] + 1 <= tries[a] * (Budget + 1)
        /\ (requests[a] + 1) + (Budget - (attempt[a] + 1)) <= tries[a] * (Budget + 1)
    BY <2>2, <2>4, <2>5, <1>0, BudgetBound
  <2> QED
    BY <2>1, <2>2, <2>3, <2>6, <1>0, BudgetBound DEF CallInv, CallOpen
<1>3. ASSUME NEW b \in Agents, b # a PROVE CallInv(b)'
  BY <1>3, OthersKeep
<1> QED
  BY <1>1, <1>2, <1>3

(* The call ends, with retries to spare only if the failure will not pass. *)
LEMMA EndKeeps ==
  ASSUME IInv, NEW a \in Agents, NEW r \in Results,
         pc[a] = "awaiting", r \in Passing => attempt[a] = Budget,
         results' = [results EXCEPT ![a] = Append(@, r)], EndCall(a, r),
         UNCHANGED <<client, tries>>
  PROVE  IInv'
<1> USE DEF IInv, Typed
<1>1. Typed'
  <2>1. Translate(r) \in {"text", "error"} \cup LLMErrors
    BY TranslationRight
  <2> QED
    BY <2>1 DEF EndCall
<1>2. CallInv(a)'
  <2>1. /\ pc'[a] \in {"returned", "over"} /\ (pc'[a] = "returned" <=> r = "text")
        /\ tries'[a] = tries[a] /\ attempt'[a] = attempt[a] /\ requests'[a] = requests[a]
        /\ results'[a] = Append(results[a], r) /\ outcome'[a] = Translate(r)
        /\ Budget' = Budget
    BY DEF EndCall, Budget
  <2>2. CallOpen(a) /\ attempt[a] <= Budget /\ requests[a] <= tries[a] * (Budget + 1)
    BY DEF CallInv
  <2>3. /\ results[a] \in Seq(Results) /\ attempt[a] \in Nat
        /\ Len(results'[a]) = attempt[a] + 1 /\ results'[a][attempt[a] + 1] = r
        /\ \A i \in 1 .. attempt[a] : results'[a][i] \in Passing
    BY <2>1, <2>2 DEF CallOpen
  <2>4. pc'[a] = "returned" => outcome'[a] = "text"
    BY <2>1, TranslationRight
  <2>5. outcome'[a] \in LLMErrors => Explained(a)'
    <3>1. outcome'[a] \in LLMErrors => outcome'[a] = Category[r]
      BY <2>1, TranslationRight
    <3>2. r \in Passing => attempt[a] + 1 = Budget' + 1
      BY <2>1
    <3>3. (attempt[a] + 1) - 1 = attempt[a]
      BY <2>3
    <3> QED
      BY <3>1, <3>2, <3>3, <2>3 DEF Explained
  <2>6. Len(results'[a]) <= Budget + 1
    BY <2>2, <2>3, BudgetBound
  <2> QED
    BY <2>1, <2>2, <2>4, <2>5, <2>6 DEF CallInv
<1>3. ASSUME NEW b \in Agents, b # a PROVE CallInv(b)'
  BY <1>3, OthersKeep DEF EndCall
<1> QED
  BY <1>1, <1>2, <1>3

LEMMA RequestEndsKeeps ==
  ASSUME IInv, NEW a \in Agents, NEW r \in Results, RequestEnds(a, r)
  PROVE  IInv'
<1>1. CASE client = "ollama" /\ r \in TransportErrors /\ Retries(a, r)
  BY <1>1, RetryKeeps DEF RequestEnds, OllamaRequestEnds
<1>2. CASE client = "ollama" /\ ~(r \in TransportErrors /\ Retries(a, r))
  <2>1. attempt[a] \in Nat /\ attempt[a] <= MaxRetries /\ client \in Factories
    BY ClientAssumption DEF IInv, Typed
  <2>2. r \in Passing => attempt[a] = Budget
    BY <1>2, <2>1, ClientAssumption, TranslationRight DEF Retries, Budget
  <2> QED
    BY <1>2, <2>2, EndKeeps DEF RequestEnds, OllamaRequestEnds
<1>3. CASE client # "ollama"
  <2>1. attempt[a] = Budget
    BY <1>3, ClientAssumption DEF IInv, Typed, CallInv, Budget
  <2>2. EndCall(a, r)
    BY <1>3 DEF RequestEnds, AnthropicRequestEnds, OpenAIRequestEnds, IInv, Typed, Factories
  <2> QED
    BY <2>1, <2>2, EndKeeps DEF RequestEnds
<1> QED
  BY <1>1, <1>2, <1>3

LEMMA CancelKeeps ==
  ASSUME IInv, NEW a \in Agents, Cancel(a)
  PROVE  IInv'
<1> USE DEF IInv, Typed, counters
<1>1. Typed'
  BY DEF Cancel
<1>2. CallInv(a)'
  <2>1. /\ pc'[a] = "over" /\ outcome'[a] = "cancelled" /\ Budget' = Budget
        /\ tries' = tries /\ attempt' = attempt /\ results' = results /\ requests' = requests
    BY DEF Cancel, Budget
  <2>2. "cancelled" \notin LLMErrors
    BY DEF LLMErrors, Transient
  <2> QED
    BY <2>1, <2>2 DEF CallInv
<1>3. ASSUME NEW b \in Agents, b # a PROVE CallInv(b)'
  BY <1>3, OthersKeep DEF Cancel
<1> QED
  BY <1>1, <1>2, <1>3

LEMMA ValidateKeeps ==
  ASSUME IInv, NEW a \in Agents, Validate(a)
  PROVE  IInv'
<1> USE DEF IInv, Typed, counters
<1>1. Typed'
  BY DEF Validate
<1>2. CallInv(a)'
  <2>1. /\ pc'[a] \in {"over", "ready"} /\ (pc'[a] = "ready" => tries[a] < MaxAttempts)
        /\ outcome'[a] = "text" /\ Budget' = Budget
        /\ tries' = tries /\ attempt' = attempt /\ results' = results /\ requests' = requests
    BY DEF Validate, Budget, CallInv
  <2>2. "text" \notin LLMErrors
    BY DEF LLMErrors, Transient
  <2> QED
    BY <2>1, <2>2 DEF CallInv
<1>3. ASSUME NEW b \in Agents, b # a PROVE CallInv(b)'
  BY <1>3, OthersKeep DEF Validate
<1> QED
  BY <1>1, <1>2, <1>3

LEMMA NextKeeps == IInv /\ [Next]_vars => IInv'
<1> SUFFICES ASSUME IInv, [Next]_vars PROVE IInv'
  OBVIOUS
<1>1. ASSUME NEW a \in Agents, Generate(a) PROVE IInv'
  BY <1>1, GenerateKeeps
<1>2. ASSUME NEW a \in Agents, ServiceAnswers(a) PROVE IInv'
  BY <1>2, RequestEndsKeeps DEF ServiceAnswers
<1>3. ASSUME NEW a \in Agents, TimeOut(a) PROVE IInv'
  <2>1. "timeout" \in Results
    BY DEF Results, TransportErrors, ConnectionErrors
  <2> QED
    BY <1>3, <2>1, RequestEndsKeeps DEF TimeOut
<1>4. ASSUME NEW a \in Agents, Cancel(a) PROVE IInv'
  BY <1>4, CancelKeeps
<1>5. ASSUME NEW a \in Agents, Validate(a) PROVE IInv'
  BY <1>5, ValidateKeeps
<1>6. CASE UNCHANGED vars
  <2>1. ASSUME NEW a \in Agents PROVE CallInv(a)'
    BY <1>6, OthersKeep DEF IInv, vars, counters
  <2> QED
    BY <1>6, <2>1 DEF IInv, Typed, vars, counters
<1> QED
  BY <1>1, <1>2, <1>3, <1>4, <1>5, <1>6 DEF Next

LEMMA AlwaysIInv == Spec => []IInv
<1>1. Init => IInv
  BY InitIInv
<1>2. IInv /\ [Next]_vars => IInv'
  BY NextKeeps
<1> QED
  BY <1>1, <1>2, PTL DEF Spec

-----------------------------------------------------------------------------
(* Whatever the number of agents, attempts and retries, the clients' state  *)
(* has its type; in particular a run's requests stay below the product of   *)
(* the agent's attempts and the requests of one generate.                   *)
THEOREM ClientsTyped == Spec => []TypeOK
<1>1. IInv => TypeOK
  <2> SUFFICES ASSUME IInv PROVE TypeOK
    OBVIOUS
  <2>1. ASSUME NEW a \in Agents PROVE requests[a] \in 0 .. MaxAttempts * (MaxRetries + 1)
    <3>1. /\ tries[a] \in Nat /\ tries[a] <= MaxAttempts /\ requests[a] \in Nat
          /\ MaxAttempts \in Nat /\ MaxRetries \in Nat
      BY ClientAssumption DEF IInv, Typed
    <3>2. tries[a] * (Budget + 1) <= MaxAttempts * (MaxRetries + 1)
      BY <3>1, BudgetBound, ProductGrows
    <3>3. requests[a] <= tries[a] * (Budget + 1)
      BY DEF IInv, CallInv
    <3>4. tries[a] * (Budget + 1) \in Nat /\ MaxAttempts * (MaxRetries + 1) \in Nat
      BY <3>1, BudgetBound
    <3> QED
      BY <3>1, <3>2, <3>3, <3>4
  <2>2. requests \in [Agents -> 0 .. MaxAttempts * (MaxRetries + 1)]
    BY <2>1 DEF IInv, Typed
  <2>3. ASSUME NEW a \in Agents
        PROVE  results[a] \in Seq(Results) /\ Len(results[a]) <= MaxRetries + 1
    BY BudgetBound, ClientAssumption DEF IInv, Typed, CallInv
  <2> QED
    BY <2>2, <2>3 DEF IInv, Typed, TypeOK
<1> QED
  BY <1>1, AlwaysIInv, PTL

(* The Ollama client's retries and the agent's corrections multiply and do  *)
(* no more; the clients of the hosted services add no request.              *)
THEOREM BudgetKept == Spec => []RequestBudget
<1>1. IInv => RequestBudget
  <2> SUFFICES ASSUME IInv PROVE RequestBudget
    OBVIOUS
  <2>1. ASSUME NEW a \in Agents
        PROVE  Len(results[a]) <= Budget + 1 /\ requests[a] <= tries[a] * (Budget + 1)
    BY Zenon DEF IInv, CallInv
  <2>2. ASSUME NEW a \in Agents PROVE tries[a] <= MaxAttempts
    BY ClientAssumption DEF IInv, Typed
  <2> QED
    BY <2>1, <2>2, Zenon DEF RequestBudget
<1> QED
  BY <1>1, AlwaysIInv, PTL

(* The error a call ends with is that of its last request, in the category  *)
(* documented, and a failure that may pass is reported only after the       *)
(* client's retries: attempt and last error are the call's own.             *)
THEOREM ErrorsExplained == Spec => []FailureExplained
<1>1. IInv => FailureExplained
  BY DEF IInv, CallInv, FailureExplained
<1> QED
  BY <1>1, AlwaysIInv, PTL

-----------------------------------------------------------------------------
(* The provider's view of an agent's latest call *)
StatusOf(a) ==
  IF pc[a] = "awaiting" THEN "open"
  ELSE CASE outcome[a] = "none" -> "idle"
         [] outcome[a] \in LLMErrors -> "llm_error"
         [] OTHER -> outcome[a]

Status == [a \in Agents |-> IF pc[a] = "awaiting" THEN "open"
                            ELSE CASE outcome[a] = "none" -> "idle"
                                   [] outcome[a] \in LLMErrors -> "llm_error"
                                   [] OTHER -> outcome[a]]

(* A generate is asked for first, or on top of a text. *)
AskedOnText == \A a \in Agents : pc[a] = "ready" => outcome[a] \in {"none", "text"}

LEMMA InitAsked == Init => AskedOnText
BY DEF Init, AskedOnText

LEMMA NextAsked == IInv /\ AskedOnText /\ [Next]_vars => AskedOnText'
<1> SUFFICES ASSUME IInv, AskedOnText, [Next]_vars, NEW a \in Agents, pc'[a] = "ready"
             PROVE  outcome'[a] \in {"none", "text"}
  BY DEF AskedOnText
<1>0. Typed /\ CallInv(a)
  BY DEF IInv
<1> USE DEF Typed, counters
<1>1. ASSUME NEW b \in Agents, Generate(b) \/ Cancel(b) PROVE outcome'[a] \in {"none", "text"}
  BY <1>0, <1>1 DEF Generate, Cancel, AskedOnText
<1>2. ASSUME NEW b \in Agents, NEW r \in Results, RequestEnds(b, r)
      PROVE  outcome'[a] \in {"none", "text"}
  <2>1. CASE EndCall(b, r)
    BY <1>0, <2>1 DEF EndCall, AskedOnText
  <2>2. CASE UNCHANGED <<pc, outcome>>
    BY <2>2 DEF AskedOnText
  <2> QED
    BY <1>0, <1>2, <2>1, <2>2 DEF RequestEnds, OllamaRequestEnds, AnthropicRequestEnds,
      OpenAIRequestEnds, Factories
<1>3. ASSUME NEW b \in Agents, Validate(b) PROVE outcome'[a] \in {"none", "text"}
  BY <1>0, <1>3 DEF Validate, CallInv, AskedOnText
<1>4. CASE UNCHANGED vars
  BY <1>4 DEF vars, AskedOnText
<1>5. "timeout" \in Results
  BY DEF Results, TransportErrors, ConnectionErrors
<1> QED
  BY <1>1, <1>2, <1>3, <1>4, <1>5 DEF Next, ServiceAnswers, TimeOut

LEMMA AlwaysAsked == Spec => [](IInv /\ AskedOnText)
  BY InitIInv, NextKeeps, InitAsked, NextAsked, PTL DEF Spec

LEMMA StatusAt ==
  /\ \A b \in Agents : Status[b] = StatusOf(b) /\ Status'[b] = StatusOf(b)'
  /\ Status = [b \in Agents |-> Status[b]] /\ Status' = [b \in Agents |-> Status'[b]]
BY DEF Status, StatusOf

LEMMA AskView ==
  ASSUME NEW a \in Agents, Status[a] \in {"idle", "text"}, tries[a] < MaxAttempts,
         Status' = [Status EXCEPT ![a] = "open"], tries' = [tries EXCEPT ![a] = @ + 1]
  PROVE  Provider!Ask(a)
BY DEF Provider!Ask, Status

LEMMA EndView ==
  ASSUME NEW a \in Agents, Status[a] = "open", NEW e \in {"text", "llm_error", "error", "cancelled"},
         Status' = [Status EXCEPT ![a] = e], UNCHANGED tries
  PROVE  Provider!End(a)
BY DEF Provider!End, Provider!Endings, Status

LEMMA StutterView ==
  ASSUME Status' = Status, UNCHANGED tries
  PROVE  UNCHANGED Provider!vars
BY DEF Provider!vars, Status

(* A call that ends, by its result or by its cancellation *)
LEMMA EndImplements ==
  ASSUME IInv, NEW a \in Agents, NEW o \in {"text", "error", "cancelled"} \cup LLMErrors,
         pc[a] = "awaiting", outcome' = [outcome EXCEPT ![a] = o], UNCHANGED tries,
         NEW p \in {"returned", "over"}, pc' = [pc EXCEPT ![a] = p]
  PROVE  Provider!End(a)
<1> DEFINE e == IF o \in LLMErrors THEN "llm_error" ELSE o
<1>0. Typed
  BY DEF IInv
<1>1. Status[a] = "open"
  BY StatusAt DEF StatusOf
<1>2. StatusOf(a)' = e
  BY <1>0 DEF StatusOf, Typed
<1>3. \A b \in Agents \ {a} : StatusOf(b)' = StatusOf(b)
  BY <1>0 DEF StatusOf, Typed
<1>4. Status' = [Status EXCEPT ![a] = e]
  <2> HIDE DEF e
  <2> QED
    BY <1>2, <1>3, StatusAt
<1>5. e \in {"text", "llm_error", "error", "cancelled"}
  OBVIOUS
<1> HIDE DEF e
<1> QED
  BY <1>1, <1>4, <1>5, EndView

LEMMA NextProvider ==
  IInv /\ AskedOnText /\ [Next]_vars => [Provider!Next]_(Provider!vars)
<1> SUFFICES ASSUME IInv, AskedOnText, [Next]_vars
             PROVE  Provider!Next \/ UNCHANGED Provider!vars
  OBVIOUS
<1>0. Typed
  BY DEF IInv
<1>1. ASSUME NEW a \in Agents, Generate(a) PROVE Provider!Next
  <2>1. /\ pc[a] = "ready" /\ pc' = [pc EXCEPT ![a] = "awaiting"] /\ UNCHANGED outcome
        /\ tries' = [tries EXCEPT ![a] = @ + 1]
    BY <1>1 DEF Generate
  <2>2. tries[a] < MaxAttempts
    BY <2>1 DEF IInv, CallInv
  <2>3. Status[a] \in {"idle", "text"}
    <3>1. outcome[a] \in {"none", "text"} /\ outcome[a] \notin LLMErrors
      BY <2>1 DEF AskedOnText, LLMErrors, Transient
    <3>2. StatusOf(a) \in {"idle", "text"}
      BY <2>1, <3>1 DEF StatusOf
    <3> QED
      BY <3>2, StatusAt
  <2>4. Status' = [Status EXCEPT ![a] = "open"]
    <3>1. StatusOf(a)' = "open" /\ \A b \in Agents \ {a} : StatusOf(b)' = StatusOf(b)
      BY <1>0, <2>1 DEF StatusOf, Typed
    <3> QED
      BY <3>1, StatusAt
  <2> QED
    BY <2>1, <2>2, <2>3, <2>4, AskView DEF Provider!Next
<1>2. ASSUME NEW a \in Agents, NEW r \in Results, RequestEnds(a, r)
      PROVE  Provider!Next \/ UNCHANGED Provider!vars
  <2>1. pc[a] = "awaiting" /\ UNCHANGED tries
    BY <1>2 DEF RequestEnds
  <2>2. CASE EndCall(a, r)
    <3>1. Translate(r) \in {"text", "error", "cancelled"} \cup LLMErrors
      BY <1>0, TranslationRight DEF Typed
    <3>2. /\ outcome' = [outcome EXCEPT ![a] = Translate(r)]
          /\ \E p \in {"returned", "over"} : pc' = [pc EXCEPT ![a] = p]
      BY <2>2 DEF EndCall
    <3> QED
      BY <2>1, <3>1, <3>2, EndImplements DEF Provider!Next
  <2>3. CASE UNCHANGED <<pc, outcome>>
    <3>1. Status' = Status
      BY <2>3 DEF Status
    <3> QED
      BY <2>1, <3>1, StutterView
  <2> QED
    BY <1>0, <1>2, <2>2, <2>3 DEF RequestEnds, OllamaRequestEnds, AnthropicRequestEnds,
      OpenAIRequestEnds, Factories, Typed
<1>3. ASSUME NEW a \in Agents, Cancel(a) PROVE Provider!Next
  BY <1>3, EndImplements DEF Cancel, counters, Provider!Next
<1>4. ASSUME NEW a \in Agents, Validate(a) PROVE UNCHANGED Provider!vars
  <2>1. UNCHANGED <<outcome, tries>> /\ \E p \in {"over", "ready"} : pc' = [pc EXCEPT ![a] = p]
    BY <1>4 DEF Validate, counters
  <2>2. pc[a] = "returned"
    BY <1>4 DEF Validate
  <2>3. \A b \in Agents : StatusOf(b)' = StatusOf(b)
    BY <1>0, <2>1, <2>2 DEF StatusOf, Typed
  <2>4. Status' = Status
    BY <2>3, StatusAt
  <2> QED
    BY <2>1, <2>4, StutterView
<1>5. CASE UNCHANGED vars
  <2>1. Status' = Status /\ UNCHANGED tries
    BY <1>5 DEF vars, counters, Status
  <2> QED
    BY <2>1, StutterView
<1>6. "timeout" \in Results
  BY DEF Results, TransportErrors, ConnectionErrors
<1> QED
  BY <1>1, <1>2, <1>3, <1>4, <1>5, <1>6 DEF Next, ServiceAnswers, TimeOut

(* The clients are the provider an agent relies on, as far as a step can    *)
(* tell: no run asks again but on top of a text, or more often than it may, *)
(* and each call ends once, in one of the ways AgentRun knows.              *)
THEOREM ProviderKept == Spec => Provider!Init /\ [][Provider!Next]_(Provider!vars)
<1>1. Init => Provider!Init
  <2> SUFFICES ASSUME Init PROVE Provider!Init
    OBVIOUS
  <2>1. "none" \notin LLMErrors
    BY DEF LLMErrors, Transient
  <2>2. \A a \in Agents : pc[a] = "ready" /\ outcome[a] = "none"
    BY DEF Init
  <2>3. \A a \in Agents : StatusOf(a) = "idle"
    BY <2>1, <2>2 DEF StatusOf
  <2>4. Status = [a \in Agents |-> "idle"]
    BY <2>3, StatusAt
  <2> QED
    BY <2>4 DEF Init, Provider!Init, Status
<1> QED
  BY <1>1, NextProvider, AlwaysAsked, PTL DEF Spec
=============================================================================
