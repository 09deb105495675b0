------------------------ MODULE WorkflowStreamProofs ------------------------
(***************************************************************************)
(* Proofs about WorkflowStream for any number of native events and of       *)
(* heartbeats: the frame of the stream tells the truth about the graph, the *)
(* node events between are the graph's, and a closed generator leaves no    *)
(* task and no iterator at work.                                            *)
(***************************************************************************)
EXTENDS WorkflowStream, SequenceTheorems, InductionLemmas, TLAPS

(* The generator can still yield what is not a terminal event. *)
Streaming == {"opened", "node", "beat", "tail"} \cup Awaiting

(* The pending task and the iterator it drives *)
TaskInv ==
  /\ at \in {"new", "opened"} => pending = "none" /\ graph = "unopened"
  /\ at # "closed" /\ pending \in {"running", "event"} => graph = "running"
  /\ pending = "event" => native # <<>>
  /\ pending = "end" => graph = "done"
  /\ pending = "error" => graph = "raised"
  /\ at \in {"close", "closed"} => pending # "running"
  /\ at = "closed" => graph # "running"

(* What was yielded so far.  A graph that has come to its end stays there,  *)
(* so a terminal event stays true.                                          *)
SentInv ==
  /\ at = "new" => sent = <<>>
  /\ at \notin {"new", "closed"} => sent # <<>>
  /\ at \in Streaming => \A i \in DOMAIN sent : sent[i] \notin Terminals
  /\ Terminated => pending # "running"

IInv == TypeOK /\ TaskInv /\ SentInv /\ Framing

-----------------------------------------------------------------------------
LEMMA InitHolds == Init => IInv
<1> SUFFICES ASSUME Init PROVE IInv
  OBVIOUS
<1>1. TypeOK
  <2>1. <<>> \in Seq(Kinds) /\ <<>> \in Seq(WireEvents) /\ Len(<<>>) = 0
    OBVIOUS
  <2>2. native \in Seq(Kinds) /\ Len(native) <= MaxNative /\ sent \in Seq(WireEvents)
    BY <2>1, NativeAssumption DEF Init
  <2>3. due \in BOOLEAN /\ beats = 0
    BY Zenon DEF Init
  <2>4. beats \in 0 .. MaxBeats
    BY <2>3, BeatsAssumption
  <2>5. /\ at = "new" /\ pending = "none" /\ graph = "unopened" /\ client = "reading"
    BY Zenon DEF Init
  <2> QED
    BY <2>2, <2>3, <2>4, <2>5 DEF TypeOK, Awaiting, Yielding
<1>2. TaskInv /\ SentInv /\ Framing
  BY DEF Init, TaskInv, SentInv, Framing, Streaming, Awaiting, Terminated
<1> QED
  BY <1>1, <1>2 DEF IInv

(* An event other than workflow_started at the end of a stream that has     *)
(* begun and is not terminated keeps the frame.                             *)
LEMMA EmitKeepsFrame ==
  ASSUME IInv, sent # <<>>, \A i \in DOMAIN sent : sent[i] \notin Terminals,
         NEW e \in WireEvents \ {"workflow_started"}, Emit(e), UNCHANGED graph,
         e = "workflow_completed" => graph = "done",
         e = "workflow_failed" => graph = "raised"
  PROVE  /\ Framing' /\ sent' \in Seq(WireEvents) /\ sent' # <<>>
         /\ e \notin Terminals => \A i \in DOMAIN sent' : sent'[i] \notin Terminals
<1>1. sent \in Seq(WireEvents) /\ Framing /\ sent' = Append(sent, e)
  BY DEF IInv, TypeOK, Emit
<1>2. /\ sent' \in Seq(WireEvents) /\ Len(sent') = Len(sent) + 1
      /\ sent'[Len(sent) + 1] = e
      /\ \A i \in 1 .. Len(sent) : sent'[i] = sent[i]
  BY <1>1, AppendProperties
<1>3. Len(sent) >= 1 /\ Len(sent) \in Nat
  BY <1>1, EmptySeq
<1>4. DOMAIN sent = 1 .. Len(sent) /\ DOMAIN sent' = 1 .. Len(sent) + 1
  BY <1>1, <1>2
<1>5. ASSUME NEW i \in DOMAIN sent'
      PROVE  /\ sent'[i] = "workflow_started" <=> i = 1
             /\ sent'[i] \in Terminals => i = Len(sent')
             /\ sent'[i] = "workflow_completed" => graph' = "done"
             /\ sent'[i] = "workflow_failed" => graph' = "raised"
  <2>1. CASE i = Len(sent) + 1
    BY <1>2, <1>3, <2>1
  <2>2. CASE i \in 1 .. Len(sent)
    BY <1>1, <1>2, <1>4, <2>2 DEF Framing, Terminals
  <2> QED
    BY <1>3, <1>4, <2>1, <2>2
<1> QED
  BY <1>2, <1>3, <1>4, <1>5 DEF Framing

LEMMA NextKeeps == IInv /\ [Next]_vars => IInv'
<1> SUFFICES ASSUME IInv, [Next]_vars PROVE IInv'
  OBVIOUS
<1>0. TypeOK /\ TaskInv /\ SentInv /\ Framing
  BY DEF IInv
<1> USE DEF source, clock
<1>1. CASE Begin
  <2>1. sent' = <<"workflow_started">>
    BY <1>0, <1>1 DEF Begin, SentInv, Emit
  <2>2. TypeOK'
    BY <1>0, <1>1, <2>1 DEF Begin, TypeOK, WireEvents, Awaiting, Yielding
  <2>3. TaskInv'
    BY <1>0, <1>1 DEF Begin, TaskInv
  <2>4. SentInv' /\ Framing'
    BY <1>0, <1>1, <2>1 DEF Begin, SentInv, TaskInv, Framing, Terminals, Terminated, Streaming
  <2> QED
    BY <2>2, <2>3, <2>4 DEF IInv
<1>2. CASE OpenGraph
  <2>1. TypeOK'
    BY <1>0, <1>2 DEF OpenGraph, TypeOK, Awaiting, Yielding
  <2>2. TaskInv'
    BY <1>0, <1>2 DEF OpenGraph, TaskInv
  <2>3. SentInv'
    BY <1>0, <1>2 DEF OpenGraph, SentInv, Terminated, Streaming, Awaiting
  <2>4. Framing'
    BY <1>0, <1>2 DEF OpenGraph, SentInv, Streaming, Framing, Terminals
  <2> QED
    BY <2>1, <2>2, <2>3, <2>4 DEF IInv
<1>3. ASSUME UNCHANGED <<pending, source, sent>>, client' \in {"reading", "stalled", "gone"},
             due' \in BOOLEAN, beats' \in 0 .. MaxBeats,
             at' \in {"tail", "poll", "wait", "unwind", at, "closed"},
             at' \in {"tail", "poll", "wait"} => at \in {"node", "beat", "poll", "wait", "tail"},
             at' = "unwind" => at \in Yielding \cup Awaiting \cup {"unwind"},
             at' = "closed" => at \in {"new", "opened", "closed"}
      PROVE  IInv'
  <2>1. TypeOK'
    BY <1>0, <1>3 DEF TypeOK, Awaiting, Yielding
  <2>2. TaskInv'
    BY <1>0, <1>3 DEF TaskInv, Awaiting, Yielding
  <2>3. SentInv'
    BY <1>0, <1>3 DEF SentInv, Terminated, Streaming, Awaiting, Yielding
  <2>4. Framing'
    BY <1>0, <1>3 DEF Framing
  <2> QED
    BY <2>1, <2>2, <2>3, <2>4 DEF IInv
<1>4. CASE Resume
  BY <1>0, <1>3, <1>4 DEF Resume, TypeOK, Yielding
<1>5. CASE Poll \/ TimeOut
  BY <1>0, <1>3, <1>5 DEF Poll, TimeOut, TypeOK, Awaiting
<1>6. CASE TakeEvent
  <2>1. /\ at = "wait" /\ pending = "event" /\ pending' = "running" /\ graph = "running"
        /\ UNCHANGED <<graph, native, due, beats, client>>
    BY <1>0, <1>6 DEF TakeEvent, TaskInv
  <2>2. sent # <<>> /\ \A i \in DOMAIN sent : sent[i] \notin Terminals
    BY <1>0, <2>1 DEF SentInv, Streaming, Awaiting
  <2>3. /\ at' \in {"node", "tail"} /\ Framing' /\ sent' \in Seq(WireEvents) /\ sent' # <<>>
        /\ \A i \in DOMAIN sent' : sent'[i] \notin Terminals
    <3>1. CASE at' = "tail" /\ UNCHANGED sent
      BY <1>0, <2>1, <2>2, <3>1 DEF Framing, TypeOK
    <3>2. CASE at' = "node" /\ \E e \in NodeEvents : Emit(e)
      <4>1. PICK e \in NodeEvents : Emit(e)
        BY <3>2
      <4>2. e \in WireEvents \ {"workflow_started"} /\ e \notin Terminals
        BY DEF NodeEvents, WireEvents, Terminals
      <4> QED
        BY <2>1, <2>2, <3>2, <4>1, <4>2, EmitKeepsFrame DEF Terminals
    <3> QED
      BY <1>6, <3>1, <3>2 DEF TakeEvent
  <2>4. TypeOK'
    BY <1>0, <2>1, <2>3 DEF TypeOK, Awaiting, Yielding
  <2>5. TaskInv'
    BY <2>1, <2>3 DEF TaskInv
  <2>6. SentInv'
    BY <2>3 DEF SentInv, Terminated
  <2> QED
    BY <2>3, <2>4, <2>5, <2>6 DEF IInv
<1>7. CASE TakeEnd \/ TakeError
  <2>1. PICK e \in Terminals : Emit(e) /\ (e = "workflow_completed" => graph = "done")
                                      /\ (e = "workflow_failed" => graph = "raised")
    BY <1>0, <1>7 DEF TakeEnd, TakeError, TaskInv, Terminals
  <2>2. /\ at = "wait" /\ at' = "ending" /\ pending' \in {"none", pending} /\ pending' # "running"
        /\ pending' \in {"none", "error"} /\ UNCHANGED <<graph, native, due, beats, client>>
    BY <1>7 DEF TakeEnd, TakeError
  <2>3. sent # <<>> /\ \A i \in DOMAIN sent : sent[i] \notin Terminals
    BY <1>0, <2>2 DEF SentInv, Streaming, Awaiting
  <2>4. Framing' /\ sent' \in Seq(WireEvents) /\ sent' # <<>>
    <3>1. e \in WireEvents \ {"workflow_started"}
      BY DEF Terminals, WireEvents
    <3> QED
      BY <2>1, <2>2, <2>3, <3>1, EmitKeepsFrame
  <2>5. TypeOK'
    BY <1>0, <2>2, <2>4 DEF TypeOK, Awaiting, Yielding
  <2>6. TaskInv'
    BY <1>0, <2>2 DEF TaskInv
  <2>7. SentInv'
    BY <2>2, <2>4 DEF SentInv, Streaming, Awaiting
  <2> QED
    BY <2>4, <2>5, <2>6, <2>7 DEF IInv
<1>8. CASE CheckHeartbeat
  <2>1. CASE UNCHANGED sent
    BY <1>0, <1>3, <1>8, <2>1 DEF CheckHeartbeat, TypeOK, Emit
  <2>2. CASE Emit("heartbeat") /\ at' = "beat"
    <3>1. at = "tail" /\ UNCHANGED <<pending, graph, native, due, beats, client>>
      BY <1>8 DEF CheckHeartbeat
    <3>2. sent # <<>> /\ \A i \in DOMAIN sent : sent[i] \notin Terminals
      BY <1>0, <3>1 DEF SentInv, Streaming
    <3>3. /\ Framing' /\ sent' \in Seq(WireEvents) /\ sent' # <<>>
          /\ \A i \in DOMAIN sent' : sent'[i] \notin Terminals
      <4>1. "heartbeat" \in WireEvents \ {"workflow_started"} /\ "heartbeat" \notin Terminals
        BY DEF WireEvents, Terminals
      <4> QED
        BY <2>2, <3>1, <3>2, <4>1, EmitKeepsFrame DEF Terminals
    <3>4. TypeOK'
      BY <1>0, <2>2, <3>1, <3>3 DEF TypeOK, Awaiting, Yielding
    <3>5. TaskInv'
      BY <1>0, <2>2, <3>1 DEF TaskInv
    <3>6. SentInv'
      BY <2>2, <3>3 DEF SentInv, Terminated
    <3> QED
      BY <3>3, <3>4, <3>5, <3>6 DEF IInv
  <2> QED
    BY <1>8, <2>1, <2>2 DEF CheckHeartbeat
<1>9. CASE Abandon
  BY <1>0, <1>3, <1>9 DEF Abandon, TypeOK, Yielding, Awaiting
<1>10. CASE Unwind \/ Close
  <2>1. TypeOK'
    BY <1>0, <1>10 DEF Unwind, Close, TypeOK, Awaiting, Yielding
  <2>2. TaskInv'
    BY <1>0, <1>10 DEF Unwind, Close, TaskInv, TypeOK
  <2>3. SentInv'
    BY <1>0, <1>10 DEF Unwind, Close, SentInv, Terminated, Streaming, Awaiting
  <2>4. Framing'
    <3>1. \A i \in DOMAIN sent : sent[i] \in Terminals => graph' = graph
      BY <1>0, <1>10 DEF Unwind, Close, SentInv, Terminated, Framing, Terminals
    <3> QED
      BY <1>0, <1>10, <3>1 DEF Unwind, Close, Framing, Terminals
  <2> QED
    BY <2>1, <2>2, <2>3, <2>4 DEF IInv
<1>11. CASE GraphEmits \/ GraphEnds
  <2>1. /\ pending = "running" /\ pending' \in {"event", "end", "error"} /\ graph = "running"
        /\ UNCHANGED <<at, sent, due, beats, client>>
    BY <1>11 DEF GraphEmits, GraphEnds
  <2>2. native' \in Seq(Kinds) /\ Len(native') <= MaxNative /\ (pending' = "event" => native' # <<>>)
    <3>1. CASE GraphEmits
      <4>1. PICK kind \in Kinds : native' = Append(native, kind)
        BY <3>1 DEF GraphEmits
      <4>2. native \in Seq(Kinds) /\ Len(native) < MaxNative
        BY <1>0, <3>1 DEF GraphEmits, TypeOK
      <4>3. native' \in Seq(Kinds) /\ Len(native') = Len(native) + 1
        BY <4>1, <4>2, AppendProperties
      <4>4. Len(native') # 0 /\ Len(native') <= MaxNative
        BY <4>2, <4>3, LenProperties, NativeAssumption
      <4> QED
        BY <4>3, <4>4, EmptySeq
    <3>2. CASE GraphEnds
      BY <1>0, <3>2 DEF GraphEnds, TypeOK
    <3> QED
      BY <1>11, <3>1, <3>2
  <2>3. \A i \in DOMAIN sent : sent[i] \notin Terminals
    BY <1>0, <2>1 DEF SentInv, Terminated
  <2>4. graph' \in {"running", "done", "raised"}
    BY <1>11, <2>1 DEF GraphEmits, GraphEnds
  <2>5. TypeOK'
    BY <1>0, <2>1, <2>2, <2>4 DEF TypeOK
  <2>6. TaskInv'
    BY <1>0, <1>11, <2>1, <2>2 DEF GraphEmits, GraphEnds, TaskInv
  <2>7. SentInv'
    BY <1>0, <2>1 DEF SentInv, Terminated
  <2>8. Framing'
    BY <1>0, <2>1, <2>3 DEF Framing, Terminals
  <2> QED
    BY <2>5, <2>6, <2>7, <2>8 DEF IInv
<1>12. CASE Beat \/ Client \/ UNCHANGED vars
  <2>1. /\ UNCHANGED <<at, pending, source, sent>> /\ due' \in BOOLEAN /\ beats' \in 0 .. MaxBeats
        /\ client' \in {"reading", "stalled", "gone"}
    <3>1. CASE Beat
      <4>1. beats \in 0 .. MaxBeats /\ beats < MaxBeats /\ beats' = beats + 1
        BY <1>0, <3>1 DEF Beat, TypeOK
      <4>2. beats' \in 0 .. MaxBeats
        BY <4>1, BeatsAssumption
      <4> QED
        BY <1>0, <3>1, <4>2 DEF Beat, TypeOK
    <3>2. CASE Client
      BY <1>0, <3>2 DEF Client, TypeOK
    <3>3. CASE UNCHANGED vars
      BY <1>0, <3>3 DEF vars, TypeOK
    <3> QED
      BY <1>12, <3>1, <3>2, <3>3
  <2> QED
    BY <1>3, <2>1
<1> QED
  BY <1>1, <1>2, <1>4, <1>5, <1>6, <1>7, <1>8, <1>9, <1>10, <1>11, <1>12
    DEF Next, Adapter, Finished

LEMMA AlwaysIInv == Spec => []IInv
<1>1. Init => IInv
  BY InitHolds
<1>2. IInv /\ [Next]_vars => IInv'
  BY NextKeeps
<1> QED
  BY <1>1, <1>2, PTL DEF Spec

-----------------------------------------------------------------------------
(* Every variable of the stream keeps its type, and a generator that is in  *)
(* its loop has a task for the next native event.                           *)
THEOREM StreamTyped == Spec => []TypeOK
<1>1. IInv => TypeOK
  BY DEF IInv
<1> QED
  BY <1>1, AlwaysIInv, PTL

(* Every stream is framed by one workflow_started and at most one terminal  *)
(* event that says what became of the graph, however heartbeats, events and *)
(* a leaving client interleave.                                             *)
THEOREM AlwaysFramed == Spec => []Framing
<1>1. IInv => Framing
  BY DEF IInv
<1> QED
  BY <1>1, AlwaysIInv, PTL

(* A closed generator leaves nothing running, wherever it was left. *)
THEOREM AlwaysCleanedUp == Spec => []NothingLeftRunning
<1>1. IInv => NothingLeftRunning
  BY DEF IInv, TaskInv, NothingLeftRunning
<1> QED
  BY <1>1, AlwaysIInv, PTL

-----------------------------------------------------------------------------
(* What Carried adds for the i-th event, and how far it has come after it *)
Keep(kept, e) == IF e \in NodeEvents THEN Append(kept, e) ELSE kept

Filters(f, s) ==
  /\ f \in [0 .. Len(s) -> Seq(NodeEvents)]
  /\ f[0] = <<>>
  /\ \A i \in 1 .. Len(s) : f[i] = Keep(f[i - 1], s[i])

LEMMA CarriedUnfolds ==
  ASSUME NEW E, NEW s \in Seq(E)
  PROVE  \E f : Filters(f, s) /\ Carried(s) = f[Len(s)]
<1> DEFINE n == Len(s)
           step == [p \in (1 .. n) \X Seq(NodeEvents) |-> Keep(p[2], s[p[1]])]
           Unfolds(f) == f = [i \in 0 .. n |-> IF i = 0 THEN <<>>
                                               ELSE IF s[i] \in NodeEvents THEN Append(f[i - 1], s[i])
                                               ELSE f[i - 1]]
<1>1. n \in Nat /\ <<>> \in Seq(NodeEvents)
  OBVIOUS
<1>2. \A x \in Seq(NodeEvents) : \A e : Keep(x, e) \in Seq(NodeEvents)
  BY AppendProperties DEF Keep
<1>3. step \in [(1 .. n) \X Seq(NodeEvents) -> Seq(NodeEvents)]
  BY <1>2
<1>4. \A i \in 1 .. n, x \in Seq(NodeEvents) : step[<<i, x>>] = Keep(x, s[i])
  OBVIOUS
<1>5. Carried(s) = (CHOOSE f : Unfolds(f))[n]
  BY Zenon DEF Carried
<1> HIDE DEF step, n
<1>6. PICK f : f \in [0 .. n -> Seq(NodeEvents)] /\ Recurrence(f, n, <<>>, step)
  BY <1>1, <1>3, RecurrenceSolved
<1>7. f[0] = <<>> /\ \A i \in 1 .. n : f[i] = Keep(f[i - 1], s[i])
  <2>1. f[0] = <<>>
    BY <1>1, <1>6 DEF Recurrence
  <2>2. ASSUME NEW i \in 1 .. n PROVE f[i] = Keep(f[i - 1], s[i])
    <3>1. i \in 0 .. n /\ i # 0 /\ i - 1 \in 0 .. n
      BY <1>1
    <3>2. f[i] = step[<<i, f[i - 1]>>]
      BY <1>6, <3>1 DEF Recurrence
    <3> QED
      BY <1>4, <1>6, <3>1, <3>2
  <2> QED
    BY <2>1, <2>2
<1>8. Unfolds(f)
  <2>1. ASSUME NEW i \in 0 .. n
        PROVE  f[i] = IF i = 0 THEN <<>>
                      ELSE IF s[i] \in NodeEvents THEN Append(f[i - 1], s[i]) ELSE f[i - 1]
    <3>1. i = 0 \/ i \in 1 .. n
      BY <1>1
    <3> QED
      BY <1>7, <3>1 DEF Keep
  <2> QED
    BY <1>6, <2>1
<1>9. PICK kept : Unfolds(kept) /\ Carried(s) = kept[n]
  <2>1. Unfolds(CHOOSE g : Unfolds(g))
    BY <1>8, Zenon
  <2> QED
    BY <1>5, <2>1
<1>10. kept[n] = f[n]
  <2>1. \A i \in 0 .. n : kept[i] = IF i = 0 THEN <<>>
                                    ELSE IF s[i] \in NodeEvents THEN Append(kept[i - 1], s[i])
                                    ELSE kept[i - 1]
    BY <1>9
  <2>2. kept[0] = f[0]
    BY <1>1, <1>7, <2>1
  <2>3. ASSUME NEW i \in 1 .. n, kept[i - 1] = f[i - 1] PROVE kept[i] = f[i]
    <3>1. i \in 0 .. n /\ i # 0
      BY <1>1
    <3>2. kept[i] = Keep(kept[i - 1], s[i])
      BY <2>1, <3>1 DEF Keep
    <3> QED
      BY <1>7, <2>3, <3>2
  <2>4. n \in Nat
    BY <1>1
  <2>5. Alike(kept, f, n)
    BY <2>2, <2>3 DEF Alike
  <2>6. \A i \in 0 .. n : kept[i] = f[i]
    BY <2>4, <2>5, StepwiseEqual
  <2> QED
    BY <2>4, <2>6
<1> QED
  BY <1>6, <1>7, <1>9, <1>10 DEF Filters, n

(* A sequence with an event more carries that event more, if a node sent it. *)
LEMMA CarriedAppend ==
  ASSUME NEW E, NEW s \in Seq(E), NEW e \in E
  PROVE  Carried(Append(s, e)) = Keep(Carried(s), e)
<1> DEFINE t == Append(s, e)
<1>1. /\ t \in Seq(E) /\ Len(t) = Len(s) + 1 /\ Len(s) \in Nat
      /\ t[Len(s) + 1] = e /\ \A i \in 1 .. Len(s) : t[i] = s[i]
  BY AppendProperties
<1> HIDE DEF t
<1>2. PICK f : Filters(f, s) /\ Carried(s) = f[Len(s)]
  BY CarriedUnfolds
<1>3. PICK g : Filters(g, t) /\ Carried(t) = g[Len(t)]
  BY <1>1, CarriedUnfolds
<1>4. f[0] = g[0]
  BY <1>2, <1>3 DEF Filters
<1>5. ASSUME NEW i \in 1 .. Len(s), f[i - 1] = g[i - 1] PROVE f[i] = g[i]
  <2>1. i \in 1 .. Len(t) /\ t[i] = s[i]
    BY <1>1
  <2>2. g[i] = Keep(g[i - 1], t[i]) /\ f[i] = Keep(f[i - 1], s[i])
    BY <1>2, <1>3, <2>1 DEF Filters
  <2> QED
    BY <1>5, <2>1, <2>2
<1>6. \A i \in 0 .. Len(s) : f[i] = g[i]
  <2>1. Alike(f, g, Len(s))
    BY <1>4, <1>5 DEF Alike
  <2> QED
    BY <1>1, <2>1, StepwiseEqual
<1>7. f[Len(s)] = g[Len(s)]
  BY <1>1, <1>6
<1>8. Len(t) \in 1 .. Len(t) /\ Len(t) - 1 = Len(s)
  BY <1>1
<1>9. g[Len(t)] = Keep(g[Len(s)], e)
  BY <1>1, <1>3, <1>8 DEF Filters
<1> QED
  BY <1>2, <1>3, <1>7, <1>9 DEF t

(* The generator has carried every event but the one not yet taken, and it  *)
(* terminates only when nothing waits to be taken.                          *)
CarriedInv ==
  /\ Carried(sent) = Carried(SubSeq(native, 1, Len(native) - Untaken))
  /\ Terminated => pending # "event"

LEMMA SubSeqOfAppend ==
  ASSUME NEW E, NEW s \in Seq(E), NEW e \in E
  PROVE  SubSeq(Append(s, e), 1, Len(Append(s, e)) - 1) = s
<1> DEFINE t == Append(s, e)
<1>1. t \in Seq(E) /\ Len(t) = Len(s) + 1 /\ Len(s) \in Nat
      /\ \A i \in 1 .. Len(s) : t[i] = s[i]
  BY AppendProperties
<1> HIDE DEF t
<1>2. SubSeq(t, 1, Len(s)) = s
  BY <1>1
<1>3. Len(t) - 1 = Len(s)
  BY <1>1
<1> QED
  BY <1>2, <1>3 DEF t

LEMMA CarriedKept == IInv /\ CarriedInv /\ [Next]_vars => CarriedInv'
<1> SUFFICES ASSUME IInv, CarriedInv, [Next]_vars PROVE CarriedInv'
  OBVIOUS
<1>0. /\ TypeOK /\ TaskInv /\ SentInv
      /\ native \in Seq(Kinds) /\ sent \in Seq(WireEvents) /\ Len(native) \in Nat
      /\ Carried(sent) = Carried(SubSeq(native, 1, Len(native) - Untaken))
  BY DEF IInv, TypeOK, CarriedInv
<1> USE DEF source, clock
<1>1. ASSUME UNCHANGED <<sent, native>>, Untaken' = Untaken, Terminated => pending' # "event"
      PROVE  CarriedInv'
  BY <1>0, <1>1 DEF CarriedInv, Terminated
<1>2. ASSUME NEW e \in WireEvents, Emit(e) PROVE Carried(sent') = Keep(Carried(sent), e)
  BY <1>0, <1>2, CarriedAppend DEF Emit
<1>3. SubSeq(native, 1, Len(native)) = native
  BY <1>0
<1>4. ASSUME NEW e \in WireEvents \ NodeEvents, Emit(e), UNCHANGED native,
             pending # "event", pending' # "event"
      PROVE  CarriedInv'
  BY <1>0, <1>2, <1>4 DEF CarriedInv, Untaken, Keep
<1>5. CASE Begin \/ TakeEnd \/ TakeError
  <2>1. PICK e \in {"workflow_started", "workflow_completed", "workflow_failed"} : Emit(e)
    BY <1>5 DEF Begin, TakeEnd, TakeError
  <2>2. e \in WireEvents \ NodeEvents
    BY DEF WireEvents, NodeEvents, Terminals
  <2>3. UNCHANGED native /\ pending # "event" /\ pending' # "event"
    BY <1>0, <1>5 DEF Begin, TakeEnd, TakeError, TaskInv
  <2> QED
    BY <1>4, <2>1, <2>2, <2>3
<1>6. CASE CheckHeartbeat
  <2>1. at = "tail" /\ UNCHANGED <<pending, native>>
    BY <1>6 DEF CheckHeartbeat
  <2>2. CASE UNCHANGED sent
    BY <1>0, <2>1, <2>2 DEF CarriedInv, Terminated, Untaken
  <2>3. CASE Emit("heartbeat")
    <3>1. "heartbeat" \in WireEvents \ NodeEvents
      BY DEF WireEvents, NodeEvents, Terminals
    <3>2. Carried(sent') = Carried(sent)
      BY <1>2, <2>3, <3>1 DEF Keep
    <3>3. ~ Terminated'
      <4>1. \A i \in DOMAIN sent : sent[i] \notin Terminals
        BY <1>0, <2>1 DEF SentInv, Streaming
      <4>2. sent' = Append(sent, "heartbeat") /\ "heartbeat" \notin Terminals
        BY <2>3 DEF Emit, Terminals
      <4> QED
        BY <1>0, <4>1, <4>2, AppendProperties DEF Terminated
    <3>4. Untaken' = Untaken
      BY <2>1 DEF Untaken
    <3> QED
      BY <1>0, <2>1, <3>2, <3>3, <3>4 DEF CarriedInv
  <2> QED
    BY <1>6, <2>2, <2>3 DEF CheckHeartbeat
<1>7. CASE TakeEvent
  <2>1. pending = "event" /\ pending' = "running" /\ UNCHANGED native /\ native # <<>>
    BY <1>0, <1>7 DEF TakeEvent, TaskInv
  <2>2. Len(native) \in 1 .. Len(native) /\ Untaken = 1 /\ Untaken' = 0
    BY <1>0, <2>1, EmptySeq DEF Untaken
  <2> DEFINE before == SubSeq(native, 1, Len(native) - 1)
             event == native[Len(native)]
  <2>3. event \in Kinds /\ before \in Seq(Kinds) /\ native = Append(before, event)
    BY <1>0, <2>2
  <2>4. Carried(native) = Keep(Carried(before), event)
    BY <2>3, CarriedAppend
  <2>5. Carried(sent) = Carried(before)
    BY <1>0, <2>2
  <2>6. Carried(sent') = Keep(Carried(sent), event)
    <3>1. CASE event \in NodeEvents
      <4>1. event \in WireEvents /\ Emit(event)
        BY <1>7, <3>1 DEF TakeEvent, WireEvents
      <4> QED
        BY <1>2, <4>1
    <3>2. CASE event \notin NodeEvents
      BY <1>7, <3>2 DEF TakeEvent, Keep
    <3> QED
      BY <3>1, <3>2
  <2>7. Carried(sent') = Carried(native)
    BY <2>4, <2>5, <2>6
  <2>8. SubSeq(native, 1, Len(native) - Untaken)' = native
    BY <1>0, <1>3, <2>1, <2>2
  <2> QED
    BY <2>1, <2>7, <2>8 DEF CarriedInv
<1>8. CASE GraphEmits
  <2>1. PICK kind \in Kinds : native' = Append(native, kind)
    BY <1>8 DEF GraphEmits
  <2>2. pending = "running" /\ pending' = "event" /\ UNCHANGED sent
    BY <1>8 DEF GraphEmits
  <2>3. Untaken = 0 /\ Untaken' = 1
    BY <2>2 DEF Untaken
  <2>4. Carried(sent') = Carried(native)
    <3>1. SubSeq(native, 1, Len(native) - Untaken) = native
      BY <1>0, <1>3, <2>3
    <3> QED
      BY <1>0, <2>2, <3>1
  <2>5. SubSeq(native', 1, Len(native') - Untaken') = native
    BY <1>0, <2>1, <2>3, SubSeqOfAppend
  <2>6. ~ Terminated'
    BY <1>0, <2>2 DEF SentInv, Terminated
  <2> QED
    BY <2>4, <2>5, <2>6 DEF CarriedInv
<1>9. CASE OpenGraph
  <2>1. pending = "none" /\ pending' = "running" /\ UNCHANGED <<sent, native>>
    BY <1>0, <1>9 DEF OpenGraph, TaskInv
  <2> QED
    BY <1>1, <2>1 DEF Untaken
<1>10. CASE Unwind
  <2>1. /\ UNCHANGED <<sent, native>> /\ (pending' = "event" <=> pending = "event")
    BY <1>10 DEF Unwind
  <2> QED
    BY <1>1, <2>1 DEF Untaken, CarriedInv
<1>11. CASE GraphEnds
  <2>1. pending = "running" /\ pending' \in {"end", "error"} /\ UNCHANGED <<sent, native>>
    BY <1>11 DEF GraphEnds
  <2> QED
    BY <1>1, <2>1 DEF Untaken
<1>12. CASE Resume \/ Poll \/ TimeOut \/ Abandon \/ Close \/ Beat \/ Client \/ UNCHANGED vars
  <2>1. UNCHANGED <<pending, sent, native>>
    BY <1>12 DEF Resume, Poll, TimeOut, Abandon, Close, Beat, Client, vars
  <2> QED
    BY <1>1, <2>1 DEF Untaken, CarriedInv
<1> QED
  BY <1>5, <1>6, <1>7, <1>8, <1>9, <1>10, <1>11, <1>12 DEF Next, Adapter, Finished

(* No node event is lost, repeated or overtaken on its way to the client,   *)
(* however polls, heartbeats and the graph interleave, and none is missing  *)
(* when the terminal event comes.                                           *)
THEOREM AlwaysCarried == Spec => []NodeEventsCarried
<1>1. Init => CarriedInv
  <2> SUFFICES ASSUME Init PROVE CarriedInv
    OBVIOUS
  <2>1. native = <<>> /\ sent = <<>> /\ pending = "none"
    BY DEF Init
  <2>2. SubSeq(native, 1, Len(native) - Untaken) = sent
    BY <2>1 DEF Untaken
  <2> QED
    BY <2>1, <2>2 DEF CarriedInv, Terminated
<1>2. IInv /\ CarriedInv /\ [Next]_vars => CarriedInv'
  BY CarriedKept
<1>3. IInv /\ CarriedInv => NodeEventsCarried
  <2> SUFFICES ASSUME IInv, CarriedInv PROVE NodeEventsCarried
    OBVIOUS
  <2>1. SubSeq(native, 1, Len(native)) = native /\ Len(native) \in Nat
    BY DEF IInv, TypeOK
  <2>2. ASSUME Terminated PROVE SubSeq(native, 1, Len(native) - Untaken) = native
    BY <2>1, <2>2 DEF CarriedInv, Untaken
  <2> QED
    BY <2>2 DEF CarriedInv, NodeEventsCarried
<1> QED
  BY <1>1, <1>2, <1>3, AlwaysIInv, PTL DEF Spec
=============================================================================
