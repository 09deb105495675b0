--------------------------- MODULE WorkflowStream ---------------------------
(***************************************************************************)
(* The adapter that turns one graph execution into a server-sent event      *)
(* stream.  The asynchronous generator stream_workflow_events is driven by  *)
(* the server, which asks for one chunk after the other; it drives the      *)
(* graph's event iterator through one pending task, and between two native  *)
(* events it looks for a disconnected client and for a due heartbeat.       *)
(*                                                                         *)
(* Time is abstract: the poll interval may elapse whenever the adapter      *)
(* waits, and a heartbeat may become due at any moment.                     *)
(***************************************************************************)
EXTENDS Integers, Sequences

CONSTANTS
  MaxNative,   \* bound: native events the graph emits
  MaxBeats     \* bound: heartbeats that become due

ASSUME NativeAssumption == MaxNative \in Nat
ASSUME BeatsAssumption  == MaxBeats \in Nat

(* What a native event maps to; "unmapped" events reach no client. *)
NodeEvents == {"node_started", "node_completed"}
Kinds      == NodeEvents \cup {"unmapped"}
Terminals  == {"workflow_completed", "workflow_failed"}
WireEvents == NodeEvents \cup Terminals \cup {"workflow_started", "heartbeat"}

VARIABLES
  at,        \* where the generator is
  pending,   \* the task awaiting the next native event, and what it got
  graph,     \* the graph's event iterator
  native,    \* the native events emitted, oldest first
  sent,      \* the wire events yielded, oldest first
  due,       \* the heartbeat interval has elapsed
  beats,     \* how often it did
  client     \* "reading", "stalled" or "gone"

source == <<graph, native>>
clock  == <<due, beats>>
vars   == <<at, pending, source, sent, clock, client>>

(* The generator is suspended at a yield, or awaits inside its loop. *)
Yielding == {"opened", "node", "beat", "ending"}
Awaiting == {"poll", "wait"}

(* Next to some definitions stands a mutated form of it, named for the slip *)
(* it makes; the specification never uses those.                            *)

Init ==
  /\ at = "new"
  /\ pending = "none"
  /\ graph = "unopened"
  /\ native = <<>>
  /\ sent = <<>>
  /\ due = FALSE /\ beats = 0
  /\ client = "reading"

Emit(event) == sent' = Append(sent, event)

-----------------------------------------------------------------------------
(* The server asks for the next chunk.  It can while the client reads, and  *)
(* once the client is gone, when what it sends goes nowhere.                *)
Pulls == client \in {"reading", "gone"}

(* The first chunk is yielded before anything of the graph exists. *)
Begin ==
  /\ Pulls
  /\ at = "new"
  /\ Emit("workflow_started")
  /\ at' = "opened"
  /\ UNCHANGED <<pending, source, clock, client>>

(* The graph is started and its first event awaited by a task of its own. *)
OpenGraph ==
  /\ Pulls
  /\ at = "opened"
  /\ graph' = "running"
  /\ pending' = "running"
  /\ at' = "poll"
  /\ UNCHANGED <<native, sent, clock, client>>

(* A chunk was taken: after a node event the heartbeat is looked at, after  *)
(* a heartbeat the next one is scheduled, after a terminal event the        *)
(* generator returns.                                                       *)
Resume ==
  /\ Pulls
  /\ \/ at = "node" /\ at' = "tail" /\ UNCHANGED clock
     \/ at = "beat" /\ at' = "poll" /\ due' = FALSE /\ UNCHANGED beats
     \/ at = "ending" /\ at' = "unwind" /\ UNCHANGED clock
  /\ UNCHANGED <<pending, source, sent, client>>

-----------------------------------------------------------------------------
(* await request.is_disconnected() *)
PollBlind ==
  /\ at = "poll"
  /\ at' = "wait"
  /\ UNCHANGED <<pending, source, sent, clock, client>>

Poll ==
  /\ at = "poll"
  /\ at' = IF client = "gone" THEN "unwind" ELSE "wait"
  /\ UNCHANGED <<pending, source, sent, clock, client>>

(* The wait ends because the interval is over and no event has come. *)
TimeOutAnyway ==
  /\ at = "wait"
  /\ at' = "tail"
  /\ UNCHANGED <<pending, source, sent, clock, client>>

TimeOut ==
  /\ at = "wait"
  /\ pending = "running"
  /\ at' = "tail"
  /\ UNCHANGED <<pending, source, sent, clock, client>>

(* An event has come: the next one is asked for before this one is yielded. *)
TakeEventLate ==
  /\ at = "wait"
  /\ pending = "event"
  /\ pending' = "running"
  /\ LET event == native[Len(native)]
     IN IF event \in NodeEvents /\ ~due
          THEN Emit(event) /\ at' = "node"
          ELSE at' = "tail" /\ UNCHANGED sent
  /\ UNCHANGED <<source, clock, client>>

TakeEvent ==
  /\ at = "wait"
  /\ pending = "event"
  /\ pending' = "running"
  /\ LET event == native[Len(native)]
     IN IF event \in NodeEvents
          THEN Emit(event) /\ at' = "node"
          ELSE at' = "tail" /\ UNCHANGED sent
  /\ UNCHANGED <<source, clock, client>>

(* The iterator is exhausted. *)
TakeEndAndGoOn ==
  /\ at = "wait"
  /\ pending = "end"
  /\ pending' = "none"
  /\ Emit("workflow_completed")
  /\ at' = "node"
  /\ UNCHANGED <<source, clock, client>>

TakeEnd ==
  /\ at = "wait"
  /\ pending = "end"
  /\ pending' = "none"
  /\ Emit("workflow_completed")
  /\ at' = "ending"
  /\ UNCHANGED <<source, clock, client>>

(* The graph raised. *)
TakeError ==
  /\ at = "wait"
  /\ pending = "error"
  /\ Emit("workflow_failed")
  /\ at' = "ending"
  /\ UNCHANGED <<pending, source, clock, client>>

(* if loop.time() >= next_heartbeat *)
CheckHeartbeat ==
  /\ at = "tail"
  /\ IF due THEN Emit("heartbeat") /\ at' = "beat"
            ELSE at' = "poll" /\ UNCHANGED sent
  /\ UNCHANGED <<pending, source, clock, client>>

(* The connection is over and the server cancels its task or drops the      *)
(* generator: CancelledError or GeneratorExit passes the except clauses.    *)
(* Before the try statement there is nothing to unwind.                     *)
Abandon ==
  /\ client = "gone"
  /\ \/ at \in Yielding \cup Awaiting
     \/ at = "new"
  /\ at' = IF at \in {"new", "opened"} THEN "closed" ELSE "unwind"
  /\ UNCHANGED <<pending, source, sent, clock, client>>

(* finally: a task that is not done is cancelled and awaited; the           *)
(* cancellation ends the iterator it runs.                                  *)
Unwind ==
  /\ at = "unwind"
  /\ IF pending = "running"
       THEN pending' = "cancelled" /\ graph' = "stopped"
       ELSE UNCHANGED <<pending, graph>>
  /\ at' = "close"
  /\ UNCHANGED <<native, sent, clock, client>>

(* finally: aclose, which stops an iterator suspended between two events. *)
CloseSkipped ==
  /\ at = "close"
  /\ at' = "closed"
  /\ UNCHANGED <<pending, source, sent, clock, client>>

Close ==
  /\ at = "close"
  /\ graph' = IF graph = "running" THEN "stopped" ELSE graph
  /\ at' = "closed"
  /\ UNCHANGED <<pending, native, sent, clock, client>>

-----------------------------------------------------------------------------
(* The graph answers the pending task. *)
GraphEmits ==
  /\ pending = "running" /\ graph = "running"
  /\ Len(native) < MaxNative
  /\ \E kind \in Kinds : native' = Append(native, kind)
  /\ pending' = "event"
  /\ UNCHANGED <<at, graph, sent, clock, client>>

GraphEnds ==
  /\ pending = "running" /\ graph = "running"
  /\ \/ pending' = "end" /\ graph' = "done"
     \/ pending' = "error" /\ graph' = "raised"
  /\ UNCHANGED <<at, native, sent, clock, client>>

Beat ==
  /\ graph = "running" /\ ~due
  /\ beats < MaxBeats
  /\ due' = TRUE
  /\ beats' = beats + 1
  /\ UNCHANGED <<at, pending, source, sent, client>>

(* A client may stop reading, read on, or go away for good; a server that   *)
(* shuts down takes the connection away as well.                            *)
Client ==
  /\ at # "closed"
  /\ client # "gone"
  /\ client' \in {"reading", "stalled", "gone"} \ {client}
  /\ UNCHANGED <<at, pending, source, sent, clock>>

Finished == at = "closed" /\ UNCHANGED vars

-----------------------------------------------------------------------------
Adapter ==
  \/ Begin \/ OpenGraph \/ Resume
  \/ Poll \/ TimeOut \/ TakeEvent \/ TakeEnd \/ TakeError \/ CheckHeartbeat
  \/ Unwind \/ Close

Next ==
  \/ Adapter \/ Abandon
  \/ GraphEmits \/ GraphEnds \/ Beat \/ Client \/ Finished

(* The event loop resumes a generator that can run, and the server sends    *)
(* what a reading client can take.  Nothing is asked of the graph, the      *)
(* client or the clock, and nobody is counted on to abandon the generator.  *)
Spec == Init /\ [][Next]_vars /\ WF_vars(Adapter)
-----------------------------------------------------------------------------
(* Properties *)

(* The node events of a sequence, in its order: SelectSeq written out *)
Carried(s) ==
  LET kept[i \in 0 .. Len(s)] ==
        IF i = 0 THEN <<>>
        ELSE IF s[i] \in NodeEvents THEN Append(kept[i - 1], s[i]) ELSE kept[i - 1]
  IN kept[Len(s)]

Terminated == \E i \in DOMAIN sent : sent[i] \in Terminals
Untaken    == IF pending = "event" THEN 1 ELSE 0

TypeOK ==
  /\ at \in {"new", "tail", "unwind", "close", "closed"} \cup Yielding \cup Awaiting
  /\ pending \in {"none", "running", "event", "end", "error", "cancelled"}
  /\ graph \in {"unopened", "running", "done", "raised", "stopped"}
  /\ native \in Seq(Kinds) /\ Len(native) <= MaxNative
  /\ sent \in Seq(WireEvents)
  /\ due \in BOOLEAN /\ beats \in 0 .. MaxBeats
  /\ client \in {"reading", "stalled", "gone"}
  /\ at \in Awaiting \cup {"tail", "node", "beat"} =>
       pending \notin {"none", "cancelled"}

(* A stream is framed by its boundary events, and they tell the truth: it   *)
(* starts with the only workflow_started, at most one terminal event comes  *)
(* and nothing after it, not even a heartbeat; completed says that the      *)
(* graph ran to its end, failed that it raised.                             *)
Framing ==
  /\ \A i \in DOMAIN sent :
       /\ sent[i] = "workflow_started" <=> i = 1
       /\ sent[i] \in Terminals => i = Len(sent)
       /\ sent[i] = "workflow_completed" => graph = "done"
       /\ sent[i] = "workflow_failed" => graph = "raised"

(* No node event is lost, repeated or overtaken: what the client was sent   *)
(* is what the graph emitted up to the event that waits to be taken, and    *)
(* all of it before the terminal event.                                     *)
NodeEventsCarried ==
  /\ Carried(sent) = Carried(SubSeq(native, 1, Len(native) - Untaken))
  /\ Terminated => Carried(sent) = Carried(native)

(* A generator that is closed has left nothing running behind it, however   *)
(* it was left: no task awaits the graph and the graph is at its end.       *)
NothingLeftRunning ==
  at = "closed" =>
    /\ pending # "running"
    /\ graph # "running"

(* A client that goes away ends the execution, even when the server never   *)
(* cancels anything and the graph never answers again.                      *)
DisconnectStops == client = "gone" ~> at = "closed"

(* A graph that is done is announced, unless the client leaves or stops     *)
(* reading first: slos.md expects exactly one terminal event.               *)
EndAnnounced ==
  pending \in {"end", "error"} ~> Terminated \/ client # "reading"
=============================================================================
