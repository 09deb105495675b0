---------------------------- MODULE AuditStorage ----------------------------
(***************************************************************************)
(* The PostgreSQL audit backend under several workflow executions.  Each    *)
(* execution has an AuditLogger with a lock and a wall clock of its own;    *)
(* the loggers of different worker processes share the table and nothing    *)
(* else.  Inside the lock an append stamps the event, opens a connection,   *)
(* inserts the row, which draws its id, and commits; the connection or the  *)
(* commit can fail, the acknowledgement of a commit can be lost, and the    *)
(* process can die in between.                                              *)
(***************************************************************************)
EXTENDS Integers, FiniteSets

CONSTANTS
  Loggers,     \* one per workflow execution
  MaxEvents,   \* bound: appends of one logger
  MaxTime,     \* bound: ticks of the clock
  MaxSkew      \* how far ahead of the others a host's clock may be

ASSUME BoundsAssumption ==
  MaxEvents \in Nat /\ MaxTime \in Nat /\ MaxSkew \in Nat

ASSUME LoggersAssumption == IsFiniteSet(Loggers)

VARIABLES
  now,      \* the time
  skew,     \* how far each logger's host is ahead of it; never changes
  stage,    \* what each logger is doing
  draft,    \* the row each logger is writing
  nextId,   \* the table's id sequence
  rows,     \* the committed rows
  made,     \* appends each logger has made
  acked,    \* those that returned
  refused,  \* those that raised
  left,     \* those that raised although their row is in the table
  seen,     \* the rows of the latest snapshot
  overlap   \* the appends that were under way when it was taken

loggers == <<stage, draft, made, acked, refused, left>>
reader  == <<seen, overlap>>
vars    == <<now, skew, nextId, rows, loggers, reader>>

(* Next to some definitions stands a mutated form of it, named for the slip *)
(* it makes; the specification never uses those.                            *)

(* ORDER BY timestamp ASC, id ASC *)
BeforeTies(r, s) == r.time < s.time \/ (r.time = s.time /\ r.id > s.id)
Before(r, s) == r.time < s.time \/ (r.time = s.time /\ r.id < s.id)

Call(r) == <<r.logger, r.number>>
NoRow == [logger |-> "none", number |-> 0, time |-> 0, id |-> 0]

Init ==
  /\ now = 0
  /\ skew \in [Loggers -> 0 .. MaxSkew]
  /\ stage = [l \in Loggers |-> "idle"]
  /\ draft = [l \in Loggers |-> NoRow]
  /\ nextId = 1
  /\ rows = {}
  /\ made = [l \in Loggers |-> 0]
  /\ acked = [l \in Loggers |-> 0]
  /\ refused = [l \in Loggers |-> 0]
  /\ left = [l \in Loggers |-> 0]
  /\ seen = {} /\ overlap = {}

Bump(counter, l) == counter' = [counter EXCEPT ![l] = @ + 1]
Moves(l, to) == stage' = [stage EXCEPT ![l] = to]

-----------------------------------------------------------------------------
(* _log: the event is built, with the logger's own time. *)
Stamp(l) ==
  /\ stage[l] = "idle"
  /\ made[l] < MaxEvents
  /\ Moves(l, "stamped")
  /\ Bump(made, l)
  /\ draft' = [draft EXCEPT ![l] = [logger |-> l, number |-> made[l] + 1,
                                    time |-> now + skew[l], id |-> 0]]
  /\ UNCHANGED <<now, skew, nextId, rows, acked, refused, left, reader>>

(* append: a connection of its own, and the INSERT, which draws the id. *)
InsertSameId(l) ==
  /\ stage[l] = "stamped"
  /\ Moves(l, "inserted")
  /\ draft' = [draft EXCEPT ![l].id = nextId]
  /\ UNCHANGED <<now, skew, nextId, rows, made, acked, refused, left, reader>>

Insert(l) ==
  /\ stage[l] = "stamped"
  /\ Moves(l, "inserted")
  /\ draft' = [draft EXCEPT ![l].id = nextId]
  /\ nextId' = nextId + 1
  /\ UNCHANGED <<now, skew, rows, made, acked, refused, left, reader>>

(* The with block ends: the transaction commits. *)
CommitNothing(l) ==
  /\ stage[l] = "inserted"
  /\ Moves(l, "committed")
  /\ UNCHANGED <<now, skew, nextId, rows, draft, made, acked, refused, left, reader>>

Commit(l) ==
  /\ stage[l] = "inserted"
  /\ Moves(l, "committed")
  /\ rows' = rows \cup {draft[l]}
  /\ UNCHANGED <<now, skew, nextId, draft, made, acked, refused, left, reader>>

(* The append returns. *)
Acknowledge(l) ==
  /\ stage[l] = "committed"
  /\ Moves(l, "idle")
  /\ Bump(acked, l)
  /\ draft' = [draft EXCEPT ![l] = NoRow]
  /\ UNCHANGED <<now, skew, nextId, rows, made, refused, left, reader>>

(* No connection, a failed INSERT, a failed commit, or one whose answer is  *)
(* lost: AuditError, and no second attempt.                                 *)
FailAndRetry(l) ==
  /\ stage[l] \in {"stamped", "inserted", "committed"}
  /\ Moves(l, "stamped")
  /\ IF stage[l] = "committed" THEN Bump(left, l) ELSE UNCHANGED left
  /\ nextId < MaxEvents + 2
  /\ UNCHANGED <<now, skew, nextId, rows, draft, made, acked, refused, reader>>

Fail(l) ==
  /\ stage[l] \in {"stamped", "inserted", "committed"}
  /\ Moves(l, "idle")
  /\ Bump(refused, l)
  /\ IF stage[l] = "committed" THEN Bump(left, l) ELSE UNCHANGED left
  /\ draft' = [draft EXCEPT ![l] = NoRow]
  /\ UNCHANGED <<now, skew, nextId, rows, made, acked, reader>>

(* The worker process dies; the database rolls back what is not committed. *)
Crash(l) ==
  /\ stage[l] # "dead"
  /\ Moves(l, "dead")
  /\ draft' = [draft EXCEPT ![l] = NoRow]
  /\ UNCHANGED <<now, skew, nextId, rows, made, acked, refused, left, reader>>

(* snapshot: somebody reads the table.  One reading is enough to compare    *)
(* with every later state of the table.                                     *)
Snapshot ==
  /\ seen = {} /\ rows # {}
  /\ seen' = rows
  /\ overlap' = {Call(draft[l]) : l \in {m \in Loggers : stage[m] \in {"stamped", "inserted"}}}
  /\ UNCHANGED <<now, skew, nextId, rows, loggers>>

Tick ==
  /\ now < MaxTime
  /\ now' = now + 1
  /\ UNCHANGED <<skew, nextId, rows, loggers, reader>>

Next ==
  \/ \E l \in Loggers :
       Stamp(l) \/ Insert(l) \/ Commit(l) \/ Acknowledge(l) \/ Fail(l) \/ Crash(l)
  \/ Snapshot \/ Tick

Spec == Init /\ [][Next]_vars
-----------------------------------------------------------------------------
(* Properties *)

RowsOf(l) == {r \in rows : r.logger = l}
InFlight(l) == IF stage[l] = "committed" THEN 1 ELSE 0

TypeOK ==
  /\ now \in 0 .. MaxTime
  /\ skew \in [Loggers -> 0 .. MaxSkew]
  /\ stage \in [Loggers -> {"idle", "stamped", "inserted", "committed", "dead"}]
  /\ nextId \in 1 .. Cardinality(Loggers) * MaxEvents + 1
  /\ \A r \in rows : /\ r.logger \in Loggers
                     /\ r.number \in 1 .. made[r.logger]
                     /\ r.time \in 0 .. now + skew[r.logger]
                     /\ r.id \in 1 .. nextId - 1
  /\ \A c \in {made, acked, refused, left} : c \in [Loggers -> 0 .. MaxEvents]
  /\ seen \subseteq rows

(* Exactly once: every event that was acknowledged is in the table, once,   *)
(* and the only other rows are those of appends that raised after their     *)
(* commit, or of the one append that is about to return.                    *)
ExactlyOnce ==
  \A l \in Loggers :
    /\ stage[l] # "dead" =>
         Cardinality(RowsOf(l)) = acked[l] + left[l] + InFlight(l)
    /\ Cardinality(RowsOf(l)) \in acked[l] + left[l] .. made[l]
    /\ \A r, s \in RowsOf(l) : r.number = s.number => r = s

(* A snapshot shows one execution's events in the order they were logged,   *)
(* however many executions share the table and whatever their clocks say of *)
(* each other.                                                              *)
OwnOrder ==
  \A r, s \in rows :
    (r.logger = s.logger /\ r.number < s.number) => Before(r, s)

(* A reader who comes back finds what it saw, and finds a new event in      *)
(* front of it only when that append was already under way at the first     *)
(* reading or was stamped by a clock that lags behind.                      *)
LateRows ==
  \A r \in rows \ seen, s \in seen :
    Before(r, s) =>
      \/ Call(r) \in overlap
      \/ skew[r.logger] < skew[s.logger]

(* The events of a table's rows as snapshot returns them *)
Position(r, R) == Cardinality({s \in R : Before(s, r)}) + 1
RowAt(k, R)    == CHOOSE r \in R : Position(r, R) = k
InOrder(R)     == [k \in 1 .. Cardinality(R) |-> RowAt(k, R).number]

(* What readers find and callers are told is the trail of AuditTrail: rows  *)
(* are added to the end of their logger's trail, once for each append,      *)
(* before it returns, and stay as they are.                                 *)
Trail == INSTANCE AuditTrail WITH
  phase    <- [l \in Loggers |->
                 CASE stage[l] \in {"stamped", "inserted"} -> "open"
                   [] stage[l] = "committed" -> "written"
                   [] OTHER -> stage[l]],
  trail    <- [l \in Loggers |-> InOrder(RowsOf(l))],
  returned <- acked,
  raised   <- refused

ImplementsTrail == Trail!Spec
=============================================================================
