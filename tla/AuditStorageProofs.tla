------------------------- MODULE AuditStorageProofs -------------------------
(***************************************************************************)
(* Proofs about AuditStorage for any set of loggers, any number of events   *)
(* and any clocks: what the table holds of an append that returned, raised  *)
(* or died, in which order a reader finds the events, and that all this is  *)
(* the trail the agents are promised.                                       *)
(***************************************************************************)
EXTENDS AuditStorage, Sequences, FiniteSetTheorems, TLAPS

Record == [logger : Loggers \cup {"none"}, number : Nat, time : Nat, id : Nat]

Typed ==
  /\ now \in Nat
  /\ skew \in [Loggers -> Nat]
  /\ stage \in [Loggers -> {"idle", "stamped", "inserted", "committed", "dead"}]
  /\ draft \in [Loggers -> Record]
  /\ nextId \in Nat
  /\ rows \subseteq Record
  /\ IsFiniteSet(rows)
  /\ made \in [Loggers -> Nat]
  /\ acked \in [Loggers -> Nat]
  /\ refused \in [Loggers -> Nat]
  /\ left \in [Loggers -> Nat]
  /\ seen \subseteq rows

Writing(l) == stage[l] \in {"stamped", "inserted"}

(* The row an append is writing is that of its logger's latest call. *)
DraftInv(l) ==
  /\ Writing(l) \/ stage[l] = "committed" =>
       /\ draft[l].logger = l
       /\ draft[l].number = made[l]
       /\ draft[l].time <= now + skew[l]
  /\ stage[l] = "inserted" => draft[l].id < nextId

(* A committed row is older than whatever is still to come. *)
RowInv(r) ==
  /\ r.logger \in Loggers
  /\ r.number <= made[r.logger]
  /\ r.time <= now + skew[r.logger]
  /\ r.id < nextId
  /\ Writing(r.logger) => r.number < made[r.logger] /\ r.time <= draft[r.logger].time
  /\ stage[r.logger] = "inserted" => r.id < draft[r.logger].id

(* The rows of one logger were stamped and numbered in the order of its     *)
(* calls.                                                                   *)
PairInv(r, s) ==
  r.logger = s.logger =>
    /\ r.number = s.number => r = s
    /\ r.number < s.number => r.time <= s.time /\ r.id < s.id

(* How many rows a logger has in the table *)
CountInv(l) ==
  /\ stage[l] # "dead" => Cardinality(RowsOf(l)) = acked[l] + left[l] + InFlight(l)
  /\ acked[l] + left[l] <= Cardinality(RowsOf(l))
  /\ Cardinality(RowsOf(l)) <= made[l]
  /\ Writing(l) => Cardinality(RowsOf(l)) < made[l]

(* An append that began after the snapshot was stamped at a time no row of  *)
(* the snapshot is past, by the true clock, and draws a later id.           *)
LateDraft(l, s) ==
  Writing(l) /\ Call(draft[l]) \notin overlap =>
    /\ s.time - skew[s.logger] <= draft[l].time - skew[l]
    /\ stage[l] = "inserted" => s.id < draft[l].id

LateRow(r, s) ==
  Call(r) \notin overlap =>
    /\ s.time - skew[s.logger] <= r.time - skew[r.logger]
    /\ s.id < r.id

TableInv ==
  /\ \A l \in Loggers : DraftInv(l)
  /\ \A r \in rows : RowInv(r)
  /\ \A r, s \in rows : PairInv(r, s)

SnapshotInv ==
  \A s \in seen : /\ \A l \in Loggers : LateDraft(l, s)
                  /\ \A r \in rows \ seen : LateRow(r, s)

IInv ==
  /\ Typed
  /\ TableInv
  /\ \A l \in Loggers : CountInv(l)
  /\ SnapshotInv

-----------------------------------------------------------------------------
LEMMA InitHolds == Init => IInv
<1> SUFFICES ASSUME Init PROVE IInv
  OBVIOUS
<1>1. Typed
  <2>1. NoRow \in Record
    BY DEF NoRow, Record
  <2>2. skew \in [Loggers -> Nat]
    BY BoundsAssumption DEF Init
  <2> QED
    BY <2>1, <2>2, FS_EmptySet DEF Init, Typed
<1>2. TableInv /\ SnapshotInv
  BY DEF Init, TableInv, SnapshotInv, DraftInv, Writing
<1>3. ASSUME NEW l \in Loggers PROVE CountInv(l)
  <2>1. RowsOf(l) = {} /\ Cardinality({}) = 0
    BY FS_EmptySet DEF Init, RowsOf
  <2> QED
    BY <2>1 DEF Init, CountInv, InFlight, Writing
<1> QED
  BY <1>1, <1>2, <1>3 DEF IInv

LEMMA TypedKept == IInv /\ [Next]_vars => Typed'
<1> SUFFICES ASSUME IInv, [Next]_vars PROVE Typed'
  OBVIOUS
<1> USE DEF IInv, Typed, loggers, reader, Moves, Bump
<1>1. ASSUME NEW l \in Loggers, Stamp(l) PROVE Typed'
  <2>1. [logger |-> l, number |-> made[l] + 1, time |-> now + skew[l], id |-> 0] \in Record
    BY DEF Record
  <2> QED
    BY <1>1, <2>1 DEF Stamp
<1>2. ASSUME NEW l \in Loggers, Insert(l) PROVE Typed'
  <2>1. [draft[l] EXCEPT !.id = nextId] \in Record
    BY DEF Record
  <2> QED
    BY <1>2, <2>1 DEF Insert
<1>3. ASSUME NEW l \in Loggers, Commit(l) PROVE Typed'
  <2>1. IsFiniteSet(rows \cup {draft[l]})
    BY FS_AddElement
  <2> QED
    BY <1>3, <2>1 DEF Commit
<1>4. NoRow \in Record
  BY DEF NoRow, Record
<1>5. ASSUME NEW l \in Loggers, Acknowledge(l) PROVE Typed'
  BY <1>4, <1>5 DEF Acknowledge
<1>6. ASSUME NEW l \in Loggers, Fail(l) PROVE Typed'
  BY <1>4, <1>6 DEF Fail
<1>7. ASSUME NEW l \in Loggers, Crash(l) PROVE Typed'
  BY <1>4, <1>7 DEF Crash
<1>8. CASE Snapshot
  BY <1>8 DEF Snapshot
<1>9. CASE Tick
  BY <1>9 DEF Tick
<1>10. CASE UNCHANGED vars
  BY <1>10 DEF vars
<1> QED
  BY <1>1, <1>2, <1>3, <1>5, <1>6, <1>7, <1>8, <1>9, <1>10 DEF Next

(* A step that commits nothing and starts no append keeps what is known of  *)
(* the table.                                                               *)
LEMMA TableKept == IInv /\ [Next]_vars => TableInv'
<1> SUFFICES ASSUME IInv, [Next]_vars PROVE TableInv'
  OBVIOUS
<1> USE DEF IInv, Typed, TableInv, loggers, reader, Moves, Bump, Writing
<1>1. ASSUME NEW l \in Loggers, Stamp(l) PROVE TableInv'
  <2>1. ASSUME NEW k \in Loggers PROVE DraftInv(k)'
    BY <1>1 DEF Stamp, DraftInv
  <2>2. ASSUME NEW r \in rows PROVE RowInv(r)'
    <3>1. r \in Record /\ RowInv(r)
      OBVIOUS
    <3>2. CASE r.logger = l
      BY <1>1, <3>1, <3>2 DEF Stamp, RowInv, Record
    <3>3. CASE r.logger # l
      BY <1>1, <3>1, <3>3 DEF Stamp, RowInv, Record
    <3> QED
      BY <3>2, <3>3
  <2> QED
    BY <1>1, <2>1, <2>2 DEF Stamp, PairInv
<1>2. ASSUME NEW l \in Loggers, Insert(l) PROVE TableInv'
  <2>1. draft'[l] = [draft[l] EXCEPT !.id = nextId] /\ \A k \in Loggers \ {l} : draft'[k] = draft[k]
    BY <1>2 DEF Insert
  <2>2. /\ draft'[l].logger = draft[l].logger /\ draft'[l].number = draft[l].number
        /\ draft'[l].time = draft[l].time /\ draft'[l].id = nextId
    BY <2>1 DEF Record
  <2>3. ASSUME NEW k \in Loggers PROVE DraftInv(k)'
    <3>1. DraftInv(k)
      OBVIOUS
    <3>2. CASE k = l
      BY <1>2, <2>2, <3>1, <3>2 DEF Insert, DraftInv
    <3>3. CASE k # l
      BY <1>2, <2>1, <3>1, <3>3 DEF Insert, DraftInv, Record
    <3> QED
      BY <3>2, <3>3
  <2>4. ASSUME NEW r \in rows PROVE RowInv(r)'
    <3>1. r \in Record /\ RowInv(r)
      OBVIOUS
    <3>2. CASE r.logger = l
      BY <1>2, <2>2, <3>1, <3>2 DEF Insert, RowInv, Record
    <3>3. CASE r.logger # l
      BY <1>2, <2>1, <3>1, <3>3 DEF Insert, RowInv, Record
    <3> QED
      BY <3>2, <3>3
  <2> QED
    BY <1>2, <2>3, <2>4 DEF Insert, PairInv
<1>3. ASSUME NEW l \in Loggers, Commit(l) PROVE TableInv'
  <2>1. /\ draft[l] \in Record /\ draft[l].logger = l /\ draft[l].number = made[l]
        /\ draft[l].time <= now + skew[l] /\ draft[l].id < nextId
    BY <1>3 DEF Commit, DraftInv
  <2>2. ASSUME NEW k \in Loggers PROVE DraftInv(k)'
    BY <1>3 DEF Commit, DraftInv
  <2>3. ASSUME NEW r \in rows' PROVE RowInv(r)'
    <3>1. CASE r = draft[l]
      BY <1>3, <2>1, <3>1 DEF Commit, RowInv, Record
    <3>2. CASE r \in rows
      <4>1. RowInv(r) /\ r \in Record
        BY <3>2
      <4> QED
        BY <1>3, <4>1 DEF Commit, RowInv
    <3> QED
      BY <1>3, <3>1, <3>2 DEF Commit
  <2>4. ASSUME NEW r \in rows, r.logger = l
        PROVE  r.number < draft[l].number /\ r.time <= draft[l].time /\ r.id < draft[l].id
    <3>1. RowInv(r)
      OBVIOUS
    <3> QED
      BY <1>3, <2>1, <2>4, <3>1 DEF Commit, RowInv
  <2>5. ASSUME NEW r \in rows', NEW s \in rows' PROVE PairInv(r, s)
    <3>1. rows' = rows \cup {draft[l]}
      BY <1>3 DEF Commit
    <3>2. CASE r \in rows /\ s \in rows
      BY <3>2
    <3>3. CASE r \in rows /\ s = draft[l]
      BY <2>1, <2>4, <3>3 DEF PairInv, Record
    <3>4. CASE r = draft[l] /\ s \in rows
      BY <2>1, <2>4, <3>4 DEF PairInv, Record
    <3>5. CASE r = draft[l] /\ s = draft[l]
      BY <2>1, <3>5 DEF PairInv, Record
    <3> QED
      BY <3>1, <3>2, <3>3, <3>4, <3>5
  <2> QED
    BY <2>2, <2>3, <2>5 DEF PairInv
<1>4. ASSUME NEW l \in Loggers, Acknowledge(l) \/ Fail(l) \/ Crash(l) PROVE TableInv'
  <2>1. /\ stage'[l] \in {"idle", "dead"} /\ \A k \in Loggers \ {l} : stage'[k] = stage[k] /\ draft'[k] = draft[k]
        /\ UNCHANGED <<now, skew, nextId, rows, made>>
    BY <1>4 DEF Acknowledge, Fail, Crash
  <2>2. ASSUME NEW k \in Loggers PROVE DraftInv(k)'
    BY <2>1 DEF DraftInv
  <2>3. ASSUME NEW r \in rows PROVE RowInv(r)'
    <3>1. r \in Record /\ RowInv(r)
      OBVIOUS
    <3>2. CASE r.logger = l
      BY <2>1, <3>1, <3>2 DEF RowInv
    <3>3. CASE r.logger # l
      BY <2>1, <3>1, <3>3 DEF RowInv
    <3> QED
      BY <3>2, <3>3
  <2> QED
    BY <2>1, <2>2, <2>3 DEF PairInv
<1>5. CASE Tick
  <2>1. now' = now + 1 /\ UNCHANGED <<skew, stage, draft, nextId, rows, made>>
    BY <1>5 DEF Tick
  <2>2. ASSUME NEW k \in Loggers PROVE DraftInv(k)'
    BY <2>1 DEF DraftInv, Record
  <2>3. ASSUME NEW r \in rows PROVE RowInv(r)'
    <3>1. r \in Record /\ RowInv(r)
      OBVIOUS
    <3> QED
      BY <2>1, <3>1 DEF RowInv, Record
  <2> QED
    BY <2>1, <2>2, <2>3 DEF PairInv
<1>6. CASE Snapshot \/ UNCHANGED vars
  <2>1. UNCHANGED <<now, skew, stage, draft, nextId, rows, made>>
    BY <1>6 DEF Snapshot, vars
  <2> QED
    BY <2>1 DEF DraftInv, RowInv, PairInv
<1> QED
  BY <1>1, <1>2, <1>3, <1>4, <1>5, <1>6 DEF Next

(* Each append adds at most one row of its own logger. *)
LEMMA CountKept == IInv /\ [Next]_vars => \A k \in Loggers : CountInv(k)'
<1> SUFFICES ASSUME IInv, [Next]_vars, NEW k \in Loggers PROVE CountInv(k)'
  OBVIOUS
<1> USE DEF IInv, Typed, loggers, reader, Moves, Bump, Writing, InFlight
<1>0. CountInv(k) /\ Cardinality(RowsOf(k)) \in Nat
  <2>1. IsFiniteSet(RowsOf(k))
    BY FS_Subset DEF RowsOf
  <2> QED
    BY <2>1, FS_CardinalityType
<1>1. ASSUME NEW l \in Loggers, Stamp(l) PROVE CountInv(k)'
  <2>1. RowsOf(k)' = RowsOf(k)
    BY <1>1 DEF Stamp, RowsOf
  <2> QED
    BY <1>0, <1>1, <2>1 DEF Stamp, CountInv
<1>2. ASSUME NEW l \in Loggers, Insert(l) PROVE CountInv(k)'
  <2>1. RowsOf(k)' = RowsOf(k)
    BY <1>2 DEF Insert, RowsOf
  <2> QED
    BY <1>0, <1>2, <2>1 DEF Insert, CountInv
<1>3. ASSUME NEW l \in Loggers, Commit(l) PROVE CountInv(k)'
  <2>1. draft[l].logger = l /\ draft[l].number = made[l]
    BY <1>3 DEF Commit, TableInv, DraftInv
  <2>2. CASE k = l
    <3>1. RowsOf(k)' = RowsOf(k) \cup {draft[k]}
      BY <1>3, <2>1, <2>2 DEF Commit, RowsOf
    <3>2. draft[k] \notin RowsOf(k)
      <4>1. ASSUME NEW r \in RowsOf(k) PROVE r # draft[k]
        <5>1. r \in rows /\ r.logger = k /\ RowInv(r)
          BY DEF RowsOf, TableInv
        <5>2. r.number < made[k] /\ r.number \in Nat
          BY <1>3, <2>2, <5>1 DEF Commit, RowInv, Record
        <5> QED
          BY <2>1, <2>2, <5>2
      <4> QED
        BY <4>1
    <3>3. Cardinality(RowsOf(k)') = Cardinality(RowsOf(k)) + 1
      BY <3>1, <3>2, FS_AddElement, FS_Subset DEF RowsOf
    <3> QED
      BY <1>0, <1>3, <2>2, <3>3 DEF Commit, CountInv
  <2>3. CASE k # l
    <3>1. RowsOf(k)' = RowsOf(k)
      BY <1>3, <2>1, <2>3 DEF Commit, RowsOf
    <3> QED
      BY <1>0, <1>3, <2>3, <3>1 DEF Commit, CountInv
  <2> QED
    BY <2>2, <2>3
<1>4. ASSUME NEW l \in Loggers, Acknowledge(l) PROVE CountInv(k)'
  <2>1. RowsOf(k)' = RowsOf(k)
    BY <1>4 DEF Acknowledge, RowsOf
  <2> QED
    BY <1>0, <1>4, <2>1 DEF Acknowledge, CountInv
<1>5. ASSUME NEW l \in Loggers, Fail(l) PROVE CountInv(k)'
  <2>1. RowsOf(k)' = RowsOf(k)
    BY <1>5 DEF Fail, RowsOf
  <2> QED
    BY <1>0, <1>5, <2>1 DEF Fail, CountInv
<1>6. ASSUME NEW l \in Loggers, Crash(l) PROVE CountInv(k)'
  <2>1. RowsOf(k)' = RowsOf(k)
    BY <1>6 DEF Crash, RowsOf
  <2> QED
    BY <1>0, <1>6, <2>1 DEF Crash, CountInv
<1>7. CASE Snapshot \/ Tick \/ UNCHANGED vars
  <2>1. RowsOf(k)' = RowsOf(k) /\ UNCHANGED <<stage, made, acked, left>>
    BY <1>7 DEF Snapshot, Tick, vars, RowsOf
  <2> QED
    BY <1>0, <2>1 DEF CountInv
<1> QED
  BY <1>1, <1>2, <1>3, <1>4, <1>5, <1>6, <1>7 DEF Next

(* What began after the snapshot stays later than the snapshot's rows. *)
LEMMA SnapshotKept == IInv /\ [Next]_vars => SnapshotInv'
<1> SUFFICES ASSUME IInv, [Next]_vars PROVE SnapshotInv'
  OBVIOUS
<1> USE DEF IInv, Typed, loggers, reader, Moves, Bump, Writing, Call
<1>1. CASE Snapshot
  <2>1. ASSUME NEW k \in Loggers PROVE ~(Writing(k) /\ Call(draft[k]) \notin overlap')
    BY <1>1 DEF Snapshot
  <2>2. UNCHANGED <<stage, draft, skew, rows>> /\ rows \ seen' = {}
    BY <1>1 DEF Snapshot
  <2>3. ASSUME NEW s \in seen', NEW k \in Loggers PROVE LateDraft(k, s)'
    BY <2>1, <2>2 DEF LateDraft
  <2> QED
    BY <2>2, <2>3 DEF SnapshotInv
<1> SUFFICES ASSUME NEW s \in seen, UNCHANGED <<seen, overlap, skew>>
             PROVE  /\ \A k \in Loggers : LateDraft(k, s)'
                    /\ \A r \in rows' \ seen : LateRow(r, s)'
  <2>1. CASE UNCHANGED <<seen, overlap, skew>>
    BY <2>1 DEF SnapshotInv
  <2>2. CASE ~UNCHANGED <<seen, overlap, skew>>
    BY <1>1, <2>2 DEF Next, vars, Stamp, Insert, Commit, Acknowledge, Fail, Crash, Tick
  <2> QED
    BY <2>1, <2>2
<1>2. /\ s \in Record /\ s.logger \in Loggers /\ s.time <= now + skew[s.logger] /\ s.id < nextId
      /\ s.id \in Nat /\ s.time \in Nat
  <2>1. s \in rows /\ RowInv(s)
    BY DEF TableInv
  <2> QED
    BY <2>1 DEF RowInv, Record
<1>3. /\ \A k \in Loggers : LateDraft(k, s)
      /\ \A r \in rows \ seen : LateRow(r, s)
  BY DEF SnapshotInv
<1>4. ASSUME NEW l \in Loggers, Stamp(l)
      PROVE  (\A k \in Loggers : LateDraft(k, s)') /\ (\A r \in rows' \ seen : LateRow(r, s)')
  <2>1. draft'[l].time = now + skew[l] /\ stage'[l] = "stamped"
    BY <1>4 DEF Stamp
  <2>2. ASSUME NEW k \in Loggers PROVE LateDraft(k, s)'
    <3>1. CASE k = l
      BY <1>2, <2>1, <3>1 DEF LateDraft
    <3>2. CASE k # l
      BY <1>3, <1>4, <3>2 DEF LateDraft, Stamp
    <3> QED
      BY <3>1, <3>2
  <2>3. ASSUME NEW r \in rows' \ seen PROVE LateRow(r, s)'
    BY <1>3, <1>4 DEF LateRow, Stamp
  <2> QED
    BY <2>2, <2>3
<1>5. ASSUME NEW l \in Loggers, Insert(l)
      PROVE  (\A k \in Loggers : LateDraft(k, s)') /\ (\A r \in rows' \ seen : LateRow(r, s)')
  <2>1. draft'[l] = [draft[l] EXCEPT !.id = nextId] /\ stage[l] = "stamped"
    BY <1>5 DEF Insert
  <2>2. /\ draft'[l].logger = draft[l].logger /\ draft'[l].number = draft[l].number
        /\ draft'[l].time = draft[l].time /\ draft'[l].id = nextId
    BY <2>1 DEF Record
  <2>3. ASSUME NEW k \in Loggers PROVE LateDraft(k, s)'
    <3>1. CASE k = l
      BY <1>2, <1>3, <2>1, <2>2, <3>1 DEF LateDraft
    <3>2. CASE k # l
      BY <1>3, <1>5, <3>2 DEF LateDraft, Insert
    <3> QED
      BY <3>1, <3>2
  <2>4. ASSUME NEW r \in rows' \ seen PROVE LateRow(r, s)'
    BY <1>3, <1>5 DEF LateRow, Insert
  <2> QED
    BY <2>3, <2>4
<1>6. ASSUME NEW l \in Loggers, Commit(l)
      PROVE  (\A k \in Loggers : LateDraft(k, s)') /\ (\A r \in rows' \ seen : LateRow(r, s)')
  <2>1. draft[l].logger = l /\ stage[l] = "inserted" /\ LateDraft(l, s)
    BY <1>3, <1>6 DEF Commit, TableInv, DraftInv
  <2>2. ASSUME NEW k \in Loggers PROVE LateDraft(k, s)'
    BY <1>3, <1>6 DEF LateDraft, Commit
  <2>3. ASSUME NEW r \in rows' \ seen PROVE LateRow(r, s)'
    <3>1. CASE r = draft[l]
      BY <2>1, <3>1 DEF LateRow, LateDraft
    <3>2. CASE r \in rows
      BY <1>3, <3>2 DEF LateRow
    <3> QED
      BY <1>6, <3>1, <3>2 DEF Commit
  <2> QED
    BY <2>2, <2>3
<1>7. ASSUME NEW l \in Loggers, Acknowledge(l) \/ Fail(l) \/ Crash(l)
      PROVE  (\A k \in Loggers : LateDraft(k, s)') /\ (\A r \in rows' \ seen : LateRow(r, s)')
  <2>1. /\ stage'[l] \in {"idle", "dead"} /\ \A k \in Loggers \ {l} : stage'[k] = stage[k] /\ draft'[k] = draft[k]
        /\ rows' = rows
    BY <1>7 DEF Acknowledge, Fail, Crash
  <2>2. ASSUME NEW k \in Loggers PROVE LateDraft(k, s)'
    BY <1>3, <2>1 DEF LateDraft
  <2>3. ASSUME NEW r \in rows' \ seen PROVE LateRow(r, s)'
    BY <1>3, <2>1 DEF LateRow
  <2> QED
    BY <2>2, <2>3
<1>8. CASE Tick \/ UNCHANGED vars
  <2>1. UNCHANGED <<stage, draft, rows>>
    BY <1>8 DEF Tick, vars
  <2> QED
    BY <1>3, <2>1 DEF LateDraft, LateRow
<1>9. CASE Snapshot
  BY <1>1, <1>9 DEF SnapshotInv
<1> QED
  BY <1>4, <1>5, <1>6, <1>7, <1>8, <1>9 DEF Next

LEMMA AlwaysIInv == Spec => []IInv
<1>1. Init => IInv
  BY InitHolds
<1>2. IInv /\ [Next]_vars => IInv'
  BY TypedKept, TableKept, CountKept, SnapshotKept DEF IInv
<1> QED
  BY <1>1, <1>2, PTL DEF Spec

-----------------------------------------------------------------------------
(* However appends fail, lose their acknowledgement or die with their       *)
(* process, an acknowledged event is in the table once, and nothing else is *)
(* but what raised after its commit or is about to return.                  *)
THEOREM AlwaysExactlyOnce == Spec => []ExactlyOnce
<1>1. IInv => ExactlyOnce
  <2> SUFFICES ASSUME IInv, NEW l \in Loggers
               PROVE  /\ stage[l] # "dead" =>
                           Cardinality(RowsOf(l)) = acked[l] + left[l] + InFlight(l)
                      /\ Cardinality(RowsOf(l)) \in acked[l] + left[l] .. made[l]
                      /\ \A r, s \in RowsOf(l) : r.number = s.number => r = s
    BY DEF ExactlyOnce
  <2>1. CountInv(l) /\ Cardinality(RowsOf(l)) \in Nat
    BY FS_Subset, FS_CardinalityType DEF IInv, Typed, RowsOf
  <2>2. \A r, s \in RowsOf(l) : r.number = s.number => r = s
    BY DEF IInv, TableInv, PairInv, RowsOf
  <2> QED
    BY <2>1, <2>2 DEF CountInv, IInv, Typed
<1> QED
  BY <1>1, AlwaysIInv, PTL

(* Each execution's events are read back in the order they were logged,     *)
(* whatever the clocks of the hosts that share the table.                   *)
THEOREM AlwaysOwnOrder == Spec => []OwnOrder
<1>1. IInv => OwnOrder
  <2> SUFFICES ASSUME IInv, NEW r \in rows, NEW s \in rows,
                      r.logger = s.logger, r.number < s.number
               PROVE  Before(r, s)
    BY DEF OwnOrder
  <2>1. r \in Record /\ s \in Record /\ PairInv(r, s)
    BY DEF IInv, Typed, TableInv
  <2> QED
    BY <2>1 DEF PairInv, Before, Record
<1> QED
  BY <1>1, AlwaysIInv, PTL

(* A row that appears in front of one already read was being written at the *)
(* first reading, or its clock lags.                                        *)
THEOREM AlwaysLateRows == Spec => []LateRows
<1>1. IInv => LateRows
  <2> SUFFICES ASSUME IInv, NEW r \in rows \ seen, NEW s \in seen, Before(r, s),
                      Call(r) \notin overlap
               PROVE  skew[r.logger] < skew[s.logger]
    BY DEF LateRows
  <2>1. /\ s.time - skew[s.logger] <= r.time - skew[r.logger]
        /\ s.id < r.id
    BY DEF IInv, SnapshotInv, LateRow
  <2>2. /\ r \in Record /\ s \in Record /\ r.logger \in Loggers /\ s.logger \in Loggers
        /\ skew \in [Loggers -> Nat]
    BY DEF IInv, Typed, TableInv, RowInv
  <2> QED
    BY <2>1, <2>2 DEF Before, Record
<1> QED
  BY <1>1, AlwaysIInv, PTL

-----------------------------------------------------------------------------
(* The calls that may have drawn an id: all but those only just stamped. *)
Drawn ==
  {c \in Loggers \X (1 .. MaxEvents) :
     c[2] <= made[c[1]] /\ (c[2] = made[c[1]] => stage[c[1]] # "stamped")}

(* Each call is acknowledged or refused at most once, and not while it is   *)
(* under way.                                                               *)
CallsInv(l) ==
  /\ made[l] <= MaxEvents
  /\ acked[l] + refused[l] <= made[l]
  /\ Writing(l) \/ stage[l] = "committed" => acked[l] + refused[l] < made[l]

(* Numbers and ids count from one, and no call draws a second id. *)
BoundsInv ==
  /\ now <= MaxTime
  /\ skew \in [Loggers -> 0 .. MaxSkew]
  /\ \A l \in Loggers : CallsInv(l)
  /\ \A l \in Loggers : stage[l] = "inserted" => draft[l].id >= 1
  /\ \A r \in rows : r.number >= 1 /\ r.id >= 1
  /\ nextId >= 1 /\ nextId - 1 <= Cardinality(Drawn)

LEMMA DrawnFinite ==
  /\ IsFiniteSet(Loggers \X (1 .. MaxEvents))
  /\ Cardinality(Loggers \X (1 .. MaxEvents)) = Cardinality(Loggers) * MaxEvents
  /\ IsFiniteSet(Drawn) /\ Cardinality(Drawn) \in Nat
  /\ Cardinality(Drawn) <= Cardinality(Loggers) * MaxEvents
<1>1. IsFiniteSet(1 .. MaxEvents) /\ Cardinality(1 .. MaxEvents) = MaxEvents
  BY FS_Interval, BoundsAssumption
<1>2. /\ IsFiniteSet(Loggers \X (1 .. MaxEvents))
      /\ Cardinality(Loggers \X (1 .. MaxEvents)) = Cardinality(Loggers) * MaxEvents
  BY <1>1, FS_Product, LoggersAssumption
<1>3. Drawn \subseteq Loggers \X (1 .. MaxEvents)
  BY DEF Drawn
<1>4. IsFiniteSet(Drawn) /\ Cardinality(Drawn) <= Cardinality(Loggers) * MaxEvents
  BY <1>2, <1>3, FS_Subset
<1> QED
  BY <1>2, <1>4, FS_CardinalityType

(* Only Insert draws an id, and it adds the call it draws it for. *)
LEMMA DrawnGrows ==
  ASSUME IInv, BoundsInv, [Next]_vars
  PROVE  nextId' >= 1 /\ nextId' - 1 <= Cardinality(Drawn)'
<1> USE DEF IInv, Typed, loggers, reader, Moves, Bump, Writing
<1>0. /\ IsFiniteSet(Drawn) /\ Cardinality(Drawn) \in Nat
      /\ IsFiniteSet(Drawn') /\ Cardinality(Drawn)' \in Nat
      /\ nextId \in Nat /\ nextId >= 1 /\ nextId - 1 <= Cardinality(Drawn)
  <2>1. IsFiniteSet(Drawn') /\ Cardinality(Drawn)' \in Nat
    <3>1. Drawn' \subseteq Loggers \X (1 .. MaxEvents)
      BY DEF Drawn
    <3>2. IsFiniteSet(Drawn')
      BY <3>1, DrawnFinite, FS_Subset
    <3> QED
      BY <3>2, FS_CardinalityType
  <2> QED
    BY <2>1, DrawnFinite DEF BoundsInv
<1>1. ASSUME NEW l \in Loggers, Insert(l) PROVE nextId' >= 1 /\ nextId' - 1 <= Cardinality(Drawn)'
  <2>1. /\ stage[l] = "stamped" /\ stage'[l] = "inserted" /\ \A k \in Loggers \ {l} : stage'[k] = stage[k]
        /\ nextId' = nextId + 1 /\ made' = made
    BY <1>1 DEF Insert
  <2>2. made[l] \in 1 .. MaxEvents
    BY <2>1, BoundsAssumption DEF BoundsInv, CallsInv
  <2>3. <<l, made[l]>> \in Drawn' /\ <<l, made[l]>> \notin Drawn
    BY <2>1, <2>2 DEF Drawn
  <2>4. Drawn \subseteq Drawn'
    <3> SUFFICES ASSUME NEW c \in Drawn PROVE c \in Drawn'
      OBVIOUS
    <3> QED
      BY <2>1 DEF Drawn
  <2>5. Drawn \cup {<<l, made[l]>>} \subseteq Drawn'
    BY <2>3, <2>4
  <2>6. Cardinality(Drawn \cup {<<l, made[l]>>}) = Cardinality(Drawn) + 1
    BY <1>0, <2>3, FS_AddElement
  <2>7. Cardinality(Drawn \cup {<<l, made[l]>>}) <= Cardinality(Drawn')
    BY <1>0, <2>5, FS_Subset
  <2> QED
    BY <1>0, <2>1, <2>6, <2>7
<1>2. ASSUME nextId' = nextId, Drawn \subseteq Drawn'
      PROVE  nextId' >= 1 /\ nextId' - 1 <= Cardinality(Drawn)'
  <2>1. Cardinality(Drawn) <= Cardinality(Drawn')
    BY <1>0, <1>2, FS_Subset
  <2> QED
    BY <1>0, <1>2, <2>1
<1>3. ASSUME NEW l \in Loggers, Stamp(l) PROVE nextId' = nextId /\ Drawn \subseteq Drawn'
  <2>1. /\ stage[l] = "idle" /\ made'[l] = made[l] + 1 /\ nextId' = nextId
        /\ \A k \in Loggers \ {l} : stage'[k] = stage[k] /\ made'[k] = made[k]
    BY <1>3 DEF Stamp
  <2> SUFFICES ASSUME NEW c \in Drawn PROVE c \in Drawn'
    BY <2>1
  <2> QED
    BY <2>1 DEF Drawn
<1>4. ASSUME NEW l \in Loggers, Commit(l) \/ Acknowledge(l) \/ Fail(l) \/ Crash(l)
      PROVE  nextId' = nextId /\ Drawn \subseteq Drawn'
  <2>1. /\ stage'[l] # "stamped" /\ \A k \in Loggers \ {l} : stage'[k] = stage[k]
        /\ UNCHANGED <<nextId, made>>
    BY <1>4 DEF Commit, Acknowledge, Fail, Crash
  <2> SUFFICES ASSUME NEW c \in Drawn PROVE c \in Drawn'
    BY <2>1
  <2> QED
    BY <2>1 DEF Drawn
<1>5. CASE Snapshot \/ Tick \/ UNCHANGED vars
  <2>1. UNCHANGED <<stage, made, nextId>>
    BY <1>5 DEF Snapshot, Tick, vars
  <2> QED
    BY <1>2, <2>1 DEF Drawn
<1> QED
  BY <1>1, <1>2, <1>3, <1>4, <1>5 DEF Next

LEMMA BoundsKept == IInv /\ BoundsInv /\ [Next]_vars => BoundsInv'
<1> SUFFICES ASSUME IInv, BoundsInv, [Next]_vars PROVE BoundsInv'
  OBVIOUS
<1>1. nextId' >= 1 /\ nextId' - 1 <= Cardinality(Drawn)'
  BY DrawnGrows
<1> USE DEF IInv, Typed, loggers, reader, Moves, Bump, Writing
<1>2. now' <= MaxTime /\ skew' \in [Loggers -> 0 .. MaxSkew]
  BY BoundsAssumption DEF BoundsInv, Next, vars, Stamp, Insert, Commit, Acknowledge, Fail, Crash, Snapshot, Tick
<1>3. ASSUME NEW k \in Loggers PROVE CallsInv(k)'
  <2>1. CallsInv(k)
    BY DEF BoundsInv
  <2>2. ASSUME NEW l \in Loggers, Stamp(l) PROVE CallsInv(k)'
    BY <2>1, <2>2, BoundsAssumption DEF CallsInv, Stamp
  <2>3. ASSUME NEW l \in Loggers, Insert(l) \/ Commit(l) PROVE CallsInv(k)'
    BY <2>1, <2>3 DEF CallsInv, Insert, Commit
  <2>4. ASSUME NEW l \in Loggers, Acknowledge(l) PROVE CallsInv(k)'
    BY <2>1, <2>4 DEF CallsInv, Acknowledge
  <2>5. ASSUME NEW l \in Loggers, Fail(l) PROVE CallsInv(k)'
    BY <2>1, <2>5 DEF CallsInv, Fail
  <2>6. ASSUME NEW l \in Loggers, Crash(l) PROVE CallsInv(k)'
    BY <2>1, <2>6 DEF CallsInv, Crash
  <2>7. CASE Snapshot \/ Tick \/ UNCHANGED vars
    BY <2>1, <2>7 DEF CallsInv, Snapshot, Tick, vars
  <2> QED
    BY <2>2, <2>3, <2>4, <2>5, <2>6, <2>7 DEF Next
<1>4. ASSUME NEW k \in Loggers, stage'[k] = "inserted" PROVE draft'[k].id >= 1
  <2>1. ASSUME NEW l \in Loggers, Insert(l) PROVE draft'[k].id >= 1
    <3>1. draft'[l] = [draft[l] EXCEPT !.id = nextId] /\ \A m \in Loggers \ {l} : draft'[m] = draft[m] /\ stage'[m] = stage[m]
      BY <2>1 DEF Insert
    <3>2. draft'[l].id = nextId
      BY <3>1 DEF Record
    <3> QED
      BY <1>4, <3>1, <3>2 DEF BoundsInv
  <2>2. ASSUME NEW l \in Loggers, Stamp(l) \/ Commit(l) \/ Acknowledge(l) \/ Fail(l) \/ Crash(l)
        PROVE  draft'[k].id >= 1
    <3>1. stage'[l] # "inserted" /\ \A m \in Loggers \ {l} : draft'[m] = draft[m] /\ stage'[m] = stage[m]
      BY <2>2 DEF Stamp, Commit, Acknowledge, Fail, Crash
    <3> QED
      BY <1>4, <3>1 DEF BoundsInv
  <2>3. CASE Snapshot \/ Tick \/ UNCHANGED vars
    BY <1>4, <2>3 DEF BoundsInv, Snapshot, Tick, vars
  <2> QED
    BY <2>1, <2>2, <2>3 DEF Next
<1>5. \A r \in rows' : r.number >= 1 /\ r.id >= 1
  <2>1. ASSUME NEW l \in Loggers, Commit(l) PROVE \A r \in rows' : r.number >= 1 /\ r.id >= 1
    <3>1. draft[l].number = made[l] /\ draft[l].id >= 1 /\ made[l] >= 1
      BY <2>1 DEF Commit, BoundsInv, CallsInv, TableInv, DraftInv
    <3> QED
      BY <2>1, <3>1 DEF Commit, BoundsInv
  <2>2. ASSUME rows' = rows PROVE \A r \in rows' : r.number >= 1 /\ r.id >= 1
    BY <2>2 DEF BoundsInv
  <2> QED
    BY <2>1, <2>2 DEF Next, vars, Stamp, Insert, Acknowledge, Fail, Crash, Snapshot, Tick
<1> QED
  BY <1>1, <1>2, <1>3, <1>4, <1>5 DEF BoundsInv

(* The types and their bounds, whatever fails: at most one id is drawn for  *)
(* each call, no count passes the calls that were made, and no row has the  *)
(* number of a call still to come or a time its host's clock has not        *)
(* reached.                                                                 *)
THEOREM AlwaysTypeOK == Spec => []TypeOK
<1>1. Init => BoundsInv
  <2> SUFFICES ASSUME Init PROVE BoundsInv
    OBVIOUS
  <2>1. Cardinality(Drawn) \in Nat
    BY DrawnFinite
  <2> QED
    BY <2>1, BoundsAssumption DEF Init, BoundsInv, CallsInv, Writing
<1>2. IInv /\ BoundsInv /\ [Next]_vars => BoundsInv'
  BY BoundsKept
<1>3. IInv /\ BoundsInv => TypeOK
  <2> SUFFICES ASSUME IInv, BoundsInv PROVE TypeOK
    OBVIOUS
  <2> USE DEF IInv, Typed, BoundsInv
  <2>1. now \in 0 .. MaxTime
    BY BoundsAssumption
  <2>2. nextId \in 1 .. Cardinality(Loggers) * MaxEvents + 1
    <3>1. Cardinality(Loggers) * MaxEvents \in Nat
      BY FS_CardinalityType, LoggersAssumption, BoundsAssumption
    <3> DEFINE most == Cardinality(Loggers) * MaxEvents
    <3>2. Cardinality(Drawn) <= most /\ Cardinality(Drawn) \in Nat /\ most \in Nat
      BY <3>1, DrawnFinite
    <3> HIDE DEF most
    <3>3. nextId \in 1 .. most + 1
      BY <3>2
    <3> QED
      BY <3>3 DEF most
  <2>3. ASSUME NEW r \in rows
        PROVE  /\ r.logger \in Loggers /\ r.number \in 1 .. made[r.logger]
               /\ r.time \in 0 .. now + skew[r.logger] /\ r.id \in 1 .. nextId - 1
    <3>1. r \in Record /\ RowInv(r)
      BY DEF TableInv
    <3> QED
      BY <3>1 DEF RowInv, Record
  <2>4. \A l \in Loggers : /\ made[l] \in 0 .. MaxEvents /\ acked[l] \in 0 .. MaxEvents
                           /\ refused[l] \in 0 .. MaxEvents /\ left[l] \in 0 .. MaxEvents
    <3> SUFFICES ASSUME NEW l \in Loggers
                 PROVE  /\ made[l] \in 0 .. MaxEvents /\ acked[l] \in 0 .. MaxEvents
                        /\ refused[l] \in 0 .. MaxEvents /\ left[l] \in 0 .. MaxEvents
      OBVIOUS
    <3>1. CallsInv(l) /\ CountInv(l)
      OBVIOUS
    <3>2. Cardinality(RowsOf(l)) \in Nat
      BY FS_Subset, FS_CardinalityType DEF RowsOf
    <3> QED
      BY <3>1, <3>2, BoundsAssumption DEF CallsInv, CountInv
  <2> QED
    BY <2>1, <2>2, <2>3, <2>4 DEF TypeOK
<1> QED
  BY <1>1, <1>2, <1>3, AlwaysIInv, PTL DEF Spec

(* Two sequences, one an element longer than the other *)
LEMMA Appended ==
  ASSUME NEW n \in Nat, NEW V, NEW q \in [1 .. n -> V], NEW e \in V,
         NEW p, p = [k \in 1 .. n + 1 |-> p[k]],
         \A k \in 1 .. n : p[k] = q[k], p[n + 1] = e
  PROVE  p = Append(q, e)
<1>1. q \in Seq(V) /\ Len(q) = n
  OBVIOUS
<1>2. Append(q, e) \in Seq(V) /\ Len(Append(q, e)) = n + 1
  BY <1>1
<1>3. Append(q, e) \in [1 .. n + 1 -> V]
  <2> DEFINE a == Append(q, e)
  <2>0. a \in Seq(V)
    BY <1>2
  <2> HIDE DEF a
  <2>1. a \in [1 .. Len(a) -> V]
    BY <2>0
  <2> QED
    BY <1>2, <2>1 DEF a
<1>4. \A k \in 1 .. n : Append(q, e)[k] = q[k]
  BY <1>1
<1>5. Append(q, e)[n + 1] = e
  BY <1>1
<1>6. \A k \in 1 .. n + 1 : k \in 1 .. n \/ k = n + 1
  OBVIOUS
<1>7. \A k \in 1 .. n + 1 : Append(q, e)[k] = p[k]
  BY <1>4, <1>5, <1>6
<1>8. Append(q, e) = [k \in 1 .. n + 1 |-> Append(q, e)[k]]
  BY <1>3
<1> QED
  BY <1>7, <1>8

(* A row behind all others is one event more at the end. *)
LEMMA OneLonger ==
  ASSUME NEW R, IsFiniteSet(R), NEW d, d \notin R, ~Before(d, d),
         \A r \in R : Before(r, d) /\ ~Before(d, r) /\ ~Before(r, r)
  PROVE  InOrder(R \cup {d}) = Append(InOrder(R), d.number)
<1> DEFINE n == Cardinality(R)
           S == R \cup {d}
           P(r, k) == Position(r, R) = k
           Q(r, k) == Position(r, S) = k
<1>1. n \in Nat /\ Cardinality(S) = n + 1
  BY FS_CardinalityType, FS_AddElement
<1>2. ASSUME NEW r \in R PROVE Position(r, S) = Position(r, R) /\ Position(r, R) \in 1 .. n
  <2>1. {s \in S : Before(s, r)} = {s \in R : Before(s, r)}
    OBVIOUS
  <2>2. {s \in R : Before(s, r)} \subseteq R \ {r}
    OBVIOUS
  <2>3. /\ IsFiniteSet(R \ {r}) /\ Cardinality(R \ {r}) = n - 1
        /\ Cardinality({s \in R : Before(s, r)}) \in Nat
        /\ Cardinality({s \in R : Before(s, r)}) <= Cardinality(R \ {r})
    <3>1. IsFiniteSet(R \ {r}) /\ Cardinality(R \ {r}) = n - 1
      BY FS_RemoveElement
    <3>2. IsFiniteSet({s \in R : Before(s, r)})
      BY FS_Subset
    <3> QED
      BY <2>2, <3>1, <3>2, FS_Subset, FS_CardinalityType
  <2> QED
    BY <1>1, <2>1, <2>3 DEF Position
<1>3. Position(d, S) = n + 1
  <2>1. {s \in S : Before(s, d)} = R
    OBVIOUS
  <2> QED
    BY <2>1 DEF Position
<1>4. ASSUME NEW k \in 1 .. n
      PROVE  RowAt(k, S) = RowAt(k, R)
  <2>1. \A r : (r \in S /\ Q(r, k)) <=> (r \in R /\ P(r, k))
    BY <1>1, <1>2, <1>3
  <2> HIDE DEF P, Q, S
  <2>2. (CHOOSE r : r \in S /\ Q(r, k)) = (CHOOSE r : r \in R /\ P(r, k))
    BY <2>1
  <2> QED
    BY <2>2 DEF P, Q, S, RowAt
<1>5. RowAt(n + 1, S) = d
  <2>1. \A r \in S : Position(r, S) = n + 1 <=> r = d
    BY <1>1, <1>2, <1>3
  <2> QED
    BY <2>1 DEF RowAt
<1>6. /\ InOrder(S) = [k \in 1 .. n + 1 |-> RowAt(k, S).number]
      /\ InOrder(R) = [k \in 1 .. n |-> RowAt(k, R).number]
  BY <1>1 DEF InOrder
<1> HIDE DEF n, S
<1>7. \A k \in 1 .. n : InOrder(S)[k] = InOrder(R)[k]
  <2>1. \A k \in 1 .. n : k \in 1 .. n + 1
    BY <1>1
  <2> QED
    BY <1>4, <1>6, <2>1
<1>8. InOrder(S)[n + 1] = d.number
  <2>1. n + 1 \in 1 .. n + 1
    BY <1>1
  <2> QED
    BY <1>5, <1>6, <2>1
<1>9. InOrder(S) = [k \in 1 .. n + 1 |-> InOrder(S)[k]]
  BY <1>6
<1> DEFINE V == {InOrder(R)[k] : k \in 1 .. n} \cup {d.number}
<1>10. n \in Nat /\ InOrder(R) \in [1 .. n -> V] /\ d.number \in V
  BY <1>1, <1>6
<1> HIDE DEF V
<1>11. InOrder(S) = Append(InOrder(R), d.number)
  BY <1>1, <1>7, <1>8, <1>9, <1>10, Appended
<1> QED
  BY <1>11 DEF S

(* The table and its loggers are the trail of AuditTrail, against which the *)
(* agents are written: each append puts its event at the end, once, before  *)
(* it returns, and no row before it changes its place.                      *)
THEOREM TrailKept == Spec => ImplementsTrail
<1> DEFINE phase(l) == CASE stage[l] \in {"stamped", "inserted"} -> "open"
                         [] stage[l] = "committed" -> "written"
                         [] OTHER -> stage[l]
           phases == [l \in Loggers |-> phase(l)]
           trails == [l \in Loggers |-> InOrder(RowsOf(l))]
<1>1. Init => Trail!Init
  <2> SUFFICES ASSUME Init PROVE Trail!Init
    OBVIOUS
  <2>1. \A l \in Loggers : RowsOf(l) = {} /\ phase(l) = "idle"
    BY DEF Init, RowsOf
  <2>2. InOrder({}) = <<>>
    <3>1. Cardinality({}) = 0
      BY FS_EmptySet
    <3> QED
      BY <3>1 DEF InOrder
  <2>3. trails = [l \in Loggers |-> <<>>] /\ phases = [l \in Loggers |-> "idle"]
    BY <2>1, <2>2
  <2> QED
    BY <2>3, Zenon DEF Init, Trail!Init
<1>2. IInv /\ [Next]_vars => [Trail!Next]_(Trail!vars)
  <2> SUFFICES ASSUME IInv, [Next]_vars PROVE [Trail!Next]_(Trail!vars)
    OBVIOUS
  <2>0. Typed
    BY DEF IInv
  <2>1. ASSUME NEW l \in Loggers, NEW to,
               stage' = [stage EXCEPT ![l] = to]
        PROVE  \A k \in Loggers \ {l} : phase(k)' = phase(k)
    BY <2>0, <2>1 DEF Typed
  <2>2. ASSUME UNCHANGED rows PROVE trails' = trails
    BY <2>2 DEF RowsOf
  <2>3. ASSUME NEW l \in Loggers, Stamp(l) PROVE Trail!Begin(l)
    <3>1. phase(l) = "idle" /\ phase(l)' = "open"
      BY <2>0, <2>3 DEF Stamp, Moves, Typed
    <3>2. phases[l] = "idle" /\ phases' = [phases EXCEPT ![l] = "open"]
      BY <2>1, <2>3, <3>1 DEF Stamp, Moves
    <3>3. trails' = trails
      BY <2>2, <2>3 DEF Stamp
    <3> QED
      BY <2>3, <3>2, <3>3, Zenon DEF Trail!Begin, Stamp, Bump
  <2>4. ASSUME NEW l \in Loggers, Insert(l) PROVE UNCHANGED Trail!vars
    <3>1. phase(l) = "open" /\ phase(l)' = "open"
      BY <2>0, <2>4 DEF Insert, Moves, Typed
    <3>2. phases' = phases
      BY <2>1, <2>4, <3>1 DEF Insert, Moves
    <3>3. trails' = trails
      BY <2>2, <2>4 DEF Insert
    <3> QED
      BY <2>4, <3>2, <3>3, Zenon DEF Trail!vars, Insert
  <2>5. ASSUME NEW l \in Loggers, Commit(l) PROVE Trail!Write(l)
    <3>1. phase(l) = "open" /\ phase(l)' = "written"
      BY <2>0, <2>5 DEF Commit, Moves, Typed
    <3>2. phases[l] = "open" /\ phases' = [phases EXCEPT ![l] = "written"]
      BY <2>1, <2>5, <3>1 DEF Commit, Moves
    <3>3. /\ draft[l] \in Record /\ draft[l].logger = l /\ draft[l].number = made[l]
          /\ rows' = rows \cup {draft[l]} /\ stage[l] = "inserted"
      BY <2>0, <2>5 DEF Commit, Typed, IInv, TableInv, DraftInv, Writing
    <3>4. ASSUME NEW r \in RowsOf(l)
          PROVE  /\ r \in Record /\ r.number < made[l]
                 /\ Before(r, draft[l]) /\ ~Before(draft[l], r) /\ ~Before(r, r)
      <4>1. r \in rows /\ r \in Record /\ r.logger = l /\ RowInv(r)
        BY <2>0 DEF RowsOf, Typed, IInv, TableInv
      <4>2. r.number < made[l] /\ r.time <= draft[l].time /\ r.id < draft[l].id
        BY <3>3, <4>1 DEF RowInv, Writing
      <4> QED
        BY <3>3, <4>1, <4>2 DEF Before, Record
    <3>5. RowsOf(l)' = RowsOf(l) \cup {draft[l]} /\ \A k \in Loggers \ {l} : RowsOf(k)' = RowsOf(k)
      BY <3>3 DEF RowsOf
    <3>6. draft[l] \notin RowsOf(l) /\ ~Before(draft[l], draft[l])
      BY <2>0, <3>3, <3>4 DEF Before, Record, Typed
    <3>7. IsFiniteSet(RowsOf(l))
      BY <2>0, FS_Subset DEF RowsOf, Typed
    <3>8. InOrder(RowsOf(l))' = Append(InOrder(RowsOf(l)), made[l])
      BY <3>3, <3>4, <3>5, <3>6, <3>7, OneLonger
    <3>9. trails' = [trails EXCEPT ![l] = Append(@, made[l])]
      BY <3>5, <3>8
    <3> QED
      BY <2>5, <3>2, <3>9, Zenon DEF Trail!Write, Commit
  <2>6. ASSUME NEW l \in Loggers, Acknowledge(l) PROVE Trail!Return(l)
    <3>1. phase(l) = "written" /\ phase(l)' = "idle"
      BY <2>0, <2>6 DEF Acknowledge, Moves, Typed
    <3>2. phases[l] = "written" /\ phases' = [phases EXCEPT ![l] = "idle"]
      BY <2>1, <2>6, <3>1 DEF Acknowledge, Moves
    <3>3. trails' = trails
      BY <2>2, <2>6 DEF Acknowledge
    <3> QED
      BY <2>6, <3>2, <3>3, Zenon DEF Trail!Return, Acknowledge, Bump
  <2>7. ASSUME NEW l \in Loggers, Fail(l) PROVE Trail!Raise(l)
    <3>1. phase(l) \in {"open", "written"} /\ phase(l)' = "idle"
      BY <2>0, <2>7 DEF Fail, Moves, Typed
    <3>2. phases[l] \in {"open", "written"} /\ phases' = [phases EXCEPT ![l] = "idle"]
      BY <2>1, <2>7, <3>1 DEF Fail, Moves
    <3>3. trails' = trails
      BY <2>2, <2>7 DEF Fail
    <3> QED
      BY <2>7, <3>2, <3>3, Zenon DEF Trail!Raise, Fail, Bump
  <2>8. ASSUME NEW l \in Loggers, Crash(l) PROVE Trail!Die(l)
    <3>1. phase(l) # "dead" /\ phase(l)' = "dead"
      BY <2>0, <2>8 DEF Crash, Moves, Typed
    <3>2. phases[l] # "dead" /\ phases' = [phases EXCEPT ![l] = "dead"]
      BY <2>1, <2>8, <3>1 DEF Crash, Moves
    <3>3. trails' = trails
      BY <2>2, <2>8 DEF Crash
    <3> QED
      BY <2>8, <3>2, <3>3, Zenon DEF Trail!Die, Crash
  <2>9. CASE Snapshot \/ Tick \/ UNCHANGED vars
    <3>1. UNCHANGED <<stage, made, rows, acked, refused>>
      BY <2>9 DEF Snapshot, Tick, vars, loggers
    <3>2. phases' = phases /\ trails' = trails
      BY <2>2, <3>1
    <3> QED
      BY <3>1, <3>2, Zenon DEF Trail!vars
  <2> QED
    BY <2>3, <2>4, <2>5, <2>6, <2>7, <2>8, <2>9 DEF Next, Trail!Next
<1> QED
  BY <1>1, <1>2, AlwaysIInv, PTL DEF Spec, ImplementsTrail, Trail!Spec
=============================================================================
