------------------------------- MODULE Tracer -------------------------------
(***************************************************************************)
(* OpenTelemetryTracer: the spans one request has open and how they nest.   *)
(* A tracer is a record of                                                  *)
(*   active    the open spans, by handle                                    *)
(*   current   the span each asyncio task has as its context                *)
(*   exported  the finished spans                                           *)
(* A handle is a pair of the span's name and the task that started it: no   *)
(* task has two spans of one name open at a time.  The context is private   *)
(* to a task; a new task inherits a copy of its creator's.                  *)
(***************************************************************************)
EXTENDS TLC

NoSpan == <<"none", "none">>
Unknown == "unknown"

(* Next to some definitions stands a mutated form of it, named for the slip *)
(* it makes; the specification never uses those.                            *)

NewTracer(tasks) ==
  [active |-> <<>>, current |-> [t \in tasks |-> NoSpan], exported |-> {}]

Inherit(tracer, tasks, creator) ==
  [tracer EXCEPT !.current = [t \in DOMAIN @ |-> IF t \in tasks THEN @[creator] ELSE @[t]]]

IsActive(tracer, handle) == handle \in DOMAIN tracer.active

(* _propagate_identity: the open ancestors learn the run's id, up to the    *)
(* first that is no longer open.                                            *)
Ancestry(active, handle) ==
  LET Up[h \in DOMAIN active] ==
        {h} \cup (IF active[h].parent \in DOMAIN active THEN Up[active[h].parent] ELSE {})
  IN IF handle \in DOMAIN active THEN Up[handle] ELSE {}

PropagateIdentity(active, handle, run) ==
  IF run = Unknown THEN active
  ELSE [h \in DOMAIN active |->
          IF h \in Ancestry(active, handle) THEN [active[h] EXCEPT !.run = run] ELSE active[h]]

With(active, handle, span) ==
  [h \in DOMAIN active \cup {handle} |-> IF h = handle THEN span ELSE active[h]]

(* start_span: a child of the task's context becomes the task's context. *)
StartSpanGlobally(tracer, task, name, run) ==
  LET parent == tracer.current[task]
      span == [parent |-> parent, run |-> run, error |-> FALSE, success |-> TRUE]
  IN [tracer EXCEPT
        !.active = PropagateIdentity(With(@, <<name, task>>, span), parent, run),
        !.current = [t \in DOMAIN @ |-> <<name, task>>]]

StartSpan(tracer, task, name, run) ==
  LET parent == tracer.current[task]
      span == [parent |-> parent, run |-> run, error |-> FALSE, success |-> TRUE]
  IN [tracer EXCEPT
        !.active = PropagateIdentity(With(@, <<name, task>>, span), parent, run),
        !.current[task] = <<name, task>>]

(* record_exception and set_attribute(success), on an open span only *)
RecordException(tracer, handle) == [tracer EXCEPT !.active[handle].error = TRUE]
SetSuccess(tracer, handle, value) == [tracer EXCEPT !.active[handle].success = value]

(* end_span: the span is exported and its task is back in the parent. *)
EndSpan(tracer, handle) ==
  LET span == tracer.active[handle]
  IN [active |-> [h \in DOMAIN tracer.active \ {handle} |-> tracer.active[h]],
      current |-> [tracer.current EXCEPT ![handle[2]] = span.parent],
      exported |-> tracer.exported \cup
        {[handle |-> handle, parent |-> span.parent, run |-> span.run,
          error |-> span.error, success |-> span.success]}]

(* TracedAuditLogger and TracedTrackingClient: a span around one call. *)
TracedCall(tracer, task, name, run, succeeds) ==
  LET handle == <<name, task>>
      started == StartSpan(tracer, task, name, run)
      marked == SetSuccess(started, handle, succeeds)
  IN EndSpan(IF succeeds THEN marked ELSE RecordException(marked, handle), handle)
TracedAuditCall(tracer, task, name, run, succeeds) ==
  TracedCall(tracer, task, name, run, succeeds)
TracedTrackingCall(tracer, task, name, run, succeeds) ==
  TracedCall(tracer, task, name, run, succeeds)
=============================================================================
