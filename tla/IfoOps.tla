------------------------------- MODULE IfoOps -------------------------------
(***************************************************************************)
(* The facilities office's writes on session rows and on the calendar:     *)
(* suspensions, breaks, dropped classes, manual room release, absent       *)
(* correction, room service (web/ifo.py, scheduling/suspensions.py,        *)
(* scheduling/schedule_ops.py, ops/occupancy.py).                          *)
(***************************************************************************)
EXTENDS SessionTable

Serve(w, op, name, r) ==
  /\ name \in Ops
  /\ req[w].pc = "idle"
  /\ req' = [req EXCEPT ![w] = [r EXCEPT !.op = op]]

\* Mutant: the suspension does not lock the term.
suspend_list_unlocked(w, k) ==
  /\ sus[k] = "none"
  /\ \A v \in Workers : ~(req[v].op = "suspend" /\ req[v].k = k)
  /\ Serve(w, "suspend", "suspend",
           [Idle EXCEPT !.pc = "fill", !.k = k, !.reason = SusReason[k],
              !.ids = {s \in Sessions : /\ row[s].status = "scheduled"
                                        /\ covers(k, BuildingOf[row[s].room])}])
  /\ UNCHANGED <<now, row, breaks, sus, outOfService, token, idem, cidem,
                 validations, sweep, flags>>

\* Under the term lock: the covered scheduled sessions are listed.
suspend_list(w, k) ==
  /\ sus[k] = "none"
  /\ \A v \in Workers : ~(req[v].op = "suspend" /\ req[v].k = k)
  /\ TermFree
  /\ Serve(w, "suspend", "suspend",
           [Idle EXCEPT !.pc = "fill", !.k = k, !.reason = SusReason[k],
              !.ids = {s \in Sessions : /\ row[s].status = "scheduled"
                                        /\ covers(k, BuildingOf[row[s].room])}])
  /\ UNCHANGED <<now, row, breaks, sus, outOfService, token, idem, cidem,
                 validations, sweep, flags>>

\* The rows an update by primary key leaves behind.
Cancelled(r) ==
  [s \in Sessions |->
     IF s \in r.ids
     THEN [row[s] EXCEPT !.status = "cancelled", !.reason = r.reason,
                         !.cancelledBy = r.k]
     ELSE row[s]]

\* suspend_classes and cancel_schedule update the ids they have listed, by
\* primary key, and commit; a suspension becomes visible with its flips.
cancel_commit(w) ==
  /\ req[w].pc = "fill" /\ req[w].op \in {"suspend", "cancel"}
  /\ \A s \in req[w].ids : RowFree(w, s)
  /\ row' = Cancelled(req[w])
  /\ sus' = IF req[w].op = "suspend" THEN [sus EXCEPT ![req[w].k] = "active"] ELSE sus
  /\ req' = [req EXCEPT ![w] = Idle]
  /\ UNCHANGED <<now, breaks, outOfService, token, idem, cidem, validations, sweep,
                 flags>>

\* Lifting locks the suspension row and lists the cancelled sessions in its
\* scope that carry its reason text.
lift_list(w, k) ==
  /\ sus[k] = "active"
  /\ \A v \in Workers : ~(req[v].op = "lift" /\ req[v].k = k)
  /\ Serve(w, "lift", "lift",
           [Idle EXCEPT !.pc = "fill", !.k = k,
              !.ids = {s \in Sessions : /\ row[s].status = "cancelled"
                                        /\ row[s].reason = SusReason[k]
                                        /\ covers(k, BuildingOf[row[s].room])}])
  /\ UNCHANGED <<now, row, breaks, sus, outOfService, token, idem, cidem,
                 validations, sweep, flags>>

Reinstated(r) ==
  [s \in Sessions |->
     IF s \in r.ids THEN [row[s] EXCEPT !.status = "scheduled", !.reason = None]
     ELSE row[s]]

lift_commit(w) ==
  /\ req[w].pc = "fill" /\ req[w].op = "lift"
  /\ \A s \in req[w].ids : RowFree(w, s)
  /\ row' = Reinstated(req[w])
  /\ sus' = [sus EXCEPT ![req[w].k] = "lifted"]
  /\ req' = [req EXCEPT ![w] = Idle]
  /\ UNCHANGED <<now, breaks, outOfService, token, idem, cidem, validations, sweep,
                 flags>>

\* Dropping a class locks its schedule row, not the term.
cancel_list(w, s, reason) ==
  /\ row[s].status = "scheduled"
  /\ \A v \in Workers : ~(req[v].op = "cancel" /\ req[v].s = s)
  /\ Serve(w, "cancel", "cancel",
           [Idle EXCEPT !.pc = "fill", !.s = s, !.reason = reason, !.ids = {s}])
  /\ UNCHANGED <<now, row, breaks, sus, outOfService, token, idem, cidem,
                 validations, sweep, flags>>

-----------------------------------------------------------------------------
\* Manual release is re-gated on the row, then stamped.
session_release(w, s) ==
  /\ ~row[s].released
  /\ row[s].status \in {"scheduled", "active"}
  /\ Serve(w, "release", "release", [Idle EXCEPT !.pc = "apply", !.s = s])
  /\ UNCHANGED <<now, row, breaks, sus, outOfService, token, idem, cidem,
                 validations, sweep, flags>>

release_room(w) ==
  /\ req[w].pc = "apply" /\ req[w].op = "release"
  /\ RowFree(w, req[w].s)
  /\ row' = [row EXCEPT ![req[w].s].released = TRUE]
  /\ req' = [req EXCEPT ![w] = Idle]
  /\ UNCHANGED <<now, breaks, sus, outOfService, token, idem, cidem, validations,
                 sweep, flags>>

\* An absent record is corrected to held, starting as scheduled where no actual
\* start is known; the value written is the one read.
session_reinstate(w, s) ==
  /\ row[s].status = "absent"
  /\ Serve(w, "reinstate", "reinstate",
           [Idle EXCEPT !.pc = "apply", !.s = s,
              !.at = IF row[s].actual_start = None THEN Start[s] ELSE row[s].actual_start])
  /\ UNCHANGED <<now, row, breaks, sus, outOfService, token, idem, cidem,
                 validations, sweep, flags>>

reinstate_write(w) ==
  /\ req[w].pc = "apply" /\ req[w].op = "reinstate"
  /\ RowFree(w, req[w].s)
  /\ row' = [row EXCEPT ![req[w].s].status = "completed",
                        ![req[w].s].actual_start = req[w].at]
  /\ req' = [req EXCEPT ![w] = Idle]
  /\ UNCHANGED <<now, breaks, sus, outOfService, token, idem, cidem, validations,
                 sweep, flags>>

-----------------------------------------------------------------------------
\* A break is a calendar row only: materialized sessions are left scheduled.
break_create(b) ==
  /\ "break" \in Ops
  /\ b \notin breaks
  /\ breaks' = breaks \cup {b}
  /\ UNCHANGED <<now, row, sus, outOfService, token, idem, cidem, validations, req,
                 sweep, flags>>

break_delete(b) ==
  /\ b \in breaks
  /\ breaks' = breaks \ {b}
  /\ UNCHANGED <<now, row, sus, outOfService, token, idem, cidem, validations, req,
                 sweep, flags>>

room_toggle_service(r) ==
  /\ "service" \in Ops
  /\ outOfService' = IF r \in outOfService THEN outOfService \ {r}
                     ELSE outOfService \cup {r}
  /\ UNCHANGED <<now, row, breaks, sus, token, idem, cidem, validations, req, sweep,
                 flags>>
=============================================================================
