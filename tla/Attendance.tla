----------------------------- MODULE Attendance -----------------------------
(***************************************************************************)
(* Attendance as a whole: faculty scans, online starts, checker actions,   *)
(* facilities-office writes and the status sweep, all on the same session  *)
(* rows, interleaved, with crashes and rolled-back transactions.           *)
(***************************************************************************)
EXTENDS OnlineFlow, IfoOps, StatusSweep

FacultyMembers == {FacultyOf[s] : s \in Sessions}

Scan(w) ==
  \/ \E f \in FacultyMembers, r \in Rooms :
       \/ scan_resolve_token(w, f, r)
       \/ \E m \in ScanMethods : scan_resolve(w, f, r, m)
  \/ \E tk \in token : scan_confirm(w, tk)

Apply(w) ==
  \/ apply_absent_read(w) \/ apply_absent(w) \/ apply_end(w)
  \/ apply_wrong_room(w) \/ apply_handover_read(w)

Transact(w) ==
  read_clock(w) \/ anchor_write(w) \/ propagate_select(w) \/ commit(w)

OnlineClass(w) ==
  \/ \E s \in Sessions : \/ online_start(w, s)
                         \/ \E a \in {"verified", "flag"} : online_action(w, s, a)
  \/ record_validation(w)

Office(w) ==
  \/ \E k \in Suspensions : suspend_list(w, k) \/ lift_list(w, k)
  \/ \E s \in Sessions : \/ session_release(w, s) \/ session_reinstate(w, s)
                         \/ \E re \in CancelReasons : cancel_list(w, s, re)
  \/ cancel_commit(w) \/ lift_commit(w) \/ release_room(w) \/ reinstate_write(w)

Calendar ==
  \/ \E b \in Breaks : break_create(b) \/ break_delete(b)
  \/ \E r \in Rooms : room_toggle_service(r)

Sweeping ==
  \/ sweep_start \/ sweep_list \/ (\E s \in Sessions : sweep_mark(s))
  \/ conflicts_read \/ conflicts_flag

Next ==
  \/ \E w \in Workers : \/ Scan(w) \/ Apply(w) \/ Transact(w)
                        \/ OnlineClass(w) \/ Office(w) \/ Abort(w)
  \/ Calendar \/ Sweeping \/ sweep_crash \/ Tick

Spec == Init /\ [][Next]_vars

(***************************************************************************)
(* Fairness.  The scheduler runs the sweep on an interval for as long as   *)
(* its process lives (max_instances=1, a failed run does not stop the      *)
(* next), a worker finishes or abandons the request it serves (database    *)
(* and proxy timeouts), and the clock advances.  Users owe nothing.        *)
(***************************************************************************)
Fairness ==
  /\ WF_vars(Sweeping)
  /\ \A w \in Workers : WF_vars(Apply(w) \/ Transact(w) \/ Abort(w))
  /\ WF_vars(Tick)

FairSpec == Spec /\ Fairness

-----------------------------------------------------------------------------
(***************************************************************************)
(* Properties of the whole.                                                *)
(***************************************************************************)
\* A session is never absent before its grace window has closed, unless a
\* checker flagged that online class not-present: the resolver, the sweep
\* and the merged-group fill agree on one no-show rule although each of
\* them decides on rows it read earlier.
NoEarlyAbsent ==
  \A s \in Sessions :
    row[s].status = "absent" =>
      \/ is_no_show_past_grace(s, now)
      \/ s \in Online /\ <<s, "flag">> \in validations

\* Nobody is present on another's account: a row filled as "merged" belongs
\* to a faculty member who was really checked in, by a method of their own,
\* on a session of that same start.
MergedHasAnchor ==
  \A s \in Sessions :
    row[s].method = "merged" =>
      \E t \in Sessions \ {s} : /\ FacultyOf[t] = FacultyOf[s]
                                /\ Start[t] = Start[s]
                                /\ row[t].method \notin {"merged", None}

\* The presence a room scan records was claimed inside the session's window:
\* the scan came after the window opened and within grace, and a handover,
\* which nothing resolves again, at most a token's lifetime later.
PresentWithinGrace ==
  [][\A w \in Workers :
       commit(w) =>
         /\ req[w].op = "checked-in" =>
              /\ Start[req[w].s] <= req[w].born + OpenLead
              /\ req[w].born <= Start[req[w].s] + Grace
         /\ req[w].op = "room-occupied" =>
              req[w].born <= Start[req[w].s] + Grace + TokenAge]_vars

\* The sweep never overwrites what a person did: whenever it changes a row,
\* that row was still scheduled, and all it changes is the status - it never
\* touches the room hold.
SweepOnlyMarksScheduled ==
  [][sweep' # sweep =>
       \A s \in Sessions :
         row'[s] # row[s] =>
           /\ row[s].status = "scheduled"
           /\ row'[s] = [row[s] EXCEPT !.status = "absent"]]_vars

\* A suspension never cancels a class that is in session: merge propagation
\* and suspend_classes both hold the term lock from their listing to their
\* commit, so no row on the suspension's list turns active before the update.
SuspendSparesPresent ==
  [][\A w \in Workers :
       cancel_commit(w) /\ req[w].op = "suspend" =>
         \A s \in req[w].ids : row[s].status # "active"]_vars

\* Every session past grace that nothing excuses is settled in the end: it
\* leaves "scheduled", or becomes excused.
NoShowsSettle ==
  \A s \in Sessions :
    (row[s].status = "scheduled" /\ is_no_show_past_grace(s, now))
      ~> (row[s].status # "scheduled" \/ Excused(s, breaks, ActiveSuspensions))

\* A room conflict that stays is in the end on the office's conflicts page,
\* with the sessions in each other's way, and a row whose conflict is gone for
\* good leaves the page in the end: nothing but the sweep closes a flag.
ConflictsAreTracked ==
  \A r \in Rooms :
    /\ <>[](r \in ConflictRooms) =>
         <>[](r \in DOMAIN conflicts /\ Cardinality(conflicts[r]) > 1)
    /\ <>[](r \notin ConflictRooms) => <>[](r \notin DOMAIN conflicts)

\* "a schedule edit never rewrites history" (scheduling/schedule_ops.py):
\* dropping a class cancels only rows that are still scheduled.
ScheduleEditKeepsHistory ==
  [][\A w \in Workers :
       cancel_commit(w) /\ req[w].op = "cancel" =>
         \A s \in req[w].ids : row[s].status = "scheduled"]_vars
=============================================================================
