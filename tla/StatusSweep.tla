---------------------------- MODULE StatusSweep ----------------------------
(***************************************************************************)
(* The status sweep job of the single scheduler process: sweep_no_shows    *)
(* followed by detect_room_conflicts (scheduling/jobs.py).  The calendar   *)
(* and the candidates are read once; each candidate is then marked in a    *)
(* transaction of its own.                                                 *)
(***************************************************************************)
EXTENDS SessionTable

\* The clock and the excusing breaks and suspensions are read once.
sweep_start ==
  /\ "sweep" \in Ops
  /\ sweep.pc = "idle"
  /\ sweep' = [SweepIdle EXCEPT !.pc = "list", !.at = now, !.breaks = breaks,
                                !.sus = ActiveSuspensions]
  /\ UNCHANGED <<now, row, breaks, sus, outOfService, token, idem, cidem,
                 validations, req, flags>>

\* Mutant: no backfill, only classes still running are swept.
sweep_list_running ==
  /\ sweep.pc = "list"
  /\ sweep' = [sweep EXCEPT !.pc = "mark",
                 !.candidates = {s \in Sessions :
                                   /\ row[s].status = "scheduled"
                                   /\ is_no_show_past_grace(s, sweep.at)
                                   /\ sweep.at < End[s]
                                   /\ ~Excused(s, sweep.breaks, sweep.sus)}]
  /\ UNCHANGED <<now, row, breaks, sus, outOfService, token, idem, cidem,
                 validations, req, flags>>

\* The scheduled, unexcused sessions past grace are listed.
sweep_list ==
  /\ sweep.pc = "list"
  /\ sweep' = [sweep EXCEPT !.pc = "mark",
                 !.candidates = {s \in Sessions :
                                   /\ row[s].status = "scheduled"
                                   /\ is_no_show_past_grace(s, sweep.at)
                                   /\ ~Excused(s, sweep.breaks, sweep.sus)}]
  /\ UNCHANGED <<now, row, breaks, sus, outOfService, token, idem, cidem,
                 validations, req, flags>>

\* Mutant: the stale instance is saved without the status filter.
sweep_mark_unguarded(s) ==
  /\ sweep.pc = "mark" /\ s \in sweep.candidates
  /\ RowUnlocked(s)
  /\ row' = [row EXCEPT ![s].status = "absent"]
  /\ sweep' = [sweep EXCEPT !.candidates = @ \ {s}]
  /\ UNCHANGED <<now, breaks, sus, outOfService, token, idem, cidem, validations,
                 req, flags>>

\* One candidate: the update is filtered on the status, so a check-in that
\* committed since the listing wins.
sweep_mark(s) ==
  /\ sweep.pc = "mark" /\ s \in sweep.candidates
  /\ RowUnlocked(s)
  /\ row' = IF row[s].status = "scheduled"
            THEN [row EXCEPT ![s].status = "absent"] ELSE row
  /\ sweep' = [sweep EXCEPT !.candidates = @ \ {s}]
  /\ UNCHANGED <<now, breaks, sus, outOfService, token, idem, cidem, validations,
                 req, flags>>

\* The rooms held by two or more active sessions are read ...
conflicts_read ==
  /\ sweep.pc = "mark" /\ sweep.candidates = {}
  /\ sweep' = [sweep EXCEPT !.pc = "flag", !.conflicts = ConflictRooms]
  /\ UNCHANGED <<now, row, breaks, sus, outOfService, token, idem, cidem,
                 validations, req, flags>>

\* Mutant: flags are opened and never resolved.
conflicts_flag_no_resolve ==
  /\ sweep.pc = "flag"
  /\ flags' = flags \cup sweep.conflicts
  /\ sweep' = SweepIdle
  /\ UNCHANGED <<now, row, breaks, sus, outOfService, token, idem, cidem,
                 validations, req>>

\* ... open flags of rooms not among them are resolved, and a flag is opened
\* for each room among them that has none: the open flags are then theirs.
conflicts_flag ==
  /\ sweep.pc = "flag"
  /\ flags' = sweep.conflicts
  /\ sweep' = SweepIdle
  /\ UNCHANGED <<now, row, breaks, sus, outOfService, token, idem, cidem,
                 validations, req>>

\* The office's page: each open flag with the sessions still holding the room,
\* read afresh when the page is opened.
contending_sessions(r) ==
  {s \in Sessions : row[s].room = r /\ row[s].status = "active" /\ ~row[s].released}

conflicts == [r \in flags |-> contending_sessions(r)]

\* The job fails or the scheduler process restarts: marks already committed
\* stand, the rest of the run is lost.
sweep_crash ==
  /\ "crash" \in Ops
  /\ sweep.pc # "idle"
  /\ sweep' = SweepIdle
  /\ UNCHANGED <<now, row, breaks, sus, outOfService, token, idem, cidem,
                 validations, req, flags>>
=============================================================================
