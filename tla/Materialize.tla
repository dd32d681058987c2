----------------------------- MODULE Materialize -----------------------------
(***************************************************************************)
(* Dated sessions from recurring schedules (scheduling/materialization.py):*)
(* inside the activation of a term, by the scheduler's job and by the IFO  *)
(* console after it adds a class.  The last two run outside any            *)
(* transaction and take no lock: every session is a get, then an insert.   *)
(***************************************************************************)
EXTENDS TermLifecycle

\* What a materialization of t from start is to create: the occurrences of
\* active schedules within so many days and the term that nothing excuses.
Wanted(t, start, days) ==
  {x \in Schedules \X (start..(start + days - 1)) :
     /\ TermOf[x[1]] = t /\ schedule[x[1]] = "active"
     /\ x[2] \in MeetsOn[x[1]]
     /\ First[t] <= x[2] /\ x[2] <= Last[t]
     /\ <<t, x[2]>> \notin suspended}

-----------------------------------------------------------------------------
(***************************************************************************)
(* Activation: the term and any active term are locked, the sessions of    *)
(* the first horizon are created, and all of it becomes visible with the   *)
(* new status.  The database's unique index on the active status refuses   *)
(* the commit when another term has become active meanwhile.               *)
(***************************************************************************)
MaxOf(a, b) == IF a < b THEN b ELSE a

activate_preflight(w, t) ==
  LET todo == Wanted(t, MaxOf(today, First[t]), Horizon)
  IN  /\ term[t] = "draft"
      /\ ActiveTerms = {}
      /\ \A x \in todo : Len(sess[x]) <= 1
      /\ Begin(w, "activate", t, {t}, {x \in todo : sess[x] = << >>})

activate_term(w) ==
  /\ Ready(w, "activate")
  /\ ActiveTerms = {}
  /\ term' = [term EXCEPT ![req[w].t] = "active"]
  /\ sess' = [x \in Occurrences |->
                IF x \in req[w].todo THEN Append(sess[x], "scheduled") ELSE sess[x]]
  /\ Done(w)
  /\ UNCHANGED <<today, schedule, suspended, crashes>>

-----------------------------------------------------------------------------
\* The IFO console adds a class to the active term, then materializes.
schedule_new(w, s) ==
  /\ "schedule_new" \in Ops
  /\ req[w].pc = "idle"
  /\ schedule[s] = "none" /\ term[TermOf[s]] = "active"
  /\ schedule' = [schedule EXCEPT ![s] = "active"]
  /\ req' = [req EXCEPT ![w] = [Idle EXCEPT !.pc = "start", !.op = "materialize"]]
  /\ UNCHANGED <<today, term, sess, suspended, crashes>>

\* The active term, the calendar and the schedules are read once.
materialize_sessions(w) ==
  /\ \/ w = Scheduler /\ req[w].pc = "idle"
     \/ req[w].pc = "start"
  /\ \E t \in ActiveTerms :
       req' = [req EXCEPT ![w] = [Idle EXCEPT !.pc = "fill", !.op = "materialize",
                                              !.t = t, !.todo = Wanted(t, today, JobDays)]]
  /\ UNCHANGED <<today, term, schedule, sess, suspended, crashes>>

\* With no active term the command fails; the web request ends in an error.
materialize_no_term(w) ==
  /\ req[w].pc = "start"
  /\ ActiveTerms = {}
  /\ Done(w)
  /\ UNCHANGED <<today, term, schedule, sess, suspended, crashes>>

\* Mutant: an occurrence already on file ends the run.
get_or_create_strict(w, x) ==
  /\ req[w].pc = "fill" /\ x \in req[w].todo
  /\ \A y \in req[w].todo : x[2] <= y[2]
  /\ req' = [req EXCEPT ![w] =
               IF sess[x] = << >> THEN [req[w] EXCEPT !.pc = "insert", !.x = x] ELSE Idle]
  /\ UNCHANGED <<today, term, schedule, sess, suspended, crashes>>

\* One occurrence, day by day: none on file, the insert follows; one, it is
\* kept; several, the get raises and the rest of the run is lost.
get_or_create(w, x) ==
  /\ req[w].pc = "fill" /\ x \in req[w].todo
  /\ \A y \in req[w].todo : x[2] <= y[2]
  /\ req' = [req EXCEPT ![w] =
               IF sess[x] = << >> THEN [req[w] EXCEPT !.pc = "insert", !.x = x]
               ELSE IF Len(sess[x]) = 1 THEN [req[w] EXCEPT !.todo = @ \ {x}]
               ELSE Idle]
  /\ UNCHANGED <<today, term, schedule, sess, suspended, crashes>>

\* The insert: no constraint makes the schedule and the date unique.
insert_session(w) ==
  /\ req[w].pc = "insert"
  /\ sess' = [sess EXCEPT ![req[w].x] = Append(@, "scheduled")]
  /\ req' = [req EXCEPT ![w].pc = "fill", ![w].x = None,
                        ![w].todo = @ \ {req[w].x}]
  /\ UNCHANGED <<today, term, schedule, suspended, crashes>>

materialize_done(w) ==
  /\ req[w].pc = "fill" /\ req[w].todo = {}
  /\ Done(w)
  /\ UNCHANGED <<today, term, schedule, sess, suspended, crashes>>
=============================================================================
