------------------------------- MODULE Terms -------------------------------
(***************************************************************************)
(* The term lifecycle together with everything that writes a term's        *)
(* sessions meanwhile: materialization, check-ins, suspensions and dropped *)
(* classes.  A check-in is here what module Attendance refines: its reads, *)
(* the term lock its merged-group fill takes, its commit.                  *)
(***************************************************************************)
EXTENDS Materialize

\* A scan resolved against the active term's sessions of the day.
checkin_read(w, x, i) ==
  /\ "checkin" \in Ops
  /\ req[w].pc = "idle"
  /\ x[2] = today /\ i \in DOMAIN sess[x]
  /\ term[TermOf[x[1]]] = "active" /\ sess[x][i] = "scheduled"
  /\ req' = [req EXCEPT ![w] = [Idle EXCEPT !.pc = "apply", !.op = "checkin",
                                            !.t = TermOf[x[1]], !.x = x, !.n = i]]
  /\ UNCHANGED <<today, term, schedule, sess, suspended, crashes>>

\* Mutant: the fill does not ask whether the term is still writable.
checkin_lock_any_term(w) ==
  /\ req[w].pc = "apply"
  /\ LockFree(w, {req[w].t})
  /\ req' = [req EXCEPT ![w].pc = "locked", ![w].locks = {req[w].t}]
  /\ UNCHANGED <<today, term, schedule, sess, suspended, crashes>>

\* The fill locks the term; an archived one rolls the check-in back.
checkin_lock(w) ==
  /\ req[w].pc = "apply"
  /\ LockFree(w, {req[w].t})
  /\ req' = [req EXCEPT ![w] =
               IF term[req[w].t] = "archived" THEN Idle
               ELSE [@ EXCEPT !.pc = "locked", !.locks = {req[w].t}]]
  /\ UNCHANGED <<today, term, schedule, sess, suspended, crashes>>

checkin_commit(w) ==
  /\ Ready(w, "checkin")
  /\ sess' = [sess EXCEPT ![req[w].x][req[w].n] = "active"]
  /\ Done(w)
  /\ UNCHANGED <<today, term, schedule, suspended, crashes>>

\* The faculty member ends a class.
check_out(x, i) ==
  /\ "checkin" \in Ops
  /\ i \in DOMAIN sess[x] /\ sess[x][i] = "active"
  /\ sess' = [sess EXCEPT ![x][i] = "ended"]
  /\ UNCHANGED <<today, term, schedule, suspended, req, crashes>>

-----------------------------------------------------------------------------
\* The session rows in S, with those still scheduled cancelled.
Cancelled(S) ==
  [x \in Occurrences |->
     IF x \in S THEN [i \in DOMAIN sess[x] |->
                        IF sess[x][i] = "scheduled" THEN "cancelled" ELSE sess[x][i]]
     ELSE sess[x]]

\* A day of the active term is suspended under the term lock: no check-in or
\* lifecycle transaction is inside it.
suspend_classes(t, d) ==
  /\ "suspend" \in Ops
  /\ term[t] = "active"
  /\ \A v \in Procs : t \notin req[v].locks
  /\ suspended' = suspended \cup {<<t, d>>}
  /\ sess' = Cancelled({x \in OccurrencesOf(t) : x[2] = d})
  /\ UNCHANGED <<today, term, schedule, req, crashes>>

\* A class is dropped: its schedule is archived, its future sessions cancelled.
cancel_schedule(s) ==
  /\ "cancel" \in Ops
  /\ schedule[s] = "active" /\ term[TermOf[s]] = "active"
  /\ schedule' = [schedule EXCEPT ![s] = "archived"]
  /\ sess' = Cancelled({x \in Occurrences : x[1] = s /\ today <= x[2]})
  /\ UNCHANGED <<today, term, suspended, req, crashes>>

-----------------------------------------------------------------------------
\* A worker fails before its commit, or its commit breaks a constraint.
Abort(w) ==
  /\ req[w].pc # "idle"
  /\ Done(w)
  /\ UNCHANGED <<today, term, schedule, sess, suspended, crashes>>

\* The scheduler restarts in the middle of a run: its inserts stand.
scheduler_crash ==
  /\ crashes < MaxCrashes
  /\ req[Scheduler].pc # "idle"
  /\ Done(Scheduler)
  /\ crashes' = crashes + 1
  /\ UNCHANGED <<today, term, schedule, sess, suspended>>

NextDay ==
  /\ today < MaxDate
  /\ today' = today + 1
  /\ UNCHANGED <<term, schedule, sess, suspended, req, crashes>>

\* The office's two term forms: the one that creates a draft, and the one that
\* moves a term on.  What a form showed before its POST decides nothing.
Creating(w) == (\E t \in Terms : create_preflight(w, t)) \/ create_term(w)

Lifecycle(w) ==
  \/ Creating(w)
  \/ \E t \in Terms : \/ activate_preflight(w, t) \/ close_preflight(w, t)
                      \/ reopen_preflight(w, t)
  \/ activate_term(w) \/ close_term(w) \/ reopen_term(w)

Materializing(w) ==
  \/ materialize_sessions(w) \/ materialize_no_term(w)
  \/ \E x \in Occurrences : get_or_create(w, x)
  \/ insert_session(w) \/ materialize_done(w)

CheckIn(w) ==
  \/ \E x \in Occurrences : \E i \in DOMAIN sess[x] : checkin_read(w, x, i)
  \/ checkin_lock(w) \/ checkin_commit(w)

Office ==
  \/ \E x \in Occurrences : \E i \in DOMAIN sess[x] : check_out(x, i)
  \/ \E x \in Occurrences : suspend_classes(TermOf[x[1]], x[2])
  \/ \E s \in Schedules : cancel_schedule(s)

Next ==
  \/ \E w \in Workers : \/ Lifecycle(w) \/ Materializing(w) \/ CheckIn(w) \/ Abort(w)
                        \/ \E s \in Schedules : schedule_new(w, s)
  \/ Materializing(Scheduler) \/ scheduler_crash
  \/ Office \/ NextDay

Spec == Init /\ [][Next]_vars

(***************************************************************************)
(* Fairness: the scheduler starts the job on an interval and works through *)
(* it (a crash is one of its steps and happens at most MaxCrashes times),  *)
(* a worker finishes or abandons its request.  Admins owe nothing.         *)
(***************************************************************************)
Fairness ==
  /\ WF_vars(Materializing(Scheduler))
  /\ \A w \in Workers : WF_vars(Abort(w))

FairSpec == Spec /\ Fairness

-----------------------------------------------------------------------------
\* No two terms on file overlap: once there is a term, every create_term locks
\* it before it compares, so two admins cannot both pass the comparison.
TermsDisjoint ==
  \A t, u \in Rows : t # u => ~overlaps(t, u)

\* An archived term has no class in session: close_term counts the active
\* sessions under the lock that a check-in must also hold, and a check-in
\* that comes later finds the term archived and rolls back.
ArchivedHasNoActive ==
  \A t \in Terms : term[t] = "archived" => ~HasRow(t, "active")

\* Occurrences within its days that the job owes a session today.
Owed == {x \in Occurrences : /\ x \in Wanted(TermOf[x[1]], today, JobDays)
                             /\ term[TermOf[x[1]]] = "active"
                             /\ sess[x] = << >>}

\* "idempotent get_or_create" (web/ifo.py, schedule_new): materializing from
\* the console while the scheduler does never gives a class two sessions on
\* one date.
NoDuplicateSession == \A x \in Occurrences : Len(sess[x]) <= 1

\* Every occurrence the job owes gets its session in the end, through failed
\* and interrupted runs, unless the day, the term, the calendar or the class
\* moves on first - or a class has two sessions on one date, where every
\* later run's get raises.
HorizonFilled ==
  \A x \in Occurrences : (x \in Owed) ~> (x \notin Owed \/ ~NoDuplicateSession)
=============================================================================
