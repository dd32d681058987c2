---------------------------- MODULE TermLifecycle ----------------------------
(***************************************************************************)
(* Academic terms and the transactions that move them between draft,       *)
(* active and archived (scheduling/term_lifecycle.py, behind               *)
(* web/ifo_terms.py), on the state they share with materialization and     *)
(* with the day-to-day writers of session rows.                            *)
(*                                                                         *)
(* Each transaction is two steps: the first takes the update locks on term *)
(* rows and runs the preflight on committed rows, the second writes and    *)
(* commits.  The operator types the right name and reason and acknowledges *)
(* the warnings that hold; any other submission is refused unchanged.      *)
(***************************************************************************)
EXTENDS Naturals, Sequences, FiniteSets, Functions

CONSTANTS
  Terms,      \* term names an IFO admin may create
  First,      \* [Terms -> Nat], start_date
  Last,       \* [Terms -> Nat], end_date
  Existing,   \* the terms on file at the start, as drafts
  Schedules,  \* recurring classes
  Planned,    \* the schedules imported before the start
  TermOf,     \* [Schedules -> Terms]
  MeetsOn,    \* [Schedules -> SUBSET Nat], the dates of the class's weekday
  Horizon,    \* policy materialization_horizon_days, used by an activation
  JobDays,    \* --days of the materialize_sessions command, by default
  Workers,    \* web worker processes
  Scheduler,  \* the scheduler process
  MaxDate,    \* the last day the clock reaches (a bound)
  MaxCrashes, \* scheduler restarts (a bound)
  Ops,        \* the entry points this instance exercises (a bound)
  None        \* the absent value

ASSUME TermAssumption ==
  /\ First \in [Terms -> Nat] /\ Last \in [Terms -> Nat]
  /\ Existing \subseteq Terms /\ Planned \subseteq Schedules
  /\ TermOf \in [Schedules -> Terms] /\ MeetsOn \in [Schedules -> SUBSET Nat]
  /\ Horizon \in Nat \ {0} /\ JobDays \in Nat \ {0}
  /\ MaxDate \in Nat /\ MaxCrashes \in Nat
  /\ \A t, u \in Existing :
       t # u => Last[t] < First[u] \/ Last[u] < First[t]
  /\ Scheduler \notin Workers

ASSUME NoTermAssumption ==
  None \notin Terms \cup Schedules \cup (Schedules \X Nat)

VARIABLES
  today,     \* the local date
  term,      \* AcademicTerm rows: "none" until created
  schedule,  \* Schedule rows: "none" until created
  sess,      \* Session rows of each occurrence, by status, oldest first
  suspended, \* <<term, date>> covered by an active suspension
  req,       \* what each process is doing
  crashes    \* scheduler restarts so far

vars == <<today, term, schedule, sess, suspended, req, crashes>>

Procs == Workers \cup {Scheduler}

\* The occurrences of a class that fall inside its term.
Occurrences ==
  UNION {{s} \X {d \in MeetsOn[s] : First[TermOf[s]] <= d /\ d <= Last[TermOf[s]]} :
           s \in Schedules}

TermStatus == {"none", "draft", "active", "archived"}

RowStatus == {"scheduled", "active", "ended", "cancelled"}

\* pc: "locked" - a transaction with its locks and reads done; "start",
\* "fill", "insert" - materialization; "apply" - a check-in before its lock.
Request ==
  [pc : {"idle", "start", "fill", "insert", "apply", "locked"},
   op : {"create", "activate", "close", "reopen", "materialize", "checkin",
         None},
   t : Terms \cup {None}, x : (Schedules \X Nat) \cup {None}, n : Nat,
   locks : SUBSET Terms, todo : SUBSET Occurrences]

Idle == [pc |-> "idle", op |-> None, t |-> None, x |-> None, n |-> 0,
         locks |-> {}, todo |-> {}]

TypeOK ==
  /\ today \in Nat /\ crashes \in Nat
  /\ term \in [Terms -> TermStatus]
  /\ schedule \in [Schedules -> {"none", "active", "archived"}]
  /\ sess \in [Occurrences -> Seq(RowStatus)]
  /\ suspended \subseteq (Terms \X Nat)
  /\ req \in [Procs -> Request]

Init ==
  /\ today = 0 /\ crashes = 0
  /\ term = [t \in Terms |-> IF t \in Existing THEN "draft" ELSE "none"]
  /\ schedule = [s \in Schedules |-> IF s \in Planned THEN "active" ELSE "none"]
  /\ sess = [x \in Occurrences |-> << >>]
  /\ suspended = {}
  /\ req = [w \in Procs |-> Idle]

-----------------------------------------------------------------------------
\* The rows of AcademicTerm, and whether w may lock those in T now.
Rows == {t \in Terms : term[t] # "none"}

LockFree(w, T) == \A v \in Procs \ {w} : req[v].locks \cap T = {}

ActiveTerms == {t \in Terms : term[t] = "active"}

OccurrencesOf(t) == {x \in Occurrences : TermOf[x[1]] = t}

\* The term has a session row with this status.
HasRow(t, status) ==
  \E x \in OccurrencesOf(t) : \E i \in DOMAIN sess[x] : sess[x][i] = status

overlaps(t, u) == First[t] <= Last[u] /\ First[u] <= Last[t]

\* An idle worker opens the transaction: locks taken, preflight passed.
Begin(w, op, t, locks, todo) ==
  /\ op \in Ops
  /\ req[w].pc = "idle"
  /\ LockFree(w, locks)
  /\ req' = [req EXCEPT ![w] = [Idle EXCEPT !.pc = "locked", !.op = op, !.t = t,
                                            !.locks = locks, !.todo = todo]]
  /\ UNCHANGED <<today, term, schedule, sess, suspended, crashes>>

Ready(w, op) == req[w].pc = "locked" /\ req[w].op = op

Done(w) == req' = [req EXCEPT ![w] = Idle]

-----------------------------------------------------------------------------
\* Mutant: the existing terms are read without locking them.
create_preflight_unlocked(w, t) ==
  /\ First[t] <= Last[t]
  /\ term[t] = "none"
  /\ \A u \in Rows : ~overlaps(t, u)
  /\ Begin(w, "create", t, {}, {})

\* Every term row on file is locked and compared.
create_preflight(w, t) ==
  /\ First[t] <= Last[t]
  /\ term[t] = "none"
  /\ \A u \in Rows : ~overlaps(t, u)
  /\ Begin(w, "create", t, Rows, {})

\* The insert fails if the unique name has been taken meanwhile.
create_term(w) ==
  /\ Ready(w, "create")
  /\ term[req[w].t] = "none"
  /\ term' = [term EXCEPT ![req[w].t] = "draft"]
  /\ Done(w)
  /\ UNCHANGED <<today, schedule, sess, suspended, crashes>>

close_preflight(w, t) ==
  /\ term[t] = "active"
  /\ today >= Last[t]
  /\ ~HasRow(t, "active")
  /\ Begin(w, "close", t, {t}, {})

close_term(w) ==
  /\ Ready(w, "close")
  /\ term' = [term EXCEPT ![req[w].t] = "archived"]
  /\ Done(w)
  /\ UNCHANGED <<today, schedule, sess, suspended, crashes>>

\* Reopening makes a draft again, beside whichever term is active.
reopen_preflight(w, t) ==
  /\ term[t] = "archived"
  /\ Begin(w, "reopen", t, {t}, {})

reopen_term(w) ==
  /\ Ready(w, "reopen")
  /\ term' = [term EXCEPT ![req[w].t] = "draft"]
  /\ Done(w)
  /\ UNCHANGED <<today, schedule, sess, suspended, crashes>>
=============================================================================
