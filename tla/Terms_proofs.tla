---------------------------- MODULE Terms_proofs ----------------------------
(***************************************************************************)
(* Theorems about Terms, for any terms, schedules, horizon and workers:    *)
(* type correctness, disjoint terms, and no class in session in an         *)
(* archived term.  The last two rest on the exclusion of the term locks.   *)
(***************************************************************************)
EXTENDS Terms, TLAPS

\* A check-in that has been resolved knows the term of its session.
CheckinShape ==
  \A w \in Procs : req[w].pc = "apply" => req[w].op = "checkin" /\ req[w].t \in Terms

TypeInv == TypeOK /\ CheckinShape

-----------------------------------------------------------------------------
\* What materialization lists are occurrences.
LEMMA WantedAreOccurrences ==
  ASSUME NEW t \in Terms, NEW start \in Nat, NEW days \in Nat
  PROVE  Wanted(t, start, days) \subseteq Occurrences
<1> SUFFICES ASSUME NEW x \in Wanted(t, start, days) PROVE x \in Occurrences
  OBVIOUS
<1>1. /\ x \in Schedules \X (start..(start + days - 1))
      /\ TermOf[x[1]] = t /\ x[2] \in MeetsOn[x[1]]
      /\ First[t] <= x[2] /\ x[2] <= Last[t]
  BY DEF Wanted
<1>2. x[1] \in Schedules /\ x = <<x[1], x[2]>>
  BY <1>1
<1> QED
  BY <1>1, <1>2 DEF Occurrences

LEMMA OccurrenceType == Occurrences \subseteq Schedules \X Nat
BY TermAssumption DEF Occurrences, TermAssumption

\* Overwriting an element of a sequence keeps it a sequence.
LEMMA ExceptKeepsSeq ==
  ASSUME NEW S, NEW s \in Seq(S), NEW i, NEW e \in S
  PROVE  [s EXCEPT ![i] = e] \in Seq(S)
<1>1. PICK n \in Nat : s \in [1..n -> S]
  OBVIOUS
<1>2. [s EXCEPT ![i] = e] \in [1..n -> S]
  BY <1>1
<1> QED
  BY <1>2

LEMMA CancelledType == TypeOK => \A S : Cancelled(S) \in [Occurrences -> Seq(RowStatus)]
<1> SUFFICES ASSUME TypeOK, NEW S, NEW x \in Occurrences
             PROVE  Cancelled(S)[x] \in Seq(RowStatus)
  BY DEF Cancelled
<1>1. PICK n \in Nat : sess[x] \in [1..n -> RowStatus]
  BY DEF TypeOK
<1>2. [i \in DOMAIN sess[x] |->
         IF sess[x][i] = "scheduled" THEN "cancelled" ELSE sess[x][i]]
        \in [1..n -> RowStatus]
  BY <1>1 DEF RowStatus
<1> QED
  BY <1>1, <1>2 DEF Cancelled

-----------------------------------------------------------------------------
(***************************************************************************)
(* Type correctness.                                                       *)
(***************************************************************************)
LEMMA IdleType == Idle \in Request
BY DEF Idle, Request

\* Opening a lifecycle transaction keeps the types.
LEMMA BeginType ==
  ASSUME TypeInv, NEW w \in Procs, NEW t \in Terms,
         NEW op \in {"create", "activate", "close", "reopen"},
         NEW locks \in SUBSET Terms, NEW todo \in SUBSET Occurrences,
         Begin(w, op, t, locks, todo)
  PROVE  TypeInv'
<1>1. [Idle EXCEPT !.pc = "locked", !.op = op, !.t = t, !.locks = locks,
                   !.todo = todo] \in Request
  BY DEF Idle, Request
<1>2. req' \in [Procs -> Request]
  BY <1>1 DEF TypeInv, TypeOK, Begin
<1>3. TypeOK'
  BY <1>2 DEF TypeInv, TypeOK, Begin, Occurrences
<1>4. CheckinShape'
  BY DEF TypeInv, TypeOK, CheckinShape, Begin, Idle
<1> QED
  BY <1>3, <1>4 DEF TypeInv

\* So does ending one, whatever it leaves in the tables.
LEMMA DoneType ==
  ASSUME TypeInv, NEW w \in Procs, Done(w)
  PROVE  req' \in [Procs -> Request] /\ CheckinShape'
<1>1. req' \in [Procs -> Request]
  BY IdleType DEF TypeInv, TypeOK, Done
<1>2. CheckinShape'
  BY DEF TypeInv, TypeOK, CheckinShape, Done, Idle
<1> QED
  BY <1>1, <1>2

LEMMA LifecycleType ==
  ASSUME TypeInv, NEW w \in Workers, Lifecycle(w)
  PROVE  TypeInv'
<1>0. w \in Procs
  BY DEF Procs
<1>1. ASSUME NEW t \in Terms, create_preflight(w, t) PROVE TypeInv'
  BY <1>0, <1>1, BeginType DEF create_preflight, Rows
<1>2. ASSUME NEW t \in Terms, close_preflight(w, t) PROVE TypeInv'
  BY <1>0, <1>2, BeginType DEF close_preflight
<1>3. ASSUME NEW t \in Terms, reopen_preflight(w, t) PROVE TypeInv'
  BY <1>0, <1>3, BeginType DEF reopen_preflight
<1>4. ASSUME NEW t \in Terms, activate_preflight(w, t) PROVE TypeInv'
  <2>1. MaxOf(today, First[t]) \in Nat /\ Horizon \in Nat
    BY TermAssumption DEF TermAssumption, TypeInv, TypeOK, MaxOf
  <2>2. {x \in Wanted(t, MaxOf(today, First[t]), Horizon) : sess[x] = << >>} \in SUBSET Occurrences
    BY <2>1, WantedAreOccurrences
  <2> QED
    BY <1>0, <1>4, <2>2, BeginType DEF activate_preflight
<1>5. CASE create_term(w)
  BY <1>0, <1>5, DoneType DEF create_term, TypeInv, TypeOK, TermStatus
<1>6. CASE close_term(w)
  BY <1>0, <1>6, DoneType DEF close_term, TypeInv, TypeOK, TermStatus
<1>7. CASE reopen_term(w)
  BY <1>0, <1>7, DoneType DEF reopen_term, TypeInv, TypeOK, TermStatus
<1>8. CASE activate_term(w)
  <2>1. sess' \in [Occurrences -> Seq(RowStatus)]
    BY <1>8 DEF activate_term, TypeInv, TypeOK, RowStatus
  <2>2. term' \in [Terms -> TermStatus]
    BY <1>8 DEF activate_term, TypeInv, TypeOK, TermStatus
  <2> QED
    BY <1>0, <1>8, <2>1, <2>2, DoneType DEF activate_term, TypeInv, TypeOK
<1> QED
  BY <1>1, <1>2, <1>3, <1>4, <1>5, <1>6, <1>7, <1>8 DEF Lifecycle, Creating

LEMMA MaterializingType ==
  ASSUME TypeInv, NEW w \in Procs, Materializing(w)
  PROVE  TypeInv'
<1>1. CASE materialize_sessions(w)
  <2>1. PICK t \in ActiveTerms :
          req' = [req EXCEPT ![w] = [Idle EXCEPT !.pc = "fill", !.op = "materialize",
                                                 !.t = t, !.todo = Wanted(t, today, JobDays)]]
    BY <1>1 DEF materialize_sessions
  <2>2. t \in Terms /\ Wanted(t, today, JobDays) \subseteq Occurrences
    BY WantedAreOccurrences, TermAssumption DEF ActiveTerms, TypeInv, TypeOK, TermAssumption
  <2>3. [Idle EXCEPT !.pc = "fill", !.op = "materialize", !.t = t,
                     !.todo = Wanted(t, today, JobDays)] \in Request
    BY <2>2 DEF Idle, Request
  <2>4. req' \in [Procs -> Request] /\ CheckinShape'
    BY <2>1, <2>3 DEF TypeInv, TypeOK, CheckinShape, Idle
  <2> QED
    BY <1>1, <2>4 DEF materialize_sessions, TypeInv, TypeOK
<1>2. CASE materialize_no_term(w)
  BY <1>2, DoneType DEF materialize_no_term, TypeInv, TypeOK
<1>3. ASSUME NEW x \in Occurrences, get_or_create(w, x) PROVE TypeInv'
  <2>1. /\ [req[w] EXCEPT !.pc = "insert", !.x = x] \in Request
        /\ [req[w] EXCEPT !.todo = @ \ {x}] \in Request
    <3>1. req[w] \in Request
      BY DEF TypeInv, TypeOK
    <3>2. x \in (Schedules \X Nat) \cup {None}
      BY OccurrenceType
    <3>3. [req[w] EXCEPT !.pc = "insert", !.x = x] \in Request
      BY <3>1, <3>2 DEF Request
    <3>4. [req[w] EXCEPT !.todo = @ \ {x}] \in Request
      BY <3>1 DEF Request
    <3> QED
      BY <3>3, <3>4
  <2>2. req' \in [Procs -> Request]
    <3>1. req \in [Procs -> Request] /\ w \in Procs
      BY DEF TypeInv, TypeOK
    <3>2. \/ req' = [req EXCEPT ![w] = [req[w] EXCEPT !.pc = "insert", !.x = x]]
          \/ req' = [req EXCEPT ![w] = [req[w] EXCEPT !.todo = req[w].todo \ {x}]]
          \/ req' = [req EXCEPT ![w] = Idle]
      BY <1>3, <3>1 DEF get_or_create
    <3> QED
      BY <2>1, <3>1, <3>2, IdleType
  <2>3. CheckinShape'
    <3>1. req[w].pc = "fill"
      BY <1>3 DEF get_or_create
    <3>2. req'[w].pc # "apply" /\ \A v \in Procs \ {w} : req'[v] = req[v]
      BY <1>3, <3>1 DEF get_or_create, TypeInv, TypeOK, Request, Idle
    <3> QED
      BY <3>2 DEF TypeInv, CheckinShape
  <2> QED
    BY <1>3, <2>2, <2>3 DEF get_or_create, TypeInv, TypeOK
<1>4. CASE insert_session(w)
  <2>1. sess' \in [Occurrences -> Seq(RowStatus)]
    <3>1. \A x \in Occurrences : Append(sess[x], "scheduled") \in Seq(RowStatus)
      BY DEF TypeInv, TypeOK, RowStatus
    <3>2. sess' = [sess EXCEPT ![req[w].x] = Append(sess[req[w].x], "scheduled")]
      BY <1>4 DEF insert_session
    <3> QED
      BY <3>1, <3>2 DEF TypeInv, TypeOK
  <2>2. req' \in [Procs -> Request]
    <3>1. [req[w] EXCEPT !.pc = "fill", !.x = None, !.todo = req[w].todo \ {req[w].x}]
            \in Request
      <4> DEFINE y == req[w]
      <4>1. y \in Request
        BY DEF TypeInv, TypeOK
      <4> HIDE DEF y
      <4>2. [y EXCEPT !.pc = "fill", !.x = None, !.todo = y.todo \ {y.x}] \in Request
        BY <4>1 DEF Request
      <4> QED BY <4>2 DEF y
    <3>2. req' = [req EXCEPT ![w] = [req[w] EXCEPT !.pc = "fill", !.x = None,
                                        !.todo = req[w].todo \ {req[w].x}]]
      BY <1>4 DEF insert_session, TypeInv, TypeOK, Request
    <3> QED
      BY <3>1, <3>2 DEF TypeInv, TypeOK
  <2>3. CheckinShape'
    BY <1>4 DEF insert_session, TypeInv, TypeOK, CheckinShape, Request
  <2> QED
    BY <1>4, <2>1, <2>2, <2>3 DEF insert_session, TypeInv, TypeOK
<1>5. CASE materialize_done(w)
  BY <1>5, DoneType DEF materialize_done, TypeInv, TypeOK
<1> QED
  BY <1>1, <1>2, <1>3, <1>4, <1>5 DEF Materializing

LEMMA CheckInType ==
  ASSUME TypeInv, NEW w \in Workers, CheckIn(w)
  PROVE  TypeInv'
<1>0. w \in Procs
  BY DEF Procs
<1>1. ASSUME NEW x \in Occurrences, NEW i \in DOMAIN sess[x], checkin_read(w, x, i)
      PROVE  TypeInv'
  <2>1. i \in Nat
    BY DEF TypeInv, TypeOK
  <2>2. x \in Schedules \X Nat /\ TermOf[x[1]] \in Terms
    BY OccurrenceType, TermAssumption DEF TermAssumption
  <2>3. [Idle EXCEPT !.pc = "apply", !.op = "checkin", !.t = TermOf[x[1]], !.x = x,
                     !.n = i] \in Request
    BY <2>1, <2>2 DEF Idle, Request
  <2>4. req' \in [Procs -> Request]
    BY <1>0, <1>1, <2>3 DEF checkin_read, TypeInv, TypeOK
  <2>5. CheckinShape'
    BY <1>0, <1>1, <2>2 DEF checkin_read, TypeInv, TypeOK, CheckinShape, Idle
  <2> QED
    BY <1>1, <2>4, <2>5 DEF checkin_read, TypeInv, TypeOK
<1>2. CASE checkin_lock(w)
  <2>1. req[w].t \in Terms
    BY <1>0, <1>2 DEF checkin_lock, TypeInv, CheckinShape
  <2>2. [req[w] EXCEPT !.pc = "locked", !.locks = {req[w].t}] \in Request
    <3> DEFINE y == req[w]
    <3>1. y \in Request /\ y.t \in Terms
      BY <1>0, <2>1 DEF TypeInv, TypeOK
    <3> HIDE DEF y
    <3>2. [y EXCEPT !.pc = "locked", !.locks = {y.t}] \in Request
      BY <3>1 DEF Request
    <3> QED BY <3>2 DEF y
  <2>3. req' \in [Procs -> Request]
    BY <1>0, <1>2, <2>2, IdleType DEF checkin_lock, TypeInv, TypeOK
  <2>4. CheckinShape'
    BY <1>0, <1>2 DEF checkin_lock, TypeInv, TypeOK, CheckinShape, Idle, Request
  <2> QED
    BY <1>2, <2>3, <2>4 DEF checkin_lock, TypeInv, TypeOK
<1>3. CASE checkin_commit(w)
  <2>1. sess' \in [Occurrences -> Seq(RowStatus)]
    BY <1>3, ExceptKeepsSeq DEF checkin_commit, TypeInv, TypeOK, RowStatus
  <2> QED
    BY <1>0, <1>3, <2>1, DoneType DEF checkin_commit, TypeInv, TypeOK
<1> QED
  BY <1>1, <1>2, <1>3 DEF CheckIn

\* Every step keeps the types.
LEMMA TypeStep == TypeInv /\ [Next]_vars => TypeInv'
<1> SUFFICES ASSUME TypeInv, [Next]_vars PROVE TypeInv'
  OBVIOUS
<1>1. ASSUME NEW w \in Workers, Lifecycle(w) \/ Materializing(w) \/ CheckIn(w)
      PROVE  TypeInv'
  BY <1>1, LifecycleType, MaterializingType, CheckInType DEF Procs
<1>2. ASSUME NEW w \in Workers, Abort(w) PROVE TypeInv'
  <2>1. w \in Procs
    BY DEF Procs
  <2> QED
    BY <1>2, <2>1, DoneType DEF Abort, TypeInv, TypeOK
<1>3. ASSUME NEW w \in Workers, NEW s \in Schedules, schedule_new(w, s) PROVE TypeInv'
  <2>1. w \in Procs
    BY DEF Procs
  <2>2. [Idle EXCEPT !.pc = "start", !.op = "materialize"] \in Request
    BY DEF Idle, Request
  <2>3. req' \in [Procs -> Request] /\ CheckinShape'
    BY <1>3, <2>1, <2>2 DEF schedule_new, TypeInv, TypeOK, CheckinShape, Idle
  <2> QED
    BY <1>3, <2>3 DEF schedule_new, TypeInv, TypeOK
<1>4. CASE Materializing(Scheduler)
  BY <1>4, MaterializingType DEF Procs
<1>5. CASE scheduler_crash
  BY <1>5, DoneType DEF scheduler_crash, TypeInv, TypeOK, Procs
<1>6. CASE Office
  <2>1. ASSUME NEW x \in Occurrences, NEW i \in DOMAIN sess[x], check_out(x, i)
        PROVE  TypeInv'
    <3>1. sess' \in [Occurrences -> Seq(RowStatus)]
      BY <2>1, ExceptKeepsSeq DEF check_out, TypeInv, TypeOK, RowStatus
    <3> QED
      BY <2>1, <3>1 DEF check_out, TypeInv, TypeOK, CheckinShape
  <2>2. ASSUME NEW x \in Occurrences, suspend_classes(TermOf[x[1]], x[2])
        PROVE  TypeInv'
    <3>1. TermOf[x[1]] \in Terms /\ x[2] \in Nat
      BY OccurrenceType, TermAssumption DEF TermAssumption
    <3>2. sess' \in [Occurrences -> Seq(RowStatus)]
      BY <2>2, CancelledType DEF suspend_classes, TypeInv
    <3> QED
      BY <2>2, <3>1, <3>2 DEF suspend_classes, TypeInv, TypeOK, CheckinShape
  <2>3. ASSUME NEW s \in Schedules, cancel_schedule(s) PROVE TypeInv'
    <3>1. sess' \in [Occurrences -> Seq(RowStatus)]
      BY <2>3, CancelledType DEF cancel_schedule, TypeInv
    <3> QED
      BY <2>3, <3>1 DEF cancel_schedule, TypeInv, TypeOK, CheckinShape
  <2> QED
    BY <1>6, <2>1, <2>2, <2>3 DEF Office
<1>7. CASE NextDay
  BY <1>7 DEF NextDay, TypeInv, TypeOK, CheckinShape
<1>8. CASE UNCHANGED vars
  BY <1>8 DEF vars, TypeInv, TypeOK, CheckinShape
<1> QED
  BY <1>1, <1>2, <1>3, <1>4, <1>5, <1>6, <1>7, <1>8 DEF Next

\* Every reachable state of the term tables and of the processes working on
\* them is well typed, whatever the terms, classes and horizon.
THEOREM TermTypesCorrect == Spec => []TypeOK
<1>1. Init => TypeInv
  <2> SUFFICES ASSUME Init PROVE TypeInv
    OBVIOUS
  <2>1. sess \in [Occurrences -> Seq(RowStatus)]
    BY DEF Init
  <2>2. req \in [Procs -> Request] /\ CheckinShape
    BY IdleType DEF Init, CheckinShape, Idle
  <2> QED
    BY <2>1, <2>2 DEF Init, TypeInv, TypeOK, TermStatus
<1>2. TypeInv => TypeOK
  BY DEF TypeInv
<1> QED
  BY <1>1, <1>2, TypeStep, PTL DEF Spec

-----------------------------------------------------------------------------
(***************************************************************************)
(* What the term locks buy: neither disjointness nor quiet archived terms  *)
(* is inductive alone.  A transaction that has passed its preflight relies *)
(* on what it read; the invariants below say what each of them has read    *)
(* and that, its locks being exclusive, it is still so when it commits.    *)
(***************************************************************************)
\* No term row is locked by two transactions.
Exclusive ==
  \A v, w \in Procs : v # w => req[v].locks \cap req[w].locks = {}

\* The terms on file at the start stay on file.
ExistingOnFile == Existing \subseteq Rows

\* Every other lifecycle transaction is about a term on file.
ActsOnFile ==
  \A w \in Procs : \A op \in {"close", "reopen", "activate"} :
    Ready(w, op) => req[w].t \in Rows

\* A creation past its preflight holds the terms that were there, and its
\* term overlaps none on file.
CreateSound ==
  \A w \in Procs : Ready(w, "create") =>
    /\ req[w].t \in Terms /\ Existing \subseteq req[w].locks
    /\ \A u \in Rows : ~overlaps(req[w].t, u)

\* A closing past its preflight holds its term, which has no class in session.
CloseSound ==
  \A w \in Procs : Ready(w, "close") =>
    req[w].t \in req[w].locks /\ ~HasRow(req[w].t, "active")

\* A check-in is about a session of the term it will lock, and once it holds
\* the lock that term is not archived.
CheckinSound ==
  \A w \in Procs :
    /\ req[w].pc = "apply" => req[w].t = TermOf[req[w].x[1]]
    /\ Ready(w, "checkin") => /\ req[w].t = TermOf[req[w].x[1]]
                              /\ req[w].t \in req[w].locks
                              /\ term[req[w].t] # "archived"

DisjointInv ==
  TypeInv /\ Exclusive /\ ExistingOnFile /\ ActsOnFile /\ CreateSound /\ TermsDisjoint

QuietInv == TypeInv /\ Exclusive /\ CloseSound /\ CheckinSound /\ ArchivedHasNoActive

-----------------------------------------------------------------------------
(***************************************************************************)
(* How a step moves one process and leaves the others alone.               *)
(***************************************************************************)
\* Only p moves, and the locks it holds afterwards were its own or free.
Moves(p) ==
  /\ \A v \in Procs \ {p} : req'[v] = req[v]
  /\ \/ req'[p].locks \in {{}, req[p].locks}
     \/ LockFree(p, req'[p].locks)

LEMMA BeginMoves ==
  ASSUME TypeInv, NEW w \in Procs, NEW op, NEW t, NEW locks, NEW todo,
         Begin(w, op, t, locks, todo)
  PROVE  /\ Moves(w)
         /\ req'[w].pc = "locked" /\ req'[w].op = op /\ req'[w].t = t
         /\ req'[w].locks = locks
         /\ term' = term /\ sess' = sess
BY DEF Begin, Moves, Idle, TypeInv, TypeOK

LEMMA DoneMoves ==
  ASSUME TypeInv, NEW w \in Procs, Done(w)
  PROVE  Moves(w) /\ req'[w].pc = "idle"
BY DEF Done, Moves, Idle, TypeInv, TypeOK

LEMMA MaterializingMoves ==
  ASSUME TypeInv, NEW w \in Procs, Materializing(w)
  PROVE  Moves(w) /\ req'[w].pc \notin {"locked", "apply"} /\ term' = term
<1>0. req \in [Procs -> Request]
  BY DEF TypeInv, TypeOK
<1>1. CASE materialize_sessions(w)
  BY <1>0, <1>1 DEF materialize_sessions, Moves, Idle
<1>2. CASE materialize_no_term(w) \/ materialize_done(w)
  BY <1>2, DoneMoves DEF materialize_no_term, materialize_done
<1>3. ASSUME NEW x \in Occurrences, get_or_create(w, x)
      PROVE  Moves(w) /\ req'[w].pc \notin {"locked", "apply"} /\ term' = term
  BY <1>0, <1>3 DEF get_or_create, Moves, Idle, Request
<1>4. CASE insert_session(w)
  BY <1>0, <1>4 DEF insert_session, Moves, Request
<1> QED
  BY <1>1, <1>2, <1>3, <1>4 DEF Materializing

LEMMA CheckInMoves ==
  ASSUME TypeInv, NEW w \in Procs, CheckIn(w)
  PROVE  /\ Moves(w) /\ term' = term
         /\ req'[w].pc = "locked" => req'[w].op = "checkin"
<1>0. req \in [Procs -> Request]
  BY DEF TypeInv, TypeOK
<1>1. ASSUME NEW x \in Occurrences, NEW i \in DOMAIN sess[x], checkin_read(w, x, i)
      PROVE  Moves(w) /\ term' = term /\ req'[w].pc = "apply"
  BY <1>0, <1>1 DEF checkin_read, Moves, Idle
<1>2. CASE checkin_lock(w)
  BY <1>0, <1>2 DEF checkin_lock, Moves, Idle, Request, TypeInv, CheckinShape
<1>3. CASE checkin_commit(w)
  BY <1>3, DoneMoves DEF checkin_commit
<1> QED
  BY <1>1, <1>2, <1>3 DEF CheckIn

LEMMA LifecycleMoves ==
  ASSUME TypeInv, NEW w \in Procs, Lifecycle(w)
  PROVE  Moves(w)
<1>1. ASSUME NEW t \in Terms, create_preflight(w, t) PROVE Moves(w)
  BY <1>1, BeginMoves DEF create_preflight
<1>2. ASSUME NEW t \in Terms, close_preflight(w, t) PROVE Moves(w)
  BY <1>2, BeginMoves DEF close_preflight
<1>3. ASSUME NEW t \in Terms, reopen_preflight(w, t) PROVE Moves(w)
  BY <1>3, BeginMoves DEF reopen_preflight
<1>4. ASSUME NEW t \in Terms, activate_preflight(w, t) PROVE Moves(w)
  BY <1>4, BeginMoves DEF activate_preflight
<1>5. CASE create_term(w) \/ activate_term(w) \/ close_term(w) \/ reopen_term(w)
  BY <1>5, DoneMoves DEF create_term, activate_term, close_term, reopen_term
<1> QED
  BY <1>1, <1>2, <1>3, <1>4, <1>5 DEF Lifecycle, Creating

LEMMA OthersMove ==
  ASSUME TypeInv, NEW w \in Procs, NEW s,
         Abort(w) \/ schedule_new(w, s) \/ (w = Scheduler /\ scheduler_crash)
  PROVE  /\ Moves(w) /\ req'[w].pc \notin {"locked", "apply"}
         /\ term' = term /\ sess' = sess
<1>1. CASE Abort(w)
  BY <1>1, DoneMoves DEF Abort
<1>2. CASE schedule_new(w, s)
  BY <1>2 DEF schedule_new, Moves, Idle, TypeInv, TypeOK
<1>3. CASE w = Scheduler /\ scheduler_crash
  BY <1>3, DoneMoves DEF scheduler_crash
<1> QED
  BY <1>1, <1>2, <1>3

LEMMA MovesKeepExclusion ==
  ASSUME Exclusive, NEW p \in Procs, Moves(p)
  PROVE  Exclusive'
<1> SUFFICES ASSUME NEW v \in Procs, NEW w \in Procs, v # w
             PROVE  req'[v].locks \cap req'[w].locks = {}
  BY DEF Exclusive, Procs
<1>1. CASE v # p /\ w # p
  BY <1>1 DEF Exclusive, Moves
<1>2. CASE v = p
  BY <1>2 DEF Exclusive, Moves, LockFree
<1>3. CASE w = p
  BY <1>3 DEF Exclusive, Moves, LockFree
<1> QED
  BY <1>1, <1>2, <1>3

-----------------------------------------------------------------------------
(***************************************************************************)
(* Terms stay disjoint.                                                    *)
(***************************************************************************)
\* A step that creates no term and opens no creation keeps the invariant.
LEMMA NoCreationKeepsDisjoint ==
  ASSUME DisjointInv, TypeInv', NEW p \in Procs, Moves(p), Rows' = Rows,
         \/ req'[p] = req[p]
         \/ /\ ~Ready(p, "create")'
            /\ \A op \in {"close", "reopen", "activate"} :
                 Ready(p, op)' => req'[p].t \in Rows
  PROVE  DisjointInv'
<1>1. Exclusive'
  BY MovesKeepExclusion DEF DisjointInv
<1>2. ExistingOnFile' /\ TermsDisjoint'
  BY DEF DisjointInv, ExistingOnFile, TermsDisjoint, overlaps
<1>3. CreateSound'
  BY DEF DisjointInv, CreateSound, Moves, Ready, overlaps
<1>4. ActsOnFile'
  BY DEF DisjointInv, ActsOnFile, Moves, Ready
<1> QED
  BY <1>1, <1>2, <1>3, <1>4 DEF DisjointInv

\* Creating a term keeps it: no other creation is past its preflight, because
\* both would hold a term that was on file at the start.
LEMMA CreateKeepsDisjoint ==
  ASSUME Existing # {}, DisjointInv, TypeInv', NEW w \in Procs, create_term(w)
  PROVE  DisjointInv'
<1>0. TypeInv /\ Moves(w) /\ req'[w].pc = "idle" /\ Exclusive'
  BY DoneMoves, MovesKeepExclusion DEF create_term, DisjointInv
<1>1. /\ Ready(w, "create") /\ req[w].t \in Terms /\ Existing \subseteq req[w].locks
      /\ \A u \in Rows : ~overlaps(req[w].t, u)
  BY DEF create_term, DisjointInv, CreateSound
<1>2. Rows' = Rows \cup {req[w].t}
  BY <1>1 DEF create_term, Rows, DisjointInv, TypeInv, TypeOK
<1>3. ExistingOnFile' /\ ActsOnFile'
  BY <1>0, <1>2 DEF DisjointInv, ExistingOnFile, ActsOnFile, Moves, Ready
<1>4. TermsDisjoint'
  <2> SUFFICES ASSUME NEW t \in Rows \cup {req[w].t}, NEW u \in Rows \cup {req[w].t},
                      t # u
               PROVE  ~overlaps(t, u)
    BY <1>2 DEF TermsDisjoint, overlaps
  <2>1. CASE t \in Rows /\ u \in Rows
    BY <2>1 DEF DisjointInv, TermsDisjoint
  <2>2. CASE t = req[w].t /\ u \in Rows
    BY <1>1, <2>2
  <2>3. CASE u = req[w].t /\ t \in Rows
    BY <1>1, <2>3 DEF overlaps
  <2> QED
    BY <2>1, <2>2, <2>3
<1>5. CreateSound'
  <2> SUFFICES ASSUME NEW v \in Procs, Ready(v, "create")' PROVE FALSE
    BY DEF CreateSound
  <2>1. v # w /\ Ready(v, "create")
    BY <1>0 DEF Ready, Moves
  <2>2. Existing \subseteq req[v].locks
    BY <2>1 DEF DisjointInv, CreateSound
  <2> QED
    BY <1>1, <2>1, <2>2 DEF DisjointInv, Exclusive
<1> QED
  BY <1>0, <1>3, <1>4, <1>5 DEF DisjointInv

LEMMA LifecycleKeepsDisjoint ==
  ASSUME Existing # {}, DisjointInv, TypeInv', NEW w \in Procs, Lifecycle(w)
  PROVE  DisjointInv'
<1>0. TypeInv /\ Moves(w) /\ Exclusive'
  BY LifecycleMoves, MovesKeepExclusion DEF DisjointInv
<1>1. ASSUME NEW t \in Terms, create_preflight(w, t) PROVE DisjointInv'
  <2>1. /\ req'[w].t = t /\ req'[w].locks = Rows /\ req'[w].op = "create"
        /\ term' = term /\ \A u \in Rows : ~overlaps(t, u)
    BY <1>0, <1>1, BeginMoves DEF create_preflight
  <2>2. Rows' = Rows /\ ExistingOnFile' /\ TermsDisjoint'
    BY <2>1 DEF DisjointInv, ExistingOnFile, TermsDisjoint, overlaps, Rows
  <2>3. CreateSound'
    BY <1>0, <2>1, <2>2
       DEF DisjointInv, ExistingOnFile, CreateSound, Moves, Ready, overlaps
  <2>4. ActsOnFile'
    BY <1>0, <2>1, <2>2 DEF DisjointInv, ActsOnFile, Moves, Ready
  <2> QED
    BY <1>0, <2>2, <2>3, <2>4 DEF DisjointInv
<1>2. ASSUME NEW t \in Rows, NEW op \in {"close", "reopen", "activate"},
             NEW todo, Begin(w, op, t, {t}, todo)
      PROVE  DisjointInv'
  <2>1. req'[w].op = op /\ req'[w].t = t /\ term' = term
    BY <1>0, <1>2, BeginMoves
  <2>2. Rows' = Rows /\ ~Ready(w, "create")'
    BY <2>1 DEF Rows, Ready
  <2> QED
    BY <1>0, <2>1, <2>2, NoCreationKeepsDisjoint
<1>3. CASE close_term(w) \/ reopen_term(w) \/ activate_term(w)
  <2>1. PICK st \in {"draft", "active", "archived"} :
          term' = [term EXCEPT ![req[w].t] = st]
    BY <1>3 DEF close_term, reopen_term, activate_term
  <2>2. req'[w].pc = "idle"
    BY <1>0, <1>3, DoneMoves DEF close_term, reopen_term, activate_term
  <2>3. req[w].t \in Rows
    BY <1>3 DEF close_term, reopen_term, activate_term, DisjointInv, ActsOnFile
  <2>4. Rows' = Rows
    BY <2>1, <2>3 DEF Rows, DisjointInv, TypeInv, TypeOK
  <2> QED
    BY <1>0, <2>2, <2>4, NoCreationKeepsDisjoint DEF Ready
<1>4. ASSUME NEW t \in Terms,
             close_preflight(w, t) \/ reopen_preflight(w, t) \/ activate_preflight(w, t)
      PROVE  DisjointInv'
  <2>1. t \in Rows
    BY <1>4 DEF close_preflight, reopen_preflight, activate_preflight, Rows
  <2> QED
    BY <1>2, <1>4, <2>1 DEF close_preflight, reopen_preflight, activate_preflight
<1> QED
  BY <1>1, <1>3, <1>4, CreateKeepsDisjoint DEF Lifecycle, Creating

LEMMA DisjointStep ==
  ASSUME Existing # {}
  PROVE  DisjointInv /\ [Next]_vars => DisjointInv'
<1> SUFFICES ASSUME DisjointInv, [Next]_vars PROVE DisjointInv'
  OBVIOUS
<1>0. TypeInv /\ TypeInv'
  BY TypeStep DEF DisjointInv
<1>1. ASSUME NEW w \in Procs, Lifecycle(w) PROVE DisjointInv'
  BY <1>0, <1>1, LifecycleKeepsDisjoint
<1>2. ASSUME NEW w \in Procs, Materializing(w) PROVE DisjointInv'
  <2>1. Moves(w) /\ req'[w].pc # "locked" /\ Rows' = Rows
    BY <1>0, <1>2, MaterializingMoves DEF Rows
  <2> QED
    BY <1>0, <2>1, NoCreationKeepsDisjoint DEF Ready
<1>3. ASSUME NEW w \in Procs, CheckIn(w) PROVE DisjointInv'
  <2>1. Moves(w) /\ Rows' = Rows /\ (req'[w].pc = "locked" => req'[w].op = "checkin")
    BY <1>0, <1>3, CheckInMoves DEF Rows
  <2> QED
    BY <1>0, <2>1, NoCreationKeepsDisjoint DEF Ready
<1>4. ASSUME NEW w \in Procs, NEW s,
             Abort(w) \/ schedule_new(w, s) \/ (w = Scheduler /\ scheduler_crash)
      PROVE  DisjointInv'
  <2>1. Moves(w) /\ req'[w].pc # "locked" /\ Rows' = Rows
    BY <1>0, <1>4, OthersMove DEF Rows
  <2> QED
    BY <1>0, <2>1, NoCreationKeepsDisjoint DEF Ready
<1>5. CASE UNCHANGED <<req, term>>
  <2>1. Moves(Scheduler) /\ Scheduler \in Procs /\ Rows' = Rows
    BY <1>5 DEF Moves, Procs, Rows
  <2> QED
    BY <1>0, <1>5, <2>1, NoCreationKeepsDisjoint
<1>6. Office \/ NextDay \/ UNCHANGED vars => UNCHANGED <<req, term>>
  BY DEF Office, NextDay, vars, check_out, suspend_classes, cancel_schedule
<1> QED
  BY <1>1, <1>2, <1>3, <1>4, <1>5, <1>6 DEF Next, Procs

\* Terms on file never overlap, however many admins create terms at once, as
\* soon as one term is on file: create_term compares under the lock of every
\* row it has seen.
THEOREM TermsStayDisjoint ==
  ASSUME Existing # {}
  PROVE  Spec => []TermsDisjoint
<1>1. Init => DisjointInv
  <2> SUFFICES ASSUME Init PROVE DisjointInv
    OBVIOUS
  <2>1. TypeInv
    <3>1. req \in [Procs -> Request] /\ CheckinShape
      BY IdleType DEF Init, CheckinShape, Idle
    <3> QED
      BY <3>1 DEF Init, TypeInv, TypeOK, TermStatus
  <2>2. Rows = Existing
    BY TermAssumption DEF Init, Rows, TermAssumption
  <2>3. Exclusive /\ ExistingOnFile /\ ActsOnFile /\ CreateSound
    BY <2>2 DEF Init, Exclusive, ExistingOnFile, ActsOnFile, CreateSound, Ready, Idle
  <2>4. TermsDisjoint
    BY <2>2, TermAssumption DEF TermsDisjoint, overlaps, TermAssumption
  <2> QED
    BY <2>1, <2>3, <2>4 DEF DisjointInv
<1>2. DisjointInv => TermsDisjoint
  BY DEF DisjointInv
<1> QED
  BY <1>1, <1>2, DisjointStep, PTL DEF Spec

-----------------------------------------------------------------------------
(***************************************************************************)
(* An archived term has no class in session.                               *)
(***************************************************************************)
\* The step puts no session in session.
StartsNone ==
  \A x \in Occurrences : \A i \in DOMAIN sess'[x] :
    sess'[x][i] = "active" => i \in DOMAIN sess[x] /\ sess[x][i] = "active"

LEMMA StartsNoneKeepsQuiet ==
  ASSUME StartsNone, NEW t, ~HasRow(t, "active")
  PROVE  ~HasRow(t, "active")'
BY DEF StartsNone, HasRow, OccurrencesOf

LEMMA AppendStartsNone ==
  ASSUME NEW s \in Seq(RowStatus), NEW i \in DOMAIN Append(s, "scheduled"),
         Append(s, "scheduled")[i] = "active"
  PROVE  i \in DOMAIN s /\ s[i] = "active"
OBVIOUS

LEMMA CancelledStartsNone ==
  ASSUME TypeInv, NEW S, sess' = Cancelled(S)
  PROVE  StartsNone
BY DEF StartsNone, Cancelled, TypeInv, TypeOK

LEMMA MaterializingStartsNone ==
  ASSUME TypeInv, NEW w \in Procs, Materializing(w)
  PROVE  StartsNone
<1>1. CASE insert_session(w)
  <2> SUFFICES ASSUME NEW x \in Occurrences, NEW i \in DOMAIN sess'[x],
                      sess'[x][i] = "active"
               PROVE  i \in DOMAIN sess[x] /\ sess[x][i] = "active"
    BY DEF StartsNone
  <2>1. sess[x] \in Seq(RowStatus)
    BY DEF TypeInv, TypeOK
  <2>2. sess'[x] = sess[x] \/ sess'[x] = Append(sess[x], "scheduled")
    BY <1>1 DEF insert_session, TypeInv, TypeOK
  <2> QED
    BY <2>1, <2>2, AppendStartsNone
<1>2. CASE sess' = sess
  BY <1>2 DEF StartsNone
<1> QED
  BY <1>1, <1>2 DEF Materializing, materialize_sessions, materialize_no_term,
                    get_or_create, materialize_done

\* What the invariant asks of the process that moves.
Sound(p) ==
  /\ Ready(p, "close") => req[p].t \in req[p].locks /\ ~HasRow(req[p].t, "active")
  /\ req[p].pc = "apply" => req[p].t = TermOf[req[p].x[1]]
  /\ Ready(p, "checkin") => /\ req[p].t = TermOf[req[p].x[1]]
                            /\ req[p].t \in req[p].locks
                            /\ term[req[p].t] # "archived"

\* A step that starts no class and archives no term keeps the invariant if
\* the process it moves is sound afterwards.
LEMMA QuietFrame ==
  ASSUME QuietInv, TypeInv', NEW p \in Procs, Moves(p), Sound(p)', StartsNone,
         \A t \in Terms : term'[t] = "archived" => term[t] = "archived"
  PROVE  QuietInv'
<1>1. Exclusive'
  BY MovesKeepExclusion DEF QuietInv
<1>2. ArchivedHasNoActive'
  BY StartsNoneKeepsQuiet DEF QuietInv, ArchivedHasNoActive
<1>3. CloseSound'
  <2> SUFFICES ASSUME NEW v \in Procs, Ready(v, "close")'
               PROVE  (req[v].t \in req[v].locks /\ ~HasRow(req[v].t, "active"))'
    BY DEF CloseSound
  <2>1. CASE v = p
    BY <2>1 DEF Sound
  <2>2. CASE v # p
    <3>1. req'[v] = req[v] /\ Ready(v, "close")
      BY <2>2 DEF Moves, Ready
    <3>2. req[v].t \in req[v].locks /\ ~HasRow(req[v].t, "active")
      BY <3>1 DEF QuietInv, CloseSound
    <3>3. PICK t : t = req[v].t
      OBVIOUS
    <3>4. ~HasRow(t, "active")'
      BY <3>2, <3>3, StartsNoneKeepsQuiet
    <3> QED
      BY <3>1, <3>2, <3>3, <3>4 DEF HasRow
  <2> QED
    BY <2>1, <2>2
<1>4. CheckinSound'
  <2> SUFFICES ASSUME NEW v \in Procs
               PROVE  /\ req'[v].pc = "apply" => req'[v].t = TermOf[req'[v].x[1]]
                      /\ Ready(v, "checkin")' => /\ req'[v].t = TermOf[req'[v].x[1]]
                                                 /\ req'[v].t \in req'[v].locks
                                                 /\ term'[req'[v].t] # "archived"
    BY DEF CheckinSound
  <2>1. CASE v = p
    BY <2>1 DEF Sound
  <2>2. CASE v # p
    <3>1. req'[v] = req[v] /\ (Ready(v, "checkin")' => Ready(v, "checkin"))
      BY <2>2 DEF Moves, Ready
    <3>2. req[v].locks \subseteq Terms
      BY DEF QuietInv, TypeInv, TypeOK, Request
    <3> QED
      BY <3>1, <3>2 DEF QuietInv, CheckinSound
  <2> QED
    BY <2>1, <2>2
<1> QED
  BY <1>1, <1>2, <1>3, <1>4 DEF QuietInv

\* Closing keeps it: the term has no class in session, and no check-in is
\* past its lock there.
LEMMA CloseKeepsQuiet ==
  ASSUME QuietInv, TypeInv', NEW w \in Procs, close_term(w)
  PROVE  QuietInv'
<1>0. TypeInv /\ Moves(w) /\ req'[w].pc = "idle" /\ Exclusive' /\ sess' = sess
  BY DoneMoves, MovesKeepExclusion DEF close_term, QuietInv
<1>1. /\ req[w].t \in req[w].locks /\ req[w].locks \subseteq Terms
      /\ ~HasRow(req[w].t, "active")
  BY DEF close_term, QuietInv, CloseSound, TypeInv, TypeOK, Request
<1>2. term' = [term EXCEPT ![req[w].t] = "archived"]
  BY DEF close_term
<1>3. ArchivedHasNoActive'
  <2> SUFFICES ASSUME NEW t \in Terms, term'[t] = "archived"
               PROVE  ~HasRow(t, "active")
    BY <1>0 DEF ArchivedHasNoActive, HasRow
  <2> QED
    BY <1>1, <1>2 DEF QuietInv, ArchivedHasNoActive, TypeInv, TypeOK
<1>4. CloseSound'
  BY <1>0 DEF QuietInv, CloseSound, Moves, Ready, HasRow
<1>5. CheckinSound'
  <2>1. \A v \in Procs \ {w} : req[w].t \notin req[v].locks
    BY <1>1 DEF QuietInv, Exclusive
  <2>2. \A v \in Procs : req[v].locks \subseteq Terms
    BY DEF QuietInv, TypeInv, TypeOK, Request
  <2> QED
    BY <1>0, <1>2, <2>1, <2>2
       DEF QuietInv, CheckinSound, Moves, Ready, TypeInv, TypeOK
<1> QED
  BY <1>0, <1>3, <1>4, <1>5 DEF QuietInv

\* A check-in keeps it: its term is not archived and nobody else holds it.
LEMMA CheckinKeepsQuiet ==
  ASSUME QuietInv, TypeInv', NEW w \in Procs, checkin_commit(w)
  PROVE  QuietInv'
<1>0. TypeInv /\ Moves(w) /\ req'[w].pc = "idle" /\ Exclusive' /\ term' = term
  BY DoneMoves, MovesKeepExclusion DEF checkin_commit, QuietInv
<1>1. /\ req[w].t = TermOf[req[w].x[1]] /\ req[w].t \in req[w].locks
      /\ term[req[w].t] # "archived"
  BY DEF checkin_commit, QuietInv, CheckinSound
<1>2. ASSUME NEW t, t # req[w].t, ~HasRow(t, "active")
      PROVE  ~HasRow(t, "active")'
  <2>1. \A x \in OccurrencesOf(t) : sess'[x] = sess[x]
    BY <1>1, <1>2 DEF checkin_commit, OccurrencesOf, QuietInv, TypeInv, TypeOK
  <2> QED
    BY <1>2, <2>1 DEF HasRow, OccurrencesOf
<1>3. ArchivedHasNoActive'
  BY <1>0, <1>1, <1>2 DEF QuietInv, ArchivedHasNoActive
<1>4. CloseSound'
  <2> SUFFICES ASSUME NEW v \in Procs, Ready(v, "close")'
               PROVE  (req[v].t \in req[v].locks /\ ~HasRow(req[v].t, "active"))'
    BY DEF CloseSound
  <2>1. v # w /\ req'[v] = req[v] /\ Ready(v, "close")
    BY <1>0 DEF Moves, Ready
  <2>2. req[v].t \in req[v].locks /\ ~HasRow(req[v].t, "active") /\ req[v].t # req[w].t
    BY <1>1, <2>1 DEF QuietInv, CloseSound, Exclusive
  <2>3. PICK t : t = req[v].t
    OBVIOUS
  <2>4. ~HasRow(t, "active")'
    BY <1>2, <2>2, <2>3
  <2> QED
    BY <2>1, <2>2, <2>3, <2>4 DEF HasRow
<1>5. CheckinSound'
  BY <1>0 DEF QuietInv, CheckinSound, Moves, Ready
<1> QED
  BY <1>0, <1>3, <1>4, <1>5 DEF QuietInv

LEMMA LifecycleKeepsQuiet ==
  ASSUME QuietInv, TypeInv', NEW w \in Procs, Lifecycle(w)
  PROVE  QuietInv'
<1>0. TypeInv /\ Moves(w)
  BY LifecycleMoves DEF QuietInv
<1>1. ASSUME NEW t \in Terms, NEW op \in {"create", "reopen", "activate"}, NEW locks,
             NEW todo, Begin(w, op, t, locks, todo)
      PROVE  QuietInv'
  <2>1. req'[w].pc = "locked" /\ req'[w].op = op /\ term' = term /\ sess' = sess
    BY <1>0, <1>1, BeginMoves
  <2>2. Sound(w)' /\ StartsNone
    BY <2>1 DEF Sound, Ready, StartsNone
  <2> QED
    BY <1>0, <2>1, <2>2, QuietFrame
<1>2. ASSUME NEW t \in Terms, close_preflight(w, t) PROVE QuietInv'
  <2>1. /\ req'[w].pc = "locked" /\ req'[w].op = "close" /\ req'[w].t = t
        /\ req'[w].locks = {t} /\ term' = term /\ sess' = sess
        /\ ~HasRow(t, "active")
    BY <1>0, <1>2, BeginMoves DEF close_preflight
  <2>2. Sound(w)' /\ StartsNone
    BY <2>1 DEF Sound, Ready, StartsNone, HasRow
  <2> QED
    BY <1>0, <2>1, <2>2, QuietFrame
<1>3. CASE create_term(w) \/ reopen_term(w) \/ activate_term(w)
  <2>1. \A t \in Terms : term'[t] = "archived" => term[t] = "archived"
    BY <1>0, <1>3 DEF create_term, reopen_term, activate_term, TypeInv, TypeOK
  <2>2. StartsNone
    <3>1. CASE create_term(w) \/ reopen_term(w)
      BY <3>1 DEF create_term, reopen_term, StartsNone
    <3>2. CASE activate_term(w)
      <4> SUFFICES ASSUME NEW x \in Occurrences, NEW i \in DOMAIN sess'[x],
                          sess'[x][i] = "active"
                   PROVE  i \in DOMAIN sess[x] /\ sess[x][i] = "active"
        BY DEF StartsNone
      <4>1. sess[x] \in Seq(RowStatus)
        BY <1>0 DEF TypeInv, TypeOK
      <4>2. sess'[x] = sess[x] \/ sess'[x] = Append(sess[x], "scheduled")
        BY <3>2 DEF activate_term
      <4> QED
        BY <4>1, <4>2, AppendStartsNone
    <3> QED
      BY <1>3, <3>1, <3>2
  <2>3. Sound(w)'
    BY <1>0, <1>3, DoneMoves DEF create_term, reopen_term, activate_term, Sound, Ready
  <2> QED
    BY <1>0, <2>1, <2>2, <2>3, QuietFrame
<1> QED
  BY <1>1, <1>2, <1>3, CloseKeepsQuiet
     DEF Lifecycle, Creating, create_preflight, reopen_preflight, activate_preflight

LEMMA CheckInKeepsQuiet ==
  ASSUME QuietInv, TypeInv', NEW w \in Procs, CheckIn(w)
  PROVE  QuietInv'
<1>0. TypeInv /\ Moves(w) /\ term' = term /\ req \in [Procs -> Request]
  BY CheckInMoves DEF QuietInv, TypeInv, TypeOK
<1>1. ASSUME NEW x \in Occurrences, NEW i \in DOMAIN sess[x], checkin_read(w, x, i)
      PROVE  QuietInv'
  <2>1. /\ req'[w].pc = "apply" /\ req'[w].t = TermOf[x[1]] /\ req'[w].x = x
        /\ sess' = sess
    BY <1>0, <1>1 DEF checkin_read, Idle
  <2>2. Sound(w)' /\ StartsNone
    BY <2>1 DEF Sound, Ready, StartsNone
  <2> QED
    BY <1>0, <2>2, QuietFrame
<1>2. CASE checkin_lock(w)
  <2>1. req[w].pc = "apply" /\ req[w].t = TermOf[req[w].x[1]] /\ sess' = sess
    BY <1>2 DEF checkin_lock, QuietInv, CheckinSound
  <2>2. req[w].op = "checkin"
    BY <1>0, <2>1 DEF TypeInv, CheckinShape
  <2>3. CASE term[req[w].t] = "archived"
    BY <1>0, <1>2, <2>1, <2>3, QuietFrame DEF checkin_lock, Idle, Sound, Ready, StartsNone
  <2>4. CASE term[req[w].t] # "archived"
    <3>1. /\ req'[w].pc = "locked" /\ req'[w].op = "checkin" /\ req'[w].t = req[w].t
          /\ req'[w].x = req[w].x /\ req'[w].locks = {req[w].t}
      BY <1>0, <1>2, <2>2, <2>4 DEF checkin_lock, Request
    <3>2. Sound(w)' /\ StartsNone
      BY <1>0, <2>1, <2>4, <3>1 DEF Sound, Ready, StartsNone
    <3> QED
      BY <1>0, <3>2, QuietFrame
  <2> QED
    BY <2>3, <2>4
<1> QED
  BY <1>1, <1>2, CheckinKeepsQuiet DEF CheckIn

LEMMA OfficeStartsNone ==
  ASSUME TypeInv, Office
  PROVE  StartsNone /\ UNCHANGED <<term, req>>
<1>1. ASSUME NEW x \in Occurrences, NEW i \in DOMAIN sess[x], check_out(x, i)
      PROVE  StartsNone
  BY <1>1 DEF check_out, StartsNone, TypeInv, TypeOK
<1>2. ASSUME NEW S, sess' = Cancelled(S) PROVE StartsNone
  BY <1>2, CancelledStartsNone
<1> QED
  BY <1>1, <1>2 DEF Office, check_out, suspend_classes, cancel_schedule

LEMMA QuietStep == QuietInv /\ [Next]_vars => QuietInv'
<1> SUFFICES ASSUME QuietInv, [Next]_vars PROVE QuietInv'
  OBVIOUS
<1>0. TypeInv /\ TypeInv'
  BY TypeStep DEF QuietInv
<1>1. ASSUME NEW w \in Procs, Lifecycle(w) PROVE QuietInv'
  BY <1>0, <1>1, LifecycleKeepsQuiet
<1>2. ASSUME NEW w \in Procs, Materializing(w) PROVE QuietInv'
  <2>1. Moves(w) /\ req'[w].pc \notin {"locked", "apply"} /\ term' = term /\ StartsNone
    BY <1>0, <1>2, MaterializingMoves, MaterializingStartsNone
  <2> QED
    BY <1>0, <2>1, QuietFrame DEF Sound, Ready
<1>3. ASSUME NEW w \in Procs, CheckIn(w) PROVE QuietInv'
  BY <1>0, <1>3, CheckInKeepsQuiet
<1>4. ASSUME NEW w \in Procs, NEW s,
             Abort(w) \/ schedule_new(w, s) \/ (w = Scheduler /\ scheduler_crash)
      PROVE  QuietInv'
  <2>1. /\ Moves(w) /\ req'[w].pc \notin {"locked", "apply"}
        /\ term' = term /\ sess' = sess
    BY <1>0, <1>4, OthersMove
  <2> QED
    BY <1>0, <2>1, QuietFrame DEF Sound, Ready, StartsNone
<1>5. CASE UNCHANGED <<req, term>> /\ StartsNone
  <2>1. Moves(Scheduler) /\ Scheduler \in Procs
    BY <1>5 DEF Moves, Procs
  <2>2. Sound(Scheduler)
    BY <2>1 DEF QuietInv, CloseSound, CheckinSound, Sound
  <2>3. ~HasRow(req[Scheduler].t, "active") => ~HasRow(req[Scheduler].t, "active")'
    <3>1. PICK t : t = req[Scheduler].t
      OBVIOUS
    <3> QED
      BY <1>5, <3>1, StartsNoneKeepsQuiet DEF HasRow
  <2>4. Sound(Scheduler)'
    BY <1>5, <2>2, <2>3 DEF Sound, Ready
  <2> QED
    BY <1>0, <1>5, <2>1, <2>4, QuietFrame
<1>6. NextDay \/ UNCHANGED vars => UNCHANGED <<req, term>> /\ StartsNone
  BY DEF NextDay, vars, StartsNone
<1> QED
  BY <1>0, <1>1, <1>2, <1>3, <1>4, <1>5, <1>6, OfficeStartsNone DEF Next, Procs

\* No class is ever in session in an archived term, whatever the terms,
\* classes and workers: a check-in holds the lock under which close_term
\* counts the classes in session, and rolls back in an archived term.
THEOREM ArchivedStaysQuiet == Spec => []ArchivedHasNoActive
<1>1. Init => QuietInv
  <2> SUFFICES ASSUME Init PROVE QuietInv
    OBVIOUS
  <2>1. TypeInv
    <3>1. req \in [Procs -> Request] /\ CheckinShape
      BY IdleType DEF Init, CheckinShape, Idle
    <3> QED
      BY <3>1 DEF Init, TypeInv, TypeOK, TermStatus
  <2>2. Exclusive /\ CloseSound /\ CheckinSound
    BY DEF Init, Exclusive, CloseSound, CheckinSound, Ready, Idle
  <2>3. ArchivedHasNoActive
    BY DEF Init, ArchivedHasNoActive
  <2> QED
    BY <2>1, <2>2, <2>3 DEF QuietInv
<1>2. QuietInv => ArchivedHasNoActive
  BY DEF QuietInv
<1> QED
  BY <1>1, <1>2, QuietStep, PTL DEF Spec
=============================================================================
