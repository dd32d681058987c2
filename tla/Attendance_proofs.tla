------------------------- MODULE Attendance_proofs -------------------------
(***************************************************************************)
(* Proofs about Attendance, for every set of sessions, rooms, workers and  *)
(* every policy window.                                                    *)
(***************************************************************************)
EXTENDS Attendance, TLAPS

-----------------------------------------------------------------------------
(***************************************************************************)
(* Type correctness.  TypeOK alone is not inductive: what a request wrote  *)
(* into its record when it was decided is used by a later step.            *)
(***************************************************************************)
RequestShape(r) ==
  /\ r.pc # "idle" /\ r.op \notin {"suspend", "lift"} => r.s \in Sessions
  /\ r.pc # "idle" /\ r.op = "wrong-room" => r.room \in Rooms
  /\ r.pc = "gated" => r.op \in {"verified", "flag"}

TypeInv == TypeOK /\ \A w \in Workers : RequestShape(req[w])

\* The request a worker holds between requests is well formed.
LEMMA IdleShape == Idle \in Request /\ RequestShape(Idle)
BY DEF Idle, Request, RequestShape, Time, AnchorOps, BulkOps, PlainOps, PresentOps

\* One worker's request changes to a well-formed one: all are well formed.
LEMMA RequestStep ==
  ASSUME TypeInv, NEW w \in Workers, NEW r, r \in Request, RequestShape(r),
         req' = [req EXCEPT ![w] = r]
  PROVE  req' \in [Workers -> Request] /\ \A v \in Workers : RequestShape(req'[v])
BY DEF TypeInv, TypeOK

\* Whatever the rows are, a scan resolves to a known outcome about sessions of
\* the table, and every outcome but "no-schedule" names the session.
LEMMA ResolveType ==
  ASSUME NEW rows, NEW mine \in SUBSET Sessions, NEW room, NEW t \in Nat,
         NEW occ \in Sessions \cup {None},
         NEW res \in resolve_faculty_scan(rows, mine, room, occ, t)
  PROVE  /\ res.outcome \in Outcomes
         /\ res.prior \in Sessions \cup {None}
         /\ res.outcome # "no-schedule" => res.s \in mine
BY DEF resolve_faculty_scan, ActiveOutcome, ScheduledOutcome, Resolution, FirstOf,
       Outcomes, is_no_show_past_grace

\* The field updates the code makes on a session row keep its type: a status
\* alone, ...
LEMMA StatusType ==
  ASSUME NEW x \in SessionRow, NEW st \in SessionStatus
  PROVE  [x EXCEPT !.status = st] \in SessionRow
BY DEF SessionRow

\* ... a presence, ...
LEMMA PresentType ==
  ASSUME NEW x \in SessionRow, NEW t \in Time, NEW m \in CheckinMethod \cup {None}
  PROVE  [x EXCEPT !.status = "active", !.actual_start = t, !.method = m] \in SessionRow
BY DEF SessionRow, SessionStatus

\* ... a cancellation or its undoing, ...
LEMMA CancelType ==
  ASSUME NEW x \in SessionRow, NEW re \in Reasons \cup {None},
         NEW k \in Suspensions \cup {None}
  PROVE  /\ [x EXCEPT !.status = "cancelled", !.reason = re, !.cancelledBy = k] \in SessionRow
         /\ [x EXCEPT !.status = "scheduled", !.reason = None] \in SessionRow
BY DEF SessionRow, SessionStatus

\* ... a correction to held, or a room release.
LEMMA CorrectionType ==
  ASSUME NEW x \in SessionRow, NEW t \in Time
  PROVE  /\ [x EXCEPT !.status = "completed", !.actual_start = t] \in SessionRow
         /\ [x EXCEPT !.released = TRUE] \in SessionRow
BY DEF SessionRow, SessionStatus

\* A request that only moves on keeps its type, ...
LEMMA MoveType ==
  ASSUME NEW x \in Request, NEW pc \in {"apply", "write", "anchored"}
  PROVE  [x EXCEPT !.pc = pc] \in Request
BY DEF Request

\* ... as it does with the clock read again, ...
LEMMA ClockType ==
  ASSUME NEW x \in Request, NEW t \in Time
  PROVE  [x EXCEPT !.pc = "write", !.at = t] \in Request
BY DEF Request

\* ... with its siblings listed, ...
LEMMA ListType ==
  ASSUME NEW x \in Request, NEW S \in SUBSET Sessions
  PROVE  [x EXCEPT !.pc = "fill", !.ids = S] \in Request
BY DEF Request

\* ... and with the prior occupant of a handover read.
LEMMA SeenType ==
  ASSUME NEW x \in Request, NEW t \in Time, NEW b \in BOOLEAN
  PROVE  [x EXCEPT !.pc = "write", !.at = t, !.seen = b] \in Request
BY DEF Request

\* A request that moves on keeps its shape.
LEMMA ShapeFields ==
  ASSUME NEW x \in Request, RequestShape(x), x.pc # "idle",
         NEW pc \in {"apply", "write", "anchored", "fill"}, NEW t, NEW S, NEW b
  PROVE  /\ RequestShape([x EXCEPT !.pc = pc])
         /\ RequestShape([x EXCEPT !.pc = pc, !.at = t, !.seen = b])
         /\ RequestShape([x EXCEPT !.pc = pc, !.at = t])
         /\ RequestShape([x EXCEPT !.pc = pc, !.ids = S])
BY DEF Request, RequestShape

\* A decision is a request.
LEMMA DecidedShape ==
  ASSUME NEW o \in AnchorOps \cup BulkOps \cup PlainOps \cup {None}, NEW s \in Sessions \cup {None}, now \in Time
  PROVE  Decided(o, s) \in Request /\ Decided(o, s).pc = "apply" /\ Decided(o, s).op = o /\ Decided(o, s).s = s
<1>1. ASSUME NEW x \in Request
      PROVE  [x EXCEPT !.pc = "apply", !.op = o, !.s = s, !.born = now, !.at = now] \in Request
  BY Zenon DEF Request
<1>2. ASSUME NEW x \in Request, NEW d, d = [x EXCEPT !.pc = "apply", !.op = o, !.s = s, !.born = now, !.at = now]
      PROVE  d.pc = "apply" /\ d.op = o /\ d.s = s
  BY <1>2, SMT DEF Request
<1> QED BY <1>1, <1>2, IdleShape DEF Decided

\* The idempotency cache holds pairs of a session and an outcome.
LEMMA RememberType ==
  ASSUME TypeInv, NEW r, r.s \in Sessions, r.op \in Outcomes, Remember(r)
  PROVE  idem' \subseteq (Sessions \X Outcomes)
BY DEF TypeInv, TypeOK, Remember

USE DEF TypeInv, TypeOK

\* A scan, and the confirmation of a token, keep the types.
LEMMA ScanType ==
  ASSUME TypeInv, NEW w \in Workers, Scan(w)
  PROVE  TypeInv'
<1>1. CASE \E f \in FacultyMembers, r \in Rooms : scan_resolve_token(w, f, r)
  <2>1. PICK f \in FacultyMembers, r \in Rooms : scan_resolve_token(w, f, r)
    BY <1>1
  <2>2. PICK occ \in occupying_session(f, r) :
          \E res \in resolve_faculty_scan(row, SessionsOf(f), r, occ, now) :
            /\ res.outcome \in CONFIRM_OUTCOMES
            /\ token' = token \cup {[outcome |-> res.outcome, s |-> res.s,
                                      prior |-> res.prior, room |-> r, at |-> now]}
    BY <2>1 DEF scan_resolve_token
  <2>3. PICK res \in resolve_faculty_scan(row, SessionsOf(f), r, occ, now) :
            /\ res.outcome \in CONFIRM_OUTCOMES
            /\ token' = token \cup {[outcome |-> res.outcome, s |-> res.s,
                                      prior |-> res.prior, room |-> r, at |-> now]}
    BY <2>2
  <2>4. occ \in Sessions \cup {None}
    BY <2>2 DEF occupying_session, FirstOf, Holding
  <2>5. res.prior \in Sessions \cup {None} /\ res.s \in Sessions
    BY <2>3, <2>4, ResolveType DEF SessionsOf, CONFIRM_OUTCOMES
  <2>6. token' \subseteq Token
    BY <2>3, <2>5 DEF Token
  <2> QED BY <2>1, <2>6 DEF scan_resolve_token
<1>2. CASE \E f \in FacultyMembers, r \in Rooms, m \in ScanMethods : scan_resolve(w, f, r, m)
  <2>1. PICK f \in FacultyMembers, r \in Rooms, m \in ScanMethods : scan_resolve(w, f, r, m)
    BY <1>2
  <2>2. PICK occ \in occupying_session(f, r) :
          \E res \in resolve_faculty_scan(row, SessionsOf(f), r, occ, now) :
            /\ res.outcome \in {"checked-in", "checked-out", "absent"}
            /\ req' = [req EXCEPT ![w] = [Decided(res.outcome, res.s) EXCEPT !.method = m]]
    BY <2>1 DEF scan_resolve, Ask
  <2>3. PICK res \in resolve_faculty_scan(row, SessionsOf(f), r, occ, now) :
            /\ res.outcome \in {"checked-in", "checked-out", "absent"}
            /\ req' = [req EXCEPT ![w] = [Decided(res.outcome, res.s) EXCEPT !.method = m]]
    BY <2>2
  <2>4. occ \in Sessions \cup {None}
    BY <2>2 DEF occupying_session, FirstOf, Holding
  <2>5. res.s \in Sessions
    BY <2>3, <2>4, ResolveType DEF SessionsOf
  <2>6. /\ [Decided(res.outcome, res.s) EXCEPT !.method = m] \in Request
        /\ RequestShape([Decided(res.outcome, res.s) EXCEPT !.method = m])
    BY <2>3, <2>5, TableAssumption
       DEF Decided, Idle, Request, RequestShape, Time, CheckinMethod, AnchorOps,
           BulkOps, PlainOps, PresentOps
  <2>7. req' \in [Workers -> Request] /\ \A v \in Workers : RequestShape(req'[v])
    BY <2>3, <2>6, RequestStep
  <2> QED BY <2>1, <2>7 DEF scan_resolve
<1>3. CASE \E tk \in token : scan_confirm(w, tk)
  <2>1. PICK tk \in token : scan_confirm(w, tk)
    BY <1>3
  <2> DEFINE r == [Decided(tk.outcome, tk.s) EXCEPT !.room = tk.room, !.prior = tk.prior,
                     !.method = IF tk.outcome = "room-occupied" THEN "force_handover"
                                ELSE None]
  <2>2. r \in Request /\ RequestShape(r)
    <3> DEFINE m == IF tk.outcome = "room-occupied" THEN "force_handover" ELSE None
    <3>1. /\ tk.outcome \in {"wrong-room", "room-occupied", "early-end"} /\ tk.s \in Sessions
          /\ tk.prior \in Sessions \cup {None} /\ tk.room \in Rooms
      BY DEF Token, CONFIRM_OUTCOMES
    <3>2. m \in CheckinMethod \cup {None} /\ now \in Time
      BY DEF CheckinMethod, Time
    <3>3. tk.outcome \in AnchorOps \cup BulkOps \cup PlainOps \cup {None}
      BY <3>1 DEF AnchorOps, PlainOps, PresentOps
    <3> DEFINE d == Decided(tk.outcome, tk.s)
    <3>4. d \in Request /\ d.pc = "apply" /\ d.op = tk.outcome /\ d.s = tk.s
      BY <3>1, <3>2, <3>3, DecidedShape
    <3> HIDE DEF d, m
    <3>5. r = [d EXCEPT !.room = tk.room, !.prior = tk.prior, !.method = m]
      BY DEF d, m
    <3> HIDE DEF r
    <3>6. [d EXCEPT !.room = tk.room, !.prior = tk.prior, !.method = m] \in Request
      BY ONLY <3>1, <3>2, <3>4, Zenon DEF Request
    <3>7. r.pc = d.pc /\ r.op = d.op /\ r.s = d.s /\ r.room = tk.room
      BY ONLY <3>1, <3>4, <3>5, SMT DEF Request
    <3>8. r \in Request
      BY ONLY <3>5, <3>6, Zenon
    <3> QED BY <3>1, <3>4, <3>7, <3>8 DEF RequestShape
  <2>3. req' \in [Workers -> Request] /\ \A v \in Workers : RequestShape(req'[v])
    BY <2>1, <2>2, RequestStep DEF scan_confirm, Ask
  <2> QED BY <2>1, <2>3 DEF scan_confirm
<1> QED BY <1>1, <1>2, <1>3 DEF Scan

\* The steps of _apply outside the shared transaction keep the types.
LEMMA ApplyType ==
  ASSUME TypeInv, NEW w \in Workers, Apply(w)
  PROVE  TypeInv'
<1>1. CASE apply_absent_read(w)
  <2>1. CASE row[req[w].s].status = "scheduled"
    <3>1. req' = [req EXCEPT ![w] = [req[w] EXCEPT !.pc = "write"]] /\ idem' = idem
      BY <1>1, <2>1 DEF apply_absent_read
    <3>2. req[w].pc = "apply"
      BY <1>1 DEF apply_absent_read
    <3>3. [req[w] EXCEPT !.pc = "write"] \in Request
      BY MoveType
    <3>4. RequestShape([req[w] EXCEPT !.pc = "write"])
      BY <3>2, ShapeFields
    <3>5. req' \in [Workers -> Request] /\ \A v \in Workers : RequestShape(req'[v])
      BY <3>1, <3>3, <3>4, RequestStep
    <3> QED BY <1>1, <3>1, <3>5 DEF apply_absent_read
  <2>2. CASE row[req[w].s].status # "scheduled"
    <3>1. req' \in [Workers -> Request] /\ \A v \in Workers : RequestShape(req'[v])
      BY <1>1, <2>2, RequestStep, IdleShape DEF apply_absent_read
    <3>2. idem' \subseteq (Sessions \X Outcomes)
      BY <1>1, <2>2, RememberType DEF apply_absent_read, Outcomes, RequestShape
    <3> QED BY <1>1, <3>1, <3>2 DEF apply_absent_read
  <2> QED BY <2>1, <2>2
<1>2. ASSUME apply_absent(w) \/ apply_end(w) PROVE TypeInv'
  <2>1. req' \in [Workers -> Request] /\ \A v \in Workers : RequestShape(req'[v])
    BY <1>2, RequestStep, IdleShape DEF apply_absent, apply_end
  <2>2. idem' \subseteq (Sessions \X Outcomes)
    BY <1>2, RememberType DEF apply_absent, apply_end, Outcomes, RequestShape
  <2>3. row' \in [Sessions -> SessionRow]
    BY <1>2 DEF apply_absent, apply_end, SessionRow, SessionStatus
  <2> QED BY <1>2, <2>1, <2>2, <2>3 DEF apply_absent, apply_end
<1>3. CASE apply_wrong_room(w)
  <2>1. req' \in [Workers -> Request] /\ \A v \in Workers : RequestShape(req'[v])
    BY <1>3, RequestStep, IdleShape DEF apply_wrong_room
  <2>2. req[w].room \in Rooms
    BY <1>3 DEF apply_wrong_room, RequestShape
  <2>3. \A s \in Sessions : [row[s] EXCEPT !.room = req[w].room] \in SessionRow
    BY <2>2 DEF SessionRow
  <2>4. row' \in [Sessions -> SessionRow]
    BY <1>3, <2>3 DEF apply_wrong_room
  <2> QED BY <1>3, <2>1, <2>4 DEF apply_wrong_room
<1>4. CASE apply_handover_read(w)
  <2> DEFINE b == row[req[w].prior].status = "active"
  <2>1. req' = [req EXCEPT ![w] = [req[w] EXCEPT !.pc = "write", !.at = now, !.seen = b]]
    BY <1>4 DEF apply_handover_read
  <2>2. req[w].pc = "apply" /\ b \in BOOLEAN /\ now \in Time
    BY <1>4 DEF apply_handover_read, Time
  <2>3. [req[w] EXCEPT !.pc = "write", !.at = now, !.seen = b] \in Request
    BY <2>2, SeenType
  <2>4. RequestShape([req[w] EXCEPT !.pc = "write", !.at = now, !.seen = b])
    BY <2>2, ShapeFields
  <2>5. req' \in [Workers -> Request] /\ \A v \in Workers : RequestShape(req'[v])
    BY <2>1, <2>3, <2>4, RequestStep
  <2> QED BY <1>4, <2>5 DEF apply_handover_read
<1> QED BY <1>1, <1>2, <1>3, <1>4 DEF Apply

\* The shared anchor transaction keeps the types.
LEMMA TransactType ==
  ASSUME TypeInv, NEW w \in Workers, Transact(w)
  PROVE  TypeInv'
<1> USE DEF RequestShape
<1>1. CASE anchor_write(w)
  <2>1. req' = [req EXCEPT ![w] = [req[w] EXCEPT !.pc = "anchored"]]
    BY <1>1 DEF anchor_write
  <2>2. req[w] \in Request /\ RequestShape(req[w]) /\ req[w].pc # "idle"
    BY <1>1 DEF anchor_write, ReadyToAnchor
  <2>3. [req[w] EXCEPT !.pc = "anchored"] \in Request
    BY <2>2, MoveType
  <2>4. RequestShape([req[w] EXCEPT !.pc = "anchored"])
    BY <2>2, ShapeFields
  <2>5. req' \in [Workers -> Request] /\ \A v \in Workers : RequestShape(req'[v])
    BY <2>1, <2>3, <2>4, RequestStep
  <2> QED BY <1>1, <2>5 DEF anchor_write
<1>4. CASE read_clock(w)
  <2>1. req' = [req EXCEPT ![w] = [req[w] EXCEPT !.pc = "write", !.at = now]]
    BY <1>4 DEF read_clock
  <2>2. req[w] \in Request /\ RequestShape(req[w]) /\ req[w].pc # "idle" /\ now \in Time
    BY <1>4 DEF read_clock, Time
  <2>3. [req[w] EXCEPT !.pc = "write", !.at = now] \in Request
    BY <2>2, ClockType
  <2>4. RequestShape([req[w] EXCEPT !.pc = "write", !.at = now])
    BY <2>2, ShapeFields
  <2>5. req' \in [Workers -> Request] /\ \A v \in Workers : RequestShape(req'[v])
    BY <2>1, <2>3, <2>4, RequestStep
  <2> QED BY <1>4, <2>5 DEF read_clock
<1>2. CASE propagate_select(w)
  <2> DEFINE S == {c \in merged_sibling_ids(row, req[w].s) : row[c].status = "scheduled"}
  <2>1. req' = [req EXCEPT ![w] = [req[w] EXCEPT !.pc = "fill", !.ids = S]]
    BY <1>2 DEF propagate_select
  <2>2. S \subseteq Sessions
    BY DEF merged_sibling_ids
  <2>3. /\ [req[w] EXCEPT !.pc = "fill", !.ids = S] \in Request
        /\ RequestShape([req[w] EXCEPT !.pc = "fill", !.ids = S])
    <3>1. req[w] \in Request /\ RequestShape(req[w]) /\ req[w].pc # "idle"
      BY <1>2 DEF propagate_select
    <3>2. [req[w] EXCEPT !.pc = "fill", !.ids = S] \in Request
      BY <2>2, <3>1, ListType
    <3>3. RequestShape([req[w] EXCEPT !.pc = "fill", !.ids = S])
      BY <3>1, ShapeFields
    <3> QED BY <3>2, <3>3
  <2>4. req' \in [Workers -> Request] /\ \A v \in Workers : RequestShape(req'[v])
    BY <2>1, <2>3, RequestStep
  <2> QED BY <1>2, <2>4 DEF propagate_select
<1>3. CASE commit(w)
  <2>1. req' \in [Workers -> Request] /\ \A v \in Workers : RequestShape(req'[v])
    BY <1>3, RequestStep, IdleShape DEF commit
  <2>2. idem' \subseteq (Sessions \X Outcomes)
    BY <1>3, RememberType DEF commit, Outcomes
  <2>3. req[w].at \in Time /\ req[w].method \in CheckinMethod \cup {None}
    BY DEF Request
  <2>4. \A s \in Sessions :
          /\ Anchored(req[w], s) \in SessionRow /\ Filled(req[w], s) \in SessionRow
          /\ [row[s] EXCEPT !.status = "completed"] \in SessionRow
    <3> SUFFICES ASSUME NEW s \in Sessions
                 PROVE  /\ Anchored(req[w], s) \in SessionRow /\ Filled(req[w], s) \in SessionRow
                        /\ [row[s] EXCEPT !.status = "completed"] \in SessionRow
      OBVIOUS
    <3>1. /\ row[s] \in SessionRow /\ "merged" \in CheckinMethod
          /\ "absent" \in SessionStatus /\ "completed" \in SessionStatus
      BY DEF SessionStatus, CheckinMethod
    <3>2. Anchored(req[w], s) \in SessionRow
      BY <2>3, <3>1, StatusType, PresentType DEF Anchored
    <3>3. Filled(req[w], s) \in SessionRow
      BY <2>3, <3>1, StatusType, PresentType DEF Filled
    <3> QED BY <3>1, <3>2, <3>3, StatusType
  <2>5. row' \in [Sessions -> SessionRow]
    BY <1>3, <2>4 DEF commit, Committed
  <2> QED BY <1>3, <2>1, <2>2, <2>5 DEF commit
<1> QED BY <1>1, <1>2, <1>3, <1>4 DEF Transact

\* Starting an online class and the checker's actions keep the types.
LEMMA OnlineType ==
  ASSUME TypeInv, NEW w \in Workers, OnlineClass(w)
  PROVE  TypeInv'
<1>1. ASSUME NEW s \in Sessions, online_start(w, s) PROVE TypeInv'
  <2> DEFINE r == [Decided("online-start", s) EXCEPT !.method = "online_self"]
  <2>1. r \in Request /\ RequestShape(r)
    BY DEF Decided, Idle, Request, RequestShape, Time, CheckinMethod, AnchorOps,
           BulkOps, PlainOps, PresentOps
  <2>2. req' \in [Workers -> Request] /\ \A v \in Workers : RequestShape(req'[v])
    BY <1>1, <2>1, RequestStep DEF online_start, Ask
  <2> QED BY <1>1, <2>2 DEF online_start
<1>2. ASSUME NEW s \in Sessions, NEW a \in {"verified", "flag"}, online_action(w, s, a)
      PROVE  TypeInv'
  <2> DEFINE r == [Decided(a, s) EXCEPT !.pc = "gated",
                     !.method = IF a = "verified" THEN "online_manual" ELSE None]
  <2>1. r \in Request /\ RequestShape(r)
    BY DEF Decided, Idle, Request, RequestShape, Time, CheckinMethod, AnchorOps,
           BulkOps, PlainOps, PresentOps
  <2>2. req' \in [Workers -> Request] /\ \A v \in Workers : RequestShape(req'[v])
    BY <1>2, <2>1, RequestStep DEF online_action, Ask
  <2> QED BY <1>2, <2>2 DEF online_action
<1>3. CASE record_validation(w)
  <2>1. req' = [req EXCEPT ![w] = [req[w] EXCEPT !.pc = "apply"]] /\ req[w].pc = "gated"
    BY <1>3 DEF record_validation
  <2>2. [req[w] EXCEPT !.pc = "apply"] \in Request
    BY MoveType
  <2>3. RequestShape([req[w] EXCEPT !.pc = "apply"])
    BY <2>1, ShapeFields
  <2>4. req' \in [Workers -> Request] /\ \A v \in Workers : RequestShape(req'[v])
    BY <2>1, <2>2, <2>3, RequestStep
  <2>5. <<req[w].s, req[w].op>> \in Sessions \X {"verified", "flag"}
    BY <2>1 DEF RequestShape
  <2> QED BY <1>3, <2>4, <2>5 DEF record_validation
<1> QED BY <1>1, <1>2, <1>3 DEF OnlineClass

\* The facilities office's writes keep the types.
LEMMA OfficeType ==
  ASSUME TypeInv, NEW w \in Workers, Office(w)
  PROVE  TypeInv'
<1> USE DEF Serve
<1>1. ASSUME NEW k \in Suspensions, suspend_list(w, k) \/ lift_list(w, k) PROVE TypeInv'
  <2>1. PICK r \in Request : RequestShape(r) /\ req' = [req EXCEPT ![w] = r]
    <3>1. CASE suspend_list(w, k)
      <4> DEFINE S == {s \in Sessions : /\ row[s].status = "scheduled"
                                        /\ covers(k, BuildingOf[row[s].room])}
                 r == [[Idle EXCEPT !.pc = "fill", !.k = k, !.reason = SusReason[k],
                                    !.ids = S] EXCEPT !.op = "suspend"]
      <4>1. r \in Request /\ RequestShape(r)
        BY DEF Idle, Request, RequestShape, Time, AnchorOps, BulkOps, PlainOps,
               PresentOps, Reasons
      <4> QED BY <3>1, <4>1 DEF suspend_list
    <3>2. CASE lift_list(w, k)
      <4> DEFINE S == {s \in Sessions : /\ row[s].status = "cancelled"
                                        /\ row[s].reason = SusReason[k]
                                        /\ covers(k, BuildingOf[row[s].room])}
                 r == [[Idle EXCEPT !.pc = "fill", !.k = k, !.ids = S]
                        EXCEPT !.op = "lift"]
      <4>1. r \in Request /\ RequestShape(r)
        BY DEF Idle, Request, RequestShape, Time, AnchorOps, BulkOps, PlainOps,
               PresentOps, Reasons
      <4> QED BY <3>2, <4>1 DEF lift_list
    <3> QED BY <1>1, <3>1, <3>2
  <2>2. req' \in [Workers -> Request] /\ \A v \in Workers : RequestShape(req'[v])
    BY <2>1, RequestStep
  <2> QED BY <1>1, <2>2 DEF suspend_list, lift_list
<1>2. ASSUME NEW s \in Sessions, session_release(w, s) \/ session_reinstate(w, s)
      PROVE  TypeInv'
  <2> DEFINE t == IF row[s].actual_start = None THEN Start[s] ELSE row[s].actual_start
             q == [[Idle EXCEPT !.pc = "apply", !.s = s] EXCEPT !.op = "release"]
             r == [[Idle EXCEPT !.pc = "apply", !.s = s, !.at = t] EXCEPT !.op = "reinstate"]
  <2>1. t \in Time
    BY PolicyAssumption DEF SessionRow, Time
  <2>2. q \in Request /\ RequestShape(q) /\ r \in Request /\ RequestShape(r)
    BY <2>1 DEF Idle, Request, RequestShape, Time, AnchorOps, BulkOps, PlainOps, PresentOps
  <2>3. req' = [req EXCEPT ![w] = q] \/ req' = [req EXCEPT ![w] = r]
    BY <1>2 DEF session_release, session_reinstate
  <2>4. req' \in [Workers -> Request] /\ \A v \in Workers : RequestShape(req'[v])
    BY <2>2, <2>3, RequestStep
  <2> QED BY <1>2, <2>4 DEF session_release, session_reinstate
<1>3. ASSUME NEW s \in Sessions, NEW re \in CancelReasons, cancel_list(w, s, re)
      PROVE  TypeInv'
  <2> DEFINE r == [[Idle EXCEPT !.pc = "fill", !.s = s, !.reason = re, !.ids = {s}]
                    EXCEPT !.op = "cancel"]
  <2>1. r \in Request /\ RequestShape(r)
    BY DEF Idle, Request, RequestShape, Time, AnchorOps, BulkOps, PlainOps, PresentOps,
           Reasons
  <2>2. req' \in [Workers -> Request] /\ \A v \in Workers : RequestShape(req'[v])
    BY <1>3, <2>1, RequestStep DEF cancel_list
  <2> QED BY <1>3, <2>2 DEF cancel_list
<1>4. ASSUME cancel_commit(w) \/ lift_commit(w) \/ release_room(w) \/ reinstate_write(w)
      PROVE  TypeInv'
  <2>1. req' \in [Workers -> Request] /\ \A v \in Workers : RequestShape(req'[v])
    BY <1>4, RequestStep, IdleShape
       DEF cancel_commit, lift_commit, release_room, reinstate_write
  <2>2. sus' \in [Suspensions -> {"none", "active", "lifted"}]
    BY <1>4 DEF cancel_commit, lift_commit, release_room, reinstate_write
  <2>3. /\ req[w].reason \in Reasons \cup {None} /\ req[w].at \in Time
        /\ req[w].k \in Suspensions \cup {None}
    BY DEF Request
  <2>4. \A s \in Sessions :
          /\ [row[s] EXCEPT !.status = "cancelled", !.reason = req[w].reason,
                            !.cancelledBy = req[w].k] \in SessionRow
          /\ [row[s] EXCEPT !.status = "scheduled", !.reason = None] \in SessionRow
    BY <2>3, CancelType
  <2>5. \A s \in Sessions :
          /\ [row[s] EXCEPT !.released = TRUE] \in SessionRow
          /\ [row[s] EXCEPT !.status = "completed", !.actual_start = req[w].at] \in SessionRow
    BY <2>3, CorrectionType
  <2>6. row' \in [Sessions -> SessionRow]
    <3>1. CASE cancel_commit(w)
      BY <2>4, <3>1 DEF cancel_commit, Cancelled
    <3>2. CASE lift_commit(w)
      BY <2>4, <3>2 DEF lift_commit, Reinstated
    <3>3. CASE release_room(w)
      <4>1. row' = [row EXCEPT ![req[w].s] = [row[req[w].s] EXCEPT !.released = TRUE]]
        BY <3>3 DEF release_room
      <4> QED BY <2>5, <4>1
    <3>4. CASE reinstate_write(w)
      <4>1. row' = [row EXCEPT ![req[w].s] = [row[req[w].s] EXCEPT !.status = "completed",
                                                       !.actual_start = req[w].at]]
        BY <3>4 DEF reinstate_write
      <4> QED BY <2>5, <4>1
    <3> QED BY <1>4, <3>1, <3>2, <3>3, <3>4
  <2> QED BY <1>4, <2>1, <2>2, <2>6
      DEF cancel_commit, lift_commit, release_room, reinstate_write
<1> QED BY <1>1, <1>2, <1>3, <1>4 DEF Office

\* The scheduler's sweep, the calendar and the clock keep the types.
LEMMA BackgroundType ==
  ASSUME TypeInv, Calendar \/ Sweeping \/ sweep_crash \/ Tick
  PROVE  TypeInv'
<1>1. SweepIdle \in Sweep
  BY DEF SweepIdle, Sweep
<1>2. CASE Calendar
  BY <1>2 DEF Calendar, break_create, break_delete, room_toggle_service
<1>3. CASE sweep_start
  <2>1. sweep' \in Sweep
    BY <1>3 DEF sweep_start, SweepIdle, Sweep, ActiveSuspensions
  <2> QED BY <1>3, <2>1 DEF sweep_start
<1>4. CASE sweep_list
  <2>1. sweep' \in Sweep
    BY <1>4 DEF sweep_list, Sweep
  <2> QED BY <1>4, <2>1 DEF sweep_list
<1>5. ASSUME NEW s \in Sessions, sweep_mark(s) PROVE TypeInv'
  <2>1. sweep' \in Sweep
    BY <1>5 DEF sweep_mark, Sweep
  <2>2. row' \in [Sessions -> SessionRow]
    BY <1>5 DEF sweep_mark, SessionRow, SessionStatus
  <2> QED BY <1>5, <2>1, <2>2 DEF sweep_mark
<1>6. CASE conflicts_read
  <2>1. sweep' \in Sweep
    BY <1>6 DEF conflicts_read, Sweep, ConflictRooms
  <2> QED BY <1>6, <2>1 DEF conflicts_read
<1>7. CASE conflicts_flag
  <2>1. flags' \subseteq Rooms
    BY <1>7 DEF conflicts_flag, Sweep
  <2> QED BY <1>1, <1>7, <2>1 DEF conflicts_flag
<1>8. CASE sweep_crash
  BY <1>1, <1>8 DEF sweep_crash
<1>9. CASE Tick
  BY <1>9 DEF Tick
<1> QED BY <1>2, <1>3, <1>4, <1>5, <1>6, <1>7, <1>8, <1>9 DEF Sweeping

\* A rolled-back request keeps the types.
LEMMA AbortType ==
  ASSUME TypeInv, NEW w \in Workers, Abort(w)
  PROVE  TypeInv'
<1>1. req' \in [Workers -> Request] /\ \A v \in Workers : RequestShape(req'[v])
  BY RequestStep, IdleShape DEF Abort
<1> QED BY <1>1 DEF Abort

HIDE DEF TypeInv, TypeOK

\* The initial state, a freshly materialized day, is well typed.
LEMMA TypeInit == Init => TypeInv
<1> SUFFICES ASSUME Init PROVE TypeInv
  OBVIOUS
<1>1. row \in [Sessions -> SessionRow]
  BY TableAssumption DEF Init, SessionRow, SessionStatus, Time
<1>2. req \in [Workers -> Request] /\ \A w \in Workers : RequestShape(req[w])
  BY IdleShape DEF Init
<1>3. sweep \in Sweep
  BY DEF Init, SweepIdle, Sweep
<1> QED BY <1>1, <1>2, <1>3 DEF Init, TypeInv, TypeOK

\* Every step of the system keeps the inductive type invariant.
LEMMA TypeStep == TypeInv /\ [Next]_vars => TypeInv'
<1> SUFFICES ASSUME TypeInv, [Next]_vars PROVE TypeInv'
  OBVIOUS
<1>1. CASE Next
  BY <1>1, ScanType, ApplyType, TransactType, OnlineType, OfficeType, AbortType,
     BackgroundType DEF Next
<1>2. CASE UNCHANGED vars
  BY <1>2 DEF vars, TypeInv, TypeOK
<1> QED BY <1>1, <1>2

\* Every reachable state of attendance is well typed: no handler ever stores a
\* status, room, method or session the tables do not know.
THEOREM TypeCorrect == Spec => []TypeOK
<1>1. TypeInv => TypeOK
  BY DEF TypeInv
<1> QED BY <1>1, TypeInit, TypeStep, PTL DEF Spec
=============================================================================
