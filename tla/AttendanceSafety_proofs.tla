---------------------- MODULE AttendanceSafety_proofs ----------------------
(***************************************************************************)
(* The safety properties of Attendance, proved for every instance.  Each   *)
(* part strengthens one property into an inductive invariant by saying     *)
(* what the requests in flight have already read.                          *)
(***************************************************************************)
EXTENDS Attendance_proofs

-----------------------------------------------------------------------------
(***************************************************************************)
(* What a step other than a commit does to a session row: only the commit  *)
(* of an anchor transaction makes a row active or stamps a method, and     *)
(* apart from it only a scan or the sweep makes one absent.                *)
(***************************************************************************)
NowAbsent(s) ==
  \/ \E w \in Workers : apply_absent(w) /\ s = req[w].s
  \/ sweep_mark(s)

RowKept(s) ==
  /\ row'[s].method = row[s].method
  /\ row'[s].status = "active" => row[s].status = "active"
  /\ row'[s].status = "absent" => row[s].status = "absent" \/ NowAbsent(s)

\* A step that writes no row keeps every row.
LEMMA RowUnchanged ==
  ASSUME row' = row, NEW s \in Sessions
  PROVE  RowKept(s)
BY DEF RowKept

\* The writes of _apply outside the transaction neither activate nor restamp.
LEMMA ApplyKeeps ==
  ASSUME TypeInv, NEW w \in Workers, Apply(w), NEW s \in Sessions
  PROVE  RowKept(s)
<1>1. row[s] \in SessionRow /\ row \in [Sessions -> SessionRow]
  BY DEF TypeInv, TypeOK
<1>2. CASE apply_absent_read(w) \/ apply_handover_read(w)
  BY <1>2, RowUnchanged DEF apply_absent_read, apply_handover_read
<1>3. CASE apply_absent(w)
  <2>1. row' = [row EXCEPT ![req[w].s].status = "absent"]
    BY <1>3 DEF apply_absent
  <2>2. s = req[w].s => NowAbsent(s)
    BY <1>3 DEF NowAbsent
  <2> QED BY <1>1, <2>1, <2>2 DEF RowKept, SessionRow
<1>4. CASE apply_end(w)
  BY <1>1, <1>4 DEF apply_end, RowKept, SessionRow
<1>5. CASE apply_wrong_room(w)
  BY <1>1, <1>5 DEF apply_wrong_room, RowKept, SessionRow
<1> QED BY <1>2, <1>3, <1>4, <1>5 DEF Apply

\* Nor do the facilities office's writes, and none of them marks absent.
LEMMA OfficeKeeps ==
  ASSUME TypeInv, NEW w \in Workers, Office(w), NEW s \in Sessions
  PROVE  RowKept(s)
<1>1. row[s] \in SessionRow /\ row \in [Sessions -> SessionRow]
  BY DEF TypeInv, TypeOK
<1>2. CASE cancel_commit(w)
  BY <1>1, <1>2 DEF cancel_commit, Cancelled, RowKept, SessionRow
<1>3. CASE lift_commit(w)
  BY <1>1, <1>3 DEF lift_commit, Reinstated, RowKept, SessionRow
<1>4. CASE release_room(w)
  BY <1>1, <1>4 DEF release_room, RowKept, SessionRow
<1>5. CASE reinstate_write(w)
  <2> DEFINE x == [row[req[w].s] EXCEPT !.status = "completed", !.actual_start = req[w].at]
  <2>1. row' = [row EXCEPT ![req[w].s] = x]
    BY <1>5 DEF reinstate_write
  <2>2. s = req[w].s => x.status = "completed" /\ x.method = row[s].method
    BY <1>1 DEF SessionRow
  <2>3. row'[s] = IF s = req[w].s THEN x ELSE row[s]
    BY <1>1, <2>1
  <2> QED BY <2>2, <2>3 DEF RowKept
<1>6. CASE \/ \E k \in Suspensions : suspend_list(w, k) \/ lift_list(w, k)
           \/ \E t \in Sessions : \/ session_release(w, t) \/ session_reinstate(w, t)
                                  \/ \E re \in CancelReasons : cancel_list(w, t, re)
  BY <1>6, RowUnchanged DEF suspend_list, lift_list, session_release, session_reinstate,
                            cancel_list
<1> QED BY <1>2, <1>3, <1>4, <1>5, <1>6 DEF Office

\* Nor does any step but a commit.
LEMMA StepKeeps ==
  ASSUME TypeInv, Next, \A w \in Workers : ~commit(w), NEW s \in Sessions
  PROVE  RowKept(s)
<1>1. ASSUME NEW w \in Workers, Scan(w) \/ Transact(w) \/ OnlineClass(w) \/ Abort(w)
      PROVE  row' = row
  BY <1>1 DEF Scan, Transact, OnlineClass, scan_resolve_token, scan_resolve, scan_confirm,
              read_clock, anchor_write, propagate_select, online_start, online_action,
              record_validation, Abort
<1>2. CASE Calendar \/ sweep_crash \/ Tick
  BY <1>2, RowUnchanged DEF Calendar, break_create, break_delete, room_toggle_service,
                            sweep_crash, Tick
<1>3. CASE sweep_start \/ sweep_list \/ conflicts_read \/ conflicts_flag
  BY <1>3, RowUnchanged DEF sweep_start, sweep_list, conflicts_read, conflicts_flag
<1>4. ASSUME NEW t \in Sessions, sweep_mark(t) PROVE RowKept(s)
  <2>1. row[s] \in SessionRow /\ row \in [Sessions -> SessionRow]
    BY DEF TypeInv, TypeOK
  <2>2. s = t => NowAbsent(s)
    BY <1>4 DEF NowAbsent
  <2>3. row' = row \/ row' = [row EXCEPT ![t].status = "absent"]
    BY <1>4 DEF sweep_mark
  <2> QED BY <2>1, <2>2, <2>3 DEF RowKept, SessionRow
<1> QED BY <1>1, <1>2, <1>3, <1>4, ApplyKeeps, OfficeKeeps, RowUnchanged DEF Next, Sweeping

-----------------------------------------------------------------------------
(***************************************************************************)
(* What a request in flight has established before it writes, at time t    *)
(* and with these checker validations recorded.                            *)
(***************************************************************************)
OnTime(s, t) == Start[s] <= t + OpenLead /\ t <= Start[s] + Grace

Flight(r, t, val) ==
  /\ r.op \in AnchorOps => \A c \in r.ids : /\ c # r.s
                                            /\ FacultyOf[c] = FacultyOf[r.s]
                                            /\ Start[c] = Start[r.s]
  /\ r.op \in AnchorOps /\ r.pc # "fill" => r.ids = {}
  /\ r.op = "absent" => is_no_show_past_grace(r.s, t)
  /\ r.op = "flag" => /\ r.s \in Online
                      /\ r.pc # "gated" => <<r.s, "flag">> \in val
                      /\ r.pc = "fill" => is_no_show_past_grace(r.s, t)
  /\ r.op = "checked-in" => r.method \in {"qr_scan", "manual_code"} /\ OnTime(r.s, r.born)
  /\ r.op = "room-occupied" => /\ r.method = "force_handover"
                               /\ r.born <= Start[r.s] + Grace + TokenAge
  /\ r.op \in {"online-start", "verified"} => r.method \in {"online_self", "online_manual"}

InFlight == \A w \in Workers : req[w].pc # "idle" => Flight(req[w], now, validations)

\* A handover token was signed inside the grace window.
TokensOnTime ==
  \A tk \in token : tk.outcome = "room-occupied" => tk.at <= Start[tk.s] + Grace

\* The sweep marks rows that were past grace when it listed them.
SweepPastGrace ==
  /\ sweep.at <= now
  /\ \A s \in sweep.candidates : is_no_show_past_grace(s, now)

SafetyInv ==
  /\ TypeInv
  /\ InFlight /\ TokensOnTime /\ SweepPastGrace
  /\ NoEarlyAbsent /\ MergedHasAnchor

\* What is established stays established while the clock advances and
\* validations accumulate.
LEMMA FlightStable ==
  ASSUME NEW r \in Request, RequestShape(r), r.pc # "idle", NEW t \in Nat, NEW u \in Nat,
         t <= u, NEW val, NEW val2, val \subseteq val2, Flight(r, t, val)
  PROVE  Flight(r, u, val2)
<1>1. r.op \in {"absent", "flag"} => r.s \in Sessions /\ Start[r.s] + Grace \in Nat
  BY PolicyAssumption DEF RequestShape
<1> QED BY <1>1 DEF Flight, is_no_show_past_grace

\* Requests other than w's stay as they are; w's new one has established what
\* it must.
LEMMA FlightStep ==
  ASSUME TypeInv, InFlight, now' = now, validations \subseteq validations',
         NEW w \in Workers, NEW r, req' = [req EXCEPT ![w] = r],
         r.pc # "idle" => Flight(r, now, validations')
  PROVE  InFlight'
<1>1. \A v \in Workers : v # w => req'[v] = req[v]
  BY DEF TypeInv, TypeOK
<1>2. req'[w] = r
  BY DEF TypeInv, TypeOK
<1>3. ASSUME NEW v \in Workers, v # w, req[v].pc # "idle"
      PROVE  Flight(req[v], now, validations')
  <2>1. req[v] \in Request /\ RequestShape(req[v]) /\ now \in Nat
    BY DEF TypeInv, TypeOK
  <2> QED BY <1>3, <2>1, FlightStable DEF InFlight
<1> QED BY <1>1, <1>2, <1>3 DEF InFlight

\* A request that ends leaves the others as they are.
LEMMA FlightEnds ==
  ASSUME TypeInv, InFlight, now' = now, validations' = validations,
         NEW w \in Workers, req' = [req EXCEPT ![w] = Idle]
  PROVE  InFlight'
BY FlightStep DEF Idle

\* The resolver says "absent" only past grace, "checked-in" only inside the
\* check-in window, and "room-occupied" only within grace.
LEMMA ResolveOnTime ==
  ASSUME NEW rows, NEW mine \in SUBSET Sessions, NEW room, NEW t \in Nat, NEW occ,
         NEW res \in resolve_faculty_scan(rows, mine, room, occ, t)
  PROVE  /\ res.outcome = "absent" => is_no_show_past_grace(res.s, t)
         /\ res.outcome = "checked-in" => OnTime(res.s, t)
         /\ res.outcome = "room-occupied" => t <= Start[res.s] + Grace
<1> DEFINE scheduled == {s \in mine : rows[s].status = "scheduled"}
           window == {s \in scheduled : Start[s] <= t + OpenLead /\ t <= End[s]}
<1>1. \/ res.outcome \in {"wrong-room", "early-end", "checked-out", "too-early", "no-schedule"}
      \/ \E s \in window : res = ScheduledOutcome(rows, s, room, occ, t)
  BY DEF resolve_faculty_scan, ActiveOutcome, Resolution, FirstOf
<1>2. ASSUME NEW s \in window, res = ScheduledOutcome(rows, s, room, occ, t)
      PROVE  /\ res.outcome = "absent" => is_no_show_past_grace(res.s, t)
             /\ res.outcome = "checked-in" => OnTime(res.s, t)
             /\ res.outcome = "room-occupied" => t <= Start[res.s] + Grace
  <2>1. Start[s] + Grace \in Nat /\ Start[s] <= t + OpenLead
    BY PolicyAssumption
  <2> QED BY <1>2, <2>1 DEF ScheduledOutcome, Resolution, is_no_show_past_grace, OnTime
<1> QED BY <1>1, <1>2

\* A scan, and a confirmation that trusts its token, begin a request that is
\* on time for what it will write.
LEMMA ScanFlight ==
  ASSUME SafetyInv, NEW w \in Workers, Scan(w)
  PROVE  InFlight' /\ TokensOnTime'
<1> USE DEF SafetyInv
<1>0. now \in Nat /\ token \subseteq Token
  BY DEF TypeInv, TypeOK
<1>1. ASSUME NEW f \in FacultyMembers, NEW r \in Rooms, scan_resolve_token(w, f, r)
      PROVE  InFlight' /\ TokensOnTime'
  <2>1. PICK occ \in occupying_session(f, r) :
          \E res \in resolve_faculty_scan(row, SessionsOf(f), r, occ, now) :
            token' = token \cup {[outcome |-> res.outcome, s |-> res.s,
                                  prior |-> res.prior, room |-> r, at |-> now]}
    BY <1>1 DEF scan_resolve_token
  <2>2. PICK res \in resolve_faculty_scan(row, SessionsOf(f), r, occ, now) :
            token' = token \cup {[outcome |-> res.outcome, s |-> res.s,
                                  prior |-> res.prior, room |-> r, at |-> now]}
    BY <2>1
  <2>3. res.outcome = "room-occupied" => now <= Start[res.s] + Grace
    BY <1>0, <2>2, ResolveOnTime DEF SessionsOf
  <2>4. TokensOnTime'
    BY <2>2, <2>3 DEF TokensOnTime
  <2> QED BY <1>1, <2>4 DEF scan_resolve_token, InFlight
<1>2. ASSUME NEW f \in FacultyMembers, NEW r \in Rooms, NEW m \in ScanMethods,
             scan_resolve(w, f, r, m)
      PROVE  InFlight' /\ TokensOnTime'
  <2>1. PICK occ \in occupying_session(f, r) :
          \E res \in resolve_faculty_scan(row, SessionsOf(f), r, occ, now) :
            /\ res.outcome \in {"checked-in", "checked-out", "absent"}
            /\ req' = [req EXCEPT ![w] = [Decided(res.outcome, res.s) EXCEPT !.method = m]]
    BY <1>2 DEF scan_resolve, Ask
  <2>2. PICK res \in resolve_faculty_scan(row, SessionsOf(f), r, occ, now) :
            /\ res.outcome \in {"checked-in", "checked-out", "absent"}
            /\ req' = [req EXCEPT ![w] = [Decided(res.outcome, res.s) EXCEPT !.method = m]]
    BY <2>1
  <2>3. /\ res.outcome = "absent" => is_no_show_past_grace(res.s, now)
        /\ res.outcome = "checked-in" => OnTime(res.s, now)
    BY <1>0, <2>2, ResolveOnTime DEF SessionsOf
  <2>4. Flight([Decided(res.outcome, res.s) EXCEPT !.method = m], now, validations)
    BY <2>2, <2>3, TableAssumption DEF Flight, Decided, Idle
  <2>5. InFlight'
    BY <1>2, <2>2, <2>4, FlightStep DEF scan_resolve
  <2> QED BY <1>2, <2>5 DEF scan_resolve, TokensOnTime
<1>3. ASSUME NEW tk \in token, scan_confirm(w, tk)
      PROVE  InFlight' /\ TokensOnTime'
  <2> DEFINE r == [Decided(tk.outcome, tk.s) EXCEPT !.room = tk.room, !.prior = tk.prior,
                     !.method = IF tk.outcome = "room-occupied" THEN "force_handover"
                                ELSE None]
  <2>1. tk.outcome = "room-occupied" => now <= Start[tk.s] + Grace + TokenAge
    <3>1. tk.at \in Nat /\ Start[tk.s] \in Nat /\ now <= tk.at + TokenAge
      BY <1>0, <1>3, PolicyAssumption DEF Token, scan_confirm
    <3> QED BY <1>0, <3>1, PolicyAssumption, TableAssumption DEF TokensOnTime
  <2>2. Flight(r, now, validations)
    BY <1>0, <2>1 DEF Flight, Decided, Idle, Token, CONFIRM_OUTCOMES
  <2>3. InFlight'
    BY <1>3, <2>2, FlightStep DEF scan_confirm, Ask
  <2> QED BY <1>3, <2>3 DEF scan_confirm, TokensOnTime
<1> QED BY <1>1, <1>2, <1>3 DEF Scan

\* The steps of a transaction carry on what the request established; the
\* siblings listed are of the anchor's meeting, and a flag lists them only
\* past grace.
LEMMA TransactFlight ==
  ASSUME SafetyInv, NEW w \in Workers, Transact(w)
  PROVE  InFlight'
<1> USE DEF SafetyInv
<1> DEFINE q == req[w]
<1>0. q \in Request /\ RequestShape(q) /\ now \in Nat
  BY DEF TypeInv, TypeOK
<1>1. CASE read_clock(w) \/ anchor_write(w)
  <2>1. PICK r : /\ req' = [req EXCEPT ![w] = r] /\ r.pc \in {"write", "anchored"}
                 /\ r.op = q.op /\ r.s = q.s /\ r.ids = q.ids /\ r.method = q.method
                 /\ r.born = q.born
    <3>1. CASE read_clock(w)
      <4> DEFINE r == [q EXCEPT !.pc = "write", !.at = now]
      <4>1. req' = [req EXCEPT ![w] = r]
        BY <3>1 DEF read_clock
      <4>2. /\ r.pc = "write" /\ r.op = q.op /\ r.s = q.s /\ r.ids = q.ids
            /\ r.method = q.method /\ r.born = q.born
        BY <1>0 DEF Request
      <4> QED BY <4>1, <4>2
    <3>2. CASE anchor_write(w)
      <4> DEFINE r == [q EXCEPT !.pc = "anchored"]
      <4>1. req' = [req EXCEPT ![w] = r]
        BY <3>2 DEF anchor_write
      <4>2. /\ r.pc = "anchored" /\ r.op = q.op /\ r.s = q.s /\ r.ids = q.ids
            /\ r.method = q.method /\ r.born = q.born
        BY <1>0 DEF Request
      <4> QED BY <4>1, <4>2
    <3> QED BY <1>1, <3>1, <3>2
  <2>2. q.pc \notin {"idle", "gated", "fill"}
    BY <1>1 DEF read_clock, anchor_write, ReadyToAnchor
  <2>3. Flight(q, now, validations)
    BY <2>2 DEF InFlight
  <2>4. Flight(r, now, validations)
    BY <2>1, <2>2, <2>3 DEF Flight
  <2> QED BY <1>1, <2>1, <2>4, FlightStep DEF read_clock, anchor_write
<1>2. CASE propagate_select(w)
  <2> DEFINE S == {c \in merged_sibling_ids(row, q.s) : row[c].status = "scheduled"}
             r == [q EXCEPT !.pc = "fill", !.ids = S]
  <2>1. req' = [req EXCEPT ![w] = r]
    BY <1>2 DEF propagate_select
  <2>2. /\ q.pc = "anchored" /\ r.pc = "fill" /\ r.op = q.op /\ r.s = q.s /\ r.born = q.born
        /\ r.ids = S /\ r.method = q.method
    BY <1>0, <1>2 DEF propagate_select, Request
  <2>3. Flight(q, now, validations)
    BY <2>2 DEF InFlight
  <2>4. \A c \in S : c # q.s /\ FacultyOf[c] = FacultyOf[q.s] /\ Start[c] = Start[q.s]
    BY DEF merged_sibling_ids
  <2>5. q.op = "flag" => is_no_show_past_grace(q.s, now)
    BY <1>2 DEF propagate_select, Propagates, PresentOps
  <2>6. Flight(r, now, validations)
    BY <2>2, <2>3, <2>4, <2>5 DEF Flight
  <2> QED BY <1>2, <2>1, <2>6, FlightStep DEF propagate_select
<1>3. CASE commit(w)
  BY <1>3, FlightEnds DEF commit
<1> QED BY <1>1, <1>2, <1>3 DEF Transact

\* A suspension begins by listing scheduled rows.
LEMMA SuspendBegins ==
  ASSUME NEW w \in Workers, NEW k \in Suspensions, suspend_list(w, k)
  PROVE  \E r : /\ req' = [req EXCEPT ![w] = r] /\ r.op = "suspend"
                /\ \A s \in r.ids : row[s].status = "scheduled"
<1> DEFINE S == {s \in Sessions : /\ row[s].status = "scheduled"
                                  /\ covers(k, BuildingOf[row[s].room])}
           a == [[Idle EXCEPT !.pc = "fill", !.k = k, !.reason = SusReason[k],
                              !.ids = S] EXCEPT !.op = "suspend"]
<1>1. req' = [req EXCEPT ![w] = a]
  BY DEF suspend_list, Serve
<1>2. a.op = "suspend" /\ a.ids = S
  BY DEF Idle
<1> QED BY <1>1, <1>2

\* The office's other requests begin under their own names.
LEMMA OfficeBegins ==
  ASSUME NEW w \in Workers,
         \/ \E k \in Suspensions : lift_list(w, k)
         \/ \E s \in Sessions : \/ session_release(w, s) \/ session_reinstate(w, s)
                                \/ \E re \in CancelReasons : cancel_list(w, s, re)
  PROVE  \E r : /\ req' = [req EXCEPT ![w] = r]
                /\ r.op \in {"lift", "release", "reinstate", "cancel"}
<1>1. ASSUME NEW k \in Suspensions, lift_list(w, k)
      PROVE  \E r : req' = [req EXCEPT ![w] = r] /\ r.op = "lift"
  <2> DEFINE T == {s \in Sessions : /\ row[s].status = "cancelled"
                                    /\ row[s].reason = SusReason[k]
                                    /\ covers(k, BuildingOf[row[s].room])}
             a == [[Idle EXCEPT !.pc = "fill", !.k = k, !.ids = T] EXCEPT !.op = "lift"]
  <2>1. req' = [req EXCEPT ![w] = a]
    BY <1>1 DEF lift_list, Serve
  <2>2. a.op = "lift"
    BY DEF Idle
  <2> QED BY <2>1, <2>2
<1>2. ASSUME NEW s \in Sessions, \/ session_release(w, s) \/ session_reinstate(w, s)
                                 \/ \E re \in CancelReasons : cancel_list(w, s, re)
      PROVE  \E r : /\ req' = [req EXCEPT ![w] = r]
                    /\ r.op \in {"release", "reinstate", "cancel"}
  <2> DEFINE t == IF row[s].actual_start = None THEN Start[s] ELSE row[s].actual_start
             a == [[Idle EXCEPT !.pc = "apply", !.s = s] EXCEPT !.op = "release"]
             b == [[Idle EXCEPT !.pc = "apply", !.s = s, !.at = t] EXCEPT !.op = "reinstate"]
             c(re) == [[Idle EXCEPT !.pc = "fill", !.s = s, !.reason = re, !.ids = {s}]
                         EXCEPT !.op = "cancel"]
  <2>1. \/ req' = [req EXCEPT ![w] = a] \/ req' = [req EXCEPT ![w] = b]
        \/ \E re \in CancelReasons : req' = [req EXCEPT ![w] = c(re)]
    BY <1>2 DEF session_release, session_reinstate, cancel_list, Serve
  <2>2. a.op = "release" /\ b.op = "reinstate" /\ \A re : c(re).op = "cancel"
    BY DEF Idle
  <2> QED BY <2>1, <2>2
<1> QED BY <1>1, <1>2

\* The other handlers of a web worker keep what the requests in flight have
\* established.
LEMMA HandlerFlight ==
  ASSUME SafetyInv, NEW w \in Workers, Apply(w) \/ OnlineClass(w) \/ Office(w) \/ Abort(w)
  PROVE  InFlight'
<1> USE DEF SafetyInv
<1> DEFINE q == req[w]
<1>0. q \in Request /\ RequestShape(q) /\ now \in Nat
  BY DEF TypeInv, TypeOK
<1>1. CASE apply_absent_read(w)
  <2>1. CASE row[q.s].status = "scheduled"
    <3>1. req' = [req EXCEPT ![w] = [q EXCEPT !.pc = "write"]]
      BY <1>1, <2>1 DEF apply_absent_read
    <3>2. q.pc = "apply" /\ q.op = "absent"
      BY <1>1 DEF apply_absent_read
    <3>3. Flight([q EXCEPT !.pc = "write"], now, validations)
      BY <1>0, <3>2 DEF InFlight, Flight, Request, AnchorOps, PresentOps
    <3> QED BY <1>1, <3>1, <3>3, FlightStep DEF apply_absent_read
  <2>2. CASE row[q.s].status # "scheduled"
    BY <1>1, <2>2, FlightEnds DEF apply_absent_read
  <2> QED BY <2>1, <2>2
<1>2. CASE apply_handover_read(w)
  <2> DEFINE b == row[q.prior].status = "active"
             r == [q EXCEPT !.pc = "write", !.at = now, !.seen = b]
  <2>1. req' = [req EXCEPT ![w] = r] /\ q.pc = "apply" /\ q.op = "room-occupied"
    BY <1>2 DEF apply_handover_read
  <2>2. /\ r.op = q.op /\ r.s = q.s /\ r.born = q.born /\ r.ids = q.ids /\ r.method = q.method
    BY <1>0 DEF Request
  <2>3. Flight(r, now, validations)
    BY <2>1, <2>2 DEF InFlight, Flight
  <2> QED BY <1>2, <2>1, <2>3, FlightStep DEF apply_handover_read
<1>3. CASE apply_absent(w) \/ apply_end(w) \/ apply_wrong_room(w) \/ Abort(w)
  BY <1>3, FlightEnds DEF apply_absent, apply_end, apply_wrong_room, Abort
<1>4. ASSUME NEW s \in Sessions, online_start(w, s) PROVE InFlight'
  <2> DEFINE r == [Decided("online-start", s) EXCEPT !.method = "online_self"]
  <2>1. Flight(r, now, validations)
    BY DEF Flight, Decided, Idle
  <2> QED BY <1>4, <2>1, FlightStep DEF online_start, Ask
<1>5. ASSUME NEW s \in Sessions, NEW a \in {"verified", "flag"}, online_action(w, s, a)
      PROVE  InFlight'
  <2> DEFINE r == [Decided(a, s) EXCEPT !.pc = "gated",
                     !.method = IF a = "verified" THEN "online_manual" ELSE None]
  <2>1. Flight(r, now, validations)
    BY <1>5 DEF Flight, Decided, Idle, online_action
  <2> QED BY <1>5, <2>1, FlightStep DEF online_action, Ask
<1>6. CASE record_validation(w)
  <2> DEFINE r == [q EXCEPT !.pc = "apply"]
  <2>1. /\ req' = [req EXCEPT ![w] = r] /\ q.pc = "gated"
        /\ validations' = validations \cup {<<q.s, q.op>>}
    BY <1>6 DEF record_validation
  <2>2. /\ r.pc = "apply" /\ r.op = q.op /\ r.s = q.s /\ r.born = q.born /\ r.ids = q.ids
        /\ r.method = q.method
    BY <1>0 DEF Request
  <2>3. Flight(r, now, validations')
    BY <2>1, <2>2 DEF InFlight, Flight
  <2> QED BY <1>6, <2>1, <2>3, FlightStep DEF record_validation
<1>7. CASE cancel_commit(w) \/ lift_commit(w) \/ release_room(w) \/ reinstate_write(w)
  BY <1>7, FlightEnds DEF cancel_commit, lift_commit, release_room, reinstate_write
<1>8. ASSUME \/ \E k \in Suspensions : suspend_list(w, k) \/ lift_list(w, k)
             \/ \E s \in Sessions : \/ session_release(w, s) \/ session_reinstate(w, s)
                                    \/ \E re \in CancelReasons : cancel_list(w, s, re)
      PROVE  InFlight'
  <2>1. PICK r : /\ req' = [req EXCEPT ![w] = r]
                 /\ r.op \in {"suspend", "lift", "release", "reinstate", "cancel"}
    BY <1>8, SuspendBegins, OfficeBegins
  <2>2. Flight(r, now, validations)
    BY <2>1 DEF Flight, AnchorOps, PresentOps
  <2>3. now' = now /\ validations' = validations
    BY <1>8 DEF suspend_list, lift_list, session_release, session_reinstate, cancel_list
  <2> QED BY <2>1, <2>2, <2>3, FlightStep
<1> QED BY <1>1, <1>2, <1>3, <1>4, <1>5, <1>6, <1>7, <1>8
    DEF Apply, OnlineClass, Office

-----------------------------------------------------------------------------
\* What a commit leaves in each row: the anchor with its own method, siblings
\* of its meeting, a prior occupant ended, the rest untouched.
LEMMA CommitRows ==
  ASSUME SafetyInv, NEW w \in Workers, commit(w), NEW s \in Sessions
  PROVE  /\ req[w].s \in Sessions /\ req[w].op \in AnchorOps
         /\ Flight(req[w], now, validations)
         /\ \/ /\ s = req[w].s \/ s \in req[w].ids
               /\ req[w].op = "flag"
               /\ row'[s].status = "absent" /\ row'[s].method = row[s].method
               /\ req[w].pc # "gated"
               /\ s \in req[w].ids => req[w].pc = "fill"
            \/ /\ s = req[w].s /\ req[w].op # "flag"
               /\ row'[s].status = "active" /\ row'[s].method = req[w].method
            \/ /\ s \in req[w].ids /\ s # req[w].s /\ req[w].op # "flag"
               /\ row'[s].status = "active" /\ row'[s].method = "merged"
            \/ /\ s \notin req[w].ids /\ s # req[w].s
               /\ row'[s].status = "completed" /\ row'[s].method = row[s].method
            \/ s \notin req[w].ids /\ s # req[w].s /\ row'[s] = row[s]
<1> DEFINE r == req[w]
<1>1. r \in Request /\ r.s \in Sessions /\ r.op \in AnchorOps /\ r.pc \notin {"idle", "gated"}
  BY DEF SafetyInv, TypeInv, TypeOK, RequestShape, commit, AnchorOps, PresentOps
<1>2. Flight(r, now, validations)
  BY <1>1 DEF SafetyInv, InFlight
<1>3. row'[s] = IF s = r.s THEN Anchored(r, s)
                ELSE IF s \in r.ids THEN Filled(r, s)
                ELSE IF r.seen /\ s = r.prior
                THEN [row[s] EXCEPT !.status = "completed"]
                ELSE row[s]
  BY DEF commit, Committed
<1>4. row[s] \in SessionRow
  BY DEF SafetyInv, TypeInv, TypeOK
<1>5. r.op = "flag" => /\ Anchored(r, s).status = "absent" /\ Filled(r, s).status = "absent"
                       /\ Anchored(r, s).method = row[s].method
                       /\ Filled(r, s).method = row[s].method
  BY <1>4 DEF Anchored, Filled, SessionRow
<1>6. r.op # "flag" => /\ Anchored(r, s).status = "active" /\ Anchored(r, s).method = r.method
                       /\ Filled(r, s).status = "active" /\ Filled(r, s).method = "merged"
  BY <1>4 DEF Anchored, Filled, SessionRow
<1>7. /\ [row[s] EXCEPT !.status = "completed"].status = "completed"
      /\ [row[s] EXCEPT !.status = "completed"].method = row[s].method
  BY <1>4 DEF SessionRow
<1>8. s \in r.ids /\ r.op = "flag" => r.pc = "fill"
  BY <1>1, <1>2 DEF Flight
<1> QED BY <1>1, <1>2, <1>3, <1>5, <1>6, <1>7, <1>8

\* A commit never makes a session absent too early.
LEMMA CommitNotEarly ==
  ASSUME SafetyInv, NEW w \in Workers, commit(w)
  PROVE  NoEarlyAbsent'
<1> SUFFICES ASSUME NEW s \in Sessions, row'[s].status = "absent"
             PROVE  \/ is_no_show_past_grace(s, now)
                    \/ s \in Online /\ <<s, "flag">> \in validations
  BY DEF commit, NoEarlyAbsent
<1>1. CASE row'[s] = row[s]
  BY <1>1 DEF SafetyInv, NoEarlyAbsent
<1>2. CASE row'[s] # row[s]
  <2>1. /\ s = req[w].s \/ s \in req[w].ids
        /\ req[w].op = "flag" /\ req[w].pc # "gated"
        /\ s \in req[w].ids => req[w].pc = "fill"
        /\ Flight(req[w], now, validations)
    BY <1>2, CommitRows
  <2>2. CASE s = req[w].s
    BY <2>1, <2>2 DEF Flight
  <2>3. CASE s \in req[w].ids
    <3>1. Start[s] = Start[req[w].s] /\ is_no_show_past_grace(req[w].s, now)
      BY <2>1, <2>3 DEF Flight, AnchorOps
    <3> QED BY <3>1 DEF is_no_show_past_grace
  <2> QED BY <2>1, <2>2, <2>3
<1> QED BY <1>1, <1>2

\* A commit leaves the whole group with its anchor as the one really present.
LEMMA CommitHasAnchor ==
  ASSUME SafetyInv, NEW w \in Workers, commit(w)
  PROVE  MergedHasAnchor'
<1> DEFINE r == req[w]
           Witness(t, s) == /\ t \in Sessions \ {s} /\ FacultyOf[t] = FacultyOf[s]
                            /\ Start[t] = Start[s] /\ row'[t].method \notin {"merged", None}
<1> SUFFICES ASSUME NEW s \in Sessions, row'[s].method = "merged"
             PROVE  \E t : Witness(t, s)
  BY DEF MergedHasAnchor
<1>1. /\ r.s \in Sessions /\ r.op \in AnchorOps
      /\ \A c \in r.ids : c # r.s /\ FacultyOf[c] = FacultyOf[r.s] /\ Start[c] = Start[r.s]
      /\ r.op # "flag" => r.method \notin {"merged", None}
  BY CommitRows, NoneAssumption DEF Flight, AnchorOps, PresentOps, CheckinMethod
<1>2. r.op # "flag" => row'[r.s].method = r.method
  BY <1>1, CommitRows
<1>3. CASE r.op # "flag" /\ s \in r.ids
  <2>1. Witness(r.s, s)
    BY <1>1, <1>2, <1>3
  <2> QED BY <2>1
<1>4. CASE r.op = "flag" \/ s \notin r.ids
  <2>1. row[s].method = "merged"
    BY <1>1, <1>2, <1>4, CommitRows
  <2>2. PICK t \in Sessions \ {s} : /\ FacultyOf[t] = FacultyOf[s] /\ Start[t] = Start[s]
                                    /\ row[t].method \notin {"merged", None}
    BY <2>1 DEF SafetyInv, MergedHasAnchor
  <2>3. CASE r.op # "flag" /\ t \in r.ids
    <3>1. s # r.s
      BY <1>1, <1>2, <2>3
    <3>2. Witness(r.s, s)
      BY <1>1, <1>2, <2>2, <2>3, <3>1
    <3> QED BY <3>2
  <2>4. CASE r.op = "flag" \/ t \notin r.ids
    <3>1. row'[t].method \notin {"merged", None}
      BY <1>1, <1>2, <2>2, <2>4, CommitRows
    <3>2. Witness(t, s)
      BY <2>2, <3>1
    <3> QED BY <3>2
  <2> QED BY <2>3, <2>4
<1> QED BY <1>3, <1>4

\* Outside commits: a row turns absent only past grace, and the method of a
\* presence already recorded is not restamped.
LEMMA StepRows ==
  ASSUME SafetyInv, Next, \A w \in Workers : ~commit(w)
  PROVE  NoEarlyAbsent' /\ MergedHasAnchor'
<1>0. /\ \A s \in Sessions : RowKept(s)
      /\ now \in Nat /\ now' \in Nat /\ now <= now' /\ validations \subseteq validations'
  <2>1. now \in Nat /\ TypeInv
    BY DEF SafetyInv, TypeInv, TypeOK
  <2>2. now' \in {now, now + 1} /\ validations \subseteq validations'
    <3>1. CASE Calendar \/ Sweeping \/ sweep_crash \/ Tick
      BY <3>1 DEF Calendar, Sweeping, break_create, break_delete, room_toggle_service,
         sweep_start, sweep_list, sweep_mark, conflicts_read, conflicts_flag, sweep_crash, Tick
    <3>2. ASSUME NEW w \in Workers, Scan(w) \/ Apply(w) \/ Transact(w) \/ Abort(w)
          PROVE  now' = now /\ validations' = validations
      BY <3>2 DEF Scan, Apply, Transact, scan_resolve_token, scan_resolve, scan_confirm,
         apply_absent_read, apply_absent, apply_end, apply_wrong_room,
         apply_handover_read, read_clock, anchor_write, propagate_select, commit, Abort
    <3>3. ASSUME NEW w \in Workers, OnlineClass(w)
          PROVE  now' = now /\ validations \subseteq validations'
      BY <3>3 DEF OnlineClass, online_start, online_action, record_validation
    <3>4. ASSUME NEW w \in Workers, Office(w)
          PROVE  now' = now /\ validations' = validations
      BY <3>4 DEF Office, suspend_list, lift_list, cancel_list, cancel_commit, lift_commit,
         session_release, release_room, session_reinstate, reinstate_write
    <3> QED BY <3>1, <3>2, <3>3, <3>4 DEF Next
  <2> QED BY <2>1, <2>2, StepKeeps
<1>1. ASSUME NEW s \in Sessions, row'[s].status = "absent"
      PROVE  \/ is_no_show_past_grace(s, now')
             \/ s \in Online /\ <<s, "flag">> \in validations'
  <2>0. Start[s] + Grace \in Nat
    BY PolicyAssumption
  <2>1. CASE row[s].status = "absent"
    BY <1>0, <2>0, <2>1 DEF SafetyInv, NoEarlyAbsent, is_no_show_past_grace
  <2>2. ASSUME NEW w \in Workers, apply_absent(w), s = req[w].s
        PROVE  is_no_show_past_grace(s, now')
    <3>1. Flight(req[w], now, validations) /\ req[w].op = "absent"
      BY <2>2 DEF SafetyInv, InFlight, apply_absent
    <3> QED BY <1>0, <2>0, <2>2, <3>1 DEF Flight, is_no_show_past_grace
  <2>3. CASE sweep_mark(s)
    BY <1>0, <2>0, <2>3 DEF SafetyInv, SweepPastGrace, sweep_mark, is_no_show_past_grace
  <2> QED BY <1>0, <1>1, <2>1, <2>2, <2>3 DEF RowKept, NowAbsent
<1>2. NoEarlyAbsent'
  BY <1>1 DEF NoEarlyAbsent
<1>3. MergedHasAnchor'
  <2>1. \A s \in Sessions : row'[s].method = row[s].method
    BY <1>0 DEF RowKept
  <2> QED BY <2>1 DEF SafetyInv, MergedHasAnchor
<1> QED BY <1>2, <1>3

\* The sweep lists only rows past grace at a time no later than now, and time
\* only adds to what is past grace.
LEMMA BackgroundSafe ==
  ASSUME SafetyInv, Calendar \/ Sweeping \/ sweep_crash \/ Tick
  PROVE  InFlight' /\ TokensOnTime' /\ SweepPastGrace'
<1> USE DEF SafetyInv
<1>0. now \in Nat /\ sweep \in Sweep /\ sweep.at \in Nat /\ sweep.candidates \subseteq Sessions
  BY DEF TypeInv, TypeOK, Sweep
<1>1. CASE Calendar
  BY <1>1 DEF Calendar, break_create, break_delete, room_toggle_service, InFlight,
              TokensOnTime, SweepPastGrace
<1>2. CASE Sweeping \/ sweep_crash
  <2>1. UNCHANGED <<now, token, req, validations>>
    BY <1>2 DEF Sweeping, sweep_start, sweep_list, sweep_mark, conflicts_read,
                conflicts_flag, sweep_crash
  <2>2. SweepPastGrace'
    <3>1. CASE sweep_start \/ conflicts_flag \/ sweep_crash
      <4>1. sweep'.at \in {0, now} /\ sweep'.candidates = {} /\ now' = now
        <5>1. CASE sweep_start
          BY <5>1 DEF sweep_start, SweepIdle
        <5>2. CASE conflicts_flag \/ sweep_crash
          BY <5>2 DEF conflicts_flag, sweep_crash, SweepIdle
        <5> QED BY <3>1, <5>1, <5>2
      <4> QED BY <1>0, <4>1 DEF SweepPastGrace
    <3>2. CASE sweep_list
      <4>1. /\ sweep'.at = sweep.at /\ now' = now
            /\ \A s \in sweep'.candidates : s \in Sessions /\ is_no_show_past_grace(s, sweep.at)
        BY <1>0, <3>2 DEF sweep_list, Sweep
      <4>2. \A s \in Sessions : Start[s] + Grace \in Nat
        BY PolicyAssumption
      <4> QED BY <1>0, <4>1, <4>2 DEF SweepPastGrace, is_no_show_past_grace
    <3>3. CASE conflicts_read \/ \E s \in Sessions : sweep_mark(s)
      <4>1. /\ sweep'.at = sweep.at /\ sweep'.candidates \subseteq sweep.candidates
            /\ now' = now
        BY <1>0, <3>3 DEF conflicts_read, sweep_mark, Sweep
      <4> QED BY <4>1 DEF SweepPastGrace
    <3> QED BY <1>2, <3>1, <3>2, <3>3 DEF Sweeping
  <2> QED BY <2>1, <2>2 DEF InFlight, TokensOnTime
<1>3. CASE Tick
  <2>1. /\ now' = now + 1 /\ token' \subseteq token
        /\ req' = req /\ validations' = validations /\ sweep' = sweep
    BY <1>3 DEF Tick
  <2>2. ASSUME NEW v \in Workers, req[v].pc # "idle"
        PROVE  Flight(req[v], now + 1, validations)
    <3>1. req[v] \in Request /\ RequestShape(req[v]) /\ Flight(req[v], now, validations)
      BY <2>2 DEF TypeInv, TypeOK, InFlight
    <3> QED BY <1>0, <2>2, <3>1, FlightStable
  <2>3. \A s \in Sessions : Start[s] + Grace \in Nat
    BY PolicyAssumption
  <2>4. SweepPastGrace'
    BY <1>0, <2>1, <2>3 DEF SweepPastGrace, is_no_show_past_grace
  <2> QED BY <2>1, <2>2, <2>4 DEF InFlight, TokensOnTime
<1> QED BY <1>1, <1>2, <1>3

\* The safety invariant holds on a freshly materialized day.
LEMMA SafetyInit == Init => SafetyInv
<1> SUFFICES ASSUME Init PROVE SafetyInv
  OBVIOUS
<1>1. \A s \in Sessions : row[s].status = "scheduled" /\ row[s].method = None
  BY DEF Init
<1>2. NoEarlyAbsent /\ MergedHasAnchor
  BY <1>1, NoneAssumption DEF NoEarlyAbsent, MergedHasAnchor, CheckinMethod
<1>3. InFlight /\ TokensOnTime /\ SweepPastGrace
  BY DEF Init, InFlight, TokensOnTime, SweepPastGrace, Idle, SweepIdle
<1> QED BY <1>2, <1>3, TypeInit DEF SafetyInv

\* Every step keeps the safety invariant.
LEMMA SafetyStep == SafetyInv /\ [Next]_vars => SafetyInv'
<1> SUFFICES ASSUME SafetyInv, [Next]_vars PROVE SafetyInv'
  OBVIOUS
<1>1. TypeInv'
  BY TypeStep DEF SafetyInv
<1>2. CASE Next
  <2>1. NoEarlyAbsent' /\ MergedHasAnchor'
    BY <1>2, StepRows, CommitNotEarly, CommitHasAnchor
  <2>2. InFlight' /\ TokensOnTime' /\ SweepPastGrace'
    <3>1. ASSUME NEW w \in Workers, Scan(w)
          PROVE  InFlight' /\ TokensOnTime' /\ SweepPastGrace'
      <4>1. now' = now /\ sweep' = sweep
        BY <3>1 DEF Scan, scan_resolve_token, scan_resolve, scan_confirm
      <4> QED BY <3>1, <4>1, ScanFlight DEF SafetyInv, SweepPastGrace
    <3>2. ASSUME NEW w \in Workers,
                 Apply(w) \/ Transact(w) \/ OnlineClass(w) \/ Office(w) \/ Abort(w)
          PROVE  InFlight' /\ TokensOnTime' /\ SweepPastGrace'
      <4>1. now' = now /\ token' = token /\ sweep' = sweep
        BY <3>2 DEF Apply, Transact, OnlineClass, Office, apply_absent_read, apply_absent,
           apply_end, apply_wrong_room, apply_handover_read, read_clock, anchor_write,
           propagate_select, commit, online_start, online_action, record_validation,
           suspend_list, lift_list, cancel_list, cancel_commit, lift_commit,
           session_release, release_room, session_reinstate, reinstate_write, Abort
      <4> QED BY <3>2, <4>1, TransactFlight, HandlerFlight
          DEF SafetyInv, TokensOnTime, SweepPastGrace
    <3> QED BY <1>2, <3>1, <3>2, BackgroundSafe DEF Next
  <2> QED BY <1>1, <2>1, <2>2 DEF SafetyInv
<1>3. CASE UNCHANGED vars
  BY <1>1, <1>3 DEF SafetyInv, vars, InFlight, TokensOnTime, SweepPastGrace,
                    NoEarlyAbsent, MergedHasAnchor
<1> QED BY <1>2, <1>3

\* Scan, sweep and merged fill share one no-show rule: no session is absent
\* before its grace window closes unless a checker flagged that online class.
THEOREM NeverAbsentEarly == Spec => []NoEarlyAbsent
<1>1. SafetyInv => NoEarlyAbsent
  BY DEF SafetyInv
<1> QED BY <1>1, SafetyInit, SafetyStep, PTL DEF Spec

\* Every presence credited as "merged" has, in the same faculty member's
\* meeting, a session with a check-in of its own.
THEOREM MergedPresenceAnchored == Spec => []MergedHasAnchor
<1>1. SafetyInv => MergedHasAnchor
  BY DEF SafetyInv
<1> QED BY <1>1, SafetyInit, SafetyStep, PTL DEF Spec

\* Presence is recorded only on a claim made inside the check-in window, and a
\* handover on one made at most the token's lifetime after it: what the scan
\* decided is still true of the request when it commits.
THEOREM PresenceOnTime == Spec => PresentWithinGrace
<1> DEFINE A == \A w \in Workers :
                  commit(w) =>
                    /\ req[w].op = "checked-in" =>
                         /\ Start[req[w].s] <= req[w].born + OpenLead
                         /\ req[w].born <= Start[req[w].s] + Grace
                    /\ req[w].op = "room-occupied" =>
                         req[w].born <= Start[req[w].s] + Grace + TokenAge
<1>1. SafetyInv /\ [Next]_vars => [A]_vars
  <2>1. ASSUME SafetyInv, NEW w \in Workers, commit(w)
        PROVE  Flight(req[w], now, validations)
    BY <2>1 DEF SafetyInv, InFlight, commit
  <2> QED BY <2>1 DEF Flight, OnTime
<1> QED BY <1>1, SafetyInit, SafetyStep, PTL DEF Spec, PresentWithinGrace

-----------------------------------------------------------------------------
(***************************************************************************)
(* The term lock.  Merge propagation and suspend_classes hold it from the  *)
(* step that lists rows to the commit, so the rows a suspension has listed *)
(* cannot turn active before it updates them.                              *)
(***************************************************************************)
HoldsTerm(r) == r.pc = "fill" /\ r.op \in AnchorOps \cup {"suspend"}

TermMutex ==
  \A v, w \in Workers : HoldsTerm(req[v]) /\ HoldsTerm(req[w]) => v = w

ListedNotActive ==
  \A w \in Workers : HoldsTerm(req[w]) /\ req[w].op = "suspend" =>
                       \A s \in req[w].ids : row[s].status # "active"

LockInv == SafetyInv /\ TermMutex /\ ListedNotActive

\* One worker's request changes to one that does not hold the term lock.
LEMMA HeldByOthers ==
  ASSUME TypeInv, NEW w \in Workers, NEW r, req' = [req EXCEPT ![w] = r], ~HoldsTerm(r),
         NEW v \in Workers, HoldsTerm(req'[v])
  PROVE  req'[v] = req[v]
BY DEF TypeInv, TypeOK

\* A worker takes the term lock: it was free, nobody else moves, no row changes.
TakesTerm(v) ==
  /\ TermFree
  /\ \A u \in Workers : u # v => req'[u] = req[u]
  /\ row' = row
  /\ req'[v].op = "suspend" => \A s \in req'[v].ids : row[s].status = "scheduled"

\* Whoever holds the term lock after a step held it before, or takes it in it.
LEMMA TermHeld ==
  ASSUME TypeInv, Next, NEW v \in Workers, HoldsTerm(req'[v])
  PROVE  req'[v] = req[v] \/ TakesTerm(v)
<1>0. req \in [Workers -> Request]
  BY DEF TypeInv, TypeOK
<1>1. CASE Calendar \/ Sweeping \/ sweep_crash \/ Tick
  BY <1>1 DEF Calendar, break_create, break_delete, room_toggle_service, Sweeping,
              sweep_start, sweep_list, sweep_mark, conflicts_read, conflicts_flag,
              sweep_crash, Tick
<1>2. ASSUME NEW w \in Workers, propagate_select(w) PROVE req'[v] = req[v] \/ TakesTerm(v)
  <2> DEFINE S == {c \in merged_sibling_ids(row, req[w].s) : row[c].status = "scheduled"}
             r == [req[w] EXCEPT !.pc = "fill", !.ids = S]
  <2>1. req' = [req EXCEPT ![w] = r] /\ TermFree /\ row' = row
    BY <1>2 DEF propagate_select
  <2>2. r.ids = S
    BY <1>0 DEF Request
  <2>3. \A u \in Workers : u # w => req'[u] = req[u]
    BY <1>0, <2>1
  <2>4. req'[w] = r
    BY <1>0, <2>1
  <2>5. v = w => TakesTerm(v)
    BY <2>1, <2>2, <2>3, <2>4 DEF TakesTerm
  <2> QED BY <2>3, <2>5
<1>3. ASSUME NEW w \in Workers, NEW k \in Suspensions, suspend_list(w, k)
      PROVE  req'[v] = req[v] \/ TakesTerm(v)
  <2>1. PICK r : /\ req' = [req EXCEPT ![w] = r]
                 /\ \A s \in r.ids : row[s].status = "scheduled"
    BY <1>3, SuspendBegins
  <2>2. TermFree /\ row' = row
    BY <1>3 DEF suspend_list
  <2>3. \A u \in Workers : u # w => req'[u] = req[u]
    BY <1>0, <2>1
  <2>4. req'[w] = r
    BY <1>0, <2>1
  <2>5. v = w => TakesTerm(v)
    BY <2>1, <2>2, <2>3, <2>4 DEF TakesTerm
  <2> QED BY <2>3, <2>5
<1>4. ASSUME NEW w \in Workers, Scan(w) PROVE req'[v] = req[v]
  <2>1. CASE req' = req
    BY <2>1
  <2>2. ASSUME NEW op, NEW s, NEW m,
               req' = [req EXCEPT ![w] = [Decided(op, s) EXCEPT !.method = m]]
        PROVE  req'[v] = req[v]
    <3>1. ~HoldsTerm([Decided(op, s) EXCEPT !.method = m])
      BY DEF HoldsTerm, Decided, Idle
    <3> QED BY <2>2, <3>1, HeldByOthers
  <2>3. ASSUME NEW tk \in token, scan_confirm(w, tk) PROVE req'[v] = req[v]
    <3> DEFINE r == [Decided(tk.outcome, tk.s) EXCEPT !.room = tk.room, !.prior = tk.prior,
                       !.method = IF tk.outcome = "room-occupied" THEN "force_handover"
                                  ELSE None]
    <3>1. req' = [req EXCEPT ![w] = r]
      BY <2>3 DEF scan_confirm, Ask
    <3>2. ~HoldsTerm(r)
      BY DEF HoldsTerm, Decided, Idle
    <3> QED BY <3>1, <3>2, HeldByOthers
  <2>4. ASSUME NEW f \in FacultyMembers, NEW a \in Rooms, scan_resolve_token(w, f, a)
        PROVE  req' = req
    BY <2>4 DEF scan_resolve_token
  <2>5. ASSUME NEW f \in FacultyMembers, NEW a \in Rooms, NEW m \in ScanMethods,
               scan_resolve(w, f, a, m)
        PROVE  req'[v] = req[v]
    <3>1. PICK occ \in occupying_session(f, a) :
            \E res \in resolve_faculty_scan(row, SessionsOf(f), a, occ, now) :
              req' = [req EXCEPT ![w] = [Decided(res.outcome, res.s) EXCEPT !.method = m]]
      BY <2>5 DEF scan_resolve, Ask
    <3> QED BY <2>2, <3>1
  <2> QED BY <1>4, <2>1, <2>3, <2>4, <2>5 DEF Scan
<1>5. ASSUME NEW w \in Workers, \/ apply_absent_read(w) \/ apply_handover_read(w)
                                \/ read_clock(w) \/ anchor_write(w) \/ record_validation(w)
      PROVE  req'[v] = req[v]
  <2>1. PICK r : req' = [req EXCEPT ![w] = r] /\ r.pc # "fill"
    <3>1. CASE apply_absent_read(w)
      <4>1. req' = [req EXCEPT ![w] = [req[w] EXCEPT !.pc = "write"]]
            \/ req' = [req EXCEPT ![w] = Idle]
        BY <3>1 DEF apply_absent_read
      <4>2. [req[w] EXCEPT !.pc = "write"].pc = "write" /\ Idle.pc = "idle"
        BY <1>0 DEF Idle, Request
      <4> QED BY <4>1, <4>2
    <3>2. CASE apply_handover_read(w)
      <4> DEFINE b == row[req[w].prior].status = "active"
      <4>1. req' = [req EXCEPT ![w] = [req[w] EXCEPT !.pc = "write", !.at = now, !.seen = b]]
        BY <3>2 DEF apply_handover_read
      <4>2. [req[w] EXCEPT !.pc = "write", !.at = now, !.seen = b].pc = "write"
        BY <1>0 DEF Request
      <4> QED BY <4>1, <4>2
    <3>3. CASE anchor_write(w)
      <4>1. req' = [req EXCEPT ![w] = [req[w] EXCEPT !.pc = "anchored"]]
        BY <3>3 DEF anchor_write
      <4>2. [req[w] EXCEPT !.pc = "anchored"].pc = "anchored"
        BY <1>0 DEF Request
      <4> QED BY <4>1, <4>2
    <3>4. CASE record_validation(w)
      <4>1. req' = [req EXCEPT ![w] = [req[w] EXCEPT !.pc = "apply"]]
        BY <3>4 DEF record_validation
      <4>2. [req[w] EXCEPT !.pc = "apply"].pc = "apply"
        BY <1>0 DEF Request
      <4> QED BY <4>1, <4>2
    <3>5. CASE read_clock(w)
      <4>1. req' = [req EXCEPT ![w] = [req[w] EXCEPT !.pc = "write", !.at = now]]
        BY <3>5 DEF read_clock
      <4>2. [req[w] EXCEPT !.pc = "write", !.at = now].pc = "write"
        BY <1>0 DEF Request
      <4> QED BY <4>1, <4>2
    <3> QED BY <1>5, <3>1, <3>2, <3>3, <3>4, <3>5
  <2> QED BY <2>1, HeldByOthers DEF HoldsTerm
<1>6. ASSUME NEW w \in Workers,
             \/ apply_absent(w) \/ apply_end(w) \/ apply_wrong_room(w) \/ commit(w)
             \/ cancel_commit(w) \/ lift_commit(w) \/ release_room(w)
             \/ reinstate_write(w) \/ Abort(w)
      PROVE  req'[v] = req[v]
  <2>1. req' = [req EXCEPT ![w] = Idle]
    BY <1>6 DEF apply_absent, apply_end, apply_wrong_room, commit, cancel_commit,
                lift_commit, release_room, reinstate_write, Abort
  <2>2. ~HoldsTerm(Idle)
    BY DEF HoldsTerm, Idle
  <2> QED BY <2>1, <2>2, HeldByOthers
<1>7. ASSUME NEW w \in Workers, NEW s \in Sessions,
             \/ online_start(w, s)
             \/ \E a \in {"verified", "flag"} : online_action(w, s, a)
      PROVE  req'[v] = req[v]
  <2>1. \/ req' = [req EXCEPT ![w] = [Decided("online-start", s) EXCEPT !.method = "online_self"]]
        \/ \E a, m : req' = [req EXCEPT ![w] = [Decided(a, s) EXCEPT !.pc = "gated", !.method = m]]
    BY <1>7 DEF online_start, online_action, Ask
  <2>2. /\ ~HoldsTerm([Decided("online-start", s) EXCEPT !.method = "online_self"])
        /\ \A a, m : ~HoldsTerm([Decided(a, s) EXCEPT !.pc = "gated", !.method = m])
    BY DEF HoldsTerm, Decided, Idle
  <2> QED BY <2>1, <2>2, HeldByOthers
<1>8. ASSUME NEW w \in Workers,
             \/ \E k \in Suspensions : lift_list(w, k)
             \/ \E s \in Sessions : \/ session_release(w, s) \/ session_reinstate(w, s)
                                    \/ \E re \in CancelReasons : cancel_list(w, s, re)
      PROVE  req'[v] = req[v]
  <2>1. PICK r : /\ req' = [req EXCEPT ![w] = r]
                 /\ r.op \in {"lift", "release", "reinstate", "cancel"}
    BY <1>8, OfficeBegins
  <2>2. ~HoldsTerm(r)
    BY <2>1 DEF HoldsTerm, AnchorOps, PresentOps
  <2> QED BY <2>1, <2>2, HeldByOthers
<1> QED BY <1>1, <1>2, <1>3, <1>4, <1>5, <1>6, <1>7, <1>8
    DEF Next, Scan, Apply, Transact, OnlineClass, Office

\* A commit that makes a row active is made under the term lock.
LEMMA ActiveUnderTerm ==
  ASSUME SafetyInv, Next, NEW s \in Sessions, row'[s].status = "active",
         row[s].status # "active"
  PROVE  \E w \in Workers : /\ HoldsTerm(req[w]) /\ req[w].op # "suspend"
                            /\ req'[w] = Idle
<1>1. PICK w \in Workers : commit(w)
  BY StepKeeps DEF RowKept, SafetyInv
<1>2. req[w].op \in AnchorOps /\ req[w].op # "flag"
  BY <1>1, CommitRows
<1>3. req[w].op \in PresentOps
  BY <1>2 DEF AnchorOps
<1>4. req[w].pc = "fill" /\ req'[w] = Idle
  BY <1>1, <1>3 DEF commit, Propagates, SafetyInv, TypeInv, TypeOK
<1> QED BY <1>2, <1>3, <1>4 DEF HoldsTerm, PresentOps

\* The lock invariant holds on a freshly materialized day.
LEMMA LockInit == Init => LockInv
<1> SUFFICES ASSUME Init PROVE LockInv
  OBVIOUS
<1>1. \A w \in Workers : ~HoldsTerm(req[w])
  BY DEF Init, Idle, HoldsTerm
<1> QED BY <1>1, SafetyInit DEF LockInv, TermMutex, ListedNotActive

\* Exclusion is kept because the lock is taken only when it is free, and a
\* listed row stays inactive because only a holder of the lock activates rows.
LEMMA LockStep == LockInv /\ [Next]_vars => LockInv'
<1> SUFFICES ASSUME LockInv, [Next]_vars PROVE LockInv'
  OBVIOUS
<1>1. SafetyInv'
  BY SafetyStep DEF LockInv
<1>2. CASE Next
  <2>0. TypeInv /\ SafetyInv
    BY DEF LockInv, SafetyInv
  <2>1. ASSUME NEW v \in Workers, NEW w \in Workers, HoldsTerm(req'[v]), HoldsTerm(req'[w])
        PROVE  v = w
    <3>1. CASE req'[v] = req[v] /\ req'[w] = req[w]
      BY <2>1, <3>1 DEF LockInv, TermMutex
    <3>2. ASSUME NEW x \in Workers, NEW y \in Workers, x # y, TakesTerm(x), HoldsTerm(req'[y])
          PROVE  FALSE
      BY <3>2 DEF TakesTerm, TermFree, HoldsTerm
    <3> QED BY <1>2, <2>0, <2>1, <3>1, <3>2, TermHeld
  <2>2. TermMutex'
    BY <2>1 DEF TermMutex
  <2>3. ASSUME NEW v \in Workers, HoldsTerm(req'[v]), req'[v].op = "suspend",
               NEW s \in req'[v].ids
        PROVE  row'[s].status # "active"
    <3>1. CASE TakesTerm(v)
      <4>1. row'[s].status = "scheduled"
        BY <2>3, <3>1 DEF TakesTerm
      <4> QED BY <4>1
    <3>2. CASE req'[v] = req[v]
      <4>1. row[s].status # "active" /\ s \in Sessions /\ HoldsTerm(req[v])
        BY <2>0, <2>3, <3>2 DEF LockInv, ListedNotActive, TypeInv, TypeOK, Request
      <4>2. SUFFICES ASSUME row'[s].status = "active" PROVE FALSE
        OBVIOUS
      <4>3. PICK w \in Workers : HoldsTerm(req[w]) /\ req[w].op # "suspend" /\ req'[w] = Idle
        BY <1>2, <2>0, <4>1, <4>2, ActiveUnderTerm
      <4>4. v = w
        BY <4>1, <4>3 DEF LockInv, TermMutex
      <4> QED BY <2>3, <3>2, <4>3, <4>4
    <3> QED BY <1>2, <2>0, <2>3, <3>1, <3>2, TermHeld
  <2>4. ListedNotActive'
    BY <2>3 DEF ListedNotActive
  <2> QED BY <1>1, <2>2, <2>4 DEF LockInv
<1>3. CASE UNCHANGED vars
  BY <1>1, <1>3 DEF LockInv, TermMutex, ListedNotActive, vars
<1> QED BY <1>2, <1>3

\* Two transactions never hold the term lock at once.
THEOREM TermLockExclusive == Spec => []TermMutex
<1>1. LockInv => TermMutex
  BY DEF LockInv
<1> QED BY <1>1, LockInit, LockStep, PTL DEF Spec

\* A suspension never cancels a class that is in session.
THEOREM SuspensionSparesPresent == Spec => SuspendSparesPresent
<1> DEFINE A == \A w \in Workers : cancel_commit(w) /\ req[w].op = "suspend" =>
                  \A s \in req[w].ids : row[s].status # "active"
<1>1. LockInv /\ [Next]_vars => [A]_vars
  BY DEF LockInv, ListedNotActive, HoldsTerm, cancel_commit
<1> QED BY <1>1, LockInit, LockStep, PTL DEF Spec, SuspendSparesPresent

-----------------------------------------------------------------------------
\* The sweep marks only rows still scheduled, and changes only their status:
\* a check-in that commits between listing and marking wins.
THEOREM SweepSparesPresence == Spec => SweepOnlyMarksScheduled
<1> DEFINE A == sweep' # sweep =>
                  \A s \in Sessions :
                    row'[s] # row[s] =>
                      /\ row[s].status = "scheduled"
                      /\ row'[s] = [row[s] EXCEPT !.status = "absent"]
<1>1. TypeInv /\ [Next]_vars => [A]_vars
  <2> SUFFICES ASSUME TypeInv, Next, sweep' # sweep, NEW s \in Sessions, row'[s] # row[s]
               PROVE  /\ row[s].status = "scheduled"
                      /\ row'[s] = [row[s] EXCEPT !.status = "absent"]
    BY DEF vars
  <2>1. CASE Sweeping \/ sweep_crash
    <3>1. PICK t \in Sessions : sweep_mark(t)
      BY <2>1 DEF Sweeping, sweep_start, sweep_list, conflicts_read, conflicts_flag, sweep_crash
    <3>2. row \in [Sessions -> SessionRow]
      BY DEF TypeInv, TypeOK
    <3> QED BY <3>1, <3>2 DEF sweep_mark
  <2>2. CASE Calendar \/ Tick
    BY <2>2 DEF Calendar, break_create, break_delete, room_toggle_service, Tick
  <2>3. ASSUME NEW w \in Workers, \/ Scan(w) \/ Apply(w) \/ Transact(w)
                                  \/ OnlineClass(w) \/ Office(w) \/ Abort(w)
        PROVE  FALSE
    BY <2>3 DEF Scan, Apply, Transact, OnlineClass, Office,
       scan_resolve_token, scan_resolve, scan_confirm, apply_absent_read, apply_absent,
       apply_end, apply_wrong_room, apply_handover_read, read_clock, anchor_write, propagate_select,
       commit, online_start, online_action, record_validation, suspend_list,
       lift_list, cancel_list, cancel_commit, lift_commit, session_release, release_room,
       session_reinstate, reinstate_write, Abort
  <2> QED BY <2>1, <2>2, <2>3 DEF Next
<1> QED BY <1>1, TypeInit, TypeStep, PTL DEF Spec, SweepOnlyMarksScheduled
=============================================================================
