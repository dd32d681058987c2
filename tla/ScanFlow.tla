------------------------------ MODULE ScanFlow ------------------------------
(***************************************************************************)
(* The faculty scan surface, web/scan.py, and the merged-group fill of     *)
(* scheduling/merge.py that every presence write shares.                   *)
(*                                                                         *)
(*   scan_resolve  reads the rows, resolves, and either signs a token, or  *)
(*                 goes on to _apply, or does nothing (idempotent repeat,  *)
(*                 too-early, online-reject, no-schedule)                  *)
(*   scan_confirm  verifies a token and goes on to _apply with the         *)
(*                 resolution the token carries                            *)
(*   _apply        re-reads, writes; check-in and handover open a          *)
(*                 transaction that also fills the merged siblings         *)
(***************************************************************************)
EXTENDS SessionTable

Ask(w, r) == /\ req[w].pc = "idle" /\ req' = [req EXCEPT ![w] = r]

Decided(op, s) == [Idle EXCEPT !.pc = "apply", !.op = op, !.s = s, !.born = now,
                               !.at = now]

\* Another faculty member's session holding the scanned room, as the query
\* orders them, or None.
occupying_session(f, room) ==
  LET others == {s \in Holding(room) : FacultyOf[s] # f}
  IN  IF others = {} THEN {None} ELSE FirstOf(others)

\* A resolution that needs a second step is signed, not applied.
scan_resolve_token(w, f, room) ==
  /\ "scan" \in Ops
  /\ req[w].pc = "idle"
  /\ room \notin outOfService
  /\ \E occ \in occupying_session(f, room) :
       \E res \in resolve_faculty_scan(row, SessionsOf(f), room, occ, now) :
         /\ res.outcome \in CONFIRM_OUTCOMES
         /\ Cardinality(token) < MaxTokens
         /\ token' = token \cup {[outcome |-> res.outcome, s |-> res.s,
                                  prior |-> res.prior, room |-> room, at |-> now]}
  /\ UNCHANGED <<now, row, breaks, sus, outOfService, idem, cidem, validations,
                 req, sweep, flags>>

\* Any other resolution about a session is applied unless the idempotency
\* key of this minute already holds the same outcome.
scan_resolve(w, f, room, method) ==
  /\ "scan" \in Ops
  /\ room \notin outOfService
  /\ \E occ \in occupying_session(f, room) :
       \E res \in resolve_faculty_scan(row, SessionsOf(f), room, occ, now) :
         /\ res.outcome \in {"checked-in", "checked-out", "absent"}
         /\ <<res.s, res.outcome>> \notin idem
         /\ Ask(w, [Decided(res.outcome, res.s) EXCEPT !.method = method])
  /\ UNCHANGED <<now, row, breaks, sus, outOfService, token, idem, cidem,
                 validations, sweep, flags>>

\* The confirm step trusts the token: it verifies signature, age and owner,
\* resolves nothing again, and leaves the token valid until it expires.
scan_confirm(w, tk) ==
  /\ tk \in token
  /\ now <= tk.at + TokenAge
  /\ Ask(w, [Decided(tk.outcome, tk.s) EXCEPT !.room = tk.room, !.prior = tk.prior,
               !.method = IF tk.outcome = "room-occupied" THEN "force_handover"
                          ELSE None])
  /\ UNCHANGED <<now, row, breaks, sus, outOfService, token, idem, cidem,
                 validations, sweep, flags>>

\* cache.set(idem, outcome) after the apply: one value per session and minute,
\* under the minute of the decision.
Remember(r) ==
  idem' = IF r.born = now
          THEN {e \in idem : e[1] # r.s} \cup {<<r.s, r.op>>}
          ELSE idem

-----------------------------------------------------------------------------
\* _apply re-reads the session before an absent mark ...
apply_absent_read(w) ==
  /\ req[w].pc = "apply" /\ req[w].op = "absent"
  /\ IF row[req[w].s].status = "scheduled"
     THEN req' = [req EXCEPT ![w].pc = "write"] /\ idem' = idem
     ELSE req' = [req EXCEPT ![w] = Idle] /\ Remember(req[w])
  /\ UNCHANGED <<now, row, breaks, sus, outOfService, token, cidem, validations,
                 sweep, flags>>

\* ... and writes the status of the row by primary key.
apply_absent(w) ==
  /\ req[w].pc = "write" /\ req[w].op = "absent"
  /\ RowFree(w, req[w].s)
  /\ row' = [row EXCEPT ![req[w].s].status = "absent"]
  /\ Remember(req[w])
  /\ req' = [req EXCEPT ![w] = Idle]
  /\ UNCHANGED <<now, breaks, sus, outOfService, token, cidem, validations,
                 sweep, flags>>

\* Check-out, and a confirmed early end.
apply_end(w) ==
  /\ req[w].pc = "apply" /\ req[w].op \in {"checked-out", "early-end"}
  /\ RowFree(w, req[w].s)
  /\ row' = [row EXCEPT ![req[w].s].status = "completed"]
  /\ IF req[w].op = "checked-out" THEN Remember(req[w]) ELSE idem' = idem
  /\ req' = [req EXCEPT ![w] = Idle]
  /\ UNCHANGED <<now, breaks, sus, outOfService, token, cidem, validations,
                 sweep, flags>>

\* A confirmed room change moves the row and leaves its status alone.
apply_wrong_room(w) ==
  /\ req[w].pc = "apply" /\ req[w].op = "wrong-room"
  /\ RowFree(w, req[w].s)
  /\ row' = [row EXCEPT ![req[w].s].room = req[w].room]
  /\ req' = [req EXCEPT ![w] = Idle]
  /\ UNCHANGED <<now, breaks, sus, outOfService, token, idem, cidem, validations,
                 sweep, flags>>

\* A confirmed handover reads the clock and whether the prior occupant is
\* active.
apply_handover_read(w) ==
  /\ req[w].pc = "apply" /\ req[w].op = "room-occupied"
  /\ req' = [req EXCEPT ![w].pc = "write", ![w].at = now,
                        ![w].seen = (row[req[w].prior].status = "active")]
  /\ UNCHANGED <<now, row, breaks, sus, outOfService, token, idem, cidem,
                 validations, sweep, flags>>

-----------------------------------------------------------------------------
(***************************************************************************)
(* The transaction shared by check-in, handover, online start and the      *)
(* checker's online actions.                                               *)
(***************************************************************************)
\* A check-in and an online start read the clock again for the time they
\* stamp, after they have decided.
read_clock(w) ==
  /\ req[w].pc = "apply" /\ req[w].op \in {"checked-in", "online-start"}
  /\ req' = [req EXCEPT ![w].pc = "write", ![w].at = now]
  /\ UNCHANGED <<now, row, breaks, sus, outOfService, token, idem, cidem,
                 validations, sweep, flags>>

\* Ready to write the anchor row: a checker's action straight from its
\* decision, the others after their second read.
ReadyToAnchor(r) ==
  /\ r.op \in AnchorOps
  /\ r.pc = (IF r.op \in {"verified", "flag"} THEN "apply" ELSE "write")

\* The anchor (and a prior occupant seen active) is written and locked.
anchor_write(w) ==
  /\ ReadyToAnchor(req[w])
  /\ RowFree(w, req[w].s)
  /\ req[w].seen => RowFree(w, req[w].prior)
  /\ req' = [req EXCEPT ![w].pc = "anchored"]
  /\ UNCHANGED <<now, row, breaks, sus, outOfService, token, idem, cidem,
                 validations, sweep, flags>>

\* Mutant: a flag fails the whole group at once, inside grace too.
Propagates_ungated(r) == r.op \in AnchorOps

\* A flag propagates only past the shared grace window; presence always does.
Propagates(r) == r.op \in PresentOps \/ is_no_show_past_grace(r.s, now)

\* Under the term lock the scheduled siblings are listed ...
propagate_select(w) ==
  /\ req[w].pc = "anchored"
  /\ Propagates(req[w])
  /\ TermFree
  /\ req' = [req EXCEPT ![w].pc = "fill",
               ![w].ids = {c \in merged_sibling_ids(row, req[w].s) :
                             row[c].status = "scheduled"}]
  /\ UNCHANGED <<now, row, breaks, sus, outOfService, token, idem, cidem,
                 validations, sweep, flags>>

\* Mutant: the anchor is counted into its own group and restamped by the fill.
Anchored_as_sibling(r, s) ==
  IF r.op = "flag" THEN [row[s] EXCEPT !.status = "absent"]
  ELSE [row[s] EXCEPT !.status = "active", !.actual_start = r.at, !.method = "merged"]

\* What the transaction leaves in a row: the siblings it listed are updated
\* by primary key, whatever their status has become.
Anchored(r, s) ==
  IF r.op = "flag" THEN [row[s] EXCEPT !.status = "absent"]
  ELSE [row[s] EXCEPT !.status = "active", !.actual_start = r.at, !.method = r.method]

Filled(r, s) ==
  IF r.op = "flag" THEN [row[s] EXCEPT !.status = "absent"]
  ELSE [row[s] EXCEPT !.status = "active", !.actual_start = r.at, !.method = "merged"]

Committed(r) ==
  [s \in Sessions |->
     IF s = r.s THEN Anchored(r, s)
     ELSE IF s \in r.ids THEN Filled(r, s)
     ELSE IF r.seen /\ s = r.prior
     THEN [row[s] EXCEPT !.status = "completed"]
     ELSE row[s]]

\* ... and the whole group is committed at once.
commit(w) ==
  /\ req[w].op \in AnchorOps
  /\ \/ req[w].pc = "fill"
     \/ req[w].pc = "anchored" /\ ~Propagates(req[w])
  /\ \A s \in req[w].ids : RowFree(w, s)
  /\ row' = Committed(req[w])
  /\ IF req[w].op = "checked-in" THEN Remember(req[w]) ELSE idem' = idem
  /\ req' = [req EXCEPT ![w] = Idle]
  /\ UNCHANGED <<now, breaks, sus, outOfService, token, cidem, validations,
                 sweep, flags>>
=============================================================================
