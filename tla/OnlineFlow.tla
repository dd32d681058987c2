----------------------------- MODULE OnlineFlow -----------------------------
(***************************************************************************)
(* Online classes: the faculty member's own start (web/faculty.py) and the *)
(* online-duty checker's Verify and Flag-not-present (web/checker.py).     *)
(* Both end in the shared anchor transaction of ScanFlow.  The checker of  *)
(* every online session holds a standing online posting.                   *)
(***************************************************************************)
EXTENDS ScanFlow

\* The validation ladder runs on a re-fetched row, before any write.
online_start(w, s) ==
  /\ "online_start" \in Ops
  /\ OnlineStartAccepts(row, s, now)
  /\ Ask(w, [Decided("online-start", s) EXCEPT !.method = "online_self"])
  /\ UNCHANGED <<now, row, breaks, sus, outOfService, token, idem, cidem,
                 validations, sweep, flags>>

\* The re-gate: own online session, not yet absent or completed; then the
\* idempotency key of this checker, session, action and minute is claimed.
online_action(w, s, action) ==
  /\ "checker" \in Ops
  /\ s \in Online
  /\ row[s].status \notin {"absent", "completed"}
  /\ <<s, action>> \notin cidem
  /\ cidem' = cidem \cup {<<s, action>>}
  /\ Ask(w, [Decided(action, s) EXCEPT !.pc = "gated",
               !.method = IF action = "verified" THEN "online_manual" ELSE None])
  /\ UNCHANGED <<now, row, breaks, sus, outOfService, token, idem, validations,
                 sweep, flags>>

\* The validation row is committed on its own, before the status write.
record_validation(w) ==
  /\ req[w].pc = "gated"
  /\ validations' = validations \cup {<<req[w].s, req[w].op>>}
  /\ req' = [req EXCEPT ![w].pc = "apply"]
  /\ UNCHANGED <<now, row, breaks, sus, outOfService, token, idem, cidem, sweep,
                 flags>>
=============================================================================
