--------------------------- MODULE OfflineReplay ----------------------------
(***************************************************************************)
(* Scans recorded without a connection (static/checker/offline_queue.js,   *)
(* templates/checker/scan.html) and their replay (web/checker.py): the     *)
(* device posts its whole queue on every load and on every reconnection,   *)
(* the server gates each scan anew and claims a unique receipt in the      *)
(* transaction of its effect, and the device drops what the answer names.  *)
(* Requests and answers may be lost, and requests may overlap.             *)
(***************************************************************************)
EXTENDS CheckerDesk

Init ==
  /\ now = 0
  /\ status = [k \in Classes |-> "scheduled"]
  /\ postings = {} /\ validations = {} /\ idem = {} /\ looked = 0
  /\ live = [c \in Checkers |-> Idle]
  /\ item = [u \in Uuids |-> None]
  /\ queued = {}
  /\ page = None
  /\ drain = [d \in Drains |-> Idle]
  /\ receipt = [u \in Uuids |-> None]
  /\ conflicts = [u \in Uuids |-> 0]

\* A request under way: the scans it has still to look at, those its answer will
\* name, and the one it is about to write.
Reasons == {"none", "bad-room", "session-changed", "off-duty", "wrong-floor", "no-session",
            "absent-excluded", "already-verified", "active-unverified",
            "action-incongruent", "note-required", "rate-limited"}
Claim == [uuid : Uuids, reason : Reasons, class : Classes \cup {None}]
Request == [pc : {"server"}, at : Times, todo : SUBSET Uuids, named : SUBSET Uuids,
            claim : Claim \cup {None}]
Pressed == [pc : {"apply"}, class : Classes \cup {None}, room : Rooms,
            action : ValidActions, at : Times]

TypeOK ==
  /\ status \in [Classes -> {"scheduled", "active", "completed", "absent"}]
  /\ live \in [Checkers -> Pressed \cup {Idle}]
  /\ now \in Times /\ queued \subseteq Uuids /\ page \in Classes \cup {None}
  /\ item \in [Uuids -> Item \cup {None}]
  /\ receipt \in [Uuids -> {"applied", "flagged", None}]
  /\ conflicts \in [Uuids -> Nat]
  /\ drain \in [Drains -> Request \cup {Idle}]
  /\ \A v \in validations : v.uuid \in Uuids \cup {None} /\ v.class \in Classes \cup {None}

-----------------------------------------------------------------------------
(***************************************************************************)
(* The device.                                                             *)
(***************************************************************************)
\* A scan with a connection: the page keeps the class whose form it shows.
resolve(m) ==
  LET k == room_session_state(m, now)
      outcome == resolve_checker_scan(active_floor_ids(Device, now), FloorOf[m], k)
  IN /\ page' = IF outcome = "active-unverified" THEN k ELSE None
     /\ page' # page
     /\ UNCHANGED <<now, status, postings, validations, idem, looked, live, item,
                    queued, drain, receipt, conflicts>>

\* A scan without one: recorded with whatever class the page still holds.
enqueue(u, s) ==
  /\ item[u] = None
  /\ s.action \in FlagActions => s.note
  /\ item' = [item EXCEPT ![u] =
       [room |-> s.room, action |-> s.action, note |-> s.note, manual |-> s.manual,
        class |-> page, at |-> now]]
  /\ queued' = queued \cup {u}
  /\ page' = None
  /\ UNCHANGED <<now, status, postings, validations, idem, looked, live, drain,
                 receipt, conflicts>>

\* drain(): the whole queue is posted.
drain_send(d) ==
  /\ drain[d] = Idle /\ queued # {}
  /\ drain' = [drain EXCEPT ![d] = [pc |-> "server", at |-> now, todo |-> queued,
                                    named |-> {}, claim |-> None]]
  /\ UNCHANGED <<now, status, postings, validations, idem, looked, live, item,
                 queued, page, receipt, conflicts>>

\* The answer arrives: what it names leaves the store.
drain_done(d) ==
  /\ drain[d].pc = "server" /\ drain[d].todo = {} /\ drain[d].claim = None
  /\ queued' = queued \ drain[d].named
  /\ drain' = [drain EXCEPT ![d] = Idle]
  /\ UNCHANGED <<now, status, postings, validations, idem, looked, live, item,
                 page, receipt, conflicts>>

\* The request or its answer is lost, the server stops, the page is closed.
drain_fail(d) ==
  /\ drain[d] # Idle
  /\ drain' = [drain EXCEPT ![d] = Idle]
  /\ UNCHANGED <<now, status, postings, validations, idem, looked, live, item,
                 queued, page, receipt, conflicts>>

-----------------------------------------------------------------------------
(***************************************************************************)
(* The server, one scan of the batch at a time.                            *)
(***************************************************************************)
\* The class whose window contained the time of the scan.
room_session_at_scan(m, t) ==
  LET ks == {k \in Classes : ClassRoom[k] = m /\ Start[k] <= t /\ t <= End[k]}
  IN IF ks = {} THEN None ELSE Earliest(ks)

\* Mutant: the scan is applied to whatever class the room has now.
replay_reason_any_class(i, at) ==
  IF i.room = None THEN "bad-room"
  ELSE LET k == room_session_state(i.room, at)
           outcome == resolve_checker_scan(active_floor_ids(Device, at), FloorOf[i.room], k)
       IN CASE OutcomeActions(outcome) = {} -> outcome
            [] OutcomeActions(outcome) # {} /\ i.action \notin OutcomeActions(outcome) ->
                 "action-incongruent"
            [] OTHER -> "none"

\* Why the scan i may not be applied now, or "none".
replay_reason(i, at) ==
  IF i.room = None THEN "bad-room"
  ELSE LET k        == room_session_state(i.room, at)
           outcome  == resolve_checker_scan(active_floor_ids(Device, at), FloorOf[i.room], k)
           permits  == OutcomeActions(outcome)
           expected == IF i.class # None THEN i.class ELSE room_session_at_scan(i.room, i.at)
       IN CASE expected # k -> "session-changed"
            [] expected = k /\ permits = {} -> outcome
            [] expected = k /\ permits # {} /\ i.action \notin permits -> "action-incongruent"
            [] expected = k /\ i.action \in permits /\ i.action \in FlagActions /\ ~i.note ->
                 "note-required"
            [] OTHER -> "none"

\* Mutant: a duplicate is not named in the answer.
replay_check_silent(d, u) ==
  LET w == drain[d]
      over == item[u].manual /\ looked >= Limit
  IN /\ w.pc = "server" /\ w.claim = None /\ u \in w.todo
     /\ IF receipt[u] # None
        THEN /\ drain' = [drain EXCEPT ![d].todo = @ \ {u}]
             /\ UNCHANGED looked
        ELSE /\ drain' = [drain EXCEPT ![d].claim =
                  [uuid |-> u,
                   reason |-> IF over THEN "rate-limited" ELSE replay_reason(item[u], w.at),
                   class |-> IF item[u].room = None THEN None
                             ELSE room_session_state(item[u].room, w.at)]]
             /\ looked' = IF item[u].manual /\ ~over THEN looked + 1 ELSE looked
     /\ UNCHANGED <<now, status, postings, validations, idem, live, item, queued,
                    page, receipt, conflicts>>

\* A scan with a receipt is answered as a duplicate, one over the manual-code
\* limit is to be flagged, any other is gated against the current state.
replay_check(d, u) ==
  LET w == drain[d]
      over == item[u].manual /\ looked >= Limit
  IN /\ w.pc = "server" /\ w.claim = None /\ u \in w.todo
     /\ IF receipt[u] # None
        THEN /\ drain' = [drain EXCEPT ![d].todo = @ \ {u}, ![d].named = @ \cup {u}]
             /\ UNCHANGED looked
        ELSE /\ drain' = [drain EXCEPT ![d].claim =
                  [uuid |-> u,
                   reason |-> IF over THEN "rate-limited" ELSE replay_reason(item[u], w.at),
                   class |-> IF item[u].room = None THEN None
                             ELSE room_session_state(item[u].room, w.at)]]
             /\ looked' = IF item[u].manual /\ ~over THEN looked + 1 ELSE looked
     /\ UNCHANGED <<now, status, postings, validations, idem, live, item, queued,
                    page, receipt, conflicts>>

\* Mutant: the receipt is not looked at again.
claim_replay_receipt_blind(u, outcome) ==
  receipt' = [receipt EXCEPT ![u] = outcome]

\* The receipt's unique key lets one transaction in.
claim_replay_receipt(u, outcome) ==
  receipt[u] = None /\ receipt' = [receipt EXCEPT ![u] = outcome]

\* The transaction: claim the receipt with the effect, or lose to another.
replay_commit(d) ==
  LET w == drain[d]
      c == w.claim
      u == c.uuid
  IN /\ w.pc = "server" /\ c # None
     /\ \/ /\ c.reason = "none" /\ claim_replay_receipt(u, "applied")
           /\ apply_action(Device, c.class, item[u].room, item[u].action, u)
           /\ UNCHANGED conflicts
        \/ /\ c.reason # "none" /\ claim_replay_receipt(u, "flagged")
           /\ conflicts' = [conflicts EXCEPT ![u] = @ + 1]
           /\ UNCHANGED validations
        \/ receipt[u] # None /\ UNCHANGED <<receipt, validations, conflicts>>
     /\ drain' = [drain EXCEPT ![d].todo = @ \ {u}, ![d].named = @ \cup {u},
                               ![d].claim = None]
     /\ UNCHANGED <<now, status, postings, idem, looked, live, item, queued, page>>

-----------------------------------------------------------------------------
Campus == Tick \/ (\E a \in Grants : assignment_create(a))
          \/ \E k \in Classes : class_start(k) \/ class_close(k)

LiveScan == \E c \in Checkers :
  action_apply(c) \/ \E m \in Rooms, a \in ValidActions : action_check(c, m, a)

DeviceStep == (\E m \in Rooms : resolve(m))
              \/ \E u \in Uuids, s \in Scans : enqueue(u, s)

Sync(d) == drain_send(d) \/ drain_done(d) \/ drain_fail(d) \/ replay_commit(d)
           \/ \E u \in Uuids : replay_check(d, u)

Next == Campus \/ LiveScan \/ DeviceStep \/ \E d \in Drains : Sync(d)

\* The page is opened, or the connection comes back, again and again; the
\* server works through what it receives; and an answer that is sent again and
\* again gets through.
Fairness ==
  /\ WF_vars(\E d \in Drains : drain_send(d))
  /\ SF_vars(\E d \in Drains, u \in Uuids : replay_check(d, u))
  /\ SF_vars(\E d \in Drains : replay_commit(d))
  /\ SF_vars(\E d \in Drains : drain_done(d))

Spec == Init /\ [][Next]_vars /\ Fairness

-----------------------------------------------------------------------------
\* A replayed scan is never put to the account of a class that had neither
\* been in its window nor been shown to the checker when the scan was made:
\* a scan that waited past the end of its class is flagged ("session-changed"),
\* whatever class the room has by then.
ReplayNeverForLaterClass ==
  \A v \in validations : v.uuid # None /\ v.class # None
    => Start[v.class] <= item[v.uuid].at

\* The floor board's figures agree: full coverage is not reported while a
\* class on the board still waits in the queue of classes to check, and a card
\* in the queue never shows as verified.
BoardAgrees ==
  \A c \in Checkers : \A k \in board_queue(c) :
    coverage(c) < 100 /\ card_state(k) # "verified"

\* The effects on file for a scan, read off the rows and not the receipt.
Effects(u) == Cardinality({v \in validations : v.uuid = u})

Taken == [u \in Uuids |->
  CASE Effects(u) = 0 /\ conflicts[u] = 0 -> "no"
    [] Effects(u) = 1 /\ conflicts[u] = 0 -> "applied"
    [] Effects(u) = 0 /\ conflicts[u] = 1 -> "flagged"
    [] OTHER -> "twice"]

Log == INSTANCE ReplayLog WITH Scans <- Uuids, taken <- Taken, held <- queued

\* The queue and its replay implement ReplayLog: a scan has its effect exactly
\* once however requests overlap, answers get lost and batches are re-sent,
\* and leaves the device only after that.
ImplementsReplayLog == Log!LogSpec

\* Every scan recorded offline is eventually settled and leaves the device.
QueueDrains == \A u \in Uuids : u \in queued ~> u \notin queued
=============================================================================
