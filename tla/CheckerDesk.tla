---------------------------- MODULE CheckerDesk -----------------------------
(***************************************************************************)
(* A checker's room scans (web/checker.py): the postings that put one on   *)
(* duty, the gate every scan passes (verification/resolver.py), the live   *)
(* action and the floor board.  A time is one minute, the grain of the     *)
(* idempotency keys and of the manual-code limit; all classes are held in  *)
(* rooms (online classes are in OnlineFlow and OnlineRoster).              *)
(***************************************************************************)
EXTENDS Integers, FiniteSets

CONSTANTS
  Checkers,
  Classes, ClassRoom, Start, End,  \* sessions of the day: room and window
  Rooms, FloorOf,                  \* rooms and their floors
  Grants,        \* the postings the office may make: [user, floors, from, to] (a bound)
  LiveScans,     \* what may be pressed with a connection: [room, action, at] (a bound)
  MaxTime,       \* the last minute (a bound)
  Limit,         \* policy manual_code_rate_limit_per_min
  Uuids,         \* scans that may be recorded offline (a bound)
  Scans,         \* what may be recorded: [room, action, note, manual] (a bound)
  Drains,        \* replay requests under way at once (a bound)
  Device,        \* the checker whose device has lost its connection
  None

Times == 0..MaxTime
FlagActions == {"flag_identity_mismatch", "flag_not_present"}
ValidActions == FlagActions \cup {"verified", "verified_empty"}

ASSUME CheckerAssumption ==
  /\ ClassRoom \in [Classes -> Rooms] /\ MaxTime \in Nat /\ Limit \in Nat
  /\ Start \in [Classes -> Nat] /\ End \in [Classes -> Nat]
  /\ Device \in Checkers /\ None \notin Classes \cup Rooms \cup Uuids
  /\ None \notin {"applied", "flagged"}
  /\ Scans \subseteq [room : Rooms \cup {None}, action : ValidActions,
                     note : BOOLEAN, manual : BOOLEAN]

\* A scan as the device keeps it: what was pressed, the class the page showed, and
\* the minute.
Item == [room : Rooms \cup {None}, action : ValidActions, note : BOOLEAN,
         manual : BOOLEAN, class : Classes \cup {None}, at : Times]

ASSUME ItemShape == None \notin Item

VARIABLES
  now, status,  \* the minute, and the status of each class
  postings,     \* Assignment rows of floor scope
  validations,  \* CheckerValidation rows
  idem,         \* cache keys "checker-idem:..."
  looked,       \* the manual-code counter of this minute
  live,         \* [Checkers -> the live action between its gate and its write]
  item,         \* [Uuids -> the scan recorded under it, None before]
  queued,       \* the scans in the device's IndexedDB store
  page,         \* pendingSessionId of the scan page
  drain,        \* [Drains -> a replay request]
  receipt,      \* [Uuids -> CheckerReplayReceipt status, None without one]
  conflicts     \* [Uuids -> conflict or rate-limit audits written for it]

deskVars == <<status, postings, validations, idem, looked, live, item, queued,
              page, drain, receipt, conflicts>>
vars == <<now, status, postings, validations, idem, looked, live, item, queued,
          page, drain, receipt, conflicts>>

Idle == [pc |-> "idle"]

-----------------------------------------------------------------------------
assignment_covers_now(a, t) == a.from <= t /\ t <= a.to

active_floor_ids(c, t) ==
  UNION {a.floors : a \in {b \in postings : b.user = c /\ assignment_covers_now(b, t)}}

Earliest(ks) == CHOOSE k \in ks : \A j \in ks : Start[k] <= Start[j]

\* The active class of the room, else the one whose window contains t.
room_session_state(m, t) ==
  LET open   == {k \in Classes : ClassRoom[k] = m /\ status[k] # "completed"}
      active == {k \in open : status[k] = "active"}
      due    == {k \in open : Start[k] <= t /\ t <= End[k]}
  IN CASE active # {} -> Earliest(active)
       [] active = {} /\ due # {} -> Earliest(due)
       [] OTHER -> None

verified_by_checker(k) == \E v \in validations : v.class = k /\ v.action = "verified"

resolve_checker_scan(floors, floor, k) ==
  CASE floors = {} -> "off-duty"
    [] floors # {} /\ floor \notin floors -> "wrong-floor"
    [] floor \in floors /\ (k = None \/ status[k] = "scheduled") -> "no-session"
    [] floor \in floors /\ k # None /\ status[k] = "absent" -> "absent-excluded"
    [] floor \in floors /\ k # None /\ status[k] = "active" /\ verified_by_checker(k) ->
         "already-verified"
    [] OTHER -> "active-unverified"

\* The actions an outcome permits; none when it is not actionable.
OutcomeActions(outcome) ==
  CASE outcome = "no-session" -> {"verified_empty"}
    [] outcome = "active-unverified" -> FlagActions \cup {"verified"}
    [] OTHER -> {}

\* _apply_action for a room: one more row, and no change to the class.
apply_action(c, k, m, action, uuid) ==
  LET row(n) == [checker |-> c, class |-> k, room |-> m, action |-> action,
                 uuid |-> uuid, n |-> n]
  IN validations' = validations \cup {row(1 + Cardinality({n \in 1..3 : row(n) \in validations}))}

-----------------------------------------------------------------------------
assignment_create(a) ==
  /\ a \notin postings
  /\ postings' = postings \cup {a}
  /\ UNCHANGED <<now, status, validations, idem, looked, live, item, queued,
                 page, drain, receipt, conflicts>>

\* The live action, up to its write.
action_check(c, m, action) ==
  LET k == room_session_state(m, now) IN
  /\ live[c] = Idle /\ [room |-> m, action |-> action, at |-> now] \in LiveScans
  /\ action \in OutcomeActions(resolve_checker_scan(active_floor_ids(c, now), FloorOf[m], k))
  /\ live' = [live EXCEPT ![c] = [pc |-> "apply", class |-> k, room |-> m,
                                  action |-> action, at |-> now]]
  /\ UNCHANGED <<now, status, postings, validations, idem, looked, item, queued,
                 page, drain, receipt, conflicts>>

\* cache.add and the write: the same checker, target, action and minute once.
action_apply(c) ==
  LET w   == live[c]
      key == <<c, IF w.class # None THEN w.class ELSE w.room, w.action, w.at>>
  IN /\ w.pc = "apply"
     /\ IF key \in idem THEN UNCHANGED <<idem, validations>>
        ELSE idem' = idem \cup {key} /\ apply_action(c, w.class, w.room, w.action, None)
     /\ live' = [live EXCEPT ![c] = Idle]
     /\ UNCHANGED <<now, status, postings, looked, item, queued, page, drain,
                    receipt, conflicts>>

\* A class is checked into, taking over a room whose class has overrun; is
\* marked absent; or ends (modelled in detail in Attendance).
class_start(k) ==
  /\ status[k] = "scheduled" /\ now \in Start[k]..End[k]
  /\ status' = [j \in Classes |->
       IF j = k THEN "active"
       ELSE IF ClassRoom[j] = ClassRoom[k] /\ status[j] = "active" THEN "completed"
       ELSE status[j]]
  /\ UNCHANGED <<now, postings, validations, idem, looked, live, item, queued,
                 page, drain, receipt, conflicts>>

class_close(k) ==
  /\ \/ status[k] = "active" /\ status' = [status EXCEPT ![k] = "completed"]
     \/ /\ status[k] = "scheduled" /\ now > Start[k]
        /\ status' = [status EXCEPT ![k] = "absent"]
  /\ UNCHANGED <<now, postings, validations, idem, looked, live, item, queued,
                 page, drain, receipt, conflicts>>

\* A minute passes and the manual-code counter's key with it.
Tick ==
  /\ now < MaxTime /\ now' = now + 1 /\ looked' = 0
  /\ UNCHANGED <<status, postings, validations, idem, live, item, queued, page,
                 drain, receipt, conflicts>>

-----------------------------------------------------------------------------
\* The floor board: one list of classes feeds the cards, the queue of classes
\* to check and the coverage figure.
board(c) == {k \in Classes : /\ FloorOf[ClassRoom[k]] \in active_floor_ids(c, now)
                             /\ status[k] # "absent"}
board_queue(c) == {k \in board(c) : status[k] = "active" /\ ~verified_by_checker(k)}

card_state(k) ==
  LET acts == {v.action : v \in {w \in validations : w.class = k}}
  IN CASE acts \cap FlagActions # {} -> "flagged"
       [] acts \cap FlagActions = {} /\ "verified" \in acts -> "verified"
       [] acts = {"verified_empty"} -> "verified-empty"
       [] acts = {} /\ status[k] = "active" -> "active-unverified"
       [] OTHER -> "idle"

\* Mutant: any validation of a class counts as its verification.
coverage_any(c) ==
  LET total == Cardinality(board(c))
      done  == Cardinality({k \in board(c) : \E v \in validations : v.class = k})
  IN IF total = 0 THEN 100 ELSE (200 * done + total) \div (2 * total)

coverage(c) ==
  LET total == Cardinality(board(c))
      done  == Cardinality({k \in board(c) : verified_by_checker(k)})
  IN IF total = 0 THEN 100 ELSE (200 * done + total) \div (2 * total)
=============================================================================
