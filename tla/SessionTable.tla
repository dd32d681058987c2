---------------------------- MODULE SessionTable ----------------------------
(***************************************************************************)
(* The shared database state behind attendance: the session rows of one    *)
(* teaching day, the calendar that excuses them (breaks, suspensions), the *)
(* room service flags, and the web workers' requests in flight.            *)
(*                                                                         *)
(* A handler is not atomic: it reads rows in one step and writes in a      *)
(* later one, and the processes of the deployment (several web workers and *)
(* one scheduler) interleave between them.  req[w] is what worker w has    *)
(* read and not yet written.  A transaction's writes become visible        *)
(* together when it commits; until then it holds the rows it has written   *)
(* and, where the code takes it, the update lock on the term row.  Reads   *)
(* see committed rows.                                                     *)
(***************************************************************************)
EXTENDS Resolver

CONSTANTS
  Rooms,
  HomeRoom,      \* [Sessions -> Rooms], the room a session is materialized in
  BuildingOf,    \* [Rooms -> building]
  Breaks,        \* academic breaks IFO may add that cover this day
  Suspensions,   \* declarations IFO may make that cover this day
  SusBuilding,   \* [Suspensions -> building or None (campus-wide)]
  SusReason,     \* [Suspensions -> reason text]
  CancelReasons, \* reasons IFO may give when a class is dropped
  TokenAge,      \* CONFIRM_MAX_AGE of a two-step token
  Workers,       \* web worker processes
  ScanMethods,   \* ways a room is identified: a QR link, a manual code
  MaxTokens,     \* confirm tokens outstanding at once (a bound)
  Ops,           \* the entry points this instance exercises (a bound)
  MaxTime        \* the last tick of the day (a bound)

ASSUME TableAssumption ==
  /\ HomeRoom \in [Sessions -> Rooms]
  /\ TokenAge \in Nat /\ MaxTime \in Nat /\ MaxTokens \in Nat
  /\ ScanMethods \subseteq {"qr_scan", "manual_code"}

VARIABLES
  now,          \* the wall clock
  row,          \* Session rows, as committed
  breaks,       \* AcademicBreak rows
  sus,          \* ClassSuspension rows: "none", "active" or "lifted"
  outOfService, \* rooms taken out of service
  token,        \* signed confirm tokens in the hands of the clients
  idem,         \* scan idempotency keys of this minute (shared cache)
  cidem,        \* checker idempotency keys of this minute (shared cache)
  validations,  \* CheckerValidation rows
  req,          \* the request each web worker is serving
  sweep,        \* the status sweep of the scheduler process
  flags         \* rooms with an open RoomConflictFlag

vars == <<now, row, breaks, sus, outOfService, token, idem, cidem, validations,
          req, sweep, flags>>

-----------------------------------------------------------------------------
(***************************************************************************)
(* Types.                                                                  *)
(***************************************************************************)
SessionStatus == {"scheduled", "active", "completed", "absent", "cancelled"}

CheckinMethod == {"qr_scan", "manual_code", "online_manual", "online_self",
                  "force_handover", "merged"}

ASSUME NoneAssumption == None \notin Rooms \cup Suspensions \cup CheckinMethod \cup Nat

Time == Nat \cup {None}

Reasons == {SusReason[k] : k \in Suspensions} \cup CancelReasons

\* cancelledBy is the suspension named by the session's last
\* "session.cancelled" AuditLog row.
SessionRow ==
  [status : SessionStatus, room : Rooms, method : CheckinMethod \cup {None},
   actual_start : Time, released : BOOLEAN,
   reason : Reasons \cup {None}, cancelledBy : Suspensions \cup {None}]

Token == [outcome : CONFIRM_OUTCOMES, s : Sessions, prior : Sessions \cup {None},
          room : Rooms, at : Nat]

\* Transactions that write an anchor row and then fill its merged siblings.
PresentOps == {"checked-in", "room-occupied", "online-start", "verified"}
AnchorOps  == PresentOps \cup {"flag"}
BulkOps    == {"suspend", "lift", "cancel"}
PlainOps   == {"absent", "checked-out", "early-end", "wrong-room",
               "release", "reinstate"}

(***************************************************************************)
(* pc: "gated" - a checker's action claimed; "apply" - decided, nothing    *)
(* written; "write" - second read done; "anchored" - transaction open,     *)
(* anchor row written; "fill" - the ids of the rows to update are listed.  *)
(* born is the clock the decision was made at, at the time to be stamped.  *)
(***************************************************************************)
Request ==
  [pc : {"idle", "gated", "apply", "write", "anchored", "fill"},
   op : AnchorOps \cup BulkOps \cup PlainOps \cup {None},
   s : Sessions \cup {None}, room : Rooms \cup {None},
   method : CheckinMethod \cup {None}, prior : Sessions \cup {None},
   seen : BOOLEAN, ids : SUBSET Sessions, born : Time, at : Time,
   k : Suspensions \cup {None}, reason : Reasons \cup {None}]

Idle == [pc |-> "idle", op |-> None, s |-> None, room |-> None, method |-> None,
         prior |-> None, seen |-> FALSE, ids |-> {}, born |-> None, at |-> None,
         k |-> None, reason |-> None]

Sweep == [pc : {"idle", "list", "mark", "flag"}, at : Nat, breaks : SUBSET Breaks,
          sus : SUBSET Suspensions, candidates : SUBSET Sessions,
          conflicts : SUBSET Rooms]

SweepIdle == [pc |-> "idle", at |-> 0, breaks |-> {}, sus |-> {},
              candidates |-> {}, conflicts |-> {}]

TypeOK ==
  /\ now \in Nat
  /\ row \in [Sessions -> SessionRow]
  /\ breaks \subseteq Breaks
  /\ sus \in [Suspensions -> {"none", "active", "lifted"}]
  /\ outOfService \subseteq Rooms
  /\ token \subseteq Token
  /\ idem \subseteq (Sessions \X Outcomes)
  /\ cidem \subseteq (Sessions \X {"verified", "flag"})
  /\ validations \subseteq (Sessions \X {"verified", "flag"})
  /\ req \in [Workers -> Request]
  /\ sweep \in Sweep
  /\ flags \subseteq Rooms

\* A day freshly materialized: every session scheduled in its room.
Init ==
  /\ now = 0
  /\ row = [s \in Sessions |->
              [status |-> "scheduled", room |-> HomeRoom[s], method |-> None,
               actual_start |-> None, released |-> FALSE,
               reason |-> None, cancelledBy |-> None]]
  /\ breaks = {}
  /\ sus = [k \in Suspensions |-> "none"]
  /\ outOfService = {}
  /\ token = {} /\ idem = {} /\ cidem = {} /\ validations = {}
  /\ req = [w \in Workers |-> Idle]
  /\ sweep = SweepIdle
  /\ flags = {}

-----------------------------------------------------------------------------
(***************************************************************************)
(* Locks held by open transactions.                                        *)
(***************************************************************************)
\* Rows written by w's open transaction: its anchor, and the prior occupant
\* of a handover it is completing.
RowsHeld(w) ==
  IF req[w].op \in AnchorOps /\ req[w].pc \in {"anchored", "fill"}
  THEN {req[w].s} \cup (IF req[w].seen THEN {req[w].prior} ELSE {})
  ELSE {}

RowFree(w, s) == \A v \in Workers \ {w} : s \notin RowsHeld(v)

\* No transaction at all holds the row: what the scheduler must wait for.
RowUnlocked(s) == \A v \in Workers : s \notin RowsHeld(v)

\* The term row's update lock: merge propagation and suspend_classes take it.
TermFree ==
  \A v \in Workers : ~ /\ req[v].pc = "fill"
                       /\ req[v].op \in AnchorOps \cup {"suspend"}

(***************************************************************************)
(* Calendar excusal and room holding.                                      *)
(***************************************************************************)
covers(k, b) == SusBuilding[k] = None \/ SusBuilding[k] = b

\* s, in the room it has now, is excused by these breaks and suspensions.
Excused(s, brk, active) ==
  \/ brk # {}
  \/ \E k \in active : covers(k, BuildingOf[row[s].room])

ActiveSuspensions == {k \in Suspensions : sus[k] = "active"}

Holding(r) == {s \in Sessions : /\ row[s].room = r
                                /\ row[s].status = "active"
                                /\ ~row[s].released}

ConflictRooms == {r \in Rooms : Cardinality(Holding(r)) > 1}

SessionsOf(f) == {s \in Sessions : FacultyOf[s] = f}

-----------------------------------------------------------------------------
\* A worker that dies, is chosen as a deadlock victim or raises before its
\* commit: the open transaction is rolled back and the response is an error.
Abort(w) ==
  /\ req[w].pc # "idle"
  /\ req' = [req EXCEPT ![w] = Idle]
  /\ UNCHANGED <<now, row, breaks, sus, outOfService, token, idem, cidem,
                 validations, sweep, flags>>

\* A minute passes: the cache keys carry the minute, and a token older than
\* its maximum age no longer verifies.
Tick ==
  /\ now < MaxTime
  /\ now' = now + 1
  /\ idem' = {} /\ cidem' = {}
  /\ token' = {tk \in token : now + 1 <= tk.at + TokenAge}
  /\ UNCHANGED <<row, breaks, sus, outOfService, validations, req, sweep, flags>>
=============================================================================
