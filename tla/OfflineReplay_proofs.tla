------------------------ MODULE OfflineReplay_proofs ------------------------
(***************************************************************************)
(* Proofs about OfflineReplay, for every set of scans, classes, rooms and  *)
(* overlapping requests: the queue and its replay implement ReplayLog, a   *)
(* replayed scan is never put to the account of a later class, and the     *)
(* figures of a floor board agree.                                         *)
(***************************************************************************)
EXTENDS OfflineReplay, FiniteSetTheorems, WellFoundedInduction, TLAPS

-----------------------------------------------------------------------------
\* The validation rows on file for a scan.
RowsOf(u) == {v \in validations : v.uuid = u}

\* The receipt says what became of the scan, and it became nothing else.
ReceiptInv ==
  \A u \in Uuids :
    /\ receipt[u] = None => RowsOf(u) = {} /\ conflicts[u] = 0
    /\ receipt[u] = "applied" => (\E v : RowsOf(u) = {v}) /\ conflicts[u] = 0
    /\ receipt[u] = "flagged" => RowsOf(u) = {} /\ conflicts[u] = 1

\* A recorded scan stays on the device until it has a receipt; a request carries
\* recorded scans, and its answer names those with a receipt.
QueueInv ==
  /\ \A u \in Uuids : item[u] = None => u \notin queued /\ receipt[u] = None
  /\ \A u \in Uuids : item[u] # None /\ receipt[u] = None => u \in queued
  /\ \A d \in Drains : drain[d].pc = "server" =>
       /\ \A u \in drain[d].todo : item[u] # None
       /\ \A u \in drain[d].named : receipt[u] # None
       /\ drain[d].claim # None => item[drain[d].claim.uuid] # None

\* A class that was due or running when it was shown, recorded or claimed had
\* started by then.
StartedInv ==
  /\ \A k \in Classes : status[k] = "active" => Start[k] <= now
  /\ page # None => Start[page] <= now
  /\ \A u \in Uuids : item[u] # None /\ item[u].class # None =>
       Start[item[u].class] <= item[u].at
  /\ \A d \in Drains :
       /\ drain[d].pc = "server" /\ drain[d].claim # None
       /\ drain[d].claim.reason = "none" /\ drain[d].claim.class # None
       => Start[drain[d].claim.class] <= item[drain[d].claim.uuid].at
  /\ ReplayNeverForLaterClass

Inv == TypeOK /\ ReceiptInv /\ QueueInv /\ StartedInv

-----------------------------------------------------------------------------
(***************************************************************************)
(* The operators of the model.                                             *)
(***************************************************************************)
LEMMA LeastNatural ==
  ASSUME NEW T \in SUBSET Nat, T # {}
  PROVE  \E n \in T : \A k \in T : n <= k
<1>1. PICK n \in T : \A k \in T : <<k, n>> \notin OpToRel(<, Nat)
  BY WFMin, NatLessThanWellFounded
<1>2. OpToRel(<, Nat) = {ss \in Nat \X Nat : ss[1] < ss[2]}
  BY DEF OpToRel
<1>3. \A k \in T : ~(k < n)
  BY <1>1, <1>2
<1> QED
  BY <1>3

\* A set of classes has an earliest one.
LEMMA EarliestIn ==
  ASSUME NEW ks \in SUBSET Classes, ks # {}
  PROVE  Earliest(ks) \in ks
<1> DEFINE T == {Start[k] : k \in ks}
<1>1. T \in SUBSET Nat /\ T # {}
  BY CheckerAssumption
<1>2. PICK n \in T : \A t \in T : n <= t
  BY <1>1, LeastNatural
<1>3. PICK k \in ks : n = Start[k]
  BY <1>2
<1>4. \A j \in ks : Start[k] <= Start[j]
  BY <1>2, <1>3
<1> QED
  BY <1>4 DEF Earliest

\* The class a room is resolved to has started by then, or is running.
LEMMA RoomState ==
  ASSUME NEW m, NEW t
  PROVE  /\ room_session_state(m, t) \in Classes \cup {None}
         /\ room_session_state(m, t) # None =>
              LET k == room_session_state(m, t)
              IN  status[k] = "active" \/ Start[k] <= t
<1> DEFINE open   == {k \in Classes : ClassRoom[k] = m /\ status[k] # "completed"}
           active == {k \in open : status[k] = "active"}
           due    == {k \in open : Start[k] <= t /\ t <= End[k]}
<1>1. active \in SUBSET Classes /\ due \in SUBSET Classes
  OBVIOUS
<1>2. active # {} => Earliest(active) \in active
  BY <1>1, EarliestIn
<1>3. due # {} => Earliest(due) \in due
  BY <1>1, EarliestIn
<1>4. room_session_state(m, t) =
        CASE active # {} -> Earliest(active)
          [] active = {} /\ due # {} -> Earliest(due)
          [] OTHER -> None
  BY DEF room_session_state
<1>5. CASE active # {}
  BY <1>2, <1>4, <1>5
<1>6. CASE active = {} /\ due # {}
  BY <1>3, <1>4, <1>6
<1>7. CASE active = {} /\ due = {}
  BY <1>4, <1>7
<1> QED
  BY <1>5, <1>6, <1>7

LEMMA RoomAtScan ==
  ASSUME NEW m, NEW t
  PROVE  room_session_at_scan(m, t) # None => Start[room_session_at_scan(m, t)] <= t
<1> DEFINE ks == {k \in Classes : ClassRoom[k] = m /\ Start[k] <= t /\ t <= End[k]}
<1>1. ks # {} => Earliest(ks) \in ks
  BY EarliestIn
<1>2. room_session_at_scan(m, t) = IF ks = {} THEN None ELSE Earliest(ks)
  BY DEF room_session_at_scan
<1> QED
  BY <1>1, <1>2

\* A scan that passes the gate is for the class it was made for, and that class
\* is the one the room has.
LEMMA GatePasses ==
  ASSUME NEW i \in Item, NEW at, replay_reason(i, at) = "none"
  PROVE  /\ i.room # None
         /\ room_session_state(i.room, at) =
              IF i.class # None THEN i.class ELSE room_session_at_scan(i.room, i.at)
<1>1. i.room # None
  BY DEF replay_reason
<1> DEFINE k        == room_session_state(i.room, at)
           outcome  == resolve_checker_scan(active_floor_ids(Device, at), FloorOf[i.room], k)
           permits  == OutcomeActions(outcome)
           expected == IF i.class # None THEN i.class ELSE room_session_at_scan(i.room, i.at)
<1>2. replay_reason(i, at) =
        CASE expected # k -> "session-changed"
            [] expected = k /\ permits = {} -> outcome
            [] expected = k /\ permits # {} /\ i.action \notin permits -> "action-incongruent"
            [] expected = k /\ i.action \in permits /\ i.action \in FlagActions /\ ~i.note ->
                 "note-required"
            [] OTHER -> "none"
  BY <1>1 DEF replay_reason
<1> HIDE DEF k, expected, permits, outcome
<1>3. expected = k
  BY <1>2
<1> QED
  BY <1>1, <1>3 DEF k, expected

\* One more row for a scan, or for none.
LEMMA RowAdded ==
  ASSUME NEW c, NEW k, NEW m, NEW action, NEW u,
         apply_action(c, k, m, action, u)
  PROVE  \E v : /\ validations' = validations \cup {v}
                /\ v.uuid = u /\ v.class = k
<1> DEFINE row(n) == [checker |-> c, class |-> k, room |-> m, action |-> action,
                      uuid |-> u, n |-> n]
           n0 == 1 + Cardinality({n \in 1..3 : row(n) \in validations})
<1>1. validations' = validations \cup {row(n0)}
  BY DEF apply_action
<1> HIDE DEF n0
<1>2. row(n0).uuid = u /\ row(n0).class = k
  OBVIOUS
<1> QED
  BY <1>1, <1>2

LEMMA ReasonType ==
  ASSUME NEW i, NEW at
  PROVE  replay_reason(i, at) \in Reasons
<1>1. ASSUME NEW floors, NEW floor, NEW k
      PROVE  resolve_checker_scan(floors, floor, k) \in Reasons
  BY DEF resolve_checker_scan, Reasons
<1> DEFINE k        == room_session_state(i.room, at)
           outcome  == resolve_checker_scan(active_floor_ids(Device, at), FloorOf[i.room], k)
           permits  == OutcomeActions(outcome)
           expected == IF i.class # None THEN i.class ELSE room_session_at_scan(i.room, i.at)
<1>2. CASE i.room # None
  <2>1. replay_reason(i, at) =
          CASE expected # k -> "session-changed"
            [] expected = k /\ permits = {} -> outcome
            [] expected = k /\ permits # {} /\ i.action \notin permits -> "action-incongruent"
            [] expected = k /\ i.action \in permits /\ i.action \in FlagActions /\ ~i.note ->
                 "note-required"
            [] OTHER -> "none"
    BY <1>2 DEF replay_reason
  <2>2. outcome \in Reasons
    BY <1>1
  <2> HIDE DEF k, expected, permits, outcome
  <2> QED
    BY <2>1, <2>2 DEF Reasons
<1>3. CASE i.room = None
  BY <1>3 DEF replay_reason, Reasons
<1> QED
  BY <1>2, <1>3

\* The abstract record of a scan, read off its receipt.
LEMMA TakenIs ==
  ASSUME TypeOK, ReceiptInv
  PROVE  Taken = [u \in Uuids |-> IF receipt[u] = None THEN "no" ELSE receipt[u]]
<1>1. ASSUME NEW u \in Uuids
      PROVE  Taken[u] = IF receipt[u] = None THEN "no" ELSE receipt[u]
  <2>1. receipt[u] \in {"applied", "flagged", None}
    BY DEF TypeOK
  <2>2. Taken[u] = CASE Effects(u) = 0 /\ conflicts[u] = 0 -> "no"
                     [] Effects(u) = 1 /\ conflicts[u] = 0 -> "applied"
                     [] Effects(u) = 0 /\ conflicts[u] = 1 -> "flagged"
                     [] OTHER -> "twice"
    BY DEF Taken
  <2>3. Effects(u) = Cardinality(RowsOf(u))
    BY DEF Effects, RowsOf
  <2>4. RowsOf(u) = {} => Effects(u) = 0
    BY <2>3, FS_EmptySet
  <2>5. (\E v : RowsOf(u) = {v}) => Effects(u) = 1
    <3> SUFFICES ASSUME NEW v, RowsOf(u) = {v} PROVE Cardinality(RowsOf(u)) = 1
      BY <2>3
    <3> QED
      BY FS_Singleton
  <2>6. CASE receipt[u] = None
    BY <2>2, <2>4, <2>6 DEF ReceiptInv
  <2>7. CASE receipt[u] = "applied"
    <3>1. Effects(u) = 1 /\ conflicts[u] = 0
      BY <2>5, <2>7 DEF ReceiptInv
    <3> QED
      BY <2>2, <2>7, <3>1, CheckerAssumption
  <2>8. CASE receipt[u] = "flagged"
    BY <2>2, <2>4, <2>8, CheckerAssumption DEF ReceiptInv
  <2> QED
    BY <2>1, <2>6, <2>7, <2>8
<1> QED
  BY <1>1 DEF Taken

-----------------------------------------------------------------------------
(***************************************************************************)
(* The invariant is kept.                                                  *)
(***************************************************************************)
\* What a request carries is known from its pc.
LEMMA RequestFields ==
  ASSUME TypeOK, NEW d \in Drains, drain[d].pc = "server"
  PROVE  /\ drain[d] \in Request
         /\ drain[d].todo \subseteq Uuids /\ drain[d].named \subseteq Uuids
         /\ drain[d].claim \in Claim \cup {None} /\ drain[d].at \in Times
<1>1. Idle.pc # "server"
  BY DEF Idle
<1>2. drain[d] \in Request
  BY <1>1 DEF TypeOK
<1> QED
  BY <1>2 DEF Request

\* Steps of the campus, and looks: nothing about a scan changes.
LEMMA CampusStep ==
  ASSUME Inv, UNCHANGED <<validations, item, queued, page, drain, receipt, conflicts>>,
         live' \in [Checkers -> Pressed \cup {Idle}], now' \in Times, now <= now',
         status' \in [Classes -> {"scheduled", "active", "completed", "absent"}],
         \A k \in Classes : status'[k] = "active" => Start[k] <= now'
  PROVE  Inv'
<1>1. TypeOK'
  BY DEF Inv, TypeOK
<1>2. ReceiptInv'
  BY DEF Inv, ReceiptInv, RowsOf
<1>3. QueueInv'
  BY DEF Inv, QueueInv
<1>4. page' # None => Start[page'] <= now'
  <2> SUFFICES ASSUME page # None PROVE Start[page] <= now'
    OBVIOUS
  <2>1. page \in Classes /\ now \in Nat /\ now' \in Nat /\ Start[page] \in Nat
    BY CheckerAssumption DEF Inv, TypeOK, Times
  <2>2. Start[page] <= now
    BY DEF Inv, StartedInv
  <2> QED
    BY <2>1, <2>2
<1>5. StartedInv'
  BY <1>4 DEF Inv, StartedInv, ReplayNeverForLaterClass
<1> QED
  BY <1>1, <1>2, <1>3, <1>5 DEF Inv

LEMMA CampusSteps ==
  ASSUME Inv, Campus
  PROVE  Inv'
<1>0. /\ status \in [Classes -> {"scheduled", "active", "completed", "absent"}]
      /\ live \in [Checkers -> Pressed \cup {Idle}] /\ now \in Times /\ now \in Nat
      /\ \A k \in Classes : status[k] = "active" => Start[k] <= now
      /\ \A k \in Classes : Start[k] \in Nat /\ End[k] \in Nat
  BY CheckerAssumption DEF Inv, TypeOK, StartedInv, Times
<1>1. CASE Tick
  <2>1. now' \in Times /\ now <= now' /\ status' = status /\ live' = live
    BY <1>0, <1>1, CheckerAssumption DEF Tick, Times
  <2>2. \A k \in Classes : status'[k] = "active" => Start[k] <= now'
    BY <1>0, <2>1 DEF Times
  <2> QED
    BY <1>0, <1>1, <2>1, <2>2, CampusStep DEF Tick
<1>2. ASSUME NEW a \in Grants, assignment_create(a) PROVE Inv'
  BY <1>0, <1>2, CampusStep DEF assignment_create
<1>3. ASSUME NEW k \in Classes, class_start(k) PROVE Inv'
  <2>1. /\ status' \in [Classes -> {"scheduled", "active", "completed", "absent"}]
        /\ \A j \in Classes : status'[j] = "active" => Start[j] <= now
    BY <1>0, <1>3 DEF class_start
  <2> QED
    BY <1>0, <1>3, <2>1, CampusStep DEF class_start
<1>4. ASSUME NEW k \in Classes, class_close(k) PROVE Inv'
  <2>1. /\ status' \in [Classes -> {"scheduled", "active", "completed", "absent"}]
        /\ \A j \in Classes : status'[j] = "active" => Start[j] <= now
    BY <1>0, <1>4 DEF class_close
  <2> QED
    BY <1>0, <1>4, <2>1, CampusStep DEF class_close
<1> QED
  BY <1>1, <1>2, <1>3, <1>4 DEF Campus

\* A row that belongs to no scan changes nothing about the scans.
LEMMA LiveSteps ==
  ASSUME Inv, LiveScan
  PROVE  Inv'
<1>0. /\ status \in [Classes -> {"scheduled", "active", "completed", "absent"}]
      /\ live \in [Checkers -> Pressed \cup {Idle}] /\ now \in Times
      /\ now <= now
      /\ \A k \in Classes : status[k] = "active" => Start[k] <= now
  BY CheckerAssumption DEF Inv, TypeOK, StartedInv, Times
<1>1. ASSUME NEW c \in Checkers, NEW m \in Rooms, NEW a \in ValidActions, action_check(c, m, a)
      PROVE  Inv'
  <2>1. live' \in [Checkers -> Pressed \cup {Idle}]
    <3> DEFINE k == room_session_state(m, now)
    <3>1. k \in Classes \cup {None}
      BY RoomState
    <3>2. live' = [live EXCEPT ![c] = [pc |-> "apply", class |-> k, room |-> m,
                                       action |-> a, at |-> now]]
      BY <1>1 DEF action_check
    <3> HIDE DEF k
    <3>3. [pc |-> "apply", class |-> k, room |-> m, action |-> a, at |-> now] \in Pressed
      BY <1>0, <3>1 DEF Pressed
    <3> QED
      BY <1>0, <3>2, <3>3
  <2> QED
    BY <1>0, <1>1, <2>1, CampusStep DEF action_check
<1>2. ASSUME NEW c \in Checkers, action_apply(c) PROVE Inv'
  <2>1. /\ live' \in [Checkers -> Pressed \cup {Idle}] /\ live[c].class \in Classes \cup {None}
        /\ UNCHANGED <<now, status, item, queued, page, drain, receipt, conflicts>>
    <3>1. live[c].pc = "apply" /\ live' = [live EXCEPT ![c] = Idle]
      BY <1>2 DEF action_apply
    <3>2. Idle.pc # "apply"
      BY DEF Idle
    <3>3. live[c] \in Pressed
      BY <1>0, <3>1, <3>2
    <3> QED
      BY <1>0, <1>2, <3>1, <3>3 DEF action_apply, Pressed
  <2>2. CASE validations' = validations
    BY <1>0, <2>1, <2>2, CampusStep
  <2>3. CASE apply_action(c, live[c].class, live[c].room, live[c].action, None)
    <3>1. PICK v : /\ validations' = validations \cup {v}
                   /\ v.uuid = None /\ v.class = live[c].class
      BY <2>3, RowAdded
    <3>2. TypeOK'
      BY <2>1, <3>1 DEF Inv, TypeOK
    <3>3. \A u \in Uuids : RowsOf(u)' = RowsOf(u)
      BY <3>1, CheckerAssumption DEF RowsOf
    <3>4. ReceiptInv'
      BY <2>1, <3>3 DEF Inv, ReceiptInv
    <3>5. QueueInv'
      BY <2>1 DEF Inv, QueueInv
    <3>6. StartedInv'
      BY <2>1, <3>1 DEF Inv, StartedInv, ReplayNeverForLaterClass
    <3> QED
      BY <3>2, <3>4, <3>5, <3>6 DEF Inv
  <2> QED
    BY <1>2, <2>2, <2>3 DEF action_apply
<1> QED
  BY <1>1, <1>2 DEF LiveScan

LEMMA DeviceSteps ==
  ASSUME Inv, DeviceStep
  PROVE  Inv'
<1>0. TypeOK /\ ReceiptInv /\ QueueInv /\ StartedInv
  BY DEF Inv
<1>1. ASSUME NEW m \in Rooms, resolve(m) PROVE Inv'
  <2> DEFINE k == room_session_state(m, now)
  <2>1. page' = k \/ page' = None
    BY <1>1 DEF resolve
  <2>2. k \in Classes \cup {None} /\ (k # None => status[k] = "active" \/ Start[k] <= now)
    BY RoomState
  <2>3. k # None => k \in Classes /\ Start[k] <= now
    BY <1>0, <2>2 DEF StartedInv
  <2> HIDE DEF k
  <2>4. /\ page' \in Classes \cup {None} /\ (page' # None => Start[page'] <= now)
        /\ UNCHANGED <<now, status, validations, live, item, queued, drain, receipt, conflicts>>
    BY <1>1, <2>1, <2>3 DEF resolve
  <2>5. TypeOK'
    BY <1>0, <2>4 DEF TypeOK
  <2>6. ReceiptInv' /\ QueueInv'
    BY <1>0, <2>4 DEF ReceiptInv, QueueInv, RowsOf
  <2>7. StartedInv'
    BY <1>0, <2>4 DEF StartedInv, ReplayNeverForLaterClass
  <2> QED
    BY <2>5, <2>6, <2>7 DEF Inv
<1>2. ASSUME NEW u \in Uuids, NEW s \in Scans, enqueue(u, s) PROVE Inv'
  <2> DEFINE i == [room |-> s.room, action |-> s.action, note |-> s.note,
                   manual |-> s.manual, class |-> page, at |-> now]
  <2>1. /\ item[u] = None /\ item' = [item EXCEPT ![u] = i] /\ queued' = queued \cup {u}
        /\ page' = None
        /\ UNCHANGED <<now, status, validations, live, drain, receipt, conflicts>>
    BY <1>2 DEF enqueue
  <2>2. i \in Item /\ i.class = page /\ i.at = now
    BY <1>0, CheckerAssumption DEF TypeOK, Item
  <2> HIDE DEF i
  <2>3. /\ item'[u] = i /\ i # None
        /\ \A w \in Uuids \ {u} : item'[w] = item[w]
    BY <1>0, <2>1, <2>2, ItemShape DEF TypeOK
  <2>4. TypeOK'
    BY <1>0, <2>1, <2>2 DEF TypeOK
  <2>5. ReceiptInv'
    BY <1>0, <2>1 DEF ReceiptInv, RowsOf
  <2>6. QueueInv'
    <3>1. \A w \in Uuids : item'[w] = None => w \notin queued' /\ receipt'[w] = None
      BY <1>0, <2>1, <2>3 DEF QueueInv
    <3>2. \A w \in Uuids : item'[w] # None /\ receipt'[w] = None => w \in queued'
      BY <1>0, <2>1, <2>3 DEF QueueInv
    <3>3. ASSUME NEW d \in Drains, drain[d].pc = "server"
          PROVE  /\ \A w \in drain[d].todo : item'[w] # None
                 /\ \A w \in drain[d].named : receipt'[w] # None
                 /\ drain[d].claim # None => item'[drain[d].claim.uuid] # None
      BY <1>0, <2>1, <2>3, <3>3, RequestFields DEF QueueInv, Claim
    <3> QED
      BY <2>1, <3>1, <3>2, <3>3 DEF QueueInv
  <2>7. RowsOf(u) = {}
    BY <1>0, <2>1 DEF QueueInv, ReceiptInv
  <2>8. StartedInv'
    <3>1. ASSUME NEW w \in Uuids, item'[w] # None, item'[w].class # None
          PROVE  Start[item'[w].class] <= item'[w].at
      BY <1>0, <2>2, <2>3, <3>1 DEF StartedInv
    <3>2. ASSUME NEW d \in Drains, drain[d].pc = "server", drain[d].claim # None,
                 drain[d].claim.reason = "none", drain[d].claim.class # None
          PROVE  Start[drain[d].claim.class] <= item'[drain[d].claim.uuid].at
      <4>1. drain[d].claim.uuid \in Uuids /\ item[drain[d].claim.uuid] # None
        BY <1>0, <3>2, RequestFields DEF QueueInv, Claim
      <4> QED
        BY <1>0, <2>1, <2>3, <3>2, <4>1 DEF StartedInv
    <3>3. ASSUME NEW v \in validations, v.uuid # None, v.class # None
          PROVE  Start[v.class] <= item'[v.uuid].at
      <4>1. v.uuid \in Uuids \ {u}
        BY <1>0, <2>7, <3>3 DEF TypeOK, RowsOf
      <4> QED
        BY <1>0, <2>3, <3>3, <4>1 DEF StartedInv, ReplayNeverForLaterClass
    <3> QED
      BY <1>0, <2>1, <3>1, <3>2, <3>3 DEF StartedInv, ReplayNeverForLaterClass
  <2> QED
    BY <2>4, <2>5, <2>6, <2>8 DEF Inv
<1> QED
  BY <1>1, <1>2 DEF DeviceStep

\* A request changes, and nothing else that matters to it.
LEMMA RequestStep ==
  ASSUME Inv, NEW d \in Drains, NEW w \in Request \cup {Idle},
         drain' = [drain EXCEPT ![d] = w],
         w.pc = "server" =>
           /\ \A u \in w.todo : item[u] # None
           /\ \A u \in w.named : receipt[u] # None
           /\ w.claim # None => item[w.claim.uuid] # None
           /\ w.claim # None /\ w.claim.reason = "none" /\ w.claim.class # None =>
                Start[w.claim.class] <= item[w.claim.uuid].at,
         queued' \subseteq queued, \A u \in queued \ queued' : receipt[u] # None,
         UNCHANGED <<now, status, validations, live, item, page, receipt, conflicts>>
  PROVE  Inv'
<1>0. TypeOK /\ ReceiptInv /\ QueueInv /\ StartedInv
  BY DEF Inv
<1>1. drain'[d] = w /\ \A e \in Drains \ {d} : drain'[e] = drain[e]
  BY <1>0 DEF TypeOK
<1>2. TypeOK'
  BY <1>0 DEF TypeOK
<1>3. ReceiptInv'
  BY <1>0 DEF ReceiptInv, RowsOf
<1>4. QueueInv'
  BY <1>0, <1>1 DEF QueueInv
<1>5. StartedInv'
  BY <1>0, <1>1 DEF StartedInv, ReplayNeverForLaterClass
<1> QED
  BY <1>2, <1>3, <1>4, <1>5 DEF Inv

LEMMA SendSteps ==
  ASSUME Inv, NEW d \in Drains, drain_send(d) \/ drain_done(d) \/ drain_fail(d)
  PROVE  Inv'
<1>0. TypeOK /\ ReceiptInv /\ QueueInv /\ StartedInv
  BY DEF Inv
<1>1. CASE drain_send(d)
  <2> DEFINE w == [pc |-> "server", at |-> now, todo |-> queued, named |-> {}, claim |-> None]
  <2>1. w \in Request
    BY <1>0 DEF TypeOK, Request
  <2>2. /\ drain' = [drain EXCEPT ![d] = w]
        /\ UNCHANGED <<now, status, validations, live, item, queued, page, receipt, conflicts>>
    BY <1>1 DEF drain_send
  <2>3. w.todo = queued /\ w.named = {} /\ w.claim = None
    OBVIOUS
  <2>4. \A u \in queued : item[u] # None
    BY <1>0 DEF QueueInv, TypeOK
  <2> HIDE DEF w
  <2> QED
    BY <2>1, <2>2, <2>3, <2>4, RequestStep
<1>2. CASE drain_done(d)
  <2>1. /\ drain' = [drain EXCEPT ![d] = Idle] /\ queued' = queued \ drain[d].named
        /\ drain[d].pc = "server"
        /\ UNCHANGED <<now, status, validations, live, item, page, receipt, conflicts>>
    BY <1>2 DEF drain_done
  <2>2. \A u \in drain[d].named : receipt[u] # None
    BY <1>0, <2>1 DEF QueueInv
  <2>3. Idle.pc # "server"
    BY DEF Idle
  <2> QED
    BY <2>1, <2>2, <2>3, RequestStep
<1>3. CASE drain_fail(d)
  <2>1. Idle.pc # "server"
    BY DEF Idle
  <2> QED
    BY <1>3, <2>1, RequestStep DEF drain_fail
<1> QED
  BY <1>1, <1>2, <1>3

\* The look at one scan of the batch.
LEMMA CheckStep ==
  ASSUME Inv, NEW d \in Drains, NEW u \in Uuids, replay_check(d, u)
  PROVE  Inv'
<1>0. TypeOK /\ ReceiptInv /\ QueueInv /\ StartedInv
  BY DEF Inv
<1>1. /\ drain[d].pc = "server" /\ u \in drain[d].todo /\ drain[d].claim = None
      /\ UNCHANGED <<now, status, validations, live, item, queued, page, receipt, conflicts>>
  BY DEF replay_check
<1>2. /\ drain[d] \in Request /\ drain[d].todo \subseteq Uuids
      /\ drain[d].named \subseteq Uuids /\ drain[d].at \in Times
  BY <1>0, <1>1, RequestFields
<1>3. /\ \A x \in drain[d].todo : item[x] # None
      /\ \A x \in drain[d].named : receipt[x] # None
  BY <1>0, <1>1 DEF QueueInv
<1>4. CASE receipt[u] # None
  <2> DEFINE w == [drain[d] EXCEPT !.todo = @ \ {u}, !.named = @ \cup {u}]
  <2>1. drain' = [drain EXCEPT ![d] = w]
    BY <1>4 DEF replay_check
  <2>2. /\ w \in Request /\ w.todo = drain[d].todo \ {u} /\ w.claim = None
        /\ w.named = drain[d].named \cup {u}
    BY <1>1, <1>2 DEF Request
  <2> HIDE DEF w
  <2> QED
    BY <1>1, <1>3, <1>4, <2>1, <2>2, RequestStep
<1>5. CASE receipt[u] = None
  <2> DEFINE over == item[u].manual /\ looked >= Limit
             reason == IF over THEN "rate-limited" ELSE replay_reason(item[u], drain[d].at)
             k == IF item[u].room = None THEN None
                  ELSE room_session_state(item[u].room, drain[d].at)
             c == [uuid |-> u, reason |-> reason, class |-> k]
             w == [drain[d] EXCEPT !.claim = c]
  <2>1. drain' = [drain EXCEPT ![d] = w]
    BY <1>5 DEF replay_check
  <2>2. reason \in Reasons
    BY ReasonType DEF Reasons
  <2>3. k \in Classes \cup {None}
    BY RoomState
  <2>4. item[u] \in Item /\ item[u] # None
    BY <1>0, <1>1, <1>3 DEF TypeOK
  <2>5. reason = "none" /\ k # None => Start[k] <= item[u].at
    <3> SUFFICES ASSUME reason = "none", k # None PROVE Start[k] <= item[u].at
      OBVIOUS
    <3>1. replay_reason(item[u], drain[d].at) = "none"
      OBVIOUS
    <3>2. k = IF item[u].class # None THEN item[u].class
              ELSE room_session_at_scan(item[u].room, item[u].at)
      BY <2>4, <3>1, GatePasses
    <3>3. CASE item[u].class # None
      BY <1>0, <2>4, <3>2, <3>3 DEF StartedInv
    <3>4. CASE item[u].class = None
      BY <3>2, <3>4, RoomAtScan
    <3> QED
      BY <3>3, <3>4
  <2> HIDE DEF reason, k, over
  <2>6. c \in Claim /\ c.uuid = u /\ c.reason = reason /\ c.class = k
    BY <2>2, <2>3 DEF Claim
  <2> HIDE DEF c
  <2>7. /\ w \in Request /\ w.todo = drain[d].todo /\ w.named = drain[d].named /\ w.claim = c
    BY <1>2, <2>6 DEF Request
  <2> HIDE DEF w
  <2> QED
    BY <1>1, <1>3, <2>1, <2>4, <2>5, <2>6, <2>7, RequestStep
<1> QED
  BY <1>4, <1>5

\* The transaction that claims the receipt.
LEMMA CommitStep ==
  ASSUME Inv, NEW d \in Drains, replay_commit(d)
  PROVE  /\ Inv'
         /\ queued' = queued
         /\ \/ receipt' = receipt
            \/ /\ drain[d].claim.uuid \in queued /\ receipt[drain[d].claim.uuid] = None
               /\ \E outcome \in {"applied", "flagged"} :
                    receipt' = [receipt EXCEPT ![drain[d].claim.uuid] = outcome]
<1>0. TypeOK /\ ReceiptInv /\ QueueInv /\ StartedInv
  BY DEF Inv
<1> DEFINE c == drain[d].claim
<1>a. drain[d].pc = "server" /\ c # None
  BY DEF replay_commit
<1>b. drain[d] \in Request /\ c \in Claim
  BY <1>0, <1>a, RequestFields
<1>c. PICK u \in Uuids : u = c.uuid
  BY <1>b DEF Claim
<1> DEFINE w == [drain[d] EXCEPT !.todo = @ \ {u}, !.named = @ \cup {u}, !.claim = None]
<1>1. /\ drain[d].pc = "server" /\ c # None /\ drain' = [drain EXCEPT ![d] = w]
      /\ UNCHANGED <<now, status, live, item, queued, page>>
  BY <1>c DEF replay_commit
<1>2. drain[d] \in Request /\ c \in Claim /\ u = c.uuid /\ c.class \in Classes \cup {None}
  BY <1>b, <1>c DEF Claim
<1>3. /\ \A x \in drain[d].todo : item[x] # None
      /\ \A x \in drain[d].named : receipt[x] # None /\ x \in Uuids
      /\ item[u] # None
  BY <1>0, <1>1, <1>2, RequestFields DEF QueueInv
<1>4. /\ w \in Request /\ w.todo = drain[d].todo \ {u} /\ w.named = drain[d].named \cup {u}
      /\ w.claim = None
  BY <1>2 DEF Request
<1> HIDE DEF w
<1>5. drain'[d] = w /\ \A e \in Drains \ {d} : drain'[e] = drain[e]
  BY <1>0, <1>1 DEF TypeOK
\* What holds once the receipt is there and was not taken away.
<1>6. ASSUME NEW r2 \in [Uuids -> {"applied", "flagged", None}], receipt' = r2,
             r2[u] # None, \A x \in Uuids : receipt[x] # None => r2[x] = receipt[x],
             \A x \in Uuids \ {u} : r2[x] = receipt[x]
      PROVE  QueueInv'
  <2>1. \A x \in Uuids : item'[x] = None => x \notin queued' /\ receipt'[x] = None
    BY <1>0, <1>1, <1>3, <1>6 DEF QueueInv
  <2>2. \A x \in Uuids : item'[x] # None /\ receipt'[x] = None => x \in queued'
    BY <1>0, <1>1, <1>6 DEF QueueInv
  <2>3. ASSUME NEW e \in Drains, drain'[e].pc = "server"
        PROVE  /\ \A x \in drain'[e].todo : item'[x] # None
               /\ \A x \in drain'[e].named : receipt'[x] # None
               /\ drain'[e].claim # None => item'[drain'[e].claim.uuid] # None
    <3>1. CASE e = d
      BY <1>1, <1>2, <1>3, <1>4, <1>5, <1>6, <3>1
    <3>2. CASE e # d
      <4>1. drain[e].pc = "server" /\ drain'[e] = drain[e]
        BY <1>5, <2>3, <3>2
      <4>2. drain[e].named \subseteq Uuids
        BY <1>0, <4>1, RequestFields
      <4> QED
        BY <1>0, <1>1, <1>6, <4>1, <4>2 DEF QueueInv
    <3> QED
      BY <3>1, <3>2
  <2> QED
    BY <2>1, <2>2, <2>3 DEF QueueInv
<1>7. ASSUME ReplayNeverForLaterClass' PROVE StartedInv'
  <2>1. ASSUME NEW e \in Drains, drain'[e].pc = "server", drain'[e].claim # None,
               drain'[e].claim.reason = "none", drain'[e].claim.class # None
        PROVE  Start[drain'[e].claim.class] <= item'[drain'[e].claim.uuid].at
    <3>1. e # d
      BY <1>4, <1>5, <2>1
    <3> QED
      BY <1>0, <1>1, <1>5, <2>1, <3>1 DEF StartedInv
  <2> QED
    BY <1>0, <1>1, <1>7, <2>1 DEF StartedInv
<1>8. CASE /\ c.reason = "none" /\ claim_replay_receipt(u, "applied")
           /\ apply_action(Device, c.class, item[u].room, item[u].action, u)
           /\ UNCHANGED conflicts
  <2>1. PICK v : /\ validations' = validations \cup {v} /\ v.uuid = u /\ v.class = c.class
    BY <1>8, RowAdded
  <2>2. receipt[u] = None /\ receipt' = [receipt EXCEPT ![u] = "applied"]
    BY <1>8 DEF claim_replay_receipt
  <2>3. /\ receipt' \in [Uuids -> {"applied", "flagged", None}] /\ receipt'[u] = "applied"
        /\ \A x \in Uuids \ {u} : receipt'[x] = receipt[x]
    BY <1>0, <1>2, <2>2 DEF TypeOK
  <2>4. TypeOK'
    BY <1>0, <1>1, <1>2, <1>4, <1>8, <2>1, <2>3 DEF TypeOK
  <2>5. RowsOf(u) = {}
    BY <1>0, <1>2, <2>2 DEF ReceiptInv
  <2>6. RowsOf(u)' = {v} /\ \A x \in Uuids \ {u} : RowsOf(x)' = RowsOf(x)
    BY <2>1, <2>5 DEF RowsOf
  <2>7. conflicts' = conflicts /\ conflicts[u] = 0
    BY <1>0, <1>2, <1>8, <2>2 DEF ReceiptInv
  <2>8. ReceiptInv'
    <3> SUFFICES ASSUME NEW x \in Uuids
                 PROVE  /\ receipt'[x] = None => RowsOf(x)' = {} /\ conflicts'[x] = 0
                        /\ receipt'[x] = "applied" =>
                             (\E z : RowsOf(x)' = {z}) /\ conflicts'[x] = 0
                        /\ receipt'[x] = "flagged" => RowsOf(x)' = {} /\ conflicts'[x] = 1
      BY DEF ReceiptInv
    <3>1. CASE x = u
      BY <2>3, <2>6, <2>7, <3>1, CheckerAssumption
    <3>2. CASE x # u
      BY <1>0, <2>3, <2>6, <2>7, <3>2 DEF ReceiptInv
    <3> QED
      BY <3>1, <3>2
  <2>9. QueueInv'
    BY <1>6, <2>2, <2>3, CheckerAssumption
  <2>10. c.class # None => Start[c.class] <= item[u].at
    BY <1>0, <1>1, <1>2, <1>8 DEF StartedInv
  <2>11. ReplayNeverForLaterClass'
    BY <1>0, <1>1, <2>1, <2>10 DEF StartedInv, ReplayNeverForLaterClass
  <2>12. u \in queued
    BY <1>0, <1>2, <1>3, <2>2 DEF QueueInv
  <2> QED
    BY <1>1, <1>2, <1>7, <2>2, <2>4, <2>8, <2>9, <2>11, <2>12 DEF Inv
<1>9. CASE /\ c.reason # "none" /\ claim_replay_receipt(u, "flagged")
           /\ conflicts' = [conflicts EXCEPT ![u] = @ + 1]
           /\ UNCHANGED validations
  <2>1. receipt[u] = None /\ receipt' = [receipt EXCEPT ![u] = "flagged"]
    BY <1>9 DEF claim_replay_receipt
  <2>2. /\ receipt' \in [Uuids -> {"applied", "flagged", None}] /\ receipt'[u] = "flagged"
        /\ \A x \in Uuids \ {u} : receipt'[x] = receipt[x]
    BY <1>0, <1>2, <2>1 DEF TypeOK
  <2>3. conflicts' \in [Uuids -> Nat]
    BY <1>0, <1>2, <1>9 DEF TypeOK
  <2>4. TypeOK'
    BY <1>0, <1>1, <1>2, <1>4, <1>9, <2>2, <2>3 DEF TypeOK
  <2>5. RowsOf(u) = {} /\ conflicts[u] = 0
    BY <1>0, <1>2, <2>1 DEF ReceiptInv
  <2>6. \A x \in Uuids : RowsOf(x)' = RowsOf(x)
    BY <1>9 DEF RowsOf
  <2>7. conflicts'[u] = 1 /\ \A x \in Uuids \ {u} : conflicts'[x] = conflicts[x]
    BY <1>0, <1>2, <1>9, <2>5 DEF TypeOK
  <2>8. ReceiptInv'
    <3> SUFFICES ASSUME NEW x \in Uuids
                 PROVE  /\ receipt'[x] = None => RowsOf(x)' = {} /\ conflicts'[x] = 0
                        /\ receipt'[x] = "applied" =>
                             (\E z : RowsOf(x)' = {z}) /\ conflicts'[x] = 0
                        /\ receipt'[x] = "flagged" => RowsOf(x)' = {} /\ conflicts'[x] = 1
      BY DEF ReceiptInv
    <3>1. CASE x = u
      BY <2>2, <2>5, <2>6, <2>7, <3>1, CheckerAssumption
    <3>2. CASE x # u
      BY <1>0, <2>2, <2>6, <2>7, <3>2 DEF ReceiptInv
    <3> QED
      BY <3>1, <3>2
  <2>9. QueueInv'
    BY <1>6, <2>1, <2>2, CheckerAssumption
  <2>10. ReplayNeverForLaterClass'
    BY <1>0, <1>1, <1>9 DEF StartedInv, ReplayNeverForLaterClass
  <2>11. u \in queued
    BY <1>0, <1>2, <1>3, <2>1 DEF QueueInv
  <2> QED
    BY <1>1, <1>2, <1>7, <2>1, <2>4, <2>8, <2>9, <2>10, <2>11 DEF Inv
<1>10. CASE receipt[u] # None /\ UNCHANGED <<receipt, validations, conflicts>>
  <2>1. TypeOK'
    BY <1>0, <1>1, <1>2, <1>4, <1>10 DEF TypeOK
  <2>2. ReceiptInv'
    BY <1>0, <1>10 DEF ReceiptInv, RowsOf
  <2>3. QueueInv'
    BY <1>0, <1>6, <1>10 DEF TypeOK
  <2>4. ReplayNeverForLaterClass'
    BY <1>0, <1>1, <1>10 DEF StartedInv, ReplayNeverForLaterClass
  <2> QED
    BY <1>1, <1>7, <1>10, <2>1, <2>2, <2>3, <2>4 DEF Inv
<1> QED
  BY <1>2, <1>8, <1>9, <1>10 DEF replay_commit

LEMMA InvInit == Init => Inv
<1> SUFFICES ASSUME Init PROVE Inv
  OBVIOUS
<1>1. TypeOK
  BY CheckerAssumption DEF Init, TypeOK, Times
<1>2. ReceiptInv
  BY CheckerAssumption DEF Init, ReceiptInv, RowsOf
<1>3. \A d \in Drains : drain[d].pc # "server"
  BY DEF Init, Idle
<1>4. QueueInv
  BY <1>3 DEF Init, QueueInv
<1>5. StartedInv
  BY <1>3 DEF Init, StartedInv, ReplayNeverForLaterClass
<1> QED
  BY <1>1, <1>2, <1>4, <1>5 DEF Inv

LEMMA InvStep ==
  ASSUME Inv, [Next]_vars
  PROVE  Inv'
<1>1. CASE Next
  BY <1>1, CampusSteps, LiveSteps, DeviceSteps, SendSteps, CheckStep, CommitStep DEF Next, Sync
<1>2. CASE UNCHANGED vars
  BY <1>2 DEF vars, Inv, TypeOK, ReceiptInv, RowsOf, QueueInv, StartedInv,
       ReplayNeverForLaterClass
<1> QED
  BY <1>1, <1>2

LEMMA InvHolds == Spec => []Inv
BY InvInit, InvStep, PTL DEF Spec

-----------------------------------------------------------------------------
(***************************************************************************)
(* The results.                                                            *)
(***************************************************************************)
\* A replayed scan is never put to the account of a class that had not started
\* when it was made, however long it waited and whatever the room has by then
\* (web/checker.py _replay_one).
THEOREM NeverForLaterClass == Spec => []ReplayNeverForLaterClass
<1>1. Inv => ReplayNeverForLaterClass
  BY DEF Inv, StartedInv
<1> QED
  BY <1>1, InvHolds, PTL

\* What a step does to the scans, seen through their receipts: nothing, one more
\* is kept, one kept and not yet taken is taken, or some that were taken go.
LEMMA LogSteps ==
  ASSUME Inv, [Next]_vars
  PROVE  \/ receipt' = receipt /\ queued' = queued
         \/ \E u \in Uuids : /\ u \notin queued /\ receipt[u] = None
                             /\ queued' = queued \cup {u} /\ receipt' = receipt
         \/ \E u \in Uuids : \E outcome \in {"applied", "flagged"} :
              /\ u \in queued /\ receipt[u] = None /\ queued' = queued
              /\ receipt' = [receipt EXCEPT ![u] = outcome]
         \/ \E done \in SUBSET queued : /\ \A u \in done : receipt[u] # None
                                        /\ queued' = queued \ done /\ receipt' = receipt
<1>1. ASSUME NEW u \in Uuids, NEW s \in Scans, enqueue(u, s)
      PROVE  /\ u \notin queued /\ receipt[u] = None
             /\ queued' = queued \cup {u} /\ receipt' = receipt
  BY <1>1 DEF enqueue, Inv, QueueInv
<1>2. ASSUME NEW d \in Drains, drain_done(d)
      PROVE  \E done \in SUBSET queued : /\ \A u \in done : receipt[u] # None
                                         /\ queued' = queued \ done /\ receipt' = receipt
  <2>1. \A u \in drain[d].named : receipt[u] # None
    BY <1>2 DEF drain_done, Inv, QueueInv
  <2>2. receipt' = receipt /\ queued' = queued \ (drain[d].named \cap queued)
    BY <1>2 DEF drain_done
  <2> WITNESS drain[d].named \cap queued \in SUBSET queued
  <2> QED
    BY <2>1, <2>2
<1>3. ASSUME NEW d \in Drains, replay_commit(d)
      PROVE  \/ receipt' = receipt /\ queued' = queued
             \/ \E u \in Uuids : \E outcome \in {"applied", "flagged"} :
                  /\ u \in queued /\ receipt[u] = None /\ queued' = queued
                  /\ receipt' = [receipt EXCEPT ![u] = outcome]
  BY <1>3, CommitStep DEF Inv, TypeOK
<1>4. ASSUME \/ Campus \/ LiveScan \/ UNCHANGED vars
             \/ \E m \in Rooms : resolve(m)
             \/ \E d \in Drains : drain_send(d) \/ drain_fail(d)
             \/ \E d \in Drains, u \in Uuids : replay_check(d, u)
      PROVE  receipt' = receipt /\ queued' = queued
  BY <1>4 DEF Campus, Tick, assignment_create, class_start, class_close, LiveScan,
     action_apply, action_check, vars, resolve, drain_send, drain_fail, replay_check
<1> QED
  BY <1>1, <1>2, <1>3, <1>4 DEF Next, DeviceStep, Sync

\* The offline queue and its replay implement ReplayLog: the server takes every
\* scan exactly once, as a validation or as a conflict, and the device lets go of
\* it only after that, for any number of scans and of overlapping requests.
THEOREM ReplayLogImplemented == Spec => ImplementsReplayLog
<1>1. Init => Log!LogInit
  <2> SUFFICES ASSUME Init PROVE Log!LogInit
    OBVIOUS
  <2>1. Taken = [u \in Uuids |-> "no"]
    BY InvInit, TakenIs DEF Inv, Init
  <2> QED
    BY <2>1 DEF Log!LogInit, Init
<1>0. TypeOK' /\ ReceiptInv' =>
        Taken' = [u \in Uuids |-> IF receipt'[u] = None THEN "no" ELSE receipt'[u]]
  <2>1. TypeOK /\ ReceiptInv =>
          Taken = [u \in Uuids |-> IF receipt[u] = None THEN "no" ELSE receipt[u]]
    BY TakenIs
  <2>2. (TypeOK /\ ReceiptInv =>
          Taken = [u \in Uuids |-> IF receipt[u] = None THEN "no" ELSE receipt[u]])'
    BY <2>1, PTL
  <2> QED
    BY <2>2
<1>2. ASSUME Inv, [Next]_vars PROVE [Log!LogNext]_(Log!logVars)
  <2>1. Inv'
    BY <1>2, InvStep
  <2> DEFINE T(r) == [u \in Uuids |-> IF r[u] = None THEN "no" ELSE r[u]]
  <2>2. Taken = T(receipt)
    BY <1>2, TakenIs DEF Inv
  <2>3. TypeOK' /\ ReceiptInv'
    BY <2>1 DEF Inv
  <2>4. Taken' = T(receipt')
    BY <2>3, <1>0
  <2>5. CASE receipt' = receipt /\ queued' = queued
    BY <2>2, <2>4, <2>5 DEF Log!logVars
  <2>6. ASSUME NEW u \in Uuids, u \notin queued, receipt[u] = None,
               queued' = queued \cup {u}, receipt' = receipt
        PROVE  Log!Record(u)
    BY <2>2, <2>4, <2>6 DEF Log!Record
  <2>7. ASSUME NEW u \in Uuids, NEW outcome \in {"applied", "flagged"},
               u \in queued, receipt[u] = None, queued' = queued,
               receipt' = [receipt EXCEPT ![u] = outcome]
        PROVE  Log!Take(u)
    <3>1. Taken' = [Taken EXCEPT ![u] = outcome]
      BY <1>2, <2>2, <2>4, <2>7, CheckerAssumption DEF Inv, TypeOK
    <3>2. Taken[u] = "no"
      BY <2>2, <2>7
    <3> QED
      BY <2>7, <3>1, <3>2 DEF Log!Take
  <2>8. ASSUME NEW done \in SUBSET queued, \A u \in done : receipt[u] # None,
               queued' = queued \ done, receipt' = receipt
        PROVE  Log!Forget
    <3>1. \A u \in done : Taken[u] # "no"
      BY <1>2, <2>2, <2>8 DEF Inv, TypeOK
    <3>2. Taken' = Taken
      BY <2>2, <2>4, <2>8
    <3> QED
      BY <2>8, <3>1, <3>2 DEF Log!Forget
  <2> QED
    BY <1>2, <2>5, <2>6, <2>7, <2>8, LogSteps DEF Log!LogNext
<1> QED
  BY <1>1, <1>2, InvHolds, PTL DEF Spec, ImplementsReplayLog, Log!LogSpec

\* The rounded percentage of a part of fewer than 200 stays below 100 while
\* something is missing.
LEMMA RoundedBelow ==
  ASSUME NEW done \in Nat, NEW total \in Nat, done < total, total < 200
  PROVE  (200 * done + total) \div (2 * total) < 100
<1> DEFINE a == 200 * done + total
           b == 2 * total
           q == a \div b
<1>1. a \in Nat /\ b \in Nat /\ b > 0
  OBVIOUS
<1>2. a < 100 * b
  OBVIOUS
<1> HIDE DEF a, b
<1>3. q \in Int /\ b * q <= a
  BY <1>1
<1> HIDE DEF q
<1>4. q >= 100 => b * q >= b * 100
  BY <1>1, <1>3
<1>5. q < 100
  BY <1>1, <1>2, <1>3, <1>4
<1> QED
  BY <1>5 DEF q, a, b

\* On a board of fewer than 200 classes the figures agree: the coverage shown is
\* 100 % only when no class waits to be checked.  From 200 classes on, one missing
\* class is rounded away (web/checker.py floor_rows).
THEOREM BoardFiguresAgree ==
  ASSUME IsFiniteSet(Classes), Cardinality(Classes) < 200
  PROVE  Spec => []BoardAgrees
<1>1. ASSUME NEW c \in Checkers, NEW k \in board_queue(c)
      PROVE  coverage(c) < 100 /\ card_state(k) # "verified"
  <2> DEFINE total == Cardinality(board(c))
             sure  == {j \in board(c) : verified_by_checker(j)}
             done  == Cardinality(sure)
  <2>1. k \in board(c) /\ ~verified_by_checker(k)
    BY DEF board_queue
  <2>2. board(c) \subseteq Classes
    BY DEF board
  <2>3. IsFiniteSet(board(c)) /\ total < 200 /\ total \in Nat
    BY <2>2, FS_Subset, FS_CardinalityType
  <2>4. sure \subseteq board(c) /\ sure # board(c)
    BY <2>1
  <2>5. done \in Nat /\ done < total
    BY <2>3, <2>4, FS_Subset, FS_CardinalityType
  <2>6. coverage(c) = IF total = 0 THEN 100 ELSE (200 * done + total) \div (2 * total)
    BY DEF coverage
  <2> HIDE DEF total, done, sure
  <2>7. coverage(c) < 100
    BY <2>3, <2>5, <2>6, RoundedBelow
  <2>8. card_state(k) # "verified"
    BY <2>1 DEF card_state, verified_by_checker
  <2> QED
    BY <2>7, <2>8
<1>2. BoardAgrees
  BY <1>1 DEF BoardAgrees
<1> QED
  BY <1>2, PTL
=============================================================================
