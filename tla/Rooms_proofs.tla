---------------------------- MODULE Rooms_proofs ----------------------------
(***************************************************************************)
(* Proofs about Rooms, for every set of classes, rooms, slots, requests    *)
(* and workers: the rows stay well formed, a request is decided once, no   *)
(* session carries an unapproved request, and an approval takes no room    *)
(* that an earlier one has reserved.                                       *)
(***************************************************************************)
EXTENDS Rooms, WellFoundedInduction, TLAPS

-----------------------------------------------------------------------------
(***************************************************************************)
(* Type correctness.                                                       *)
(***************************************************************************)
\* TypeOK is not inductive: what an approval writes was worked out when it took
\* its locks.  It is alone behind the term lock, its request is still pending,
\* the rows it listed are there, and it goes through only with a room for each.
ApprovalInv ==
  /\ \A p, q \in Procs : proc[p].pc = "approve" /\ proc[q].pc = "approve" => p = q
  /\ \A p \in Procs : proc[p].pc = "approve" =>
       /\ ticket[proc[p].ticket].status = "pending"
       /\ \A x \in proc[p].listed : sess[x] # None
       /\ proc[p].result.ok /\ ticket[proc[p].ticket].target = "f2f" =>
            \A x \in proc[p].listed : proc[p].result.at[x] # None

\* The session the materializer is finishing is on file, and the decisions are
\* numbered in the order they were made (a request goes in undecided).
OrderInv ==
  /\ job # None => sess[job] # None
  /\ \A r \in Tickets : ticket[r].order <= decisions
  /\ \A p \in Procs : proc[p].pc = "submit" => proc[p].row.order = 0

TypeInv == TypeOK /\ ApprovalInv /\ OrderInv

\* A request starts as a row of its table, and so does a session.
LEMMA NewRows ==
  /\ NoTicket \in Ticket
  /\ \A m \in Rooms, s \in Slots : NewSession(m, s) \in SessionRow
BY AvailabilityAssumption, RowShapes DEF NoTicket, Ticket, NewSession, SessionRow, Dates

\* The updates the code makes on a session row keep its type.
LEMMA RowUpdates ==
  ASSUME NEW s \in SessionRow, NEW r \in Tickets, NEW m \in Rooms, NEW t \in Slots
  PROVE  /\ [s EXCEPT !.declared = "online", !.released = TRUE, !.by = r] \in SessionRow
         /\ [s EXCEPT !.declared = "f2f", !.by = r] \in SessionRow
         /\ [s EXCEPT !.room = m, !.declared = "f2f", !.by = r] \in SessionRow
         /\ [s EXCEPT !.room = m, !.declared = "f2f", !.slot = t, !.by = r] \in SessionRow
         /\ [s EXCEPT !.declared = "f2f", !.by = r, !.room = m, !.slot = t] \in SessionRow
         /\ [s EXCEPT !.room = m, !.slot = t] \in SessionRow
         /\ \A st \in {"active", "closed"} : [s EXCEPT !.status = st] \in SessionRow
BY DEF SessionRow

\* A decision is stamped on a ticket.
LEMMA DecidedType ==
  ASSUME TypeOK, NEW r \in Tickets, NEW st \in {"rejected", "approved", "denied"},
         NEW room \in [Classes -> Rooms \cup {None}]
  PROVE  /\ Decided(r, st, room) \in [Tickets -> Ticket]
         /\ Decided(r, st, room)[r].status = st
         /\ \A q \in Tickets \ {r} : Decided(r, st, room)[q] = ticket[q]
<1>1. ticket[r] \in Ticket /\ today \in Nat /\ decisions + 1 \in Nat
  BY AvailabilityAssumption DEF TypeOK, Dates
<1>2. [ticket[r] EXCEPT !.status = st, !.room = room, !.day = today, !.order = decisions + 1]
        \in Ticket
  BY <1>1 DEF Ticket
<1>3. [ticket[r] EXCEPT !.status = st, !.room = room, !.day = today,
                        !.order = decisions + 1].status = st
  BY <1>1 DEF Ticket
<1> QED
  BY <1>2, <1>3 DEF TypeOK, Decided

\* What a worker holds is known from its pc.
LEMMA HeldByPc ==
  ASSUME TypeOK, NEW p \in Procs
  PROVE  /\ proc[p].pc = "submit" => proc[p].row \in Ticket
         /\ proc[p].pc = "book" => proc[p].row \in BookingRow
         /\ proc[p].pc = "edit" => proc[p].edit \in Edits
         /\ proc[p].pc = "approve" =>
              /\ proc[p].ticket \in Tickets /\ proc[p].listed \subseteq Occurrences
              /\ proc[p].result.ok \in BOOLEAN
              /\ proc[p].result.at \in [proc[p].listed -> Rooms \cup {None}]
              /\ proc[p].result.room \in [Classes -> Rooms \cup {None}]
<1>1. Holds(proc[p])
  BY DEF TypeOK
<1> QED
  BY <1>1 DEF Holds, Idle

\* One worker's record changes to a well-formed one.
LEMMA ProcStep ==
  ASSUME TypeOK, NEW p \in Procs, NEW w, Holds(w), proc' = [proc EXCEPT ![p] = w]
  PROVE  DOMAIN proc' = Procs /\ \A q \in Procs : Holds(proc'[q])
BY DEF TypeOK

LEMMA IdleHolds == Holds(Idle)
BY DEF Holds

\* A set of naturals has a least member.
LEMMA LeastNatural ==
  ASSUME NEW T \in SUBSET Nat, T # {}
  PROVE  \E n \in T : \A k \in T : n <= k
<1>1. PICK n \in T : \A k \in T : <<k, n>> \notin OpToRel(<, Nat)
  BY WFMin, NatLessThanWellFounded
<1>2. OpToRel(<, Nat) = {ss \in Nat \X Nat : ss[1] < ss[2]}
  BY DEF OpToRel
<1>3. \A k \in T : ~(k < n)
  BY <1>1, <1>2
<1> QED
  BY <1>3

\* A decision's listing, and the rooms found for it.
LEMMA PlacementType ==
  ASSUME TypeOK, NEW r \in Tickets, NEW xs \in SUBSET Occurrences,
         NEW at \in placements(r, xs)
  PROVE  /\ at \in [xs -> Rooms \cup {None}]
         /\ apply_f2f(r, at).room \in [Classes -> Rooms \cup {None}]
<1>1. at \in [xs -> Rooms \cup {None}]
  BY DEF placements
<1>2. ticket[r].room \in [Classes -> Rooms \cup {None}]
  BY DEF TypeOK, Ticket
<1>3. ASSUME NEW c \in Classes, NEW mine, mine = {x \in DOMAIN at : x[1] = c}, mine # {}
      PROVE  at[CHOOSE x \in mine : \A y \in mine : y[2] <= x[2]] \in Rooms \cup {None}
  <2> DEFINE date == {x[2] : x \in mine}
  <2>1. mine \subseteq Occurrences /\ mine \subseteq xs
    BY <1>1, <1>3
  <2>2. \A x \in mine : x[2] \in 1..MaxDate
    BY <2>1 DEF Occurrences, Dates
  <2>3. {MaxDate - x[2] : x \in mine} \in SUBSET Nat /\ {MaxDate - x[2] : x \in mine} # {}
    BY <2>2, <1>3, AvailabilityAssumption
  <2>4. PICK n \in {MaxDate - x[2] : x \in mine} :
          \A k \in {MaxDate - x[2] : x \in mine} : n <= k
    BY <2>3, LeastNatural
  <2>5. PICK x \in mine : n = MaxDate - x[2]
    BY <2>4
  <2>6. \A y \in mine : y[2] <= x[2]
    <3> TAKE y \in mine
    <3>1. MaxDate - x[2] <= MaxDate - y[2]
      BY <2>4, <2>5
    <3> QED
      BY <3>1, <2>2, AvailabilityAssumption
  <2>7. (CHOOSE z \in mine : \A y \in mine : y[2] <= z[2]) \in mine
    BY <2>6
  <2> QED
    BY <2>7, <2>1, <1>1
<1>4. apply_f2f(r, at).room = [c \in Classes |->
               LET mine == {x \in DOMAIN at : x[1] = c}
               IN  IF mine = {} THEN ticket[r].room[c]
                   ELSE at[CHOOSE x \in mine : \A y \in mine : y[2] <= x[2]]]
  BY DEF apply_f2f
<1>5. ASSUME NEW c \in Classes PROVE apply_f2f(r, at).room[c] \in Rooms \cup {None}
  <2> DEFINE mine == {x \in DOMAIN at : x[1] = c}
  <2>1. apply_f2f(r, at).room[c] =
          IF mine = {} THEN ticket[r].room[c]
          ELSE at[CHOOSE x \in mine : \A y \in mine : y[2] <= x[2]]
    BY <1>4
  <2>2. CASE mine = {}
    BY <2>1, <2>2, <1>2
  <2>3. CASE mine # {}
    <3> HIDE DEF mine
    <3>1. at[CHOOSE x \in mine : \A y \in mine : y[2] <= x[2]] \in Rooms \cup {None}
      BY <1>3, <2>3 DEF mine
    <3> QED
      BY <2>1, <2>3, <3>1
  <2> QED
    BY <2>2, <2>3
<1> QED
  BY <1>1, <1>4, <1>5

LEMMA RequestType ==
  ASSUME TypeOK, NEW p \in Procs, Requesting(p)
  PROVE  TypeOK'
<1>1. ASSUME NEW ask \in Asks, NEW win \in Windows, submit_check(p, ask, win)
      PROVE  TypeOK'
  <2>1. win[1] \in Dates /\ win[2] \in Dates
    BY AvailabilityAssumption DEF Windows, Dates, TypeOK
  <2>2. ask \in [classes : SUBSET Classes, target : {"f2f", "online"},
                 slot : Slots \cup {None}, prefer : Rooms \cup {None}]
    BY RowShapes
  <2>3. \A kept \in {ask.prefer, None} :
          [NoTicket EXCEPT !.status = "pending", !.classes = ask.classes,
             !.target = ask.target, !.from = win[1], !.to = win[2], !.slot = ask.slot,
             !.prefer = kept] \in Ticket
    BY <2>1, <2>2, NewRows DEF Ticket
  <2>4. PICK kept \in {ask.prefer, None} : proc' = [proc EXCEPT ![p] =
          [pc |-> "submit", row |-> [NoTicket EXCEPT !.status = "pending",
             !.classes = ask.classes, !.target = ask.target, !.from = win[1],
             !.to = win[2], !.slot = ask.slot, !.prefer = kept]]]
    BY <1>1, Zenon DEF submit_check
  <2> DEFINE row == [NoTicket EXCEPT !.status = "pending",
             !.classes = ask.classes, !.target = ask.target, !.from = win[1],
             !.to = win[2], !.slot = ask.slot, !.prefer = kept]
  <2>5. row \in Ticket
    BY <2>3
  <2> HIDE DEF row
  <2>6. Holds([pc |-> "submit", row |-> row])
    BY <2>5 DEF Holds
  <2>7. DOMAIN proc' = Procs /\ \A q \in Procs : Holds(proc'[q])
    BY <2>4, <2>6, ProcStep DEF row
  <2> QED
    BY <1>1, <2>7 DEF submit_check, TypeOK
<1>2. CASE submit_commit(p)
  <2>1. ticket' \in [Tickets -> Ticket]
    BY <1>2, HeldByPc DEF submit_commit, TypeOK
  <2>2. DOMAIN proc' = Procs /\ \A q \in Procs : Holds(proc'[q])
    BY <1>2, IdleHolds, ProcStep DEF submit_commit
  <2> QED
    BY <1>2, <2>1, <2>2 DEF submit_commit, TypeOK
<1> QED
  BY <1>1, <1>2 DEF Requesting

\* An approval that takes its locks: what it will hold, ...
LEMMA ApproveHolds ==
  ASSUME TypeOK, NEW p \in Procs, NEW r \in Tickets, approve(p, r)
  PROVE  \E xs, result :
           /\ xs \in SUBSET Occurrences /\ xs = in_window_sessions(sess, ticket[r].classes, ticket[r].from, ticket[r].to)
           /\ result \in IF ticket[r].target = "online" THEN {apply_online(r, xs)}
                         ELSE {apply_f2f(r, at) : at \in placements(r, xs)}
           /\ proc' = [proc EXCEPT ![p] =
                [pc |-> "approve", ticket |-> r, listed |-> xs, result |-> result]]
           /\ Holds([pc |-> "approve", ticket |-> r, listed |-> xs, result |-> result])
           /\ result.ok /\ ticket[r].target = "f2f" => \A x \in xs : result.at[x] # None
<1> DEFINE xs == in_window_sessions(sess, ticket[r].classes, ticket[r].from, ticket[r].to)
<1>1. xs \in SUBSET Occurrences
  BY DEF in_window_sessions
<1>2. PICK result \in IF ticket[r].target = "online" THEN {apply_online(r, xs)}
                      ELSE {apply_f2f(r, at) : at \in placements(r, xs)} :
        proc' = [proc EXCEPT ![p] =
          [pc |-> "approve", ticket |-> r, listed |-> xs, result |-> result]]
  BY DEF approve
<1> HIDE DEF xs
<1>3. /\ result \in [ok : BOOLEAN, at : [xs -> Rooms \cup {None}],
                     room : [Classes -> Rooms \cup {None}]]
      /\ result.ok /\ ticket[r].target = "f2f" => \A x \in xs : result.at[x] # None
  <2>1. CASE ticket[r].target = "online"
    <3>1. result = [ok |-> TRUE, at |-> [x \in xs |-> None], room |-> ticket[r].room]
      BY <1>2, <2>1 DEF apply_online
    <3>2. ticket[r].room \in [Classes -> Rooms \cup {None}]
      BY DEF TypeOK, Ticket
    <3>3. [x \in xs |-> None] \in [xs -> Rooms \cup {None}]
      OBVIOUS
    <3> QED
      BY <2>1, <3>1, <3>2, <3>3
  <2>2. CASE ticket[r].target # "online"
    <3>1. PICK at \in placements(r, xs) : result = apply_f2f(r, at)
      BY <1>2, <2>2
    <3>2. /\ at \in [xs -> Rooms \cup {None}]
          /\ apply_f2f(r, at).room \in [Classes -> Rooms \cup {None}]
      BY <1>1, PlacementType
    <3> DEFINE ok == \A x \in DOMAIN at : at[x] # None /\ ~double_books(r, at, x)
               room == apply_f2f(r, at).room
    <3>3. /\ ok \in BOOLEAN
          /\ ok => \A x \in DOMAIN at : at[x] # None
          /\ apply_f2f(r, at) = [ok |-> ok, at |-> at, room |-> room]
      BY DEF apply_f2f
    <3> HIDE DEF ok, room
    <3>4. result = [ok |-> ok, at |-> at, room |-> room]
      BY <3>1, <3>3
    <3>5. room \in [Classes -> Rooms \cup {None}]
      BY <3>2 DEF room
    <3>6. DOMAIN at = xs
      BY <3>2
    <3> QED
      BY <3>2, <3>3, <3>4, <3>5, <3>6
  <2> QED
    BY <2>1, <2>2
<1>4. Holds([pc |-> "approve", ticket |-> r, listed |-> xs, result |-> result])
  BY <1>1, <1>3 DEF Holds
<1> QED
  BY <1>1, <1>2, <1>3, <1>4 DEF xs

\* ... and the rows it writes when it commits.
LEMMA AppliedType ==
  ASSUME TypeInv, NEW p \in Procs, proc[p].pc = "approve", proc[p].result.ok
  PROVE  /\ Applied(proc[p]) \in [Occurrences -> SessionRow \cup {None}]
         /\ \A x \in Occurrences : sess[x] # None => Applied(proc[p])[x] # None
         /\ \A x \in Occurrences : Applied(proc[p])[x] # None =>
              Applied(proc[p])[x].by \in {sess[x].by, proc[p].ticket} /\ sess[x] # None
<1> DEFINE w == proc[p]
           t == ticket[w.ticket]
<1>1. /\ w.ticket \in Tickets /\ w.listed \subseteq Occurrences
      /\ w.result.at \in [w.listed -> Rooms \cup {None}]
      /\ t.target \in {"f2f", "online"} /\ t.slot \in Slots \cup {None}
  BY HeldByPc DEF TypeInv, TypeOK, Ticket
<1>2. ASSUME NEW x \in Occurrences
      PROVE  LET new == Applied(w)[x]
             IN  /\ new \in SessionRow \cup {None}
                 /\ sess[x] # None => new # None
                 /\ new # None => new.by \in {sess[x].by, w.ticket} /\ sess[x] # None
  <2>1. CASE x \notin w.listed
    BY <2>1 DEF Applied, TypeInv, TypeOK
  <2>2. CASE x \in w.listed
    <3>1. sess[x] \in SessionRow /\ sess[x] # None
      BY <2>2 DEF TypeInv, TypeOK, ApprovalInv
    <3>2. t.target = "f2f" => w.result.at[x] \in Rooms
      BY <1>1, <2>2 DEF TypeInv, ApprovalInv
    <3>3. Applied(w)[x] =
            IF t.target = "online"
            THEN [sess[x] EXCEPT !.declared = "online", !.released = TRUE, !.by = w.ticket]
            ELSE IF t.slot # None
            THEN [sess[x] EXCEPT !.room = w.result.at[x], !.declared = "f2f",
                                 !.slot = t.slot, !.by = w.ticket]
            ELSE [sess[x] EXCEPT !.room = w.result.at[x], !.declared = "f2f", !.by = w.ticket]
      BY <2>2 DEF Applied
    <3> HIDE DEF w, t
    <3>4. Applied(w)[x] \in SessionRow
      <4>1. CASE t.target = "online"
        <5>1. [sess[x] EXCEPT !.declared = "online", !.released = TRUE, !.by = w.ticket]
                \in SessionRow
          BY <1>1, <3>1 DEF SessionRow
        <5> QED
          BY <5>1, <4>1, <3>3
      <4>2. CASE t.target # "online" /\ t.slot # None
        <5>1. t.slot \in Slots /\ w.result.at[x] \in Rooms
          BY <1>1, <3>2, <4>2
        <5>2. [sess[x] EXCEPT !.room = w.result.at[x], !.declared = "f2f",
                              !.slot = t.slot, !.by = w.ticket] \in SessionRow
          BY <5>1, <1>1, <3>1, RowUpdates
        <5> QED
          BY <5>2, <4>2, <3>3
      <4>3. CASE t.target # "online" /\ t.slot = None
        <5>1. w.result.at[x] \in Rooms
          BY <1>1, <3>2, <4>3
        <5>2. [sess[x] EXCEPT !.room = w.result.at[x], !.declared = "f2f", !.by = w.ticket]
                \in SessionRow
          BY <5>1, <1>1, <3>1 DEF SessionRow
        <5> QED
          BY <5>2, <4>3, <3>3
      <4> QED
        BY <4>1, <4>2, <4>3
    <3>5. Applied(w)[x].by = w.ticket
      BY <1>1, <3>1, <3>3 DEF SessionRow
    <3> QED
      BY <3>1, <3>4, <3>5, RowShapes
  <2> QED
    BY <2>1, <2>2
<1> QED
  BY <1>2 DEF Applied

\* An approval in progress keeps what it relies on through any step that leaves
\* its worker and its request alone and deletes no session.
LEMMA ApprovalKept ==
  ASSUME TypeInv,
         \A q \in Procs : proc'[q].pc = "approve" => proc'[q] = proc[q],
         \A q \in Procs : proc[q].pc = "approve" =>
           ticket'[proc[q].ticket] = ticket[proc[q].ticket],
         \A x \in Occurrences : sess[x] # None => sess'[x] # None
  PROVE  ApprovalInv'
<1>1. \A q \in Procs : proc[q].pc = "approve" => proc[q].listed \subseteq Occurrences
  BY HeldByPc DEF TypeInv
<1>2. ASSUME NEW q \in Procs, proc'[q].pc = "approve"
      PROVE  /\ ticket[proc[q].ticket].status = "pending"
             /\ \A x \in proc[q].listed : sess[x] # None
             /\ proc[q].result.ok /\ ticket[proc[q].ticket].target = "f2f" =>
                  \A x \in proc[q].listed : proc[q].result.at[x] # None
             /\ proc'[q] = proc[q] /\ proc[q].pc = "approve"
             /\ ticket'[proc[q].ticket] = ticket[proc[q].ticket]
  BY <1>2 DEF TypeInv, ApprovalInv
<1>3. \A q \in Procs : proc'[q].pc = "approve" =>
        /\ ticket'[proc'[q].ticket].status = "pending"
        /\ \A x \in proc'[q].listed : sess'[x] # None
        /\ proc'[q].result.ok /\ ticket'[proc'[q].ticket].target = "f2f" =>
             \A x \in proc'[q].listed : proc'[q].result.at[x] # None
  BY <1>1, <1>2
<1>4. \A q, s \in Procs : proc'[q].pc = "approve" /\ proc'[s].pc = "approve" => q = s
  BY <1>2 DEF TypeInv, ApprovalInv
<1> QED
  BY <1>3, <1>4 DEF ApprovalInv

\* The numbering is kept by a step that decides nothing.
LEMMA OrderKept ==
  ASSUME TypeInv, decisions' = decisions,
         \A r \in Tickets : ticket'[r].order <= decisions,
         \A q \in Procs : proc'[q].pc = "submit" => proc'[q] = proc[q],
         job' = job \/ job' = None,
         \A x \in Occurrences : sess[x] # None => sess'[x] # None
  PROVE  OrderInv'
<1>1. job \in Occurrences \cup {None}
  BY DEF TypeInv, TypeOK
<1>2. job' # None => sess'[job'] # None
  BY <1>1 DEF TypeInv, OrderInv
<1>3. \A q \in Procs : proc'[q].pc = "submit" => proc'[q].row.order = 0
  BY DEF TypeInv, OrderInv
<1> QED
  BY <1>2, <1>3 DEF OrderInv

\* A worker that moves on to a pc of another kind.
LEMMA Elsewhere ==
  ASSUME TypeOK, NEW p \in Procs, NEW w, proc' = [proc EXCEPT ![p] = w]
  PROVE  /\ \A q \in Procs : q # p => proc'[q] = proc[q]
         /\ proc'[p] = w
BY DEF TypeOK

\* A worker that is done, or has given up.
LEMMA IdleStep ==
  ASSUME TypeOK, NEW p \in Procs, proc' = [proc EXCEPT ![p] = Idle]
  PROVE  /\ DOMAIN proc' = Procs /\ \A q \in Procs : Holds(proc'[q])
         /\ \A q \in Procs : q # p => proc'[q] = proc[q]
         /\ proc'[p].pc = "idle"
<1>1. proc'[p] = Idle /\ \A q \in Procs : q # p => proc'[q] = proc[q]
  BY DEF TypeOK
<1>2. Idle.pc = "idle"
  BY DEF Idle
<1>3. DOMAIN proc' = Procs /\ \A q \in Procs : Holds(proc'[q])
  BY <1>1, IdleHolds DEF TypeOK
<1> QED
  BY <1>1, <1>2, <1>3

LEMMA RequestStep ==
  ASSUME TypeInv, NEW p \in Procs, Requesting(p)
  PROVE  TypeInv'
<1>1. TypeOK'
  BY RequestType DEF TypeInv
<1>2. ASSUME NEW ask \in Asks, NEW win \in Windows, submit_check(p, ask, win)
      PROVE  ApprovalInv' /\ OrderInv'
  <2>1. PICK kept : proc' = [proc EXCEPT ![p] =
          [pc |-> "submit", row |-> [NoTicket EXCEPT !.status = "pending",
             !.classes = ask.classes, !.target = ask.target, !.from = win[1],
             !.to = win[2], !.slot = ask.slot, !.prefer = kept]]]
    BY <1>2, Zenon DEF submit_check
  <2> DEFINE row == [NoTicket EXCEPT !.status = "pending",
             !.classes = ask.classes, !.target = ask.target, !.from = win[1],
             !.to = win[2], !.slot = ask.slot, !.prefer = kept]
  <2>2. row.order = 0
    BY DEF NoTicket
  <2> HIDE DEF row
  <2>3. /\ \A q \in Procs : q # p => proc'[q] = proc[q]
        /\ proc'[p] = [pc |-> "submit", row |-> row]
    BY <2>1, Elsewhere DEF row, TypeInv
  <2>4. proc'[p].pc = "submit" /\ proc'[p].row.order = 0
    BY <2>2, <2>3
  <2>5. UNCHANGED <<ticket, sess, decisions, job>>
    BY <1>2 DEF submit_check
  <2>6. ApprovalInv'
    BY <2>3, <2>4, <2>5, ApprovalKept
  <2>7. OrderInv'
    BY <2>3, <2>4, <2>5 DEF OrderInv, TypeInv
  <2> QED
    BY <2>6, <2>7
<1>3. CASE submit_commit(p)
  <2>1. /\ \A q \in Procs : q # p => proc'[q] = proc[q]
        /\ proc'[p].pc = "idle"
    BY <1>3, IdleStep DEF submit_commit, TypeInv
  <2>2. UNCHANGED <<sess, decisions, job>>
    BY <1>3 DEF submit_commit
  <2>3. \A q \in Procs : proc[q].pc # "approve"
    BY <1>3 DEF submit_commit, TermFree
  <2>4. ApprovalInv'
    BY <2>1, <2>2, <2>3, ApprovalKept
  <2>5. PICK r \in Tickets : ticket' = [ticket EXCEPT ![r] = proc[p].row]
    BY <1>3 DEF submit_commit
  <2>6. proc[p].row.order = 0 /\ decisions \in Nat
    BY <1>3 DEF submit_commit, TypeInv, OrderInv, TypeOK
  <2>7. \A q \in Tickets : ticket'[q].order <= decisions
    BY <2>5, <2>6 DEF TypeInv, TypeOK, OrderInv
  <2>8. OrderInv'
    BY <2>1, <2>2, <2>7, OrderKept
  <2> QED
    BY <1>1, <2>4, <2>8 DEF TypeInv
<1> QED
  BY <1>1, <1>2, <1>3 DEF Requesting, TypeInv

\* The steps of an approval.
LEMMA ApproveStep ==
  ASSUME TypeInv, NEW p \in Procs, NEW r \in Tickets, approve(p, r)
  PROVE  TypeInv'
<1>1. PICK xs, result :
           /\ xs \in SUBSET Occurrences /\ xs = in_window_sessions(sess, ticket[r].classes, ticket[r].from, ticket[r].to)
           /\ result \in IF ticket[r].target = "online" THEN {apply_online(r, xs)}
                         ELSE {apply_f2f(r, at) : at \in placements(r, xs)}
           /\ proc' = [proc EXCEPT ![p] =
                [pc |-> "approve", ticket |-> r, listed |-> xs, result |-> result]]
           /\ Holds([pc |-> "approve", ticket |-> r, listed |-> xs, result |-> result])
           /\ result.ok /\ ticket[r].target = "f2f" => \A x \in xs : result.at[x] # None
  BY ApproveHolds DEF TypeInv
<1> DEFINE w == [pc |-> "approve", ticket |-> r, listed |-> xs, result |-> result]
<1>2. UNCHANGED <<today, schedule, sess, ticket, booking, decisions, job>>
  BY DEF approve
<1>3. DOMAIN proc' = Procs /\ \A q \in Procs : Holds(proc'[q])
  BY <1>1, ProcStep DEF TypeInv
<1>4. TypeOK'
  BY <1>2, <1>3 DEF TypeOK, TypeInv
<1>5. /\ \A q \in Procs : q # p => proc'[q] = proc[q] /\ proc[q].pc # "approve"
      /\ proc'[p] = w
  BY <1>1, Elsewhere DEF TypeInv, approve, TermFree
<1>6. ticket[r].status = "pending" /\ \A x \in xs : sess[x] # None
  BY <1>1 DEF approve, StillPending, in_window_sessions, Open
<1>7. ApprovalInv'
  BY <1>1, <1>2, <1>5, <1>6 DEF ApprovalInv
<1>8. OrderInv'
  BY <1>2, <1>5 DEF OrderInv, TypeInv
<1> QED
  BY <1>4, <1>7, <1>8 DEF TypeInv

LEMMA DecidedStep ==
  ASSUME TypeInv, NEW r \in Tickets, NEW st \in {"rejected", "approved", "denied"},
         NEW room \in [Classes -> Rooms \cup {None}],
         ticket' = Decided(r, st, room), decisions' = decisions + 1
  PROVE  /\ ticket' \in [Tickets -> Ticket] /\ decisions' \in Nat
         /\ ticket'[r].status = st
         /\ \A q \in Tickets \ {r} : ticket'[q] = ticket[q]
         /\ \A q \in Tickets : ticket'[q].order <= decisions'
<1>1. /\ ticket' \in [Tickets -> Ticket]
      /\ ticket'[r].status = st
      /\ \A q \in Tickets \ {r} : ticket'[q] = ticket[q]
  BY DecidedType DEF TypeInv
<1>2. decisions \in Nat /\ decisions' \in Nat /\ decisions <= decisions'
  BY DEF TypeInv, TypeOK
<1>3. ticket'[r].order = decisions'
  BY DEF TypeInv, TypeOK, Decided, Ticket
<1>4. ASSUME NEW q \in Tickets PROVE ticket'[q].order <= decisions'
  <2>1. ticket[q].order <= decisions /\ ticket[q].order \in Nat
    BY DEF TypeInv, TypeOK, OrderInv, Ticket
  <2> QED
    BY <1>1, <1>2, <1>3, <2>1
<1> QED
  BY <1>1, <1>2, <1>4

LEMMA CommitStep ==
  ASSUME TypeInv, NEW p \in Procs, approve_commit(p)
  PROVE  /\ TypeInv'
         /\ \E st \in {"approved", "denied"} :
              /\ ticket'[proc[p].ticket].status = st
              /\ st = "approved" => sess' = Applied(proc[p]) /\ proc[p].result.ok
              /\ st = "denied" => sess' = sess
         /\ \A q \in Tickets \ {proc[p].ticket} : ticket'[q] = ticket[q]
<1> DEFINE w == proc[p]
           r == proc[p].ticket
<1>1. /\ w.pc = "approve" /\ r \in Tickets /\ w.listed \subseteq Occurrences
      /\ w.result.ok \in BOOLEAN /\ w.result.room \in [Classes -> Rooms \cup {None}]
      /\ ticket[r].room \in [Classes -> Rooms \cup {None}]
  BY HeldByPc DEF approve_commit, TypeInv, TypeOK, Ticket
<1>2. PICK st \in {"approved", "denied"}, room \in [Classes -> Rooms \cup {None}] :
        /\ ticket' = Decided(r, st, room)
        /\ st = "approved" => w.result.ok /\ sess' = Applied(w)
        /\ st = "denied" => sess' = sess
  BY <1>1, Zenon DEF approve_commit
<1>3. /\ decisions' = decisions + 1 /\ proc' = [proc EXCEPT ![p] = Idle]
      /\ UNCHANGED <<today, schedule, booking, job>>
  BY DEF approve_commit
<1>4. /\ ticket' \in [Tickets -> Ticket] /\ decisions' \in Nat
      /\ ticket'[r].status = st
      /\ \A q \in Tickets \ {r} : ticket'[q] = ticket[q]
      /\ \A q \in Tickets : ticket'[q].order <= decisions'
  BY <1>1, <1>2, <1>3, DecidedStep
<1>5. /\ sess' \in [Occurrences -> SessionRow \cup {None}]
      /\ \A x \in Occurrences : sess[x] # None => sess'[x] # None
  BY <1>1, <1>2, AppliedType DEF TypeInv, TypeOK
<1>6. DOMAIN proc' = Procs /\ \A q \in Procs : Holds(proc'[q])
  BY <1>3, IdleStep DEF TypeInv
<1>7. TypeOK'
  BY <1>3, <1>4, <1>5, <1>6 DEF TypeOK, TypeInv
<1>8. /\ \A q \in Procs : q # p => proc'[q] = proc[q] /\ proc[q].pc # "approve"
      /\ proc'[p].pc = "idle"
  BY <1>1, <1>3, IdleStep DEF TypeInv, ApprovalInv
<1>9. ApprovalInv'
  BY <1>8 DEF ApprovalInv
<1>10. job \in Occurrences \cup {None} /\ (job # None => sess[job] # None)
  BY DEF TypeInv, TypeOK, OrderInv
<1>11. OrderInv'
  BY <1>3, <1>4, <1>5, <1>8, <1>10 DEF OrderInv, TypeInv
<1> QED
  BY <1>2, <1>4, <1>7, <1>9, <1>11 DEF TypeInv

\* Steps that change no request, no decision, and no worker except one that may
\* become idle.
LEMMA TablesStep ==
  ASSUME TypeInv, UNCHANGED <<ticket, decisions>>,
         \/ proc' = proc
         \/ \E p \in Procs : proc' = [proc EXCEPT ![p] = Idle],
         job' = job \/ job' = None, today' \in Dates,
         schedule' \in [Classes -> [room : Rooms, slot : Slots]],
         booking' \in [Bookings -> BookingRow],
         sess' \in [Occurrences -> SessionRow \cup {None}],
         \A x \in Occurrences : sess[x] # None => sess'[x] # None
  PROVE  TypeInv'
<1>1. /\ DOMAIN proc' = Procs /\ \A q \in Procs : Holds(proc'[q])
      /\ \A q \in Procs : proc'[q] = proc[q] \/ proc'[q].pc = "idle"
  <2>1. CASE proc' = proc
    BY <2>1 DEF TypeInv, TypeOK
  <2>2. CASE \E p \in Procs : proc' = [proc EXCEPT ![p] = Idle]
    BY <2>2, IdleStep DEF TypeInv
  <2> QED
    BY <2>1, <2>2
<1>2. TypeOK'
  BY <1>1 DEF TypeInv, TypeOK
<1>3. ApprovalInv'
  BY <1>1, ApprovalKept
<1>4. \A r \in Tickets : ticket'[r].order <= decisions
  BY DEF TypeInv, OrderInv
<1>5. OrderInv'
  BY <1>1, <1>4, OrderKept
<1> QED
  BY <1>2, <1>3, <1>5 DEF TypeInv

\* Steps by which a worker takes up a booking or an edit.
LEMMA TakeUpStep ==
  ASSUME TypeInv, NEW p \in Procs, NEW w, Holds(w), w.pc \in {"book", "edit"},
         proc' = [proc EXCEPT ![p] = w],
         UNCHANGED <<today, schedule, sess, ticket, booking, decisions, job>>
  PROVE  TypeInv'
<1>1. DOMAIN proc' = Procs /\ \A q \in Procs : Holds(proc'[q])
  BY ProcStep DEF TypeInv
<1>2. \A q \in Procs : proc'[q] = proc[q] \/ proc'[q].pc \in {"book", "edit"}
  BY Elsewhere DEF TypeInv
<1>3. TypeOK'
  BY <1>1 DEF TypeInv, TypeOK
<1>4. ApprovalInv'
  BY <1>2, ApprovalKept
<1>5. OrderInv'
  BY <1>2 DEF TypeInv, OrderInv
<1> QED
  BY <1>3, <1>4, <1>5 DEF TypeInv

LEMMA DeskStep ==
  ASSUME TypeInv, NEW p \in Procs, Desk(p)
  PROVE  TypeInv'
<1>0. /\ today \in Dates /\ schedule \in [Classes -> [room : Rooms, slot : Slots]]
      /\ sess \in [Occurrences -> SessionRow \cup {None}]
      /\ booking \in [Bookings -> BookingRow]
  BY DEF TypeInv, TypeOK
<1>1. ASSUME NEW b \in Wants, booking_check(p, b) PROVE TypeInv'
  <2> DEFINE row == [status |-> "active", room |-> b.room, date |-> b.date, slot |-> b.slot]
  <2>1. row \in BookingRow
    BY RowShapes DEF BookingRow
  <2>2. proc' = [proc EXCEPT ![p] = [pc |-> "book", row |-> row]]
    BY <1>1 DEF booking_check
  <2> HIDE DEF row
  <2> DEFINE w == [pc |-> "book", row |-> row]
  <2>3. Holds(w) /\ w.pc = "book"
    BY <2>1 DEF Holds
  <2>4. UNCHANGED <<today, schedule, sess, ticket, booking, decisions, job>>
    BY <1>1 DEF booking_check
  <2>5. proc' = [proc EXCEPT ![p] = w]
    BY <2>2
  <2> HIDE DEF w
  <2> QED
    BY <2>3, <2>4, <2>5, TakeUpStep
<1>2. CASE booking_create(p)
  <2>1. booking' \in [Bookings -> BookingRow]
    BY <1>0, <1>2, HeldByPc DEF booking_create, TypeInv
  <2>2. /\ proc' = [proc EXCEPT ![p] = Idle]
        /\ UNCHANGED <<today, schedule, sess, ticket, decisions, job>>
    BY <1>2 DEF booking_create
  <2> QED
    BY <1>0, <2>1, <2>2, TablesStep
<1>3. ASSUME NEW e \in Edits, update_schedule(p, e) PROVE TypeInv'
  <2> DEFINE w == [pc |-> "edit", edit |-> e]
  <2>1. Holds(w) /\ w.pc = "edit"
    BY DEF Holds
  <2>2. UNCHANGED <<today, schedule, sess, ticket, booking, decisions, job>>
    BY <1>3 DEF update_schedule
  <2>3. proc' = [proc EXCEPT ![p] = w]
    BY <1>3 DEF update_schedule
  <2> HIDE DEF w
  <2> QED
    BY <2>1, <2>2, <2>3, TakeUpStep
<1>4. CASE update_commit(p)
  <2> DEFINE e == proc[p].edit
  <2>1. e \in [class : Classes, room : Rooms, slot : Slots]
    BY <1>4, HeldByPc, RowShapes DEF update_commit, TypeInv
  <2>2. /\ schedule' = [schedule EXCEPT ![e.class] = [room |-> e.room, slot |-> e.slot]]
        /\ sess' = [x \in Occurrences |->
             IF x[1] = e.class /\ x[2] >= today /\ sess[x] # None
                  /\ sess[x].status = "scheduled"
             THEN [sess[x] EXCEPT !.room = e.room, !.slot = e.slot] ELSE sess[x]]
        /\ proc' = [proc EXCEPT ![p] = Idle]
        /\ UNCHANGED <<today, ticket, booking, decisions, job>>
    BY <1>4 DEF update_commit
  <2> HIDE DEF e
  <2>3. schedule' \in [Classes -> [room : Rooms, slot : Slots]]
    BY <1>0, <2>1, <2>2
  <2>4. ASSUME NEW x \in Occurrences
        PROVE  /\ sess'[x] \in SessionRow \cup {None}
               /\ sess[x] # None => sess'[x] # None
    <3>1. CASE x[1] = e.class /\ x[2] >= today /\ sess[x] # None
               /\ sess[x].status = "scheduled"
      <4>1. sess'[x] = [sess[x] EXCEPT !.room = e.room, !.slot = e.slot]
        BY <2>2, <3>1
      <4>2. [sess[x] EXCEPT !.room = e.room, !.slot = e.slot] \in SessionRow
        BY <1>0, <2>1, <3>1 DEF SessionRow
      <4> QED
        BY <4>1, <4>2, RowShapes
    <3>2. CASE ~(x[1] = e.class /\ x[2] >= today /\ sess[x] # None
                 /\ sess[x].status = "scheduled")
      BY <1>0, <2>2, <3>2
    <3> QED
      BY <3>1, <3>2
  <2>5. sess' \in [Occurrences -> SessionRow \cup {None}]
    BY <2>2, <2>4
  <2> QED
    BY <1>0, <2>2, <2>3, <2>4, <2>5, TablesStep
<1> QED
  BY <1>1, <1>2, <1>3, <1>4 DEF Desk

\* The latest approved shift is one of those approved for the occurrence: the
\* decisions are numbered, so one of them is the last.
LEMMA LatestShift ==
  ASSUME TypeInv, NEW x \in Occurrences, ApprovedFor(x) # {}
  PROVE  latest_shift(x) \in ApprovedFor(x)
<1> DEFINE T == {decisions - ticket[q].order : q \in ApprovedFor(x)}
<1>1. ApprovedFor(x) \subseteq Tickets
  BY DEF ApprovedFor
<1>2. \A q \in ApprovedFor(x) : ticket[q].order \in Nat /\ ticket[q].order <= decisions
  BY <1>1 DEF TypeInv, TypeOK, OrderInv, Ticket
<1>3. decisions \in Nat
  BY DEF TypeInv, TypeOK
<1>4. T \in SUBSET Nat /\ T # {}
  BY <1>2, <1>3
<1>5. PICK n \in T : \A k \in T : n <= k
  BY <1>4, LeastNatural
<1>6. PICK r \in ApprovedFor(x) : n = decisions - ticket[r].order
  BY <1>5
<1>7. \A q \in ApprovedFor(x) : ticket[q].order <= ticket[r].order
  <2> TAKE q \in ApprovedFor(x)
  <2>1. decisions - ticket[r].order <= decisions - ticket[q].order
    BY <1>5, <1>6
  <2> QED
    BY <2>1, <1>2, <1>3
<1> QED
  BY <1>7 DEF latest_shift

LEMMA ShiftedType ==
  ASSUME TypeInv, NEW x \in Occurrences, sess[x] # None, NEW r \in Tickets
  PROVE  Shifted(x, r) \in SessionRow /\ Shifted(x, r).by = r
<1> DEFINE t == ticket[r]
<1>1. sess[x] \in SessionRow /\ x[1] \in Classes
  BY DEF TypeInv, TypeOK, Occurrences
<1>2. t.slot \in Slots \cup {None} /\ t.room[x[1]] \in Rooms \cup {None}
  BY <1>1 DEF TypeInv, TypeOK, Ticket
<1>3. CASE t.target = "online"
  <2>1. Shifted(x, r) = [sess[x] EXCEPT !.declared = "online", !.released = TRUE, !.by = r]
    BY <1>3 DEF Shifted
  <2> QED
    BY <2>1, <1>1 DEF SessionRow
<1>4. CASE t.target # "online" /\ t.room[x[1]] = None
  <2>1. Shifted(x, r) = [sess[x] EXCEPT !.declared = "f2f", !.by = r]
    BY <1>4 DEF Shifted
  <2> QED
    BY <2>1, <1>1 DEF SessionRow
<1>5. CASE t.target # "online" /\ t.room[x[1]] # None
  <2> DEFINE s == IF t.slot # None THEN t.slot ELSE sess[x].slot
             m == t.room[x[1]]
  <2>1. Shifted(x, r) = [sess[x] EXCEPT !.declared = "f2f", !.by = r, !.room = m, !.slot = s]
    BY <1>5 DEF Shifted
  <2>2. s \in Slots /\ m \in Rooms
    BY <1>1, <1>2, <1>5 DEF SessionRow
  <2> HIDE DEF s, m
  <2> QED
    BY <2>1, <2>2, <1>1 DEF SessionRow
<1> QED
  BY <1>3, <1>4, <1>5

LEMMA MaterializeStep ==
  ASSUME TypeInv, Materializing
  PROVE  TypeInv'
<1>0. /\ today \in Dates /\ schedule \in [Classes -> [room : Rooms, slot : Slots]]
      /\ sess \in [Occurrences -> SessionRow \cup {None}]
      /\ booking \in [Bookings -> BookingRow]
      /\ job \in Occurrences \cup {None} /\ (job # None => sess[job] # None)
  BY DEF TypeInv, TypeOK, OrderInv
<1>1. ASSUME NEW x \in Occurrences, materialize_insert(x) PROVE TypeInv'
  <2>1. NewSession(schedule[x[1]].room, schedule[x[1]].slot) \in SessionRow
    BY <1>0, NewRows DEF Occurrences
  <2>2. /\ sess' = [sess EXCEPT ![x] = NewSession(schedule[x[1]].room, schedule[x[1]].slot)]
        /\ job' = x
        /\ UNCHANGED <<today, schedule, ticket, booking, decisions, proc>>
    BY <1>1 DEF materialize_insert
  <2>3. /\ sess' \in [Occurrences -> SessionRow \cup {None}] /\ sess'[x] # None
        /\ \A y \in Occurrences : sess[y] # None => sess'[y] # None
    BY <1>0, <2>1, <2>2, RowShapes
  <2>4. TypeOK'
    BY <2>2, <2>3 DEF TypeInv, TypeOK
  <2>5. ApprovalInv'
    BY <2>2, <2>3, ApprovalKept
  <2>6. OrderInv'
    BY <2>2, <2>3 DEF TypeInv, OrderInv
  <2> QED
    BY <2>4, <2>5, <2>6 DEF TypeInv
<1>2. CASE apply_approved_shift
  <2>1. /\ UNCHANGED <<today, schedule, ticket, booking, decisions, proc>> /\ job' = None
        /\ job \in Occurrences /\ sess[job] # None
    BY <1>0, <1>2 DEF apply_approved_shift
  <2>2. /\ sess' \in [Occurrences -> SessionRow \cup {None}]
        /\ \A y \in Occurrences : sess[y] # None => sess'[y] # None
    <3>1. CASE ApprovedFor(job) = {}
      BY <1>0, <1>2, <3>1 DEF apply_approved_shift
    <3>2. CASE ApprovedFor(job) # {}
      <4>1. latest_shift(job) \in Tickets
        BY <2>1, <3>2, LatestShift DEF ApprovedFor
      <4>2. Shifted(job, latest_shift(job)) \in SessionRow
        BY <2>1, <4>1, ShiftedType
      <4> QED
        BY <1>0, <1>2, <3>2, <4>2, RowShapes DEF apply_approved_shift
    <3> QED
      BY <3>1, <3>2
  <2> QED
    BY <1>0, <2>1, <2>2, TablesStep
<1>3. CASE materialize_crash
  BY <1>0, <1>3, TablesStep DEF materialize_crash
<1> QED
  BY <1>1, <1>2, <1>3 DEF Materializing

LEMMA WithdrawStep ==
  ASSUME TypeInv, NEW r \in Tickets, withdraw_modality_shift(r)
  PROVE  /\ TypeInv'
         /\ ticket[r].status = "pending" /\ ticket'[r].status = "withdrawn"
         /\ \A q \in Tickets \ {r} : ticket'[q] = ticket[q]
<1>1. ticket[r] \in Ticket /\ ticket \in [Tickets -> Ticket]
  BY DEF TypeInv, TypeOK
<1>2. /\ ticket' = [ticket EXCEPT ![r].status = "withdrawn"]
      /\ ticket[r].status = "pending" /\ \A q \in Procs : proc[q].pc # "approve"
      /\ UNCHANGED <<today, schedule, sess, booking, decisions, proc, job>>
  BY DEF withdraw_modality_shift, StillPending, TermFree
<1>3. /\ ticket' \in [Tickets -> Ticket] /\ ticket'[r].status = "withdrawn"
      /\ ticket'[r].order = ticket[r].order
      /\ \A q \in Tickets \ {r} : ticket'[q] = ticket[q]
  BY <1>1, <1>2 DEF Ticket
<1>4. TypeOK'
  BY <1>2, <1>3 DEF TypeInv, TypeOK
<1>5. ApprovalInv'
  BY <1>2, ApprovalKept
<1>6. OrderInv'
  BY <1>2, <1>3 DEF TypeInv, OrderInv
<1> QED
  BY <1>2, <1>3, <1>4, <1>5, <1>6 DEF TypeInv

LEMMA RejectStep ==
  ASSUME TypeInv, NEW r \in Tickets, reject_modality_shift(r)
  PROVE  /\ TypeInv'
         /\ ticket[r].status = "pending" /\ ticket'[r].status = "rejected"
         /\ \A q \in Tickets \ {r} : ticket'[q] = ticket[q]
<1>1. ticket[r].room \in [Classes -> Rooms \cup {None}]
  BY DEF TypeInv, TypeOK, Ticket
<1>2. /\ ticket' = Decided(r, "rejected", ticket[r].room) /\ decisions' = decisions + 1
      /\ ticket[r].status = "pending" /\ \A q \in Procs : proc[q].pc # "approve"
      /\ UNCHANGED <<today, schedule, sess, booking, proc, job>>
  BY DEF reject_modality_shift, StillPending, TermFree
<1>3. /\ ticket' \in [Tickets -> Ticket] /\ decisions' \in Nat
      /\ ticket'[r].status = "rejected"
      /\ \A q \in Tickets \ {r} : ticket'[q] = ticket[q]
      /\ \A q \in Tickets : ticket'[q].order <= decisions'
  BY <1>1, <1>2, DecidedStep
<1>4. TypeOK'
  BY <1>2, <1>3 DEF TypeInv, TypeOK
<1>5. ApprovalInv'
  BY <1>2, ApprovalKept
<1>6. OrderInv'
  BY <1>2, <1>3 DEF TypeInv, OrderInv
<1> QED
  BY <1>2, <1>3, <1>4, <1>5, <1>6 DEF TypeInv

LEMMA OtherStep ==
  ASSUME TypeInv,
         \/ \E p \in Procs : Abort(p)
         \/ \E b \in Bookings : booking_cancel(b)
         \/ \E x \in Occurrences : session_progress(x)
         \/ NextDay
  PROVE  TypeInv'
<1>0. /\ today \in Dates /\ schedule \in [Classes -> [room : Rooms, slot : Slots]]
      /\ sess \in [Occurrences -> SessionRow \cup {None}]
      /\ booking \in [Bookings -> BookingRow]
  BY DEF TypeInv, TypeOK
<1>1. ASSUME NEW p \in Procs, Abort(p) PROVE TypeInv'
  BY <1>0, <1>1, TablesStep DEF Abort
<1>2. ASSUME NEW b \in Bookings, booking_cancel(b) PROVE TypeInv'
  <2>1. booking' \in [Bookings -> BookingRow]
    BY <1>0, <1>2 DEF booking_cancel, BookingRow
  <2> QED
    BY <1>0, <1>2, <2>1, TablesStep DEF booking_cancel
<1>3. ASSUME NEW x \in Occurrences, session_progress(x) PROVE TypeInv'
  <2>1. PICK st \in {"active", "closed"} : sess' = [sess EXCEPT ![x].status = st]
    BY <1>3 DEF session_progress
  <2>2. sess[x] \in SessionRow /\ sess[x] # None
    BY <1>0, <1>3 DEF session_progress, Open
  <2>3. [sess[x] EXCEPT !.status = st] \in SessionRow
    BY <2>2 DEF SessionRow
  <2>4. /\ sess' \in [Occurrences -> SessionRow \cup {None}]
        /\ \A y \in Occurrences : sess[y] # None => sess'[y] # None
    BY <1>0, <2>1, <2>3, RowShapes
  <2> QED
    BY <1>0, <1>3, <2>4, TablesStep DEF session_progress
<1>4. CASE NextDay
  <2>1. today' \in Dates
    BY <1>0, <1>4, AvailabilityAssumption DEF NextDay, Dates
  <2> QED
    BY <1>0, <1>4, <2>1, TablesStep DEF NextDay
<1> QED
  BY <1>1, <1>2, <1>3, <1>4

LEMMA TypeInvInit == Init => TypeInv
<1> SUFFICES ASSUME Init PROVE TypeInv
  OBVIOUS
<1>1. schedule \in [Classes -> [room : Rooms, slot : Slots]]
  BY AvailabilityAssumption DEF Init
<1>2. \A x \in Occurrences : x[1] \in Classes
  BY DEF Occurrences
<1>3. sess \in [Occurrences -> SessionRow \cup {None}]
  BY <1>2, NewRows, AvailabilityAssumption DEF Init
<1>4. ticket \in [Tickets -> Ticket] /\ booking \in [Bookings -> BookingRow]
  BY NewRows, RowShapes DEF Init
<1>5. DOMAIN proc = Procs /\ \A p \in Procs : Holds(proc[p]) /\ proc[p].pc = "idle"
  BY IdleHolds DEF Init, Idle
<1>6. today \in Dates /\ decisions \in Nat /\ job = None
  BY RowShapes DEF Init
<1>7. TypeOK
  BY <1>1, <1>3, <1>4, <1>5, <1>6 DEF TypeOK
<1>8. ApprovalInv
  BY <1>5 DEF ApprovalInv
<1>9. \A r \in Tickets : ticket[r].order = 0
  BY DEF Init, NoTicket
<1>10. OrderInv
  BY <1>5, <1>6, <1>9 DEF OrderInv, Init
<1> QED
  BY <1>7, <1>8, <1>10 DEF TypeInv

LEMMA TypeInvStep ==
  ASSUME TypeInv, [Next]_vars
  PROVE  TypeInv'
<1>1. CASE Next
  <2>1. ASSUME NEW p \in Procs, Deciding(p) PROVE TypeInv'
    BY <2>1, ApproveStep, CommitStep DEF Deciding
  <2>2. ASSUME modality_withdraw PROVE TypeInv'
    BY <2>2, WithdrawStep DEF modality_withdraw, modality_mine
  <2> QED
    BY <1>1, <2>1, <2>2, RequestStep, DeskStep, RejectStep, MaterializeStep, OtherStep DEF Next
<1>2. CASE UNCHANGED vars
  BY <1>2 DEF vars, TypeInv, TypeOK, ApprovalInv, OrderInv, ApprovedFor
<1> QED
  BY <1>1, <1>2

\* The rows of the room tables, and what each worker holds between its steps, stay
\* well formed whatever requests, bookings and edits are made and however the
\* workers interleave or die: in particular an approval that goes through writes a
\* room in every session it listed (scheduling/services.py _apply_f2f).
THEOREM RoomTypesCorrect == Spec => []TypeOK
<1>1. Spec => []TypeInv
  BY TypeInvInit, TypeInvStep, PTL DEF Spec
<1>2. TypeInv => TypeOK
  BY DEF TypeInv
<1> QED
  BY <1>1, <1>2, PTL

-----------------------------------------------------------------------------
(***************************************************************************)
(* What became of a request.                                               *)
(***************************************************************************)
\* A decision stands: the row of a decided request is never written again.
DecisionsStand ==
  \A r \in Tickets : ticket[r].status \notin {"none", "pending"} => ticket'[r] = ticket[r]

\* A step leaves on a session the shift that was there, or one now approved.
ShiftsApproved ==
  \A x \in Occurrences : sess'[x] # None =>
    \/ sess'[x].by = None
    \/ sess[x] # None /\ sess'[x].by = sess[x].by
    \/ sess'[x].by \in Tickets /\ ticket'[sess'[x].by].status = "approved"

LEMMA SameTables ==
  ASSUME ticket' = ticket, sess' = sess
  PROVE  DecisionsStand /\ ShiftsApproved
BY DEF DecisionsStand, ShiftsApproved

LEMMA WorkerSteps ==
  ASSUME TypeInv, NEW p \in Procs,
         Requesting(p) \/ Deciding(p) \/ Desk(p) \/ Abort(p)
  PROVE  DecisionsStand /\ ShiftsApproved
<1>0. sess \in [Occurrences -> SessionRow \cup {None}] /\ ticket \in [Tickets -> Ticket]
  BY DEF TypeInv, TypeOK
<1>1. CASE submit_commit(p)
  BY <1>0, <1>1 DEF submit_commit, DecisionsStand, ShiftsApproved
<1>2. CASE approve_commit(p)
  <2> DEFINE r == proc[p].ticket
  <2>1. r \in Tickets /\ ticket[r].status = "pending" /\ proc[p].pc = "approve"
    BY <1>2, HeldByPc DEF approve_commit, TypeInv, ApprovalInv
  <2>2. PICK st \in {"approved", "denied"} :
          /\ ticket'[r].status = st
          /\ st = "approved" => sess' = Applied(proc[p]) /\ proc[p].result.ok
          /\ st = "denied" => sess' = sess
    BY <1>2, CommitStep
  <2>3. DecisionsStand
    BY <1>2, <2>1, CommitStep DEF DecisionsStand
  <2>4. CASE st = "denied"
    BY <2>2, <2>3, <2>4 DEF ShiftsApproved
  <2>5. CASE st = "approved"
    <3>1. \A x \in Occurrences : sess'[x] # None =>
            sess'[x].by \in {sess[x].by, r} /\ sess[x] # None
      BY <2>1, <2>2, <2>5, AppliedType
    <3>2. ShiftsApproved
      BY <2>1, <2>2, <2>5, <3>1 DEF ShiftsApproved
    <3> QED
      BY <2>3, <3>2
  <2> QED
    BY <2>4, <2>5
<1>3. CASE update_commit(p)
  <2>1. DecisionsStand
    BY <1>3 DEF update_commit, DecisionsStand
  <2>2. ASSUME NEW x \in Occurrences, sess'[x] # None
        PROVE  sess[x] # None /\ sess'[x].by = sess[x].by
    BY <1>0, <1>3, <2>2 DEF update_commit, SessionRow
  <2> QED
    BY <2>1, <2>2 DEF ShiftsApproved
<1>4. CASE ~submit_commit(p) /\ ~approve_commit(p) /\ ~update_commit(p)
  <2>1. ticket' = ticket /\ sess' = sess
    BY <1>4 DEF Requesting, Deciding, Desk, Abort, submit_check, approve, booking_check,
         booking_create, update_schedule
  <2> QED
    BY <2>1, SameTables
<1> QED
  BY <1>1, <1>2, <1>3, <1>4

LEMMA StepsStand ==
  ASSUME TypeInv, [Next]_vars
  PROVE  DecisionsStand /\ ShiftsApproved
<1>0. /\ sess \in [Occurrences -> SessionRow \cup {None}]
      /\ job \in Occurrences \cup {None} /\ (job # None => sess[job] # None)
  BY DEF TypeInv, TypeOK, OrderInv
<1>1. ASSUME modality_withdraw PROVE DecisionsStand /\ ShiftsApproved
  <2>1. PICK r \in Tickets : withdraw_modality_shift(r)
    BY <1>1 DEF modality_withdraw, modality_mine
  <2>2. sess' = sess
    BY <2>1 DEF withdraw_modality_shift
  <2> QED
    BY <2>1, <2>2, WithdrawStep DEF DecisionsStand, ShiftsApproved
<1>2. ASSUME NEW r \in Tickets, reject_modality_shift(r)
      PROVE  DecisionsStand /\ ShiftsApproved
  <2>1. sess' = sess
    BY <1>2 DEF reject_modality_shift
  <2> QED
    BY <1>2, <2>1, RejectStep DEF DecisionsStand, ShiftsApproved
<1>3. CASE Materializing
  <2>1. ticket' = ticket
    BY <1>3 DEF Materializing, materialize_insert, apply_approved_shift, materialize_crash
  <2>2. ASSUME NEW x \in Occurrences, materialize_insert(x) PROVE ShiftsApproved
    <3>1. sess'[x].by = None /\ \A y \in Occurrences \ {x} : sess'[y] = sess[y]
      BY <1>0, <2>2 DEF materialize_insert, NewSession
    <3> QED
      BY <3>1 DEF ShiftsApproved
  <2>3. CASE apply_approved_shift
    <3>1. job \in Occurrences /\ sess[job] # None
      BY <1>0, <2>3 DEF apply_approved_shift
    <3>2. CASE ApprovedFor(job) = {}
      BY <2>1, <2>3, <3>2 DEF apply_approved_shift, ShiftsApproved, DecisionsStand
    <3>3. CASE ApprovedFor(job) # {}
      <4>1. latest_shift(job) \in Tickets /\ ticket[latest_shift(job)].status = "approved"
        BY <3>1, <3>3, LatestShift DEF ApprovedFor
      <4>2. Shifted(job, latest_shift(job)).by = latest_shift(job)
        BY <3>1, <4>1, ShiftedType
      <4>3. /\ sess'[job] = Shifted(job, latest_shift(job))
            /\ \A y \in Occurrences \ {job} : sess'[y] = sess[y]
        BY <1>0, <2>3, <3>1, <3>3 DEF apply_approved_shift
      <4> QED
        BY <2>1, <4>1, <4>2, <4>3 DEF ShiftsApproved, DecisionsStand
    <3> QED
      BY <3>2, <3>3
  <2>4. CASE materialize_crash
    BY <2>1, <2>4 DEF materialize_crash, ShiftsApproved, DecisionsStand
  <2> QED
    BY <1>3, <2>1, <2>2, <2>3, <2>4 DEF Materializing, DecisionsStand
<1>4. ASSUME NEW b \in Bookings, booking_cancel(b) PROVE DecisionsStand /\ ShiftsApproved
  BY <1>4, SameTables DEF booking_cancel
<1>5. ASSUME NEW x \in Occurrences, session_progress(x)
      PROVE  DecisionsStand /\ ShiftsApproved
  <2>1. ticket' = ticket /\ sess[x] \in SessionRow
    BY <1>0, <1>5 DEF session_progress, Open
  <2>2. \A y \in Occurrences : sess'[y] # None => sess[y] # None /\ sess'[y].by = sess[y].by
    BY <1>0, <1>5, <2>1 DEF session_progress, Open, SessionRow
  <2> QED
    BY <2>1, <2>2 DEF DecisionsStand, ShiftsApproved
<1>6. CASE NextDay
  BY <1>6, SameTables DEF NextDay
<1>7. CASE UNCHANGED vars
  BY <1>7, SameTables DEF vars
<1> QED
  BY <1>1, <1>2, <1>3, <1>4, <1>5, <1>6, <1>7, WorkerSteps DEF Next

\* A request is decided once: withdrawal, rejection and an approval under way in
\* another worker cannot overwrite each other, for any number of workers, because
\* each of them looks at the status behind the lock the approval holds.
THEOREM RequestsDecidedOnce == Spec => DecidedOnce
<1>1. ASSUME TypeInv, [Next]_vars, NEW c \in Classes,
             NEW r \in modality_mine(FacultyOf[c]) \ queue
      PROVE  /\ ticket'[r] = ticket[r]
             /\ r \in modality_mine(FacultyOf[c])' \ queue'
  <2>1. r \in Tickets /\ ticket[r].status \notin {"none", "pending"}
    BY DEF modality_mine, queue
  <2>2. ticket'[r] = ticket[r]
    BY <1>1, <2>1, StepsStand DEF DecisionsStand
  <2>3. r \in modality_mine(FacultyOf[c])' \ queue'
    BY <2>1, <2>2 DEF modality_mine, queue
  <2> QED
    BY <2>2, <2>3
<1>2. Spec => []TypeInv
  BY TypeInvInit, TypeInvStep, PTL DEF Spec
<1>3. TypeInv /\ [Next]_vars =>
        [\A c \in Classes : \A r \in modality_mine(FacultyOf[c]) \ queue :
           /\ ticket'[r] = ticket[r]
           /\ r \in modality_mine(FacultyOf[c])' \ queue']_vars
  BY <1>1
<1> QED
  BY <1>2, <1>3, PTL DEF Spec, DecidedOnce

\* No session carries the shift of a request that was not approved.
THEOREM ShiftsOnlyApproved == Spec => []OnlyApprovedApplied
<1>1. Init => OnlyApprovedApplied
  BY DEF Init, OnlyApprovedApplied, NewSession
<1>2. ASSUME TypeInv, OnlyApprovedApplied, [Next]_vars PROVE OnlyApprovedApplied'
  <2>1. ASSUME NEW x \in Occurrences, sess'[x] # None, sess'[x].by # None
        PROVE  ticket'[sess'[x].by].status = "approved"
    <3>1. CASE sess[x] # None /\ sess'[x].by = sess[x].by
      <4>1. sess[x].by \in Tickets
        BY <2>1, <3>1, <1>2 DEF TypeInv, TypeOK, SessionRow
      <4>2. ticket[sess[x].by].status = "approved"
        BY <1>2, <2>1, <3>1 DEF OnlyApprovedApplied
      <4> QED
        BY <1>2, <3>1, <4>1, <4>2, StepsStand DEF DecisionsStand
    <3> QED
      BY <1>2, <2>1, <3>1, StepsStand DEF ShiftsApproved
  <2> QED
    BY <2>1 DEF OnlyApprovedApplied
<1>3. Spec => []TypeInv
  BY TypeInvInit, TypeInvStep, PTL DEF Spec
<1> QED
  BY <1>1, <1>2, <1>3, PTL DEF Spec

-----------------------------------------------------------------------------
(***************************************************************************)
(* An approval takes no reserved room.                                     *)
(***************************************************************************)
\* The office's edits never bring a class back to the time it started with: an
\* edit away and back between the look of an approval and its write would go
\* unnoticed by a comparison with the class's first time.
EditsNeverReturn ==
  \A c \in Classes : \/ \A e \in Edits : e.class = c => e.slot = HomeSlot[c]
                     \/ \A e \in Edits : e.class = c => e.slot # HomeSlot[c]

\* A class leaves its first time by an edit only; while it has not, the rows that
\* no approval has touched are at that time too.
HomeTimes ==
  /\ \A c \in Classes : schedule[c].slot # HomeSlot[c] =>
       \E e \in Edits : e.class = c /\ e.slot # HomeSlot[c]
  /\ \A x \in Occurrences :
       /\ sess[x] # None /\ sess[x].by = None /\ schedule[x[1]].slot = HomeSlot[x[1]]
       => sess[x].slot = HomeSlot[x[1]]

\* The time a request gives to an unmoved row.
GivenSlot(r, x) == IF ticket[r].slot # None THEN ticket[r].slot ELSE HomeSlot[x[1]]

\* The rooms an approval has found are reserved by nobody until it commits.
FoundFree ==
  \A p \in Procs : \A x \in Occurrences :
    LET w == proc[p] IN
    /\ w.pc = "approve" /\ w.result.ok /\ ticket[w.ticket].target = "f2f"
    /\ x \in w.listed /\ schedule[x[1]].slot = HomeSlot[x[1]]
    /\ ticket[w.ticket].slot # None \/ sess[x].by = None
    => \A c \in Classes : \A q \in ApprovedFor(<<c, x[2]>>) :
         /\ ticket[q].target = "f2f" /\ ticket[q].room[c] = w.result.at[x]
         /\ schedule[c].slot = HomeSlot[c]
         => ~overlap(ReservedSlot(q, c), GivenSlot(w.ticket, x))

\* What resolve_shift_room finds was free when it looked.
LEMMA RoomFound ==
  ASSUME NEW S, NEW r, NEW x, NEW slot, schedule[x[1]].room \in Rooms,
         resolve_shift_room(S, r, x, slot) # None
  PROVE  resolve_shift_room(S, r, x, slot) \in free_rooms_in_building(S, x[2], slot, x)
<1> DEFINE own  == schedule[x[1]].room
           free == free_rooms_in_building(S, x[2], slot, x)
           m    == resolve_shift_room(S, r, x, slot)
<1>1. free \subseteq Rooms
  BY DEF free_rooms_in_building
<1>2. free # {} => (CHOOSE k \in free : \A n \in free : k <= n) \in free
  <2> SUFFICES ASSUME free # {}
               PROVE  (CHOOSE k \in free : \A n \in free : k <= n) \in free
    OBVIOUS
  <2>1. free \in SUBSET Nat
    BY <1>1, AvailabilityAssumption
  <2> HIDE DEF free
  <2>2. \E k \in free : \A n \in free : k <= n
    BY <2>1, LeastNatural
  <2> QED
    BY <2>2
<1>3. m = CASE own \in free -> own
            [] own \notin free /\ ticket[r].prefer \in free -> ticket[r].prefer
            [] own \notin free /\ ticket[r].prefer \notin free /\ free # {} ->
                 CHOOSE k \in free : \A n \in free : k <= n
            [] OTHER -> None
  BY DEF resolve_shift_room
<1>4. m # None
  OBVIOUS
<1> HIDE DEF own, free, m
<1>5. m \in free
  BY <1>2, <1>3, <1>4
<1> QED
  BY <1>5 DEF m, free

\* A step changes a class's time for good, and takes no shift off a row.
LEMMA TimesStep ==
  ASSUME EditsNeverReturn, TypeInv, HomeTimes, [Next]_vars
  PROVE  /\ \A c \in Classes : schedule'[c].slot = HomeSlot[c] => schedule[c].slot = HomeSlot[c]
         /\ \A x \in Occurrences :
              sess[x] # None /\ sess'[x].by = None => sess[x].by = None
         /\ HomeTimes'
<1> DEFINE Goal == /\ \A c \in Classes :
                        schedule'[c].slot = HomeSlot[c] => schedule[c].slot = HomeSlot[c]
                   /\ \A x \in Occurrences :
                        sess[x] # None /\ sess'[x].by = None => sess[x].by = None
                   /\ HomeTimes'
<1>0. /\ sess \in [Occurrences -> SessionRow \cup {None}]
      /\ schedule \in [Classes -> [room : Rooms, slot : Slots]]
      /\ job \in Occurrences \cup {None} /\ (job # None => sess[job] # None)
      /\ \A x \in Occurrences : x[1] \in Classes
  BY DEF TypeInv, TypeOK, OrderInv, Occurrences
<1>1. ASSUME UNCHANGED <<sess, schedule>> PROVE Goal
  BY <1>1 DEF HomeTimes
<1>2. ASSUME NEW p \in Procs, approve_commit(p) PROVE Goal
  <2>1. schedule' = schedule
    BY <1>2 DEF approve_commit
  <2>2. proc[p].ticket \in Tickets /\ None \notin Tickets /\ proc[p].pc = "approve"
    BY <1>2, HeldByPc, AvailabilityAssumption DEF approve_commit, TypeInv
  <2>3. ASSUME NEW x \in Occurrences
        PROVE  sess'[x] = sess[x] \/ (sess[x] # None /\ sess'[x].by = proc[p].ticket)
    <3>1. CASE sess' = sess
      BY <3>1
    <3>2. CASE sess' = Applied(proc[p])
      <4>1. CASE x \notin proc[p].listed
        BY <3>2, <4>1 DEF Applied
      <4>2. CASE x \in proc[p].listed
        <5>1. sess[x] # None /\ sess[x] \in SessionRow
          BY <1>0, <2>2, <4>2 DEF TypeInv, ApprovalInv
        <5>2. Applied(proc[p])[x].by = proc[p].ticket
          BY <4>2, <5>1 DEF Applied, SessionRow
        <5> QED
          BY <3>2, <5>1, <5>2
      <4> QED
        BY <4>1, <4>2
    <3> QED
      BY <1>2, <3>1, <3>2, CommitStep
  <2>4. \A x \in Occurrences : sess'[x].by = None => sess'[x] = sess[x]
    BY <2>2, <2>3
  <2>5. HomeTimes'
    BY <2>1, <2>4 DEF HomeTimes
  <2> QED
    BY <2>1, <2>4, <2>5
<1>3. ASSUME NEW p \in Procs, update_commit(p) PROVE Goal
  <2> DEFINE e == proc[p].edit
  <2>1. e \in Edits /\ e \in [class : Classes, room : Rooms, slot : Slots]
    BY <1>3, HeldByPc, RowShapes DEF update_commit, TypeInv
  <2>2. /\ schedule' = [schedule EXCEPT ![e.class] = [room |-> e.room, slot |-> e.slot]]
        /\ sess' = [x \in Occurrences |->
             IF x[1] = e.class /\ x[2] >= today /\ sess[x] # None
                  /\ sess[x].status = "scheduled"
             THEN [sess[x] EXCEPT !.room = e.room, !.slot = e.slot] ELSE sess[x]]
    BY <1>3 DEF update_commit
  <2> HIDE DEF e
  <2>3. e.class \in Classes /\ schedule'[e.class].slot = e.slot
    BY <1>0, <2>1, <2>2
  <2>4. \A c \in Classes : c # e.class => schedule'[c] = schedule[c]
    BY <1>0, <2>2
  <2>5. ASSUME NEW x \in Occurrences, sess[x] # None
        PROVE  /\ sess'[x].by = sess[x].by
               /\ sess'[x].slot = sess[x].slot \/ (x[1] = e.class /\ sess'[x].slot = e.slot)
    BY <1>0, <2>2, <2>5 DEF SessionRow
  <2>6. \A x \in Occurrences : sess'[x] # None => sess[x] # None
    BY <2>2
  <2>7. e.slot = HomeSlot[e.class] => schedule[e.class].slot = HomeSlot[e.class]
    BY <2>1, <2>3 DEF EditsNeverReturn, HomeTimes
  <2>8. \A c \in Classes : schedule'[c].slot = HomeSlot[c] => schedule[c].slot = HomeSlot[c]
    BY <2>3, <2>4, <2>7
  <2>9. \A c \in Classes : schedule'[c].slot # HomeSlot[c] =>
          \E f \in Edits : f.class = c /\ f.slot # HomeSlot[c]
    BY <2>1, <2>3, <2>4 DEF HomeTimes
  <2>10. ASSUME NEW x \in Occurrences, sess'[x] # None, sess'[x].by = None,
                schedule'[x[1]].slot = HomeSlot[x[1]]
         PROVE  sess'[x].slot = HomeSlot[x[1]]
    <3>1. sess[x] # None /\ sess[x].by = None /\ schedule[x[1]].slot = HomeSlot[x[1]]
      BY <1>0, <2>5, <2>6, <2>8, <2>10
    <3>2. sess[x].slot = HomeSlot[x[1]]
      BY <3>1 DEF HomeTimes
    <3> QED
      BY <2>3, <2>5, <2>10, <3>1, <3>2
  <2> QED
    BY <2>5, <2>8, <2>9, <2>10 DEF HomeTimes
<1>4. ASSUME Materializing PROVE Goal
  <2>1. schedule' = schedule
    BY <1>4 DEF Materializing, materialize_insert, apply_approved_shift, materialize_crash
  <2>2. ASSUME NEW x \in Occurrences, materialize_insert(x) PROVE Goal
    <3>1. /\ sess[x] = None /\ \A y \in Occurrences \ {x} : sess'[y] = sess[y]
          /\ sess'[x].slot = schedule[x[1]].slot
      BY <1>0, <2>2 DEF materialize_insert, Missing, NewSession
    <3> QED
      BY <2>1, <3>1 DEF HomeTimes
  <2>3. ASSUME apply_approved_shift, sess' # sess PROVE Goal
    <3>1. job \in Occurrences /\ sess[job] # None /\ ApprovedFor(job) # {}
      BY <1>0, <2>3 DEF apply_approved_shift
    <3>2. latest_shift(job) \in Tickets
      BY <3>1, LatestShift DEF ApprovedFor
    <3>3. Shifted(job, latest_shift(job)).by # None
      BY <3>1, <3>2, ShiftedType, AvailabilityAssumption
    <3>4. /\ sess'[job] = Shifted(job, latest_shift(job))
          /\ \A y \in Occurrences \ {job} : sess'[y] = sess[y]
      BY <1>0, <2>3, <3>1 DEF apply_approved_shift
    <3> QED
      BY <2>1, <3>3, <3>4 DEF HomeTimes
  <2>4. CASE materialize_crash
    BY <1>1, <2>4 DEF materialize_crash
  <2> QED
    BY <1>1, <1>4, <2>1, <2>2, <2>3, <2>4 DEF Materializing
<1>5. ASSUME NEW x \in Occurrences, session_progress(x) PROVE Goal
  <2>1. schedule' = schedule /\ sess[x] \in SessionRow /\ sess[x] # None
    BY <1>0, <1>5 DEF session_progress, Open
  <2>2. \A y \in Occurrences :
          sess'[y] = sess[y] \/ (sess[y] # None /\ sess'[y].by = sess[y].by
                                /\ sess'[y].slot = sess[y].slot)
    BY <1>0, <1>5, <2>1 DEF session_progress, SessionRow
  <2> QED
    BY <2>1, <2>2 DEF HomeTimes
<1>6. ASSUME modality_withdraw PROVE Goal
  BY <1>1, <1>6 DEF modality_withdraw, withdraw_modality_shift
<1>7. ASSUME NEW r \in Tickets, reject_modality_shift(r) PROVE Goal
  BY <1>1, <1>7 DEF reject_modality_shift
<1>8. ASSUME NEW b \in Bookings, booking_cancel(b) PROVE Goal
  BY <1>1, <1>8 DEF booking_cancel
<1>9. ASSUME NextDay \/ UNCHANGED vars PROVE Goal
  BY <1>1, <1>9 DEF NextDay, vars
<1>10. ASSUME NEW p \in Procs, Requesting(p) \/ Deciding(p) \/ Desk(p) \/ Abort(p),
              ~approve_commit(p), ~update_commit(p)
       PROVE  Goal
  <2>1. UNCHANGED <<sess, schedule>>
    BY <1>10 DEF Requesting, Deciding, Desk, Abort, submit_check, submit_commit, approve,
         booking_check, booking_create, update_schedule
  <2> QED
    BY <1>1, <2>1
<1> HIDE DEF Goal
<1>11. Goal
  BY <1>2, <1>3, <1>4, <1>5, <1>6, <1>7, <1>8, <1>9, <1>10 DEF Next
<1> QED
  BY <1>11 DEF Goal

\* A worker that is approving has just looked, or nobody has touched its record or
\* any request since.
LEMMA WhoApproves ==
  ASSUME TypeInv, [Next]_vars, NEW q \in Procs, proc'[q].pc = "approve"
  PROVE  \/ \E r \in Tickets : approve(q, r)
         \/ /\ proc[q].pc = "approve" /\ proc'[q] = proc[q] /\ ticket' = ticket
<1>1. ASSUME proc' = proc, \/ ticket' = ticket
                           \/ \A p \in Procs : proc[p].pc # "approve"
      PROVE  proc[q].pc = "approve" /\ proc'[q] = proc[q] /\ ticket' = ticket
  BY <1>1
<1>2. ASSUME NEW p \in Procs, NEW w, proc' = [proc EXCEPT ![p] = w], w.pc # "approve",
             \/ ticket' = ticket
             \/ \A s \in Procs : s # p => proc[s].pc # "approve"
      PROVE  proc[q].pc = "approve" /\ proc'[q] = proc[q] /\ ticket' = ticket
  <2>1. (\A s \in Procs : s # p => proc'[s] = proc[s]) /\ proc'[p] = w
    BY <1>2, Elsewhere DEF TypeInv
  <2> QED
    BY <1>2, <2>1
<1>3. ASSUME NEW p \in Procs, Requesting(p)
      PROVE  proc[q].pc = "approve" /\ proc'[q] = proc[q] /\ ticket' = ticket
  <2>1. ASSUME NEW ask \in Asks, NEW win \in Windows, submit_check(p, ask, win)
        PROVE  proc[q].pc = "approve" /\ proc'[q] = proc[q] /\ ticket' = ticket
    <3>1. PICK row : proc' = [proc EXCEPT ![p] = [pc |-> "submit", row |-> row]]
      BY <2>1, Zenon DEF submit_check
    <3> DEFINE w == [pc |-> "submit", row |-> row]
    <3>2. w.pc # "approve" /\ proc' = [proc EXCEPT ![p] = w]
      BY <3>1
    <3>3. ticket' = ticket
      BY <2>1 DEF submit_check
    <3> HIDE DEF w
    <3> QED
      BY <1>2, <3>2, <3>3
  <2>2. CASE submit_commit(p)
    <3>1. proc' = [proc EXCEPT ![p] = Idle] /\ \A s \in Procs : proc[s].pc # "approve"
      BY <2>2 DEF submit_commit, TermFree
    <3>2. Idle.pc # "approve"
      BY DEF Idle
    <3> QED
      BY <1>2, <3>1, <3>2
  <2> QED
    BY <1>3, <2>1, <2>2 DEF Requesting
<1>4. ASSUME NEW p \in Procs, Deciding(p)
      PROVE  \/ \E r \in Tickets : approve(q, r)
             \/ /\ proc[q].pc = "approve" /\ proc'[q] = proc[q] /\ ticket' = ticket
  <2>1. ASSUME NEW r \in Tickets, approve(p, r) PROVE approve(q, r)
    <3>1. PICK w : proc' = [proc EXCEPT ![p] = w]
      BY <2>1 DEF approve
    <3>2. q # p => proc'[q] = proc[q]
      BY <3>1, Elsewhere DEF TypeInv
    <3>3. proc[q].pc # "approve"
      BY <2>1 DEF approve, TermFree
    <3> QED
      BY <2>1, <3>2, <3>3
  <2>2. CASE approve_commit(p)
    <3>1. proc' = [proc EXCEPT ![p] = Idle] /\ proc[p].pc = "approve"
      BY <2>2 DEF approve_commit
    <3>2. \A s \in Procs : s # p => proc[s].pc # "approve"
      BY <3>1 DEF TypeInv, ApprovalInv
    <3>3. Idle.pc # "approve"
      BY DEF Idle
    <3> QED
      BY <1>2, <3>1, <3>2, <3>3
  <2> QED
    BY <1>4, <2>1, <2>2 DEF Deciding
<1>5. ASSUME NEW p \in Procs, Desk(p) \/ Abort(p)
      PROVE  proc[q].pc = "approve" /\ proc'[q] = proc[q] /\ ticket' = ticket
  <2>1. Idle.pc # "approve"
    BY DEF Idle
  <2>2. PICK w : proc' = [proc EXCEPT ![p] = w] /\ w.pc # "approve" /\ ticket' = ticket
    BY <1>5, <2>1 DEF Desk, Abort, booking_check, booking_create, update_schedule, update_commit
  <2> QED
    BY <1>2, <2>2
<1>6. ASSUME modality_withdraw
      PROVE  proc[q].pc = "approve" /\ proc'[q] = proc[q] /\ ticket' = ticket
  BY <1>1, <1>6 DEF modality_withdraw, withdraw_modality_shift, TermFree
<1>7. ASSUME NEW r \in Tickets, reject_modality_shift(r)
      PROVE  proc[q].pc = "approve" /\ proc'[q] = proc[q] /\ ticket' = ticket
  BY <1>1, <1>7 DEF reject_modality_shift, TermFree
<1>8. ASSUME \/ \E b \in Bookings : booking_cancel(b)
             \/ Materializing \/ NextDay \/ UNCHANGED vars
             \/ \E x \in Occurrences : session_progress(x)
      PROVE  proc[q].pc = "approve" /\ proc'[q] = proc[q] /\ ticket' = ticket
  <2>1. proc' = proc /\ ticket' = ticket
    BY <1>8 DEF booking_cancel, Materializing, materialize_insert, apply_approved_shift,
         materialize_crash, NextDay, vars, session_progress
  <2> QED
    BY <1>1, <2>1
<1> QED
  BY <1>3, <1>4, <1>5, <1>6, <1>7, <1>8 DEF Next

\* What an approval has noted once it has looked.
LEMMA ApproveLooks ==
  ASSUME TypeOK, NEW p \in Procs, NEW r \in Tickets, approve(p, r)
  PROVE  /\ proc'[p].ticket = r
         /\ ticket[r].target = "f2f" =>
              \E xs \in SUBSET Occurrences : \E at \in placements(r, xs) :
                /\ xs = in_window_sessions(sess, ticket[r].classes, ticket[r].from, ticket[r].to)
                /\ proc'[p].listed = xs /\ proc'[p].result.at = at
                /\ proc'[p].result.ok => \A y \in xs : at[y] # None
<1>1. PICK xs, result :
           /\ xs \in SUBSET Occurrences /\ xs = in_window_sessions(sess, ticket[r].classes, ticket[r].from, ticket[r].to)
           /\ result \in IF ticket[r].target = "online" THEN {apply_online(r, xs)}
                         ELSE {apply_f2f(r, at) : at \in placements(r, xs)}
           /\ proc' = [proc EXCEPT ![p] =
                [pc |-> "approve", ticket |-> r, listed |-> xs, result |-> result]]
           /\ Holds([pc |-> "approve", ticket |-> r, listed |-> xs, result |-> result])
           /\ result.ok /\ ticket[r].target = "f2f" => \A x \in xs : result.at[x] # None
  BY ApproveHolds
<1>2. proc'[p] = [pc |-> "approve", ticket |-> r, listed |-> xs, result |-> result]
  BY <1>1 DEF TypeOK
<1>3. proc'[p].ticket = r /\ proc'[p].listed = xs /\ proc'[p].result = result
  BY <1>2
<1>4. ASSUME ticket[r].target = "f2f"
      PROVE  \E at \in placements(r, xs) : result.at = at
  <2>1. PICK at \in placements(r, xs) : result = apply_f2f(r, at)
    BY <1>1, <1>4
  <2> QED
    BY <2>1 DEF apply_f2f
<1> QED
  BY <1>1, <1>3, <1>4

\* The look itself: every room it settles on is reserved by nobody.
LEMMA LookFindsFree ==
  ASSUME TypeInv, HomeTimes, NEW p \in Procs, NEW r \in Tickets, approve(p, r),
         NEW x \in Occurrences, proc'[p].result.ok, ticket[r].target = "f2f",
         x \in proc'[p].listed, schedule[x[1]].slot = HomeSlot[x[1]],
         ticket[r].slot # None \/ sess[x].by = None,
         NEW c \in Classes, NEW q \in ApprovedFor(<<c, x[2]>>),
         ticket[q].target = "f2f", ticket[q].room[c] = proc'[p].result.at[x]
  PROVE  ~overlap(ReservedSlot(q, c), GivenSlot(r, x))
<1>1. PICK xs \in SUBSET Occurrences : \E at \in placements(r, xs) :
        /\ xs = in_window_sessions(sess, ticket[r].classes, ticket[r].from, ticket[r].to)
        /\ proc'[p].listed = xs /\ proc'[p].result.at = at
        /\ proc'[p].result.ok => \A y \in xs : at[y] # None
  BY ApproveLooks DEF TypeInv
<1>2. PICK at \in placements(r, xs) : proc'[p].result.at = at /\ \A y \in xs : at[y] # None
  BY <1>1
<1>3. xs = in_window_sessions(sess, ticket[r].classes, ticket[r].from, ticket[r].to)
      /\ x \in xs
  BY <1>1
<1>6. at[x] = resolve_shift_room(SoFar(r, at, x), r, x, SlotFor(r, x)) /\ at[x] # None
  BY <1>2, <1>3 DEF placements
<1>7. schedule[x[1]].room \in Rooms
  BY DEF TypeInv, TypeOK, Occurrences
<1>8. at[x] \in free_rooms_in_building(SoFar(r, at, x), x[2], SlotFor(r, x), x)
  BY <1>6, <1>7, RoomFound
<1>9. ~reservation_occupies(at[x], x[2], SlotFor(r, x), {})
  BY <1>8 DEF free_rooms_in_building, room_is_free
<1>10. ~overlap(ReservedSlot(q, c), SlotFor(r, x))
  BY <1>2, <1>9 DEF reservation_occupies
<1>11. sess[x] # None
  BY <1>3 DEF in_window_sessions, Open
<1>12. SlotFor(r, x) = GivenSlot(r, x)
  BY <1>11 DEF SlotFor, GivenSlot, HomeTimes
<1> QED
  BY <1>10, <1>12

LEMMA FoundFreeStep ==
  ASSUME EditsNeverReturn, TypeInv, HomeTimes, FoundFree, [Next]_vars
  PROVE  FoundFree'
<1> SUFFICES ASSUME NEW p \in Procs, NEW x \in Occurrences, proc'[p].pc = "approve",
                    proc'[p].result.ok, ticket'[proc'[p].ticket].target = "f2f",
                    x \in proc'[p].listed, schedule'[x[1]].slot = HomeSlot[x[1]],
                    ticket'[proc'[p].ticket].slot # None \/ sess'[x].by = None,
                    NEW c \in Classes, NEW q \in ApprovedFor(<<c, x[2]>>)',
                    ticket'[q].target = "f2f",
                    ticket'[q].room[c] = proc'[p].result.at[x],
                    schedule'[c].slot = HomeSlot[c]
             PROVE  ~overlap(ReservedSlot(q, c)', GivenSlot(proc[p].ticket, x)')
  BY DEF FoundFree
<1>1. x[1] \in Classes
  BY DEF Occurrences
<1>2. schedule[x[1]].slot = HomeSlot[x[1]] /\ schedule[c].slot = HomeSlot[c]
  BY <1>1, TimesStep
<1>3. ASSUME ticket' = ticket
      PROVE  /\ q \in ApprovedFor(<<c, x[2]>>)
             /\ ReservedSlot(q, c)' = ReservedSlot(q, c)
             /\ GivenSlot(proc[p].ticket, x)' = GivenSlot(proc'[p].ticket, x)
  BY <1>2, <1>3 DEF ApprovedFor, ReservedSlot, GivenSlot
<1>4. CASE proc[p].pc = "approve" /\ proc'[p] = proc[p] /\ ticket' = ticket
  <2>1. sess[x] # None
    BY <1>4 DEF TypeInv, ApprovalInv
  <2>2. ticket[proc[p].ticket].slot # None \/ sess[x].by = None
    BY <1>4, <2>1, TimesStep
  <2>3. ~overlap(ReservedSlot(q, c), GivenSlot(proc[p].ticket, x))
    BY <1>2, <1>3, <1>4, <2>2 DEF FoundFree
  <2> QED
    BY <1>3, <1>4, <2>3
<1>5. ASSUME NEW r \in Tickets, approve(p, r)
      PROVE  ~overlap(ReservedSlot(q, c)', GivenSlot(proc[p].ticket, x)')
  <2>1. ticket' = ticket /\ sess' = sess
    BY <1>5 DEF approve
  <2>2. proc'[p].ticket = r
    BY <1>5, ApproveLooks DEF TypeInv
  <2>3. ~overlap(ReservedSlot(q, c), GivenSlot(r, x))
    BY <1>2, <1>3, <1>5, <2>1, <2>2, LookFindsFree
  <2> QED
    BY <1>3, <2>1, <2>2, <2>3
<1> QED
  BY <1>4, <1>5, WhoApproves

\* A pending request becomes approved by the commit of its approval only.
LEMMA OnlyCommitApproves ==
  ASSUME TypeInv, [Next]_vars, NEW r \in Tickets,
         ticket[r].status = "pending", ticket'[r].status = "approved"
  PROVE  \E p \in Procs : /\ proc[p].pc = "approve" /\ proc[p].ticket = r
                          /\ proc[p].result.ok /\ sess' = Applied(proc[p])
<1>0. ticket \in [Tickets -> Ticket]
  BY DEF TypeInv, TypeOK
<1>1. ticket' # ticket
  OBVIOUS
<1>2. ASSUME NEW p \in Procs, submit_commit(p) PROVE FALSE
  BY <1>0, <1>2 DEF submit_commit
<1>3. ASSUME modality_withdraw PROVE FALSE
  <2>1. PICK q \in Tickets : withdraw_modality_shift(q)
    BY <1>3 DEF modality_withdraw, modality_mine
  <2> QED
    BY <2>1, WithdrawStep
<1>4. ASSUME NEW q \in Tickets, reject_modality_shift(q) PROVE FALSE
  BY <1>4, RejectStep
<1>5. \E p \in Procs : approve_commit(p)
  <2>1. ASSUME NEW p \in Procs, Requesting(p) \/ Desk(p) \/ Abort(p) PROVE FALSE
    BY <1>1, <1>2, <2>1 DEF Requesting, Desk, Abort, submit_check, booking_check, booking_create,
       update_schedule, update_commit
  <2>2. ASSUME NEW p \in Procs, Deciding(p) PROVE approve_commit(p)
    BY <1>1, <2>2 DEF Deciding, approve
  <2>3. ASSUME Materializing \/ NextDay PROVE FALSE
    BY <1>1, <2>3 DEF Materializing, materialize_insert, apply_approved_shift, materialize_crash, NextDay
  <2>4. ASSUME NEW b \in Bookings, booking_cancel(b) PROVE FALSE
    BY <1>1, <2>4 DEF booking_cancel
  <2>5. ASSUME NEW x \in Occurrences, session_progress(x) PROVE FALSE
    BY <1>1, <2>5 DEF session_progress
  <2>6. Next
    BY <1>1 DEF vars
  <2> QED BY <1>3, <1>4, <2>1, <2>2, <2>3, <2>4, <2>5, <2>6 DEF Next
<1>6. PICK p \in Procs : approve_commit(p)
  BY <1>5
<1>7. proc[p].pc = "approve" /\ proc[p].ticket = r
  BY <1>6, CommitStep DEF approve_commit
<1> QED
  BY <1>6, <1>7, CommitStep

\* An approval never moves a session into a room that another class holds under an
\* earlier approval on that date and time, for any number of requests and workers:
\* every room was free of reservations at the look (RoomFound), and the term lock
\* keeps every other decision out until the commit (WhoApproves).
THEOREM ApprovalRoomUnreserved ==
  ASSUME EditsNeverReturn
  PROVE  Spec => ApprovalTakesUnreservedRoom
<1> DEFINE Taken(x, r) ==
       /\ ticket[r].status = "pending" /\ ticket'[r].status = "approved"
       /\ ticket[r].target = "f2f" /\ sess[x] # None /\ sess'[x].by = r
       /\ schedule[x[1]].slot = HomeSlot[x[1]]
       /\ ticket[r].slot # None \/ sess[x].by = None
<1> DEFINE Step == \A x \in Occurrences : \A r \in Tickets : Taken(x, r) =>
       \A c \in Classes \ {x[1]} : \A q \in ApprovedFor(<<c, x[2]>>) :
            /\ ticket[q].target = "f2f" /\ ticket[q].room[c] = sess'[x].room
            /\ schedule[c].slot = HomeSlot[c]
            => ~overlap(ReservedSlot(q, c), sess'[x].slot)
<1>1. ASSUME TypeInv, HomeTimes, FoundFree, OnlyApprovedApplied, [Next]_vars
      PROVE  Step
  <2> SUFFICES ASSUME NEW x \in Occurrences, NEW r \in Tickets, Taken(x, r),
                      NEW c \in Classes, NEW q \in ApprovedFor(<<c, x[2]>>),
                      ticket[q].target = "f2f", ticket[q].room[c] = sess'[x].room,
                      schedule[c].slot = HomeSlot[c]
               PROVE  ~overlap(ReservedSlot(q, c), sess'[x].slot)
    OBVIOUS
  <2>1. PICK p \in Procs : /\ proc[p].pc = "approve" /\ proc[p].ticket = r
                           /\ proc[p].result.ok /\ sess' = Applied(proc[p])
    BY <1>1, OnlyCommitApproves
  <2>2. sess[x] \in SessionRow
    BY <1>1 DEF TypeInv, TypeOK
  <2>3. x \in proc[p].listed
    <3> SUFFICES ASSUME x \notin proc[p].listed PROVE FALSE
      OBVIOUS
    <3>1. sess[x].by = r
      BY <2>1 DEF Applied
    <3>2. r # None
      BY AvailabilityAssumption
    <3> QED
      BY <1>1, <3>1, <3>2 DEF OnlyApprovedApplied
  <2>4. sess'[x] = IF ticket[r].slot # None
          THEN [sess[x] EXCEPT !.room = proc[p].result.at[x], !.declared = "f2f",
                               !.slot = ticket[r].slot, !.by = r]
          ELSE [sess[x] EXCEPT !.room = proc[p].result.at[x], !.declared = "f2f", !.by = r]
    BY <2>1, <2>3 DEF Applied
  <2>5. sess'[x].room = proc[p].result.at[x]
    BY <2>2, <2>4 DEF SessionRow
  <2>6. sess'[x].slot = GivenSlot(r, x)
    <3>1. ticket[r].slot = None => sess[x].slot = HomeSlot[x[1]]
      BY <1>1 DEF HomeTimes
    <3> QED
      BY <2>2, <2>4, <3>1 DEF SessionRow, GivenSlot
  <2>7. ~overlap(ReservedSlot(q, c), GivenSlot(r, x))
    BY <1>1, <2>1, <2>3, <2>5 DEF FoundFree
  <2> QED
    BY <2>6, <2>7
<1>2. Init => HomeTimes /\ FoundFree
  <2> SUFFICES ASSUME Init PROVE HomeTimes /\ FoundFree
    OBVIOUS
  <2>1. \A c \in Classes : schedule[c].slot = HomeSlot[c]
    BY DEF Init
  <2>2. \A x \in Occurrences : sess[x] # None => sess[x].slot = HomeSlot[x[1]]
    BY DEF Init, NewSession
  <2>3. \A p \in Procs : proc[p].pc = "idle"
    BY DEF Init, Idle
  <2> QED
    BY <2>1, <2>2, <2>3 DEF HomeTimes, FoundFree
<1>3. TypeInv /\ HomeTimes /\ FoundFree /\ [Next]_vars => HomeTimes' /\ FoundFree'
  BY TimesStep, FoundFreeStep
<1>4. Spec => []TypeInv
  BY TypeInvInit, TypeInvStep, PTL DEF Spec
<1>5. Spec => [](HomeTimes /\ FoundFree)
  BY <1>2, <1>3, <1>4, PTL DEF Spec
<1>6. TypeInv /\ HomeTimes /\ FoundFree /\ OnlyApprovedApplied /\ [Next]_vars => [Step]_vars
  BY <1>1
<1>7. [][Step]_vars <=> ApprovalTakesUnreservedRoom
  BY DEF ApprovalTakesUnreservedRoom
<1> HIDE DEF Step
<1>8. Spec => [][Step]_vars
  BY <1>4, <1>5, <1>6, ShiftsOnlyApproved, PTL DEF Spec
<1> QED
  BY <1>7, <1>8
=============================================================================
