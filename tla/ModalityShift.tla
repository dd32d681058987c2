--------------------------- MODULE ModalityShift ----------------------------
(***************************************************************************)
(* Modality-shift requests (scheduling/services.py): a faculty member asks *)
(* to move classes online or back to a room for a window of dates, the     *)
(* dean decides, and an approval is applied to the sessions on file.       *)
(* submit validates before its transaction and does not look again; the    *)
(* decisions lock the request row and the term row first.  Every one of    *)
(* those transactions holds the one term row, so the term lock stands for  *)
(* both.                                                                   *)
(***************************************************************************)
EXTENDS Availability

\* The term row is locked by a decision in progress.
TermFree == \A p \in Procs : proc[p].pc # "approve"

\* The window the form derives: a single date, or the weeks after the lead.
Windows == {<<d, d>> : d \in Dates}
           \cup {<<today + Lead + 1, d>> : d \in (today + Lead + 1)..MaxDate}

\* Sessions of these classes inside the window that are still to be held.
in_window_sessions(S, cs, from, to) ==
  {x \in Occurrences : x[1] \in cs /\ x[2] \in from..to /\ Open(S, x)}

is_before_lead_cutoff(earliest) == today < earliest - Lead

\* A class with a pending request, or one decided within the cooldown.
RecentlyRequested(c) ==
  \E r \in Tickets : /\ c \in ticket[r].classes
                     /\ \/ ticket[r].status = "pending"
                        \/ /\ ticket[r].status \in {"approved", "rejected", "denied"}
                           /\ ticket[r].day >= today - Cooldown

\* submit_modality_shift up to its transaction.  A preference survives only
\* when the room is free for every session of the window.
submit_check(p, ask, win) ==
  LET cs == ask.classes
      slot == ask.slot
      xs == in_window_sessions(sess, cs, win[1], win[2])
      kept == IF \A x \in xs : ask.prefer \in available_rooms_for(sess, x)
              THEN ask.prefer ELSE None
  IN /\ "submit" \in Ops /\ proc[p].pc = "idle"
     /\ Cardinality(InFlight("submit")) < Cardinality({r \in Tickets : ticket[r].status = "none"})
     /\ cs # {} /\ \A c, e \in cs : FacultyOf[c] = FacultyOf[e]
     /\ \A c \in cs : ~RecentlyRequested(c)
     /\ slot # None => ask.target = "f2f"
     /\ xs # {}
     /\ \A x \in xs : is_before_lead_cutoff(x[2])
     /\ \A x \in xs : slot # None =>
          ~faculty_has_conflict(sess, FacultyOf[x[1]], x[2], slot, x)
     /\ proc' = [proc EXCEPT ![p] =
          [pc |-> "submit", row |-> [NoTicket EXCEPT
             !.status = "pending", !.classes = cs, !.target = ask.target,
             !.from = win[1], !.to = win[2], !.slot = slot, !.prefer = kept]]]
     /\ UNCHANGED <<today, schedule, sess, ticket, booking, decisions, job>>

\* Its transaction: lock the term, insert the request and its items.
submit_commit(p) ==
  /\ proc[p].pc = "submit" /\ TermFree
  /\ \E r \in Tickets :
       /\ ticket[r].status = "none"
       /\ ticket' = [ticket EXCEPT ![r] = proc[p].row]
  /\ proc' = [proc EXCEPT ![p] = Idle]
  /\ UNCHANGED <<today, schedule, sess, booking, decisions, job>>

\* The dean's page: the requests of the department that wait for a decision; and
\* a teacher's page: their own requests, whatever became of them.
queue == {r \in Tickets : ticket[r].status = "pending"}
modality_mine(f) ==
  {r \in Tickets : ticket[r].status # "none" /\ \E c \in ticket[r].classes : FacultyOf[c] = f}

\* The status a decision finds when it holds its locks.
StillPending(r) == ticket[r].status = "pending"

\* Mutant: the status is looked at before the lock is waited for.
withdraw_modality_shift_unlocked(r) ==
  /\ "withdraw" \in Ops
  /\ StillPending(r)
  /\ ticket' = [ticket EXCEPT ![r].status = "withdrawn"]
  /\ UNCHANGED <<today, schedule, sess, booking, decisions, proc, job>>

withdraw_modality_shift(r) ==
  /\ "withdraw" \in Ops
  /\ TermFree /\ StillPending(r)
  /\ ticket' = [ticket EXCEPT ![r].status = "withdrawn"]
  /\ UNCHANGED <<today, schedule, sess, booking, decisions, proc, job>>

\* Only its requester withdraws a request.
modality_withdraw ==
  \E c \in Classes : \E r \in modality_mine(FacultyOf[c]) : withdraw_modality_shift(r)

\* A ticket with its decision stamped.
Decided(r, status, room) ==
  [ticket EXCEPT ![r] = [@ EXCEPT !.status = status, !.room = room,
                                  !.day = today, !.order = decisions + 1]]

reject_modality_shift(r) ==
  /\ "reject" \in Ops
  /\ TermFree /\ StillPending(r)
  /\ ticket' = Decided(r, "rejected", ticket[r].room)
  /\ decisions' = decisions + 1
  /\ UNCHANGED <<today, schedule, sess, booking, proc, job>>

-----------------------------------------------------------------------------
(***************************************************************************)
(* Approval.  The sessions are worked through by item and date, each one   *)
(* seeing the rooms given to those before it.                              *)
(***************************************************************************)
\* The class's own room when free, else its preference when free, else the
\* first free room of the building.
resolve_shift_room(S, r, x, slot) ==
  LET own  == schedule[x[1]].room
      free == free_rooms_in_building(S, x[2], slot, x)
  IN CASE own \in free -> own
       [] own \notin free /\ ticket[r].prefer \in free -> ticket[r].prefer
       [] own \notin free /\ ticket[r].prefer \notin free /\ free # {} ->
            CHOOSE m \in free : \A n \in free : m <= n
       [] OTHER -> None

\* The slot a session is to have: the request's time move, or its own.
SlotFor(r, x) == IF ticket[r].slot # None THEN ticket[r].slot ELSE sess[x].slot

\* The session table _apply_f2f sees when it comes to x, with the sessions before
\* x, by item and by date, already moved into the rooms `at`.
SoFar(r, at, x) ==
  [y \in Occurrences |->
     IF y \in DOMAIN at /\ (y[1] < x[1] \/ (y[1] = x[1] /\ y[2] < x[2]))
     THEN [sess[y] EXCEPT !.room = at[y], !.declared = "f2f", !.slot = SlotFor(r, y), !.by = r]
     ELSE sess[y]]

\* The rooms the loop gives out: each is resolved over the moves before it.
placements(r, xs) ==
  {at \in [xs -> Rooms \cup {None}] :
     \A x \in xs : at[x] = resolve_shift_room(SoFar(r, at, x), r, x, SlotFor(r, x))}

double_books(r, at, x) ==
  ticket[r].slot # None
  /\ faculty_has_conflict(SoFar(r, at, x), FacultyOf[x[1]], x[2], ticket[r].slot, x)

\* An item keeps the room of its last session as the reservation.
apply_f2f(r, at) ==
  [ok   |-> \A x \in DOMAIN at : at[x] # None /\ ~double_books(r, at, x),
   at   |-> at,
   room |-> [c \in Classes |->
               LET mine == {x \in DOMAIN at : x[1] = c}
               IN  IF mine = {} THEN ticket[r].room[c]
                   ELSE at[CHOOSE x \in mine : \A y \in mine : y[2] <= x[2]]]]

apply_online(r, xs) == [ok |-> TRUE, at |-> [x \in xs |-> None], room |-> ticket[r].room]

\* apply_approval: lock, look again, list the sessions, work out the writes.
approve(p, r) ==
  LET xs == in_window_sessions(sess, ticket[r].classes, ticket[r].from, ticket[r].to)
  IN /\ "approve" \in Ops /\ proc[p].pc = "idle"
     /\ TermFree /\ StillPending(r)
     /\ \E result \in IF ticket[r].target = "online" THEN {apply_online(r, xs)}
                       ELSE {apply_f2f(r, at) : at \in placements(r, xs)} :
          proc' = [proc EXCEPT ![p] =
            [pc |-> "approve", ticket |-> r, listed |-> xs, result |-> result]]
     /\ UNCHANGED <<today, schedule, sess, ticket, booking, decisions, job>>

\* The writes of the transaction: the changed fields of the listed rows, by
\* key, whatever else has happened to those rows.
Applied(w) ==
  [x \in Occurrences |->
     IF x \notin w.listed THEN sess[x]
     ELSE IF ticket[w.ticket].target = "online"
     THEN [sess[x] EXCEPT !.declared = "online", !.released = TRUE, !.by = w.ticket]
     ELSE IF ticket[w.ticket].slot # None
     THEN [sess[x] EXCEPT !.room = w.result.at[x], !.declared = "f2f",
                          !.slot = ticket[w.ticket].slot, !.by = w.ticket]
     ELSE [sess[x] EXCEPT !.room = w.result.at[x], !.declared = "f2f", !.by = w.ticket]]

\* Mutant: no savepoint, a denial keeps the sessions moved before it.
approve_commit_partial(p) ==
  LET w == proc[p] IN
  /\ w.pc = "approve"
  /\ sess' = Applied(w)
  /\ ticket' = Decided(w.ticket, IF w.result.ok THEN "approved" ELSE "denied", w.result.room)
  /\ decisions' = decisions + 1
  /\ proc' = [proc EXCEPT ![p] = Idle]
  /\ UNCHANGED <<today, schedule, booking, job>>

\* The ticket is approved with everything it moved, or the savepoint is rolled
\* back and the ticket denied with nothing moved.
approve_commit(p) ==
  LET w == proc[p] IN
  /\ w.pc = "approve"
  /\ IF w.result.ok
     THEN /\ sess' = Applied(w)
          /\ ticket' = Decided(w.ticket, "approved", w.result.room)
     ELSE /\ ticket' = Decided(w.ticket, "denied", ticket[w.ticket].room)
          /\ UNCHANGED sess
  /\ decisions' = decisions + 1
  /\ proc' = [proc EXCEPT ![p] = Idle]
  /\ UNCHANGED <<today, schedule, booking, job>>

-----------------------------------------------------------------------------
(***************************************************************************)
(* The materializer: a session is inserted, then the latest approved shift *)
(* is read and applied to it.                                              *)
(***************************************************************************)
\* The run goes by date and then by class, past the sessions it finds.
Missing == {x \in Occurrences : sess[x] = None /\ x[2] \in today..(today + Horizon)}

materialize_insert(x) ==
  /\ job = None /\ x \in Missing
  /\ \A y \in Missing : x[2] < y[2] \/ (x[2] = y[2] /\ x[1] <= y[1])
  /\ sess' = [sess EXCEPT ![x] = NewSession(schedule[x[1]].room, schedule[x[1]].slot)]
  /\ job' = x
  /\ UNCHANGED <<today, schedule, ticket, booking, decisions, proc>>

\* _apply_approved_shift's result on a new row.
Shifted(x, r) ==
  LET t == ticket[r] IN
  IF t.target = "online"
  THEN [sess[x] EXCEPT !.declared = "online", !.released = TRUE, !.by = r]
  ELSE IF t.room[x[1]] = None
  THEN [sess[x] EXCEPT !.declared = "f2f", !.by = r]
  ELSE [sess[x] EXCEPT !.declared = "f2f", !.by = r, !.room = t.room[x[1]],
                       !.slot = IF t.slot # None THEN t.slot ELSE @]

apply_approved_shift ==
  /\ job # None
  /\ sess' = IF ApprovedFor(job) = {} THEN sess
             ELSE [sess EXCEPT ![job] = Shifted(job, latest_shift(job))]
  /\ job' = None
  /\ UNCHANGED <<today, schedule, ticket, booking, decisions, proc>>

\* The process dies between the insert and the shift: later runs find the row.
materialize_crash ==
  /\ "crash" \in Ops
  /\ job # None
  /\ job' = None
  /\ UNCHANGED <<today, schedule, sess, ticket, booking, decisions, proc>>
=============================================================================
