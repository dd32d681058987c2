------------------------------- MODULE Rooms --------------------------------
(***************************************************************************)
(* Room reservations as a whole: faculty and dean (ModalityShift), the     *)
(* facilities office (RoomDesk), the materializer, and the classes being   *)
(* held or falling out meanwhile.                                          *)
(***************************************************************************)
EXTENDS RoomDesk

\* Today's classes are held, marked absent or cancelled: the parts of
\* attendance that free a room (modelled in detail in Attendance).
session_progress(x) ==
  /\ x \in Held /\ Open(sess, x) /\ today = x[2]
  /\ \E st \in {"active", "closed"} \ {sess[x].status} :
       sess' = [sess EXCEPT ![x].status = st]
  /\ UNCHANGED <<today, schedule, ticket, booking, decisions, proc, job>>

NextDay ==
  /\ today < MaxDate
  /\ today' = today + 1
  /\ UNCHANGED <<schedule, sess, ticket, booking, decisions, proc, job>>

\* A worker dies, or is a deadlock victim, before its commit.
Abort(p) ==
  /\ proc[p].pc # "idle"
  /\ proc' = [proc EXCEPT ![p] = Idle]
  /\ UNCHANGED <<today, schedule, sess, ticket, booking, decisions, job>>

Requesting(p) ==
  \/ \E ask \in Asks, win \in Windows : submit_check(p, ask, win)
  \/ submit_commit(p)

Deciding(p) ==
  \/ \E r \in Tickets : approve(p, r)
  \/ approve_commit(p)

Desk(p) ==
  \/ \E b \in Wants : booking_check(p, b)
  \/ booking_create(p)
  \/ \E e \in Edits : update_schedule(p, e)
  \/ update_commit(p)

Materializing ==
  \/ \E x \in Occurrences : materialize_insert(x)
  \/ apply_approved_shift \/ materialize_crash

Next ==
  \/ \E p \in Procs : Requesting(p) \/ Deciding(p) \/ Desk(p) \/ Abort(p)
  \/ modality_withdraw
  \/ \E r \in Tickets : reject_modality_shift(r)
  \/ \E b \in Bookings : booking_cancel(b)
  \/ Materializing
  \/ \E x \in Occurrences : session_progress(x)
  \/ NextDay

Spec == Init /\ [][Next]_vars

-----------------------------------------------------------------------------
\* A request is decided once and for all: a withdrawal, a rejection and an
\* approval already under way cannot overwrite each other, because each looks
\* at the status again behind the request's lock.  Once off the dean's queue it
\* never comes back, and its teacher's page shows the same decision ever after.
DecidedOnce ==
  [][\A c \in Classes : \A r \in modality_mine(FacultyOf[c]) \ queue :
       /\ ticket'[r] = ticket[r]
       /\ r \in modality_mine(FacultyOf[c])' \ queue']_vars

\* No session carries the shift of a request that was not approved: a denial
\* (no room, or a time move that double-books) rolls back every session it had
\* already moved, and a withdrawn or rejected request moves none.
OnlyApprovedApplied ==
  \A x \in Occurrences : sess[x] # None /\ sess[x].by # None
    => ticket[sess[x].by].status = "approved"

\* An approval never moves a session into a room that another class holds
\* under an earlier approval on that date and time (resolve_shift_room checks
\* again at write time, and the term lock keeps approvals apart).  Excepted are
\* rows whose times change between the look and the write, which nothing keeps
\* from happening: a class the office has edited (edits take another lock), and
\* a row the materializer shifted under an earlier approval, unless the request
\* sets the time itself.
ApprovalTakesUnreservedRoom ==
  [][\A x \in Occurrences : \A r \in Tickets :
       /\ ticket[r].status = "pending" /\ ticket'[r].status = "approved"
       /\ ticket[r].target = "f2f" /\ sess[x] # None /\ sess'[x].by = r
       /\ schedule[x[1]].slot = HomeSlot[x[1]]
       /\ ticket[r].slot # None \/ sess[x].by = None
       => \A c \in Classes \ {x[1]} : \A q \in ApprovedFor(<<c, x[2]>>) :
            /\ ticket[q].target = "f2f" /\ ticket[q].room[c] = sess'[x].room
            /\ schedule[c].slot = HomeSlot[c]
            => ~overlap(ReservedSlot(q, c), sess'[x].slot)]_vars

\* "sessions created later in the horizon already carry the approved
\* modality/room" (docs/ARCHITECTURE.md): once the materializer has moved on,
\* a scheduled session inside an approved window carries that approval.
ShiftReachesSessions ==
  \A x \in Occurrences :
    /\ sess[x] # None /\ job # x /\ ApprovedFor(x) # {}
    /\ sess[x].status = "scheduled"
    => sess[x].by \in ApprovedFor(x)
=============================================================================
