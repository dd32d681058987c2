------------------------------ MODULE RoomDesk ------------------------------
(***************************************************************************)
(* The facilities office's own writes to the room tables: ad-hoc bookings  *)
(* and the edit of a running class (its room and times).  A booking asks   *)
(* the oracle and inserts in two statements with no lock between them; an  *)
(* edit holds its schedule row only.                                       *)
(***************************************************************************)
EXTENDS ModalityShift

booking_check(p, b) ==
  /\ "book" \in Ops /\ proc[p].pc = "idle"
  /\ Cardinality(InFlight("book")) < Cardinality({k \in Bookings : booking[k].status = "none"})
  /\ today <= b.date
  /\ room_is_free(sess, b.room, b.date, b.slot, None, {})
  /\ proc' = [proc EXCEPT ![p] = [pc |-> "book", row |->
       [status |-> "active", room |-> b.room, date |-> b.date, slot |-> b.slot]]]
  /\ UNCHANGED <<today, schedule, sess, ticket, booking, decisions, job>>

booking_create(p) ==
  /\ proc[p].pc = "book"
  /\ \E b \in Bookings : /\ booking[b].status = "none"
                         /\ booking' = [booking EXCEPT ![b] = proc[p].row]
  /\ proc' = [proc EXCEPT ![p] = Idle]
  /\ UNCHANGED <<today, schedule, sess, ticket, decisions, job>>

booking_cancel(b) ==
  /\ booking[b].status = "active"
  /\ booking' = [booking EXCEPT ![b].status = "cancelled"]
  /\ UNCHANGED <<today, schedule, sess, ticket, decisions, proc, job>>

\* The dates an edit must find the new room and time free on: every remaining
\* meeting without a session, or with one still scheduled.
EditedDates(c) == {d \in today..MaxDate : \/ sess[<<c, d>>] = None
                                          \/ sess[<<c, d>>].status = "scheduled"}

assert_occurrences_free(c, m, slot) ==
  HomeModality[c] = "online" \/
  \A d \in EditedDates(c) : room_is_free(sess, m, d, slot, <<c, d>>, {c})

update_schedule(p, e) ==
  /\ "edit" \in Ops /\ proc[p].pc = "idle"
  /\ \A q \in Procs : proc[q].pc = "edit" => proc[q].edit.class # e.class
  /\ [room |-> e.room, slot |-> e.slot] # schedule[e.class]
  /\ assert_occurrences_free(e.class, e.room, e.slot)
  /\ proc' = [proc EXCEPT ![p] = [pc |-> "edit", edit |-> e]]
  /\ UNCHANGED <<today, schedule, sess, ticket, booking, decisions, job>>

\* The schedule row and its future scheduled sessions move together.
update_commit(p) ==
  LET e == proc[p].edit IN
  /\ proc[p].pc = "edit"
  /\ schedule' = [schedule EXCEPT ![e.class] = [room |-> e.room, slot |-> e.slot]]
  /\ sess' = [x \in Occurrences |->
       IF x[1] = e.class /\ x[2] >= today /\ sess[x] # None
            /\ sess[x].status = "scheduled"
       THEN [sess[x] EXCEPT !.room = e.room, !.slot = e.slot] ELSE sess[x]]
  /\ proc' = [proc EXCEPT ![p] = Idle]
  /\ UNCHANGED <<today, ticket, booking, decisions, job>>
=============================================================================
