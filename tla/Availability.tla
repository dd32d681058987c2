---------------------------- MODULE Availability ----------------------------
(***************************************************************************)
(* The tables that say who has a room when, and the one oracle that reads  *)
(* them, ops/availability.py.  A class meets on every date of the model (a *)
(* date stands for a week); a slot is a half-open interval <<start, end>>; *)
(* all rooms are in one building and their numbers are the order of their  *)
(* codes.  "f2f" stands for F2F and Blended, which take the same path.     *)
(* Every operator that a transaction evaluates over its own uncommitted    *)
(* writes takes the session table S as an argument.                        *)
(***************************************************************************)
EXTENDS Integers, FiniteSets, Sequences

CONSTANTS
  Classes,       \* Schedule rows, numbered by primary key
  FacultyOf,     \* [Classes -> the faculty member teaching it]
  HomeRoom,      \* [Classes -> Rooms]
  HomeSlot,      \* [Classes -> Slots]
  HomeModality,  \* [Classes -> {"f2f", "online"}]
  Rooms,         \* room numbers, in the order of their codes
  Slots,         \* the slots classes and bookings may take
  MaxDate,       \* the last date (a bound)
  Tickets,       \* modality-shift requests that may be made (a bound)
  Bookings,      \* ad-hoc bookings that may be made (a bound)
  Procs,         \* web workers
  Lead,          \* policy modality_shift_lead_days
  Cooldown,      \* _REREQUEST_COOLDOWN_DAYS
  Horizon,       \* dates ahead that the materializer fills
  Asks,          \* what may be asked: [classes, target, slot, prefer] (a bound)
  Wants,         \* the bookings it may make: [room, date, slot] (a bound)
  Held,          \* the occurrences attendance may change (a bound)
  Edits,         \* the edits the office may make: [class, room, slot] (a bound)
  Ops,           \* the entry points this instance exercises (a bound)
  None

Dates == 1..MaxDate
Occurrences == Classes \X Dates

ASSUME AvailabilityAssumption ==
  /\ Classes \subseteq Nat /\ Rooms \subseteq Nat /\ MaxDate \in Nat
  /\ Slots \subseteq Nat \X Nat
  /\ HomeRoom \in [Classes -> Rooms] /\ HomeSlot \in [Classes -> Slots]
  /\ HomeModality \in [Classes -> {"f2f", "online"}]
  /\ Lead \in Nat /\ Cooldown \in Nat /\ Horizon \in Nat
  /\ None \notin Rooms /\ None \notin Slots /\ None \notin Tickets
  /\ None \notin {"f2f", "online"}

VARIABLES
  today,     \* the date
  schedule,  \* Schedule rows: room and slot of a class
  sess,      \* Session rows by occurrence, None before materialization
  ticket,    \* ModalityShiftRequest rows with their items
  booking,   \* Booking rows
  decisions, \* how many tickets have been decided (the order of decided_at)
  proc,      \* what each worker has read and not yet written
  job        \* the occurrence whose new session the materializer is finishing

vars == <<today, schedule, sess, ticket, booking, decisions, proc, job>>

-----------------------------------------------------------------------------
SessionRow == [status : {"scheduled", "active", "closed"}, room : Rooms,
               slot : Slots, declared : {"f2f", "online", None},
               released : BOOLEAN, by : Tickets \cup {None}]

\* A request with one item per class; room[c] is the item's assigned_room.
Ticket == [status : {"none", "pending", "approved", "rejected", "withdrawn",
                     "denied"},
           classes : SUBSET Classes, target : {"f2f", "online"},
           from : Dates, to : Dates, slot : Slots \cup {None},
           prefer : Rooms \cup {None}, room : [Classes -> Rooms \cup {None}],
           day : Nat, order : Nat]

NoTicket == [status |-> "none", classes |-> {}, target |-> "f2f", from |-> 1,
             to |-> 1, slot |-> None, prefer |-> None,
             room |-> [c \in Classes |-> None], day |-> 0, order |-> 0]

BookingRow == [status : {"none", "active", "cancelled"}, room : Rooms,
               date : Dates, slot : Slots]
NoBooking == [status |-> "none", room |-> CHOOSE m \in Rooms : TRUE, date |-> 1,
              slot |-> CHOOSE s \in Slots : TRUE]

Idle == [pc |-> "idle"]

InFlight(pc) == {p \in Procs : proc[p].pc = pc}

NewSession(room, slot) ==
  [status |-> "scheduled", room |-> room, slot |-> slot, declared |-> None,
   released |-> FALSE, by |-> None]

\* A booking starts as a row of its table; what may be asked, wanted and edited is
\* about the classes, rooms and slots there are.
ASSUME RowShapes ==
  /\ NoBooking \in BookingRow /\ None \notin SessionRow
  /\ Asks \subseteq [classes : SUBSET Classes, target : {"f2f", "online"},
                     slot : Slots \cup {None}, prefer : Rooms \cup {None}]
  /\ Wants \subseteq [room : Rooms, date : Dates, slot : Slots]
  /\ Edits \subseteq [class : Classes, room : Rooms, slot : Slots]
  /\ 1 \in Dates

\* What a worker holds between two of its steps: the row it will insert, the edit
\* it will make, or the sessions it has listed and the rooms it found for them.
Holds(w) ==
  \/ w = Idle
  \/ w \in [pc : {"submit"}, row : Ticket]
  \/ w \in [pc : {"book"}, row : BookingRow]
  \/ w \in [pc : {"edit"}, edit : Edits]
  \/ w \in [pc : {"approve"}, ticket : Tickets, listed : SUBSET Occurrences,
            result : [ok : BOOLEAN, at : [w.listed -> Rooms \cup {None}],
                      room : [Classes -> Rooms \cup {None}]]]

TypeOK ==
  /\ today \in Dates /\ decisions \in Nat /\ job \in Occurrences \cup {None}
  /\ schedule \in [Classes -> [room : Rooms, slot : Slots]]
  /\ sess \in [Occurrences -> SessionRow \cup {None}]
  /\ ticket \in [Tickets -> Ticket]
  /\ booking \in [Bookings -> BookingRow]
  /\ DOMAIN proc = Procs /\ \A p \in Procs : Holds(proc[p])

\* The term has just been activated: its first horizon is materialized.
Init ==
  /\ today = 1
  /\ schedule = [c \in Classes |-> [room |-> HomeRoom[c], slot |-> HomeSlot[c]]]
  /\ sess = [x \in Occurrences |-> IF x[2] <= 1 + Horizon
                                  THEN NewSession(HomeRoom[x[1]], HomeSlot[x[1]]) ELSE None]
  /\ ticket = [r \in Tickets |-> NoTicket]
  /\ booking = [b \in Bookings |-> NoBooking]
  /\ decisions = 0
  /\ proc = [p \in Procs |-> Idle]
  /\ job = None

-----------------------------------------------------------------------------
(***************************************************************************)
(* The oracle.                                                             *)
(***************************************************************************)
overlap(a, b) == a[1] < b[2] /\ b[1] < a[2]

\* declared_modality overrides the schedule's modality.
effective_modality(S, x) ==
  IF S[x].declared # None THEN S[x].declared ELSE HomeModality[x[1]]

Open(S, x) == S[x] # None /\ S[x].status \in {"scheduled", "active"}

session_occupies(S, m, d, slot, self) ==
  \E c \in Classes : LET x == <<c, d>> IN
    /\ x # self /\ Open(S, x)
    /\ S[x].room = m /\ ~S[x].released /\ overlap(S[x].slot, slot)
    /\ effective_modality(S, x) # "online"

booking_occupies(m, d, slot) ==
  \E b \in Bookings : /\ booking[b].status = "active"
                      /\ booking[b].room = m /\ booking[b].date = d
                      /\ overlap(booking[b].slot, slot)

\* Approved tickets whose window contains the occurrence, and the latest one.
ApprovedFor(x) == {r \in Tickets : /\ ticket[r].status = "approved"
                                   /\ x[1] \in ticket[r].classes
                                   /\ x[2] \in ticket[r].from..ticket[r].to}

latest_shift(x) ==
  CHOOSE r \in ApprovedFor(x) : \A q \in ApprovedFor(x) : ticket[q].order <= ticket[r].order

\* A class that has no session yet still owns its room, unless its latest
\* approved shift moved it online or reserved a room for it.
schedule_occupies(S, m, d, slot, without) ==
  \E c \in Classes \ without : LET x == <<c, d>> IN
    /\ S[x] = None /\ schedule[c].room = m /\ overlap(schedule[c].slot, slot)
    /\ IF ApprovedFor(x) = {} THEN HomeModality[c] # "online"
       ELSE /\ ticket[latest_shift(x)].target # "online"
            /\ ticket[latest_shift(x)].room[c] = None

\* The slot an approved item reserves: its time move, or the class's own.
ReservedSlot(r, c) == IF ticket[r].slot # None THEN ticket[r].slot ELSE schedule[c].slot

\* Mutant: only sessions on file hold a room.
reservation_occupies_never(m, d, slot, without) == FALSE

reservation_occupies(m, d, slot, without) ==
  \E c \in Classes \ without : \E r \in ApprovedFor(<<c, d>>) :
    /\ ticket[r].target # "online" /\ ticket[r].room[c] = m
    /\ overlap(ReservedSlot(r, c), slot)

room_is_free(S, m, d, slot, self, without) ==
  /\ ~session_occupies(S, m, d, slot, self)
  /\ ~booking_occupies(m, d, slot)
  /\ ~schedule_occupies(S, m, d, slot, without)
  /\ ~reservation_occupies(m, d, slot, without)

faculty_has_conflict(S, f, d, slot, self) ==
  \E c \in Classes : LET x == <<c, d>> IN
    x # self /\ FacultyOf[c] = f /\ Open(S, x) /\ overlap(S[x].slot, slot)

free_rooms_in_building(S, d, slot, self) ==
  {m \in Rooms : room_is_free(S, m, d, slot, self, {})}

\* available_rooms_for: the rooms offered for a session at its own slot.
available_rooms_for(S, x) == free_rooms_in_building(S, x[2], S[x].slot, x)
=============================================================================
