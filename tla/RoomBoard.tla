----------------------------- MODULE RoomBoard ------------------------------
(***************************************************************************)
(* The live surfaces: the office's room board, panel and room page, the    *)
(* guard's floor monitor, room page and teacher search (web/room_state.py  *)
(* and its callers), the teacher's home and schedule cards, as functions   *)
(* of the session table, the timetable and the time of day.                *)
(***************************************************************************)
EXTENDS Reporting

CONSTANTS
  Grace,          \* ticks after the start within which a class is only "starting"
  ClassModality,  \* a schedule's modality, which a session's own may override
  CourseOf        \* a schedule's course code

NoClass == "no class"

ASSUME BoardConstants == Grace \in Nat /\ NoClass \notin RSessions

\* An online class does not occupy a physical room.
occupies(s, r) == r \in Virtual \/ ModalityOf[s] # "online"

\* Today's classes of a room, and the first of those in their window.
today_in(r, day) == {s \in Dated : DateOf[s] = day /\ rtable[s].room = r /\ occupies(s, r)}
SlotCovers(s, now) == Sched(s) <= now /\ now < SchedTo(s)
Earliest(S) == IF S = {} THEN NoClass
               ELSE CHOOSE s \in S : \A x \in S : Sched(s) <= Sched(x)

current(r, day, now) == Earliest({s \in today_in(r, day) : SlotCovers(s, now)})

\* Mutant: the grace period is looked at before the check-in.
room_tile_grace_first(r, day, now) ==
  LET s == current(r, day, now)
  IN  CASE s = NoClass -> IF today_in(r, day) = {} THEN "idle" ELSE "free"
        [] OTHER -> IF now > Sched(s) + Grace THEN "absent"
                    ELSE IF rtable[s].status = "active" THEN "in_session" ELSE "starting"

room_tile(r, day, now) ==
  LET s == current(r, day, now)
  IN  IF s = NoClass THEN IF today_in(r, day) = {} THEN "idle" ELSE "free"
      ELSE CASE rtable[s].status = "active" -> "in_session"
             [] rtable[s].status = "absent" -> "absent"
             [] rtable[s].status = "completed" -> "free"
             [] OTHER -> IF now > Sched(s) + Grace THEN "absent" ELSE "starting"

\* The board: the rooms shown, those hidden as idle, and the problems counted.
room_board(day, now, all) ==
  LET tiles == [r \in RRooms |-> room_tile(r, day, now)]
      shown == {r \in RRooms : all \/ tiles[r] # "idle"}
  IN  [tiles |-> [r \in shown |-> tiles[r]],
       hidden |-> Cardinality(RRooms \ shown),
       problems |-> Cardinality({r \in shown : tiles[r] \in {"absent", "starting"}})]

\* A guard's floors, and a teacher looked up by name.
monitor_rows(floors, day) ==
  {s \in Dated : DateOf[s] = day /\ <<Building[rtable[s].room], FloorNo[rtable[s].room]>> \in floors}

locate(f, day, now) ==
  LET mine == {s \in Dated : Teacher(s) = f /\ DateOf[s] = day}
      here == Earliest({s \in mine : rtable[s].status = "active"})
  IN  [current |-> here, online |-> here # NoClass /\ ModalityOf[here] = "online",
       next |-> Earliest({s \in mine : Sched(s) >= now /\ rtable[s].status # "absent"})]

-----------------------------------------------------------------------------
\* A room's week: its classes, and the campus's block grid with what fills each cell.
week_classes(r) ==
  {c \in active_schedules : slot[c].room = r /\ (r \in Virtual \/ ClassModality[c] # "online")}

Weekdays == 0..6

room_timetable(r) ==
  [cell \in Weekdays \X Ladder |->
     {c \in week_classes(r) : /\ DayOf[c] = cell[1]
                              /\ slot[c].from <= cell[2] /\ cell[2] < slot[c].to}]

room_panel(r, day, now) ==
  [tile |-> room_tile(r, day, now), today |-> today_in(r, day), week |-> week_classes(r)]

\* The office's page of a room lists what is coming, whatever became of it.
room_detail(r, day) ==
  [week |-> week_classes(r), timetable |-> room_timetable(r),
   upcoming |-> {s \in Dated : DateOf[s] >= day /\ rtable[s].room = r /\ occupies(s, r)}]

\* A guard opens the rooms of the floors posted to, and no other exists for them.
NotFound == "not found"
guard_room_detail(floors, r, day, now) ==
  IF <<Building[r], FloorNo[r]>> \in floors
  THEN [tile |-> room_tile(r, day, now), today |-> today_in(r, day), timetable |-> room_timetable(r)]
  ELSE NotFound

-----------------------------------------------------------------------------
\* The teacher's cards: classes that one check-in covers are shown as one.
merged(a, x) ==
  /\ a # x /\ Teacher(a) = Teacher(x) /\ DateOf[a] = DateOf[x] /\ Sched(a) = Sched(x)
  /\ \/ ModalityOf[a] = "online" /\ ModalityOf[x] = "online"
     \/ rtable[a].room = rtable[x].room
     \/ CourseOf[ScheduleOf[a]] = CourseOf[ScheduleOf[x]]

\* Rows ordered by date and start; what ties are ordered by is the database's.
EarlierOrTied(a, b) == DateOf[a] < DateOf[b] \/ (DateOf[a] = DateOf[b] /\ Sched(a) <= Sched(b))
InOrder(S) ==
  CHOOSE q \in [1..Cardinality(S) -> S] :
    \A i, j \in 1..Cardinality(S) : i < j => q[i] # q[j] /\ EarlierOrTied(q[i], q[j])

\* A class not yet on a card opens one, with every class it merges with.  The cards are
\* told by the places of the classes that open them.
opening(q) ==
  CHOOSE O \in SUBSET DOMAIN q :
    \A i \in DOMAIN q : i \in O <=> \A j \in O : j < i => ~merged(q[j], q[i])

group_merged(S) ==
  LET q == InOrder(S)
  IN  [i \in opening(q) |-> [rep |-> q[i], sessions |-> {q[i]} \union {x \in S : merged(q[i], x)}]]

faculty_cards(f, day) ==
  LET mine == {s \in Dated : Teacher(s) = f}
  IN  [today |-> group_merged({s \in mine : DateOf[s] = day}),
       week  |-> group_merged({s \in mine : day < DateOf[s] /\ DateOf[s] < day + 7})]

\* Home shows the card in progress, else the next one today, else the week's first.
First(cards, places) == cards[Min(places)].rep
home(f, day, now) ==
  LET cards == faculty_cards(f, day)
      today == cards.today
      live  == {i \in DOMAIN today : \E s \in today[i].sessions : rtable[s].status = "active"}
      next  == {i \in DOMAIN today : \E s \in today[i].sessions :
                  rtable[s].status = "scheduled" /\ SchedTo(s) >= now}
  IN  [hero |-> CASE live # {} -> First(today, live)
                  [] live = {} /\ next # {} -> First(today, next)
                  [] OTHER -> IF DOMAIN cards.week = {} THEN NoClass
                              ELSE First(cards.week, DOMAIN cards.week),
       live |-> live # {}]

\* The teacher's page of today's online classes, and the Start it offers.
is_effective_online(s) == ModalityOf[s] = "online"
online_state(s, now) ==
  CASE rtable[s].status \in {"active", "completed", "absent"} -> rtable[s].status
    [] OTHER ->
         IF now > Sched(s) + Grace THEN "past-grace"
         ELSE IF now < Sched(s) THEN "upcoming" ELSE "startable"
STARTABLE_STATES == {"upcoming", "startable"}
online_row(s, now) ==
  [state |-> online_state(s, now), can_start |-> online_state(s, now) \in STARTABLE_STATES]
online_rows(f, day, now) ==
  [s \in {x \in Dated : Teacher(x) = f /\ DateOf[x] = day /\ is_effective_online(x)} |->
     online_row(s, now)]
\* The rungs of online_start that concern the row.
online_start_takes(s, now) ==
  is_effective_online(s) /\ rtable[s].status = "scheduled" /\ now <= Sched(s) + Grace

-----------------------------------------------------------------------------
Moments == 0..(1 + Max({SchedTo(s) : s \in Dated}))
AsTimetabled(s) ==
  LET c == ScheduleOf[s]
  IN  /\ c \notin dropped /\ ModalityOf[s] = ClassModality[c] /\ DayOf[c] = weekday(DateOf[s])
      /\ <<slot[c].room, slot[c].from, slot[c].to>> = <<rtable[s].room, Sched(s), SchedTo(s)>>
Dates == {DateOf[s] : s \in Dated}

\* A room is flagged only for a class that belongs in it now and that nobody is running
\* or has finished; its printed week has the block taken if the class is as timetabled.
FlagTrue(r, day, now) ==
  room_board(day, now, TRUE).tiles[r] \in {"absent", "starting"} =>
    \E s \in Dated : /\ rtable[s].room = r /\ DateOf[s] = day /\ SlotCovers(s, now)
                     /\ r \in Virtual \/ ModalityOf[s] # "online"
                     /\ ~Held(s)
                     /\ AsTimetabled(s) /\ now \in Ladder =>
                          room_timetable(r)[<<weekday(day), now>>] # {}

\* A class merges with one the other does not merge with.
Spoken(x, y, S) == \E a \in S \ {x, y} : merged(a, x) /\ ~merged(a, y)

CardsTrue(cards, mine) ==
  /\ mine = UNION {cards[i].sessions : i \in DOMAIN cards}
  /\ \A x, y \in mine : merged(x, y) =>
       \/ \E i \in DOMAIN cards : {x, y} \subseteq cards[i].sessions
       \/ Spoken(x, y, mine) /\ Spoken(y, x, mine)

HomeTrue(page, s, day) ==
  /\ page.live <=> s # NoClass
  /\ page.live => Sched(page.hero) = Sched(s) /\ DateOf[page.hero] = day

OnlineTrue(rows, found, now) ==
  /\ found.online => rows[found.current].state = "active"
  /\ \A x \in DOMAIN rows : rtable[x].status # "cancelled" =>
       (rows[x].can_start <=> online_start_takes(x, now))

FoundThere(found, day, now) ==
  LET s == found.current
      r == rtable[s].room
      floor == <<Building[r], FloorNo[r]>>
      shown == guard_room_detail({floor}, r, day, now)
  IN  s # NoClass =>
        /\ s \in monitor_rows({floor}, day)
        /\ ~found.online /\ SlotCovers(s, now) /\ (\A x \in today_in(r, day) \ {s} : ~SlotCovers(x, now))
           => shown.tile = "in_session" /\ s \in shown.today

\* The board tells the truth, at every moment of the day: a room is flagged only for a
\* class that belongs in it now and that nobody is running or has finished, and the
\* room's printed week has that block taken if the class is still as timetabled; where
\* the search sends a guard, the guard finds a class, on the monitor of that floor and,
\* for its whole slot, in session on the board and on the room's page unless another
\* class is in the room; the teacher's home shows a class in progress exactly when the
\* search finds one, the same; every class of the day is on a card, and two that one
\* check-in covers share one, unless each of them merges with a class the other does
\* not; and the page of online classes has the class the search calls online as in
\* session, and offers a Start exactly where the request would be taken ("the page can
\* never offer a Start that the POST would then refuse", which a cancelled class is the
\* exception to).
BoardTrue ==
  \A day \in Dates : \A now \in Moments :
    /\ \A r \in RRooms : FlagTrue(r, day, now)
    /\ \A f \in DOMAIN DeptOf :
         LET found == locate(f, day, now)
         IN  /\ HomeTrue(home(f, day, now), found.current, day)
             /\ CardsTrue(faculty_cards(f, day).today, {x \in Dated : Teacher(x) = f /\ DateOf[x] = day})
             /\ OnlineTrue(online_rows(f, day, now), found, now)
             /\ FoundThere(found, day, now)
=============================================================================
