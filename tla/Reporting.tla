----------------------------- MODULE Reporting ------------------------------
(***************************************************************************)
(* The aggregates behind the dean's, HR's and the facilities office's      *)
(* pages (scheduling/reporting.py), as functions of the session table.     *)
(* The table goes through the life of its classes: check-ins early and     *)
(* late, overruns, absences, cancellations, repeated verifications, rooms  *)
(* moved or taken out of service, schedules dropped.  Whatever it holds,   *)
(* the reports must tell one story.  Times of a day are in ticks; hours    *)
(* are reported in tenths, as the code rounds them.                        *)
(***************************************************************************)
EXTENDS Integers, Sequences, SequencesExt, FiniteSets, FiniteSetsExt

CONSTANTS
  RSchedules, DayOf,           \* the classes and their weekday
  Slot0, SlotEdit,             \* each one's slot, and the slot an edit gives it
  RSessions, ScheduleOf, DateOf, ModalityOf,      \* the dated sessions
  DeptOf,                      \* a teacher's department
  RRooms, Building, FloorNo, Virtual,   \* rooms; codes starting with V are virtual
  Checkable,                   \* the sessions a checker reaches
  Offsets,                     \* how early or late a session's taps come, in ticks
  HourTicks, MinuteTicks, ChronicFloor, \* an hour, a minute, chronic lateness
  MaxEdits                     \* bound on what the office changes

NoTime == -1
NoDept == "no department"
Everyone == "everyone"

Slots == [room : RRooms, teacher : DOMAIN DeptOf, from : Nat, to : Nat]

\* "everyone" is nobody's name, and no department's.
ASSUME ReportingConstants ==
  /\ HourTicks \in Nat \ {0} /\ MinuteTicks \in Nat \ {0} /\ ChronicFloor \in Nat \ {0}
  /\ IsFiniteSet(RSchedules) /\ IsFiniteSet(RSessions) /\ IsFiniteSet(RRooms)
  /\ IsFiniteSet(DOMAIN DeptOf)
  /\ Slot0 \in [RSchedules -> Slots] /\ SlotEdit \in [RSchedules -> Slots]
  /\ \A c \in RSchedules : /\ Slot0[c].from < Slot0[c].to /\ SlotEdit[c].from < SlotEdit[c].to
                            /\ DayOf[c] \in 0..6
  /\ \A s \in RSessions : /\ ScheduleOf[s] \in RSchedules /\ DateOf[s] \in Nat
                           /\ Offsets[s] \subseteq Int
  /\ \A f \in DOMAIN DeptOf : f # Everyone /\ DeptOf[f] # Everyone

VARIABLES
  rtable,       \* Session rows: status, teacher, room, scheduled and actual times,
                \* ended_early, number of verifications; none before the week's are made
  slot,         \* Schedule rows: room, teacher, start and end time
  dropped,      \* schedules that are no longer ACTIVE
  outOfService, \* rooms out of service
  edits         \* what the office has changed so far (bound)

reportingVars == <<rtable, slot, dropped, outOfService, edits>>

ReportingInit ==
  /\ slot = Slot0 /\ rtable = <<>>
  /\ dropped = {} /\ outOfService = {} /\ edits = 0

Dated      == DOMAIN rtable
Sched(s)   == rtable[s].sched
SchedTo(s) == rtable[s].until
Teacher(s) == rtable[s].teacher
Held(s)    == rtable[s].status \in {"active", "completed"}

-----------------------------------------------------------------------------
\* What the scanning, checking and office surfaces do to the rows.
Update(s, row) ==
  /\ rtable' = [rtable EXCEPT ![s] = row]
  /\ UNCHANGED <<slot, dropped, outOfService>>

Unedited == edits' = edits
Edited   == edits < MaxEdits /\ edits' = edits + 1

\* The week's sessions are materialised.
sessions_made ==
  /\ rtable = <<>>
  /\ rtable' = [s \in RSessions |->
       LET at == slot[ScheduleOf[s]]
       IN  [status |-> "scheduled", teacher |-> at.teacher, room |-> at.room,
            sched |-> at.from, until |-> at.to, from |-> NoTime, to |-> NoTime,
            early |-> FALSE, checks |-> 0]]
  /\ Unedited /\ UNCHANGED <<slot, dropped, outOfService>>

class_checkin(s, t) ==
  /\ rtable[s].status = "scheduled"
  /\ Update(s, [rtable[s] EXCEPT !.status = "active", !.from = t]) /\ Unedited

class_checkout(s, t) ==
  /\ rtable[s].status = "active"
  /\ Update(s, [rtable[s] EXCEPT !.status = "completed", !.to = t, !.early = (t < SchedTo(s))])
  /\ Unedited

\* The sweep, or a checker's flag on a class that had started.
class_absent(s) ==
  /\ rtable[s].status \in {"scheduled", "active"}
  /\ Update(s, [rtable[s] EXCEPT !.status = "absent"]) /\ Unedited

class_cancel(s) ==
  /\ rtable[s].status = "scheduled"
  /\ Update(s, [rtable[s] EXCEPT !.status = "cancelled"]) /\ Edited

\* A checker's Verify; two checkers may both record one.
class_verify(s) ==
  /\ s \in Checkable /\ rtable[s].status = "active" /\ rtable[s].checks < 2
  /\ Update(s, [rtable[s] EXCEPT !.checks = @ + 1]) /\ Unedited

class_move(s, r) ==
  /\ rtable[s].status = "scheduled" /\ r \notin outOfService
  /\ Update(s, [rtable[s] EXCEPT !.room = r]) /\ Edited

room_service(r) ==
  /\ outOfService' = SymDiff(outOfService, {r})
  /\ Edited /\ UNCHANGED <<rtable, slot, dropped>>

\* update_schedule: the class takes its other slot, and with it the sessions still
\* to be held from the given day on; sessions already held keep their times.
schedule_update(c, today) ==
  LET at == SlotEdit[c]
      future(s) == ScheduleOf[s] = c /\ rtable[s].status = "scheduled" /\ DateOf[s] >= today
  IN  /\ c \notin dropped /\ slot[c] # at
      /\ slot' = [slot EXCEPT ![c] = at]
      /\ rtable' = [s \in Dated |->
           IF future(s) THEN [rtable[s] EXCEPT !.teacher = at.teacher, !.room = at.room,
                                               !.sched = at.from, !.until = at.to]
           ELSE rtable[s]]
      /\ Edited /\ UNCHANGED <<dropped, outOfService>>

\* cancel_schedule: the class is archived, its coming sessions cancelled.
schedule_drop(c, today) ==
  LET future(s) == ScheduleOf[s] = c /\ rtable[s].status = "scheduled" /\ DateOf[s] >= today
  IN  /\ c \notin dropped
      /\ dropped' = dropped \union {c}
      /\ rtable' = [s \in Dated |->
           IF future(s) THEN [rtable[s] EXCEPT !.status = "cancelled"] ELSE rtable[s]]
      /\ Edited /\ UNCHANGED <<slot, outOfService>>

\* Check-ins and check-outs come before and after the scheduled time.
ReportingNext ==
  \/ \E s \in Dated :
       \/ \E d \in Offsets[s] : class_checkin(s, Sched(s) + d) \/ class_checkout(s, SchedTo(s) + d)
       \/ class_absent(s) \/ class_cancel(s) \/ class_verify(s)
       \/ \E r \in RRooms : class_move(s, r)
  \/ sessions_made
  \/ \E r \in RRooms \ Virtual : Dated # {} /\ room_service(r)
  \/ \E c \in RSchedules, today \in {DateOf[s] : s \in Dated} :
       schedule_update(c, today) \/ schedule_drop(c, today)

-----------------------------------------------------------------------------
\* Rounding, half up: percentages, tenths of an hour, tenths of a minute.
HalfUp(n, d) == (2 * n + d) \div (2 * d)
pct(part, whole) == IF whole <= 0 THEN 0 ELSE HalfUp(100 * part, whole)
hours(ticks) == HalfUp(10 * ticks, HourTicks)
avg_minutes(ticks, n) == IF n = 0 THEN 0 ELSE HalfUp(10 * ticks, n * MinuteTicks)

Total(f) == SumFunction(f)

\* A function as it is, worked out once instead of at every use.
Table(f) == CHOOSE t \in {f} : t = f
AtLeastZero(n) == IF n > 0 THEN n ELSE 0

\* A scope: dates, the day the numbers are as of, and a department or a teacher.
Scope(from, to, asOf) == [start |-> from, end |-> to, as_of |-> asOf, dept |-> Everyone, teacher |-> Everyone]
OfDept(sc, d) == [sc EXCEPT !.dept = d]
OfTeacher(sc, f) == [sc EXCEPT !.teacher = f]

scoped_sessions(sc) ==
  {s \in Dated :
     /\ sc.start <= DateOf[s] /\ DateOf[s] <= sc.end /\ DateOf[s] <= sc.as_of
     /\ ScheduleOf[s] \notin dropped
     /\ sc.dept = Everyone \/ DeptOf[Teacher(s)] = sc.dept
     /\ sc.teacher = Everyone \/ Teacher(s) = sc.teacher}

exclude_virtual(S) == {s \in S : rtable[s].room \notin Virtual}
physical_rooms == (RRooms \ Virtual) \ outOfService

-----------------------------------------------------------------------------
\* The timetable's own shape: blocks by start time, and the cells they fill.
active_schedules == RSchedules \ dropped
span(c) == AtLeastZero(slot[c].to - slot[c].from)

Ladder == {slot[c].from : c \in active_schedules}

\* The commonest duration of the classes that start a block, the longest of a tie.
block_duration(b) ==
  LET here == {c \in active_schedules : slot[c].from = b}
      votes(d) == Cardinality({c \in here : span(c) = d})
      top == Max({votes(span(c)) : c \in here})
  IN  Max({d \in {span(c) : c \in here} : votes(d) = top})

timetabled_cells == {<<DayOf[c], slot[c].from>> : c \in active_schedules}

\* Days of the scope, and those of them that teach.
LastDay(sc) == IF sc.as_of < sc.end THEN sc.as_of ELSE sc.end
Days(sc) == sc.start..LastDay(sc)
weekday(d) == d % 7
weekday_occurrences(sc, w) == Cardinality({d \in Days(sc) : weekday(d) = w})

cell_seconds(sc) ==
  Total([d \in Days(sc) |->
           Total([c \in {x \in timetabled_cells : x[1] = weekday(d)} |-> block_duration(c[2])])])

-----------------------------------------------------------------------------
\* Attendance: per teacher, per department, one teacher's scorecard.
minutes_late(s) == IF rtable[s].from = NoTime THEN 0 ELSE AtLeastZero(rtable[s].from - Sched(s))

verified_count(S) == Cardinality({s \in S : rtable[s].checks > 0})

Lateness(S) ==
  LET started == {s \in S : Held(s) /\ rtable[s].from # NoTime}
      late == {s \in started : minutes_late(s) >= MinuteTicks}
  IN  [minutes_late_avg |-> avg_minutes(Total([s \in started |-> minutes_late(s)]), Cardinality(started)),
       late_sessions |-> Cardinality(late),
       chronic_late |-> /\ Cardinality(started) >= ChronicFloor
                        /\ 10 * Cardinality(late) >= 3 * Cardinality(started)]

Counts(S) ==
  LET held == Cardinality({s \in S : Held(s)})
  IN  [scheduled |-> Cardinality(S), held |-> held,
       absent |-> Cardinality({s \in S : rtable[s].status = "absent"}),
       attendance_pct |-> pct(held, Cardinality(S))]

faculty_attendance(sc) ==
  LET all == scoped_sessions(sc)
      mine(f) == {s \in all : Teacher(s) = f}
  IN  [f \in {Teacher(s) : s \in all} |->
         [counts |-> Counts(mine(f)), verified |-> verified_count(mine(f)),
          early_ends |-> Cardinality({s \in mine(f) : rtable[s].early}),
          absences |-> {<<ScheduleOf[s], DateOf[s]>> : s \in {x \in mine(f) : rtable[x].status = "absent"}},
          late |-> Lateness(mine(f))]]

dept_summary(sc) ==
  [counts |-> Counts(scoped_sessions(sc)),
   faculty_count |-> Cardinality({Teacher(s) : s \in scoped_sessions(sc)})]

\* Mutant: the card looks at every session of the teacher, dropped classes too.
faculty_scorecard_dropped(sc, f) ==
  LET mine == {s \in Dated : Teacher(s) = f /\ sc.start <= DateOf[s] /\ DateOf[s] <= sc.end
                                 /\ DateOf[s] <= sc.as_of}
      held == {s \in mine : Held(s)}
  IN  [counts |-> Counts(mine), early_ends |-> Cardinality({s \in mine : rtable[s].early}),
       modalities |-> [m \in {ModalityOf[s] : s \in held} |->
                         Cardinality({s \in held : ModalityOf[s] = m})],
       late |-> Lateness(mine)]

faculty_scorecard(sc, f) ==
  LET mine == scoped_sessions(OfTeacher(sc, f))
      held == {s \in mine : Held(s)}
  IN  [counts |-> Counts(mine), early_ends |-> Cardinality({s \in mine : rtable[s].early}),
       modalities |-> [m \in {ModalityOf[s] : s \in held} |->
                         Cardinality({s \in held : ModalityOf[s] = m})],
       late |-> Lateness(mine)]

\* HR lists every session of the dates, dropped classes and later days included,
\* under the label of its status.
status_label(status) ==
  CASE status \in {"active", "completed"} -> "Present"
    [] status = "absent" -> "Absent"
    [] OTHER -> "Scheduled"

hr_rows(sc, label) ==
  {s \in Dated : /\ sc.start <= DateOf[s] /\ DateOf[s] <= sc.end
                     /\ status_label(rtable[s].status) = label}

-----------------------------------------------------------------------------
\* Checking: how much of what was held a checker has seen.
HeldIn(sc) == {s \in exclude_virtual(scoped_sessions(sc)) : Held(s)}
FloorOf(s) == <<Building[rtable[s].room], FloorNo[rtable[s].room]>>

coverage_by_building_day(sc) ==
  LET key(s) == <<Building[rtable[s].room], DayOf[ScheduleOf[s]]>>
      here(k) == {s \in HeldIn(sc) : key(s) = k}
  IN  [k \in {key(s) : s \in HeldIn(sc)} |->
         [held |-> Cardinality(here(k)), verified |-> verified_count(here(k)),
          pct |-> pct(verified_count(here(k)), Cardinality(here(k)))]]

zero_coverage_floors(sc) ==
  {k \in {FloorOf(s) : s \in HeldIn(sc)} :
     verified_count({s \in HeldIn(sc) : FloorOf(s) = k}) = 0}
=============================================================================
