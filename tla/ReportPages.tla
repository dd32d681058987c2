----------------------------- MODULE ReportPages ----------------------------
(***************************************************************************)
(* The pages and exports built on the aggregates: the dean's and the       *)
(* facilities office's dashboards, reports and scorecards, the utilization *)
(* page and its CSV, HR's attendance list and payroll file, the teacher's  *)
(* own history.  The same sessions reach a reader through several of them, *)
(* and they must agree.                                                    *)
(***************************************************************************)
EXTENDS RoomReports, RoomBoard

CONSTANT Scopes   \* the scopes pages are opened with

ASSUME PageConstants ==
  \A sc \in Scopes : /\ sc = Scope(sc.start, sc.end, sc.as_of)
                     /\ sc.start \in Nat /\ sc.end \in Nat /\ sc.as_of \in Nat

OpenedScopes == IF Dated = {} THEN {} ELSE Scopes

\* The facilities office.
ifo_dashboard(sc) ==
  [summary |-> dept_summary(sc), occupancy |-> room_utilization(sc),
   rows |-> faculty_attendance(sc), coverage |-> coverage_by_building_day(sc),
   zero_floors |-> zero_coverage_floors(sc)]

utilization_cards(sc, grid, rooms) ==
  [grid |-> grid, rollup |-> building_floor_rollup(rooms, cell_seconds(sc)),
   breakdown |-> rooms, saturation |-> block_saturation(grid),
   occupancy |-> room_utilization(sc), ghosts |-> ghost_rooms(rooms)]

ifo_utilization(sc) ==
  utilization_cards(sc, Table(room_heat_grid(sc)), Table(room_breakdown(sc)))

utilization_csv(sc) == room_breakdown(sc)

\* The dean, always of one department; a dean without one sees empty pages.
dean_dashboard(sc, d) ==
  IF d = NoDept THEN [counts |-> [scheduled |-> 0, held |-> 0, absent |-> 0, attendance_pct |-> 0],
                      faculty_count |-> 0]
  ELSE dept_summary(OfDept(sc, d))

dean_reports(sc, d) == IF d = NoDept THEN <<>> ELSE faculty_attendance(OfDept(sc, d))

\* A scorecard page, and its CSV, which is the teacher's row of the report.
scorecard(sc, f) == faculty_scorecard(sc, f)
scorecard_export(sc, f) == LET rows == faculty_attendance(sc)
                           IN  IF f \in DOMAIN rows THEN {rows[f]} ELSE {}

\* The dean opens the cards of the department's own teachers; others are not found.
MayOpen(d, f) == d # NoDept /\ DeptOf[f] = d
dean_scorecard(sc, d, f) == IF MayOpen(d, f) THEN {faculty_scorecard(sc, f)} ELSE {}
dean_scorecard_export(sc, d, f) ==
  LET rows == faculty_attendance(OfDept(sc, d))
  IN  IF MayOpen(d, f) /\ f \in DOMAIN rows THEN {rows[f]} ELSE {}

\* The consolidated report as a file: eight cells a teacher, the same in both formats;
\* the PDF says so when there is no row.
ReportCells(rows) ==
  {<<f, rows[f].counts.scheduled, rows[f].counts.held, rows[f].counts.absent,
     rows[f].counts.attendance_pct, rows[f].verified, rows[f].late.minutes_late_avg,
     rows[f].late.chronic_late>> : f \in DOMAIN rows}
build_csv(rows) == ReportCells(rows)
build_pdf(rows) == IF rows = <<>> THEN {"no data"} ELSE ReportCells(rows)

dean_report_export(sc, d, fmt) ==
  LET rows == dean_reports(sc, d)
  IN  CASE fmt = "csv" -> build_csv(rows) [] fmt = "pdf" -> build_pdf(rows) [] OTHER -> {NotFound}

-----------------------------------------------------------------------------
\* HR's list, under its filters of teacher and department, and the payroll file
\* streamed from the same query: one line a session.
attendance(sc, f, d) ==
  {s \in UNION {hr_rows(sc, label) : label \in {"Present", "Absent", "Scheduled"}} :
     (f = Everyone \/ Teacher(s) = f) /\ (d = Everyone \/ DeptOf[Teacher(s)] = d)}

Line(s) == [session |-> s, late |-> minutes_late(s) \div MinuteTicks,
            status |-> status_label(rtable[s].status), verified |-> rtable[s].checks > 0]
attendance_csv(sc, f, d) == {Line(s) : s \in attendance(sc, f, d)}

\* A page of a list, newest first: a number that is none gives the first page, one out
\* of range the last.
NewestFirst(S) == Reverse(InOrder(S))
NumPages(rows, n) == Max({1, (Len(rows) + n - 1) \div n})
PageNumber(raw, last) == IF raw = NoTime THEN 1 ELSE IF raw \in 1..last THEN raw ELSE last
PageRows(rows, k, n) == SubSeq(rows, (k - 1) * n + 1, Min({k * n, Len(rows)}))
paginate(rows, raw, n) == PageRows(rows, PageNumber(raw, NumPages(rows, n)), n)

\* The teacher's history: the same lines, only the teacher's own; a bound that is no
\* date is left out.
faculty_history(f, from, to) ==
  {Line(s) : s \in {x \in Dated : /\ Teacher(x) = f
                                  /\ from = NoTime \/ from <= DateOf[x]
                                  /\ to = NoTime \/ DateOf[x] <= to}}

-----------------------------------------------------------------------------
Depts == {DeptOf[f] : f \in DOMAIN DeptOf} \ {NoDept}
Unaffiliated(sc) == {s \in scoped_sessions(sc) : DeptOf[Teacher(s)] = NoDept}

\* Summaries: the office's is the deans' plus the teachers outside the departments, and
\* each dean's is the sum of its report's rows.
TotalsAdd(sc, office) ==
  \A k \in {"scheduled", "held", "absent"} :
    /\ office.summary.counts[k] =
         Total([d \in Depts |-> dean_dashboard(sc, d).counts[k]]) + Counts(Unaffiliated(sc))[k]
    /\ \A d \in Depts : dean_dashboard(sc, d).counts[k] =
         Total([f \in DOMAIN dean_reports(sc, d) |-> dean_reports(sc, d)[f].counts[k]])

\* A teacher's card and the row exported for it.
CardAgrees(card, rows) ==
  /\ \A row \in rows : /\ card.counts = row.counts /\ card.late = row.late
                        /\ card.early_ends = row.early_ends
                        /\ Total(card.modalities) = row.counts.held
  /\ rows = {} => card.counts.scheduled = 0

\* A dean finds the cards of the department's own teachers, and no others.
OwnCards(sc, d, f) ==
  /\ dean_scorecard(sc, d, f) = IF d # NoDept /\ DeptOf[f] = d THEN {scorecard(sc, f)} ELSE {}
  /\ dean_scorecard_export(sc, d, f) =
       IF d # NoDept /\ DeptOf[f] = d THEN scorecard_export(sc, f) ELSE {}

FileWhole(sc, d) ==
  LET file == dean_report_export(sc, d, "csv")
  IN  /\ Cardinality(file) = dean_dashboard(sc, d).faculty_count
      /\ dean_report_export(sc, d, "pdf") \in {file, {"no data"}}

\* HR's lines of a teacher, the teacher's history, and the teacher's row.
LinesAgree(sc, f) ==
  LET lines == {x \in attendance_csv(sc, f, Everyone) :
                  ScheduleOf[x.session] \notin dropped /\ DateOf[x.session] <= sc.as_of}
  IN  /\ attendance_csv(sc, f, DeptOf[f]) = faculty_history(f, sc.start, sc.end)
      /\ \A row \in scorecard_export(sc, f) :
           /\ row.verified = Cardinality({x \in lines : x.verified})
           /\ row.late.late_sessions =
                Cardinality({x \in lines : x.status = "Present" /\ x.late > 0})

PresentIsHeld(sc) ==
  {s \in hr_rows(sc, "Present") : ScheduleOf[s] \notin dropped /\ DateOf[s] <= sc.as_of}
    = {s \in scoped_sessions(sc) : Held(s)}

PagesWhole(rows, n) ==
  /\ FlattenSeq([k \in 1..NumPages(rows, n) |-> paginate(rows, k, n)]) = rows
  /\ \A raw \in {0, Len(rows) + 1} :
       paginate(rows, raw, n) = paginate(rows, NumPages(rows, n), n)
  /\ rows # <<>> => paginate(rows, Len(rows) + 1, n) # <<>>

CoverageTrue(coverage, zero_floors) ==
  /\ \A k \in DOMAIN coverage : coverage[k].verified <= coverage[k].held
  /\ \A floor \in zero_floors : \E k \in DOMAIN coverage :
       k[1] = floor[1] /\ coverage[k].verified < coverage[k].held

AttendanceAgrees(sc, office) ==
  /\ TotalsAdd(sc, office)
  /\ \A f \in DOMAIN DeptOf :
       /\ CardAgrees(scorecard(sc, f), scorecard_export(sc, f))
       /\ \A d \in Depts \union {NoDept} : OwnCards(sc, d, f)
       /\ LinesAgree(sc, f)
  /\ PresentIsHeld(sc)
  /\ \A d \in Depts : FileWhole(sc, d)
  /\ PagesWhole(NewestFirst(attendance(sc, Everyone, Everyone)), 2)
  /\ CoverageTrue(office.coverage, office.zero_floors)

\* However teachers change, classes are dropped and rows settle: the office's totals
\* are the departments' totals plus the teachers outside them; every report's rows
\* add up to its summary; the scorecard page and its CSV give the same numbers, to the
\* office and to the teacher's dean, and no other dean finds either; both formats of a
\* report have one row a teacher with sessions; HR's "Present" lines of classes still
\* offered are the sessions held, as many of them late and verified as the teacher's
\* row says, and the teacher's own history shows the same lines; the pages of the list
\* show every line once, and a link past the end shows the last of them; no report
\* shows more sessions verified than held, however often checkers recorded one.
AttendanceReconciles == \A sc \in OpenedScopes : AttendanceAgrees(sc, ifo_dashboard(sc))

Sum(rows, k) == Total([r \in DOMAIN rows |-> rows[r][k]])

GridAgrees(grid, total, step) ==
  /\ Sum(grid, "used") = total.used /\ Sum(grid, "booked") = total.booked
  /\ \A c, e \in {x \in DOMAIN grid : grid[x].timetabled} :
       cell_pct(grid[c]) <= cell_pct(grid[e]) => step[c] <= step[e]

RollupAgrees(up, rooms, total, k, everyRoomIn) ==
  /\ Sum(up.buildings, k) = Total([r \in DOMAIN rooms |-> rooms[r].load[k]])
  /\ \A b \in DOMAIN up.buildings : up.buildings[b][k] =
       Total([f \in {x \in DOMAIN up.floors : x[1] = b} |-> up.floors[f][k]])
  /\ everyRoomIn => Sum(up.buildings, k) = total[k]

HoursAgree(S, page, rooms) ==
  /\ page.occupancy.load.booked = page.occupancy.load.used + page.occupancy.load.wasted
                                  + Total([s \in {x \in S : rtable[x].status = "scheduled"} |-> Booked(s)])
  /\ \A s \in S : Used(s) <= Booked(s)
  /\ GridAgrees(page.grid, page.occupancy.load,
                Table([c \in DOMAIN page.grid |-> heat_step(page.grid, c)]))
  /\ \A k \in {"used", "booked", "wasted"} :
       RollupAgrees(page.rollup, rooms, page.occupancy.load, k,
                    \A s \in S : rtable[s].room \notin outOfService)

\* Hours are accounted for, whatever the overruns, early arrivals and edited slots:
\* what was booked is what was used, wasted or is still to come; the heat grid's cells
\* add up to the campus totals, and a busier cell is never painted paler; buildings
\* are the sum of their floors and all of them the room list's, and the campus totals
\* too unless a session sits in a room taken out of service.
HoursReconcile ==
  \A sc \in OpenedScopes : HoursAgree(Settled(sc), ifo_utilization(sc), Table(utilization_csv(sc)))
=============================================================================
