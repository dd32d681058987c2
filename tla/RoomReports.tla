---------------------------- MODULE RoomReports -----------------------------
(***************************************************************************)
(* The room half of scheduling/reporting.py: hours booked, used and        *)
(* wasted, the heat grid over the timetable's blocks, the load of every    *)
(* room, and its roll-up to floors and buildings.                          *)
(***************************************************************************)
EXTENDS Reporting

CONSTANT HEAT_STEPS

ASSUME HeatConstants == HEAT_STEPS \in Nat \ {0}

\* What a session adds.  A cancelled one adds nothing, a running one only counts as
\* in flight; overruns and early arrivals do not stretch the hours used.
session_contribution(s) ==
  LET row   == rtable[s]
      used_start == Max({row.from, Sched(s)})
      used_end   == Min({row.to, SchedTo(s)})
  IN  IF row.status = "cancelled" \/ (row.status = "active" /\ row.from # NoTime /\ row.to = NoTime)
      THEN [booked |-> 0, used |-> 0]
      ELSE [booked |-> AtLeastZero(SchedTo(s) - Sched(s)),
            used |-> IF row.status = "absent" \/ row.from = NoTime \/ row.to = NoTime THEN 0
                     ELSE AtLeastZero(used_end - used_start)]

Running(s) == rtable[s].status = "active" /\ rtable[s].from # NoTime /\ rtable[s].to = NoTime
Booked(s) == session_contribution(s).booked
Used(s)   == session_contribution(s).used
Wasted(s) == IF rtable[s].status = "absent" THEN Booked(s)
             ELSE IF Held(s) THEN AtLeastZero(Booked(s) - Used(s)) ELSE 0

Settled(sc) == {s \in exclude_virtual(scoped_sessions(sc)) : ~Running(s)}
Load(S) == [booked |-> Total([s \in S |-> Booked(s)]), used |-> Total([s \in S |-> Used(s)]),
            wasted |-> Total([s \in S |-> Wasted(s)])]

room_utilization(sc) ==
  LET S == Settled(sc)
      available == Cardinality(physical_rooms) * cell_seconds(sc)
  IN  [load |-> Load(S), available |-> available,
       utilization_pct |-> pct(Load(S).used, available),
       booking_pct |-> pct(Load(S).booked, available),
       in_flight |-> Cardinality({s \in exclude_virtual(scoped_sessions(sc)) : Running(s)}),
       absent_sessions |-> Cardinality({s \in S : rtable[s].status = "absent"}),
       early_end_sessions |-> Cardinality({s \in S : rtable[s].early}),
       overrun_sessions |-> Cardinality({s \in S : rtable[s].to > SchedTo(s)}),
       early_arrival_sessions |->
         Cardinality({s \in S : rtable[s].from # NoTime /\ rtable[s].from < Sched(s)})]

-----------------------------------------------------------------------------
\* The heat grid.  A session is spread over the blocks that begin while it lasts,
\* in proportion to their durations, the last block taking what rounding leaves.
\* The blocks are those of the class's slot today, the hours those of the session.
occupied(s) ==
  LET at == slot[ScheduleOf[s]]
  IN  {b \in Ladder : at.from <= b /\ b < at.to}

weights(blocks) ==
  [b \in blocks |-> IF block_duration(b) = 0 THEN 1 ELSE block_duration(b)]

\* Mutant: what rounding leaves is dropped.
distribute_floor(total, ws) == [b \in DOMAIN ws |-> (total * ws[b]) \div Total(ws)]

distribute(total, ws) ==
  LET parts == [b \in DOMAIN ws |-> (total * ws[b]) \div Total(ws)]
      last  == Max(DOMAIN ws)
  IN  [parts EXCEPT ![last] = total - Total([b \in DOMAIN ws \ {last} |-> parts[b]])]

\* The cells, from the sessions, the blocks each fills and its parts of the hours.
heat_cells(sc, all, blocks, used, booked) ==
  [cell \in Ladder \X (0..6) |->
     LET b == cell[1]
         w == cell[2]
         here == {s \in all : DayOf[ScheduleOf[s]] = w /\ b \in blocks[s]}
     IN  [used |-> Total([s \in here |-> used[s][b]]),
          booked |-> Total([s \in here |-> booked[s][b]]),
          available |-> IF <<w, b>> \in timetabled_cells
                        THEN Cardinality(physical_rooms) * weekday_occurrences(sc, w)
                             * block_duration(b)
                        ELSE 0,
          timetabled |-> <<w, b>> \in timetabled_cells,
          session_count |-> Cardinality(here),
          room_count |-> Cardinality({rtable[s].room : s \in here})]]

spread(sc, all, blocks, ws) ==
  heat_cells(sc, all, blocks, Table([s \in all |-> distribute(Used(s), ws[s])]),
             Table([s \in all |-> distribute(Booked(s), ws[s])]))
over_blocks(sc, all, blocks) ==
  spread(sc, all, blocks, Table([s \in all |-> weights(blocks[s])]))

room_heat_grid(sc) == over_blocks(sc, Settled(sc), Table([s \in Settled(sc) |-> occupied(s)]))

cell_pct(cell) == pct(cell.used, cell.available)

\* The colour of a cell: its rank among the used ones, in HEAT_STEPS steps.
StepOf(rank, n) == Max({1, Min({HEAT_STEPS, (rank * HEAT_STEPS + n - 1) \div n})})
step_among(used, grid, cell) ==
  IF cell \notin used THEN 0
  ELSE StepOf(Cardinality({c \in used : cell_pct(grid[c]) <= cell_pct(grid[cell])}), Cardinality(used))

heat_step(grid, cell) ==
  step_among({c \in DOMAIN grid : grid[c].timetabled /\ cell_pct(grid[c]) > 0}, grid, cell)

\* Each block over the week, from the grid's rounded hours.
peak_days(grid, b) ==
  {w \in 0..6 : /\ hours(grid[<<b, w>>].used) > 0
                /\ \A v \in 0..6 : hours(grid[<<b, v>>].used) <= hours(grid[<<b, w>>].used)}

block_saturation(grid) ==
  [b \in Ladder |->
     [used |-> Total([w \in 0..6 |-> hours(grid[<<b, w>>].used)]),
      available |-> Total([w \in 0..6 |-> hours(grid[<<b, w>>].available)]),
      session_count |-> Total([w \in 0..6 |-> grid[<<b, w>>].session_count]),
      peak_days |-> peak_days(grid, b)]]

-----------------------------------------------------------------------------
\* The rooms in service, each with its load; rooms booked and never used; floors
\* and buildings summed from the rooms.
room_breakdown(sc) ==
  LET all   == Settled(sc)
      cells == cell_seconds(sc)
  IN
  [r \in physical_rooms |->
     LET here == {s \in all : rtable[s].room = r}
     IN  [load |-> Load(here), pct |-> pct(Load(here).used, cells),
          session_count |-> Cardinality(here),
          absent_sessions |-> Cardinality({s \in here : rtable[s].status = "absent"})]]

ghost_rooms(rooms) ==
  {r \in DOMAIN rooms : rooms[r].load.booked > 0 /\ rooms[r].load.used = 0}

FloorKey(r) == <<Building[r], FloorNo[r]>>

RollUp(rooms, cells, key) ==
  LET in(k) == {r \in DOMAIN rooms : key[r] = k}
      sum(k, hrs) == Total([r \in in(k) |-> rooms[r].load[hrs]])
  IN  [k \in {key[r] : r \in DOMAIN rooms} |->
         [rooms |-> Cardinality(in(k)),
          used |-> sum(k, "used"), booked |-> sum(k, "booked"), wasted |-> sum(k, "wasted"),
          pct |-> pct(sum(k, "used"), Cardinality(in(k)) * cells)]]

building_floor_rollup(rooms, cells) ==
  [buildings |-> RollUp(rooms, cells, Building),
   floors |-> RollUp(rooms, cells, [r \in DOMAIN rooms |-> FloorKey(r)])]
=============================================================================
