----------------------------- MODULE Offerings ------------------------------
(***************************************************************************)
(* The course-offering import (scheduling/importing.py and the command     *)
(* import_offerings): what a file's rows become in the timetable of a      *)
(* Draft term, what the dry run announces beforehand, and what the         *)
(* reconciliation report says of the same rows.  A cell is already read;   *)
(* a room code is a value whose leading letters and first digit are given. *)
(***************************************************************************)
EXTENDS Integers, Sequences, FiniteSets

CONSTANTS
  Files,        \* the files that may be uploaded: sequences of rows
  Prefix,       \* a room code's leading letters, "" when it has none
  FirstDigit,   \* the first digit after them, 0 when there is none
  MaxImports    \* imports run on one file (bound)

IsSequence(s) == s \in Seq({s[i] : i \in DOMAIN s})

ASSUME OfferingConstants ==
  /\ MaxImports \in Nat
  /\ \A f \in Files : f # <<>> /\ IsSequence(f) /\ \A i \in DOMAIN f : IsSequence(f[i].sched)

\* A row: course, section, mode, instructor, e-mail, and its schedule cell, a sequence
\* of meetings; a meeting: day, start, end and room, NoValue where nothing was read.
NoValue == "none"
NoTimeRead == -1

VARIABLES
  offering,     \* the file, empty until one is given
  timetable,    \* schedule rows of the term, by key
  accounts,     \* faculty accounts
  importedRooms,\* rooms created
  announced,         \* what the dry run announced
  imported      \* imports run so far

offeringVars == <<offering, timetable, accounts, importedRooms, announced, imported>>

-----------------------------------------------------------------------------
\* Rooms.  Only R, A, GYM and V name a building; the rest is kept, and flagged.
classify_room(code) ==
  LET p == Prefix[code]
  IN  [code |-> code,
       building |-> CASE p = "GYM" -> "GYM" [] p = "V" -> "ONLINE" [] p = "R" -> "ACAD"
                      [] p = "A" -> "ADMIN" [] OTHER -> "UNASSIGNED",
       floor |-> IF p = "GYM" THEN 1 ELSE FirstDigit[code],
       virtual |-> p = "V",
       unassigned |-> p \notin {"GYM", "V", "R", "A"},
       typo |-> p = ""]

\* A meeting's room is no room when the cell repeats the section.
is_real_room(code, sec) ==
  /\ code # NoValue
  /\ ~(code = sec /\ classify_room(code).unassigned)

modality_for_room(code, mode) ==
  IF code # NoValue /\ classify_room(code).virtual THEN "online"
  ELSE IF mode \in {"online", "blended", "f2f"} THEN mode
  ELSE IF mode = "rotation" THEN "blended" ELSE "f2f"

\* Names are compared without case, punctuation and initials: a key is given.
\* The dry run counts teachers by this key.
faculty_key(row) == IF row.email # NoValue THEN <<"e", row.email>> ELSE <<"n", row.who>>

\* Mutant: accounts are looked up by name alone.
account_by_name(row) == <<"n", row.who>>

\* The account the import finds or creates: by e-mail, else by name.
account_of(row) == IF row.email = NoValue THEN <<"n", row.who>> ELSE <<"e", row.email>>

-----------------------------------------------------------------------------
\* The reconciliation report: every row in exactly one of four buckets.  The meetings
\* of a row are told apart by their place in the cell.
ReconcileMeetings(row) ==
  {k \in DOMAIN row.sched :
     LET m == row.sched[k]
     IN  /\ m.day # NoValue /\ m.start # NoTimeRead /\ m.end # NoTimeRead
         /\ m.start # m.end /\ is_real_room(m.room, row.sec)}

bucket(row) ==
  IF row.sched = <<>> THEN "no_schedule"
  ELSE IF ReconcileMeetings(row) # {} THEN "intact"
  ELSE IF row.mode = "online" THEN "online_no_room" ELSE "roomless_tba"

InBucket(rows, b) == {i \in DOMAIN rows : bucket(rows[i]) = b}

reconcile(rows) ==
  LET codes == UNION {{rows[i].sched[k].room : k \in ReconcileMeetings(rows[i])} : i \in DOMAIN rows}
      named == {rows[i].who : i \in DOMAIN rows}
      mailed == {rows[i].who : i \in {k \in DOMAIN rows : rows[k].email # NoValue}}
  IN  [total |-> Len(rows), no_schedule |-> Cardinality(InBucket(rows, "no_schedule")),
       intact |-> Cardinality(InBucket(rows, "intact")),
       roomless |-> Cardinality(InBucket(rows, "roomless_tba")),
       online |-> Cardinality(InBucket(rows, "online_no_room")),
       meetings |-> Cardinality(UNION {{i} \X ReconcileMeetings(rows[i]) : i \in DOMAIN rows}),
       rooms |-> codes,
       typo |-> {c \in codes : classify_room(c).typo},
       unassigned |-> {c \in codes : classify_room(c).unassigned /\ ~classify_room(c).typo},
       emailless |-> named \ mailed,
       instructors |-> Cardinality({rows[i].email : i \in DOMAIN rows} \ {NoValue})
                       + Cardinality(named \ mailed)]

-----------------------------------------------------------------------------
\* The import.  A meeting with no day, no time or no length is skipped; a row keeps its
\* meetings in real rooms, or, having none, meets in a placeholder room.
\* Mutant: a meeting of no length is kept.
import_meetings_zero(row) ==
  {k \in DOMAIN row.sched :
     LET m == row.sched[k]
     IN  m.day # NoValue /\ m.start # NoTimeRead /\ m.end # NoTimeRead}

import_meetings(row) ==
  {k \in DOMAIN row.sched :
     LET m == row.sched[k]
     IN  m.day # NoValue /\ m.start # NoTimeRead /\ m.end # NoTimeRead /\ m.start # m.end}

RealMeetings(row) == {k \in import_meetings(row) : is_real_room(row.sched[k].room, row.sec)}
OffScope(code, only) == only # NoValue /\ Prefix[code] # only
InScope(row, only) == {k \in RealMeetings(row) : ~OffScope(row.sched[k].room, only)}

\* The schedule row a meeting becomes.
ScheduleRow(row, m, room) ==
  [course |-> row.course, sec |-> row.sec, day |-> m.day, room |-> room, start |-> m.start, end |-> m.end,
   teacher |-> account_of(row), mode |-> modality_for_room(room, row.mode)]

\* What a row becomes, by place in its cell.
planned(row, only) ==
  IF row.sched = <<>> THEN <<>>
  ELSE IF InScope(row, only) # {}
    THEN [k \in InScope(row, only) |-> ScheduleRow(row, row.sched[k], row.sched[k].room)]
  ELSE IF only # NoValue THEN <<>>
  ELSE [k \in import_meetings(row) \ RealMeetings(row) |->
          ScheduleRow(row, row.sched[k], IF row.mode = "online" THEN "VTBA" ELSE "TBA")]

\* The places in a file that a run works through, in the order it does, and the entry at each.
AllEntries(rows, only) == UNION {{i} \X DOMAIN planned(rows[i], only) : i \in DOMAIN rows}
EntryAt(rows, only, p) == planned(rows[p[1]], only)[p[2]]
Before(p, q) == p[1] < q[1] \/ (p[1] = q[1] /\ p[2] < q[2])

\* The counts a run prints.
Stats(rows, only) ==
  LET used == {i \in DOMAIN rows : DOMAIN planned(rows[i], only) # {}}
      empty(i) == rows[i].sched # <<>> /\ only = NoValue /\ RealMeetings(rows[i]) = {}
  IN  [sections |-> Cardinality(used),
       faculty |-> {faculty_key(rows[i]) : i \in used},
       skip_no_schedule |-> Cardinality({i \in DOMAIN rows : rows[i].sched = <<>>}),
       tba_rows |-> Cardinality({i \in DOMAIN rows : empty(i) /\ rows[i].mode # "online"}),
       online_rows |-> Cardinality({i \in DOMAIN rows : empty(i) /\ rows[i].mode = "online"}),
       rooms |-> {EntryAt(rows, only, p).room : p \in AllEntries(rows, only)},
       schedules |-> Cardinality(AllEntries(rows, only))]

RowKey(e) == <<e.course, e.sec, e.day, e.room, e.start>>
Keys(rows, only) == {RowKey(EntryAt(rows, only, p)) : p \in AllEntries(rows, only)}

\* get_or_create: only keys the term does not have yet, once each.
new_rows(old, keys) == Cardinality(keys \ DOMAIN old)

-----------------------------------------------------------------------------
OfferingInit ==
  /\ offering = <<>>
  /\ timetable = <<>> /\ accounts = {} /\ importedRooms = {} /\ announced = [only |-> "untold"] /\ imported = <<>>

read_file(f) ==
  /\ offering = <<>> /\ offering' = f
  /\ UNCHANGED <<timetable, accounts, importedRooms, announced, imported>>

preview_file(only) ==
  /\ offering # <<>>
  /\ announced' = [stats |-> Stats(offering, only), only |-> only]
  /\ UNCHANGED <<offering, timetable, accounts, importedRooms, imported>>

import_file(only) ==
  LET keys == Keys(offering, only)
      KeyAt(p) == RowKey(EntryAt(offering, only, p))
      first(k) == CHOOSE p \in AllEntries(offering, only) :
                    KeyAt(p) = k /\ \A q \in AllEntries(offering, only) : Before(q, p) => KeyAt(q) # k
      made(k) == LET e == EntryAt(offering, only, first(k))
                 IN  [end |-> e.end, mode |-> e.mode, teacher |-> e.teacher]
  IN  /\ offering # <<>> /\ Len(imported) < MaxImports
      /\ timetable' = [k \in DOMAIN timetable \union keys |->
                         IF k \in DOMAIN timetable THEN timetable[k] ELSE made(k)]
      /\ accounts' = accounts \union {account_of(offering[i]) :
                                i \in {n \in DOMAIN offering : DOMAIN planned(offering[n], only) # {}}}
      /\ importedRooms' = importedRooms \union Stats(offering, only).rooms
      /\ imported' = Append(imported, [created |-> new_rows(timetable, keys), only |-> only])
      /\ UNCHANGED <<offering, announced>>

OfferingNext ==
  \/ \E f \in Files : read_file(f)
  \/ \E only \in {NoValue, "R"} : preview_file(only) \/ import_file(only)

-----------------------------------------------------------------------------
\* Every row of a file is in one bucket of the report, and the importer, which goes
\* through the meetings by itself, counts the rows without a room as the report does,
\* plans the meetings of a row the report calls intact and no others, as many in all as
\* the report counts, and needs no room the report does not list but a placeholder.
RowsAccounted ==
  LET rec == reconcile(offering)
      s == Stats(offering, NoValue)
      intact == InBucket(offering, "intact")
  IN  /\ rec.no_schedule + rec.intact + rec.roomless + rec.online = rec.total
      /\ s.skip_no_schedule = rec.no_schedule
      /\ s.tba_rows = rec.roomless /\ s.online_rows = rec.online
      /\ rec.rooms \subseteq s.rooms /\ s.rooms \subseteq rec.rooms \union {"TBA", "VTBA"}
      /\ \A i \in intact : DOMAIN planned(offering[i], NoValue) = ReconcileMeetings(offering[i])
      /\ rec.meetings = Cardinality({p \in AllEntries(offering, NoValue) : p[1] \in intact})

\* The commit does what the dry run announced: the same teachers and rooms, and as many
\* schedule rows, fewer only where the file repeats one or the term already has it; and a file
\* imported again adds nothing.
PreviewTrue ==
  /\ \A i \in DOMAIN imported :
       announced.only = imported[i].only =>
         /\ imported[i].created <= announced.stats.schedules
         /\ announced.stats.faculty \subseteq accounts
         /\ announced.stats.rooms \subseteq importedRooms
         /\ (i = 1 /\ \A p, q \in AllEntries(offering, announced.only) :
                        RowKey(EntryAt(offering, announced.only, p)) = RowKey(EntryAt(offering, announced.only, q))
                          => p = q)
              => imported[i].created = announced.stats.schedules
  /\ \A i, j \in DOMAIN imported :
       i < j /\ imported[i].only \in {imported[j].only, NoValue} => imported[j].created = 0
=============================================================================
