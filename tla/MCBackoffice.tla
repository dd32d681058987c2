---------------------------- MODULE MCBackoffice ----------------------------
\* The small instance of Backoffice: one value per CONSTANT that is not a plain set.
EXTENDS Backoffice, TLC

-----------------------------------------------------------------------------
\* Online roster: two classes, one early, one late; a standing and a late posting.
MCSlotOf == (1 :> 1) @@ (2 :> 2)
MCShifts == {[from |-> 0, to |-> 3], [from |-> 2, to |-> 3]}

\* Notifications: a key event and one that is never pushed, to the same user.
MCNoteUser == ("n1" :> "u1") @@ ("n2" :> "u1")
MCNoteType == ("n1" :> "room_event") @@ ("n2" :> "job_failed")
MCMutable  == {<<"u1", "room">>}

MCReportDepts == <<"d1">>

MCFloors == {<<"B", 1>>, <<"B", 2>>}

-----------------------------------------------------------------------------
\* Offerings: rows of up to two meetings, readable or not, in a classroom, a room of no
\* known building, with the section's name in place of a room, or named as a placeholder is.
RoomNames == {"R1", "V2", "P3", "S1", "TBA", "VTBA"}
MCPrefix == [R1 |-> "R", V2 |-> "V", P3 |-> "P", S1 |-> "S", TBA |-> "TBA", VTBA |-> "V"]
MCDigit  == [c \in RoomNames |-> 1]
Meeting(d, s, e, r) == [day |-> d, start |-> s, end |-> e, room |-> r]
Meetings == {Meeting("M", 1, 2, "R1"), Meeting("M", 1, 1, "R1"), Meeting("T", 1, 2, NoValue),
             Meeting("M", 1, 2, "S1"), Meeting("M", NoTimeRead, 2, "V2"), Meeting("M", 1, 2, "P3")}
Cells == {<<>>, <<Meeting("M", 1, 2, "TBA")>>} \union {<<m>> : m \in Meetings} \union {<<m, n>> : m \in Meetings, n \in Meetings}
FileRows == [course : {"c"}, sec : {"S1"}, mode : {"online", "f2f"}, who : {"ann"},
             email : {"a@x", NoValue}, sched : Cells]
ShortRows == {r \in FileRows : Len(r.sched) <= 1 /\ r.mode = "f2f"}
MCFiles == {<<r>> : r \in FileRows}
           \union {<<r, q>> : r \in {x \in FileRows : x.email = NoValue /\ Len(x.sched) <= 1}, q \in ShortRows}

-----------------------------------------------------------------------------
\* Report scope: every date from before the term to after it, and the three kinds of
\* field that are no date.
MCDateInputs == {Omitted, Malformed, Impossible} \union (7..10)

-----------------------------------------------------------------------------
\* Report pages: three classes on two days, one edited to another slot, room and
\* teacher, one to share the first's; one shifted online; a teacher with and one without a department.
Slot(f, t, r, w) == [from |-> f, to |-> t, room |-> r, teacher |-> w]
MCDayOf    == [c1 |-> 0, c2 |-> 0, c3 |-> 1]
MCSlot0    == [c1 |-> Slot(2, 5, "r1", "f1"), c2 |-> Slot(2, 4, "r2", "f2"), c3 |-> Slot(4, 7, "r1", "f1")]
MCSlotEdit == [c1 |-> Slot(4, 6, "r2", "f2"), c2 |-> Slot(2, 4, "r1", "f1"), c3 |-> Slot(4, 7, "r1", "f1")]
MCScheduleOf == [s1 |-> "c1", s2 |-> "c2", s3 |-> "c3"]
MCDateOf     == [s1 |-> 0, s2 |-> 0, s3 |-> 1]
MCModalityOf == [s1 |-> "f2f", s2 |-> "blended", s3 |-> "online"]
MCClassModality == [c1 |-> "f2f", c2 |-> "blended", c3 |-> "f2f"]
MCCourseOf   == [c1 |-> "k1", c2 |-> "k2", c3 |-> "k1"]
MCDeptOf     == [f1 |-> "d1", f2 |-> NoDept]
MCBuilding   == [r1 |-> "A", r2 |-> "B", v |-> "V"]
MCFloorNo    == [r1 |-> 1, r2 |-> 1, v |-> 0]
MCScopes     == {Scope(0, 1, 1), Scope(0, 1, 0)}
MCOffsets    == [s1 |-> {1}, s2 |-> {-1}, s3 |-> {1}]

-----------------------------------------------------------------------------
\* Guards: one standing on both floors and also on a shift, one to be posted late.
Posting(g, fs, from, to) == [who |-> g, floors |-> fs, from |-> from, to |-> to]
MCPosting0     == {Posting("g1", {1, 2}, 0, 1), Posting("g1", {1}, 1, 1)}
MCPostingForms == {Posting("g2", {2}, 0, 1)}

\* The board in the browser: a room in each of two buildings.
MCBuildingOf == [r1 |-> "A", r2 |-> "B"]
MCBoards == {[r1 |-> "absent", r2 |-> "in_session"], [r2 |-> "starting"]}
=============================================================================
