-------------------------- MODULE Backoffice_proofs --------------------------
(***************************************************************************)
(* The desks around the sessions, for any number of rooms, tabs, tokens,   *)
(* notes, guards and workers.  Each part first shows that a step of the    *)
(* office is a step of its desk or leaves the desk alone, then strengthens *)
(* the desk's property by what its requests in flight have in hand.        *)
(***************************************************************************)
EXTENDS Backoffice, FiniteSetTheorems, WellFoundedInduction, TLAPS

-----------------------------------------------------------------------------
(***************************************************************************)
(* The campus (CampusDesk).  A form holds a row it read earlier; what is   *)
(* housed stays so because every write looks at the rows again, and a      *)
(* retired code stays dead because a code is minted once.                  *)
(***************************************************************************)
LEMMA CampusSteps == BackInit => CampusInit
  BY DEF BackInit

LEMMA CampusTurns == [BackNext]_backVars => [CampusNext]_campusVars
  BY DEF backVars, BackNext, RosterTurn, PushTurn, JobTurn, WeeklyTurn, CampusTurn, ImportTurn,
         PagesTurn, PeopleTurn, CampusRests

RoomRecord == [floor : CFloors, code : Nat, service : BOOLEAN]

CampusTypes ==
  /\ buildingRows \subseteq CBuildings /\ floorRows \subseteq CFloors
  /\ RoomRows \subseteq RoomCodes /\ roomRow \in [RoomRows -> RoomRecord]
  /\ DOMAIN reserved = ShiftItems /\ reserved = [h \in ShiftItems |-> reserved[h]]
  /\ DOMAIN clerk = Clerks
  /\ \A c \in Clerks : clerk[c].op = "toggle" => clerk[c].row.service \in BOOLEAN
  /\ minted \in Nat /\ retired \subseteq Nat

\* Every code in use or retired has been minted, and two rooms never share one.
CodesMinted ==
  /\ \A r \in RoomRows : roomRow[r].code < minted /\ roomRow[r].code \notin retired
  /\ \A k \in retired : k < minted
  /\ \A r, q \in RoomRows : roomRow[r].code = roomRow[q].code => r = q

CampusInv == CampusTypes /\ RecordsHoused /\ CodesMinted

LEMMA CampusBegins == CampusInit => CampusInv
  BY CampusConstants DEF CampusInit, CampusInv, CampusTypes, RecordsHoused, CodesMinted, RoomRows,
     NoForm

\* Writing one room row keeps the rooms there are.
LEMMA RoomChanged ==
  ASSUME CampusTypes, NEW r \in RoomRows, NEW x \in RoomRecord, roomRow' = [roomRow EXCEPT ![r] = x]
  PROVE  /\ RoomRows' = RoomRows /\ roomRow' \in [RoomRows -> RoomRecord]
         /\ \A q \in RoomRows : roomRow'[q] = IF q = r THEN x ELSE roomRow[q]
  BY DEF CampusTypes, RoomRows

LEMMA FloorSet ==
  ASSUME NEW y \in RoomRecord, NEW f \in CFloors
  PROVE  [y EXCEPT !.floor = f] \in RoomRecord /\ [y EXCEPT !.floor = f].code = y.code /\ [y EXCEPT !.floor = f].floor = f
  BY DEF RoomRecord

LEMMA ServiceSet ==
  ASSUME NEW y \in RoomRecord, NEW b \in BOOLEAN
  PROVE  /\ [y EXCEPT !.service = b] \in RoomRecord
         /\ [y EXCEPT !.service = b].code = y.code /\ [y EXCEPT !.service = b].floor = y.floor
  BY DEF RoomRecord

LEMMA CampusStep == CampusInv /\ [CampusNext]_campusVars => CampusInv'
<1> SUFFICES ASSUME CampusInv, [CampusNext]_campusVars PROVE CampusInv'
  OBVIOUS
<1> USE CampusConstants DEF CampusInv
<1>1. ASSUME NEW c \in Clerks, NEW r \in RoomCodes, NEW op \in {"edit", "rotate", "toggle"}, room_form(c, op, r)
      PROVE  CampusInv'
  BY <1>1 DEF room_form, Opens, StructureKept, RecordsKept, CodesKept, CampusTypes, RecordsHoused,
              CodesMinted, RoomRows, RoomRecord
<1>2. ASSUME NEW c \in Clerks, NEW r \in RoomCodes, NEW f \in CFloors, room_new(c, r, f)
      PROVE  CampusInv'
  BY <1>2 DEF room_new, AddRoom, StructureKept, RecordsKept, CampusTypes, RecordsHoused, CodesMinted,
              RoomRows, RoomRecord
<1>3. ASSUME NEW c \in Clerks, NEW r \in RoomCodes, room_delete_check(c, r)
      PROVE  CampusInv'
  BY <1>3 DEF room_delete_check, Opens, StructureKept, RecordsKept, CodesKept, CampusTypes, RecordsHoused,
              CodesMinted, RoomRows, RoomRecord
<1>4. ASSUME NEW c \in Clerks, NEW f \in CFloors, room_edit(c, f)
      PROVE  CampusInv'
  <2> DEFINE r == clerk[c].on[1]
             x == [roomRow[r] EXCEPT !.floor = f]
  <2>0. /\ RoomRows' = RoomRows /\ roomRow' \in [RoomRows -> RoomRecord]
        /\ \A q \in RoomRows : roomRow'[q].code = roomRow[q].code /\ roomRow'[q].floor \in floorRows
    <3>1. \A q \in RoomRows : roomRow[q] \in RoomRecord /\ roomRow[q].floor \in floorRows
      BY DEF CampusTypes, RecordsHoused
    <3>2. CASE r \notin RoomRows
      <4>1. roomRow' = roomRow
        BY <1>4, <3>2 DEF room_edit
      <4> QED BY <3>1, <4>1 DEF CampusTypes, RoomRows
    <3>3. CASE r \in RoomRows
      <4>1. f \in CFloors /\ f \in floorRows
        BY <1>4 DEF room_edit
      <4>2. x \in RoomRecord /\ x.code = roomRow[r].code /\ x.floor \in floorRows
        BY <1>4, <3>1, <3>3, <4>1, FloorSet
      <4>3. roomRow' = [roomRow EXCEPT ![r] = x]
        BY <1>4, <3>3 DEF room_edit
      <4> HIDE DEF x
      <4> QED BY <3>1, <3>3, <4>2, <4>3, RoomChanged
    <3> QED BY <3>2, <3>3
  <2> HIDE DEF r, x
  <2>1. CampusTypes'
    BY <1>4, <2>0 DEF room_edit, Closes, NoForm, StructureKept, RecordsKept, CodesKept, CampusTypes
  <2>2. RecordsHoused'
    BY <1>4, <2>0 DEF room_edit, StructureKept, RecordsKept, RecordsHoused
  <2>3. CodesMinted'
    BY <1>4, <2>0 DEF room_edit, CodesKept, CodesMinted
  <2> QED BY <2>1, <2>2, <2>3
<1>5. ASSUME NEW c \in Clerks, NEW f \in CFloors, floor_delete_check(c, f)
      PROVE  CampusInv'
  BY <1>5 DEF floor_delete_check, Opens, StructureKept, RecordsKept, CodesKept, CampusTypes, RecordsHoused,
              CodesMinted, RoomRows, RoomRecord
<1>6. ASSUME NEW c \in Clerks, room_rotate(c)
      PROVE  CampusInv'
  <2> DEFINE r == clerk[c].on[1]
  <2>a. CASE r \notin RoomRows
    BY <1>6, <2>a DEF room_rotate, Closes, NoForm, StructureKept, RecordsKept, CampusTypes, RecordsHoused,
                      CodesMinted, RoomRows
  <2>b. CASE r \in RoomRows
    <3>1. RoomRows' = RoomRows /\ roomRow' = [roomRow EXCEPT ![r].code = minted]
      BY <1>6, <2>b DEF room_rotate, CampusTypes, RoomRows
    <3>2. \A x \in RoomRows : /\ roomRow'[x].floor = roomRow[x].floor
                               /\ roomRow'[x].code = IF x = r THEN minted ELSE roomRow[x].code
      BY <3>1 DEF CampusTypes, RoomRecord
    <3>3. minted' = minted + 1 /\ retired' = retired \union {roomRow[r].code}
      BY <1>6, <2>b DEF room_rotate
    <3>4. CampusTypes'
      <4>1. roomRow' \in [RoomRows -> RoomRecord]
        BY <3>1 DEF CampusTypes, RoomRecord
      <4>2. roomRow[r].code \in Nat
        BY <2>b DEF CampusTypes, RoomRecord
      <4> QED BY <1>6, <3>1, <3>3, <4>1, <4>2
                 DEF room_rotate, Closes, NoForm, StructureKept, RecordsKept, CampusTypes
    <3>5. RecordsHoused'
      BY <1>6, <3>1, <3>2 DEF room_rotate, StructureKept, RecordsKept, RecordsHoused
    <3>6. CodesMinted'
      <4>1. \A x \in RoomRows : roomRow[x].code \in Nat
        BY DEF CampusTypes, RoomRecord
      <4> QED BY <2>b, <3>1, <3>2, <3>3, <4>1 DEF CampusTypes, CodesMinted
    <3> QED BY <3>4, <3>5, <3>6
  <2> QED BY <2>a, <2>b
<1>7. ASSUME NEW c \in Clerks, room_toggle_service(c)
      PROVE  CampusInv'
  <2> DEFINE r == clerk[c].on[1]
             x == [roomRow[r] EXCEPT !.service = (~clerk[c].row.service)]
  <2>0. /\ RoomRows' = RoomRows /\ roomRow' \in [RoomRows -> RoomRecord]
        /\ \A q \in RoomRows : roomRow'[q].code = roomRow[q].code /\ roomRow'[q].floor \in floorRows
    <3>1. \A q \in RoomRows : roomRow[q] \in RoomRecord /\ roomRow[q].floor \in floorRows
      BY DEF CampusTypes, RecordsHoused
    <3>2. CASE r \notin RoomRows
      <4>1. roomRow' = roomRow
        BY <1>7, <3>2 DEF room_toggle_service
      <4> QED BY <3>1, <4>1 DEF CampusTypes, RoomRows
    <3>3. CASE r \in RoomRows
      <4>1. (~clerk[c].row.service) \in BOOLEAN
        BY <1>7 DEF room_toggle_service, Doing, CampusTypes
      <4>2. x \in RoomRecord /\ x.code = roomRow[r].code /\ x.floor \in floorRows
        BY <1>7, <3>1, <3>3, <4>1, ServiceSet
      <4>3. roomRow' = [roomRow EXCEPT ![r] = x]
        BY <1>7, <3>3 DEF room_toggle_service
      <4> HIDE DEF x
      <4> QED BY <3>1, <3>3, <4>2, <4>3, RoomChanged
    <3> QED BY <3>2, <3>3
  <2> HIDE DEF r, x
  <2>1. CampusTypes'
    BY <1>7, <2>0 DEF room_toggle_service, Closes, NoForm, StructureKept, RecordsKept, CodesKept, CampusTypes
  <2>2. RecordsHoused'
    BY <1>7, <2>0 DEF room_toggle_service, StructureKept, RecordsKept, RecordsHoused
  <2>3. CodesMinted'
    BY <1>7, <2>0 DEF room_toggle_service, CodesKept, CodesMinted
  <2> QED BY <2>1, <2>2, <2>3
<1>8. ASSUME NEW c \in Clerks, NEW b \in CBuildings, building_delete_check(c, b)
      PROVE  CampusInv'
  BY <1>8 DEF building_delete_check, Opens, StructureKept, RecordsKept, CodesKept, CampusTypes, RecordsHoused,
              CodesMinted, RoomRows, RoomRecord
<1>9. ASSUME NEW c \in Clerks, room_delete(c)
      PROVE  CampusInv'
  BY <1>9 DEF room_delete, Closes, NoForm, StructureKept, CodesKept, CampusTypes, RecordsHoused,
              CodesMinted, RoomRows, RoomRecord
<1>10. ASSUME NEW c \in Clerks, floor_delete(c)
       PROVE  CampusInv'
  BY <1>10 DEF floor_delete, RoomsOn, Closes, NoForm, RecordsKept, CodesKept, CampusTypes, RecordsHoused,
               CodesMinted, RoomRows, RoomRecord
<1>11. ASSUME NEW c \in Clerks, building_delete(c)
       PROVE  CampusInv'
  BY <1>11 DEF building_delete, Closes, NoForm, RecordsKept, CodesKept, CampusTypes, RecordsHoused,
               CodesMinted, RoomRows, RoomRecord
<1>12. ASSUME NEW b \in CBuildings, building_create(b)
       PROVE  CampusInv'
  BY <1>12 DEF building_create, RecordsKept, CodesKept, CampusTypes, RecordsHoused, CodesMinted, RoomRows
<1>13. ASSUME NEW f \in CFloors, floor_create(f)
       PROVE  CampusInv'
  BY <1>13 DEF floor_create, RecordsKept, CodesKept, CampusTypes, RecordsHoused, CodesMinted, RoomRows
<1>14. ASSUME NEW f \in CFloors, NEW r \in RoomCodes, load_room_master(r, f)
       PROVE  CampusInv'
  <2>1. CampusTypes'
    <3>1. f[1] \in CBuildings
      OBVIOUS
    <3>2. roomRow' \in [RoomRows' -> RoomRecord] /\ RoomRows' \subseteq RoomCodes
      <4>1. CASE r \in RoomRows
        BY <1>14, <4>1 DEF load_room_master, CampusTypes, RoomRows
      <4>2. CASE r \notin RoomRows
        <5>1. roomRow' = [x \in RoomRows \union {r} |->
                            IF x = r THEN [floor |-> f, code |-> minted, service |-> TRUE] ELSE roomRow[x]]
          BY <1>14, <4>2 DEF load_room_master, AddRoom
        <5> QED BY <5>1 DEF CampusTypes, RoomRows, RoomRecord
      <4> QED BY <4>1, <4>2
    <3> QED BY <1>14, <3>1, <3>2 DEF load_room_master, RecordsKept, CampusTypes
  <2>2. RecordsHoused'
    BY <1>14 DEF load_room_master, AddRoom, RecordsKept, CampusTypes, RecordsHoused, RoomRows, RoomRecord
  <2>3. CodesMinted'
    BY <1>14 DEF load_room_master, AddRoom, RecordsKept, CampusTypes, CodesMinted, RoomRows, RoomRecord
  <2> QED BY <2>1, <2>2, <2>3
<1>15. ASSUME NEW r \in RoomCodes, schedule_in(r)
       PROVE  CampusInv'
  BY <1>15 DEF schedule_in, StructureKept, CodesKept, CampusTypes, RecordsHoused, CodesMinted, RoomRows
<1>16. ASSUME NEW r \in RoomCodes, NEW h \in ShiftItems, reserve(h, r)
       PROVE  CampusInv'
  BY <1>16 DEF reserve, StructureKept, CodesKept, CampusTypes, RecordsHoused, CodesMinted, RoomRows
<1>17. CASE UNCHANGED campusVars
  BY <1>17 DEF campusVars, CampusTypes, RecordsHoused, CodesMinted, RoomRows
<1> QED BY <1>1, <1>2, <1>3, <1>4, <1>5, <1>6, <1>7, <1>8, <1>9, <1>10, <1>11, <1>12, <1>13, <1>14, <1>15,
           <1>16, <1>17 DEF CampusNext

LEMMA CampusKept == BackSpec => []CampusInv
  BY CampusBegins, CampusSteps, CampusStep, CampusTurns, PTL DEF BackSpec

\* Whatever order operators create, edit, move and delete in, with every form holding a
\* row read earlier, a schedule, a reservation, a room and a floor always find what they
\* refer to (room_delete, floor_delete, building_delete in web/ifo.py).
THEOREM CampusHoused == BackSpec => []RecordsHoused
  BY CampusKept, PTL DEF CampusInv

\* No edit, service switch or other operation on a form opened before a rotation brings
\* a rotated scan code back (room_rotate and room_edit in web/ifo.py).
THEOREM RotatedCodesDead == BackSpec => []RetiredCodesDead
<1>1. CampusInv => RetiredCodesDead
  BY DEF CampusInv, CodesMinted, RetiredCodesDead
<1> QED BY <1>1, CampusKept, PTL

-----------------------------------------------------------------------------
(***************************************************************************)
(* The import (ImportDesk).  A token is entered once, so a row that was    *)
(* consumed is never entered again; a file without a waiting upload is in  *)
(* the hand of a request, or was in the hand of one that died.             *)
(***************************************************************************)
LEMMA ImportBegan == BackInit => ImportInit
  BY DEF BackInit

LEMMA ImportTurns == [BackNext]_backVars => [ImportNext]_importVars
  BY DEF backVars, BackNext, RosterTurn, PushTurn, JobTurn, WeeklyTurn, CampusTurn, ImportTurn,
         PagesTurn, PeopleTurn, ImportRests

SomeToken == Tokens \union {NoToken}

UploadStep == {"idle", "preview", "commit", "discard", "preview_row", "upload", "enter", "report",
               "drop_row", "committed", "sweep", "swept"}

ImportTypes ==
  /\ stagings \in [StagedRows -> [consumed : BOOLEAN, old : BOOLEAN]] /\ StagedRows \subseteq SomeToken
  /\ sessionToken \in SomeToken
  /\ upload \in [ImportTabs -> [step : UploadStep, token : SomeToken, loaded : SomeToken]]
  /\ imports \in Seq(SomeToken)
  /\ importCuts \in Nat /\ IsFiniteSet(storage)

Imported == {imports[i] : i \in DOMAIN imports}

\* A token about to be entered is new, and one tab's alone.
EnteredOnce ==
  \A t \in ImportTabs : AtStep(t, "enter") =>
    /\ upload[t].token \notin StagedRows \union Imported
    /\ \A q \in ImportTabs : AtStep(q, "enter") /\ upload[q].token = upload[t].token => q = t

ImportedConsumed == \A u \in Imported \cap StagedRows : stagings[u].consumed

\* A row goes only after its file has gone.
FileGoneFirst ==
  \A t \in ImportTabs : upload[t].step \in {"preview_row", "drop_row", "swept"} => upload[t].token \notin storage

InHand == {upload[t].token : t \in {q \in ImportTabs : upload[q].step \in {"enter", "committed"}}}
Leftover == {u \in storage : u \notin StagedRows \/ stagings[u].consumed}

LeftoverCounted == Cardinality(Leftover \ InHand) <= importCuts

ImportInv ==
  ImportTypes /\ EnteredOnce /\ ImportedConsumed /\ ImportedOnce /\ FileGoneFirst /\ LeftoverCounted

LEMMA ImportBegins == ImportInit => ImportInv
<1> SUFFICES ASSUME ImportInit PROVE ImportInv
  OBVIOUS
<1>1. ImportTypes
  BY FS_EmptySet DEF ImportInit, ImportTypes, StagedRows, SomeToken, NoUpload, UploadStep
<1>2. EnteredOnce /\ FileGoneFirst
  BY DEF ImportInit, EnteredOnce, FileGoneFirst, NoUpload, AtStep
<1>3. ImportedConsumed /\ ImportedOnce
  BY DEF ImportInit, ImportedConsumed, ImportedOnce, StagedRows, Imported
<1>4. LeftoverCounted
  <2>1. Leftover \ InHand = {}
    BY DEF ImportInit, Leftover
  <2> QED BY <2>1, FS_EmptySet DEF ImportInit, LeftoverCounted
<1> QED BY <1>1, <1>2, <1>3, <1>4 DEF ImportInv

\* What every step but a worker's death keeps, given that it leaves nothing new lying.
LEMMA FewerLeft ==
  ASSUME ImportTypes, LeftoverCounted, importCuts' = importCuts,
         Leftover' \ InHand' \subseteq Leftover \ InHand
  PROVE  LeftoverCounted'
<1>1. IsFiniteSet(Leftover \ InHand)
  BY FS_Subset DEF ImportTypes, Leftover
<1>2. IsFiniteSet(Leftover' \ InHand') /\ Cardinality(Leftover' \ InHand') <= Cardinality(Leftover \ InHand)
  BY <1>1, FS_Subset
<1>3. Cardinality(Leftover' \ InHand') \in Nat /\ Cardinality(Leftover \ InHand) \in Nat
  BY <1>1, <1>2, FS_CardinalityType
<1> QED BY <1>2, <1>3 DEF LeftoverCounted, ImportTypes

LEMMA CutLeavesOne ==
  ASSUME ImportTypes, LeftoverCounted, NEW t \in ImportTabs, import_cut(t)
  PROVE  LeftoverCounted'
<1> DEFINE S == Leftover \ InHand
           x == upload[t].token
<1>1. Leftover' \ InHand' \subseteq S \union {x}
  BY DEF import_cut, Leftover, InHand, EndRequest, NoUpload, StagedRows, ImportTypes
<1>2. IsFiniteSet(S)
  BY FS_Subset DEF ImportTypes, Leftover
<1>3. IsFiniteSet(S \union {x}) /\ Cardinality(S \union {x}) <= Cardinality(S) + 1
  <2>1. IsFiniteSet(S \union {x}) /\ Cardinality(S \union {x}) = IF x \in S THEN Cardinality(S) ELSE Cardinality(S) + 1
    BY <1>2, FS_AddElement
  <2>2. Cardinality(S) \in Nat
    BY <1>2, FS_CardinalityType
  <2> QED BY <2>1, <2>2
<1>4. IsFiniteSet(Leftover' \ InHand') /\ Cardinality(Leftover' \ InHand') <= Cardinality(S \union {x})
  BY <1>1, <1>3, FS_Subset
<1>5. Cardinality(S) \in Nat /\ Cardinality(S \union {x}) \in Nat /\ Cardinality(Leftover' \ InHand') \in Nat
  BY <1>2, <1>3, <1>4, FS_CardinalityType
<1> QED BY <1>3, <1>4, <1>5 DEF LeftoverCounted, ImportTypes, import_cut

\* What has been imported stays, and is imported once, when a step appends nothing.
LEMMA SameImports ==
  ASSUME ImportInv, imports' = imports, ImportTypes', EnteredOnce', ImportedConsumed', FileGoneFirst',
         importCuts' = importCuts, Leftover' \ InHand' \subseteq Leftover \ InHand
  PROVE  ImportInv'
  BY FewerLeft DEF ImportInv, ImportedOnce

\* A request that goes to its next step keeps the shape of what it has in hand.
LEMMA GotoTyped ==
  ASSUME ImportTypes, NEW t \in ImportTabs, NEW s \in UploadStep, NEW u \in {upload[t].token, NoToken}, GotoStep(t, s, u)
  PROVE  upload' \in [ImportTabs -> [step : UploadStep, token : SomeToken, loaded : SomeToken]]
<1> DEFINE y == upload[t]
           z == [y EXCEPT !.step = s, !.token = u]
<1>1. y \in [step : UploadStep, token : SomeToken, loaded : SomeToken]
  BY DEF ImportTypes
<1>2. u \in SomeToken
  BY <1>1 DEF SomeToken
<1>3. upload' = [upload EXCEPT ![t] = z]
  BY DEF GotoStep, ImportTypes
<1> HIDE DEF y
<1>4. z \in [step : UploadStep, token : SomeToken, loaded : SomeToken]
  BY <1>1, <1>2
<1> HIDE DEF z
<1> QED BY <1>3, <1>4 DEF ImportTypes

LEMMA ImportStep == ImportInv /\ [ImportNext]_importVars => ImportInv'
<1> SUFFICES ASSUME ImportInv, [ImportNext]_importVars PROVE ImportInv'
  OBVIOUS
<1> USE DEF ImportInv, AtStep
<1>1. ASSUME NEW t \in ImportTabs, NEW step \in {"preview", "commit", "discard"}, begin_request(t, step)
      PROVE  ImportInv'
  <2>1. ImportTypes'
    BY <1>1, FS_Subset, FS_AddElement DEF begin_request, resolve_staged, RestKept, ImportTypes, StagedRows, SomeToken, UploadStep
  <2>2. EnteredOnce'
    BY <1>1 DEF begin_request, resolve_staged, RestKept, EnteredOnce, ImportTypes, StagedRows, Imported
  <2>3. ImportedConsumed'
    BY <1>1 DEF begin_request, resolve_staged, RestKept, ImportedConsumed, EnteredOnce, ImportTypes, StagedRows, Imported
  <2>4. FileGoneFirst'
    BY <1>1 DEF begin_request, resolve_staged, RestKept, FileGoneFirst, ImportTypes
  <2>5. Leftover' \ InHand' \subseteq Leftover \ InHand
    BY <1>1 DEF begin_request, resolve_staged, RestKept, Leftover, InHand, FileGoneFirst, ImportTypes, StagedRows
  <2> QED BY <1>1, <2>1, <2>2, <2>3, <2>4, <2>5, SameImports DEF begin_request, resolve_staged, RestKept
<1>2. ASSUME NEW t \in ImportTabs, NEW u \in Tokens, sweep_read(t, u)
      PROVE  ImportInv'
  <2>1. ImportTypes'
    BY <1>2, FS_Subset, FS_AddElement DEF sweep_read, StaleUpload, RestKept, ImportTypes, StagedRows, SomeToken, UploadStep
  <2>2. EnteredOnce'
    BY <1>2 DEF sweep_read, StaleUpload, RestKept, EnteredOnce, ImportTypes, StagedRows, Imported
  <2>3. ImportedConsumed'
    BY <1>2 DEF sweep_read, StaleUpload, RestKept, ImportedConsumed, EnteredOnce, ImportTypes, StagedRows, Imported
  <2>4. FileGoneFirst'
    BY <1>2 DEF sweep_read, StaleUpload, RestKept, FileGoneFirst, ImportTypes
  <2>5. Leftover' \ InHand' \subseteq Leftover \ InHand
    BY <1>2 DEF sweep_read, StaleUpload, RestKept, Leftover, InHand, FileGoneFirst, ImportTypes, StagedRows
  <2> QED BY <1>2, <2>1, <2>2, <2>3, <2>4, <2>5, SameImports DEF sweep_read, StaleUpload, RestKept
<1>3. ASSUME NEW t \in ImportTabs, preview_discard(t)
      PROVE  ImportInv'
  <2>1. ImportTypes'
    <3>1. upload' \in [ImportTabs -> [step : UploadStep, token : SomeToken, loaded : SomeToken]]
      BY <1>3, GotoTyped DEF preview_discard, discard_file, UploadStep
    <3>2. stagings' \in [StagedRows' -> [consumed : BOOLEAN, old : BOOLEAN]] /\ StagedRows' \subseteq SomeToken
      BY <1>3 DEF preview_discard, discard_file, GotoStep, ImportTypes, StagedRows
    <3>3. IsFiniteSet(storage')
      BY <1>3, FS_Subset DEF preview_discard, discard_file, GotoStep, ImportTypes
    <3> QED BY <1>3, <3>1, <3>2, <3>3 DEF preview_discard, discard_file, GotoStep, RestKept, ImportTypes
  <2>2. EnteredOnce'
    BY <1>3 DEF preview_discard, discard_file, GotoStep, RestKept, EnteredOnce, ImportTypes, StagedRows, Imported
  <2>3. ImportedConsumed'
    BY <1>3 DEF preview_discard, discard_file, GotoStep, RestKept, ImportedConsumed, EnteredOnce, ImportTypes, StagedRows, Imported
  <2>4. FileGoneFirst'
    BY <1>3 DEF preview_discard, discard_file, GotoStep, RestKept, FileGoneFirst, ImportTypes
  <2>5. Leftover' \ InHand' \subseteq Leftover \ InHand
    BY <1>3 DEF preview_discard, discard_file, GotoStep, RestKept, Leftover, InHand, FileGoneFirst, ImportTypes, StagedRows
  <2> QED BY <1>3, <2>1, <2>2, <2>3, <2>4, <2>5, SameImports DEF preview_discard, discard_file, GotoStep, RestKept
<1>4. ASSUME NEW t \in ImportTabs, preview_discard_row(t)
      PROVE  ImportInv'
  <2>1. ImportTypes'
    <3>1. upload' \in [ImportTabs -> [step : UploadStep, token : SomeToken, loaded : SomeToken]]
      BY <1>4, GotoTyped DEF preview_discard_row, UploadStep
    <3>2. stagings' \in [StagedRows' -> [consumed : BOOLEAN, old : BOOLEAN]] /\ StagedRows' \subseteq SomeToken
      BY <1>4 DEF preview_discard_row, WithoutRow, GotoStep, ImportTypes, StagedRows
    <3>3. IsFiniteSet(storage')
      BY <1>4, FS_Subset DEF preview_discard_row, WithoutRow, GotoStep, ImportTypes
    <3> QED BY <1>4, <3>1, <3>2, <3>3 DEF preview_discard_row, WithoutRow, GotoStep, RestKept, ImportTypes
  <2>2. EnteredOnce'
    BY <1>4 DEF preview_discard_row, WithoutRow, GotoStep, RestKept, EnteredOnce, ImportTypes, StagedRows, Imported
  <2>3. ImportedConsumed'
    BY <1>4 DEF preview_discard_row, WithoutRow, GotoStep, RestKept, ImportedConsumed, EnteredOnce, ImportTypes, StagedRows, Imported
  <2>4. FileGoneFirst'
    BY <1>4 DEF preview_discard_row, WithoutRow, GotoStep, RestKept, FileGoneFirst, ImportTypes
  <2>5. Leftover' \ InHand' \subseteq Leftover \ InHand
    BY <1>4 DEF preview_discard_row, WithoutRow, GotoStep, RestKept, Leftover, InHand, FileGoneFirst, ImportTypes, StagedRows
  <2> QED BY <1>4, <2>1, <2>2, <2>3, <2>4, <2>5, SameImports DEF preview_discard_row, WithoutRow, GotoStep, RestKept
<1>5. ASSUME NEW t \in ImportTabs, NEW u \in Tokens, stage_file(t, u)
      PROVE  ImportInv'
  <2>1. ImportTypes'
    BY <1>5, FS_Subset, FS_AddElement DEF stage_file, FreshToken, RestKept, ImportTypes, StagedRows, SomeToken, UploadStep
  <2>2. EnteredOnce'
    BY <1>5 DEF stage_file, FreshToken, RestKept, EnteredOnce, ImportTypes, StagedRows, Imported
  <2>3. ImportedConsumed'
    BY <1>5 DEF stage_file, FreshToken, RestKept, ImportedConsumed, EnteredOnce, ImportTypes, StagedRows, Imported
  <2>4. FileGoneFirst'
    BY <1>5 DEF stage_file, FreshToken, RestKept, FileGoneFirst, ImportTypes
  <2>5. Leftover' \ InHand' \subseteq Leftover \ InHand
    BY <1>5 DEF stage_file, FreshToken, RestKept, Leftover, InHand, FileGoneFirst, ImportTypes, StagedRows
  <2> QED BY <1>5, <2>1, <2>2, <2>3, <2>4, <2>5, SameImports DEF stage_file, FreshToken, RestKept
<1>6. ASSUME NEW t \in ImportTabs, stage_row(t)
      PROVE  ImportInv'
  <2>1. ImportTypes'
    <3>1. upload' \in [ImportTabs -> [step : UploadStep, token : SomeToken, loaded : SomeToken]]
      BY <1>6, GotoTyped DEF stage_row, UploadStep
    <3>2. stagings' \in [StagedRows' -> [consumed : BOOLEAN, old : BOOLEAN]] /\ StagedRows' \subseteq SomeToken
      BY <1>6 DEF stage_row, GotoStep, ImportTypes, StagedRows
    <3>3. IsFiniteSet(storage')
      BY <1>6, FS_Subset DEF stage_row, GotoStep, ImportTypes
    <3> QED BY <1>6, <3>1, <3>2, <3>3 DEF stage_row, GotoStep, RestKept, ImportTypes
  <2>2. EnteredOnce'
    BY <1>6 DEF stage_row, GotoStep, RestKept, EnteredOnce, ImportTypes, StagedRows, Imported
  <2>3. ImportedConsumed'
    BY <1>6 DEF stage_row, GotoStep, RestKept, ImportedConsumed, EnteredOnce, ImportTypes, StagedRows, Imported
  <2>4. FileGoneFirst'
    BY <1>6 DEF stage_row, GotoStep, RestKept, FileGoneFirst, ImportTypes
  <2>5. Leftover' \ InHand' \subseteq Leftover \ InHand
    BY <1>6 DEF stage_row, GotoStep, RestKept, Leftover, InHand, FileGoneFirst, ImportTypes, StagedRows
  <2> QED BY <1>6, <2>1, <2>2, <2>3, <2>4, <2>5, SameImports DEF stage_row, GotoStep, RestKept
<1>7. ASSUME NEW t \in ImportTabs, preview_done(t)
      PROVE  ImportInv'
  <2>1. ImportTypes'
    BY <1>7, FS_Subset, FS_AddElement DEF preview_done, EndRequest, NoUpload, RestKept, ImportTypes, StagedRows, SomeToken, UploadStep
  <2>2. EnteredOnce'
    BY <1>7 DEF preview_done, EndRequest, NoUpload, RestKept, EnteredOnce, ImportTypes, StagedRows, Imported
  <2>3. ImportedConsumed'
    BY <1>7 DEF preview_done, EndRequest, NoUpload, RestKept, ImportedConsumed, EnteredOnce, ImportTypes, StagedRows, Imported
  <2>4. FileGoneFirst'
    BY <1>7 DEF preview_done, EndRequest, NoUpload, RestKept, FileGoneFirst, ImportTypes
  <2>5. Leftover' \ InHand' \subseteq Leftover \ InHand
    BY <1>7 DEF preview_done, EndRequest, NoUpload, RestKept, Leftover, InHand, FileGoneFirst, ImportTypes, StagedRows
  <2> QED BY <1>7, <2>1, <2>2, <2>3, <2>4, <2>5, SameImports DEF preview_done, EndRequest, NoUpload, RestKept
<1>8. ASSUME NEW t \in ImportTabs, preview_unreadable(t)
      PROVE  ImportInv'
  <2>1. ImportTypes'
    <3>1. upload' \in [ImportTabs -> [step : UploadStep, token : SomeToken, loaded : SomeToken]]
      BY <1>8, GotoTyped DEF preview_unreadable, discard_file, UploadStep
    <3>2. stagings' \in [StagedRows' -> [consumed : BOOLEAN, old : BOOLEAN]] /\ StagedRows' \subseteq SomeToken
      BY <1>8 DEF preview_unreadable, discard_file, GotoStep, ImportTypes, StagedRows
    <3>3. IsFiniteSet(storage')
      BY <1>8, FS_Subset DEF preview_unreadable, discard_file, GotoStep, ImportTypes
    <3> QED BY <1>8, <3>1, <3>2, <3>3 DEF preview_unreadable, discard_file, GotoStep, RestKept, ImportTypes
  <2>2. EnteredOnce'
    BY <1>8 DEF preview_unreadable, discard_file, GotoStep, RestKept, EnteredOnce, ImportTypes, StagedRows, Imported
  <2>3. ImportedConsumed'
    BY <1>8 DEF preview_unreadable, discard_file, GotoStep, RestKept, ImportedConsumed, EnteredOnce, ImportTypes, StagedRows, Imported
  <2>4. FileGoneFirst'
    BY <1>8 DEF preview_unreadable, discard_file, GotoStep, RestKept, FileGoneFirst, ImportTypes
  <2>5. Leftover' \ InHand' \subseteq Leftover \ InHand
    BY <1>8 DEF preview_unreadable, discard_file, GotoStep, RestKept, Leftover, InHand, FileGoneFirst, ImportTypes, StagedRows
  <2> QED BY <1>8, <2>1, <2>2, <2>3, <2>4, <2>5, SameImports DEF preview_unreadable, discard_file, GotoStep, RestKept
<1>9. ASSUME NEW t \in ImportTabs, commit_clean(t)
      PROVE  ImportInv'
  <2>1. ImportTypes'
    BY <1>9, FS_Subset, FS_AddElement DEF commit_clean, EndRequest, NoUpload, RestKept, ImportTypes, StagedRows, SomeToken, UploadStep
  <2>2. EnteredOnce'
    BY <1>9 DEF commit_clean, EndRequest, NoUpload, RestKept, EnteredOnce, ImportTypes, StagedRows, Imported
  <2>3. ImportedConsumed'
    BY <1>9 DEF commit_clean, EndRequest, NoUpload, RestKept, ImportedConsumed, EnteredOnce, ImportTypes, StagedRows, Imported
  <2>4. FileGoneFirst'
    BY <1>9 DEF commit_clean, EndRequest, NoUpload, RestKept, FileGoneFirst, ImportTypes
  <2>5. Leftover' \ InHand' \subseteq Leftover \ InHand
    BY <1>9 DEF commit_clean, EndRequest, NoUpload, RestKept, Leftover, InHand, FileGoneFirst, ImportTypes, StagedRows
  <2> QED BY <1>9, <2>1, <2>2, <2>3, <2>4, <2>5, SameImports DEF commit_clean, EndRequest, NoUpload, RestKept
<1>10. ASSUME NEW t \in ImportTabs, discard_step(t)
      PROVE  ImportInv'
  <2>1. ImportTypes'
    <3>1. upload' \in [ImportTabs -> [step : UploadStep, token : SomeToken, loaded : SomeToken]]
      BY <1>10, GotoTyped DEF discard_step, discard_file, UploadStep
    <3>2. stagings' \in [StagedRows' -> [consumed : BOOLEAN, old : BOOLEAN]] /\ StagedRows' \subseteq SomeToken
      BY <1>10 DEF discard_step, discard_file, GotoStep, ImportTypes, StagedRows
    <3>3. IsFiniteSet(storage')
      BY <1>10, FS_Subset DEF discard_step, discard_file, GotoStep, ImportTypes
    <3> QED BY <1>10, <3>1, <3>2, <3>3 DEF discard_step, discard_file, GotoStep, RestKept, ImportTypes
  <2>2. EnteredOnce'
    BY <1>10 DEF discard_step, discard_file, GotoStep, RestKept, EnteredOnce, ImportTypes, StagedRows, Imported
  <2>3. ImportedConsumed'
    BY <1>10 DEF discard_step, discard_file, GotoStep, RestKept, ImportedConsumed, EnteredOnce, ImportTypes, StagedRows, Imported
  <2>4. FileGoneFirst'
    BY <1>10 DEF discard_step, discard_file, GotoStep, RestKept, FileGoneFirst, ImportTypes
  <2>5. Leftover' \ InHand' \subseteq Leftover \ InHand
    BY <1>10 DEF discard_step, discard_file, GotoStep, RestKept, Leftover, InHand, FileGoneFirst, ImportTypes, StagedRows
  <2> QED BY <1>10, <2>1, <2>2, <2>3, <2>4, <2>5, SameImports DEF discard_step, discard_file, GotoStep, RestKept
<1>11. ASSUME NEW t \in ImportTabs, drop_row(t)
      PROVE  ImportInv'
  <2>1. ImportTypes'
    BY <1>11, FS_Subset, FS_AddElement DEF drop_row, WithoutRow, SaveSession, EndRequest, NoUpload, RestKept, ImportTypes, StagedRows, SomeToken, UploadStep
  <2>2. EnteredOnce'
    BY <1>11 DEF drop_row, WithoutRow, SaveSession, EndRequest, NoUpload, RestKept, EnteredOnce, ImportTypes, StagedRows, Imported
  <2>3. ImportedConsumed'
    BY <1>11 DEF drop_row, WithoutRow, SaveSession, EndRequest, NoUpload, RestKept, ImportedConsumed, EnteredOnce, ImportTypes, StagedRows, Imported
  <2>4. FileGoneFirst'
    BY <1>11 DEF drop_row, WithoutRow, SaveSession, EndRequest, NoUpload, RestKept, FileGoneFirst, ImportTypes
  <2>5. Leftover' \ InHand' \subseteq Leftover \ InHand
    BY <1>11 DEF drop_row, WithoutRow, SaveSession, EndRequest, NoUpload, RestKept, Leftover, InHand, FileGoneFirst, ImportTypes, StagedRows
  <2> QED BY <1>11, <2>1, <2>2, <2>3, <2>4, <2>5, SameImports DEF drop_row, WithoutRow, SaveSession, EndRequest, NoUpload, RestKept
<1>12. ASSUME NEW t \in ImportTabs, discard_nothing(t)
      PROVE  ImportInv'
  <2>1. ImportTypes'
    BY <1>12, FS_Subset, FS_AddElement DEF discard_nothing, SaveSession, EndRequest, NoUpload, RestKept, ImportTypes, StagedRows, SomeToken, UploadStep
  <2>2. EnteredOnce'
    BY <1>12 DEF discard_nothing, SaveSession, EndRequest, NoUpload, RestKept, EnteredOnce, ImportTypes, StagedRows, Imported
  <2>3. ImportedConsumed'
    BY <1>12 DEF discard_nothing, SaveSession, EndRequest, NoUpload, RestKept, ImportedConsumed, EnteredOnce, ImportTypes, StagedRows, Imported
  <2>4. FileGoneFirst'
    BY <1>12 DEF discard_nothing, SaveSession, EndRequest, NoUpload, RestKept, FileGoneFirst, ImportTypes
  <2>5. Leftover' \ InHand' \subseteq Leftover \ InHand
    BY <1>12 DEF discard_nothing, SaveSession, EndRequest, NoUpload, RestKept, Leftover, InHand, FileGoneFirst, ImportTypes, StagedRows
  <2> QED BY <1>12, <2>1, <2>2, <2>3, <2>4, <2>5, SameImports DEF discard_nothing, SaveSession, EndRequest, NoUpload, RestKept
<1>13. ASSUME NEW t \in ImportTabs, sweep_file(t)
      PROVE  ImportInv'
  <2>1. ImportTypes'
    <3>1. upload' \in [ImportTabs -> [step : UploadStep, token : SomeToken, loaded : SomeToken]]
      BY <1>13, GotoTyped DEF sweep_file, discard_file, UploadStep
    <3>2. stagings' \in [StagedRows' -> [consumed : BOOLEAN, old : BOOLEAN]] /\ StagedRows' \subseteq SomeToken
      BY <1>13 DEF sweep_file, discard_file, GotoStep, ImportTypes, StagedRows
    <3>3. IsFiniteSet(storage')
      BY <1>13, FS_Subset DEF sweep_file, discard_file, GotoStep, ImportTypes
    <3> QED BY <1>13, <3>1, <3>2, <3>3 DEF sweep_file, discard_file, GotoStep, RestKept, ImportTypes
  <2>2. EnteredOnce'
    BY <1>13 DEF sweep_file, discard_file, GotoStep, RestKept, EnteredOnce, ImportTypes, StagedRows, Imported
  <2>3. ImportedConsumed'
    BY <1>13 DEF sweep_file, discard_file, GotoStep, RestKept, ImportedConsumed, EnteredOnce, ImportTypes, StagedRows, Imported
  <2>4. FileGoneFirst'
    BY <1>13 DEF sweep_file, discard_file, GotoStep, RestKept, FileGoneFirst, ImportTypes
  <2>5. Leftover' \ InHand' \subseteq Leftover \ InHand
    BY <1>13 DEF sweep_file, discard_file, GotoStep, RestKept, Leftover, InHand, FileGoneFirst, ImportTypes, StagedRows
  <2> QED BY <1>13, <2>1, <2>2, <2>3, <2>4, <2>5, SameImports DEF sweep_file, discard_file, GotoStep, RestKept
<1>14. ASSUME NEW t \in ImportTabs, sweep_row(t)
      PROVE  ImportInv'
  <2>1. ImportTypes'
    BY <1>14, FS_Subset, FS_AddElement DEF sweep_row, WithoutRow, EndRequest, NoUpload, RestKept, ImportTypes, StagedRows, SomeToken, UploadStep
  <2>2. EnteredOnce'
    BY <1>14 DEF sweep_row, WithoutRow, EndRequest, NoUpload, RestKept, EnteredOnce, ImportTypes, StagedRows, Imported
  <2>3. ImportedConsumed'
    BY <1>14 DEF sweep_row, WithoutRow, EndRequest, NoUpload, RestKept, ImportedConsumed, EnteredOnce, ImportTypes, StagedRows, Imported
  <2>4. FileGoneFirst'
    BY <1>14 DEF sweep_row, WithoutRow, EndRequest, NoUpload, RestKept, FileGoneFirst, ImportTypes
  <2>5. Leftover' \ InHand' \subseteq Leftover \ InHand
    BY <1>14 DEF sweep_row, WithoutRow, EndRequest, NoUpload, RestKept, Leftover, InHand, FileGoneFirst, ImportTypes, StagedRows
  <2> QED BY <1>14, <2>1, <2>2, <2>3, <2>4, <2>5, SameImports DEF sweep_row, WithoutRow, EndRequest, NoUpload, RestKept
<1>15. ASSUME hours_pass
      PROVE  ImportInv'
  <2>1. ImportTypes'
    <3>1. upload' \in [ImportTabs -> [step : UploadStep, token : SomeToken, loaded : SomeToken]]
      BY <1>15 DEF hours_pass, ImportTypes, SomeToken, UploadStep
    <3>2. stagings' \in [StagedRows' -> [consumed : BOOLEAN, old : BOOLEAN]] /\ StagedRows' \subseteq SomeToken
      BY <1>15 DEF hours_pass, ImportTypes, StagedRows
    <3>3. IsFiniteSet(storage')
      BY <1>15, FS_Subset DEF hours_pass, ImportTypes
    <3> QED BY <1>15, <3>1, <3>2, <3>3 DEF hours_pass, RestKept, ImportTypes
  <2>2. EnteredOnce'
    BY <1>15 DEF hours_pass, RestKept, EnteredOnce, ImportTypes, StagedRows, Imported
  <2>3. ImportedConsumed'
    BY <1>15 DEF hours_pass, RestKept, ImportedConsumed, EnteredOnce, ImportTypes, StagedRows, Imported
  <2>4. FileGoneFirst'
    BY <1>15 DEF hours_pass, RestKept, FileGoneFirst, ImportTypes
  <2>5. Leftover' \ InHand' \subseteq Leftover \ InHand
    BY <1>15 DEF hours_pass, RestKept, Leftover, InHand, FileGoneFirst, ImportTypes, StagedRows
  <2> QED BY <1>15, <2>1, <2>2, <2>3, <2>4, <2>5, SameImports DEF hours_pass, RestKept
<1>16. ASSUME NEW t \in ImportTabs, import_commit(t)
       PROVE  ImportInv'
  <2> DEFINE u == resolve_staged(upload[t].loaded)
  <2>1. CASE EndRequest(t) /\ UNCHANGED <<stagings, imports>>
    <3>1. ImportTypes'
      BY <1>16, <2>1 DEF import_commit, RestKept, EndRequest, NoUpload, ImportTypes, StagedRows, SomeToken,
                         UploadStep
    <3>2. EnteredOnce' /\ ImportedConsumed'
      BY <1>16, <2>1 DEF EndRequest, NoUpload, EnteredOnce, ImportedConsumed, ImportTypes, StagedRows, Imported
    <3>3. FileGoneFirst'
      BY <1>16, <2>1 DEF import_commit, EndRequest, NoUpload, FileGoneFirst, ImportTypes
    <3>4. Leftover' \ InHand' \subseteq Leftover \ InHand
      BY <1>16, <2>1 DEF import_commit, EndRequest, NoUpload, Leftover, InHand, ImportTypes, StagedRows
    <3> QED BY <1>16, <2>1, <3>1, <3>2, <3>3, <3>4, SameImports DEF import_commit, RestKept
  <2>2. CASE /\ u # NoToken /\ u \in storage
             /\ stagings' = [stagings EXCEPT ![u].consumed = TRUE]
             /\ imports' = Append(imports, u)
             /\ upload' = [upload EXCEPT ![t] = [step |-> "committed", token |-> u, loaded |-> NoToken]]
    <3>1. u \in StagedRows /\ ~stagings[u].consumed /\ u \in SomeToken
      BY <2>2 DEF resolve_staged, ImportTypes, SomeToken
    <3>2. u \notin Imported
      BY <3>1 DEF ImportedConsumed
    <3>3. StagedRows' = StagedRows /\ stagings'[u].consumed
          /\ \A x \in StagedRows \ {u} : stagings'[x] = stagings[x]
      BY <2>2, <3>1 DEF StagedRows, ImportTypes
    <3>4. Imported' = Imported \union {u}
      <4>1. imports \in Seq(SomeToken) /\ DOMAIN imports = 1..Len(imports) /\ Len(imports) \in Nat
        BY DEF ImportTypes
      <4>2. /\ DOMAIN imports' = 1..(Len(imports) + 1)
            /\ imports'[Len(imports) + 1] = u
            /\ \A i \in DOMAIN imports : imports'[i] = imports[i]
        BY <2>2, <3>1, <4>1
      <4> QED BY <4>1, <4>2 DEF Imported
    <3>5. ImportTypes'
      <4>1. upload' \in [ImportTabs -> [step : UploadStep, token : SomeToken, loaded : SomeToken]]
        BY <2>2, <3>1 DEF ImportTypes, SomeToken, UploadStep
      <4>2. stagings' \in [StagedRows' -> [consumed : BOOLEAN, old : BOOLEAN]] /\ StagedRows' \subseteq SomeToken
        BY <2>2, <3>1 DEF ImportTypes, StagedRows
      <4> QED BY <1>16, <2>2, <3>1, <4>1, <4>2 DEF import_commit, RestKept, ImportTypes
    <3>6. EnteredOnce'
      BY <2>2, <3>1, <3>3, <3>4 DEF EnteredOnce, ImportTypes
    <3>7. ImportedConsumed'
      BY <3>3, <3>4 DEF ImportedConsumed
    <3>8. ImportedOnce'
      BY <2>2, <3>1, <3>2 DEF ImportedOnce, Imported, ImportTypes
    <3>9. FileGoneFirst'
      BY <1>16, <2>2 DEF import_commit, FileGoneFirst, ImportTypes
    <3>10. Leftover' \ InHand' \subseteq Leftover \ InHand
      BY <1>16, <2>2, <3>3 DEF import_commit, Leftover, InHand, ImportTypes
    <3> QED BY <1>16, <3>5, <3>6, <3>7, <3>8, <3>9, <3>10, FewerLeft DEF import_commit, RestKept
  <2> QED BY <1>16, <2>1, <2>2 DEF import_commit
<1>17. ASSUME NEW t \in ImportTabs, import_cut(t)
       PROVE  ImportInv'
  <2>1. ImportTypes'
    BY <1>17 DEF import_cut, EndRequest, NoUpload, ImportTypes, StagedRows, SomeToken, UploadStep
  <2>2. EnteredOnce' /\ ImportedConsumed' /\ ImportedOnce'
    BY <1>17 DEF import_cut, EndRequest, NoUpload, EnteredOnce, ImportedConsumed, ImportedOnce, ImportTypes,
                 StagedRows, Imported
  <2>3. FileGoneFirst'
    BY <1>17 DEF import_cut, EndRequest, NoUpload, FileGoneFirst, ImportTypes
  <2> QED BY <1>17, <2>1, <2>2, <2>3, CutLeavesOne
<1>18. CASE UNCHANGED importVars
  BY <1>18 DEF importVars, ImportTypes, EnteredOnce, ImportedConsumed, ImportedOnce, FileGoneFirst,
               LeftoverCounted, Leftover, InHand, Imported, StagedRows
<1> QED BY <1>1, <1>2, <1>3, <1>4, <1>5, <1>6, <1>7, <1>8, <1>9, <1>10, <1>11, <1>12, <1>13, <1>14, <1>15,
           <1>16, <1>17, <1>18 DEF ImportNext, RequestStep

LEMMA ImportKept == BackSpec => []ImportInv
  BY ImportBegan, ImportBegins, ImportStep, ImportTurns, PTL DEF BackSpec

\* However often and from however many tabs Commit is pressed, with uploads discarded,
\* swept and replaced meanwhile and workers dying, no file is imported twice
\* (import_commit in web/ifo.py over resolve_staged in ops/import_staging.py).
THEOREM ImportsOnce == BackSpec => []ImportedOnce
  BY ImportKept, PTL DEF ImportInv

\* Once no request is in flight, a file no upload waits for is there only for a worker
\* that died holding it (discard_staged and sweep_abandoned in ops/import_staging.py).
THEOREM StorageClean == BackSpec => []NoLeftoverFiles
<1>1. ImportInv => NoLeftoverFiles
  <2> SUFFICES ASSUME ImportInv, \A t \in ImportTabs : AtStep(t, "idle")
               PROVE  Cardinality(Leftover) <= importCuts
    BY DEF NoLeftoverFiles, Leftover
  <2>1. Leftover \ InHand = Leftover
    BY DEF InHand, AtStep
  <2> QED BY <2>1 DEF ImportInv, LeftoverCounted
<1> QED BY <1>1, ImportKept, PTL

-----------------------------------------------------------------------------
(***************************************************************************)
(* The board in the browser (BoardPage).  A panel that is open and was not *)
(* raced has no timer behind it, and a request for a panel that had the    *)
(* page to itself is for the tile that was clicked.                        *)
(***************************************************************************)
LEMMA BoardBegan == BackInit => BoardInit
  BY DEF BackInit

LEMMA BoardTurns == [BackNext]_backVars => [BoardNext]_boardVars
  BY DEF backVars, BackNext, RosterTurn, PushTurn, JobTurn, WeeklyTurn, CampusTurn, ImportTurn,
         PagesTurn, PeopleTurn, PeopleRest

Panels == [hidden : BOOLEAN, open : BOOLEAN, room : BoardRooms \union {NoPanel},
           opener : BoardRooms \union {NoPanel}, listening : BOOLEAN]

BoardTypes ==
  /\ bar = [filters |-> bar.filters, badge |-> bar.badge, nomatch |-> bar.nomatch] /\ bar.nomatch \in BOOLEAN
  /\ panel \in Panels
  /\ bhist \in [failed : BOOLEAN, overlapped : BOOLEAN, raced : BOOLEAN]
  /\ asked \subseteq BoardRooms /\ timers \in Nat

AskedForTile ==
  ~bhist.overlapped => /\ \A r \in asked : panel.opener \in {r, NoPanel}
                       /\ \A r, q \in asked : r = q
                       /\ panel.open => asked = {}

TimersBehind ==
  /\ panel.listening => timers > 0
  /\ panel.open /\ ~bhist.raced => timers = 0

BoardInv == BoardTypes /\ BoardKept /\ AskedForTile /\ TimersBehind

LEMMA BoardBegins == BoardInit => BoardInv
<1> SUFFICES ASSUME BoardInit PROVE BoardInv
  OBVIOUS
<1>1. Alerts(tiles) = {} /\ Cardinality(Alerts(tiles)) = 0
  BY FS_EmptySet DEF BoardInit, Alerts
<1>2. BoardKept
  BY <1>1 DEF BoardInit, BoardKept, NoFilters
<1> QED BY <1>2 DEF BoardInit, BoardInv, BoardTypes, Panels, AskedForTile, TimersBehind

LEMMA BoardStep == BoardInv /\ [BoardNext]_boardVars => BoardInv'
<1> SUFFICES ASSUME BoardInv, [BoardNext]_boardVars PROVE BoardInv'
  OBVIOUS
<1> USE DEF BoardInv
<1>1. ASSUME NEW f \in Filters, set_filters(f)
      PROVE  BoardInv'
  <2>1. BoardTypes' /\ AskedForTile' /\ TimersBehind'
    BY <1>1 DEF set_filters, apply, BoardTypes, Panels, AskedForTile, TimersBehind
  <2>2. BoardKept'
    BY <1>1 DEF set_filters, apply, BoardTypes, Panels, BoardKept
  <2> QED BY <2>1, <2>2
<1>2. ASSUME NEW t \in Boards, poll_swap(t)
      PROVE  BoardInv'
  <2>1. BoardTypes' /\ AskedForTile' /\ TimersBehind'
    BY <1>2 DEF poll_swap, BoardTypes, Panels, AskedForTile, TimersBehind
  <2>2. BoardKept'
    BY <1>2 DEF poll_swap, BoardTypes, Panels, BoardKept
  <2> QED BY <2>1, <2>2
<1>3. ASSUME NEW answered \in BOOLEAN, poll_failed(answered)
      PROVE  BoardInv'
  BY <1>3 DEF poll_failed, BoardTypes, Panels, AskedForTile, TimersBehind, BoardKept, Alerts, matches
<1>4. ASSUME NEW r \in BoardRooms, panel_ask(r)
      PROVE  BoardInv'
  BY <1>4 DEF panel_ask, BoardTypes, Panels, AskedForTile, TimersBehind, BoardKept, Alerts, matches
<1>5. ASSUME NEW r \in BoardRooms, panel_answer(r)
      PROVE  BoardInv'
  <2>0. panel' = [hidden |-> FALSE, open |-> TRUE, room |-> r, opener |-> panel.opener,
                   listening |-> panel.listening]
    BY <1>5 DEF panel_answer, BoardTypes, Panels
  <2>1. BoardTypes'
    <3>1. panel' \in Panels
      BY <2>0 DEF BoardTypes, Panels
    <3>2. timers' \in Nat
      BY <1>5 DEF panel_answer, BoardTypes
    <3> QED BY <1>5, <3>1, <3>2 DEF panel_answer, BoardTypes
  <2>2a. AskedForTile'
    BY <1>5, <2>0 DEF panel_answer, BoardTypes, AskedForTile
  <2>2b. TimersBehind'
    <3>1. bhist'.raced <=> bhist.raced \/ timers > 0
      BY <1>5 DEF panel_answer, BoardTypes
    <3>2. panel'.open /\ panel'.listening = panel.listening /\ timers' = timers /\ timers \in Nat
      BY <1>5, <2>0 DEF panel_answer, BoardTypes
    <3> QED BY <3>1, <3>2 DEF TimersBehind
  <2>2. AskedForTile' /\ TimersBehind'
    BY <2>2a, <2>2b
  <2>3. /\ panel'.open /\ ~bhist'.overlapped => panel'.opener \in {panel'.room, NoPanel}
        /\ panel'.open /\ ~bhist'.raced => ~panel'.hidden
    BY <1>5 DEF panel_answer, BoardTypes, Panels, AskedForTile, TimersBehind, BoardKept
  <2>4. UNCHANGED <<tiles, hidden, bar, stamp>> /\ bhist'.failed = bhist.failed
    BY <1>5 DEF panel_answer, BoardTypes, Panels
  <2>5. BoardKept'
    BY <2>3, <2>4 DEF BoardKept, Alerts, matches
  <2> QED BY <2>1, <2>2, <2>5
<1>6. ASSUME NEW r \in BoardRooms, panel_lost(r)
      PROVE  BoardInv'
  BY <1>6 DEF panel_lost, BoardTypes, Panels, AskedForTile, TimersBehind, BoardKept, Alerts, matches
<1>7. CASE closeSheet
  <2>0. panel' = [hidden |-> panel.hidden, open |-> FALSE, room |-> panel.room, opener |-> NoPanel,
                   listening |-> TRUE]
    BY <1>7 DEF closeSheet, BoardTypes, Panels
  <2>1. BoardTypes'
    <3>1. panel' \in Panels
      BY <2>0 DEF BoardTypes, Panels
    <3>2. timers' \in Nat
      BY <1>7 DEF closeSheet, BoardTypes
    <3> QED BY <1>7, <3>1, <3>2 DEF closeSheet, BoardTypes
  <2>2a. AskedForTile'
    BY <1>7, <2>0 DEF closeSheet, BoardTypes, AskedForTile
  <2>2b. TimersBehind'
    BY <1>7, <2>0 DEF closeSheet, BoardTypes, TimersBehind
  <2>2. AskedForTile' /\ TimersBehind'
    BY <2>2a, <2>2b
  <2>3. /\ panel'.open /\ ~bhist'.overlapped => panel'.opener \in {panel'.room, NoPanel}
        /\ panel'.open /\ ~bhist'.raced => ~panel'.hidden
    BY <1>7 DEF closeSheet, BoardTypes, Panels, AskedForTile, TimersBehind, BoardKept
  <2>4. UNCHANGED <<tiles, hidden, bar, stamp>> /\ bhist'.failed = bhist.failed
    BY <1>7 DEF closeSheet, BoardTypes, Panels
  <2>5. BoardKept'
    BY <2>3, <2>4 DEF BoardKept, Alerts, matches
  <2> QED BY <2>1, <2>2, <2>5
<1>8. CASE transition_end
  <2>1. BoardTypes'
    BY <1>8 DEF transition_end, BoardTypes, Panels
  <2>2. AskedForTile' /\ TimersBehind'
    BY <1>8 DEF transition_end, BoardTypes, Panels, AskedForTile, TimersBehind
  <2>3. /\ panel'.open /\ ~bhist'.overlapped => panel'.opener \in {panel'.room, NoPanel}
        /\ panel'.open /\ ~bhist'.raced => ~panel'.hidden
    BY <1>8 DEF transition_end, BoardTypes, Panels, AskedForTile, TimersBehind, BoardKept
  <2>4. UNCHANGED <<tiles, hidden, bar, stamp>> /\ bhist'.failed = bhist.failed
    BY <1>8 DEF transition_end, BoardTypes, Panels
  <2>5. BoardKept'
    BY <2>3, <2>4 DEF BoardKept, Alerts, matches
  <2> QED BY <2>1, <2>2, <2>5
<1>9. CASE close_timer
  <2>0. panel' = [hidden |-> TRUE, open |-> panel.open, room |-> panel.room, opener |-> panel.opener,
                   listening |-> panel.listening /\ timers > 1]
    BY <1>9 DEF close_timer, BoardTypes, Panels
  <2>1. BoardTypes'
    <3>1. panel' \in Panels
      BY <2>0 DEF BoardTypes, Panels
    <3>2. timers' \in Nat
      BY <1>9 DEF close_timer, BoardTypes
    <3> QED BY <1>9, <3>1, <3>2 DEF close_timer, BoardTypes
  <2>2a. AskedForTile'
    BY <1>9, <2>0 DEF close_timer, BoardTypes, AskedForTile
  <2>2b. TimersBehind'
    <3>1. panel'.listening <=> panel.listening /\ timers > 1
      BY <2>0
    <3>2. panel'.open = panel.open /\ bhist' = bhist /\ timers' = timers - 1 /\ timers > 0 /\ timers \in Nat
      BY <1>9, <2>0 DEF close_timer, BoardTypes
    <3> QED BY <3>1, <3>2 DEF TimersBehind
  <2>2. AskedForTile' /\ TimersBehind'
    BY <2>2a, <2>2b
  <2>3. /\ panel'.open /\ ~bhist'.overlapped => panel'.opener \in {panel'.room, NoPanel}
        /\ panel'.open /\ ~bhist'.raced => ~panel'.hidden
    BY <1>9 DEF close_timer, BoardTypes, Panels, AskedForTile, TimersBehind, BoardKept
  <2>4. UNCHANGED <<tiles, hidden, bar, stamp>> /\ bhist'.failed = bhist.failed
    BY <1>9 DEF close_timer, BoardTypes, Panels
  <2>5. BoardKept'
    BY <2>3, <2>4 DEF BoardKept, Alerts, matches
  <2> QED BY <2>1, <2>2, <2>5
<1>10. CASE UNCHANGED boardVars
  BY <1>10 DEF boardVars, BoardTypes, Panels, AskedForTile, TimersBehind, BoardKept, Alerts, matches
<1> QED BY <1>1, <1>2, <1>3, <1>4, <1>5, <1>6, <1>7, <1>8, <1>9, <1>10 DEF BoardNext

\* Whatever the order of polls, failures, filters, panel requests and the timers of
\* earlier closes: tiles, notice, badge and label agree with the last poll and the
\* filters, and a visible panel is the one asked for (static/js/board.js).
THEOREM BoardConsistent == BackSpec => []BoardKept
<1>1. BoardInv => BoardKept
  BY DEF BoardInv
<1> QED BY <1>1, BoardBegan, BoardBegins, BoardStep, BoardTurns, PTL DEF BackSpec

-----------------------------------------------------------------------------
(***************************************************************************)
(* The identity photo (ProfilePhoto).  An upload with nobody beside it has *)
(* read the name the row still carries, and stores under a name that was   *)
(* free, so the file it deletes in the end is not the one it stored.       *)
(***************************************************************************)
LEMMA PhotoBegan == BackInit => PhotoInit
  BY DEF BackInit

LEMMA PhotoTurns == [BackNext]_backVars => [PhotoNext]_photoVars
  BY DEF backVars, BackNext, RosterTurn, PushTurn, JobTurn, WeeklyTurn, CampusTurn, ImportTurn,
         PagesTurn, PeopleTurn, PeopleRest

SomeName == PhotoNames \union {NoPhoto}
UserRows == [photo : SomeName, active : BOOLEAN]

PhotoTypes ==
  /\ userRow \in UserRows /\ photoFiles \subseteq PhotoNames
  /\ uploads \in [PhotoTabs -> [step : {"idle", "read", "stored", "saved"}, row : UserRows, name : SomeName]]
  /\ phist \in [begun : Int, overlapped : BOOLEAN, cut : BOOLEAN]

\* What an upload that runs alone has in hand.
UploadAlone ==
  \A t \in InFlight :
    /\ \A q \in InFlight : q = t
    /\ uploads[t].step # "saved" => uploads[t].row.photo = userRow.photo
    /\ uploads[t].step # "read" => uploads[t].name \in photoFiles /\ uploads[t].name # uploads[t].row.photo
    /\ uploads[t].step = "read" => uploads[t].name = NoPhoto
    /\ uploads[t].step = "saved" => userRow.photo = uploads[t].name

\* The names the files of a history without cuts have.
NamesOf == {userRow.photo} \union {uploads[t].name : t \in InFlight}
             \union {uploads[t].row.photo : t \in InFlight}

FilesNamed ==
  /\ userRow.photo \in photoFiles \union {NoPhoto}
  /\ ~phist.cut => photoFiles = NamesOf \ {NoPhoto}

PhotoInv == PhotoTypes /\ (~phist.overlapped => UploadAlone /\ FilesNamed)

LEMMA PhotoBegins == PhotoInit => PhotoInv
  BY DEF PhotoInit, PhotoInv, PhotoTypes, UploadAlone, FilesNamed, NamesOf, InFlight, NoPhotoUpload, UserRows,
         SomeName

LEMMA PhotoStep == PhotoInv /\ [PhotoNext]_photoVars => PhotoInv'
<1> SUFFICES ASSUME PhotoInv, [PhotoNext]_photoVars PROVE PhotoInv'
  OBVIOUS
<1> USE PhotoConstants DEF PhotoInv
<1>1. ASSUME NEW t \in PhotoTabs, photo_upload_start(t) PROVE PhotoInv'
  <2>1. PhotoTypes'
    <3>1. uploads' \in [PhotoTabs -> [step : {"idle", "read", "stored", "saved"}, row : UserRows, name : SomeName]]
      BY <1>1 DEF photo_upload_start, PhotoTypes, SomeName
    <3>2. phist' = [begun |-> phist.begun + 1, overlapped |-> phist.overlapped \/ InFlight # {}, cut |-> phist.cut]
      BY <1>1 DEF photo_upload_start, PhotoTypes
    <3>3. phist' \in [begun : Int, overlapped : BOOLEAN, cut : BOOLEAN]
      BY <3>2 DEF PhotoTypes
    <3> QED BY <1>1, <3>1, <3>3 DEF photo_upload_start, PhotoTypes
  <2>2. ASSUME ~phist'.overlapped PROVE InFlight = {} /\ ~phist.overlapped /\ InFlight' = {t}
    BY <1>1, <2>2 DEF photo_upload_start, PhotoTypes, InFlight
  <2>3. ASSUME ~phist'.overlapped PROVE UploadAlone'
    BY <1>1, <2>2, <2>3 DEF photo_upload_start, PhotoTypes, UploadAlone
  <2>4. ASSUME ~phist'.overlapped PROVE FilesNamed'
    <3>1. NamesOf = {userRow.photo} /\ NamesOf' = {userRow.photo, NoPhoto}
      BY <1>1, <2>2, <2>4 DEF photo_upload_start, PhotoTypes, NamesOf
    <3> QED BY <1>1, <2>2, <2>4, <3>1 DEF photo_upload_start, PhotoTypes, FilesNamed
  <2> QED BY <2>1, <2>3, <2>4
<1>2. ASSUME NEW t \in PhotoTabs, photo_refused(t) PROVE PhotoInv'
  <2>1. PhotoTypes'
    BY <1>2 DEF photo_refused, PhotoTypes, UserRows, SomeName, NoPhotoUpload
  <2>2. ASSUME ~phist'.overlapped PROVE UploadAlone /\ FilesNamed /\ InFlight = {t} /\ InFlight' = {}
    BY <1>2, <2>2 DEF photo_refused, PhotoTypes, InFlight, UploadAlone, NoPhotoUpload
  <2>3. ASSUME ~phist'.overlapped PROVE UploadAlone'
    BY <2>2, <2>3 DEF UploadAlone
  <2>4. ASSUME ~phist'.overlapped PROVE FilesNamed'
    <3>1. NamesOf' = {userRow.photo}
      BY <1>2, <2>2, <2>4 DEF photo_refused, NamesOf
    <3>2. NamesOf \ {NoPhoto} = {userRow.photo} \ {NoPhoto}
      BY <1>2, <2>2, <2>4 DEF photo_refused, NamesOf, UploadAlone
    <3> QED BY <1>2, <2>2, <2>4, <3>1, <3>2 DEF photo_refused, PhotoTypes, FilesNamed
  <2> QED BY <2>1, <2>3, <2>4
<1>3. ASSUME NEW t \in PhotoTabs, NEW n \in PhotoNames, photo_store(t, n) PROVE PhotoInv'
  <2>1. PhotoTypes'
    <3> DEFINE y == uploads[t]
               z == [y EXCEPT !.step = "stored", !.name = n]
               R == [step : {"idle", "read", "stored", "saved"}, row : UserRows, name : SomeName]
    <3>1. y \in R /\ uploads \in [PhotoTabs -> R]
      BY DEF PhotoTypes
    <3>2. uploads' = [uploads EXCEPT ![t] = z] /\ photoFiles' \subseteq PhotoNames /\ UNCHANGED <<userRow, phist>>
      BY <1>3, <3>1 DEF photo_store, PhotoTypes
    <3> HIDE DEF y
    <3>3. n \in SomeName
      BY DEF SomeName
    <3>4. z \in R
      BY <3>1, <3>3
    <3> HIDE DEF z, R
    <3>5. uploads' \in [PhotoTabs -> R]
      BY <3>1, <3>2, <3>4
    <3> QED BY <3>2, <3>5 DEF PhotoTypes, R
  <2>2. ASSUME ~phist'.overlapped PROVE UploadAlone /\ FilesNamed /\ InFlight = {t} /\ InFlight' = {t}
    BY <1>3, <2>2 DEF photo_store, PhotoTypes, InFlight, UploadAlone, NoPhotoUpload
  <2>3. ASSUME ~phist'.overlapped PROVE UploadAlone'
    <3>1. n \notin photoFiles /\ n # NoPhoto
      BY <1>3 DEF photo_store, AvailableNames, PhotoNames, BaseName, NoPhoto
    <3>2. uploads[t].row.photo = userRow.photo /\ n # uploads[t].row.photo
      BY <1>3, <2>2, <2>3, <3>1 DEF photo_store, UploadAlone, FilesNamed
    <3>3. /\ uploads'[t].step = "stored" /\ uploads'[t].name = n /\ uploads'[t].row = uploads[t].row
          /\ userRow' = userRow /\ n \in photoFiles'
      BY <1>3 DEF photo_store, PhotoTypes
    <3> QED BY <2>2, <2>3, <3>2, <3>3 DEF UploadAlone
  <2>4. ASSUME ~phist'.overlapped PROVE FilesNamed'
    <3>1. NamesOf = {userRow.photo, NoPhoto} /\ NamesOf' = {userRow.photo, n}
      BY <1>3, <2>2, <2>4 DEF photo_store, PhotoTypes, NamesOf, UploadAlone
    <3>2. n # NoPhoto
      BY DEF PhotoNames, BaseName, NoPhoto
    <3> QED BY <1>3, <2>2, <2>4, <3>1, <3>2 DEF photo_store, FilesNamed
  <2> QED BY <2>1, <2>3, <2>4
<1>4. ASSUME NEW t \in PhotoTabs, photo_save(t) PROVE PhotoInv'
  <2>1. PhotoTypes'
    BY <1>4 DEF photo_save, PhotoTypes, UserRows, SomeName, NoPhotoUpload
  <2>2. ASSUME ~phist'.overlapped PROVE UploadAlone /\ FilesNamed /\ InFlight = {t} /\ InFlight' = {t}
    BY <1>4, <2>2 DEF photo_save, PhotoTypes, InFlight, UploadAlone, NoPhotoUpload
  <2>3. ASSUME ~phist'.overlapped PROVE UploadAlone'
    BY <1>4, <2>2, <2>3 DEF photo_save, PhotoTypes, UploadAlone, FilesNamed, SomeName, PhotoNames, UserRows, AvailableNames
  <2>4. ASSUME ~phist'.overlapped PROVE FilesNamed'
    <3>1. NamesOf = {userRow.photo, uploads[t].name} /\ NamesOf' = {uploads[t].name, userRow.photo}
      BY <1>4, <2>2, <2>4 DEF photo_save, PhotoTypes, UserRows, NamesOf, UploadAlone
    <3>2. userRow'.photo = uploads[t].name /\ uploads[t].name \in photoFiles
      BY <1>4, <2>2, <2>4 DEF photo_save, PhotoTypes, UserRows, UploadAlone
    <3> QED BY <1>4, <2>2, <2>4, <3>1, <3>2 DEF photo_save, FilesNamed
  <2> QED BY <2>1, <2>3, <2>4
<1>5. ASSUME NEW t \in PhotoTabs, photo_delete_old(t) PROVE PhotoInv'
  <2>1. PhotoTypes'
    BY <1>5 DEF photo_delete_old, PhotoTypes, UserRows, SomeName, NoPhotoUpload
  <2>2. ASSUME ~phist'.overlapped PROVE UploadAlone /\ FilesNamed /\ InFlight = {t} /\ InFlight' = {}
    BY <1>5, <2>2 DEF photo_delete_old, PhotoTypes, InFlight, UploadAlone, NoPhotoUpload
  <2>3. ASSUME ~phist'.overlapped PROVE UploadAlone'
    BY <1>5, <2>2, <2>3 DEF photo_delete_old, PhotoTypes, UploadAlone, FilesNamed, SomeName, PhotoNames, UserRows, AvailableNames
  <2>4. ASSUME ~phist'.overlapped PROVE FilesNamed'
    <3>1. NamesOf = {userRow.photo, uploads[t].row.photo} /\ NamesOf' = {userRow.photo}
      BY <1>5, <2>2, <2>4 DEF photo_delete_old, PhotoTypes, NamesOf, UploadAlone
    <3>2. userRow.photo = uploads[t].name /\ uploads[t].name \in photoFiles /\ uploads[t].name # uploads[t].row.photo
      BY <1>5, <2>2, <2>4 DEF photo_delete_old, UploadAlone
    <3> QED BY <1>5, <2>2, <2>4, <3>1, <3>2 DEF photo_delete_old, FilesNamed
  <2> QED BY <2>1, <2>3, <2>4
<1>6. ASSUME NEW t \in PhotoTabs, photo_cut(t) PROVE PhotoInv'
  <2>1. PhotoTypes'
    BY <1>6 DEF photo_cut, PhotoTypes, UserRows, SomeName, NoPhotoUpload
  <2>2. ASSUME ~phist'.overlapped PROVE UploadAlone /\ FilesNamed /\ InFlight = {t} /\ InFlight' = {}
    BY <1>6, <2>2 DEF photo_cut, PhotoTypes, InFlight, UploadAlone, NoPhotoUpload
  <2>3. ASSUME ~phist'.overlapped PROVE UploadAlone'
    BY <1>6, <2>2, <2>3 DEF photo_cut, PhotoTypes, UploadAlone, FilesNamed, SomeName, PhotoNames, UserRows, AvailableNames
  <2>4. ASSUME ~phist'.overlapped PROVE FilesNamed'
    BY <1>6, <2>2, <2>4 DEF photo_cut, PhotoTypes, FilesNamed
  <2> QED BY <2>1, <2>3, <2>4
<1>7. CASE account_switch
  <2>1. PhotoTypes' /\ userRow'.photo = userRow.photo
    BY <1>7 DEF account_switch, PhotoTypes, UserRows
  <2> QED BY <1>7, <2>1 DEF account_switch, UploadAlone, FilesNamed, NamesOf, InFlight
<1>8. CASE UNCHANGED photoVars
  BY <1>8 DEF photoVars, PhotoTypes, UploadAlone, FilesNamed, NamesOf, InFlight
<1> QED BY <1>1, <1>2, <1>3, <1>4, <1>5, <1>6, <1>7, <1>8 DEF PhotoNext

\* Uploads one after another, refused or cut wherever they may be, never leave the row
\* without the photo it names, and without cuts leave no other file behind
\* (profile_photo_upload in web/faculty.py).
THEOREM PhotoNeverLost == BackSpec => []PhotoThere
<1>1. PhotoInv => PhotoThere
  <2> SUFFICES ASSUME PhotoInv, ~phist.overlapped
               PROVE  /\ profile_photo = userRow.photo
                      /\ InFlight = {} /\ ~phist.cut => photoFiles = {userRow.photo} \ {NoPhoto}
    BY DEF PhotoThere
  <2>1. profile_photo = userRow.photo
    BY DEF PhotoInv, FilesNamed, profile_photo
  <2>2. InFlight = {} => NamesOf = {userRow.photo}
    BY DEF NamesOf
  <2> QED BY <2>1, <2>2 DEF PhotoInv, FilesNamed
<1> QED BY <1>1, PhotoBegan, PhotoBegins, PhotoStep, PhotoTurns, PTL DEF BackSpec

-----------------------------------------------------------------------------
(***************************************************************************)
(* The report scope (ReportScope).  Clamping a day that already lies       *)
(* between its bounds returns it, so the days a page settled on survive    *)
(* the round trip through a link on any later day.                         *)
(***************************************************************************)
LEMMA ScopeBegan == BackInit => ScopeInit
  BY DEF BackInit

LEMMA ScopeTurns == [BackNext]_backVars => [ScopeNext]_scopeVars
  BY DEF backVars, BackNext, RosterTurn, PushTurn, JobTurn, WeeklyTurn, CampusTurn, ImportTurn,
         PagesTurn, PeopleTurn, PagesRest

LEMMA LeastOfTwo ==
  ASSUME NEW a \in Int, NEW b \in Int
  PROVE  Min({a, b}) = IF a <= b THEN a ELSE b
<1>1. PICK m \in {a, b} : \A y \in {a, b} : m <= y
  OBVIOUS
<1>2. Min({a, b}) \in {a, b} /\ \A y \in {a, b} : Min({a, b}) <= y
  BY <1>1 DEF Min
<1> QED BY <1>2

LEMMA GreatestOfTwo ==
  ASSUME NEW a \in Int, NEW b \in Int
  PROVE  Max({a, b}) = IF a >= b THEN a ELSE b
<1>1. PICK m \in {a, b} : \A y \in {a, b} : m >= y
  OBVIOUS
<1>2. Max({a, b}) \in {a, b} /\ \A y \in {a, b} : Max({a, b}) >= y
  BY <1>1 DEF Max
<1> QED BY <1>2

\* clamp_day returns a day between the bounds, and the day itself when it lies there.
LEMMA Clamped ==
  \A d, lower, upper \in Int : lower <= upper =>
    /\ clamp_day(d, lower, upper) \in Int
    /\ lower <= clamp_day(d, lower, upper) /\ clamp_day(d, lower, upper) <= upper
    /\ lower <= d /\ d <= upper => clamp_day(d, lower, upper) = d
<1> TAKE d, lower, upper \in Int
<1> HAVE lower <= upper
<1>1. Max({d, lower}) \in Int /\ Max({d, lower}) = IF d >= lower THEN d ELSE lower
  BY GreatestOfTwo
<1>2. Min({Max({d, lower}), upper}) = IF Max({d, lower}) <= upper THEN Max({d, lower}) ELSE upper
  BY <1>1, LeastOfTwo
<1> QED BY <1>1, <1>2 DEF clamp_day

TermDays == TermStart..TermEnd

LEMMA ScopeFacts ==
  /\ FirstDay \in Nat /\ TermStart \in Nat /\ TermEnd \in Nat /\ LastDayOfRun \in Nat /\ DateInputs \subseteq Int
  /\ FirstDay <= TermStart /\ TermStart <= TermEnd /\ TermEnd < LastDayOfRun
  BY ScopeConstants
ScopeRequests == [page : {"dean", "hr"}, term : {"absent", "given", "unknown"},
                  from : Int, to : Int, as_of : Int]

LEMMA TermClamped ==
  \A x \in Int : /\ clamp_day(x, TermStart, TermEnd) \in TermDays
                 /\ x \in TermDays => clamp_day(x, TermStart, TermEnd) = x
  BY Clamped, ScopeFacts DEF TermDays

LEMMA DefaultDays ==
  ASSUME NEW req \in ScopeRequests, clockDay \in Nat
  PROVE  /\ Defaults(req)[1] \in TermDays /\ Defaults(req)[2] \in TermDays
         /\ Defaults(req)[1] <= Defaults(req)[2]
<1> USE ScopeFacts
<1> DEFINE w == IF termStatus = "active" THEN default_window(req) ELSE <<TermStart, TermEnd>>
           start == clamp_day(w[1], TermStart, TermEnd)
           end == clamp_day(w[2], TermStart, TermEnd)
<1>1. clockDay - (clockDay % 7) \in Int
  OBVIOUS
<1>2. reporting_range(req)[1] \in Int /\ reporting_range(req)[2] \in Int
  BY <1>1 DEF reporting_range, ScopeRequests
<1>3. w[1] \in Int /\ w[2] \in Int
  BY <1>2 DEF default_window
<1> HIDE DEF w
<1>4. start \in TermDays /\ end \in TermDays
  BY <1>3, TermClamped
<1>5. Defaults(req) = IF start > end THEN <<TermStart, TermEnd>> ELSE <<start, end>>
  BY DEF Defaults, w
<1> HIDE DEF start, end
<1> QED BY <1>4, <1>5 DEF TermDays

ReportShape(s) ==
  /\ s = [kind |-> "report", start |-> s.start, end |-> s.end, as_of |-> s.as_of]
  /\ s.start \in TermDays /\ s.end \in TermDays /\ s.start <= s.end
  /\ s.as_of \in Nat /\ s.as_of <= s.end /\ s.as_of <= clockDay

LEMMA AsOfDay ==
  ASSUME NEW req \in ScopeRequests, NEW e \in TermDays, clockDay \in Nat
  PROVE  /\ as_of_day(req, e) \in Nat /\ as_of_day(req, e) <= e /\ as_of_day(req, e) <= clockDay
         /\ req.as_of >= TermStart /\ req.as_of <= e /\ req.as_of <= clockDay => as_of_day(req, e) = req.as_of
<1> USE ScopeFacts
<1> DEFINE cap == Min({e, clockDay})
           d == IF Given(req.as_of) THEN req.as_of ELSE cap
<1>1. cap \in Nat /\ cap = IF e <= clockDay THEN e ELSE clockDay
  BY LeastOfTwo DEF TermDays
<1>2. d \in Int /\ req.as_of \in Int
  BY <1>1 DEF ScopeRequests
<1> HIDE DEF cap
<1>3. as_of_day(req, e) = IF cap < TermStart THEN cap ELSE clamp_day(d, TermStart, cap)
  BY DEF as_of_day, cap
<1>4. req.as_of >= TermStart => d = req.as_of
  BY <1>2 DEF Given
<1> HIDE DEF d
<1>5. CASE cap < TermStart
  BY <1>1, <1>2, <1>3, <1>5
<1>6. CASE cap >= TermStart
  <2>1. /\ clamp_day(d, TermStart, cap) \in Int
        /\ TermStart <= clamp_day(d, TermStart, cap) /\ clamp_day(d, TermStart, cap) <= cap
        /\ TermStart <= d /\ d <= cap => clamp_day(d, TermStart, cap) = d
    <3>1. \A x \in Int : /\ clamp_day(x, TermStart, cap) \in Int
                         /\ TermStart <= clamp_day(x, TermStart, cap) /\ clamp_day(x, TermStart, cap) <= cap
                         /\ TermStart <= x /\ x <= cap => clamp_day(x, TermStart, cap) = x
      BY <1>1, <1>6, Clamped
    <3> QED BY <1>2, <3>1
  <2> QED BY <1>1, <1>2, <1>3, <1>4, <1>6, <2>1 DEF TermDays
<1> QED BY <1>1, <1>5, <1>6

\* Whatever is asked for, a page that is a report has the shape of one; and a page asked
\* for by days that are a report's comes back with them.
LEMMA SelectedScope ==
  ASSUME NEW req \in ScopeRequests, clockDay \in Nat
  PROVE  LET s == selected_report_scope(req)
         IN  /\ s.kind = "report" => ReportShape(s)
             /\ \A p : /\ ReportShape(p) /\ req = query_params(req.page, p) /\ p.as_of >= TermStart
                       => s = p
<1> USE ScopeFacts
<1> DEFINE def == Defaults(req)
           start == clamp_day(IF Given(req.from) THEN req.from ELSE def[1], TermStart, TermEnd)
           end == clamp_day(IF Given(req.to) THEN req.to ELSE def[2], TermStart, TermEnd)
           days == IF start > end THEN def ELSE <<start, end>>
           report == [kind |-> "report", start |-> days[1], end |-> days[2], as_of |-> as_of_day(req, days[2])]
<1>1. def[1] \in TermDays /\ def[2] \in TermDays /\ def[1] <= def[2]
  BY DefaultDays
<1> HIDE DEF def
<1>2. req.from \in Int /\ req.to \in Int /\ def[1] \in Int /\ def[2] \in Int
  BY <1>1 DEF ScopeRequests, TermDays
<1>3. /\ start \in TermDays /\ (Given(req.from) /\ req.from \in TermDays => start = req.from)
      /\ end \in TermDays /\ (Given(req.to) /\ req.to \in TermDays => end = req.to)
  <2>1. /\ (IF Given(req.from) THEN req.from ELSE def[1]) \in Int
        /\ (IF Given(req.to) THEN req.to ELSE def[2]) \in Int
    BY <1>2
  <2> QED BY <2>1, TermClamped
<1> HIDE DEF start, end
<1>4. days[1] \in TermDays /\ days[2] \in TermDays /\ days[1] <= days[2]
  BY <1>1, <1>3 DEF TermDays
<1>5. selected_report_scope(req) =
        IF req.term = "unknown" THEN ErrorPage("invalid-term")
        ELSE IF req.term = "absent" /\ termStatus # "active" THEN ErrorPage("no-active-term")
        ELSE IF Impossible \in {req.from, req.to, req.as_of} THEN ServerError
        ELSE report
  BY DEF selected_report_scope, start, end, def
<1> HIDE DEF days
<1>6. ReportShape(report)
  BY <1>4, AsOfDay DEF ReportShape
<1>7. selected_report_scope(req).kind = "report" => selected_report_scope(req) = report
  BY <1>5 DEF ErrorPage, ServerError
<1>8. ASSUME NEW p, ReportShape(p), req = query_params(req.page, p), p.as_of >= TermStart
      PROVE  selected_report_scope(req) = p
  <2>1. req.from = p.start /\ req.to = p.end /\ req.as_of = p.as_of /\ req.term = "given"
    BY <1>8 DEF query_params
  <2>2. p.start \in Nat /\ p.end \in Nat /\ p.as_of \in Nat
    BY <1>8 DEF ReportShape, TermDays
  <2>3. days = <<p.start, p.end>>
    BY <1>3, <1>8, <2>1, <2>2 DEF ReportShape, Given, days, TermDays
  <2>4. as_of_day(req, days[2]) = p.as_of
    BY <1>4, <1>8, <2>1, <2>3, AsOfDay DEF ReportShape
  <2>5. report = p
    BY <1>8, <2>3, <2>4 DEF ReportShape
  <2> QED BY <1>5, <2>1, <2>2, <2>5 DEF Impossible
<1> QED BY <1>6, <1>7, <1>8

ScopeInv ==
  /\ clockDay \in Nat
  /\ shownReport.kind = "report" => ReportShape(shownReport)
  /\ followed # NoPage /\ followed.as_of >= TermStart => shownReport = followed

LEMMA ScopeStep == ScopeInv /\ [ScopeNext]_scopeVars => ScopeInv'
<1> SUFFICES ASSUME ScopeInv, [ScopeNext]_scopeVars PROVE ScopeInv'
  OBVIOUS
<1> USE ScopeFacts DEF ScopeInv
<1>1. ASSUME NEW req \in Requests, open_report(req) PROVE ScopeInv'
  <2>1. req \in ScopeRequests
    BY DEF Requests, ScopeRequests
  <2>2. selected_report_scope(req).kind = "report" => ReportShape(selected_report_scope(req))
    BY <2>1, SelectedScope
  <2> QED BY <1>1, <2>2 DEF open_report, ReportShape
<1>2. ASSUME NEW page \in {"dean", "hr"}, follow_link(page) PROVE ScopeInv'
  <2> DEFINE req == query_params(page, shownReport)
  <2>1. ReportShape(shownReport) /\ shownReport # NoPage
    BY <1>2 DEF follow_link, NoPage
  <2>2. req \in ScopeRequests /\ req = query_params(req.page, shownReport)
    BY <2>1 DEF query_params, ScopeRequests, ReportShape, TermDays
  <2>3. /\ selected_report_scope(req).kind = "report" => ReportShape(selected_report_scope(req))
        /\ shownReport.as_of >= TermStart => selected_report_scope(req) = shownReport
    BY <2>1, <2>2, SelectedScope
  <2>4. shownReport' = selected_report_scope(req) /\ followed' = shownReport /\ clockDay' = clockDay
    BY <1>2 DEF follow_link
  <2> HIDE DEF req
  <2> QED BY <2>3, <2>4 DEF ReportShape
<1>3. CASE day_passes
  BY <1>3 DEF day_passes, ReportShape
<1>4. ASSUME NEW status \in {"draft", "active", "closed"}, term_changes(status) PROVE ScopeInv'
  BY <1>4 DEF term_changes, ReportShape
<1>5. CASE UNCHANGED scopeVars
  BY <1>5 DEF scopeVars, ReportShape
<1> QED BY <1>1, <1>2, <1>3, <1>4, <1>5 DEF ScopeNext

\* Whatever a request asks for, a report shows an unreversed range of its term's days as
\* of a day neither past the range nor in the future, and a link followed any day later
\* shows the report it was on (selected_report_scope in web/reporting_common.py).
THEOREM ScopeStable == BackSpec => []ReportScopeKept
<1>1. ScopeInit => ScopeInv
  BY ScopeFacts DEF ScopeInit, ScopeInv, NoPage
<1>2. ScopeInv => ReportScopeKept
  BY ScopeFacts DEF ScopeInv, ReportScopeKept, ReportShape, TermDays
<1> QED BY <1>1, <1>2, ScopeBegan, ScopeStep, ScopeTurns, PTL DEF BackSpec

-----------------------------------------------------------------------------
(***************************************************************************)
(* Notifications and push (PushOutbox).  A dropdown marks what it has      *)
(* rendered and nothing else; a pass sends a note only while the note is   *)
(* unstamped, and a row only once.                                         *)
(***************************************************************************)
LEMMA PushBegan == BackInit => PushInit
  BY DEF BackInit

LEMMA PushTurns == [BackNext]_backVars => [PushNext \/ ReadNext]_pushVars
  BY DEF backVars, BackNext, RosterTurn, PushTurn, JobTurn, WeeklyTurn, CampusTurn, ImportTurn,
         PagesTurn, PeopleTurn, PushRests

AnyUser == PushUsers \union {NoReq.user}
PushRowShape == [id : Nat, ep : Endpoints \union {NoEndpoint}, user : AnyUser]

NoteShape == [made : Int, pushed : BOOLEAN, read : BOOLEAN]
SeenShape == [sent : SUBSET (Notes \X Nat), again : SUBSET Notes, cut : SUBSET Notes, shown : SUBSET Notes,
              rows : Nat, cuts : Nat]
RequestShape == [kind : {"none", "subscribe", "create", "unsubscribe"},
                 ep : Endpoints \union {NoEndpoint}, user : AnyUser]

PushTypes ==
  /\ note \in [Notes -> NoteShape]
  /\ drop \in [PushUsers -> SUBSET Notes]
  /\ pclock \in Int
  /\ seen \in SeenShape
  /\ pass \in [pc : {"idle", "row"} \union Notes, todo : SUBSET Notes, left : SUBSET PushRowShape]
  /\ subs \subseteq PushRowShape
  /\ request \in [BrowserTabs -> RequestShape]
  /\ browser \in [user : AnyUser, live : Endpoints \union {NoEndpoint}, dropped : SUBSET Endpoints]

ShownFirst ==
  /\ \A u \in PushUsers : drop[u] \subseteq seen.shown
  /\ \A n \in Notes : note[n].read => n \in seen.shown

\* A note that was sent is stamped, was cut short, or is the one the pass is at.
SentAccounted == \A p \in seen.sent : note[p[1]].pushed \/ p[1] \in seen.cut \/ pass.pc = p[1]

\* Listed notes are unstamped; the note the pass is at is among them; what is left to
\* send it to has not had it, unless a pass was cut.
PassHolds ==
  /\ \A n \in pass.todo : ~note[n].pushed
  /\ pass.pc \in {"idle", "row"} \union pass.todo
  /\ \A r \in pass.left : <<pass.pc, r.id>> \in seen.sent => pass.pc \in seen.cut

\* Row ids are handed out once, and an id keeps its endpoint, in the table and in the
\* list of the pass.
RowIds ==
  /\ \A r \in subs \union pass.left : r.id <= seen.rows
  /\ \A r, s \in subs : r.id = s.id => r = s
  /\ \A r, s \in pass.left : r.id = s.id => r = s
  /\ \A r \in pass.left, s \in subs : r.id = s.id => r.ep = s.ep

\* An endpoint is dropped in the browser before the server is told.
DroppedFirst ==
  /\ browser.live \notin browser.dropped
  /\ \A t \in BrowserTabs : request[t].kind = "unsubscribe" => request[t].ep \in browser.dropped

PushInv ==
  PushTypes /\ ShownFirst /\ SentAccounted /\ PassHolds /\ ResentOnlyAfterCut /\ RowIds /\ DroppedFirst

LEMMA NoteFields ==
  /\ \A x \in NoteShape : [x EXCEPT !.read = TRUE] \in NoteShape
  /\ \A x \in NoteShape : [x EXCEPT !.pushed = TRUE] \in NoteShape
  BY Zenon DEF NoteShape

LEMMA RequestFields == \A x \in RequestShape : [x EXCEPT !.kind = "create"] \in RequestShape
  BY Zenon DEF RequestShape

LEMMA PushBegins == PushInit => PushInv
<1> SUFFICES ASSUME PushInit PROVE PushInv
  OBVIOUS
<1>1. PushTypes
  BY DEF PushInit, PushTypes, NoteShape, SeenShape, RequestShape, NoReq, NoPass, AnyUser
<1> QED BY <1>1, PushAssumption DEF PushInit, PushInv, PushTypes, NoteShape, SeenShape, RequestShape, ShownFirst, SentAccounted, PassHolds, ResentOnlyAfterCut,
     RowIds, DroppedFirst, NoReq, NoPass

LEMMA PushStep == PushInv /\ [PushNext \/ ReadNext]_pushVars => PushInv'
<1> SUFFICES ASSUME PushInv, [PushNext \/ ReadNext]_pushVars PROVE PushInv'
  OBVIOUS
<1> USE PushAssumption DEF PushInv
<1>0. \A r \in PushRowShape : r.id \in Nat
  BY DEF PushRowShape
<1>1. ASSUME NEW n \in Notes, notify(n) PROVE PushInv'
  <2>1. PushTypes'
    BY <1>1 DEF notify, Made, PushTypes, NoteShape, SeenShape, RequestShape, AnyUser
  <2>2. ShownFirst'
    BY <1>1 DEF notify, Made, PushTypes, NoteShape, SeenShape, RequestShape, ShownFirst
  <2>3. SentAccounted'
    BY <1>1 DEF notify, Made, PushTypes, NoteShape, SeenShape, RequestShape, SentAccounted, PassHolds
  <2>4. PassHolds'
    BY <1>1 DEF notify, Made, PushTypes, NoteShape, SeenShape, RequestShape, SentAccounted, PassHolds, RowIds
  <2>5. ResentOnlyAfterCut'
    BY <1>1 DEF notify, Made, PushTypes, NoteShape, SeenShape, RequestShape, PassHolds, ResentOnlyAfterCut
  <2>6. RowIds'
    BY <1>1, <1>0 DEF notify, Made, PushTypes, NoteShape, SeenShape, RequestShape, RowIds
  <2>7. DroppedFirst'
    BY <1>1 DEF notify, Made, PushTypes, NoteShape, SeenShape, RequestShape, DroppedFirst
  <2> QED BY <2>1, <2>2, <2>3, <2>4, <2>5, <2>6, <2>7
<1>2. ASSUME NEW m \in Mutable, mute_toggle(m[1], m[2]) PROVE PushInv'
  <2>1. PushTypes'
    BY <1>2 DEF mute_toggle, PushTypes, NoteShape, SeenShape, RequestShape, AnyUser
  <2>2. ShownFirst'
    BY <1>2 DEF mute_toggle, PushTypes, NoteShape, SeenShape, RequestShape, ShownFirst
  <2>3. SentAccounted'
    BY <1>2 DEF mute_toggle, PushTypes, NoteShape, SeenShape, RequestShape, SentAccounted, PassHolds
  <2>4. PassHolds'
    BY <1>2 DEF mute_toggle, PushTypes, NoteShape, SeenShape, RequestShape, SentAccounted, PassHolds, RowIds
  <2>5. ResentOnlyAfterCut'
    BY <1>2 DEF mute_toggle, PushTypes, NoteShape, SeenShape, RequestShape, PassHolds, ResentOnlyAfterCut
  <2>6. RowIds'
    BY <1>2, <1>0 DEF mute_toggle, PushTypes, NoteShape, SeenShape, RequestShape, RowIds
  <2>7. DroppedFirst'
    BY <1>2 DEF mute_toggle, PushTypes, NoteShape, SeenShape, RequestShape, DroppedFirst
  <2> QED BY <2>1, <2>2, <2>3, <2>4, <2>5, <2>6, <2>7
<1>3. ASSUME push_tick PROVE PushInv'
  <2>1. PushTypes'
    BY <1>3 DEF push_tick, PushTypes, NoteShape, SeenShape, RequestShape, AnyUser
  <2>2. ShownFirst'
    BY <1>3 DEF push_tick, PushTypes, NoteShape, SeenShape, RequestShape, ShownFirst
  <2>3. SentAccounted'
    BY <1>3 DEF push_tick, PushTypes, NoteShape, SeenShape, RequestShape, SentAccounted, PassHolds
  <2>4. PassHolds'
    BY <1>3 DEF push_tick, PushTypes, NoteShape, SeenShape, RequestShape, SentAccounted, PassHolds, RowIds
  <2>5. ResentOnlyAfterCut'
    BY <1>3 DEF push_tick, PushTypes, NoteShape, SeenShape, RequestShape, PassHolds, ResentOnlyAfterCut
  <2>6. RowIds'
    BY <1>3, <1>0 DEF push_tick, PushTypes, NoteShape, SeenShape, RequestShape, RowIds
  <2>7. DroppedFirst'
    BY <1>3 DEF push_tick, PushTypes, NoteShape, SeenShape, RequestShape, DroppedFirst
  <2> QED BY <2>1, <2>2, <2>3, <2>4, <2>5, <2>6, <2>7
<1>4. ASSUME NEW u \in PushUsers, dropdown_render(u) PROVE PushInv'
  <2>1. PushTypes'
    <3>1. PICK rows \in SUBSET Notes : drop' = [drop EXCEPT ![u] = rows] /\ seen' = [seen EXCEPT !.shown = @ \union rows]
      BY <1>4 DEF dropdown_render, Newest, visible_qs, Made
    <3>2. drop' \in [PushUsers -> SUBSET Notes]
      BY <3>1 DEF PushTypes
    <3>3. seen \in SeenShape
      BY DEF PushTypes
    <3>4. seen' \in SeenShape
      BY <3>1, <3>3 DEF SeenShape
    <3> QED BY <1>4, <3>2, <3>4 DEF dropdown_render, PushTypes
  <2>2. ShownFirst'
    BY <1>4 DEF dropdown_render, Newest, visible_qs, Made, PushTypes, NoteShape, SeenShape, RequestShape, ShownFirst
  <2>3. SentAccounted'
    BY <1>4 DEF dropdown_render, Newest, visible_qs, Made, PushTypes, NoteShape, SeenShape, RequestShape, SentAccounted, PassHolds
  <2>4. PassHolds'
    BY <1>4 DEF dropdown_render, Newest, visible_qs, Made, PushTypes, NoteShape, SeenShape, RequestShape, SentAccounted, PassHolds, RowIds
  <2>5. ResentOnlyAfterCut'
    BY <1>4 DEF dropdown_render, Newest, visible_qs, Made, PushTypes, NoteShape, SeenShape, RequestShape, PassHolds, ResentOnlyAfterCut
  <2>6. RowIds'
    BY <1>4, <1>0 DEF dropdown_render, Newest, visible_qs, Made, PushTypes, NoteShape, SeenShape, RequestShape, RowIds
  <2>7. DroppedFirst'
    BY <1>4 DEF dropdown_render, Newest, visible_qs, Made, PushTypes, NoteShape, SeenShape, RequestShape, DroppedFirst
  <2> QED BY <2>1, <2>2, <2>3, <2>4, <2>5, <2>6, <2>7
<1>5. ASSUME NEW u \in PushUsers, mark_read(u) PROVE PushInv'
  <2>1. PushTypes'
    <3>1. note' \in [Notes -> NoteShape]
      <4>1. \A n \in Notes : note[n] \in NoteShape
        BY DEF PushTypes
      <4>2. \A n \in Notes : [note[n] EXCEPT !.read = TRUE] \in NoteShape
        BY <4>1, NoteFields
      <4> QED BY <1>5, <4>1, <4>2 DEF mark_read
    <3>2. drop' \in [PushUsers -> SUBSET Notes]
      BY <1>5 DEF mark_read, PushTypes, NoteShape, SeenShape, RequestShape
    <3> QED BY <1>5, <3>1, <3>2 DEF mark_read, PushTypes, NoteShape, SeenShape, RequestShape
  <2>2. ShownFirst'
    BY <1>5 DEF mark_read, PushTypes, NoteShape, SeenShape, RequestShape, ShownFirst
  <2>3. SentAccounted'
    BY <1>5 DEF mark_read, PushTypes, NoteShape, SeenShape, RequestShape, SentAccounted, PassHolds
  <2>4. PassHolds'
    BY <1>5 DEF mark_read, PushTypes, NoteShape, SeenShape, RequestShape, SentAccounted, PassHolds, RowIds
  <2>5. ResentOnlyAfterCut'
    BY <1>5 DEF mark_read, PushTypes, NoteShape, SeenShape, RequestShape, PassHolds, ResentOnlyAfterCut
  <2>6. RowIds'
    BY <1>5, <1>0 DEF mark_read, PushTypes, NoteShape, SeenShape, RequestShape, RowIds
  <2>7. DroppedFirst'
    BY <1>5 DEF mark_read, PushTypes, NoteShape, SeenShape, RequestShape, DroppedFirst
  <2> QED BY <2>1, <2>2, <2>3, <2>4, <2>5, <2>6, <2>7
<1>6. ASSUME NEW t \in BrowserTabs, push_subscribe(t) PROVE PushInv'
  <2>1. PushTypes'
    <3> DEFINE B == [user : AnyUser, live : Endpoints \union {NoEndpoint}, dropped : SUBSET Endpoints]
    <3>1. browser \in B
      BY DEF PushTypes
    <3>2. PICK e \in Endpoints \union {NoEndpoint} :
               /\ browser' = [browser EXCEPT !.live = e]
               /\ request' = [request EXCEPT ![t] = [kind |-> "subscribe", ep |-> e, user |-> browser.user]]
      BY <1>6, <3>1 DEF push_subscribe
    <3>3. browser' \in B
      BY <3>1, <3>2
    <3>4. [kind |-> "subscribe", ep |-> e, user |-> browser.user] \in RequestShape
      BY <3>1, <3>2 DEF RequestShape
    <3>5. request' \in [BrowserTabs -> RequestShape]
      BY <3>2, <3>4 DEF PushTypes
    <3> QED BY <1>6, <3>3, <3>5 DEF push_subscribe, PushTypes
  <2>2. ShownFirst'
    BY <1>6 DEF push_subscribe, PushTypes, NoteShape, SeenShape, RequestShape, ShownFirst
  <2>3. SentAccounted'
    BY <1>6 DEF push_subscribe, PushTypes, NoteShape, SeenShape, RequestShape, SentAccounted, PassHolds
  <2>4. PassHolds'
    BY <1>6 DEF push_subscribe, PushTypes, NoteShape, SeenShape, RequestShape, SentAccounted, PassHolds, RowIds
  <2>5. ResentOnlyAfterCut'
    BY <1>6 DEF push_subscribe, PushTypes, NoteShape, SeenShape, RequestShape, PassHolds, ResentOnlyAfterCut
  <2>6. RowIds'
    BY <1>6, <1>0 DEF push_subscribe, PushTypes, NoteShape, SeenShape, RequestShape, RowIds
  <2>7. DroppedFirst'
    BY <1>6 DEF push_subscribe, PushTypes, NoteShape, SeenShape, RequestShape, DroppedFirst
  <2> QED BY <2>1, <2>2, <2>3, <2>4, <2>5, <2>6, <2>7
<1>7. ASSUME NEW t \in BrowserTabs, push_unsubscribe(t) PROVE PushInv'
  <2>1. PushTypes'
    <3>1. browser' \in [user : AnyUser, live : Endpoints \union {NoEndpoint}, dropped : SUBSET Endpoints]
      BY <1>7 DEF push_unsubscribe, PushTypes, NoteShape, SeenShape, RequestShape
    <3>2. request' \in [BrowserTabs -> RequestShape]
      BY <1>7 DEF push_unsubscribe, PushTypes, NoteShape, SeenShape, RequestShape
    <3> QED BY <1>7, <3>1, <3>2 DEF push_unsubscribe, PushTypes, NoteShape, SeenShape, RequestShape
  <2>2. ShownFirst'
    BY <1>7 DEF push_unsubscribe, PushTypes, NoteShape, SeenShape, RequestShape, ShownFirst
  <2>3. SentAccounted'
    BY <1>7 DEF push_unsubscribe, PushTypes, NoteShape, SeenShape, RequestShape, SentAccounted, PassHolds
  <2>4. PassHolds'
    BY <1>7 DEF push_unsubscribe, PushTypes, NoteShape, SeenShape, RequestShape, SentAccounted, PassHolds, RowIds
  <2>5. ResentOnlyAfterCut'
    BY <1>7 DEF push_unsubscribe, PushTypes, NoteShape, SeenShape, RequestShape, PassHolds, ResentOnlyAfterCut
  <2>6. RowIds'
    BY <1>7, <1>0 DEF push_unsubscribe, PushTypes, NoteShape, SeenShape, RequestShape, RowIds
  <2>7. DroppedFirst'
    BY <1>7 DEF push_unsubscribe, PushTypes, NoteShape, SeenShape, RequestShape, DroppedFirst
  <2> QED BY <2>1, <2>2, <2>3, <2>4, <2>5, <2>6, <2>7
<1>8. ASSUME NEW u \in PushUsers, sign_in(u) PROVE PushInv'
  <2>1. PushTypes'
    BY <1>8 DEF sign_in, AnyUser, PushTypes, NoteShape, SeenShape, RequestShape, AnyUser
  <2>2. ShownFirst'
    BY <1>8 DEF sign_in, AnyUser, PushTypes, NoteShape, SeenShape, RequestShape, ShownFirst
  <2>3. SentAccounted'
    BY <1>8 DEF sign_in, AnyUser, PushTypes, NoteShape, SeenShape, RequestShape, SentAccounted, PassHolds
  <2>4. PassHolds'
    BY <1>8 DEF sign_in, AnyUser, PushTypes, NoteShape, SeenShape, RequestShape, SentAccounted, PassHolds, RowIds
  <2>5. ResentOnlyAfterCut'
    BY <1>8 DEF sign_in, AnyUser, PushTypes, NoteShape, SeenShape, RequestShape, PassHolds, ResentOnlyAfterCut
  <2>6. RowIds'
    BY <1>8, <1>0 DEF sign_in, AnyUser, PushTypes, NoteShape, SeenShape, RequestShape, RowIds
  <2>7. DroppedFirst'
    BY <1>8 DEF sign_in, AnyUser, PushTypes, NoteShape, SeenShape, RequestShape, DroppedFirst
  <2> QED BY <2>1, <2>2, <2>3, <2>4, <2>5, <2>6, <2>7
<1>9. ASSUME NEW t \in BrowserTabs, request_lost(t) PROVE PushInv'
  <2>1. PushTypes'
    BY <1>9 DEF request_lost, NoReq, PushTypes, NoteShape, SeenShape, RequestShape, AnyUser
  <2>2. ShownFirst'
    BY <1>9 DEF request_lost, NoReq, PushTypes, NoteShape, SeenShape, RequestShape, ShownFirst
  <2>3. SentAccounted'
    BY <1>9 DEF request_lost, NoReq, PushTypes, NoteShape, SeenShape, RequestShape, SentAccounted, PassHolds
  <2>4. PassHolds'
    BY <1>9 DEF request_lost, NoReq, PushTypes, NoteShape, SeenShape, RequestShape, SentAccounted, PassHolds, RowIds
  <2>5. ResentOnlyAfterCut'
    BY <1>9 DEF request_lost, NoReq, PushTypes, NoteShape, SeenShape, RequestShape, PassHolds, ResentOnlyAfterCut
  <2>6. RowIds'
    BY <1>9, <1>0 DEF request_lost, NoReq, PushTypes, NoteShape, SeenShape, RequestShape, RowIds
  <2>7. DroppedFirst'
    BY <1>9 DEF request_lost, NoReq, PushTypes, NoteShape, SeenShape, RequestShape, DroppedFirst
  <2> QED BY <2>1, <2>2, <2>3, <2>4, <2>5, <2>6, <2>7
<1>10. ASSUME NEW t \in BrowserTabs, subscribe_update(t) PROVE PushInv'
  <2>1. PushTypes'
    <3>1. request' \in [BrowserTabs -> RequestShape]
      BY <1>10 DEF subscribe_update, NoReq, AnyUser, PushTypes, NoteShape, SeenShape, RequestShape
    <3>2. subs' \subseteq PushRowShape
      BY <1>10 DEF subscribe_update, RowsFor, PushRowShape, PushTypes, NoteShape, SeenShape, RequestShape
    <3> QED BY <1>10, <3>1, <3>2 DEF subscribe_update, PushTypes, NoteShape, SeenShape, RequestShape
  <2>2. ShownFirst'
    BY <1>10 DEF subscribe_update, RowsFor, NoReq, PushTypes, NoteShape, SeenShape, RequestShape, ShownFirst
  <2>3. SentAccounted'
    BY <1>10 DEF subscribe_update, RowsFor, NoReq, PushTypes, NoteShape, SeenShape, RequestShape, SentAccounted, PassHolds
  <2>4. PassHolds'
    BY <1>10 DEF subscribe_update, RowsFor, NoReq, PushTypes, NoteShape, SeenShape, RequestShape, SentAccounted, PassHolds, RowIds
  <2>5. ResentOnlyAfterCut'
    BY <1>10 DEF subscribe_update, RowsFor, NoReq, PushTypes, NoteShape, SeenShape, RequestShape, PassHolds, ResentOnlyAfterCut
  <2>6. RowIds'
    <3> DEFINE moved == {[r EXCEPT !.user = request[t].user] : r \in RowsFor(request[t].ep)}
    <3>1. subs' = subs \/ subs' = (subs \ RowsFor(request[t].ep)) \union moved
      BY <1>10 DEF subscribe_update
    <3>2. \A x \in moved : \E r \in RowsFor(request[t].ep) :
             x.id = r.id /\ x.ep = r.ep /\ x = [r EXCEPT !.user = request[t].user]
      BY DEF PushTypes, NoteShape, SeenShape, RequestShape, PushRowShape, RowsFor
    <3> HIDE DEF moved
    <3>3. \A x \in subs' : \E r \in subs : x.id = r.id /\ x.ep = r.ep
      BY <3>1, <3>2 DEF RowsFor
    <3>4. \A x, y \in subs' : x.id = y.id => x = y
      BY <3>1, <3>2 DEF RowsFor, RowIds
    <3>5. seen' = seen /\ pass' = pass
      BY <1>10 DEF subscribe_update
    <3> QED BY <3>3, <3>4, <3>5 DEF RowIds
  <2>7. DroppedFirst'
    BY <1>10 DEF subscribe_update, RowsFor, NoReq, PushTypes, NoteShape, SeenShape, RequestShape, DroppedFirst
  <2> QED BY <2>1, <2>2, <2>3, <2>4, <2>5, <2>6, <2>7
<1>11. ASSUME NEW t \in BrowserTabs, subscribe_missing(t) PROVE PushInv'
  <2>1. PushTypes'
    <3>1. request' \in [BrowserTabs -> RequestShape]
      <4>1. request' = [request EXCEPT ![t].kind = "create"] /\ request \in [BrowserTabs -> RequestShape]
        BY <1>11 DEF subscribe_missing, PushTypes
      <4> QED BY <4>1, RequestFields
    <3> QED BY <1>11, <3>1 DEF subscribe_missing, PushTypes, NoteShape, SeenShape, RequestShape
  <2>2. ShownFirst'
    BY <1>11 DEF subscribe_missing, PushTypes, NoteShape, SeenShape, RequestShape, ShownFirst
  <2>3. SentAccounted'
    BY <1>11 DEF subscribe_missing, PushTypes, NoteShape, SeenShape, RequestShape, SentAccounted, PassHolds
  <2>4. PassHolds'
    BY <1>11 DEF subscribe_missing, PushTypes, NoteShape, SeenShape, RequestShape, SentAccounted, PassHolds, RowIds
  <2>5. ResentOnlyAfterCut'
    BY <1>11 DEF subscribe_missing, PushTypes, NoteShape, SeenShape, RequestShape, PassHolds, ResentOnlyAfterCut
  <2>6. RowIds'
    BY <1>11, <1>0 DEF subscribe_missing, PushTypes, NoteShape, SeenShape, RequestShape, RowIds
  <2>7. DroppedFirst'
    BY <1>11 DEF subscribe_missing, PushTypes, NoteShape, SeenShape, RequestShape, DroppedFirst
  <2> QED BY <2>1, <2>2, <2>3, <2>4, <2>5, <2>6, <2>7
<1>12. ASSUME NEW t \in BrowserTabs, subscribe_create(t) PROVE PushInv'
  <2>1. PushTypes'
    <3>1. seen' \in SeenShape
      <4>1. seen' = [sent |-> seen.sent, again |-> seen.again, cut |-> seen.cut, shown |-> seen.shown,
                     rows |-> seen.rows + 1, cuts |-> seen.cuts]
        BY <1>12 DEF subscribe_create, PushTypes, SeenShape
      <4> QED BY <4>1 DEF PushTypes, SeenShape
    <3>2. request' \in [BrowserTabs -> RequestShape]
      BY <1>12 DEF subscribe_create, NoReq, AnyUser, PushTypes, NoteShape, SeenShape, RequestShape
    <3>3. subs' \subseteq PushRowShape
      BY <1>12 DEF subscribe_create, PushRowShape, PushTypes, NoteShape, SeenShape, RequestShape
    <3> QED BY <1>12, <3>1, <3>2, <3>3 DEF subscribe_create, PushTypes, NoteShape, SeenShape, RequestShape
  <2>2. ShownFirst'
    BY <1>12 DEF subscribe_create, NoReq, PushTypes, NoteShape, SeenShape, RequestShape, ShownFirst
  <2>3. SentAccounted'
    BY <1>12 DEF subscribe_create, NoReq, PushTypes, NoteShape, SeenShape, RequestShape, SentAccounted, PassHolds
  <2>4. PassHolds'
    BY <1>12 DEF subscribe_create, NoReq, PushTypes, NoteShape, SeenShape, RequestShape, SentAccounted, PassHolds, RowIds
  <2>5. ResentOnlyAfterCut'
    BY <1>12 DEF subscribe_create, NoReq, PushTypes, NoteShape, SeenShape, RequestShape, PassHolds, ResentOnlyAfterCut
  <2>6. RowIds'
    BY <1>12, <1>0 DEF subscribe_create, NoReq, PushTypes, NoteShape, SeenShape, RequestShape, RowIds
  <2>7. DroppedFirst'
    BY <1>12 DEF subscribe_create, NoReq, PushTypes, NoteShape, SeenShape, RequestShape, DroppedFirst
  <2> QED BY <2>1, <2>2, <2>3, <2>4, <2>5, <2>6, <2>7
<1>13. ASSUME NEW t \in BrowserTabs, unsubscribe(t) PROVE PushInv'
  <2>1. PushTypes'
    BY <1>13 DEF unsubscribe, NoReq, PushTypes, NoteShape, SeenShape, RequestShape, AnyUser
  <2>2. ShownFirst'
    BY <1>13 DEF unsubscribe, NoReq, PushTypes, NoteShape, SeenShape, RequestShape, ShownFirst
  <2>3. SentAccounted'
    BY <1>13 DEF unsubscribe, NoReq, PushTypes, NoteShape, SeenShape, RequestShape, SentAccounted, PassHolds
  <2>4. PassHolds'
    BY <1>13 DEF unsubscribe, NoReq, PushTypes, NoteShape, SeenShape, RequestShape, SentAccounted, PassHolds, RowIds
  <2>5. ResentOnlyAfterCut'
    BY <1>13 DEF unsubscribe, NoReq, PushTypes, NoteShape, SeenShape, RequestShape, PassHolds, ResentOnlyAfterCut
  <2>6. RowIds'
    BY <1>13, <1>0 DEF unsubscribe, NoReq, PushTypes, NoteShape, SeenShape, RequestShape, RowIds
  <2>7. DroppedFirst'
    BY <1>13 DEF unsubscribe, NoReq, PushTypes, NoteShape, SeenShape, RequestShape, DroppedFirst
  <2> QED BY <2>1, <2>2, <2>3, <2>4, <2>5, <2>6, <2>7
<1>14. ASSUME outbox_list PROVE PushInv'
  <2>1. PushTypes'
    BY <1>14 DEF outbox_list, NoPass, Made, PushTypes, NoteShape, SeenShape, RequestShape, AnyUser
  <2>2. ShownFirst'
    BY <1>14 DEF outbox_list, NoPass, Made, PushTypes, NoteShape, SeenShape, RequestShape, ShownFirst
  <2>3. SentAccounted'
    BY <1>14 DEF outbox_list, NoPass, Made, PushTypes, NoteShape, SeenShape, RequestShape, SentAccounted, PassHolds
  <2>4. PassHolds'
    BY <1>14 DEF outbox_list, NoPass, Made, PushTypes, NoteShape, SeenShape, RequestShape, SentAccounted, PassHolds, RowIds
  <2>5. ResentOnlyAfterCut'
    BY <1>14 DEF outbox_list, NoPass, Made, PushTypes, NoteShape, SeenShape, RequestShape, PassHolds, ResentOnlyAfterCut
  <2>6. RowIds'
    BY <1>14, <1>0 DEF outbox_list, NoPass, Made, PushTypes, NoteShape, SeenShape, RequestShape, RowIds
  <2>7. DroppedFirst'
    BY <1>14 DEF outbox_list, NoPass, Made, PushTypes, NoteShape, SeenShape, RequestShape, DroppedFirst
  <2> QED BY <2>1, <2>2, <2>3, <2>4, <2>5, <2>6, <2>7
<1>15. ASSUME NEW n \in Notes, outbox_muted(n) PROVE PushInv'
  <2>1. PushTypes'
    <3>1. note' \in [Notes -> NoteShape]
      <4>1. note' = [note EXCEPT ![n].pushed = TRUE] /\ note \in [Notes -> NoteShape]
        BY <1>15 DEF outbox_muted, Stamped, PushTypes
      <4> QED BY <4>1, NoteFields
    <3>2. pass' \in [pc : {"idle", "row"} \union Notes, todo : SUBSET Notes, left : SUBSET PushRowShape]
      BY <1>15 DEF outbox_muted, AfterRow, NoPass, PushTypes, NoteShape, SeenShape, RequestShape
    <3> QED BY <1>15, <3>1, <3>2 DEF outbox_muted, PushTypes, NoteShape, SeenShape, RequestShape
  <2>2. ShownFirst'
    BY <1>15 DEF outbox_muted, Stamped, AfterRow, NoPass, PushTypes, NoteShape, SeenShape, RequestShape, ShownFirst
  <2>3. SentAccounted'
    BY <1>15 DEF outbox_muted, Stamped, AfterRow, NoPass, PushTypes, NoteShape, SeenShape, RequestShape, SentAccounted, PassHolds
  <2>4. PassHolds'
    BY <1>15 DEF outbox_muted, Stamped, AfterRow, NoPass, PushTypes, NoteShape, SeenShape, RequestShape, SentAccounted, PassHolds, RowIds
  <2>5. ResentOnlyAfterCut'
    BY <1>15 DEF outbox_muted, Stamped, AfterRow, NoPass, PushTypes, NoteShape, SeenShape, RequestShape, PassHolds, ResentOnlyAfterCut
  <2>6. RowIds'
    BY <1>15, <1>0 DEF outbox_muted, Stamped, AfterRow, NoPass, PushTypes, NoteShape, SeenShape, RequestShape, RowIds
  <2>7. DroppedFirst'
    BY <1>15 DEF outbox_muted, Stamped, AfterRow, NoPass, PushTypes, NoteShape, SeenShape, RequestShape, DroppedFirst
  <2> QED BY <2>1, <2>2, <2>3, <2>4, <2>5, <2>6, <2>7
<1>16. ASSUME NEW n \in Notes, outbox_row(n) PROVE PushInv'
  <2>1. PushTypes'
    BY <1>16 DEF outbox_row, PushTypes, NoteShape, SeenShape, RequestShape, AnyUser
  <2>2. ShownFirst'
    BY <1>16 DEF outbox_row, PushTypes, NoteShape, SeenShape, RequestShape, ShownFirst
  <2>3. SentAccounted'
    BY <1>16 DEF outbox_row, PushTypes, NoteShape, SeenShape, RequestShape, SentAccounted, PassHolds
  <2>4. PassHolds'
    BY <1>16 DEF outbox_row, PushTypes, NoteShape, SeenShape, RequestShape, SentAccounted, PassHolds, RowIds
  <2>5. ResentOnlyAfterCut'
    BY <1>16 DEF outbox_row, PushTypes, NoteShape, SeenShape, RequestShape, PassHolds, ResentOnlyAfterCut
  <2>6. RowIds'
    BY <1>16, <1>0 DEF outbox_row, PushTypes, NoteShape, SeenShape, RequestShape, RowIds
  <2>7. DroppedFirst'
    BY <1>16 DEF outbox_row, PushTypes, NoteShape, SeenShape, RequestShape, DroppedFirst
  <2> QED BY <2>1, <2>2, <2>3, <2>4, <2>5, <2>6, <2>7
<1>17. ASSUME NEW n \in Notes, NEW r \in pass.left, send_one(n, r) PROVE PushInv'
  <2>1. PushTypes'
    <3>1. seen' \in SeenShape
      <4>1. seen' = [sent |-> seen.sent \union {<<n, r.id>>},
                     again |-> IF <<n, r.id>> \in seen.sent THEN seen.again \union {n} ELSE seen.again,
                     cut |-> seen.cut, shown |-> seen.shown, rows |-> seen.rows, cuts |-> seen.cuts]
        BY <1>17 DEF send_one, PushTypes, SeenShape
      <4>2. r.id \in Nat
        BY <1>0 DEF PushTypes
      <4> QED BY <4>1, <4>2 DEF PushTypes, SeenShape
    <3>2. pass' \in [pc : {"idle", "row"} \union Notes, todo : SUBSET Notes, left : SUBSET PushRowShape]
      BY <1>17 DEF send_one, PushTypes, NoteShape, SeenShape, RequestShape
    <3>3. subs' \subseteq PushRowShape
      BY <1>17 DEF send_one, PushTypes, NoteShape, SeenShape, RequestShape
    <3> QED BY <1>17, <3>1, <3>2, <3>3 DEF send_one, PushTypes, NoteShape, SeenShape, RequestShape
  <2>2. ShownFirst'
    BY <1>17 DEF send_one, Prune, SendOutcomes, PushTypes, NoteShape, SeenShape, RequestShape, ShownFirst
  <2>3. SentAccounted'
    BY <1>17 DEF send_one, Prune, SendOutcomes, PushTypes, NoteShape, SeenShape, RequestShape, SentAccounted, PassHolds
  <2>4. PassHolds'
    BY <1>17 DEF send_one, Prune, SendOutcomes, PushTypes, NoteShape, SeenShape, RequestShape, SentAccounted, PassHolds, RowIds
  <2>5. ResentOnlyAfterCut'
    BY <1>17 DEF send_one, Prune, SendOutcomes, PushTypes, NoteShape, SeenShape, RequestShape, PassHolds, ResentOnlyAfterCut
  <2>6. RowIds'
    BY <1>17, <1>0 DEF send_one, Prune, SendOutcomes, PushTypes, NoteShape, SeenShape, RequestShape, RowIds
  <2>7. DroppedFirst'
    BY <1>17 DEF send_one, Prune, SendOutcomes, PushTypes, NoteShape, SeenShape, RequestShape, DroppedFirst
  <2> QED BY <2>1, <2>2, <2>3, <2>4, <2>5, <2>6, <2>7
<1>18. ASSUME NEW n \in Notes, outbox_stamp(n) PROVE PushInv'
  <2>1. PushTypes'
    <3>1. note' \in [Notes -> NoteShape]
      <4>1. note' = [note EXCEPT ![n].pushed = TRUE] /\ note \in [Notes -> NoteShape]
        BY <1>18 DEF outbox_stamp, Stamped, PushTypes
      <4> QED BY <4>1, NoteFields
    <3>2. pass' \in [pc : {"idle", "row"} \union Notes, todo : SUBSET Notes, left : SUBSET PushRowShape]
      BY <1>18 DEF outbox_stamp, AfterRow, NoPass, PushTypes, NoteShape, SeenShape, RequestShape
    <3> QED BY <1>18, <3>1, <3>2 DEF outbox_stamp, PushTypes, NoteShape, SeenShape, RequestShape
  <2>2. ShownFirst'
    BY <1>18 DEF outbox_stamp, Stamped, AfterRow, NoPass, PushTypes, NoteShape, SeenShape, RequestShape, ShownFirst
  <2>3. SentAccounted'
    BY <1>18 DEF outbox_stamp, Stamped, AfterRow, NoPass, PushTypes, NoteShape, SeenShape, RequestShape, SentAccounted, PassHolds
  <2>4. PassHolds'
    BY <1>18 DEF outbox_stamp, Stamped, AfterRow, NoPass, PushTypes, NoteShape, SeenShape, RequestShape, SentAccounted, PassHolds, RowIds
  <2>5. ResentOnlyAfterCut'
    BY <1>18 DEF outbox_stamp, Stamped, AfterRow, NoPass, PushTypes, NoteShape, SeenShape, RequestShape, PassHolds, ResentOnlyAfterCut
  <2>6. RowIds'
    BY <1>18, <1>0 DEF outbox_stamp, Stamped, AfterRow, NoPass, PushTypes, NoteShape, SeenShape, RequestShape, RowIds
  <2>7. DroppedFirst'
    BY <1>18 DEF outbox_stamp, Stamped, AfterRow, NoPass, PushTypes, NoteShape, SeenShape, RequestShape, DroppedFirst
  <2> QED BY <2>1, <2>2, <2>3, <2>4, <2>5, <2>6, <2>7
<1>19. ASSUME outbox_cut PROVE PushInv'
  <2>1. PushTypes'
    <3>1. seen' \in SeenShape
      <4>1. seen' = [sent |-> seen.sent, again |-> seen.again, cut |-> seen.cut \union pass.todo,
                     shown |-> seen.shown, rows |-> seen.rows, cuts |-> seen.cuts + 1]
        BY <1>19 DEF outbox_cut, PushTypes, SeenShape
      <4> QED BY <4>1 DEF PushTypes, SeenShape
    <3>2. pass' \in [pc : {"idle", "row"} \union Notes, todo : SUBSET Notes, left : SUBSET PushRowShape]
      BY <1>19 DEF outbox_cut, NoPass, PushTypes, NoteShape, SeenShape, RequestShape
    <3> QED BY <1>19, <3>1, <3>2 DEF outbox_cut, PushTypes, NoteShape, SeenShape, RequestShape
  <2>2. ShownFirst'
    BY <1>19 DEF outbox_cut, NoPass, PushTypes, NoteShape, SeenShape, RequestShape, ShownFirst
  <2>3. SentAccounted'
    BY <1>19 DEF outbox_cut, NoPass, PushTypes, NoteShape, SeenShape, RequestShape, SentAccounted, PassHolds
  <2>4. PassHolds'
    BY <1>19 DEF outbox_cut, NoPass, PushTypes, NoteShape, SeenShape, RequestShape, SentAccounted, PassHolds, RowIds
  <2>5. ResentOnlyAfterCut'
    BY <1>19 DEF outbox_cut, NoPass, PushTypes, NoteShape, SeenShape, RequestShape, PassHolds, ResentOnlyAfterCut
  <2>6. RowIds'
    BY <1>19, <1>0 DEF outbox_cut, NoPass, PushTypes, NoteShape, SeenShape, RequestShape, RowIds
  <2>7. DroppedFirst'
    BY <1>19 DEF outbox_cut, NoPass, PushTypes, NoteShape, SeenShape, RequestShape, DroppedFirst
  <2> QED BY <2>1, <2>2, <2>3, <2>4, <2>5, <2>6, <2>7
<1>20. CASE UNCHANGED pushVars
  BY <1>20 DEF pushVars, PushTypes, NoteShape, SeenShape, RequestShape, ShownFirst, SentAccounted, PassHolds, ResentOnlyAfterCut, RowIds, DroppedFirst
<1> QED BY <1>1, <1>2, <1>3, <1>4, <1>5, <1>6, <1>7, <1>8, <1>9, <1>10, <1>11, <1>12, <1>13, <1>14, <1>15, <1>16, <1>17, <1>18, <1>19, <1>20
           DEF PushNext, ReadNext, OutboxStep, BrowserStep, Muting, KeyEvents

LEMMA PushKept == BackSpec => []PushInv
  BY PushBegan, PushBegins, PushStep, PushTurns, PTL DEF BackSpec

\* A note goes to a subscription twice only if a pass was cut between the send and the
\* stamp: failing sends, prunes, new subscriptions and mutes cause no repeat (pushed_at
\* in ops/push.py).
THEOREM SentOnceUnlessCut == BackSpec => []ResentOnlyAfterCut
  BY PushKept, PTL DEF PushInv

\* A dropdown marks only rows it rendered, so a badge at zero hides nothing its user was
\* never shown, for any mutes and arrivals in between (web/notifications.py dropdown).
THEOREM ReadMeansShown == BackSpec => []NothingReadUnseen
<1>1. PushInv => NothingReadUnseen
  <2> SUFFICES ASSUME PushInv PROVE NothingReadUnseen
    OBVIOUS
  <2>1. ASSUME NEW u \in PushUsers, notifications(u).unread = 0
        PROVE  visible_qs(u) \subseteq seen.shown
    <3> DEFINE unread == {n \in visible_qs(u) : ~note[n].read}
    <3>1. visible_qs(u) \subseteq Notes
      BY DEF visible_qs, Made
    <3>2. IsFiniteSet(unread)
      BY <3>1, FS_Subset, PushAssumption
    <3>3. Cardinality(unread) = 0
      BY <2>1 DEF notifications, unread_count
    <3>4. unread = {}
      BY <3>2, <3>3, FS_EmptySet
    <3> QED BY <3>1, <3>4 DEF PushInv, ShownFirst
  <2> QED BY <2>1 DEF PushInv, ShownFirst, NothingReadUnseen
<1> QED BY <1>1, PushKept, PTL

\* A row of the subscription table goes only when its endpoint is not the browser's live
\* one: transient vendor failures, late unsubscribes and races of tabs never cost a live
\* subscription (_send_one in ops/push.py, unsubscribe in web/push.py).
THEOREM LiveRowsStay == BackSpec => LiveSubscriptionKept
<1> DEFINE A == \A r \in subs : (\A s \in subs' : s.id # r.id) => r.ep # browser.live
<1>1. PushInv /\ [PushNext \/ ReadNext]_pushVars => [A]_pushVars
  <2> SUFFICES ASSUME PushInv, PushNext \/ ReadNext PROVE A
    OBVIOUS
  <2>1. CASE subs' = subs
    BY <2>1
  <2>2. ASSUME NEW t \in BrowserTabs, subscribe_update(t) PROVE A
    <3>1. \A r \in RowsFor(request[t].ep) : [r EXCEPT !.user = request[t].user].id = r.id
      BY DEF RowsFor, PushInv, PushTypes, PushRowShape
    <3> QED BY <2>2, <3>1 DEF subscribe_update, RowsFor
  <2>3. ASSUME NEW t \in BrowserTabs, subscribe_create(t) PROVE A
    BY <2>3 DEF subscribe_create
  <2>4. ASSUME NEW t \in BrowserTabs, unsubscribe(t) PROVE A
    BY <2>4 DEF unsubscribe, PushInv, DroppedFirst
  <2>5. ASSUME NEW n \in Notes, NEW r \in pass.left, send_one(n, r) PROVE A
    <3>1. subs' = subs \/ (r.ep # browser.live /\ subs' = {s \in subs : s.id # r.id})
      BY <2>5 DEF send_one, SendOutcomes, Prune
    <3> QED BY <3>1 DEF PushInv, RowIds
  <2> QED BY <2>1, <2>2, <2>3, <2>4, <2>5
             DEF PushNext, ReadNext, OutboxStep, BrowserStep, Muting, notify, mute_toggle, push_tick,
                 dropdown_render, mark_read, push_subscribe, push_unsubscribe, sign_in, request_lost,
                 subscribe_missing, outbox_list, outbox_muted, outbox_row, outbox_stamp, outbox_cut
<1> QED BY <1>1, PushKept, PushTurns, PTL DEF BackSpec, LiveSubscriptionKept

-----------------------------------------------------------------------------
(***************************************************************************)
(* The guards' floor alerts (GuardAlerts).  A guard is owed the batch of   *)
(* the run until told; what the guard was told and is owed adds up to at   *)
(* most what happened, and to all of it while no run was cut.              *)
(***************************************************************************)
LEMMA GuardBegan == BackInit => GuardInit
  BY DEF BackInit

LEMMA GuardTurns == [BackNext]_backVars => [GuardNext]_guardVars
  BY DEF backVars, BackNext, RosterTurn, PushTurn, JobTurn, WeeklyTurn, CampusTurn, ImportTurn,
         PagesTurn, PeopleTurn, PeopleRest

PostingShape == [who : GuardUsers, floors : SUBSET GuardFloors, from : Nat, to : Nat]
AlertShape == [who : GuardUsers, floors : SUBSET GuardFloors]
Tally == [GuardFloors -> [EventKinds -> Nat]]

GuardTypes ==
  /\ Posting0 \subseteq gposts /\ gposts \subseteq PostingShape
  /\ enabled \subseteq GuardUsers /\ gclock \in 0..LastGuardTime
  /\ sweeping \in [phase : {"idle", "sweeping", "flagging", "telling"}, todo : SUBSET AlertShape]
  /\ sweeping.phase # "telling" => sweeping.todo = {}
  /\ events \in Tally /\ happened \in Tally
  /\ told \in [GuardUsers -> [alerts : Nat, sum : Tally]]
  /\ ghist \in [runs : Nat, cut : BOOLEAN]

Owed(g) ==
  \/ sweeping.phase \in {"sweeping", "flagging"}
  \/ sweeping.phase = "telling" /\ \E e \in sweeping.todo : e.who = g

Batch(g, f, k) == IF Owed(g) THEN events[f][k] ELSE 0

\* One entry per guard, which names every tallied floor the guard stands on.
TodoWhole ==
  /\ \A e, d \in sweeping.todo : e.who = d.who => e = d
  /\ \A e \in sweeping.todo, f \in GuardFloors : Standing(e.who, f) => f \in e.floors \/ events[f] = Nothing

AddsUp ==
  \A g \in GuardUsers :
    /\ told[g].alerts + (IF Owed(g) THEN 1 ELSE 0) <= ghist.runs
    /\ \A f \in GuardFloors, k \in EventKinds :
         /\ told[g].sum[f][k] + Batch(g, f, k) <= happened[f][k]
         /\ ~ghist.cut /\ Standing(g, f) => told[g].sum[f][k] + Batch(g, f, k) = happened[f][k]

GuardInv == GuardTypes /\ TodoWhole /\ AddsUp

LEMMA GuardBegins == GuardInit => GuardInv
<1> SUFFICES ASSUME GuardInit PROVE GuardInv
  OBVIOUS
<1>1. NoTally \in Tally /\ \A f \in GuardFloors, k \in EventKinds : NoTally[f][k] = 0
  BY DEF NoTally, Nothing, Tally
<1> HIDE DEF NoTally
<1>2. GuardTypes
  BY <1>1, GuardConstants DEF GuardInit, GuardTypes, NotSweeping, PostingShape
<1>3. TodoWhole
  BY DEF GuardInit, TodoWhole, NotSweeping
<1>4. AddsUp
  BY <1>1 DEF GuardInit, AddsUp, Batch, Owed, NotSweeping
<1> QED BY <1>2, <1>3, <1>4 DEF GuardInv

LEMMA TallyCounts ==
  ASSUME GuardTypes
  PROVE  /\ \A f \in GuardFloors, k \in EventKinds : events[f][k] \in Nat /\ happened[f][k] \in Nat
         /\ \A g \in GuardUsers : told[g].alerts \in Nat
         /\ \A g \in GuardUsers, f \in GuardFloors, k \in EventKinds : told[g].sum[f][k] \in Nat
         /\ ghist.runs \in Nat
<1>1. \A x \in Tally, f \in GuardFloors, k \in EventKinds : x[f][k] \in Nat
  BY DEF Tally
<1>2. \A g \in GuardUsers : told[g].alerts \in Nat /\ told[g].sum \in Tally
  BY DEF GuardTypes
<1> QED BY <1>1, <1>2 DEF GuardTypes

\* A step after which nobody is owed anything new, and no more of what they were.
LEMMA AddsUpKept ==
  ASSUME GuardTypes, AddsUp, UNCHANGED <<told, happened>>, ghist'.runs = ghist.runs, enabled' \subseteq enabled,
         \A g \in GuardUsers : Owed(g)' => Owed(g),
         \A g \in GuardUsers, f \in GuardFloors, k \in EventKinds :
            /\ Owed(g)' => events'[f][k] = events[f][k]
            /\ ~ghist'.cut /\ Standing(g, f) /\ Owed(g) /\ ~Owed(g)' => events[f][k] = 0,
         ghist.cut => ghist'.cut
  PROVE  AddsUp'
<1> SUFFICES ASSUME NEW g \in GuardUsers
             PROVE  /\ told[g].alerts + (IF Owed(g)' THEN 1 ELSE 0) <= ghist.runs
                    /\ \A f \in GuardFloors, k \in EventKinds :
                         /\ told[g].sum[f][k] + Batch(g, f, k)' <= happened[f][k]
                         /\ ~ghist'.cut /\ Standing(g, f)' => told[g].sum[f][k] + Batch(g, f, k)' = happened[f][k]
  BY DEF AddsUp
<1>1. \A f \in GuardFloors : Standing(g, f)' => Standing(g, f)
  BY DEF Standing
<1>2. told[g].alerts + (IF Owed(g)' THEN 1 ELSE 0) <= ghist.runs
  BY TallyCounts DEF AddsUp
<1>3. \A f \in GuardFloors, k \in EventKinds : told[g].sum[f][k] + Batch(g, f, k)' <= happened[f][k]
  BY TallyCounts DEF AddsUp, Batch
<1>4. \A f \in GuardFloors, k \in EventKinds :
         ~ghist'.cut /\ Standing(g, f)' => told[g].sum[f][k] + Batch(g, f, k)' = happened[f][k]
  BY <1>1, TallyCounts DEF AddsUp, Batch
<1> QED BY <1>2, <1>3, <1>4

LEMMA GuardStarts ==
  ASSUME GuardInv, sweep_start PROVE GuardInv'
<1> USE GuardConstants DEF GuardInv
<1>1. NoTally \in Tally /\ \A f \in GuardFloors, k \in EventKinds : NoTally[f][k] = 0
  BY DEF NoTally, Nothing, Tally
<1> HIDE DEF NoTally
<1>2. sweeping.todo = {} /\ sweeping.phase = "idle" /\ sweeping' = [phase |-> "sweeping", todo |-> {}]
  BY DEF sweep_start, GuardTypes, NotSweeping
<1>3. ghist' = [runs |-> ghist.runs + 1, cut |-> ghist.cut]
  BY DEF sweep_start, GuardTypes
<1>4. GuardTypes'
  <2>1. /\ ghist' \in [runs : Nat, cut : BOOLEAN] /\ sweeping'.phase # "telling" => sweeping'.todo = {}
        /\ sweeping' \in [phase : {"idle", "sweeping", "flagging", "telling"}, todo : SUBSET AlertShape]
    BY <1>2, <1>3 DEF GuardTypes
  <2> QED BY <1>1, <2>1 DEF sweep_start, GuardTypes
<1>5. TodoWhole'
  BY <1>2 DEF TodoWhole
<1>6. \A g \in GuardUsers : ~Owed(g) /\ Owed(g)'
  BY <1>2 DEF Owed
<1>7. \A g \in GuardUsers, f \in GuardFloors : Standing(g, f)' = Standing(g, f)
  BY DEF Standing, sweep_start
<1>8. AddsUp'
  <2> SUFFICES ASSUME NEW g \in GuardUsers
               PROVE  /\ told[g].alerts + 1 <= ghist.runs + 1
                      /\ \A f \in GuardFloors, k \in EventKinds :
                           /\ told[g].sum[f][k] + 0 <= happened[f][k]
                           /\ ~ghist.cut /\ Standing(g, f) => told[g].sum[f][k] + 0 = happened[f][k]
    BY <1>1, <1>3, <1>6, <1>7 DEF AddsUp, Batch, sweep_start
  <2> QED BY <1>6, TallyCounts DEF AddsUp, Batch
<1> QED BY <1>4, <1>5, <1>8

LEMMA GuardCollects ==
  ASSUME GuardInv, NEW f \in GuardFloors, NEW k \in EventKinds, collect(k, f) PROVE GuardInv'
<1> USE DEF GuardInv
<1>1. sweeping.phase \in {"sweeping", "flagging"} /\ sweeping' = sweeping
  BY DEF collect
<1>2. events' \in Tally /\ happened' \in Tally
  <2>1. \A x \in Tally : [x EXCEPT ![f][k] = @ + 1] \in Tally
    BY DEF Tally
  <2> QED BY <2>1 DEF collect, GuardTypes
<1>3. \A d \in GuardFloors, j \in EventKinds :
         /\ events'[d][j] = IF d = f /\ j = k THEN events[d][j] + 1 ELSE events[d][j]
         /\ happened'[d][j] = IF d = f /\ j = k THEN happened[d][j] + 1 ELSE happened[d][j]
  BY DEF collect, GuardTypes, Tally
<1>4. GuardTypes'
  BY <1>2 DEF collect, GuardTypes
<1>5. TodoWhole'
  BY <1>1 DEF TodoWhole, GuardTypes
<1>6. \A g \in GuardUsers : Owed(g) /\ Owed(g)'
  BY <1>1 DEF Owed
<1>7. \A g \in GuardUsers, d \in GuardFloors : Standing(g, d)' = Standing(g, d)
  BY DEF Standing, collect
<1>8. AddsUp'
  <2> SUFFICES ASSUME NEW g \in GuardUsers
               PROVE  /\ told[g].alerts + 1 <= ghist.runs
                      /\ \A d \in GuardFloors, j \in EventKinds :
                           /\ told[g].sum[d][j] + events'[d][j] <= happened'[d][j]
                           /\ ~ghist.cut /\ Standing(g, d) => told[g].sum[d][j] + events'[d][j] = happened'[d][j]
    BY <1>6, <1>7 DEF AddsUp, Batch, collect
  <2>1. /\ told[g].alerts + 1 <= ghist.runs
        /\ \A d \in GuardFloors, j \in EventKinds :
             /\ told[g].sum[d][j] + events[d][j] <= happened[d][j]
             /\ ~ghist.cut /\ Standing(g, d) => told[g].sum[d][j] + events[d][j] = happened[d][j]
    BY <1>6 DEF AddsUp, Batch
  <2> QED BY <1>3, <2>1, TallyCounts
<1> QED BY <1>4, <1>5, <1>8

\* A guard standing on a floor where something happened has an entry that names it.
LEMMA StandingListed ==
  ASSUME GuardTypes, NEW g \in GuardUsers, NEW f \in GuardFloors, Standing(g, f), events[f] # Nothing
  PROVE  /\ \E e \in per_user : e.who = g
         /\ \A e \in per_user : e.who = g => f \in e.floors
<1> DEFINE here == {p \in gposts : p.who \in enabled /\ OnDuty(p) /\ p.floors \cap Tallied # {}}
<1>1. PICK p \in Posting0 : p.who = g /\ f \in p.floors /\ p.from = 0 /\ p.to = LastGuardTime
  BY DEF Standing
<1>2. g \in enabled /\ p \in gposts /\ OnDuty(p) /\ f \in Tallied
  BY <1>1, GuardConstants DEF Standing, OnDuty, Tallied, GuardTypes
<1>3. p \in here
  BY <1>1, <1>2
<1> HIDE DEF here
<1>4. per_user = {[who |-> x, floors |-> UNION {q.floors \cap Tallied : q \in {y \in here : y.who = x}}] :
                    x \in {q.who : q \in here}}
  BY DEF per_user, here
<1>5. g \in {q.who : q \in here}
  BY <1>1, <1>3
<1>6. ASSUME NEW e \in per_user, e.who = g PROVE f \in e.floors
  <2>1. e.floors = UNION {q.floors \cap Tallied : q \in {y \in here : y.who = g}}
    BY <1>4, <1>6
  <2> QED BY <1>1, <1>2, <1>3, <2>1
<1>7. \E e \in per_user : e.who = g
  <2> DEFINE e == [who |-> g, floors |-> UNION {q.floors \cap Tallied : q \in {y \in here : y.who = g}}]
  <2>1. e \in per_user
    BY <1>4, <1>5
  <2>2. e.who = g
    OBVIOUS
  <2> QED BY <2>1, <2>2
<1> QED BY <1>6, <1>7

LEMMA EntriesWhole ==
  ASSUME GuardTypes
  PROVE  per_user \subseteq AlertShape /\ \A e, d \in per_user : e.who = d.who => e = d
<1> DEFINE here == {p \in gposts : p.who \in enabled /\ OnDuty(p) /\ p.floors \cap Tallied # {}}
           entry(x) == [who |-> x, floors |-> UNION {q.floors \cap Tallied : q \in {y \in here : y.who = x}}]
<1>1. per_user = {entry(x) : x \in {q.who : q \in here}}
  BY DEF per_user
<1>2. \A x \in {q.who : q \in here} : entry(x) \in AlertShape
  BY DEF AlertShape, GuardTypes, PostingShape, Tallied
<1>3. \A x : entry(x).who = x
  OBVIOUS
<1> HIDE DEF entry, here
<1> QED BY <1>1, <1>2, <1>3

LEMMA GuardsListed ==
  ASSUME GuardInv, notify_floor_guards PROVE GuardInv'
<1> USE DEF GuardInv
<1>1. sweeping.phase = "flagging" /\ \A g \in GuardUsers : Owed(g)
  BY DEF notify_floor_guards, Owed
<1>2. /\ per_user = {} => sweeping' = NotSweeping
      /\ per_user # {} => sweeping' = [phase |-> "telling", todo |-> per_user]
  BY DEF notify_floor_guards
<1>3. per_user \subseteq AlertShape /\ \A e, d \in per_user : e.who = d.who => e = d
  BY EntriesWhole
<1>4. sweeping'.todo = per_user
  BY <1>2 DEF NotSweeping
<1>5. GuardTypes'
  BY <1>2, <1>3 DEF notify_floor_guards, GuardTypes, NotSweeping
<1>6. UNCHANGED <<gposts, enabled, gclock, events, happened, told, ghist>>
  BY DEF notify_floor_guards
<1>7. \A g \in GuardUsers, f \in GuardFloors : Standing(g, f)' = Standing(g, f)
  BY <1>6 DEF Standing
<1>8. TodoWhole'
  <2>1. \A e \in per_user, f \in GuardFloors : Standing(e.who, f) => f \in e.floors \/ events[f] = Nothing
    BY <1>3, StandingListed DEF AlertShape
  <2>2. \A e \in per_user : e.who \in GuardUsers
    BY <1>3 DEF AlertShape
  <2> QED BY <1>3, <1>4, <1>6, <1>7, <2>1, <2>2 DEF TodoWhole
<1>9. \A g \in GuardUsers : ~Owed(g)' => \A e \in per_user : e.who # g
  BY <1>2 DEF Owed, NotSweeping
<1>10. AddsUp'
  <2>1. ASSUME NEW g \in GuardUsers, NEW f \in GuardFloors, NEW k \in EventKinds, Standing(g, f), ~Owed(g)'
        PROVE  events[f][k] = 0
    BY <1>9, <2>1, StandingListed DEF Nothing
  <2> QED BY <1>1, <1>6, <2>1, AddsUpKept
<1> QED BY <1>5, <1>8, <1>10

LEMMA GuardTold ==
  ASSUME GuardInv, NEW e \in sweeping.todo, tell_guard(e) PROVE GuardInv'
<1> USE DEF GuardInv
<1> DEFINE more == summarize_floor_events(e.floors)
<1>1. /\ sweeping.phase = "telling" /\ e \in AlertShape /\ e.who \in GuardUsers /\ Owed(e.who)
  BY DEF tell_guard, GuardTypes, AlertShape, Owed
<1>2. /\ sweeping.todo = {e} => sweeping' = [phase |-> "idle", todo |-> {}]
      /\ sweeping.todo # {e} => sweeping' = [phase |-> "telling", todo |-> sweeping.todo \ {e}]
  BY <1>1 DEF tell_guard, GuardTypes, NotSweeping
<1>3. UNCHANGED <<gposts, enabled, gclock, events, happened, ghist>>
  BY DEF tell_guard
<1>4. more \in Tally /\ \A f \in GuardFloors, k \in EventKinds :
                           more[f][k] = IF f \in e.floors THEN events[f][k] ELSE 0
  BY DEF summarize_floor_events, Nothing, GuardTypes, Tally
<1> HIDE DEF more
<1>5. \A a, b \in Tally : /\ Plus(a, b) \in Tally
                          /\ \A f \in GuardFloors, k \in EventKinds : Plus(a, b)[f][k] = a[f][k] + b[f][k]
  BY DEF Plus, Tally
<1>6. told[e.who].sum \in Tally /\ told[e.who].alerts \in Nat
  BY <1>1 DEF GuardTypes
<1>7. told' = [told EXCEPT ![e.who] = [alerts |-> told[e.who].alerts + 1, sum |-> Plus(told[e.who].sum, more)]]
  BY <1>1 DEF tell_guard, more, GuardTypes
<1>8. told' \in [GuardUsers -> [alerts : Nat, sum : Tally]]
  BY <1>1, <1>4, <1>5, <1>6, <1>7 DEF GuardTypes
<1>9. GuardTypes'
  BY <1>2, <1>3, <1>8 DEF GuardTypes
<1>10. \A g \in GuardUsers, f \in GuardFloors : Standing(g, f)' = Standing(g, f)
  BY <1>3 DEF Standing
<1>11. TodoWhole'
  <2>1. sweeping'.todo \subseteq sweeping.todo
    BY <1>2
  <2>2. \A d \in sweeping.todo : d.who \in GuardUsers
    BY DEF GuardTypes, AlertShape
  <2> QED BY <1>3, <1>10, <2>1, <2>2 DEF TodoWhole
<1>12. ~Owed(e.who)' /\ \A g \in GuardUsers \ {e.who} : Owed(g)' = Owed(g)
  <2>1. \A d \in sweeping.todo : d.who = e.who => d = e
    BY DEF TodoWhole
  <2>2. CASE sweeping.todo = {e}
    BY <1>1, <1>2, <2>2 DEF Owed
  <2>3. CASE sweeping.todo # {e}
    <3>1. sweeping'.phase = "telling" /\ sweeping'.todo = sweeping.todo \ {e}
      BY <1>2, <2>3
    <3> QED BY <1>1, <2>1, <3>1 DEF Owed
  <2> QED BY <2>2, <2>3
<1>13. AddsUp'
  <2>1. ASSUME NEW g \in GuardUsers \ {e.who}
        PROVE  /\ told'[g] = told[g]
               /\ Owed(g)' = Owed(g)
               /\ \A f \in GuardFloors, k \in EventKinds : Batch(g, f, k)' = Batch(g, f, k)
    BY <1>3, <1>7, <1>12 DEF Batch, GuardTypes
  <2>2. /\ told'[e.who].alerts = told[e.who].alerts + 1
        /\ \A f \in GuardFloors, k \in EventKinds :
             told'[e.who].sum[f][k] = told[e.who].sum[f][k] + (IF f \in e.floors THEN events[f][k] ELSE 0)
    BY <1>1, <1>4, <1>5, <1>6, <1>7 DEF GuardTypes
  <2>3. \A f \in GuardFloors, k \in EventKinds : Batch(e.who, f, k) = events[f][k] /\ Batch(e.who, f, k)' = 0
    BY <1>1, <1>12 DEF Batch
  <2>4. \A f \in GuardFloors, k \in EventKinds : Standing(e.who, f) => f \in e.floors \/ events[f][k] = 0
    BY DEF TodoWhole, Nothing
  <2>5. /\ told[e.who].alerts + 1 <= ghist.runs
        /\ \A f \in GuardFloors, k \in EventKinds :
             /\ told[e.who].sum[f][k] + events[f][k] <= happened[f][k]
             /\ ~ghist.cut /\ Standing(e.who, f) => told[e.who].sum[f][k] + events[f][k] = happened[f][k]
    BY <1>1, <2>3 DEF AddsUp
  <2>6. /\ told'[e.who].alerts + 0 <= ghist.runs
        /\ \A f \in GuardFloors, k \in EventKinds :
             /\ told'[e.who].sum[f][k] + 0 <= happened[f][k]
             /\ ~ghist.cut /\ Standing(e.who, f) => told'[e.who].sum[f][k] + 0 = happened[f][k]
    BY <1>1, <2>2, <2>4, <2>5, TallyCounts
  <2> SUFFICES ASSUME NEW g \in GuardUsers
               PROVE  /\ told'[g].alerts + (IF Owed(g)' THEN 1 ELSE 0) <= ghist.runs
                      /\ \A f \in GuardFloors, k \in EventKinds :
                           /\ told'[g].sum[f][k] + Batch(g, f, k)' <= happened[f][k]
                           /\ ~ghist.cut /\ Standing(g, f) => told'[g].sum[f][k] + Batch(g, f, k)' = happened[f][k]
    BY <1>3, <1>10 DEF AddsUp
  <2>7. CASE g = e.who
    BY <1>12, <2>3, <2>6, <2>7
  <2>8. CASE g # e.who
    BY <2>1, <2>8 DEF AddsUp
  <2> QED BY <2>7, <2>8
<1> QED BY <1>9, <1>11, <1>13

LEMMA GuardStep == GuardInv /\ [GuardNext]_guardVars => GuardInv'
<1> SUFFICES ASSUME GuardInv, [GuardNext]_guardVars PROVE GuardInv'
  OBVIOUS
<1> USE GuardConstants DEF GuardInv
<1>1. CASE sweep_done
  <2>1. sweeping.todo = {} /\ sweeping' = [phase |-> "flagging", todo |-> {}] /\ sweeping.phase = "sweeping"
    BY <1>1 DEF sweep_done, GuardTypes
  <2>2. GuardTypes'
    BY <1>1, <2>1 DEF sweep_done, GuardTypes
  <2>3. TodoWhole'
    BY <2>1 DEF TodoWhole
  <2>4. AddsUp'
    BY <1>1, <2>1, AddsUpKept DEF sweep_done, Owed
  <2> QED BY <2>2, <2>3, <2>4
<1>2. CASE sweep_cut
  <2>1. sweeping' = [phase |-> "idle", todo |-> {}] /\ ghist' = [runs |-> ghist.runs, cut |-> TRUE]
    BY <1>2 DEF sweep_cut, GuardTypes, NotSweeping
  <2>2. GuardTypes'
    <3>1. /\ ghist' \in [runs : Nat, cut : BOOLEAN] /\ sweeping'.phase # "telling" => sweeping'.todo = {}
          /\ sweeping' \in [phase : {"idle", "sweeping", "flagging", "telling"}, todo : SUBSET AlertShape]
      BY <2>1 DEF GuardTypes
    <3> QED BY <1>2, <3>1 DEF sweep_cut, GuardTypes
  <2>3. TodoWhole'
    BY <2>1 DEF TodoWhole
  <2>4. AddsUp'
    BY <1>2, <2>1, AddsUpKept DEF sweep_cut, Owed
  <2> QED BY <2>2, <2>3, <2>4
<1>3. ASSUME NEW p \in PostingForms, post_guard(p) PROVE GuardInv'
  <2>1. GuardTypes'
    BY <1>3 DEF post_guard, GuardTypes, PostingShape
  <2>2. TodoWhole' /\ AddsUp'
    BY <1>3 DEF post_guard, TodoWhole, AddsUp, Standing, Batch, Owed
  <2> QED BY <2>1, <2>2
<1>4. ASSUME NEW g \in GuardUsers, guard_disabled(g) PROVE GuardInv'
  <2>1. GuardTypes'
    BY <1>4 DEF guard_disabled, GuardTypes
  <2>2. TodoWhole'
    BY <1>4 DEF guard_disabled, TodoWhole, Standing
  <2>3. AddsUp'
    BY <1>4 DEF guard_disabled, AddsUp, Standing, Batch, Owed
  <2> QED BY <2>1, <2>2, <2>3
<1>5. CASE guard_clock
  BY <1>5 DEF guard_clock, GuardTypes, TodoWhole, AddsUp, Standing, Batch, Owed
<1>6. CASE UNCHANGED guardVars
  BY <1>6 DEF guardVars, GuardTypes, TodoWhole, AddsUp, Standing, Batch, Owed
<1> QED BY <1>1, <1>2, <1>3, <1>4, <1>5, <1>6, GuardStarts, GuardCollects, GuardsListed, GuardTold DEF GuardNext

\* However postings, runs and deaths of runs interleave, a run alerts a guard at most once
\* and no absence or conflict reaches a guard twice; and if no run was cut, a guard who
\* stands on a floor all day has been told of everything on it once the job is idle
\* (notify_floor_guards in ops/guard_alerts.py).
THEOREM GuardsToldOnce == BackSpec => []FloorsAlerted
<1>1. GuardInv => FloorsAlerted
  <2> SUFFICES ASSUME GuardInv, NEW g \in GuardUsers
               PROVE  /\ told[g].alerts <= ghist.runs
                      /\ \A f \in GuardFloors, k \in EventKinds :
                           /\ told[g].sum[f][k] <= happened[f][k]
                           /\ sweeping = NotSweeping /\ ~ghist.cut /\ Standing(g, f)
                                => told[g].sum[f][k] = happened[f][k]
    BY DEF FloorsAlerted
  <2>1. sweeping = NotSweeping => ~Owed(g)
    BY DEF NotSweeping, Owed
  <2> QED BY <2>1, TallyCounts DEF GuardInv, AddsUp, Batch
<1> QED BY <1>1, GuardBegan, GuardBegins, GuardStep, GuardTurns, PTL DEF BackSpec
-----------------------------------------------------------------------------
(***************************************************************************)
(* The shift form in the browser (ShiftForm).  The last live fetch, queued *)
(* or under way, is for the address asked for last; once it is answered    *)
(* the picker has the rows of that address (AskedLast), and at step 2 that *)
(* address is the picked classes' (AskedForPicks).  A fetch carries the    *)
(* rooms wanted so far, unless one was chosen behind its back (Carried).   *)
(***************************************************************************)
LEMMA FormBegan == BackInit => FormInit
  BY DEF BackInit

LEMMA FormTurns == [BackNext]_backVars => [FormNext]_formVars
  BY DEF backVars, BackNext, RosterTurn, PushTurn, JobTurn, WeeklyTurn, CampusTurn, ImportTurn,
         PagesTurn, PeopleTurn, PeopleRest

PickerRows == [FormClasses -> FormRooms \union {AnyRoom, NoRow}]
Forms == [step : 0..3, listed : SUBSET FormClasses, picks : SUBSET FormClasses,
          target : {"f2f", "online"}, picker : PickerRows,
          options : [FormClasses -> SUBSET FormRooms], lastRoomUrl : PickerRows]
Fetches == [rows : PickerRows, live : BOOLEAN]
Fetching == [flight : Fetches, queued : Fetches, begun : Nat]
FormHist == [want : PickerRows, touched : BOOLEAN, lost : BOOLEAN, dropped : BOOLEAN]

RowsIn(rows) == {c \in FormClasses : rows[c] # NoRow}

\* Nothing waits behind nothing, and a fetch asks for something.
InLine(q) ==
  /\ q.queued # NoFetch => q.flight # NoFetch
  /\ q.flight # NoFetch => q.flight.rows # NoRows
  /\ q.queued # NoFetch => q.queued.rows # NoRows

AskedLast(f, q) ==
  f.step # 0 => IF q.queued.live THEN q.queued.rows = f.lastRoomUrl
                ELSE IF q.flight.live THEN q.flight.rows = f.lastRoomUrl
                ELSE RowsIn(f.picker) = RowsIn(f.lastRoomUrl)

AskedForPicks(f) ==
  f.step = 2 /\ f.target # "online" /\ f.picks # {} => RowsIn(f.lastRoomUrl) = f.picks

CarriesWants(x, h) ==
  x.live => \A c \in FormClasses : h.want[c] \in FormRooms /\ x.rows[c] # NoRow => x.rows[c] = h.want[c]

Carried(q, h) == ~h.touched => CarriesWants(q.flight, h) /\ CarriesWants(q.queued, h)

WantsShown(f, h) == ~h.touched => \A c \in FormClasses : h.want[c] \in FormRooms => f.picker[c] = h.want[c]

FormTypes ==
  /\ mine \subseteq FormClasses /\ freeRooms \in [FormClasses -> SUBSET FormRooms]
  /\ form \in Forms /\ fetch \in Fetching /\ fhist \in FormHist

FormInv ==
  /\ FormTypes
  /\ ~fhist.dropped => mine = FormClasses
  /\ InLine(fetch)
  /\ ~fhist.lost /\ ~fhist.dropped => AskedLast(form, fetch)
  /\ AskedForPicks(form)
  /\ Carried(fetch, fhist) /\ WantsShown(form, fhist)
  /\ form.step \in {2, 3} /\ ~fhist.dropped => form.picks # {}

LEMMA FormBegins == FormInit => FormInv
<1> SUFFICES ASSUME FormInit PROVE FormInv
  OBVIOUS
<1>1. NoRows \in PickerRows /\ NoFetch \in Fetches
  BY DEF NoRows, PickerRows, NoFetch, Fetches
<1>2. FormTypes
  BY <1>1 DEF FormInit, FormTypes, Forms, Fetching, FormHist, Listed
<1>3. \A c \in FormClasses : fhist.want[c] = NoRow /\ NoRow \notin FormRooms
  BY FormConstants DEF FormInit, NoRows
<1> QED BY <1>2, <1>3 DEF FormInit, FormInv, InLine, AskedLast, AskedForPicks, Carried, CarriesWants,
             WantsShown, Listed, NoFetch

\* The address names the picked classes, with the rooms chosen.
LEMMA RoomsUrl ==
  ASSUME NEW f \in Forms
  PROVE  /\ rooms_url(f) \in PickerRows /\ RowsIn(rooms_url(f)) = f.picks
         /\ f.picks # {} => rooms_url(f) # NoRows
         /\ \A c \in FormClasses : f.picker[c] \in FormRooms /\ rooms_url(f)[c] # NoRow => rooms_url(f)[c] = f.picker[c]
<1>1. rooms_url(f) \in PickerRows
  BY DEF rooms_url, PickerRows, Forms
<1>2. \A c \in FormClasses : rooms_url(f)[c] = NoRow <=> c \notin f.picks
  BY FormConstants DEF rooms_url, NoRow, AnyRoom
<1>3. RowsIn(rooms_url(f)) = f.picks
  BY <1>2 DEF RowsIn, Forms
<1>4. RowsIn(NoRows) = {}
  BY DEF RowsIn, NoRows
<1> QED BY <1>1, <1>2, <1>3, <1>4 DEF rooms_url

\* A fetch enters the line as the last.
LEMMA Enqueues ==
  ASSUME NEW q \in Fetching, NEW rows \in PickerRows, rows # NoRows, InLine(q)
  PROVE  LET e == enqueue(q, rows)
         IN  /\ e \in Fetching /\ InLine(e)
             /\ \/ e.flight = [rows |-> rows, live |-> TRUE] /\ e.queued = NoFetch
                \/ e.flight = q.flight /\ e.queued = [rows |-> rows, live |-> TRUE]
<1> DEFINE new == [rows |-> rows, live |-> TRUE]
<1>1. new \in Fetches /\ new.rows = rows /\ NoFetch \in Fetches
  BY DEF Fetches, NoFetch, PickerRows, NoRows
<1>2. CASE q.flight = NoFetch
  <2>1. enqueue(q, rows) = [q EXCEPT !.flight = new, !.begun = @ + 1]
    BY <1>2 DEF enqueue
  <2>2. q.queued = NoFetch
    BY <1>2 DEF InLine
  <2>3. enqueue(q, rows) = [flight |-> new, queued |-> NoFetch, begun |-> q.begun + 1]
    BY <2>1, <2>2 DEF Fetching
  <2> HIDE DEF new
  <2>4. enqueue(q, rows) \in Fetching
    BY <1>1, <2>3 DEF Fetching
  <2> QED BY <1>1, <2>3, <2>4 DEF InLine, new
<1>3. CASE q.flight # NoFetch
  <2>1. enqueue(q, rows) = [q EXCEPT !.queued = new, !.begun = @ + 1]
    BY <1>3 DEF enqueue
  <2>2. enqueue(q, rows) = [flight |-> q.flight, queued |-> new, begun |-> q.begun + 1]
    BY <2>1 DEF Fetching
  <2> HIDE DEF new
  <2>3. enqueue(q, rows) \in Fetching
    BY <1>1, <2>2 DEF Fetching
  <2> QED BY <1>1, <1>3, <2>2, <2>3 DEF InLine, new
<1> QED BY <1>2, <1>3

\* syncConditional leaves at step 2 an address for the picked classes, and every fetch
\* in line carries the rooms wanted.
LEMMA FormSynced ==
  ASSUME NEW f \in Forms, NEW q \in Fetching, NEW h \in FormHist, InLine(q), Carried(q, h),
         WantsShown(f, h), ~h.lost /\ ~h.dropped => AskedLast(f, q), syncConditional(f, q)
  PROVE  /\ form' \in Forms /\ fetch' \in Fetching /\ InLine(fetch') /\ Carried(fetch', h)
         /\ WantsShown(form', h) /\ AskedForPicks(form')
         /\ ~h.lost /\ ~h.dropped => AskedLast(form', fetch')
         /\ form'.step = f.step /\ form'.picks = f.picks
<1> DEFINE url == rooms_url(f)
<1>1. CASE form' = f /\ fetch' = q
  <2>1. AskedForPicks(f)
    <3> SUFFICES ASSUME f.step = 2, f.target # "online", f.picks # {} PROVE RowsIn(f.lastRoomUrl) = f.picks
      BY DEF AskedForPicks
    <3>1. url = f.lastRoomUrl
      <4>1. loadRooms(f, q)
        BY DEF syncConditional
      <4> SUFFICES ASSUME url # f.lastRoomUrl PROVE FALSE
        OBVIOUS
      <4>2. form' = [f EXCEPT !.lastRoomUrl = url]
        BY <4>1 DEF loadRooms
      <4> QED BY <1>1, <4>2 DEF Forms
    <3> QED BY <3>1, RoomsUrl
  <2> QED BY <1>1, <2>1
<1>2. CASE ~(form' = f /\ fetch' = q)
  <2>1. /\ f.picks # {} /\ form' = [f EXCEPT !.lastRoomUrl = url] /\ fetch' = enqueue(q, url)
    BY <1>2 DEF syncConditional, loadRooms
  <2>2. /\ url \in PickerRows /\ RowsIn(url) = f.picks /\ url # NoRows
        /\ \A c \in FormClasses : f.picker[c] \in FormRooms /\ url[c] # NoRow => url[c] = f.picker[c]
    BY <2>1, RoomsUrl
  <2> HIDE DEF url
  <2>3. /\ form' \in Forms /\ form'.lastRoomUrl = url /\ form'.picker = f.picker
        /\ form'.step = f.step /\ form'.picks = f.picks
    BY <2>1, <2>2 DEF Forms
  <2> DEFINE new == [rows |-> url, live |-> TRUE]
  <2>4. /\ fetch' \in Fetching /\ InLine(fetch')
        /\ \/ fetch'.flight = new /\ fetch'.queued = NoFetch
           \/ fetch'.flight = q.flight /\ fetch'.queued = new
    BY <2>1, <2>2, Enqueues
  <2>5. ~h.touched => CarriesWants(new, h)
    BY <2>2 DEF CarriesWants, WantsShown
  <2>6. CarriesWants(NoFetch, h)
    BY DEF CarriesWants, NoFetch
  <2>7. Carried(fetch', h)
    BY <2>4, <2>5, <2>6 DEF Carried
  <2>8. AskedLast(form', fetch')
    BY <2>3, <2>4 DEF AskedLast, NoFetch
  <2> QED BY <2>2, <2>3, <2>4, <2>7, <2>8 DEF WantsShown, AskedForPicks
<1> QED BY <1>1, <1>2

\* A step of the wizard or a change of target: the form apart from step and target stays.
LEMMA FormMoves ==
  ASSUME FormInv, NEW f \in Forms, syncConditional(f, fetch), UNCHANGED <<mine, freeRooms, fhist>>,
         form.step # 0, f.picker = form.picker, f.lastRoomUrl = form.lastRoomUrl, f.picks = form.picks,
         f.step \in {2, 3} => form.picks # {} \/ fhist.dropped
  PROVE  FormInv'
<1>1. WantsShown(f, fhist) /\ (~fhist.lost /\ ~fhist.dropped => AskedLast(f, fetch))
  BY DEF FormInv, WantsShown, AskedLast
<1>2. /\ form' \in Forms /\ fetch' \in Fetching /\ InLine(fetch') /\ Carried(fetch', fhist)
      /\ WantsShown(form', fhist) /\ AskedForPicks(form')
      /\ ~fhist.lost /\ ~fhist.dropped => AskedLast(form', fetch')
      /\ form'.step = f.step /\ form'.picks = f.picks
  BY <1>1, FormSynced DEF FormInv, FormTypes
<1>3. fhist' = fhist
  OBVIOUS
<1> QED BY <1>2, <1>3 DEF FormInv, FormTypes

\* The line moves up by one.
LEMMA Dequeues ==
  ASSUME NEW q \in Fetching, InLine(q)
  PROVE  /\ Dequeued(q) = [flight |-> q.queued, queued |-> NoFetch, begun |-> q.begun]
         /\ Dequeued(q) \in Fetching /\ InLine(Dequeued(q))
<1>1. Dequeued(q) = [flight |-> q.queued, queued |-> NoFetch, begun |-> q.begun]
  <2>1. Dequeued(q) = [q EXCEPT !.flight = q.queued, !.queued = NoFetch]
    BY DEF Dequeued
  <2> QED BY <2>1 DEF Fetching
<1>2. NoFetch \in Fetches
  BY DEF NoFetch, Fetches, NoRows, PickerRows
<1>3. Dequeued(q) \in Fetching
  BY <1>1, <1>2 DEF Fetching
<1>4. Dequeued(q).flight = q.queued /\ Dequeued(q).queued = NoFetch
  BY <1>1
<1> QED BY <1>1, <1>3, <1>4 DEF InLine

\* An answer for this form puts the address's rows into the picker and keeps the rooms
\* it carried that are still free.
LEMMA FormAnswered == FormInv /\ rooms_answer => FormInv'
<1> SUFFICES ASSUME FormInv, rooms_answer PROVE FormInv'
  OBVIOUS
<1> DEFINE got == modality_rooms(fetch.flight.rows)
<1>0. /\ fetch \in Fetching /\ InLine(fetch) /\ form \in Forms /\ fhist \in FormHist
      /\ freeRooms \in [FormClasses -> SUBSET FormRooms] /\ mine \subseteq FormClasses
      /\ fetch.flight \in Fetches /\ fetch.queued \in Fetches
  BY DEF FormInv, FormTypes, Fetching
<1>1. /\ fetch' \in Fetching /\ InLine(fetch') /\ fetch'.flight = fetch.queued /\ fetch'.queued = NoFetch
      /\ mine' = mine /\ freeRooms' = freeRooms
  BY <1>0, Dequeues DEF rooms_answer
<1>2. CarriesWants(NoFetch, fhist') /\ ~NoFetch.live
  BY DEF CarriesWants, NoFetch
<1>3. CASE ~fetch.flight.live
  <2>1. form' = form /\ fhist' = fhist
    BY <1>3 DEF rooms_answer
  <2>2. Carried(fetch', fhist')
    BY <1>1, <1>2, <2>1 DEF FormInv, Carried
  <2>3. ~fhist.lost /\ ~fhist.dropped => AskedLast(form', fetch')
    BY <1>1, <1>2, <1>3, <2>1 DEF FormInv, AskedLast
  <2> QED BY <1>1, <2>1, <2>2, <2>3 DEF FormInv, FormTypes, WantsShown, AskedForPicks
<1>4. CASE fetch.flight.live
  <2> DEFINE opts == [c \in FormClasses |-> IF got[c] = NoRow THEN {} ELSE freeRooms[c]]
             want == [c \in FormClasses |-> IF got[c] = NoRow THEN NoRow
                        ELSE IF fhist.want[c] \in freeRooms[c] THEN fhist.want[c] ELSE AnyRoom]
  <2>1. /\ form' = [form EXCEPT !.picker = got, !.options = opts]
        /\ fhist' = [fhist EXCEPT !.want = want]
    BY <1>0, <1>4 DEF rooms_answer, FormHist
  <2>2. \A c \in FormClasses :
          got[c] = IF fetch.flight.rows[c] = NoRow \/ c \notin mine THEN NoRow
                   ELSE IF fetch.flight.rows[c] \in freeRooms[c] THEN fetch.flight.rows[c] ELSE AnyRoom
    BY DEF modality_rooms
  <2>3. got \in PickerRows
    BY <1>0 DEF modality_rooms, PickerRows, Fetches
  <2> HIDE DEF got
  <2>4. opts \in [FormClasses -> SUBSET FormRooms] /\ want \in PickerRows
    BY <1>0 DEF PickerRows
  <2>5. \A c \in FormClasses : want[c] \in FormRooms =>
          got[c] # NoRow /\ want[c] = fhist.want[c] /\ fhist.want[c] \in freeRooms[c]
    BY FormConstants
  <2> HIDE DEF opts, want
  <2>6. /\ form' \in Forms /\ form'.picker = got /\ form'.step = form.step /\ form'.picks = form.picks
        /\ form'.target = form.target /\ form'.lastRoomUrl = form.lastRoomUrl
    BY <1>0, <2>1, <2>3, <2>4 DEF Forms
  <2>7. /\ fhist' \in FormHist /\ fhist'.want = want /\ fhist'.touched = fhist.touched
        /\ fhist'.lost = fhist.lost /\ fhist'.dropped = fhist.dropped
    BY <1>0, <2>1, <2>4 DEF FormHist
  <2>8. WantsShown(form', fhist')
    <3> SUFFICES ASSUME ~fhist.touched, NEW c \in FormClasses, want[c] \in FormRooms PROVE got[c] = want[c]
      BY <2>6, <2>7 DEF WantsShown
    <3>1. fetch.flight.rows[c] # NoRow
      BY <2>2, <2>5
    <3>2. fhist.want[c] \in FormRooms
      BY <2>5
    <3>3. fetch.flight.rows[c] = fhist.want[c]
      BY <1>4, <3>1, <3>2 DEF FormInv, Carried, CarriesWants
    <3> QED BY <2>2, <2>5, <3>3
  <2>9. Carried(fetch', fhist')
    <3>1. ~fhist.touched => CarriesWants(fetch.queued, fhist')
      BY <2>5, <2>7 DEF FormInv, Carried, CarriesWants
    <3> QED BY <1>1, <1>2, <2>7, <3>1 DEF Carried
  <2>10. ASSUME ~fhist.lost, ~fhist.dropped PROVE AskedLast(form', fetch')
    <3>1. AskedLast(form, fetch) /\ mine = FormClasses
      BY <2>10 DEF FormInv
    <3>2. AnyRoom # NoRow
      BY DEF AnyRoom, NoRow
    <3>3. \A c \in FormClasses : freeRooms[c] \subseteq FormRooms /\ NoRow \notin freeRooms[c]
      BY <1>0, FormConstants
    <3>4. RowsIn(got) = RowsIn(fetch.flight.rows)
      BY <2>2, <3>1, <3>2, <3>3 DEF RowsIn
    <3> QED BY <1>1, <1>2, <1>4, <2>6, <3>1, <3>4 DEF AskedLast
  <2>11. FormTypes'
    BY <1>0, <1>1, <2>6, <2>7 DEF FormTypes
  <2> QED BY <1>1, <2>6, <2>7, <2>8, <2>9, <2>10, <2>11 DEF FormInv, AskedForPicks
<1> QED BY <1>3, <1>4

LEMMA FormLost == FormInv /\ rooms_lost => FormInv'
<1> SUFFICES ASSUME FormInv, rooms_lost PROVE FormInv'
  OBVIOUS
<1>0. fetch \in Fetching /\ InLine(fetch) /\ fetch.flight \in Fetches /\ fhist \in FormHist
  BY DEF FormInv, FormTypes, Fetching
<1>1. /\ fetch' \in Fetching /\ InLine(fetch') /\ fetch'.flight = fetch.queued /\ fetch'.queued = NoFetch
      /\ mine' = mine /\ freeRooms' = freeRooms /\ form' = form
  BY <1>0, Dequeues DEF rooms_lost
<1>2. CarriesWants(NoFetch, fhist') /\ ~NoFetch.live
  BY DEF CarriesWants, NoFetch
<1>3. /\ fhist' \in FormHist /\ fhist'.want = fhist.want /\ fhist'.touched = fhist.touched
      /\ fhist'.dropped = fhist.dropped /\ (~fhist'.lost => ~fhist.lost /\ ~fetch.flight.live)
  <2>1. (fhist.lost \/ fetch.flight.live) \in BOOLEAN
    OBVIOUS
  <2>2. fhist' = [want |-> fhist.want, touched |-> fhist.touched, dropped |-> fhist.dropped,
                  lost |-> fhist.lost \/ fetch.flight.live]
    BY <1>0 DEF rooms_lost, FormHist
  <2> QED BY <1>0, <2>1, <2>2 DEF FormHist
<1>4. Carried(fetch', fhist')
  BY <1>1, <1>2, <1>3 DEF FormInv, Carried, CarriesWants
<1>5. ~fhist'.lost /\ ~fhist.dropped => AskedLast(form', fetch')
  BY <1>1, <1>2, <1>3 DEF FormInv, AskedLast
<1> QED BY <1>1, <1>3, <1>4, <1>5 DEF FormInv, FormTypes, WantsShown, AskedForPicks

\* The fetches of a form that was replaced keep their places and go nowhere.
Orphan(x) == [x EXCEPT !.live = FALSE]
Orphaned(q) == [q EXCEPT !.flight = Orphan(@), !.queued = Orphan(@)]

LEMMA Orphans ==
  ASSUME NEW q \in Fetching, InLine(q)
  PROVE  /\ Orphaned(q) \in Fetching /\ InLine(Orphaned(q))
         /\ ~Orphaned(q).flight.live /\ ~Orphaned(q).queued.live
<1>1. \A x \in Fetches : Orphan(x) \in Fetches
  BY Zenon DEF Fetches, Orphan
<1>2. ASSUME NEW x \in Fetches PROVE Orphan(x).rows = x.rows /\ ~Orphan(x).live
  BY Zenon DEF Fetches, Orphan
<1>3. NoFetch \in Fetches /\ NoFetch = [rows |-> NoRows, live |-> FALSE]
  BY DEF NoRows, PickerRows, NoFetch, Fetches
<1>4. \A x \in Fetches : (x # NoFetch => x.rows # NoRows) =>
         (Orphan(x) # NoFetch <=> x # NoFetch) /\ (Orphan(x) # NoFetch => Orphan(x).rows # NoRows)
  BY <1>1, <1>2, <1>3 DEF Fetches
<1>5. q.flight \in Fetches /\ q.queued \in Fetches
  BY DEF Fetching
<1>6. Orphaned(q) = [flight |-> Orphan(q.flight), queued |-> Orphan(q.queued), begun |-> q.begun]
  <2>1. Orphaned(q) = [q EXCEPT !.flight = Orphan(q.flight), !.queued = Orphan(q.queued)]
    BY DEF Fetching, Orphaned
  <2> QED BY <2>1 DEF Fetching
<1>7. Orphaned(q) \in Fetching
  BY <1>1, <1>5, <1>6 DEF Fetching
<1>8. Orphaned(q).flight = Orphan(q.flight) /\ Orphaned(q).queued = Orphan(q.queued)
  BY <1>6
<1> QED BY <1>2, <1>4, <1>5, <1>7, <1>8 DEF InLine

\* The form after a refused submission: a fresh picker, earlier fetches orphaned.
LEMMA FormRefused ==
  ASSUME FormInv, NEW step \in {1, 2}, modality_form_again(step), fhist' = [fhist EXCEPT !.want = NoRows],
         UNCHANGED <<mine, freeRooms>>, step = 2 => form.picks # {}
  PROVE  FormInv'
<1> DEFINE q == Orphaned(fetch)
<1>0. /\ fetch \in Fetching /\ InLine(fetch) /\ form \in Forms /\ fhist \in FormHist
      /\ mine \subseteq FormClasses
  BY DEF FormInv, FormTypes
<1>1. NoRows \in PickerRows
  BY DEF NoRows, PickerRows
<1>2. q \in Fetching /\ InLine(q) /\ ~q.flight.live /\ ~q.queued.live
  BY <1>0, Orphans
<1>3. IF mine = {} THEN form' = Listed({}, 0, {}, form.target) /\ fetch' = q
      ELSE syncConditional(Listed(mine, step, form.picks \intersect mine, form.target), q)
  BY DEF modality_form_again, Orphaned, Orphan
<1> HIDE DEF q
<1>4. /\ fhist' \in FormHist /\ fhist'.want = NoRows /\ fhist'.touched = fhist.touched
      /\ fhist'.lost = fhist.lost /\ fhist'.dropped = fhist.dropped
  BY <1>0, <1>1 DEF FormHist
<1>5. \A c \in FormClasses : fhist'.want[c] \notin FormRooms
  BY <1>4, FormConstants DEF NoRows
<1>6. Carried(q, fhist')
  BY <1>2 DEF Carried, CarriesWants
<1>7. \A f \in Forms : WantsShown(f, fhist')
  BY <1>5 DEF WantsShown
<1>8. \A cl, picks \in SUBSET FormClasses, s \in 0..3 :
         LET f == Listed(cl, s, picks, form.target)
         IN  /\ f \in Forms /\ AskedLast(f, q) /\ f.step = s /\ f.picks = picks
  <2> SUFFICES ASSUME NEW cl \in SUBSET FormClasses, NEW picks \in SUBSET FormClasses, NEW s \in 0..3
               PROVE  LET f == Listed(cl, s, picks, form.target)
                      IN  /\ f \in Forms /\ AskedLast(f, q) /\ f.step = s /\ f.picks = picks
    OBVIOUS
  <2>1. Listed(cl, s, picks, form.target) \in Forms
    BY <1>0, <1>1 DEF Listed, Forms
  <2> QED BY <1>2, <2>1 DEF Listed, AskedLast
<1>9. CASE mine = {}
  <2>1. form' = Listed({}, 0, {}, form.target) /\ fetch' = q
    BY <1>3, <1>9
  <2>2. form' \in Forms /\ AskedLast(form', q) /\ form'.step = 0
    BY <1>8, <2>1
  <2> QED BY <1>0, <1>2, <1>4, <1>6, <1>7, <2>1, <2>2 DEF FormInv, FormTypes, AskedForPicks
<1>10. CASE mine # {}
  <2> DEFINE f == Listed(mine, step, form.picks \intersect mine, form.target)
  <2>1. syncConditional(f, q)
    BY <1>3, <1>10
  <2>2. form.picks \intersect mine \in SUBSET FormClasses
    BY <1>0
  <2>3. f \in Forms /\ AskedLast(f, q) /\ f.step = step /\ f.picks = form.picks \intersect mine
    BY <1>0, <1>8, <2>2
  <2> HIDE DEF f
  <2>4. /\ form' \in Forms /\ fetch' \in Fetching /\ InLine(fetch') /\ Carried(fetch', fhist')
        /\ WantsShown(form', fhist') /\ AskedForPicks(form')
        /\ ~fhist'.lost /\ ~fhist'.dropped => AskedLast(form', fetch')
        /\ form'.step = f.step /\ form'.picks = f.picks
    BY <1>2, <1>4, <1>6, <1>7, <2>1, <2>3, FormSynced
  <2>5. step = 2 /\ ~fhist.dropped => form.picks \intersect mine # {}
    BY <1>0 DEF FormInv, Forms
  <2> QED BY <1>4, <2>3, <2>4, <2>5 DEF FormInv, FormTypes
<1> QED BY <1>9, <1>10

\* Accepted: the page is left.
LEMMA FormAccepted ==
  ASSUME FormInv, form' = Listed({}, 0, {}, form.target), fhist' = [fhist EXCEPT !.want = NoRows],
         UNCHANGED <<fetch, mine, freeRooms>>
  PROVE  FormInv'
<1>1. NoRows \in PickerRows
  BY DEF NoRows, PickerRows
<1>2. form' \in Forms /\ form'.step = 0
  BY <1>1 DEF FormInv, FormTypes, Forms, Listed
<1>3. /\ fhist' \in FormHist /\ fhist'.want = NoRows /\ fhist'.touched = fhist.touched
      /\ fhist'.lost = fhist.lost /\ fhist'.dropped = fhist.dropped
  BY <1>1 DEF FormInv, FormTypes, FormHist
<1>4. \A c \in FormClasses : fhist'.want[c] \notin FormRooms
  BY <1>3, FormConstants DEF NoRows
<1> QED BY <1>2, <1>3, <1>4 DEF FormInv, FormTypes, AskedLast, AskedForPicks, Carried, CarriesWants, WantsShown

LEMMA FormStep == FormInv /\ [FormNext]_formVars => FormInv'
<1> SUFFICES ASSUME FormInv, [FormNext]_formVars PROVE FormInv'
  OBVIOUS
<1>0. FormTypes /\ form \in Forms /\ fhist \in FormHist /\ fetch \in Fetching
  BY DEF FormInv, FormTypes
<1>1. ASSUME NEW c \in FormClasses, pick(c) PROVE FormInv'
  <2>1. /\ form' \in Forms /\ form'.step = 1 /\ form.step = 1 /\ form'.picker = form.picker
        /\ form'.lastRoomUrl = form.lastRoomUrl
    BY <1>0, <1>1 DEF pick, Forms
  <2> QED BY <1>1, <2>1 DEF pick, FormInv, FormTypes, AskedLast, AskedForPicks, Carried, WantsShown
<1>2. ASSUME NEW c \in FormClasses, office_drops(c) PROVE FormInv'
  <2>1. /\ fhist' \in FormHist /\ fhist'.want = fhist.want /\ fhist'.touched = fhist.touched
        /\ fhist'.dropped = TRUE
    BY <1>0, <1>2 DEF office_drops, FormHist
  <2> QED BY <1>2, <2>1 DEF office_drops, FormInv, FormTypes, AskedForPicks, Carried, CarriesWants, WantsShown
<1>3. ASSUME NEW c \in FormClasses, NEW r \in FormRooms \union {AnyRoom}, choose_room(c, r) PROVE FormInv'
  <2>0. form.picker \in PickerRows /\ fhist.want \in PickerRows /\ r # NoRow /\ r \in FormRooms \union {AnyRoom, NoRow}
    BY <1>0, FormConstants DEF Forms, FormHist, AnyRoom, NoRow
  <2> DEFINE picker == [form.picker EXCEPT ![c] = r]
             want == [fhist.want EXCEPT ![c] = r]
  <2>1. picker \in PickerRows /\ want \in PickerRows
    BY <2>0 DEF PickerRows
  <2>2. \A d \in FormClasses : /\ picker[d] = IF d = c THEN r ELSE form.picker[d]
                               /\ want[d] = IF d = c THEN r ELSE fhist.want[d]
    BY <2>0 DEF PickerRows
  <2>3. /\ form' = [form EXCEPT !.picker = picker]
        /\ form.step = 2 /\ form.picker[c] # NoRow
    BY <1>0, <1>3 DEF choose_room, Forms
  <2>4. fhist' = [want |-> want, touched |-> fhist.touched \/ fetch.flight # NoFetch,
                  lost |-> fhist.lost, dropped |-> fhist.dropped]
    BY <1>0, <1>3 DEF choose_room, FormHist
  <2> HIDE DEF picker, want
  <2>5. /\ form' \in Forms /\ form'.step = form.step /\ form'.picker = picker /\ form'.picks = form.picks
        /\ form'.target = form.target /\ form'.lastRoomUrl = form.lastRoomUrl
    BY <1>0, <2>1, <2>3 DEF Forms
  <2>6. (fhist.touched \/ fetch.flight # NoFetch) \in BOOLEAN
    OBVIOUS
  <2>7. fhist' \in FormHist
    BY <1>0, <2>1, <2>4, <2>6 DEF FormHist
  <2>8. RowsIn(picker) = RowsIn(form.picker)
    BY <2>0, <2>2, <2>3 DEF RowsIn
  <2>9. WantsShown(form', fhist')
    BY <2>2, <2>4, <2>5 DEF FormInv, WantsShown
  <2>10. Carried(fetch', fhist')
    <3> SUFFICES ASSUME fetch.flight = NoFetch PROVE Carried(fetch, fhist')
      BY <1>3, <2>4 DEF choose_room, Carried
    <3>1. fetch.queued = NoFetch /\ ~NoFetch.live
      BY DEF FormInv, InLine, NoFetch
    <3> QED BY <3>1 DEF Carried, CarriesWants
  <2> QED BY <1>3, <2>4, <2>5, <2>7, <2>8, <2>9, <2>10
          DEF choose_room, FormInv, FormTypes, AskedLast, AskedForPicks
<1>4. ASSUME NEW c \in FormClasses, NEW r \in FormRooms, room_changes(c, r) PROVE FormInv'
  <2>1. freeRooms' \in [FormClasses -> SUBSET FormRooms]
    BY <1>0, <1>4 DEF room_changes, FormTypes
  <2> QED BY <1>4, <2>1 DEF room_changes, FormInv, FormTypes
<1>5. CASE form_next
  <2> DEFINE f == [form EXCEPT !.step = @ + 1]
  <2>1. /\ f \in Forms /\ f.picker = form.picker /\ f.lastRoomUrl = form.lastRoomUrl /\ f.picks = form.picks
        /\ form.step # 0 /\ f.step = form.step + 1
    BY <1>0, <1>5 DEF form_next, Forms
  <2>2. syncConditional(f, fetch) /\ UNCHANGED <<mine, freeRooms, fhist>>
    BY <1>5 DEF form_next
  <2>3. form.picks # {} \/ fhist.dropped
    BY <1>5 DEF form_next, FormInv
  <2> HIDE DEF f
  <2> QED BY <2>1, <2>2, <2>3, FormMoves
<1>6. CASE form_back
  <2> DEFINE f == [form EXCEPT !.step = @ - 1]
  <2>1. /\ f \in Forms /\ f.picker = form.picker /\ f.lastRoomUrl = form.lastRoomUrl /\ f.picks = form.picks
        /\ form.step # 0
    BY <1>0, <1>6 DEF form_back, Forms
  <2>2. syncConditional(f, fetch) /\ UNCHANGED <<mine, freeRooms, fhist>>
    BY <1>6 DEF form_back
  <2>3. form.picks # {} \/ fhist.dropped
    BY <1>6 DEF form_back, FormInv
  <2> HIDE DEF f
  <2> QED BY <2>1, <2>2, <2>3, FormMoves
<1>7. ASSUME NEW t \in {"f2f", "online"}, choose_target(t) PROVE FormInv'
  <2> DEFINE f == [form EXCEPT !.target = t]
  <2>1. /\ f \in Forms /\ f.picker = form.picker /\ f.lastRoomUrl = form.lastRoomUrl /\ f.picks = form.picks
        /\ form.step # 0
    BY <1>0, <1>7 DEF choose_target, Forms
  <2>2. syncConditional(f, fetch) /\ UNCHANGED <<mine, freeRooms, fhist>>
    BY <1>7 DEF choose_target
  <2>3. form.picks # {} \/ fhist.dropped
    BY <1>7 DEF choose_target, FormInv
  <2> HIDE DEF f
  <2> QED BY <2>1, <2>2, <2>3, FormMoves
<1>8. ASSUME NEW ok \in BOOLEAN, modality_new(ok) PROVE FormInv'
  <2>1. fhist' = [fhist EXCEPT !.want = NoRows] /\ UNCHANGED <<mine, freeRooms>>
    BY <1>8 DEF modality_new
  <2>2. \/ modality_form_again(1)
        \/ form.picks # {} /\ modality_form_again(2)
        \/ form' = Listed({}, 0, {}, form.target) /\ UNCHANGED fetch
    BY <1>8 DEF modality_new
  <2> QED BY <2>1, <2>2, FormRefused, FormAccepted
<1>9. CASE UNCHANGED formVars
  BY <1>9 DEF formVars, FormInv, FormTypes
<1> QED BY <1>1, <1>2, <1>3, <1>4, <1>5, <1>6, <1>7, <1>8, <1>9, FormAnswered, FormLost DEF FormNext

\* However the teacher moves between the steps and the office and other bookings change
\* the classes and rooms meanwhile, with answers late or overtaken: once no fetch is out,
\* step 2 shows a select for exactly the picked classes, and a fetch resets no room that
\* is still free (syncConditional and loadRooms in static/faculty/modality.js).
THEOREM PickerAgrees == BackSpec => []PickerFits
<1>1. FormInv => PickerFits
  <2> SUFFICES ASSUME FormInv PROVE PickerFits
    OBVIOUS
  <2>1. ASSUME form.step = 2, form.target # "online", fetch.flight = NoFetch, ~fhist.lost, ~fhist.dropped
        PROVE  RowsIn(form.picker) = form.picks
    <3>1. fetch.queued = NoFetch /\ ~NoFetch.live
      BY <2>1 DEF FormInv, InLine, NoFetch
    <3>2. RowsIn(form.picker) = RowsIn(form.lastRoomUrl)
      BY <2>1, <3>1 DEF FormInv, AskedLast
    <3>3. RowsIn(form.lastRoomUrl) = form.picks
      BY <2>1 DEF FormInv, AskedForPicks
    <3> QED BY <3>2, <3>3
  <2> QED BY <2>1 DEF FormInv, WantsShown, PickerFits, RowsIn
<1> QED BY <1>1, FormBegan, FormBegins, FormStep, FormTurns, PTL DEF BackSpec
-----------------------------------------------------------------------------
(***************************************************************************)
(* The online roster (OnlineRoster).  Lists and pools are ordered by ids,  *)
(* so the proofs need least elements and ranks.                            *)
(***************************************************************************)
\* A set of natural numbers that is not empty has a least one.
LEMMA LeastNatural ==
  ASSUME NEW S \in SUBSET Nat, S # {}
  PROVE  \E x \in S : \A y \in S : x <= y
<1> DEFINE R == OpToRel(<, Nat)
<1>1. IsWellFoundedOn(R, Nat)
  BY NatLessThanWellFounded
<1>2. \A x, y \in Nat : x < y => <<x, y>> \in R
  BY DEF OpToRel
<1> HIDE DEF R
<1>3. PICK x \in S : \A y \in S : ~(<<y, x>> \in R)
  BY <1>1, WFMin
<1>4. ASSUME NEW y \in S PROVE x <= y
  <2>1. x \in Nat /\ y \in Nat
    OBVIOUS
  <2>2. ~(y < x)
    BY <1>2, <1>3, <2>1
  <2> QED BY <2>1, <2>2
<1> QED BY <1>4

\* In a finite set of numbers every rank below its size is taken: the least rank that is
\* not would follow one that is.
LEMMA RankExists ==
  ASSUME NEW S \in SUBSET Nat, IsFiniteSet(S), NEW n \in Nat, n < Cardinality(S)
  PROVE  \E u \in S : Cardinality({v \in S : v < u}) = n
<1> DEFINE Below(u) == {v \in S : v < u}
           Bad == {k \in Nat : k < Cardinality(S) /\ ~\E u \in S : Cardinality(Below(u)) = k}
<1> SUFFICES ASSUME Bad # {} PROVE FALSE
  OBVIOUS
<1>1. PICK k \in Bad : \A j \in Bad : k <= j
  BY LeastNatural
<1>2. Cardinality(S) \in Nat
  BY FS_CardinalityType
<1>3. k # 0
  <2>1. S # {}
    BY <1>1, <1>2, FS_EmptySet
  <2>2. PICK u \in S : \A v \in S : u <= v
    BY <2>1, LeastNatural
  <2>3. \A v \in S : ~(v < u)
    <3>1. \A x, y \in Nat : y <= x => ~(x < y)
      OBVIOUS
    <3> QED BY <2>2, <3>1
  <2>4. Below(u) = {}
    BY <2>3
  <2> QED BY <1>1, <2>4, FS_EmptySet
<1>4. PICK w \in S : Cardinality(Below(w)) = k - 1
  <2>1. k - 1 \in Nat /\ k - 1 \notin Bad /\ k - 1 < Cardinality(S)
    BY <1>1, <1>2, <1>3
  <2> QED BY <2>1
<1> DEFINE Upto == Below(w) \union {w}
           Above == {v \in S : w < v}
<1>5. IsFiniteSet(Below(w)) /\ w \notin Below(w)
  BY FS_Subset
<1>6. IsFiniteSet(Upto) /\ Cardinality(Upto) = k
  <2>1. k \in Nat
    OBVIOUS
  <2>2. IsFiniteSet(Upto) /\ Cardinality(Upto) = Cardinality(Below(w)) + 1
    BY <1>5, FS_AddElement
  <2> HIDE DEF Upto, Below, Bad
  <2> QED BY <1>4, <2>1, <2>2
<1>7. Above # {}
  <2>1. Upto \subseteq S
    OBVIOUS
  <2>2. Upto # S
    <3>1. k \in Nat /\ k < Cardinality(S)
      OBVIOUS
    <3> HIDE DEF Upto, Bad
    <3> QED BY <1>2, <1>6, <3>1
  <2>3. PICK v \in S : v \notin Upto
    BY <2>1, <2>2
  <2>4. v \in Nat /\ w \in Nat /\ ~(v < w) /\ v # w
    BY <2>3
  <2> QED BY <2>4
<1>8. PICK u \in Above : \A v \in Above : u <= v
  BY <1>7, LeastNatural
<1>9. Below(u) = Upto
  <2>1. ASSUME NEW v \in S PROVE v < u <=> v \in Upto
    <3>1. v \in Nat /\ w \in Nat /\ u \in Nat /\ w < u
      BY <1>8
    <3>2. v \in Above => u <= v
      BY <1>8
    <3> QED BY <3>1, <3>2
  <2> QED BY <2>1
<1> QED BY <1>1, <1>6, <1>8, <1>9

LEMMA RosterBegan == BackInit => RosterInit
  BY DEF BackInit

LEMMA RosterTurns == [BackNext]_backVars => [RosterNext]_rosterVars
  BY DEF backVars, BackNext, RosterTurn, PushTurn, JobTurn, WeeklyTurn, CampusTurn, ImportTurn,
         PagesTurn, PeopleTurn, RosterRests

\* The list has a first class.
LEMMA FirstListed ==
  ASSUME NEW S \in SUBSET OnlineClasses, S # {}
  PROVE  \E d \in S : \A e \in S \ {d} : EarlierClass(d, e)
<1>0. S \subseteq Nat /\ \A c \in S : SlotOf[c] \in Nat
  BY RosterAssumption
<1> DEFINE starts == {SlotOf[c] : c \in S}
<1>1. PICK t \in starts : \A s \in starts : t <= s
  <2>1. starts \in SUBSET Nat /\ starts # {}
    BY <1>0
  <2> QED BY <2>1, LeastNatural
<1> DEFINE early == {c \in S : SlotOf[c] = t}
<1>2. PICK d \in early : \A c \in early : d <= c
  <2>1. early \in SUBSET Nat /\ early # {}
    BY <1>0
  <2> QED BY <2>1, LeastNatural
<1>3. ASSUME NEW e \in S \ {d} PROVE EarlierClass(d, e)
  <2>1. SlotOf[d] = t /\ t \in Nat /\ SlotOf[e] \in Nat /\ t <= SlotOf[e] /\ d \in Nat /\ e \in Nat /\ d # e
    BY <1>0, <1>1, <1>2
  <2>2. SlotOf[e] = t => d <= e
    BY <1>2
  <2> QED BY <2>1, <2>2 DEF EarlierClass
<1> QED BY <1>2, <1>3

\* The round robin deals a class to one of the checkers of its pool.
LEMMA DealtInPool ==
  ASSUME NEW list \in SUBSET OnlineClasses, NEW posts \in SUBSET Postings, NEW c \in list,
         eligible(posts, c) # {}
  PROVE  distribute_online_sessions(list, posts, c) \in eligible(posts, c)
<1> DEFINE pool == eligible(posts, c)
           before == {d \in list : eligible(posts, d) = pool /\ EarlierClass(d, c)}
           n == Cardinality(before) % Cardinality(pool)
<1>1. pool \subseteq OnlineCheckers
  BY DEF eligible, Postings
<1>2. pool \in SUBSET Nat /\ IsFiniteSet(pool) /\ IsFiniteSet(before)
  BY <1>1, RosterAssumption, FS_Subset
<1> HIDE DEF pool, before
<1>3. Cardinality(pool) \in Nat /\ Cardinality(before) \in Nat /\ Cardinality(pool) # 0
  BY <1>2, FS_CardinalityType, FS_EmptySet DEF pool
<1>4. n \in Nat /\ n < Cardinality(pool)
  <2>1. \A a \in Nat : \A b \in Nat \ {0} : a % b \in Nat /\ a % b < b
    OBVIOUS
  <2> QED BY <1>3, <2>1
<1> HIDE DEF n
<1>5. \E u \in pool : Cardinality({v \in pool : v < u}) = n
  BY <1>2, <1>4, RankExists
<1>6. (CHOOSE u \in pool : Cardinality({v \in pool : v < u}) = n) \in pool
  BY <1>5
<1> QED BY <1>6 DEF distribute_online_sessions, pool, before, n

\* A longer list of postings makes nobody ineligible.
LEMMA EligibleGrows ==
  ASSUME NEW p, NEW q, p \subseteq q, NEW c PROVE eligible(p, c) \subseteq eligible(q, c)
  BY DEF eligible

Dealt == [OnlineClasses -> OnlineCheckers \union {NoChecker}]
Passes == [pc : {"idle", "list", "pool", "write"}, todo : SUBSET OnlineClasses, deal : Dealt,
           alone : BOOLEAN]

RosterTypes ==
  /\ posting \subseteq Postings /\ online \subseteq OnlineClasses
  /\ owner \in Dealt /\ roster \in [RosterRuns -> Passes]

\* Whoever owns a class, or is about to, has a posting that covers its start.
OwnersPosted ==
  \A c \in OnlineClasses :
    /\ owner[c] # NoChecker => owner[c] \in eligible(posting, c)
    /\ \A w \in RosterRuns : roster[w].deal[c] # NoChecker => roster[w].deal[c] \in eligible(posting, c)

Holding(w) == roster[w].pc \in {"pool", "write"}

\* A pass that has been alone with its list has nobody's class on it.
ListAlone ==
  \A w \in RosterRuns : Holding(w) =>
    /\ roster[w].todo # {}
    /\ roster[w].alone => /\ \A c \in roster[w].todo : owner[c] = NoChecker
                          /\ \A v \in RosterRuns \ {w} : ~Holding(v)

RosterInv == RosterTypes /\ OwnersPosted /\ ListAlone

LEMMA RosterBegins == RosterInit => RosterInv
<1> SUFFICES ASSUME RosterInit PROVE RosterInv
  OBVIOUS
<1>1. owner \in Dealt /\ RosterIdle \in Passes
  BY DEF RosterInit, RosterIdle, Passes, Dealt
<1>2. \A w \in RosterRuns : roster[w] = RosterIdle
  BY DEF RosterInit
<1> QED BY <1>1, <1>2 DEF RosterInit, RosterIdle, RosterInv, RosterTypes, OwnersPosted, ListAlone, Holding

\* A pass back at rest, or one that has begun, disturbs nothing.
LEMMA RosterPasses ==
  ASSUME RosterInv, NEW w \in RosterRuns, NEW p \in Passes, p.pc \in {"idle", "list"},
         \A c \in OnlineClasses : p.deal[c] # NoChecker => p.deal[c] \in eligible(posting, c),
         roster' = [roster EXCEPT ![w] = p], UNCHANGED <<online, owner>>,
         posting' \subseteq Postings, posting \subseteq posting'
  PROVE  RosterInv'
<1>1. \A v \in RosterRuns : roster'[v] = IF v = w THEN p ELSE roster[v]
  BY DEF RosterInv, RosterTypes
<1>2. RosterTypes'
  BY DEF RosterInv, RosterTypes
<1>3. \A c : eligible(posting, c) \subseteq eligible(posting', c)
  BY EligibleGrows
<1>4. OwnersPosted'
  BY <1>1, <1>3 DEF RosterInv, OwnersPosted
<1>5. \A v \in RosterRuns : Holding(v)' => Holding(v) /\ roster'[v] = roster[v] /\ v # w
  BY <1>1 DEF Holding
<1>6. ListAlone'
  BY <1>5 DEF RosterInv, ListAlone
<1> QED BY <1>2, <1>4, <1>6 DEF RosterInv

LEMMA RosterIdles ==
  ASSUME RosterInv, NEW w \in RosterRuns, roster' = [roster EXCEPT ![w] = RosterIdle],
         UNCHANGED <<posting, online, owner>>
  PROVE  RosterInv'
<1>1. RosterIdle \in Passes /\ RosterIdle.pc = "idle" /\ \A c \in OnlineClasses : RosterIdle.deal[c] = NoChecker
  BY DEF RosterIdle, Passes, Dealt
<1>2. posting' \subseteq Postings /\ posting \subseteq posting'
  BY DEF RosterInv, RosterTypes
<1> HIDE DEF RosterIdle
<1> QED BY <1>1, <1>2, RosterPasses

LEMMA RosterStarts ==
  ASSUME RosterInv, NEW w \in RosterRuns, roster' = [roster EXCEPT ![w].pc = "list"],
         UNCHANGED <<online, owner>>, posting' \subseteq Postings, posting \subseteq posting'
  PROVE  RosterInv'
<1> DEFINE p == [roster[w] EXCEPT !.pc = "list"]
<1>1. roster[w] \in Passes
  BY DEF RosterInv, RosterTypes
<1>2. p \in Passes /\ p.pc = "list" /\ p.deal = roster[w].deal
  BY <1>1 DEF Passes
<1>3. roster' = [roster EXCEPT ![w] = p]
  BY DEF RosterInv, RosterTypes
<1>4. \A c \in OnlineClasses : p.deal[c] # NoChecker => p.deal[c] \in eligible(posting, c)
  BY <1>2 DEF RosterInv, OwnersPosted
<1> HIDE DEF p
<1> QED BY <1>2, <1>3, <1>4, RosterPasses

\* The list is taken: from here on the pass knows of every other that holds one.
LEMMA RosterLists == ASSUME RosterInv, NEW w \in RosterRuns, roster_list(w) PROVE RosterInv'
<1> DEFINE list  == candidate_online_sessions
           other == {v \in RosterRuns \ {w} : roster[v].pc \in {"pool", "write"}}
<1>0. UNCHANGED <<posting, online, owner>> /\ roster \in [RosterRuns -> Passes]
  BY DEF roster_list, RosterInv, RosterTypes
<1>1. CASE list = {}
  BY <1>0, <1>1, RosterIdles DEF roster_list
<1>2. CASE list # {}
  <2> DEFINE lone == (other = {})
             stays(v) == roster[v].alone /\ v \notin other
  <2>1. /\ roster'[w] = [roster[w] EXCEPT !.pc = "pool", !.todo = list, !.alone = lone]
        /\ \A v \in RosterRuns \ {w} : roster'[v] = [roster[v] EXCEPT !.alone = stays(v)]
    BY <1>2 DEF roster_list
  <2>2. roster' = [v \in RosterRuns |-> roster'[v]]
    BY <1>2 DEF roster_list
  <2>3. list \in SUBSET OnlineClasses /\ \A c \in list : owner[c] = NoChecker
    BY DEF candidate_online_sessions, RosterInv, RosterTypes
  <2>4. /\ lone \in BOOLEAN /\ (lone => other = {})
        /\ \A v \in RosterRuns : stays(v) \in BOOLEAN /\ (stays(v) => v \notin other)
    OBVIOUS
  <2> HIDE DEF lone, stays, list
  <2>5. /\ roster'[w] \in Passes /\ roster'[w].deal = roster[w].deal /\ roster'[w].pc = "pool"
        /\ roster'[w].todo = list /\ roster'[w].alone = lone
    <3>1. roster[w] \in Passes
      BY <1>0
    <3> QED BY <2>1, <2>3, <2>4, <3>1 DEF Passes
  <2>6. ASSUME NEW v \in RosterRuns \ {w}
        PROVE  /\ roster'[v] \in Passes /\ roster'[v].deal = roster[v].deal /\ roster'[v].pc = roster[v].pc
               /\ roster'[v].todo = roster[v].todo /\ roster'[v].alone = stays(v)
    <3>1. roster[v] \in Passes
      BY <1>0
    <3> QED BY <2>1, <2>4, <3>1 DEF Passes
  <2>7. \A v \in RosterRuns : roster'[v] \in Passes /\ roster'[v].deal = roster[v].deal
    BY <2>5, <2>6
  <2>8. RosterTypes'
    BY <1>0, <2>2, <2>7 DEF RosterInv, RosterTypes
  <2>9. OwnersPosted'
    BY <1>0, <2>7 DEF RosterInv, OwnersPosted
  <2>10. Holding(w)' /\ roster'[w].todo = list /\ (roster'[w].alone => other = {})
    BY <2>4, <2>5 DEF Holding
  <2>11. \A v \in RosterRuns \ {w} :
           /\ Holding(v)' <=> Holding(v)
           /\ Holding(v) => v \in other
           /\ roster'[v].todo = roster[v].todo /\ (roster'[v].alone => v \notin other)
    BY <2>4, <2>6 DEF Holding
  <2>12. ASSUME NEW v \in RosterRuns, Holding(v)'
         PROVE  /\ roster'[v].todo # {}
                /\ roster'[v].alone => /\ \A c \in roster'[v].todo : owner'[c] = NoChecker
                                       /\ \A u \in RosterRuns \ {v} : ~Holding(u)'
    <3>1. CASE v = w
      <4>1. other = {} => \A u \in RosterRuns \ {w} : ~Holding(u)'
        BY <2>11
      <4> QED BY <1>0, <1>2, <2>3, <2>10, <3>1, <4>1
    <3>2. CASE v # w
      <4>1. Holding(v) /\ v \in other
        BY <2>11, <2>12, <3>2
      <4> QED BY <2>11, <3>2, <4>1 DEF RosterInv, ListAlone
    <3> QED BY <3>1, <3>2
  <2>13. ListAlone'
    BY <2>12 DEF ListAlone
  <2> QED BY <2>8, <2>9, <2>13 DEF RosterInv
<1> QED BY <1>1, <1>2

LEMMA RosterPools == ASSUME RosterInv, NEW w \in RosterRuns, roster_pool(w) PROVE RosterInv'
<1> DEFINE deal == deal_out(roster[w].todo, posting)
           some == \E c \in OnlineClasses : deal[c] # NoChecker
<1>0. /\ UNCHANGED <<posting, online, owner>> /\ roster \in [RosterRuns -> Passes]
      /\ roster[w].todo \in SUBSET OnlineClasses /\ posting \in SUBSET Postings
  BY DEF roster_pool, RosterInv, RosterTypes, Passes
<1>1. CASE ~some
  BY <1>0, <1>1, RosterIdles DEF roster_pool
<1>2. CASE some
  <2>1. roster' = [roster EXCEPT ![w] = [roster[w] EXCEPT !.pc = "write", !.deal = deal]] /\ roster[w].pc = "pool"
    BY <1>0, <1>2 DEF roster_pool
  <2>2. ASSUME NEW c \in OnlineClasses
        PROVE  deal[c] # NoChecker => deal[c] \in eligible(posting, c)
    BY <1>0, DealtInPool DEF deal_out
  <2>3. \A c \in OnlineClasses : eligible(posting, c) \subseteq OnlineCheckers
    BY <1>0 DEF eligible, Postings
  <2>4. deal \in Dealt
    <3>1. deal = [c \in OnlineClasses |-> deal[c]]
      BY DEF deal_out
    <3> HIDE DEF deal
    <3> QED BY <2>2, <2>3, <3>1 DEF Dealt
  <2> HIDE DEF deal
  <2>5. \A v \in RosterRuns : /\ roster'[v] \in Passes /\ roster'[v].todo = roster[v].todo
                              /\ roster'[v].alone = roster[v].alone
                              /\ roster'[v].deal = IF v = w THEN deal ELSE roster[v].deal
                              /\ Holding(v)' <=> Holding(v)
    BY <1>0, <2>1, <2>4 DEF Passes, Holding
  <2>6. RosterTypes'
    BY <1>0, <2>1, <2>5 DEF RosterInv, RosterTypes
  <2>7. OwnersPosted'
    BY <1>0, <2>2, <2>5 DEF RosterInv, OwnersPosted
  <2>8. ListAlone'
    BY <1>0, <2>5 DEF RosterInv, ListAlone
  <2> QED BY <2>6, <2>7, <2>8 DEF RosterInv
<1> QED BY <1>1, <1>2

\* The owner written is the one dealt, to a class of the list.
LEMMA RosterWrites ==
  ASSUME RosterInv, NEW w \in RosterRuns, roster_write(w)
  PROVE  /\ RosterInv'
         /\ \A v \in RosterRuns, c \in OnlineClasses :
              roster[v].pc = "write" /\ roster[v].alone /\ roster'[v] # roster[v] /\ owner[c] # NoChecker
                => owner'[c] = owner[c]
<1> DEFINE todo == roster[w].todo
           c == CHOOSE d \in todo : \A e \in todo \ {d} : EarlierClass(d, e)
           rest == todo \ {c}
           given == roster[w].deal[c]
<1>0. /\ UNCHANGED <<posting, online>> /\ roster \in [RosterRuns -> Passes] /\ roster[w].pc = "write"
      /\ todo \in SUBSET OnlineClasses /\ todo # {} /\ owner \in Dealt
  BY DEF roster_write, RosterInv, RosterTypes, Passes, ListAlone, Holding
<1>1. c \in todo
  BY <1>0, FirstListed
<1>2. /\ owner' = IF given = NoChecker THEN owner ELSE [owner EXCEPT ![c] = given]
      /\ roster' = [roster EXCEPT ![w] = IF rest = {} THEN RosterIdle ELSE [@ EXCEPT !.todo = rest]]
  BY DEF roster_write
<1> HIDE DEF c
<1>3. given \in OnlineCheckers \union {NoChecker} /\ c \in OnlineClasses
  BY <1>0, <1>1 DEF Passes, Dealt
<1>4. owner' \in Dealt
  BY <1>0, <1>2, <1>3 DEF Dealt
<1>5. \A d \in OnlineClasses : owner'[d] = IF d = c /\ given # NoChecker THEN given ELSE owner[d]
  BY <1>0, <1>2, <1>3 DEF Dealt
<1>6. RosterIdle \in Passes /\ RosterIdle.pc = "idle" /\ \A d \in OnlineClasses : RosterIdle.deal[d] = NoChecker
  BY DEF RosterIdle, Passes, Dealt
<1> HIDE DEF RosterIdle
<1>7. \A v \in RosterRuns \ {w} : roster'[v] = roster[v]
  BY <1>0, <1>2
<1>8. \/ roster'[w] = RosterIdle
      \/ /\ rest # {} /\ roster'[w] = [roster[w] EXCEPT !.todo = rest]
         /\ roster'[w] \in Passes /\ roster'[w].todo = rest /\ roster'[w].deal = roster[w].deal
         /\ roster'[w].alone = roster[w].alone /\ roster'[w].pc = "write"
  BY <1>0, <1>2 DEF Passes
<1>9. RosterTypes'
  BY <1>0, <1>2, <1>4, <1>6, <1>7, <1>8 DEF RosterInv, RosterTypes
<1>10. given # NoChecker => given \in eligible(posting, c)
  BY <1>3 DEF RosterInv, OwnersPosted
<1>11. OwnersPosted'
  BY <1>0, <1>5, <1>6, <1>7, <1>8, <1>10 DEF RosterInv, OwnersPosted
<1>12. Holding(w) /\ \A v \in RosterRuns : Holding(v)' => Holding(v) /\ roster'[v].alone = roster[v].alone
  BY <1>0, <1>6, <1>7, <1>8 DEF Holding
<1>13. ASSUME NEW v \in RosterRuns, Holding(v)'
       PROVE  /\ roster'[v].todo # {}
              /\ roster'[v].alone => /\ \A d \in roster'[v].todo : owner'[d] = NoChecker
                                     /\ \A u \in RosterRuns \ {v} : ~Holding(u)'
  <2>1. CASE v = w
    <3>1. roster'[w].todo = rest /\ rest # {}
      BY <1>6, <1>8, <1>13, <2>1 DEF Holding
    <3>2. \A d \in rest : owner'[d] = owner[d]
      BY <1>0, <1>5
    <3> QED BY <1>12, <1>13, <2>1, <3>1, <3>2 DEF RosterInv, ListAlone
  <2>2. CASE v # w
    <3>1. roster'[v] = roster[v] /\ ~roster[v].alone /\ roster[v].todo # {}
      BY <1>7, <1>12, <1>13, <2>2 DEF RosterInv, ListAlone
    <3> QED BY <3>1
  <2> QED BY <2>1, <2>2
<1>14. ListAlone'
  BY <1>13 DEF ListAlone
<1>15. ASSUME NEW v \in RosterRuns, NEW d \in OnlineClasses, roster[v].pc = "write", roster[v].alone,
              roster'[v] # roster[v], owner[d] # NoChecker
       PROVE  owner'[d] = owner[d]
  <2>1. v = w
    BY <1>7, <1>15
  <2>2. owner[c] = NoChecker
    BY <1>1, <1>12, <1>15, <2>1 DEF RosterInv, ListAlone
  <2> QED BY <1>5, <1>15, <2>2
<1> QED BY <1>9, <1>11, <1>14, <1>15 DEF RosterInv

LEMMA RosterStep ==
  RosterInv /\ [RosterNext]_rosterVars =>
    /\ RosterInv'
    /\ [\A w \in RosterRuns, c \in OnlineClasses :
          roster[w].pc = "write" /\ roster[w].alone /\ roster'[w] # roster[w] /\ owner[c] # NoChecker
            => owner'[c] = owner[c]]_rosterVars
<1> SUFFICES ASSUME RosterInv, [RosterNext]_rosterVars
             PROVE  /\ RosterInv'
                    /\ \A w \in RosterRuns, c \in OnlineClasses :
                         roster[w].pc = "write" /\ roster[w].alone /\ roster'[w] # roster[w] /\ owner[c] # NoChecker
                           => owner'[c] = owner[c]
  OBVIOUS
<1>1. CASE \E w \in RosterRuns : roster_write(w)
  BY <1>1, RosterWrites
<1>2. ASSUME NEW w \in RosterRuns, NEW a \in Postings, assignment_create_online(w, a)
      PROVE  RosterInv' /\ owner' = owner
  <2>1. posting' \subseteq Postings /\ posting \subseteq posting'
    BY <1>2 DEF assignment_create_online, RosterInv, RosterTypes
  <2> QED BY <1>2, <2>1, RosterStarts DEF assignment_create_online
<1>3. ASSUME NEW w \in RosterRuns, assign_online(w)
      PROVE  RosterInv' /\ owner' = owner
  <2>1. posting' \subseteq Postings /\ posting \subseteq posting'
    BY <1>3 DEF assign_online, RosterInv, RosterTypes
  <2> QED BY <1>3, <2>1, RosterStarts DEF assign_online
<1>4. ASSUME NEW w \in RosterRuns, roster_list(w)
      PROVE  RosterInv' /\ owner' = owner
  BY <1>4, RosterLists DEF roster_list
<1>5. ASSUME NEW w \in RosterRuns, roster_pool(w)
      PROVE  RosterInv' /\ owner' = owner
  BY <1>5, RosterPools DEF roster_pool
<1>6. ASSUME NEW w \in RosterRuns, roster_crash(w)
      PROVE  RosterInv' /\ owner' = owner
  BY <1>6, RosterIdles DEF roster_crash
<1>7. ASSUME NEW c \in Shiftable, modality_flip(c)
      PROVE  RosterInv' /\ owner' = owner
  <2>1. online' \subseteq OnlineClasses
    BY <1>7, RosterAssumption DEF modality_flip, RosterInv, RosterTypes
  <2> QED BY <1>7, <2>1 DEF modality_flip, RosterInv, RosterTypes, OwnersPosted, ListAlone, Holding
<1>8. CASE UNCHANGED rosterVars
  BY <1>8 DEF rosterVars, RosterInv, RosterTypes, OwnersPosted, ListAlone, Holding
<1> QED BY <1>1, <1>2, <1>3, <1>4, <1>5, <1>6, <1>7, <1>8 DEF RosterNext

LEMMA RosterKept == BackSpec => []RosterInv
  BY RosterBegan, RosterBegins, RosterStep, RosterTurns, PTL DEF BackSpec

\* However passes of the console and of the command overlap, die and begin again, with
\* postings made and classes shifted meanwhile, the owner of an online class has a posting
\* that covers its start (assign_online_sessions in verification/services.py).
THEOREM OwnersOnDuty == BackSpec => []OwnerCovers
<1>1. RosterInv => OwnerCovers
  <2> SUFFICES ASSUME RosterInv PROVE OwnerCovers
    OBVIOUS
  <2>1. ASSUME NEW u \in OnlineCheckers, NEW c \in online_list(u)
        PROVE  online_actionable(u, c, SlotOf[c])
    <3>1. c \in online /\ c \in OnlineClasses /\ owner[c] = u /\ u # NoChecker
      BY RosterAssumption DEF online_list, RosterInv, RosterTypes
    <3>2. u \in eligible(posting, c)
      BY <3>1 DEF RosterInv, OwnersPosted
    <3> QED BY <3>1, <3>2 DEF eligible, covers_start, online_actionable
  <2>2. ASSUME NEW c \in online, owner[c] # NoChecker
        PROVE  \E u \in OnlineCheckers : c \in online_list(u)
    <3>1. owner[c] \in OnlineCheckers
      BY <2>2 DEF RosterInv, RosterTypes, Dealt
    <3> QED BY <3>1 DEF online_list
  <2> QED BY <2>1, <2>2 DEF OwnerCovers
<1> QED BY <1>1, RosterKept, PTL

\* A pass that no other overlapped changes no owner: its list holds unowned classes only,
\* and nobody else writes until it is done (assign_online_sessions is idempotent).
THEOREM OwnersStay == BackSpec => NoReshuffle
  BY RosterKept, RosterStep, RosterTurns, PTL DEF BackSpec, NoReshuffle
-----------------------------------------------------------------------------
(***************************************************************************)
(* The weekly reports (WeeklyReports).  Only the file under the canonical  *)
(* name is ever deleted, and whoever deletes it saves it again: for a      *)
(* report that was generated it is there or a run is at that point         *)
(* (Covered).  That is so for everything while no cut is outstanding, and  *)
(* for what a run that began after the cut has done already (Reliable): so *)
(* when such a run ends, it is so for everything again.                    *)
(***************************************************************************)
LEMMA WeeklyBegan == BackInit => ReportInit
  BY DEF BackInit

LEMMA WeeklyTurns == [BackNext]_backVars => [ReportNext]_reportVars
  BY DEF backVars, BackNext, RosterTurn, PushTurn, JobTurn, WeeklyTurn, CampusTurn, ImportTurn,
         PagesTurn, PeopleTurn, WeeklyRests

FileSlots == 0..MaxSuffix \union {NoFile}
StoredRow == [dept : ReportKeys, csv : FileSlots, pdf : FileSlots]
HasRow == {"csv", "save csv", "pdf", "save pdf", "save"}
GenShape == [pc : {"idle", "get", "insert"} \union HasRow, todo : Seq(ReportKeys), row : Nat,
             csv : FileSlots, pdf : FileSlots, old : BOOLEAN]

\* The points of a run at which it has deleted the old file of a kind.
Past == [csv |-> {"save csv", "pdf", "save pdf", "save"}, pdf |-> {"save pdf", "save"}]

WeeklyTypes ==
  /\ reports \in Seq(StoredRow)
  /\ gen \in [Generators -> GenShape]
  /\ rhist \in [cut : BOOLEAN, byCommand : BOOLEAN, cuts : Nat, runs : Nat]

Filling(g, i) == gen[g].pc \in HasRow /\ gen[g].row = i

\* What a run has in hand at each point.
RunShape ==
  \A g \in Generators :
    /\ gen[g].pc = "idle" <=> gen[g] = NoGen
    /\ gen[g].pc # "idle" => gen[g].todo # <<>>
    /\ gen[g].pc \in HasRow => /\ gen[g].row \in DOMAIN reports
                                 /\ reports[gen[g].row].dept = Current(g)
    /\ gen[g].pc \in {"pdf", "save pdf", "save"} => gen[g].csv # NoFile
    /\ gen[g].pc = "save" => gen[g].pdf # NoFile

\* The constraint on departments.
OneRowEach == \A i, j \in DOMAIN reports :
                reports[i].dept = reports[j].dept /\ reports[i].dept # Rollup => i = j

\* Files under a suffixed name stay.
SuffixedStay ==
  \A k \in Kinds :
    /\ \A i \in DOMAIN reports : reports[i][k] \notin {NoFile, 0} => <<reports[i].dept, k, reports[i][k]>> \in files
    /\ \A g \in Generators : gen[g][k] \notin {NoFile, 0} => <<Current(g), k, gen[g][k]>> \in files

Covered(d, k) ==
  <<d, k, 0>> \in files \/ \E h \in Generators : gen[h].pc = Saving[k] /\ Current(h) = d

Reliable(g) == gen[g].pc # "idle" /\ (~rhist.cut \/ ~gen[g].old)
LeftTo(g) == {gen[g].todo[i] : i \in DOMAIN gen[g].todo}

AllCovered ==
  \A d \in ReportKeys, k \in Kinds :
    /\ (~rhist.cut /\ \E i \in DOMAIN reports : reports[i].dept = d /\ reports[i][k] # NoFile) => Covered(d, k)
    /\ \A g \in Generators :
         Reliable(g) /\ (d \notin LeftTo(g) \/ (Current(g) = d /\ gen[g].pc \in Past[k])) => Covered(d, k)

AllFilled ==
  \A i \in DOMAIN reports : \A k \in Kinds : reports[i][k] = NoFile =>
    /\ ~rhist.cut => \E h \in Generators : Filling(h, i)
    /\ \A g \in Generators :
         /\ Reliable(g)
         /\ reports[i].dept \notin LeftTo(g) \/ (Current(g) = reports[i].dept /\ gen[g].pc # "get")
         => \E h \in Generators : Filling(h, i)

WeeklyInv == WeeklyTypes /\ RunShape /\ OneRowEach /\ SuffixedStay /\ AllCovered /\ AllFilled

\* Lists and numbers the runs work with.
LEMMA TodoParts ==
  ASSUME NEW S, NEW t \in Seq(S), t # <<>>
  PROVE  /\ Head(t) \in S /\ Tail(t) \in Seq(S)
         /\ {t[i] : i \in DOMAIN t} = {Head(t)} \union {Tail(t)[i] : i \in DOMAIN Tail(t)}
         /\ Tail(t) = <<>> => {t[i] : i \in DOMAIN t} = {Head(t)}
<1>1. Head(t) \in S /\ Tail(t) \in Seq(S) /\ Head(t) = t[1] /\ Len(t) \in Nat \ {0}
  OBVIOUS
<1>2. Len(Tail(t)) = Len(t) - 1 /\ \A i \in 1..Len(t) - 1 : Tail(t)[i] = t[i + 1]
  OBVIOUS
<1>3. DOMAIN t = 1..Len(t) /\ DOMAIN Tail(t) = 1..(Len(t) - 1)
  BY <1>1, <1>2
<1>4. \A i \in 1..Len(t) : i = 1 \/ (i - 1 \in 1..(Len(t) - 1) /\ t[i] = Tail(t)[i - 1])
  BY <1>1, <1>2
<1>5. \A i \in 1..(Len(t) - 1) : i + 1 \in 1..Len(t) /\ Tail(t)[i] = t[i + 1]
  BY <1>1, <1>2
<1>6. {t[i] : i \in 1..Len(t)} = {t[1]} \union {Tail(t)[i] : i \in 1..(Len(t) - 1)}
  BY <1>1, <1>4, <1>5
<1>7. Tail(t) = <<>> => 1..(Len(t) - 1) = {}
  BY <1>1, <1>2
<1> QED BY <1>1, <1>3, <1>6, <1>7

LEMMA AllKeysListed ==
  LET t == Append(ReportDepts, Rollup)
  IN  t \in Seq(ReportKeys) /\ t # <<>> /\ ReportKeys \subseteq {t[i] : i \in DOMAIN t}
<1> DEFINE D == {ReportDepts[i] : i \in DOMAIN ReportDepts}
           t == Append(ReportDepts, Rollup)
           n == Len(ReportDepts)
<1>1. ReportDepts \in Seq(D) /\ ReportKeys = D \union {Rollup}
  BY ReportAssumption DEF ReportKeys
<1>2. n \in Nat /\ DOMAIN ReportDepts = 1..n
  BY <1>1
<1>3. t \in Seq(ReportKeys) /\ Len(t) = n + 1 /\ t[n + 1] = Rollup /\ \A i \in 1..n : t[i] = ReportDepts[i]
  <2>1. ReportDepts \in Seq(ReportKeys) /\ Rollup \in ReportKeys
    BY <1>1
  <2> QED BY <2>1
<1>4. DOMAIN t = 1..(n + 1)
  BY <1>3
<1>5. ASSUME NEW d \in ReportKeys PROVE \E i \in DOMAIN t : t[i] = d
  <2>1. CASE d = Rollup
    BY <1>2, <1>3, <1>4, <2>1
  <2>2. CASE d \in D
    <3>1. PICK i \in 1..n : ReportDepts[i] = d
      BY <1>2, <2>2
    <3>2. i \in 1..(n + 1)
      BY <1>2
    <3> QED BY <1>3, <1>4, <3>1, <3>2
  <2> QED BY <1>1, <2>1, <2>2
<1> QED BY <1>2, <1>3, <1>5

LEMMA AtMostOne ==
  ASSUME NEW S, IsFiniteSet(S), Cardinality(S) <= 1, NEW x \in S, NEW y \in S
  PROVE  x = y
<1>1. Cardinality(S \ {x}) = Cardinality(S) - 1 /\ IsFiniteSet(S \ {x}) /\ Cardinality(S) \in Nat
  BY FS_RemoveElement, FS_CardinalityType
<1>2. Cardinality(S \ {x}) \in Nat
  BY <1>1, FS_CardinalityType
<1>3. Cardinality(S \ {x}) = 0
  BY <1>1, <1>2
<1> QED BY <1>1, <1>3, FS_EmptySet

LEMMA WeeklyBegins == ReportInit => WeeklyInv
<1> SUFFICES ASSUME ReportInit PROVE WeeklyInv
  OBVIOUS
<1>1. NoGen \in GenShape
  BY DEF NoGen, GenShape, FileSlots
<1>2. WeeklyTypes
  BY <1>1 DEF ReportInit, WeeklyTypes
<1>3. \A g \in Generators : gen[g] = NoGen
  BY DEF ReportInit
<1>4. NoGen.pc = "idle" /\ NoGen.csv = NoFile /\ NoGen.pdf = NoFile
  BY DEF NoGen
<1>5. DOMAIN reports = {}
  BY DEF ReportInit
<1> QED BY <1>2, <1>3, <1>4, <1>5
        DEF WeeklyInv, RunShape, OneRowEach, SuffixedStay, AllCovered, AllFilled, Reliable, HasRow, Kinds

\* A kind is csv or pdf.
LEMMA KindFacts ==
  /\ Kinds = {"csv", "pdf"} /\ Saving["csv"] = "save csv" /\ Saving["pdf"] = "save pdf"
  /\ Past["csv"] = {"save csv", "pdf", "save pdf", "save"} /\ Past["pdf"] = {"save pdf", "save"}
  BY Zenon DEF Kinds, Saving, Past

LEMMA RowDept ==
  ASSUME WeeklyTypes, NEW i \in DOMAIN reports
  PROVE  reports[i] \in StoredRow /\ reports[i].dept \in ReportKeys
<1>1. reports[i] \in StoredRow
  BY DEF WeeklyTypes
<1> QED BY <1>1 DEF StoredRow

\* What a step of one run leaves alone.
LEMMA GenOthers ==
  ASSUME WeeklyTypes, NEW g \in Generators, NEW x, gen' = [gen EXCEPT ![g] = x]
  PROVE  \A h \in Generators : gen'[h] = IF h = g THEN x ELSE gen[h]
  BY DEF WeeklyTypes

\* What RunShape says of one run.
LEMMA RunOf ==
  ASSUME RunShape, NEW h \in Generators
  PROVE  /\ gen[h].pc = "idle" <=> gen[h] = NoGen
         /\ gen[h].pc # "idle" => gen[h].todo # <<>>
         /\ gen[h].pc \in HasRow => /\ gen[h].row \in DOMAIN reports
                                     /\ reports[gen[h].row].dept = Current(h)
         /\ gen[h].pc \in {"pdf", "save pdf", "save"} => gen[h].csv # NoFile
         /\ gen[h].pc = "save" => gen[h].pdf # NoFile
  BY DEF RunShape

LEMMA OldSet ==
  ASSUME NEW y \in GenShape
  PROVE  LET z == [y EXCEPT !.old = TRUE]
         IN  /\ z \in GenShape /\ z.old = TRUE /\ z.pc = y.pc /\ z.todo = y.todo /\ z.row = y.row
             /\ z.csv = y.csv /\ z.pdf = y.pdf
  BY DEF GenShape

\* A run that begins has everything to do.
LEMMA WeeklyStarts == ASSUME WeeklyInv, NEW g \in Generators, generate_week_reports(g) PROVE WeeklyInv'
<1> DEFINE x == [NoGen EXCEPT !.pc = "get", !.todo = Append(ReportDepts, Rollup)]
<1>1. /\ x \in GenShape /\ x.pc = "get" /\ x.todo = Append(ReportDepts, Rollup) /\ x.csv = NoFile /\ x.pdf = NoFile
  BY AllKeysListed DEF NoGen, GenShape, FileSlots
<1>2. x.todo # <<>> /\ \A d \in ReportKeys : d \in {x.todo[i] : i \in DOMAIN x.todo}
  BY <1>1, AllKeysListed
<1>3. gen' = [gen EXCEPT ![g] = x] /\ UNCHANGED <<reports, files>> /\ gen[g].pc = "idle"
  BY DEF generate_week_reports, NoGen
<1> HIDE DEF x
<1>4. \A h \in Generators : gen'[h] = IF h = g THEN x ELSE gen[h]
  BY <1>3, GenOthers DEF WeeklyInv
<1>5. rhist'.cut = rhist.cut /\ rhist' \in [cut : BOOLEAN, byCommand : BOOLEAN, cuts : Nat, runs : Nat]
  BY DEF generate_week_reports, WeeklyInv, WeeklyTypes
<1>6. WeeklyTypes'
  BY <1>1, <1>3, <1>5 DEF WeeklyInv, WeeklyTypes
<1>7. \A d, k : k \in Kinds /\ Covered(d, k) => Covered(d, k)'
  <2>1. \A k \in Kinds : Saving[k] # "idle"
    BY KindFacts
  <2> QED BY <1>3, <1>4, <2>1 DEF Covered, Current
<1>8. \A h \in Generators, i \in DOMAIN reports : Filling(h, i) => Filling(h, i)'
  BY <1>3, <1>4 DEF Filling, HasRow
<1>9. RunShape'
  <2>1. x # NoGen /\ x.pc \notin HasRow
    BY <1>1 DEF NoGen, HasRow
  <2> SUFFICES ASSUME NEW h \in Generators
               PROVE  /\ gen'[h].pc = "idle" <=> gen'[h] = NoGen
                      /\ gen'[h].pc # "idle" => gen'[h].todo # <<>>
                      /\ gen'[h].pc \in HasRow => /\ gen'[h].row \in DOMAIN reports
                                                   /\ reports[gen'[h].row].dept = Current(h)'
                      /\ gen'[h].pc \in {"pdf", "save pdf", "save"} => gen'[h].csv # NoFile
                      /\ gen'[h].pc = "save" => gen'[h].pdf # NoFile
    BY <1>3 DEF RunShape
  <2>2. CASE h = g
    <3>1. gen'[h] = x
      BY <1>4, <2>2
    <3> QED BY <1>1, <1>2, <2>1, <3>1
  <2>3. CASE h # g
    <3>1. gen'[h] = gen[h]
      BY <1>4, <2>3
    <3>2. Current(h)' = Current(h)
      BY <3>1 DEF Current
    <3>3. RunShape
      BY DEF WeeklyInv
    <3> QED BY <3>1, <3>2, <3>3, RunOf
  <2> QED BY <2>2, <2>3
<1>10. OneRowEach' /\ SuffixedStay'
  <2>1. \A k \in Kinds : x[k] = NoFile
    BY <1>1, KindFacts
  <2>2. OneRowEach'
    BY <1>3 DEF WeeklyInv, OneRowEach
  <2>3. SuffixedStay'
    BY <1>3, <1>4, <2>1 DEF WeeklyInv, SuffixedStay, Current
  <2> QED BY <2>2, <2>3
<1>11. \A h \in Generators \ {g} : (Reliable(h)' => Reliable(h)) /\ LeftTo(h)' = LeftTo(h) /\ Current(h)' = Current(h)
  BY <1>4, <1>5 DEF Reliable, LeftTo, Current
<1>12. \A d \in ReportKeys : d \in LeftTo(g)'
  BY <1>2, <1>4 DEF LeftTo
<1>13. gen'[g].pc = "get" /\ \A k \in Kinds : "get" \notin Past[k]
  BY <1>1, <1>4 DEF Past, Kinds
<1>14. AllCovered'
  BY <1>3, <1>4, <1>5, <1>7, <1>11, <1>12, <1>13 DEF WeeklyInv, AllCovered
<1>15. \A i \in DOMAIN reports : reports[i].dept \in ReportKeys
  BY RowDept DEF WeeklyInv
<1>16. AllFilled'
  BY <1>3, <1>4, <1>5, <1>8, <1>11, <1>12, <1>13, <1>15 DEF WeeklyInv, AllFilled
<1> QED BY <1>6, <1>9, <1>10, <1>14, <1>16 DEF WeeklyInv

\* A step of one run that touches neither files nor the history of cuts, and passes no
\* deletion, keeps what is covered.
LEMMA StaysCovered ==
  ASSUME WeeklyInv, NEW g \in Generators, NEW x, gen' = [gen EXCEPT ![g] = x], UNCHANGED <<files, rhist>>,
         gen[g].pc \in {"get", "insert"}, x.pc \in {"insert", "csv"}, x.todo = gen[g].todo, x.old = gen[g].old,
         \A i \in DOMAIN reports' : \A k \in Kinds : reports'[i][k] # NoFile => i \in DOMAIN reports /\ reports'[i] = reports[i]
  PROVE  /\ AllCovered'
         /\ \A h \in Generators : /\ Reliable(h)' => Reliable(h)
                                  /\ LeftTo(h)' = LeftTo(h) /\ Current(h)' = Current(h)
         /\ \A h \in Generators, i \in DOMAIN reports : Filling(h, i) => Filling(h, i)'
<1>0. WeeklyTypes
  BY DEF WeeklyInv
<1>1. \A h \in Generators : gen'[h] = IF h = g THEN x ELSE gen[h]
  BY <1>0 DEF WeeklyTypes
<1>2. \A h \in Generators : /\ Reliable(h)' => Reliable(h)
                            /\ LeftTo(h)' = LeftTo(h) /\ Current(h)' = Current(h)
  BY <1>1 DEF Reliable, LeftTo, Current
<1>3. \A h \in Generators, i \in DOMAIN reports : Filling(h, i) => Filling(h, i)'
  BY <1>1 DEF Filling, HasRow
<1>4. \A k \in Kinds : gen[g].pc # Saving[k] /\ x.pc \notin Past[k]
  BY KindFacts
<1>5. \A d, k : k \in Kinds /\ Covered(d, k) => Covered(d, k)'
  BY <1>1, <1>2, <1>4 DEF Covered
<1>6. \A h \in Generators, k \in Kinds : gen'[h].pc \in Past[k] => gen[h].pc \in Past[k]
  BY <1>1, <1>4
<1>7. AllCovered'
  BY <1>2, <1>5, <1>6 DEF WeeklyInv, AllCovered
<1> QED BY <1>2, <1>3, <1>7

LEMMA WeeklyGets == ASSUME WeeklyInv, NEW g \in Generators, report_get(g) PROVE WeeklyInv'
<1> DEFINE d == Current(g)
           found == RowsOf(d)
           i0 == CHOOSE i \in found : TRUE
           x == IF found = {} THEN [gen[g] EXCEPT !.pc = "insert"]
                ELSE [gen[g] EXCEPT !.pc = "csv", !.row = i0]
<1>0. /\ WeeklyTypes /\ gen[g] \in GenShape /\ gen[g].pc = "get" /\ Cardinality(found) <= 1
      /\ UNCHANGED <<reports, files, rhist>>
  BY DEF WeeklyInv, WeeklyTypes, report_get
<1>1. gen' = [gen EXCEPT ![g] = x]
  BY <1>0 DEF report_get, WeeklyTypes
<1>2. \A i \in DOMAIN reports : i \in found <=> reports[i].dept = d
  BY DEF RowsOf
<1>3. found # {} => i0 \in found
  OBVIOUS
<1>4. found \subseteq DOMAIN reports /\ DOMAIN reports = 1..Len(reports) /\ Len(reports) \in Nat
  BY <1>0 DEF RowsOf, WeeklyTypes
<1>5. IsFiniteSet(found)
  <2>1. 1 \in Int /\ Len(reports) \in Int
    BY <1>4
  <2>2. IsFiniteSet(1..Len(reports))
    BY <2>1, FS_Interval
  <2> QED BY <1>4, <2>2, FS_Subset
<1> HIDE DEF found, i0
<1>6. \A i \in found : i = i0
  BY <1>0, <1>3, <1>5, AtMostOne
<1>7. /\ x \in GenShape /\ x.todo = gen[g].todo /\ x.old = gen[g].old /\ x.csv = gen[g].csv /\ x.pdf = gen[g].pdf
      /\ x.pc = (IF found = {} THEN "insert" ELSE "csv") /\ (found # {} => x.row = i0)
  <2>1. CASE found = {}
    <3>1. x = [gen[g] EXCEPT !.pc = "insert"]
      BY <2>1
    <3> HIDE DEF x
    <3> QED BY <1>0, <2>1, <3>1 DEF GenShape
  <2>2. CASE found # {}
    <3>1. x = [gen[g] EXCEPT !.pc = "csv", !.row = i0] /\ i0 \in Nat /\ "csv" \in HasRow
      BY <1>3, <1>4, <2>2 DEF HasRow
    <3> HIDE DEF x
    <3> QED BY <1>0, <2>2, <3>1 DEF GenShape
  <2> QED BY <2>1, <2>2
<1> HIDE DEF x
<1>8. \A h \in Generators : gen'[h] = IF h = g THEN x ELSE gen[h]
  BY <1>0, <1>1, GenOthers
<1>9. /\ AllCovered'
      /\ \A h \in Generators : /\ Reliable(h)' => Reliable(h)
                               /\ LeftTo(h)' = LeftTo(h) /\ Current(h)' = Current(h)
      /\ \A h \in Generators, i \in DOMAIN reports : Filling(h, i) => Filling(h, i)'
  BY <1>0, <1>1, <1>7, StaysCovered
<1>10. WeeklyTypes'
  BY <1>0, <1>1, <1>7 DEF WeeklyTypes
<1>11. RunShape'
  <2>1. ASSUME NEW h \in Generators, h # g PROVE gen'[h] = gen[h] /\ Current(h)' = Current(h)
    BY <1>8, <1>9, <2>1
  <2>2. x # NoGen /\ x.todo # <<>>
    <3>1. x.pc # "idle" /\ NoGen.pc = "idle"
      BY <1>7 DEF NoGen
    <3> QED BY <1>0, <1>7, <3>1 DEF WeeklyInv, RunShape
  <2>3. found # {} => i0 \in DOMAIN reports /\ reports[i0].dept = d
    BY <1>2, <1>3, <1>4
  <2>4. gen'[g] = x /\ Current(g)' = d
    BY <1>8, <1>9
  <2>5. RunShape
    BY DEF WeeklyInv
  <2> SUFFICES ASSUME NEW h \in Generators
               PROVE  /\ gen'[h].pc = "idle" <=> gen'[h] = NoGen
                      /\ gen'[h].pc # "idle" => gen'[h].todo # <<>>
                      /\ gen'[h].pc \in HasRow => /\ gen'[h].row \in DOMAIN reports
                                                   /\ reports[gen'[h].row].dept = Current(h)'
                      /\ gen'[h].pc \in {"pdf", "save pdf", "save"} => gen'[h].csv # NoFile
                      /\ gen'[h].pc = "save" => gen'[h].pdf # NoFile
    BY <1>0 DEF RunShape
  <2>6. CASE h # g
    BY <2>1, <2>5, <2>6, RunOf
  <2>7. CASE h = g
    <3>1. x.pc \in HasRow => found # {}
      BY <1>7 DEF HasRow
    <3> QED BY <1>7, <2>2, <2>3, <2>4, <2>7, <3>1
  <2> QED BY <2>6, <2>7
<1>12. OneRowEach'
  BY <1>0 DEF WeeklyInv, OneRowEach
<1>13. SuffixedStay'
  <2>1. \A k \in Kinds : x[k] = gen[g][k]
    BY <1>7, KindFacts
  <2>2. \A h \in Generators, k \in Kinds : gen'[h][k] = gen[h][k]
    BY <1>8, <2>1
  <2> QED BY <1>0, <1>9, <2>2 DEF WeeklyInv, SuffixedStay
<1>14. AllFilled'
  <2>1. ASSUME NEW i \in DOMAIN reports, reports[i].dept = d PROVE Filling(g, i)'
    <3>1. i \in found
      BY <1>2, <2>1
    <3>2. i = i0 /\ found # {}
      BY <1>6, <3>1
    <3> QED BY <1>7, <1>8, <3>2 DEF Filling, HasRow
  <2>2. ASSUME NEW i \in DOMAIN reports, NEW k \in Kinds, reports[i][k] = NoFile, NEW h \in Generators,
               Reliable(h)', reports[i].dept \notin LeftTo(h)' \/ (Current(h)' = reports[i].dept /\ gen'[h].pc # "get")
        PROVE  \E v \in Generators : Filling(v, i)'
    <3>1. CASE h = g /\ reports[i].dept = d
      BY <2>1, <3>1
    <3>2. CASE ~(h = g /\ reports[i].dept = d)
      BY <1>8, <1>9, <2>2, <3>2 DEF WeeklyInv, AllFilled
    <3> QED BY <3>1, <3>2
  <2>3. ASSUME NEW i \in DOMAIN reports, NEW k \in Kinds, reports[i][k] = NoFile, ~rhist.cut
        PROVE  \E v \in Generators : Filling(v, i)'
    BY <1>9, <2>3 DEF WeeklyInv, AllFilled
  <2> QED BY <1>0, <2>2, <2>3 DEF AllFilled
<1> QED BY <1>9, <1>10, <1>11, <1>12, <1>13, <1>14 DEF WeeklyInv

LEMMA WeeklyInserts == ASSUME WeeklyInv, NEW g \in Generators, report_insert(g) PROVE WeeklyInv'
<1> DEFINE d == Current(g)
           n == Len(reports)
           new == [dept |-> d, csv |-> NoFile, pdf |-> NoFile]
<1>0. /\ WeeklyTypes /\ gen[g] \in GenShape /\ gen[g].pc = "insert" /\ gen[g].todo # <<>>
      /\ UNCHANGED <<files, rhist>> /\ n \in Nat /\ DOMAIN reports = 1..n
  <2>1. WeeklyTypes /\ RunShape /\ gen[g].pc = "insert" /\ UNCHANGED <<files, rhist>>
    BY DEF WeeklyInv, report_insert
  <2>2. gen[g] \in GenShape /\ reports \in Seq(StoredRow)
    BY <2>1 DEF WeeklyTypes
  <2>3. gen[g].todo # <<>>
    BY <2>1 DEF RunShape
  <2> QED BY <2>1, <2>2, <2>3
<1>1. d \in ReportKeys
  <2>1. gen[g].todo \in Seq(ReportKeys)
    BY <1>0 DEF GenShape
  <2> QED BY <1>0, <2>1, TodoParts DEF Current
<1>2. PICK r \in Nat : /\ gen' = [gen EXCEPT ![g] = [gen[g] EXCEPT !.pc = "csv", !.row = r]]
                       /\ \/ r \in RowsOf(d) /\ reports' = reports
                          \/ /\ r = n + 1 /\ reports' = Append(reports, new)
                             /\ d # Rollup => RowsOf(d) = {}
  <2>1. CASE d # Rollup /\ RowsOf(d) # {}
    <3> DEFINE i0 == CHOOSE i \in RowsOf(d) : TRUE
    <3>1. i0 \in RowsOf(d) /\ i0 \in Nat
      BY <1>0, <2>1 DEF RowsOf
    <3>2. gen' = [gen EXCEPT ![g].pc = "csv", ![g].row = i0] /\ reports' = reports
      BY <2>1 DEF report_insert
    <3> HIDE DEF i0
    <3>3. gen' = [gen EXCEPT ![g] = [gen[g] EXCEPT !.pc = "csv", !.row = i0]]
      BY <1>0, <3>2 DEF WeeklyTypes
    <3> QED BY <3>1, <3>2, <3>3
  <2>2. CASE ~(d # Rollup /\ RowsOf(d) # {})
    <3>1. gen' = [gen EXCEPT ![g].pc = "csv", ![g].row = n + 1] /\ reports' = Append(reports, new)
      BY <2>2 DEF report_insert
    <3>2. gen' = [gen EXCEPT ![g] = [gen[g] EXCEPT !.pc = "csv", !.row = n + 1]]
      BY <1>0, <3>1 DEF WeeklyTypes
    <3>3. n + 1 \in Nat /\ (d # Rollup => RowsOf(d) = {})
      BY <1>0, <2>2
    <3> HIDE DEF d, n, new
    <3> QED BY <3>1, <3>2, <3>3
  <2> QED BY <2>1, <2>2
<1> DEFINE x == [gen[g] EXCEPT !.pc = "csv", !.row = r]
<1>3. /\ x \in GenShape /\ x.todo = gen[g].todo /\ x.old = gen[g].old /\ x.csv = gen[g].csv /\ x.pdf = gen[g].pdf
      /\ x.pc = "csv" /\ x.row = r
  BY <1>0 DEF GenShape, HasRow
<1> HIDE DEF x
<1>4. \A h \in Generators : gen'[h] = IF h = g THEN x ELSE gen[h]
  BY <1>0, <1>2, GenOthers DEF x
<1>5. new \in StoredRow /\ new.dept = d /\ new.csv = NoFile /\ new.pdf = NoFile
  BY <1>1 DEF StoredRow, FileSlots
<1>6. \A k \in Kinds : new[k] = NoFile
  BY <1>5, KindFacts
<1> HIDE DEF new
\* The table: the same, or one row longer.
<1>7. /\ reports' \in Seq(StoredRow)
      /\ DOMAIN reports \subseteq DOMAIN reports' /\ \A i \in DOMAIN reports : reports'[i] = reports[i]
      /\ \A i \in DOMAIN reports' : i \in DOMAIN reports \/ (i = r /\ reports'[i] = new)
      /\ r \in DOMAIN reports' /\ reports'[r].dept = d
      /\ r \notin DOMAIN reports /\ d # Rollup => \A i \in DOMAIN reports : reports[i].dept # d
  <2>1. CASE r \in RowsOf(d) /\ reports' = reports
    BY <1>0, <2>1 DEF RowsOf, WeeklyTypes
  <2>2. CASE r = n + 1 /\ reports' = Append(reports, new) /\ (d # Rollup => RowsOf(d) = {})
    <3>1. reports \in Seq(StoredRow)
      BY <1>0 DEF WeeklyTypes
    <3>2. /\ reports' \in Seq(StoredRow) /\ DOMAIN reports' = 1..(n + 1) /\ reports'[n + 1] = new
          /\ \A i \in 1..n : reports'[i] = reports[i]
      BY <1>0, <1>5, <2>2, <3>1
    <3>3. \A i \in 1..(n + 1) : i \in 1..n \/ i = n + 1
      BY <1>0
    <3> QED BY <1>0, <1>5, <2>2, <3>2, <3>3 DEF RowsOf
  <2> QED BY <1>2, <2>1, <2>2
<1>8. /\ AllCovered'
      /\ \A h \in Generators : /\ Reliable(h)' => Reliable(h)
                               /\ LeftTo(h)' = LeftTo(h) /\ Current(h)' = Current(h)
      /\ \A h \in Generators, i \in DOMAIN reports : Filling(h, i) => Filling(h, i)'
  <2>1. \A i \in DOMAIN reports' : \A k \in Kinds :
          reports'[i][k] # NoFile => i \in DOMAIN reports /\ reports'[i] = reports[i]
    BY <1>6, <1>7
  <2> QED BY <1>0, <1>2, <1>3, <2>1, StaysCovered DEF x
<1>9. WeeklyTypes'
  BY <1>0, <1>2, <1>3, <1>7 DEF WeeklyTypes, x
<1>10. RunShape'
  <2>1. ASSUME NEW h \in Generators, h # g PROVE gen'[h] = gen[h] /\ Current(h)' = Current(h)
    BY <1>4, <1>8, <2>1
  <2>2. x # NoGen /\ x.pc # "idle" /\ x.pc \in HasRow /\ x.pc \notin {"pdf", "save pdf", "save"}
    <3>1. x.pc # "idle" /\ NoGen.pc = "idle"
      BY <1>3 DEF NoGen
    <3> QED BY <1>3, <3>1 DEF HasRow
  <2>3. gen'[g] = x /\ Current(g)' = d
    BY <1>4, <1>8
  <2> SUFFICES ASSUME NEW h \in Generators
               PROVE  /\ gen'[h].pc = "idle" <=> gen'[h] = NoGen
                      /\ gen'[h].pc # "idle" => gen'[h].todo # <<>>
                      /\ gen'[h].pc \in HasRow => /\ gen'[h].row \in DOMAIN reports'
                                                   /\ reports'[gen'[h].row].dept = Current(h)'
                      /\ gen'[h].pc \in {"pdf", "save pdf", "save"} => gen'[h].csv # NoFile
                      /\ gen'[h].pc = "save" => gen'[h].pdf # NoFile
    BY DEF RunShape
  <2>4. CASE h = g
    BY <1>0, <1>3, <1>7, <2>2, <2>3, <2>4
  <2>5. CASE h # g
    <3>1. /\ gen[h].pc = "idle" <=> gen[h] = NoGen
          /\ gen[h].pc # "idle" => gen[h].todo # <<>>
          /\ gen[h].pc \in HasRow => gen[h].row \in DOMAIN reports /\ reports[gen[h].row].dept = Current(h)
          /\ gen[h].pc \in {"pdf", "save pdf", "save"} => gen[h].csv # NoFile
          /\ gen[h].pc = "save" => gen[h].pdf # NoFile
      BY DEF WeeklyInv, RunShape
    <3>2. gen'[h] = gen[h] /\ Current(h)' = Current(h)
      BY <2>1, <2>5
    <3>3. gen[h].row \in DOMAIN reports => /\ gen[h].row \in DOMAIN reports'
                                          /\ reports'[gen[h].row] = reports[gen[h].row]
      BY <1>7
    <3> QED BY <3>1, <3>2, <3>3
  <2> QED BY <2>4, <2>5
<1>11. OneRowEach'
  <2> SUFFICES ASSUME NEW i \in DOMAIN reports', NEW j \in DOMAIN reports',
                      reports'[i].dept = reports'[j].dept, reports'[i].dept # Rollup
               PROVE  i = j
    BY DEF OneRowEach
  <2>1. CASE i \in DOMAIN reports /\ j \in DOMAIN reports
    BY <1>7, <2>1 DEF WeeklyInv, OneRowEach
  <2>2. CASE i \notin DOMAIN reports \/ j \notin DOMAIN reports
    BY <1>5, <1>7, <2>2
  <2> QED BY <2>1, <2>2
<1>12. SuffixedStay'
  <2>1. \A k \in Kinds : x[k] = gen[g][k]
    BY <1>3, KindFacts
  <2>2. \A h \in Generators, k \in Kinds : gen'[h][k] = gen[h][k]
    BY <1>4, <2>1
  <2> QED BY <1>0, <1>6, <1>7, <1>8, <2>2 DEF WeeklyInv, SuffixedStay
<1>13. AllFilled'
  <2>1. Filling(g, r)'
    BY <1>3, <1>4 DEF Filling, HasRow
  <2>2. ASSUME NEW i \in DOMAIN reports, NEW k \in Kinds, reports'[i][k] = NoFile, NEW h \in Generators,
               Reliable(h)', reports'[i].dept \notin LeftTo(h)' \/ (Current(h)' = reports'[i].dept /\ gen'[h].pc # "get")
        PROVE  \E v \in Generators : Filling(v, i)'
    <3>1. gen'[h].pc # "get" => gen[h].pc # "get"
      BY <1>0, <1>4
    <3> QED BY <1>7, <1>8, <2>2, <3>1 DEF WeeklyInv, AllFilled
  <2>3. ASSUME NEW i \in DOMAIN reports, NEW k \in Kinds, reports'[i][k] = NoFile, ~rhist.cut
        PROVE  \E v \in Generators : Filling(v, i)'
    BY <1>7, <1>8, <2>3 DEF WeeklyInv, AllFilled
  <2> QED BY <1>0, <1>7, <2>1, <2>2, <2>3 DEF AllFilled
<1> QED BY <1>8, <1>9, <1>10, <1>11, <1>12, <1>13 DEF WeeklyInv

\* A step from one point of a report to the next, files and canonical names aside.
LEMMA WeeklyMoves ==
  ASSUME WeeklyInv, NEW g \in Generators, NEW x \in GenShape, gen' = [gen EXCEPT ![g] = x],
         UNCHANGED <<reports, rhist>>, gen[g].pc \in HasRow, x.pc \in HasRow,
         x.todo = gen[g].todo, x.row = gen[g].row, x.old = gen[g].old,
         x.pc \in {"pdf", "save pdf", "save"} => x.csv # NoFile, x.pc = "save" => x.pdf # NoFile,
         SuffixedStay',
         \A e \in ReportKeys, k \in Kinds : Covered(e, k) => Covered(e, k)',
         \A e, k : k \in Kinds /\ e = Current(g) /\ x.pc \in Past[k] => gen[g].pc \in Past[k] \/ Covered(e, k)'
  PROVE  WeeklyInv'
<1>0. WeeklyTypes /\ RunShape
  BY DEF WeeklyInv
<1>1. \A h \in Generators : gen'[h] = IF h = g THEN x ELSE gen[h]
  BY <1>0, GenOthers
<1>2. \A h \in Generators : /\ Reliable(h)' => Reliable(h)
                            /\ LeftTo(h)' = LeftTo(h) /\ Current(h)' = Current(h)
                            /\ gen'[h].pc # "get" => gen[h].pc # "get"
  <2>1. x.pc # "idle" /\ gen[g].pc \notin {"idle", "get"}
    BY DEF HasRow
  <2>2. \A h \in Generators : gen'[h].todo = gen[h].todo /\ gen'[h].old = gen[h].old
    BY <1>1
  <2>3. \A h \in Generators : gen'[h].pc # "idle" => gen[h].pc # "idle"
    BY <1>1, <2>1
  <2>4. \A h \in Generators : gen'[h].pc # "get" => gen[h].pc # "get"
    BY <1>1, <2>1
  <2>5. \A h \in Generators : Reliable(h)' => Reliable(h)
    BY <2>2, <2>3 DEF Reliable
  <2>6. ASSUME NEW h \in Generators PROVE LeftTo(h)' = LeftTo(h) /\ Current(h)' = Current(h)
    <3>1. gen'[h].todo = gen[h].todo
      BY <2>2
    <3> QED BY ONLY <3>1 DEF LeftTo, Current
  <2> QED BY <2>4, <2>5, <2>6
<1>3. \A h \in Generators, i \in DOMAIN reports : Filling(h, i) => Filling(h, i)'
  BY <1>1 DEF Filling
<1>4. WeeklyTypes'
  BY <1>0 DEF WeeklyTypes
<1>5. RunShape'
  <2>1. x # NoGen /\ x.pc # "idle" /\ gen[g].pc # "idle"
    <3>1. x.pc # "idle" /\ gen[g].pc # "idle" /\ NoGen.pc = "idle"
      BY DEF NoGen, HasRow
    <3> QED BY <3>1
  <2> SUFFICES ASSUME NEW h \in Generators
               PROVE  /\ gen'[h].pc = "idle" <=> gen'[h] = NoGen
                      /\ gen'[h].pc # "idle" => gen'[h].todo # <<>>
                      /\ gen'[h].pc \in HasRow => /\ gen'[h].row \in DOMAIN reports
                                                   /\ reports[gen'[h].row].dept = Current(h)
                      /\ gen'[h].pc \in {"pdf", "save pdf", "save"} => gen'[h].csv # NoFile
                      /\ gen'[h].pc = "save" => gen'[h].pdf # NoFile
    BY <1>2 DEF RunShape
  <2>2. CASE h = g
    <3>1. gen[g].todo # <<>> /\ gen[g].row \in DOMAIN reports /\ reports[gen[g].row].dept = Current(g)
      BY <1>0, <2>1 DEF RunShape
    <3>2. gen'[h] = x /\ h = g
      BY <1>1, <2>2
    <3> QED BY <2>1, <3>1, <3>2
  <2>3. CASE h # g
    <3>1. gen'[h] = gen[h]
      BY <1>1, <2>3
    <3> QED BY <1>0, <3>1, RunOf
  <2> QED BY <2>2, <2>3
<1>6. OneRowEach'
  BY DEF WeeklyInv, OneRowEach
<1>7. AllCovered'
  <2>1. ASSUME NEW e \in ReportKeys, NEW k \in Kinds, NEW h \in Generators, Reliable(h)',
               e \notin LeftTo(h)' \/ (Current(h)' = e /\ gen'[h].pc \in Past[k])
        PROVE  Covered(e, k)'
    <3>1. CASE h = g /\ Current(g) = e /\ gen[g].pc \notin Past[k] /\ x.pc \in Past[k]
      BY <3>1
    <3>2. CASE ~(h = g /\ Current(g) = e /\ gen[g].pc \notin Past[k] /\ x.pc \in Past[k])
      <4>1. e \notin LeftTo(h) \/ (Current(h) = e /\ gen[h].pc \in Past[k])
        BY <1>1, <1>2, <2>1, <3>2
      <4> QED BY <1>2, <2>1, <4>1 DEF WeeklyInv, AllCovered
    <3> QED BY <3>1, <3>2
  <2>2. ASSUME NEW e \in ReportKeys, NEW k \in Kinds, ~rhist.cut,
               NEW i \in DOMAIN reports, reports[i].dept = e, reports[i][k] # NoFile
        PROVE  Covered(e, k)'
    BY <2>2 DEF WeeklyInv, AllCovered
  <2> QED BY <2>1, <2>2 DEF AllCovered
<1>8. AllFilled'
  BY <1>2, <1>3 DEF WeeklyInv, AllFilled
<1> QED BY <1>4, <1>5, <1>6, <1>7, <1>8 DEF WeeklyInv

\* The canonical name is given up, and this run has it to fill.
LEMMA WeeklyDeletes ==
  ASSUME WeeklyInv, NEW g \in Generators, NEW k \in Kinds, save_overwrite_delete(g, k)
  PROVE  WeeklyInv'
<1> DEFINE d == Current(g)
           p == Saving[k]
           x == [gen[g] EXCEPT !.pc = p]
<1>0. /\ WeeklyTypes /\ RunShape /\ SuffixedStay /\ gen[g] \in GenShape /\ gen[g].pc = k
      /\ UNCHANGED <<reports, rhist>> /\ files' = files \ {<<d, k, 0>>}
  BY DEF WeeklyInv, WeeklyTypes, save_overwrite_delete
<1>1. gen' = [gen EXCEPT ![g] = x]
  BY <1>0 DEF save_overwrite_delete, WeeklyTypes
<1>2. k \in HasRow /\ p \in HasRow /\ k \in {"csv", "pdf"} /\ p = IF k = "csv" THEN "save csv" ELSE "save pdf"
  BY KindFacts DEF HasRow
<1> HIDE DEF p
<1>3. /\ x \in GenShape /\ x.todo = gen[g].todo /\ x.old = gen[g].old /\ x.csv = gen[g].csv /\ x.pdf = gen[g].pdf
      /\ x.pc = p /\ x.row = gen[g].row
  BY <1>0, <1>2 DEF GenShape
<1> HIDE DEF x
<1>4. \A h \in Generators : gen'[h] = IF h = g THEN x ELSE gen[h]
  BY <1>0, <1>1, GenOthers
<1>5. \A h \in Generators : Current(h)' = Current(h)
  BY <1>3, <1>4 DEF Current
<1>6. x.pc \in {"pdf", "save pdf", "save"} => x.csv # NoFile
  BY <1>0, <1>2, <1>3 DEF RunShape
<1>7. SuffixedStay'
  <2>1. \A j \in Kinds : x[j] = gen[g][j]
    BY <1>3, KindFacts
  <2>2. \A h \in Generators, j \in Kinds : gen'[h][j] = gen[h][j]
    BY <1>4, <2>1
  <2>3. \A e, j, s : s # 0 /\ <<e, j, s>> \in files => <<e, j, s>> \in files'
    BY <1>0
  <2> QED BY <1>0, <1>5, <2>2, <2>3 DEF SuffixedStay
<1>8. Covered(d, k)' /\ \A e : e = d => Covered(e, k)'
  <2>1. gen'[g].pc = Saving[k] /\ Current(g)' = d
    BY <1>3, <1>4, <1>5 DEF p
  <2> QED BY <2>1 DEF Covered
<1>9. ASSUME NEW e \in ReportKeys, NEW j \in Kinds, Covered(e, j) PROVE Covered(e, j)'
  <2>1. CASE e = d /\ j = k
    BY <1>8, <2>1
  <2>2. CASE ~(e = d /\ j = k)
    <3>1. <<e, j, 0>> \in files => <<e, j, 0>> \in files'
      BY <1>0, <2>2
    <3>2. \A h \in Generators : gen[h].pc = Saving[j] => gen'[h].pc = Saving[j]
      BY <1>0, <1>2, <1>4, KindFacts
    <3> QED BY <1>5, <1>9, <3>1, <3>2 DEF Covered
  <2> QED BY <2>1, <2>2
<1>10. \A e, j : j \in Kinds /\ e = Current(g) /\ x.pc \in Past[j] => gen[g].pc \in Past[j] \/ Covered(e, j)'
  <2>1. \A j \in Kinds : p \in Past[j] => j = k \/ k \in Past[j]
    BY <1>2, KindFacts
  <2> QED BY <1>0, <1>3, <1>8, <2>1
<1>11. x.pc \in HasRow /\ gen[g].pc \in HasRow /\ x.pc # "save"
  BY <1>0, <1>2, <1>3
<1> QED BY <1>0, <1>1, <1>3, <1>6, <1>7, <1>9, <1>10, <1>11, WeeklyMoves

\* The canonical name is taken when it is free, so it is in use afterwards.
LEMMA WeeklySaves ==
  ASSUME WeeklyInv, NEW g \in Generators, NEW k \in Kinds, save_overwrite_save(g, k)
  PROVE  WeeklyInv'
<1> DEFINE d == Current(g)
           free == {s \in 0..MaxSuffix : <<d, k, s>> \notin files}
           s0 == Min(free)
           x == IF k = "csv" THEN [gen[g] EXCEPT !.csv = s0, !.pc = "pdf"]
                ELSE [gen[g] EXCEPT !.pdf = s0, !.pc = "save"]
<1>0. /\ WeeklyTypes /\ RunShape /\ SuffixedStay /\ gen[g] \in GenShape /\ gen[g].pc = Saving[k] /\ free # {}
      /\ UNCHANGED <<reports, rhist>> /\ files' = files \union {<<d, k, s0>>}
  BY DEF WeeklyInv, WeeklyTypes, save_overwrite_save
<1>1. gen' = [gen EXCEPT ![g] = x]
  BY <1>0 DEF save_overwrite_save, WeeklyTypes
<1>2. s0 \in free /\ \A y \in free : s0 <= y
  <2>1. free \subseteq Nat
    BY ReportAssumption
  <2>2. \E y \in free : \A z \in free : y <= z
    BY <1>0, <2>1, LeastNatural
  <2> HIDE DEF free
  <2> QED BY <2>2 DEF Min
<1>3. s0 \in 0..MaxSuffix /\ <<d, k, s0>> \notin files /\ (<<d, k, 0>> \notin files => s0 = 0)
  <2>1. s0 \in 0..MaxSuffix /\ <<d, k, s0>> \notin files
    BY <1>2
  <2>2. ASSUME <<d, k, 0>> \notin files PROVE s0 = 0
    <3>1. 0 \in free
      BY <2>2, ReportAssumption
    <3>2. s0 <= 0 /\ s0 >= 0 /\ s0 \in Int
      BY <1>2, <2>1, <3>1, ReportAssumption
    <3> QED BY <3>2
  <2> QED BY <2>1, <2>2
<1>4. s0 \in FileSlots /\ s0 # NoFile
  BY <1>3, ReportAssumption DEF FileSlots, NoFile
<1> HIDE DEF free, s0
<1>5. k \in {"csv", "pdf"} /\ Saving[k] = IF k = "csv" THEN "save csv" ELSE "save pdf"
  BY KindFacts
<1>6. /\ x \in GenShape /\ x.todo = gen[g].todo /\ x.old = gen[g].old /\ x.row = gen[g].row
      /\ x.csv = (IF k = "csv" THEN s0 ELSE gen[g].csv) /\ x.pdf = (IF k = "csv" THEN gen[g].pdf ELSE s0)
      /\ x.pc = IF k = "csv" THEN "pdf" ELSE "save"
  <2>1. CASE k = "csv"
    <3>1. x = [gen[g] EXCEPT !.csv = s0, !.pc = "pdf"] /\ "pdf" \in HasRow
      BY <2>1 DEF HasRow
    <3> HIDE DEF x
    <3> QED BY <1>0, <1>4, <2>1, <3>1 DEF GenShape
  <2>2. CASE k # "csv"
    <3>1. x = [gen[g] EXCEPT !.pdf = s0, !.pc = "save"] /\ "save" \in HasRow
      BY <2>2 DEF HasRow
    <3> HIDE DEF x
    <3> QED BY <1>0, <1>4, <2>2, <3>1 DEF GenShape
  <2> QED BY <2>1, <2>2
<1> HIDE DEF x
<1>7. \A h \in Generators : gen'[h] = IF h = g THEN x ELSE gen[h]
  <2>1. WeeklyTypes
    BY <1>0
  <2> QED BY ONLY <1>1, <2>1, GenOthers, g \in Generators
<1>8. \A h \in Generators : Current(h)' = Current(h)
  BY <1>6, <1>7 DEF Current
<1>9. /\ x.pc \in {"pdf", "save pdf", "save"} => x.csv # NoFile
      /\ x.pc = "save" => x.pdf # NoFile
  <2>1. k # "csv" => gen[g].csv # NoFile
    BY <1>0, <1>5 DEF RunShape
  <2> QED BY <1>4, <1>5, <1>6, <2>1
<1>10. SuffixedStay'
  <2>1. \A j \in Kinds : x[j] = IF j = k THEN s0 ELSE gen[g][j]
    BY <1>5, <1>6, KindFacts
  <2>2. \A h \in Generators, j \in Kinds : gen'[h][j] = gen[h][j] \/ (h = g /\ j = k /\ gen'[h][j] = s0)
    BY <1>7, <2>1
  <2>3. <<d, k, s0>> \in files' /\ files \subseteq files'
    BY <1>0
  <2> QED BY <1>0, <1>8, <2>2, <2>3 DEF SuffixedStay
<1>11. <<d, k, 0>> \in files'
  BY <1>0, <1>3
<1>12. ASSUME NEW e \in ReportKeys, NEW j \in Kinds, Covered(e, j) PROVE Covered(e, j)'
  <2>1. CASE e = d /\ j = k
    BY <1>11, <2>1 DEF Covered
  <2>2. CASE ~(e = d /\ j = k)
    <3>1. <<e, j, 0>> \in files => <<e, j, 0>> \in files'
      BY <1>0
    <3>2. \A h \in Generators : gen[h].pc = Saving[j] /\ Current(h) = e => gen'[h].pc = Saving[j]
      <4>1. Saving[j] = Saving[k] => j = k
        BY KindFacts
      <4> QED BY <1>0, <1>7, <2>2, <4>1
    <3> QED BY <1>8, <1>12, <3>1, <3>2 DEF Covered
  <2> QED BY <2>1, <2>2
<1>13. \A e, j : j \in Kinds /\ e = Current(g) /\ x.pc \in Past[j] => gen[g].pc \in Past[j] \/ Covered(e, j)'
  <2>1. \A j \in Kinds : x.pc \in Past[j] => Saving[k] \in Past[j]
    BY <1>5, <1>6, KindFacts
  <2> QED BY <1>0, <2>1
<1>14. x.pc \in HasRow /\ gen[g].pc \in HasRow
  BY <1>0, <1>5, <1>6 DEF HasRow
<1> QED BY <1>0, <1>1, <1>6, <1>9, <1>10, <1>12, <1>13, <1>14, WeeklyMoves

LEMMA FreshRun == \A k \in Kinds : "get" \notin Past[k]
<1>1. "get" \notin Past["csv"] /\ "get" \notin Past["pdf"]
  BY KindFacts
<1> QED BY <1>1, KindFacts

\* The row takes its paths.  A run that ends leaves everything covered, and if it began
\* after every cut, nothing is owed any more.
LEMMA WeeklyRowSaved == ASSUME WeeklyInv, NEW g \in Generators, report_save(g) PROVE WeeklyInv'
<1> DEFINE d == Current(g)
           r == gen[g].row
           rest == Tail(gen[g].todo)
           x == NextReport(g, rest)
           v == [reports[r] EXCEPT !.csv = gen[g].csv, !.pdf = gen[g].pdf]
<1>0. /\ WeeklyTypes /\ gen[g] \in GenShape /\ gen[g].pc = "save" /\ UNCHANGED files
      /\ RunShape /\ OneRowEach /\ SuffixedStay /\ AllCovered /\ AllFilled
  BY DEF WeeklyInv, WeeklyTypes, report_save
<1>1. gen[g].todo # <<>> /\ r \in DOMAIN reports /\ reports[r].dept = d /\ gen[g].csv # NoFile /\ gen[g].pdf # NoFile
  BY <1>0 DEF RunShape, HasRow
<1>2. gen[g].todo \in Seq(ReportKeys) /\ gen[g].old \in BOOLEAN /\ gen[g].csv \in FileSlots /\ gen[g].pdf \in FileSlots
  BY <1>0 DEF GenShape
<1>3. /\ d \in ReportKeys /\ rest \in Seq(ReportKeys)
      /\ LeftTo(g) = {d} \union {rest[i] : i \in DOMAIN rest}
      /\ rest = <<>> => LeftTo(g) = {d}
  BY <1>1, <1>2, TodoParts DEF LeftTo, Current
<1>4. gen' = [gen EXCEPT ![g] = x]
  BY DEF report_save
<1>5. reports' = [reports EXCEPT ![r] = v]
  <2>1. reports \in Seq(StoredRow)
    BY <1>0 DEF WeeklyTypes
  <2> QED BY <1>1, <2>1 DEF report_save
<1>6. /\ v \in StoredRow /\ v.dept = d /\ v.csv = gen[g].csv /\ v.pdf = gen[g].pdf
  <2>1. reports[r] \in StoredRow
    BY <1>0, <1>1, RowDept
  <2> QED BY <1>1, <1>2, <2>1 DEF StoredRow
<1>7. \A k \in Kinds : v[k] = gen[g][k] /\ v[k] # NoFile
  BY <1>1, <1>6, KindFacts
<1> HIDE DEF v
<1>8. /\ reports' \in Seq(StoredRow) /\ DOMAIN reports' = DOMAIN reports
      /\ \A i \in DOMAIN reports : reports'[i] = IF i = r THEN v ELSE reports[i]
      /\ \A i \in DOMAIN reports : reports'[i].dept = reports[i].dept
  <2>1. reports \in Seq(StoredRow)
    BY <1>0 DEF WeeklyTypes
  <2> QED BY <1>1, <1>5, <1>6, <2>1
<1>9. /\ x \in GenShape /\ x.csv = NoFile /\ x.pdf = NoFile
      /\ x.pc = (IF rest = <<>> THEN "idle" ELSE "get")
      /\ rest = <<>> => x = NoGen
      /\ rest # <<>> => x.todo = rest /\ x.old = gen[g].old
  <2>1. CASE rest = <<>>
    <3>1. x = NoGen
      BY <2>1 DEF NextReport
    <3>2. NoGen \in GenShape /\ NoGen.csv = NoFile /\ NoGen.pdf = NoFile /\ NoGen.pc = "idle"
      BY DEF NoGen, GenShape, FileSlots
    <3> HIDE DEF x, rest
    <3> QED BY <2>1, <3>1, <3>2
  <2>2. CASE rest # <<>>
    <3>1. x = [pc |-> "get", todo |-> rest, row |-> 0, csv |-> NoFile, pdf |-> NoFile, old |-> gen[g].old]
      BY <2>2 DEF NextReport, NoGen
    <3>2. NoFile \in FileSlots
      BY DEF FileSlots
    <3> HIDE DEF x, rest
    <3> QED BY <1>2, <1>3, <2>2, <3>1, <3>2 DEF GenShape
  <2> QED BY <2>1, <2>2
<1> HIDE DEF x
<1>10. \A h \in Generators : gen'[h] = IF h = g THEN x ELSE gen[h]
  BY <1>0, <1>4, GenOthers
<1>11. /\ rhist'.cut = (rhist.cut /\ (rest # <<>> \/ gen[g].old))
       /\ rhist' \in [cut : BOOLEAN, byCommand : BOOLEAN, cuts : Nat, runs : Nat]
  BY <1>0 DEF report_save, WeeklyTypes
<1>12. WeeklyTypes'
  BY <1>0, <1>4, <1>8, <1>9, <1>11 DEF WeeklyTypes
<1>13. \A h \in Generators : h # g => gen'[h] = gen[h] /\ Current(h)' = Current(h) /\ LeftTo(h)' = LeftTo(h)
  BY <1>10 DEF Current, LeftTo
<1>14. RunShape'
  <2>1. x.pc = "idle" <=> x = NoGen
    <3>1. NoGen.pc = "idle"
      BY DEF NoGen
    <3> QED BY <1>9, <3>1
  <2>2. x.pc # "idle" => x.todo # <<>>
    BY <1>9
  <2>3. x.pc \notin HasRow
    BY <1>9 DEF HasRow
  <2> SUFFICES ASSUME NEW h \in Generators
               PROVE  /\ gen'[h].pc = "idle" <=> gen'[h] = NoGen
                      /\ gen'[h].pc # "idle" => gen'[h].todo # <<>>
                      /\ gen'[h].pc \in HasRow => /\ gen'[h].row \in DOMAIN reports'
                                                   /\ reports'[gen'[h].row].dept = Current(h)'
                      /\ gen'[h].pc \in {"pdf", "save pdf", "save"} => gen'[h].csv # NoFile
                      /\ gen'[h].pc = "save" => gen'[h].pdf # NoFile
    BY DEF RunShape
  <2>4. CASE h = g
    BY <1>10, <2>1, <2>2, <2>3, <2>4 DEF HasRow
  <2>5. CASE h # g
    <3>1. gen'[h] = gen[h] /\ Current(h)' = Current(h)
      BY <1>13, <2>5
    <3>2. gen[h].row \in DOMAIN reports => gen[h].row \in DOMAIN reports' /\ reports'[gen[h].row].dept = reports[gen[h].row].dept
      BY <1>8
    <3> QED BY <1>0, <3>1, <3>2, RunOf
  <2> QED BY <2>4, <2>5
<1>15. OneRowEach'
  BY <1>0, <1>8 DEF OneRowEach
<1>16. SuffixedStay'
  <2>1. \A k \in Kinds : x[k] = NoFile
    BY <1>9, KindFacts
  <2>2. ASSUME NEW k \in Kinds, NEW i \in DOMAIN reports, reports'[i][k] \notin {NoFile, 0}
        PROVE  <<reports'[i].dept, k, reports'[i][k]>> \in files
    <3>1. CASE i = r
      <4>1. reports'[i][k] = gen[g][k] /\ reports'[i].dept = Current(g)
        BY <1>1, <1>6, <1>7, <1>8, <3>1
      <4> QED BY <1>0, <2>2, <4>1 DEF SuffixedStay
    <3>2. CASE i # r
      <4>1. reports'[i] = reports[i]
        BY <1>8, <3>2
      <4> QED BY <1>0, <2>2, <4>1 DEF SuffixedStay
    <3> QED BY <3>1, <3>2
  <2>3. ASSUME NEW k \in Kinds, NEW h \in Generators, gen'[h][k] \notin {NoFile, 0}
        PROVE  <<Current(h)', k, gen'[h][k]>> \in files
    <3>1. h # g
      BY <1>10, <2>1, <2>3
    <3>2. gen'[h] = gen[h] /\ Current(h)' = Current(h)
      BY <1>13, <3>1
    <3> QED BY <1>0, <2>3, <3>2 DEF SuffixedStay
  <2> QED BY <1>0, <1>8, <2>2, <2>3 DEF SuffixedStay
\* Nobody's deletion is forgotten.
<1>17. \A e, k : k \in Kinds /\ Covered(e, k) => Covered(e, k)'
  <2>1. \A k \in Kinds : gen[g].pc # Saving[k]
    BY <1>0, KindFacts
  <2> QED BY <1>0, <1>13, <2>1 DEF Covered
\* What the run has done: everything it no longer has to do, and the report it saves.
<1>18. ASSUME Reliable(g), NEW e \in ReportKeys, e \notin {rest[i] : i \in DOMAIN rest}, NEW k \in Kinds
       PROVE  Covered(e, k)
  <2>1. gen[g].pc \in Past[k]
    BY <1>0, KindFacts
  <2>2. e \notin LeftTo(g) \/ Current(g) = e
    BY <1>3, <1>18
  <2> QED BY <1>0, <1>18, <2>1, <2>2 DEF AllCovered
\* A row that is being filled goes on being filled, this one apart.
<1>19. \A i \in DOMAIN reports : i # r /\ (\E h \in Generators : Filling(h, i)) => \E h \in Generators : Filling(h, i)'
  BY <1>13 DEF Filling
<1>20. ASSUME Reliable(g), NEW i \in DOMAIN reports, i # r, NEW k \in Kinds, reports[i][k] = NoFile,
              reports[i].dept \notin {rest[j] : j \in DOMAIN rest}
       PROVE  \E h \in Generators : Filling(h, i)'
  <2>1. reports[i].dept \notin LeftTo(g) \/ (Current(g) = reports[i].dept /\ gen[g].pc # "get")
    BY <1>0, <1>3, <1>20
  <2> QED BY <1>0, <1>19, <1>20, <2>1 DEF AllFilled
\* A run that is reliable afterwards was so before, or this run began after every cut
\* and has done everything.
<1>21. rhist.cut \in BOOLEAN /\ (Reliable(g) <=> (~rhist.cut \/ ~gen[g].old))
  BY <1>0 DEF WeeklyTypes, Reliable
<1>22. /\ ~rhist'.cut => ~rhist.cut \/ (Reliable(g) /\ rest = <<>>)
       /\ \A h \in Generators \ {g} : Reliable(h)' => Reliable(h) \/ (Reliable(g) /\ rest = <<>>)
       /\ Reliable(g)' => Reliable(g) /\ rest # <<>> /\ LeftTo(g)' = {rest[i] : i \in DOMAIN rest} /\ gen'[g].pc = "get"
  <2>1. ~rhist'.cut => ~rhist.cut \/ (Reliable(g) /\ rest = <<>>)
    BY <1>11, <1>21
  <2>2. ASSUME NEW h \in Generators \ {g}, Reliable(h)' PROVE Reliable(h) \/ (Reliable(g) /\ rest = <<>>)
    <3>1. gen'[h] = gen[h]
      BY <1>13
    <3> QED BY <2>1, <2>2, <3>1 DEF Reliable
  <2>3. ASSUME Reliable(g)' PROVE Reliable(g) /\ rest # <<>> /\ LeftTo(g)' = {rest[i] : i \in DOMAIN rest} /\ gen'[g].pc = "get"
    <3>1. gen'[g] = x /\ x.pc # "idle"
      BY <1>10, <2>3 DEF Reliable
    <3>2. rest # <<>> /\ x.pc = "get" /\ x.todo = rest /\ x.old = gen[g].old
      BY <1>9, <3>1
    <3>3. ~rhist'.cut \/ ~gen[g].old
      BY <2>3, <3>1, <3>2 DEF Reliable
    <3>4. Reliable(g)
      BY <1>21, <2>1, <3>2, <3>3
    <3>5. LeftTo(g)' = {rest[i] : i \in DOMAIN rest}
      BY <3>1, <3>2 DEF LeftTo
    <3> QED BY <3>1, <3>2, <3>4, <3>5
  <2> QED BY <2>1, <2>2, <2>3
<1>23. rest = <<>> => \A e : e \notin {rest[i] : i \in DOMAIN rest}
  OBVIOUS
<1> HIDE DEF rest
<1>24. AllCovered'
  <2>1. ASSUME NEW e \in ReportKeys, NEW k \in Kinds, ~rhist'.cut,
               NEW i \in DOMAIN reports, reports'[i].dept = e, reports'[i][k] # NoFile
        PROVE  Covered(e, k)'
    <3>1. CASE Reliable(g) /\ rest = <<>>
      BY <1>17, <1>18, <1>23, <3>1
    <3>2. CASE ~rhist.cut
      <4>1. CASE i = r
        <5>1. Reliable(g) /\ e = d /\ gen[g].pc \in Past[k]
          BY <1>0, <1>1, <1>8, <1>21, <2>1, <3>2, <4>1, KindFacts
        <5> QED BY <1>0, <1>17, <5>1 DEF AllCovered
      <4>2. CASE i # r
        <5>1. reports'[i] = reports[i]
          BY <1>8, <4>2
        <5> QED BY <1>0, <1>17, <2>1, <3>2, <5>1 DEF AllCovered
      <4> QED BY <4>1, <4>2
    <3> QED BY <1>22, <2>1, <3>1, <3>2
  <2>2. ASSUME NEW e \in ReportKeys, NEW k \in Kinds, NEW h \in Generators, Reliable(h)',
               e \notin LeftTo(h)' \/ (Current(h)' = e /\ gen'[h].pc \in Past[k])
        PROVE  Covered(e, k)'
    <3>1. CASE Reliable(g) /\ rest = <<>>
      BY <1>17, <1>18, <1>23, <3>1
    <3>2. CASE h # g /\ Reliable(h)
      <4>1. e \notin LeftTo(h) \/ (Current(h) = e /\ gen[h].pc \in Past[k])
        BY <1>13, <2>2, <3>2
      <4> QED BY <1>0, <1>17, <3>2, <4>1 DEF AllCovered
    <3>3. CASE h = g
      <4>1. Reliable(g) /\ LeftTo(g)' = {rest[i] : i \in DOMAIN rest} /\ gen'[g].pc = "get"
        BY <1>22, <2>2, <3>3
      <4>2. "get" \notin Past[k]
        BY FreshRun
      <4>3. e \notin {rest[i] : i \in DOMAIN rest}
        BY <2>2, <3>3, <4>1, <4>2
      <4> QED BY <1>17, <1>18, <4>1, <4>3
    <3> QED BY <1>22, <2>2, <3>1, <3>2, <3>3
  <2> QED BY <1>8, <2>1, <2>2 DEF AllCovered
<1>25. AllFilled'
  <2> SUFFICES ASSUME NEW i \in DOMAIN reports, NEW k \in Kinds, reports'[i][k] = NoFile
               PROVE  /\ ~rhist'.cut => \E h \in Generators : Filling(h, i)'
                      /\ \A h \in Generators :
                           /\ Reliable(h)'
                           /\ reports'[i].dept \notin LeftTo(h)' \/ (Current(h)' = reports'[i].dept /\ gen'[h].pc # "get")
                           => \E w \in Generators : Filling(w, i)'
    BY <1>8 DEF AllFilled
  <2>1. i # r /\ reports[i][k] = NoFile /\ reports'[i].dept = reports[i].dept
    BY <1>7, <1>8
  <2>2. Reliable(g) /\ rest = <<>> => \E h \in Generators : Filling(h, i)'
    BY <1>20, <1>23, <2>1
  <2>3. ~rhist'.cut => \E h \in Generators : Filling(h, i)'
    BY <1>0, <1>19, <1>22, <2>1, <2>2 DEF AllFilled
  <2>4. ASSUME NEW h \in Generators, Reliable(h)',
               reports'[i].dept \notin LeftTo(h)' \/ (Current(h)' = reports'[i].dept /\ gen'[h].pc # "get")
        PROVE  \E w \in Generators : Filling(w, i)'
    <3>1. CASE h # g /\ Reliable(h)
      <4>1. reports[i].dept \notin LeftTo(h) \/ (Current(h) = reports[i].dept /\ gen[h].pc # "get")
        BY <1>13, <2>1, <2>4, <3>1
      <4> QED BY <1>0, <1>19, <2>1, <3>1, <4>1 DEF AllFilled
    <3>2. CASE h = g
      <4>1. Reliable(g) /\ LeftTo(g)' = {rest[j] : j \in DOMAIN rest} /\ gen'[g].pc = "get"
        BY <1>22, <2>4, <3>2
      <4> QED BY <1>20, <2>1, <2>4, <3>2, <4>1
    <3> QED BY <1>22, <2>2, <2>4, <3>1, <3>2
  <2> QED BY <2>3, <2>4
<1> QED BY <1>12, <1>14, <1>15, <1>16, <1>24, <1>25 DEF WeeklyInv

\* A cut: what is under way has been so since before it.
LEMMA WeeklyStops ==
  ASSUME WeeklyInv, NEW g \in Generators, Stop(g), UNCHANGED <<reports, files>>, rhist'.cut,
         rhist' \in [cut : BOOLEAN, byCommand : BOOLEAN, cuts : Nat, runs : Nat]
  PROVE  WeeklyInv'
<1>0. WeeklyTypes /\ RunShape /\ OneRowEach /\ SuffixedStay
  BY DEF WeeklyInv
<1>1. ASSUME NEW h \in Generators
      PROVE  \/ gen'[h] = NoGen
             \/ /\ gen'[h] \in GenShape /\ gen'[h].old = TRUE
                /\ gen'[h].pc = gen[h].pc /\ gen'[h].todo = gen[h].todo /\ gen'[h].row = gen[h].row
                /\ gen'[h].csv = gen[h].csv /\ gen'[h].pdf = gen[h].pdf /\ gen'[h].pc # "idle"
  <2>1. gen[h] \in GenShape
    BY <1>0 DEF WeeklyTypes
  <2>2. gen'[h] = NoGen \/ (gen[h] # NoGen /\ gen'[h] = [gen[h] EXCEPT !.old = TRUE])
    BY DEF Stop
  <2>3. gen[h] # NoGen => gen[h].pc # "idle"
    BY <1>0 DEF RunShape
  <2> DEFINE y == gen[h]
  <2>4. y \in GenShape /\ (gen'[h] = NoGen \/ (y # NoGen /\ gen'[h] = [y EXCEPT !.old = TRUE])) /\ (y # NoGen => y.pc # "idle")
    BY <2>1, <2>2, <2>3
  <2> HIDE DEF y
  <2>5. gen'[h] = [y EXCEPT !.old = TRUE] => /\ gen'[h] \in GenShape /\ gen'[h].old = TRUE
                /\ gen'[h].pc = y.pc /\ gen'[h].todo = y.todo /\ gen'[h].row = y.row
                /\ gen'[h].csv = y.csv /\ gen'[h].pdf = y.pdf
    BY <2>4, OldSet
  <2> QED BY <2>4, <2>5 DEF y
<1>2. NoGen \in GenShape /\ NoGen.csv = NoFile /\ NoGen.pdf = NoFile /\ NoGen.pc = "idle"
  BY DEF NoGen, GenShape, FileSlots
<1>3. WeeklyTypes'
  <2>1. gen' = [h \in Generators |-> gen'[h]]
    BY DEF Stop
  <2>2. \A h \in Generators : gen'[h] \in GenShape
    BY <1>1, <1>2
  <2>3. gen' \in [Generators -> GenShape]
    BY <2>1, <2>2
  <2> QED BY <1>0, <2>3 DEF WeeklyTypes
<1>4. \A h \in Generators : ~Reliable(h)'
  <2>1. \A h \in Generators : gen'[h].pc = "idle" \/ gen'[h].old = TRUE
    BY <1>1, <1>2
  <2> QED BY <2>1 DEF Reliable
<1>5. AllCovered' /\ AllFilled'
  BY <1>4 DEF AllCovered, AllFilled
<1>6. RunShape'
  <2> SUFFICES ASSUME NEW h \in Generators
               PROVE  /\ gen'[h].pc = "idle" <=> gen'[h] = NoGen
                      /\ gen'[h].pc # "idle" => gen'[h].todo # <<>>
                      /\ gen'[h].pc \in HasRow => /\ gen'[h].row \in DOMAIN reports
                                                   /\ reports[gen'[h].row].dept = Current(h)'
                      /\ gen'[h].pc \in {"pdf", "save pdf", "save"} => gen'[h].csv # NoFile
                      /\ gen'[h].pc = "save" => gen'[h].pdf # NoFile
    BY DEF RunShape
  <2>1. CASE gen'[h] = NoGen
    BY <1>2, <2>1 DEF HasRow
  <2>2. CASE gen'[h] # NoGen
    <3>1. /\ gen'[h].pc = gen[h].pc /\ gen'[h].todo = gen[h].todo /\ gen'[h].row = gen[h].row
          /\ gen'[h].csv = gen[h].csv /\ gen'[h].pdf = gen[h].pdf /\ gen'[h].pc # "idle"
      BY <1>1, <2>2
    <3>2. Current(h)' = Current(h)
      BY <3>1 DEF Current
    <3> QED BY <1>0, <2>2, <3>1, <3>2 DEF RunShape
  <2> QED BY <2>1, <2>2
<1>7. OneRowEach'
  BY <1>0 DEF OneRowEach
<1>8. SuffixedStay'
  <2>1. ASSUME NEW h \in Generators, NEW k \in Kinds, gen'[h][k] \notin {NoFile, 0}
        PROVE  <<Current(h)', k, gen'[h][k]>> \in files
    <3>1. NoGen[k] = NoFile
      BY <1>2, KindFacts
    <3>2. /\ gen'[h].todo = gen[h].todo /\ gen'[h].csv = gen[h].csv /\ gen'[h].pdf = gen[h].pdf
      BY <1>1, <2>1, <3>1
    <3>3. gen'[h][k] = gen[h][k] /\ Current(h)' = Current(h)
      BY <3>2, KindFacts DEF Current
    <3> QED BY <1>0, <2>1, <3>3 DEF SuffixedStay
  <2> QED BY <1>0, <2>1 DEF SuffixedStay
<1> QED BY <1>3, <1>5, <1>6, <1>7, <1>8 DEF WeeklyInv

LEMMA CutNoted ==
  ASSUME NEW b \in BOOLEAN, NEW r \in [cut : BOOLEAN, byCommand : BOOLEAN, cuts : Nat, runs : Nat],
         NEW q, q = [r EXCEPT !.cut = TRUE, !.byCommand = b, !.cuts = r.cuts + 1]
  PROVE  q.cut /\ q \in [cut : BOOLEAN, byCommand : BOOLEAN, cuts : Nat, runs : Nat]
<1>1. r.cuts + 1 \in Nat
  OBVIOUS
<1>2. q.cut
  OBVIOUS
<1> QED BY <1>1, <1>2

LEMMA WeeklyStep == WeeklyInv /\ [ReportNext]_reportVars => WeeklyInv'
<1> SUFFICES ASSUME WeeklyInv, [ReportNext]_reportVars PROVE WeeklyInv'
  OBVIOUS
<1>1. ASSUME NEW g \in Generators, report_get_raises(g) PROVE WeeklyInv'
  <2>1. rhist'.cut /\ rhist' \in [cut : BOOLEAN, byCommand : BOOLEAN, cuts : Nat, runs : Nat]
    BY <1>1 DEF report_get_raises, WeeklyInv, WeeklyTypes
  <2> QED BY <1>1, <2>1, WeeklyStops DEF report_get_raises
<1>2. ASSUME NEW g \in Generators, generate_cut(g) PROVE WeeklyInv'
  <2>1. rhist'.cut /\ rhist' \in [cut : BOOLEAN, byCommand : BOOLEAN, cuts : Nat, runs : Nat]
    <3> DEFINE b == rhist.byCommand \/ g = Command
    <3>1. rhist' = [rhist EXCEPT !.cut = TRUE, !.byCommand = b, !.cuts = rhist.cuts + 1] /\ b \in BOOLEAN
      BY <1>2 DEF generate_cut
    <3> HIDE DEF b
    <3>2. rhist \in [cut : BOOLEAN, byCommand : BOOLEAN, cuts : Nat, runs : Nat]
      BY DEF WeeklyInv, WeeklyTypes
    <3> QED BY <3>1, <3>2, CutNoted
  <2> QED BY <1>2, <2>1, WeeklyStops DEF generate_cut
<1>3. CASE UNCHANGED reportVars
  <2>1. WeeklyTypes' /\ OneRowEach'
    BY <1>3 DEF reportVars, WeeklyInv, WeeklyTypes, OneRowEach
  <2>2. RunShape' /\ SuffixedStay'
    BY <1>3 DEF reportVars, WeeklyInv, RunShape, SuffixedStay, Current
  <2>3. AllCovered'
    <3>1. \A h \in Generators : (Reliable(h)' => Reliable(h)) /\ LeftTo(h)' = LeftTo(h) /\ Current(h)' = Current(h)
      BY <1>3 DEF reportVars, Reliable, LeftTo, Current
    <3>2. \A e, k : Covered(e, k) => Covered(e, k)'
      BY <1>3, <3>1 DEF reportVars, Covered
    <3> QED BY <1>3, <3>1, <3>2 DEF reportVars, WeeklyInv, AllCovered
  <2>4. AllFilled'
    BY <1>3 DEF reportVars, WeeklyInv, AllFilled, Filling, Reliable, LeftTo, Current
  <2> QED BY <2>1, <2>2, <2>3, <2>4 DEF WeeklyInv
<1> QED BY <1>1, <1>2, <1>3, WeeklyStarts, WeeklyGets, WeeklyInserts, WeeklyDeletes, WeeklySaves, WeeklyRowSaved
        DEF ReportNext, GenerateStep

\* With nobody generating and no run cut since the last complete one, both files of every
\* stored report are there, whatever runs overlapped and were cut before (ops/reports.py:
\* _save_overwrite deletes the file and saves it again with no lock).
THEOREM ReportFilesKept == BackSpec => []ReportFilesThere
<1>1. WeeklyInv => ReportFilesThere
  <2> SUFFICES ASSUME WeeklyInv, Quiet, ~rhist.cut, NEW i \in DOMAIN reports, NEW k \in Kinds
               PROVE  Stored(i, k)
    BY DEF ReportFilesThere, Downloadable, ifo_weekly_download, dean_weekly_download, weekly_reports
  <2>1. \A h \in Generators : gen[h].pc = "idle"
    BY DEF Quiet, NoGen
  <2>2. \A h \in Generators : gen[h].pc # Saving[k] /\ ~Filling(h, i)
    BY <2>1, KindFacts DEF Filling, HasRow
  <2>3. reports[i][k] # NoFile
    BY <2>2 DEF WeeklyInv, AllFilled
  <2>4. reports[i].dept \in ReportKeys
    BY RowDept DEF WeeklyInv
  <2>5. <<reports[i].dept, k, 0>> \in files
    BY <2>2, <2>3, <2>4 DEF WeeklyInv, AllCovered, Covered
  <2> QED BY <2>3, <2>5 DEF WeeklyInv, SuffixedStay, Stored
<1> QED BY <1>1, WeeklyBegan, WeeklyTurns, WeeklyBegins, WeeklyStep, PTL DEF BackSpec

-----------------------------------------------------------------------------
(***************************************************************************)
(* The offering import (Offerings).  The report and the importer read a    *)
(* row's meetings alike, so the buckets are the importer's own cases; a    *)
(* commit leaves every key, room and teacher of the file behind, so a      *)
(* later one, also for one building, finds them.                           *)
(***************************************************************************)
LEMMA ImageOf ==
  ASSUME NEW S, IsFiniteSet(S), NEW f
  PROVE  LET T == {f[x] : x \in S}
         IN  /\ IsFiniteSet(T) /\ Cardinality(T) <= Cardinality(S)
             /\ (\A x, y \in S : f[x] = f[y] => x = y) => Cardinality(T) = Cardinality(S)
<1> DEFINE T == {f[x] : x \in S}
           g == [x \in S |-> f[x]]
<1>1. g \in Surjection(S, T)
  BY DEF Surjection
<1>2. (\A x, y \in S : f[x] = f[y] => x = y) => g \in Injection(S, T)
  BY DEF Injection, IsInjective
<1> HIDE DEF g, T
<1>3. /\ IsFiniteSet(T) /\ Cardinality(T) <= Cardinality(S)
      /\ Cardinality(T) = Cardinality(S) <=> g \in Injection(S, T)
  BY <1>1, FS_Surjection
<1> QED BY <1>2, <1>3 DEF T

LEMMA OfferingBegan == BackInit => OfferingInit
  BY DEF BackInit

LEMMA OfferingTurns == [BackNext]_backVars => [OfferingNext]_offeringVars
  BY DEF backVars, BackNext, RosterTurn, PushTurn, JobTurn, WeeklyTurn, CampusTurn, ImportTurn,
         PagesTurn, PeopleTurn, ImportRests

\* The rows of a file: sequences of rows whose cells are sequences of meetings.
WellRead(rows) == IsSequence(rows) /\ \A i \in DOMAIN rows : IsSequence(rows[i].sched)

LEMMA SequenceDomain ==
  ASSUME NEW s, IsSequence(s)
  PROVE  Len(s) \in Nat /\ DOMAIN s = 1..Len(s) /\ IsFiniteSet(DOMAIN s) /\ Cardinality(DOMAIN s) = Len(s)
<1>1. Len(s) \in Nat /\ DOMAIN s = 1..Len(s)
  BY DEF IsSequence
<1>2. 1 \in Int /\ Len(s) \in Int
  BY <1>1
<1>3. IsFiniteSet(1..Len(s)) /\ Cardinality(1..Len(s)) = IF 1 > Len(s) THEN 0 ELSE Len(s) - 1 + 1
  BY <1>2, FS_Interval
<1> QED BY <1>1, <1>3

\* The report and the importer read a row's meetings alike.
LEMMA SameMeetings == ASSUME NEW row PROVE ReconcileMeetings(row) = RealMeetings(row)
  BY DEF ReconcileMeetings, RealMeetings, import_meetings

LEMMA WholeScope == ASSUME NEW row PROVE InScope(row, NoValue) = RealMeetings(row)
  BY DEF InScope, OffScope

LEMMA EmptyCell == ASSUME NEW row, row.sched = <<>> PROVE RealMeetings(row) = {} /\ import_meetings(row) = {}
  BY DEF RealMeetings, import_meetings

\* What the importer plans for a row that has meetings in scope, and for one that has none.
LEMMA PlannedReal ==
  ASSUME NEW row, NEW only, InScope(row, only) # {}
  PROVE  /\ DOMAIN planned(row, only) = InScope(row, only)
         /\ \A k \in InScope(row, only) : planned(row, only)[k] = ScheduleRow(row, row.sched[k], row.sched[k].room)
<1>1. row.sched # <<>>
  BY EmptyCell DEF InScope
<1> QED BY <1>1 DEF planned

LEMMA PlannedNone ==
  ASSUME NEW row, NEW only, InScope(row, only) = {}
  PROVE  /\ only # NoValue => DOMAIN planned(row, only) = {}
         /\ DOMAIN planned(row, only) \subseteq import_meetings(row) \ RealMeetings(row)
         /\ \A k \in DOMAIN planned(row, only) :
              planned(row, only)[k] = ScheduleRow(row, row.sched[k], IF row.mode = "online" THEN "VTBA" ELSE "TBA")
<1>1. DOMAIN <<>> = {}
  OBVIOUS
<1> QED BY <1>1 DEF planned

LEMMA PlannedPlaces == ASSUME NEW row, NEW only PROVE DOMAIN planned(row, only) \subseteq DOMAIN row.sched
<1>1. InScope(row, only) \subseteq DOMAIN row.sched /\ import_meetings(row) \subseteq DOMAIN row.sched
  BY DEF InScope, RealMeetings, import_meetings
<1> QED BY <1>1, PlannedReal, PlannedNone

\* A file has finitely many places.
LEMMA EntriesFinite == ASSUME NEW rows, WellRead(rows), NEW only PROVE IsFiniteSet(AllEntries(rows, only))
<1> DEFINE part == [i \in DOMAIN rows |-> {i} \X DOMAIN planned(rows[i], only)]
<1>1. AllEntries(rows, only) = UNION {part[i] : i \in DOMAIN rows}
  BY DEF AllEntries
<1>2. IsFiniteSet(DOMAIN rows)
  BY SequenceDomain DEF WellRead
<1>3. ASSUME NEW i \in DOMAIN rows PROVE IsFiniteSet(part[i])
  <2>1. IsFiniteSet(DOMAIN planned(rows[i], only))
    BY PlannedPlaces, SequenceDomain, FS_Subset DEF WellRead
  <2>2. IsFiniteSet({i})
    BY FS_Singleton
  <2> QED BY <2>1, <2>2, FS_Product
<1> HIDE DEF part
<1>4. IsFiniteSet({part[i] : i \in DOMAIN rows})
  BY <1>2, ImageOf
<1> QED BY <1>1, <1>3, <1>4, FS_UNION

LEMMA EntryPlace ==
  ASSUME NEW rows, NEW only, NEW p
  PROVE  p \in AllEntries(rows, only) <=>
           \E i \in DOMAIN rows : \E k \in DOMAIN planned(rows[i], only) : p = <<i, k>>
  BY DEF AllEntries

\* Four sets that share nothing and make up a finite set.
LEMMA FourParts ==
  ASSUME NEW S, IsFiniteSet(S), NEW A, NEW B, NEW C, NEW D, S = A \union B \union C \union D,
         A \cap B = {}, A \cap C = {}, A \cap D = {}, B \cap C = {}, B \cap D = {}, C \cap D = {}
  PROVE  Cardinality(A) + Cardinality(B) + Cardinality(C) + Cardinality(D) = Cardinality(S)
<1>1. IsFiniteSet(A) /\ IsFiniteSet(B) /\ IsFiniteSet(C) /\ IsFiniteSet(D)
  BY FS_Subset
<1>2. Cardinality({}) = 0
  BY FS_EmptySet
<1> DEFINE AB == A \union B
           CD == C \union D
<1>3. IsFiniteSet(AB) /\ Cardinality(AB) = Cardinality(A) + Cardinality(B) - Cardinality(A \cap B)
  BY <1>1, FS_Union
<1>4. IsFiniteSet(CD) /\ Cardinality(CD) = Cardinality(C) + Cardinality(D) - Cardinality(C \cap D)
  BY <1>1, FS_Union
<1>5. Cardinality(AB \union CD) = Cardinality(AB) + Cardinality(CD) - Cardinality(AB \cap CD)
  BY <1>3, <1>4, FS_Union
<1>6. AB \cap CD = {} /\ AB \union CD = S
  OBVIOUS
<1>7. Cardinality(A) \in Nat /\ Cardinality(B) \in Nat /\ Cardinality(C) \in Nat /\ Cardinality(D) \in Nat
  BY <1>1, FS_CardinalityType
<1> HIDE DEF AB, CD
<1>8. /\ Cardinality(A \cap B) = 0 /\ Cardinality(C \cap D) = 0 /\ Cardinality(AB \cap CD) = 0
      /\ Cardinality(AB \union CD) = Cardinality(S)
  BY <1>2, <1>6
<1> QED BY <1>3, <1>4, <1>5, <1>7, <1>8

\* The buckets of a row.
LEMMA Buckets ==
  ASSUME NEW row
  PROVE  /\ bucket(row) = "no_schedule" <=> row.sched = <<>>
         /\ bucket(row) = "intact" <=> RealMeetings(row) # {}
         /\ bucket(row) = "roomless_tba" <=> row.sched # <<>> /\ RealMeetings(row) = {} /\ row.mode # "online"
         /\ bucket(row) = "online_no_room" <=> row.sched # <<>> /\ RealMeetings(row) = {} /\ row.mode = "online"
         /\ bucket(row) \in {"no_schedule", "intact", "roomless_tba", "online_no_room"}
  BY SameMeetings, EmptyCell DEF bucket

LEMMA BucketsPartition ==
  ASSUME NEW rows, IsSequence(rows)
  PROVE  Cardinality(InBucket(rows, "no_schedule")) + Cardinality(InBucket(rows, "intact"))
           + Cardinality(InBucket(rows, "roomless_tba")) + Cardinality(InBucket(rows, "online_no_room")) = Len(rows)
<1>1. IsFiniteSet(DOMAIN rows) /\ Cardinality(DOMAIN rows) = Len(rows)
  BY SequenceDomain
<1> DEFINE S == DOMAIN rows
           A == InBucket(rows, "no_schedule")
           B == InBucket(rows, "intact")
           C == InBucket(rows, "roomless_tba")
           D == InBucket(rows, "online_no_room")
<1>2. S = A \union B \union C \union D
  BY Buckets DEF InBucket
<1>3. /\ A \cap B = {} /\ A \cap C = {} /\ A \cap D = {} /\ B \cap C = {} /\ B \cap D = {} /\ C \cap D = {}
  BY DEF InBucket
<1>4. IsFiniteSet(S)
  BY <1>1
<1> HIDE DEF S, A, B, C, D
<1>5. Cardinality(A) + Cardinality(B) + Cardinality(C) + Cardinality(D) = Cardinality(S)
  BY <1>2, <1>3, <1>4, FourParts
<1> QED BY <1>1, <1>5 DEF S, A, B, C, D

\* The rows a run counts as without a schedule or without a room.
LEMMA CountedAlike ==
  ASSUME NEW rows
  PROVE  /\ Stats(rows, NoValue).skip_no_schedule = reconcile(rows).no_schedule
         /\ Stats(rows, NoValue).tba_rows = reconcile(rows).roomless
         /\ Stats(rows, NoValue).online_rows = reconcile(rows).online
<1>1. {i \in DOMAIN rows : rows[i].sched = <<>>} = InBucket(rows, "no_schedule")
  BY Buckets DEF InBucket
<1>2. {i \in DOMAIN rows : (rows[i].sched # <<>> /\ NoValue = NoValue /\ RealMeetings(rows[i]) = {}) /\ rows[i].mode # "online"}
        = InBucket(rows, "roomless_tba")
  BY Buckets DEF InBucket
<1>3. {i \in DOMAIN rows : (rows[i].sched # <<>> /\ NoValue = NoValue /\ RealMeetings(rows[i]) = {}) /\ rows[i].mode = "online"}
        = InBucket(rows, "online_no_room")
  BY Buckets DEF InBucket
<1> QED BY <1>1, <1>2, <1>3 DEF Stats, reconcile

\* An intact row is planned with the meetings the report counted, in the rooms it listed;
\* any other with placeholders.
LEMMA IntactPlanned ==
  ASSUME NEW row
  PROVE  /\ bucket(row) = "intact" => /\ DOMAIN planned(row, NoValue) = ReconcileMeetings(row)
                                      /\ \A k \in ReconcileMeetings(row) : planned(row, NoValue)[k].room = row.sched[k].room
         /\ bucket(row) # "intact" => /\ ReconcileMeetings(row) = {}
                                      /\ \A k \in DOMAIN planned(row, NoValue) : planned(row, NoValue)[k].room \in {"TBA", "VTBA"}
<1>1. InScope(row, NoValue) = ReconcileMeetings(row) /\ (bucket(row) = "intact" <=> InScope(row, NoValue) # {})
  BY SameMeetings, WholeScope, Buckets
<1>2. \A m, room : ScheduleRow(row, m, room).room = room
  BY DEF ScheduleRow
<1> QED BY <1>1, <1>2, PlannedReal, PlannedNone

LEMMA RoomsListed ==
  ASSUME NEW rows
  PROVE  /\ reconcile(rows).rooms \subseteq Stats(rows, NoValue).rooms
         /\ Stats(rows, NoValue).rooms \subseteq reconcile(rows).rooms \union {"TBA", "VTBA"}
<1> DEFINE listed == UNION {{rows[i].sched[k].room : k \in ReconcileMeetings(rows[i])} : i \in DOMAIN rows}
           used == {EntryAt(rows, NoValue, p).room : p \in AllEntries(rows, NoValue)}
<1>1. \A i \in DOMAIN rows : \A k \in DOMAIN planned(rows[i], NoValue) :
        <<i, k>> \in AllEntries(rows, NoValue) /\ EntryAt(rows, NoValue, <<i, k>>) = planned(rows[i], NoValue)[k]
  BY EntryPlace DEF EntryAt
<1>2. listed \subseteq used
  <2> SUFFICES ASSUME NEW i \in DOMAIN rows, NEW k \in ReconcileMeetings(rows[i])
               PROVE  rows[i].sched[k].room \in used
    OBVIOUS
  <2>1. k \in DOMAIN planned(rows[i], NoValue) /\ planned(rows[i], NoValue)[k].room = rows[i].sched[k].room
    BY IntactPlanned
  <2> QED BY <1>1, <2>1
<1>3. used \subseteq listed \union {"TBA", "VTBA"}
  <2> SUFFICES ASSUME NEW p \in AllEntries(rows, NoValue)
               PROVE  EntryAt(rows, NoValue, p).room \in listed \union {"TBA", "VTBA"}
    OBVIOUS
  <2>1. PICK i \in DOMAIN rows : \E k \in DOMAIN planned(rows[i], NoValue) : p = <<i, k>>
    BY EntryPlace
  <2>2. PICK k \in DOMAIN planned(rows[i], NoValue) : p = <<i, k>>
    BY <2>1
  <2>3. EntryAt(rows, NoValue, p) = planned(rows[i], NoValue)[k]
    BY <1>1, <2>2
  <2>4. CASE bucket(rows[i]) = "intact"
    BY <2>3, <2>4, IntactPlanned
  <2>5. CASE bucket(rows[i]) # "intact"
    BY <2>3, <2>5, IntactPlanned
  <2> QED BY <2>4, <2>5
<1> HIDE DEF listed, used
<1>4. reconcile(rows).rooms = listed /\ Stats(rows, NoValue).rooms = used
  BY DEF reconcile, Stats, listed, used
<1> QED BY <1>2, <1>3, <1>4

LEMMA MeetingsCounted ==
  ASSUME NEW rows
  PROVE  UNION {{i} \X ReconcileMeetings(rows[i]) : i \in DOMAIN rows}
           = {p \in AllEntries(rows, NoValue) : p[1] \in InBucket(rows, "intact")}
<1> DEFINE L == UNION {{i} \X ReconcileMeetings(rows[i]) : i \in DOMAIN rows}
           R == {p \in AllEntries(rows, NoValue) : p[1] \in InBucket(rows, "intact")}
<1>1. ASSUME NEW p \in L PROVE p \in R
  <2>1. PICK i \in DOMAIN rows : p \in {i} \X ReconcileMeetings(rows[i])
    OBVIOUS
  <2>2. p = <<i, p[2]>> /\ p[1] = i /\ p[2] \in ReconcileMeetings(rows[i])
    BY <2>1
  <2>3. bucket(rows[i]) = "intact" /\ p[2] \in DOMAIN planned(rows[i], NoValue)
    BY <2>2, IntactPlanned
  <2> QED BY <2>2, <2>3, EntryPlace DEF InBucket
<1>2. ASSUME NEW p \in R PROVE p \in L
  <2>1. PICK i \in DOMAIN rows : \E k \in DOMAIN planned(rows[i], NoValue) : p = <<i, k>>
    BY <1>2, EntryPlace
  <2>2. PICK k \in DOMAIN planned(rows[i], NoValue) : p = <<i, k>>
    BY <2>1
  <2>3. bucket(rows[i]) = "intact"
    BY <1>2, <2>2 DEF InBucket
  <2> QED BY <2>2, <2>3, IntactPlanned
<1> QED BY <1>1, <1>2

\* What the imports so far have left, and what the dry run on the page was computed from.
TeachersOf(rows, only) == {account_of(rows[i]) : i \in {n \in DOMAIN rows : DOMAIN planned(rows[n], only) # {}}}
ImportRecord == [created : Nat, only : {NoValue, "R"}]

OfferingGiven ==
  /\ offering = <<>> \/ offering \in Files
  /\ (imported # <<>> \/ announced.only # "untold") => offering # <<>>
  /\ imported \in Seq(ImportRecord) /\ (imported = <<>> => DOMAIN timetable = {})

AnnouncedFrom ==
  announced.only = "untold" \/ announced = [stats |-> Stats(offering, announced.only), only |-> announced.only]

ImportsLeft ==
  \A i \in DOMAIN imported :
    /\ Keys(offering, imported[i].only) \subseteq DOMAIN timetable
    /\ TeachersOf(offering, imported[i].only) \subseteq accounts
    /\ Stats(offering, imported[i].only).rooms \subseteq importedRooms
    /\ imported[i].created <= Cardinality(Keys(offering, imported[i].only))
    /\ i = 1 => imported[i].created = Cardinality(Keys(offering, imported[i].only))

AgainAddsNothing ==
  \A i, j \in DOMAIN imported :
    i < j /\ imported[i].only \in {imported[j].only, NoValue} => imported[j].created = 0

OfferingInv == OfferingGiven /\ AnnouncedFrom /\ ImportsLeft /\ AgainAddsNothing

LEMMA OfferingRead == ASSUME offering = <<>> \/ offering \in Files PROVE WellRead(offering)
<1>1. CASE offering = <<>>
  <2>1. IsSequence(<<>>) /\ DOMAIN <<>> = {}
    BY DEF IsSequence
  <2> QED BY <1>1, <2>1 DEF WellRead
<1>2. CASE offering \in Files
  BY <1>2, OfferingConstants DEF WellRead
<1> QED BY <1>1, <1>2

\* The keys of a file are finitely many, no more than its places, and as many when no two
\* places share one.
LEMMA KeysCounted ==
  ASSUME NEW rows, WellRead(rows), NEW only
  PROVE  /\ IsFiniteSet(Keys(rows, only)) /\ Cardinality(Keys(rows, only)) \in Nat
         /\ Cardinality(AllEntries(rows, only)) \in Nat
         /\ Cardinality(Keys(rows, only)) <= Cardinality(AllEntries(rows, only))
         /\ (\A p, q \in AllEntries(rows, only) :
               RowKey(EntryAt(rows, only, p)) = RowKey(EntryAt(rows, only, q)) => p = q)
              => Cardinality(Keys(rows, only)) = Cardinality(AllEntries(rows, only))
<1> DEFINE S == AllEntries(rows, only)
           f == [p \in S |-> RowKey(EntryAt(rows, only, p))]
<1>1. IsFiniteSet(S) /\ Cardinality(S) \in Nat
  BY EntriesFinite, FS_CardinalityType
<1>2. Keys(rows, only) = {f[p] : p \in S}
  BY DEF Keys
<1>3. (\A p, q \in S : RowKey(EntryAt(rows, only, p)) = RowKey(EntryAt(rows, only, q)) => p = q)
        => \A p, q \in S : f[p] = f[q] => p = q
  OBVIOUS
<1> HIDE DEF S, f
<1>4. /\ IsFiniteSet(Keys(rows, only)) /\ Cardinality(Keys(rows, only)) <= Cardinality(S)
      /\ (\A p, q \in S : f[p] = f[q] => p = q) => Cardinality(Keys(rows, only)) = Cardinality(S)
  BY <1>1, <1>2, ImageOf
<1>5. Cardinality(Keys(rows, only)) \in Nat
  BY <1>4, FS_CardinalityType
<1> QED BY <1>1, <1>3, <1>4, <1>5 DEF S

\* A run for one building plans nothing a run for the whole file does not.
LEMMA ScopedKeys == ASSUME NEW rows, NEW only PROVE Keys(rows, only) \subseteq Keys(rows, NoValue)
<1> SUFFICES ASSUME NEW p \in AllEntries(rows, only), only # NoValue
             PROVE  p \in AllEntries(rows, NoValue) /\ EntryAt(rows, NoValue, p) = EntryAt(rows, only, p)
  BY DEF Keys
<1>1. PICK i \in DOMAIN rows : \E k \in DOMAIN planned(rows[i], only) : p = <<i, k>>
  BY EntryPlace
<1>2. PICK k \in DOMAIN planned(rows[i], only) : p = <<i, k>>
  BY <1>1
<1> DEFINE row == rows[i]
<1>3. InScope(row, only) # {}
  BY <1>2, PlannedNone
<1>4. k \in InScope(row, only)
  BY <1>2, <1>3, PlannedReal
<1>5. InScope(row, only) \subseteq InScope(row, NoValue)
  <2>1. InScope(row, only) \subseteq RealMeetings(row)
    BY DEF InScope
  <2> QED BY <2>1, WholeScope
<1>6. k \in DOMAIN planned(row, NoValue) /\ planned(row, NoValue)[k] = planned(row, only)[k]
  <2>1. k \in InScope(row, NoValue)
    BY <1>4, <1>5
  <2> HIDE DEF row
  <2>2. planned(row, only)[k] = ScheduleRow(row, row.sched[k], row.sched[k].room)
    BY <1>4, PlannedReal
  <2>3. k \in DOMAIN planned(row, NoValue) /\ planned(row, NoValue)[k] = ScheduleRow(row, row.sched[k], row.sched[k].room)
    BY <2>1, PlannedReal
  <2> QED BY <2>2, <2>3
<1> QED BY <1>2, <1>6, EntryPlace DEF EntryAt

LEMMA OfferingBegins == OfferingInit => OfferingInv
<1> SUFFICES ASSUME OfferingInit PROVE OfferingInv
  OBVIOUS
<1>1. offering = <<>> /\ imported = <<>> /\ DOMAIN timetable = {} /\ announced.only = "untold" /\ DOMAIN imported = {}
  BY DEF OfferingInit
<1>2. imported \in Seq(ImportRecord)
  BY <1>1
<1> QED BY <1>1, <1>2 DEF OfferingInv, OfferingGiven, AnnouncedFrom, ImportsLeft, AgainAddsNothing

LEMMA OfferingReads == ASSUME OfferingInv, NEW f \in Files, read_file(f) PROVE OfferingInv'
<1>1. imported = <<>> /\ announced.only = "untold"
  BY DEF OfferingInv, OfferingGiven, read_file
<1>2. /\ offering' \in Files /\ imported' = <<>> /\ announced'.only = "untold"
      /\ DOMAIN timetable' = {}
  BY <1>1 DEF OfferingInv, OfferingGiven, read_file
<1>3. DOMAIN imported' = {} /\ imported' \in Seq(ImportRecord) /\ offering' # <<>>
  BY <1>2, OfferingConstants
<1> QED BY <1>2, <1>3 DEF OfferingInv, OfferingGiven, AnnouncedFrom, ImportsLeft, AgainAddsNothing

LEMMA OfferingPreviews == ASSUME OfferingInv, NEW only \in {NoValue, "R"}, preview_file(only) PROVE OfferingInv'
<1>1. /\ announced' = [stats |-> Stats(offering, only), only |-> only] /\ offering # <<>>
      /\ UNCHANGED <<offering, timetable, accounts, importedRooms, imported>>
  BY DEF preview_file
<1>2. announced'.only = only
  BY <1>1
<1>3. OfferingGiven'
  BY <1>1 DEF OfferingInv, OfferingGiven
<1>4. AnnouncedFrom'
  BY <1>1, <1>2 DEF AnnouncedFrom
<1>5. ImportsLeft'
  BY <1>1 DEF OfferingInv, ImportsLeft
<1>6. AgainAddsNothing'
  BY <1>1 DEF OfferingInv, AgainAddsNothing
<1> QED BY <1>3, <1>4, <1>5, <1>6 DEF OfferingInv

LEMMA OfferingImports == ASSUME OfferingInv, NEW only \in {NoValue, "R"}, import_file(only) PROVE OfferingInv'
<1> DEFINE keys == Keys(offering, only)
           n == Len(imported)
           x == [created |-> new_rows(timetable, keys), only |-> only]
<1>1. /\ DOMAIN timetable' = DOMAIN timetable \union keys
      /\ accounts' = accounts \union TeachersOf(offering, only)
      /\ importedRooms' = importedRooms \union Stats(offering, only).rooms
      /\ imported' = Append(imported, x) /\ offering # <<>> /\ offering' = offering /\ announced' = announced
  BY DEF import_file, TeachersOf
<1>2. WellRead(offering)
  BY OfferingRead DEF OfferingInv, OfferingGiven
<1>3. IsFiniteSet(keys) /\ Cardinality(keys) \in Nat
  BY <1>2, KeysCounted
<1>4. /\ IsFiniteSet(keys \ DOMAIN timetable) /\ Cardinality(keys \ DOMAIN timetable) <= Cardinality(keys)
      /\ Cardinality(keys \ DOMAIN timetable) \in Nat
  BY <1>3, FS_Subset, FS_CardinalityType
<1>5. /\ x.created = Cardinality(keys \ DOMAIN timetable) /\ x.only = only /\ x \in ImportRecord
  BY <1>4 DEF new_rows, ImportRecord
<1> HIDE DEF x, keys
<1>6. /\ imported \in Seq(ImportRecord) /\ n \in Nat /\ DOMAIN imported = 1..n
      /\ imported' \in Seq(ImportRecord) /\ DOMAIN imported' = 1..(n + 1) /\ imported' # <<>>
      /\ imported'[n + 1] = x /\ \A i \in 1..n : imported'[i] = imported[i]
  BY <1>1, <1>5 DEF OfferingInv, OfferingGiven
<1>7. OfferingGiven'
  BY <1>1, <1>6 DEF OfferingInv, OfferingGiven
<1>8. AnnouncedFrom'
  BY <1>1 DEF OfferingInv, AnnouncedFrom
<1>9. ASSUME NEW i \in 1..n, imported[i].only \in {only, NoValue} PROVE x.created = 0
  <2>1. keys \subseteq Keys(offering, imported[i].only)
    BY <1>9, ScopedKeys DEF keys
  <2>2. keys \ DOMAIN timetable = {}
    BY <1>6, <2>1 DEF OfferingInv, ImportsLeft
  <2> QED BY <1>5, <2>2, FS_EmptySet
<1>10. ASSUME NEW i \in 1..(n + 1)
       PROVE  /\ Keys(offering, imported'[i].only) \subseteq DOMAIN timetable'
              /\ TeachersOf(offering, imported'[i].only) \subseteq accounts'
              /\ Stats(offering, imported'[i].only).rooms \subseteq importedRooms'
              /\ imported'[i].created <= Cardinality(Keys(offering, imported'[i].only))
              /\ i = 1 => imported'[i].created = Cardinality(Keys(offering, imported'[i].only))
  <2>1. CASE i \in 1..n
    <3>1. imported'[i] = imported[i] /\ i \in DOMAIN imported
      BY <1>6, <2>1
    <3> QED BY <1>1, <3>1 DEF OfferingInv, ImportsLeft
  <2>2. CASE i = n + 1
    <3>1. imported'[i] = x
      BY <1>6, <2>2
    <3>2. i = 1 => keys \ DOMAIN timetable = keys
      BY <1>6, <2>2 DEF OfferingInv, OfferingGiven
    <3> QED BY <1>1, <1>4, <1>5, <3>1, <3>2 DEF keys
  <2> QED BY <1>6, <2>1, <2>2
<1>11. ImportsLeft'
  BY <1>1, <1>6, <1>10 DEF ImportsLeft
<1>12. AgainAddsNothing'
  <2> SUFFICES ASSUME NEW i \in 1..(n + 1), NEW j \in 1..(n + 1), i < j,
                      imported'[i].only \in {imported'[j].only, NoValue}
               PROVE  imported'[j].created = 0
    BY <1>6 DEF AgainAddsNothing
  <2>1. i \in 1..n /\ imported'[i] = imported[i]
    BY <1>6
  <2>2. CASE j \in 1..n
    BY <1>6, <2>1, <2>2 DEF OfferingInv, AgainAddsNothing
  <2>3. CASE j = n + 1
    BY <1>5, <1>6, <1>9, <2>1, <2>3
  <2> QED BY <1>6, <2>2, <2>3
<1> QED BY <1>7, <1>8, <1>11, <1>12 DEF OfferingInv

LEMMA OfferingStep == OfferingInv /\ [OfferingNext]_offeringVars => OfferingInv'
<1> SUFFICES ASSUME OfferingInv, [OfferingNext]_offeringVars PROVE OfferingInv'
  OBVIOUS
<1>1. CASE UNCHANGED offeringVars
  BY <1>1 DEF offeringVars, OfferingInv, OfferingGiven, AnnouncedFrom, ImportsLeft, AgainAddsNothing
<1> QED BY <1>1, OfferingReads, OfferingPreviews, OfferingImports DEF OfferingNext

\* Every row of an uploaded file is in one bucket of the reconciliation report, and the
\* importer plans what the report says, for any file (importing.py: "nothing is ever
\* silently dropped").
THEOREM RowsReconciled == BackSpec => []RowsAccounted
<1>1. OfferingInv => RowsAccounted
  <2> SUFFICES ASSUME OfferingInv PROVE RowsAccounted
    OBVIOUS
  <2> DEFINE rec == reconcile(offering)
             s == Stats(offering, NoValue)
             intact == InBucket(offering, "intact")
  <2>1. IsSequence(offering)
    BY OfferingRead DEF OfferingInv, OfferingGiven, WellRead
  <2>2. rec.no_schedule + rec.intact + rec.roomless + rec.online = rec.total
    BY <2>1, BucketsPartition DEF reconcile
  <2>3. s.skip_no_schedule = rec.no_schedule /\ s.tba_rows = rec.roomless /\ s.online_rows = rec.online
    BY CountedAlike
  <2>4. rec.rooms \subseteq s.rooms /\ s.rooms \subseteq rec.rooms \union {"TBA", "VTBA"}
    BY RoomsListed
  <2>5. \A i \in intact : DOMAIN planned(offering[i], NoValue) = ReconcileMeetings(offering[i])
    BY IntactPlanned DEF InBucket
  <2>6. rec.meetings = Cardinality({p \in AllEntries(offering, NoValue) : p[1] \in intact})
    BY MeetingsCounted DEF reconcile
  <2> HIDE DEF rec, s, intact
  <2> QED BY <2>2, <2>3, <2>4, <2>5, <2>6 DEF RowsAccounted, rec, s, intact
<1> QED BY <1>1, OfferingBegan, OfferingTurns, OfferingBegins, OfferingStep, PTL DEF BackSpec

\* A commit does what the dry run of the same file and building announced, and importing
\* a file again adds no schedule, for any file and any number of imports
\* (import_offerings.py: the counts of a dry run, and get_or_create).
THEOREM PreviewHonoured == BackSpec => []PreviewTrue
<1>1. OfferingInv => PreviewTrue
  <2> SUFFICES ASSUME OfferingInv PROVE PreviewTrue
    OBVIOUS
  <2>1. WellRead(offering)
    BY OfferingRead DEF OfferingInv, OfferingGiven
  <2>2. ASSUME NEW i \in DOMAIN imported, announced.only = imported[i].only
        PROVE  /\ imported[i].created <= announced.stats.schedules
               /\ announced.stats.faculty \subseteq accounts
               /\ announced.stats.rooms \subseteq importedRooms
               /\ (i = 1 /\ \A p, q \in AllEntries(offering, announced.only) :
                     RowKey(EntryAt(offering, announced.only, p)) = RowKey(EntryAt(offering, announced.only, q)) => p = q)
                    => imported[i].created = announced.stats.schedules
    <3> DEFINE only == imported[i].only
               s == Stats(offering, only)
    <3>1. only \in {NoValue, "R"} /\ imported[i].created \in Nat
      <4>1. imported[i] \in ImportRecord
        BY DEF OfferingInv, OfferingGiven
      <4> QED BY <4>1 DEF ImportRecord
    <3>2. announced.stats = s
      <4>1. only # "untold"
        BY <3>1 DEF NoValue
      <4>2. announced = [stats |-> Stats(offering, announced.only), only |-> announced.only]
        BY <2>2, <4>1 DEF OfferingInv, AnnouncedFrom
      <4> QED BY <2>2, <4>2
    <3>3. s.schedules = Cardinality(AllEntries(offering, only)) /\ s.faculty = TeachersOf(offering, only)
      BY DEF Stats, TeachersOf, faculty_key, account_of
    <3> HIDE DEF s
    <3>4. /\ TeachersOf(offering, only) \subseteq accounts /\ s.rooms \subseteq importedRooms
          /\ imported[i].created <= Cardinality(Keys(offering, only))
          /\ i = 1 => imported[i].created = Cardinality(Keys(offering, only))
      BY DEF OfferingInv, ImportsLeft, s
    <3> HIDE DEF only
    <3>5. /\ Cardinality(Keys(offering, only)) \in Nat /\ Cardinality(AllEntries(offering, only)) \in Nat
          /\ Cardinality(Keys(offering, only)) <= Cardinality(AllEntries(offering, only))
          /\ (\A p, q \in AllEntries(offering, only) :
               RowKey(EntryAt(offering, only, p)) = RowKey(EntryAt(offering, only, q)) => p = q)
              => Cardinality(Keys(offering, only)) = Cardinality(AllEntries(offering, only))
      BY <2>1, KeysCounted
    <3>6. announced.only = only
      BY <2>2 DEF only
    <3> QED BY <3>1, <3>2, <3>3, <3>4, <3>5, <3>6
  <2>3. AgainAddsNothing
    BY DEF OfferingInv
  <2> QED BY <2>2, <2>3 DEF PreviewTrue, AgainAddsNothing
<1> QED BY <1>1, OfferingBegan, OfferingTurns, OfferingBegins, OfferingStep, PTL DEF BackSpec
=============================================================================
