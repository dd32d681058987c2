----------------------------- MODULE ShiftForm ------------------------------
(***************************************************************************)
(* The teacher's shift request form in the browser (static/faculty/        *)
(* modality.js over web/faculty.py modality_new and modality_rooms): three *)
(* steps of one form, a room picker fetched when step 2 needs it, and a    *)
(* refused submission that replaces the whole form.  Fetches may be        *)
(* overtaken by the user's next choice, answered late, or lost; the office *)
(* drops classes and rooms are taken meanwhile.  The window, the new time  *)
(* and the summary's wording are left out.                                 *)
(***************************************************************************)
EXTENDS Integers

CONSTANTS
  FormClasses,    \* the teacher's classes
  FormRooms,      \* rooms a picker may offer
  Droppable,      \* classes the office may drop
  Contested,      \* classes at whose next meeting others take or leave rooms
  MaxFetches      \* bound on the fetches begun

NoRow == "no row"        \* the picker has no select for the class
AnyRoom == "any room"    \* "let the app decide"

\* Neither is a room's id.
ASSUME FormConstants == {NoRow, AnyRoom} \intersect FormRooms = {}

\* A picker's selects, and what a fetch asks for: for each class its preferred room.
NoRows == [c \in FormClasses |-> NoRow]

VARIABLES
  mine,      \* the teacher's active classes, on the server
  freeRooms, \* rooms free at the next meeting of each
  form,      \* step, classes listed and picked, target, picker, its options, lastRoomUrl
  fetch,     \* the fetch under way and the one queued behind it, each for this form or an
             \* earlier one; the number begun
  fhist      \* the teacher's last choice per class; chosen or lost while loading; dropped

formVars == <<mine, freeRooms, form, fetch, fhist>>

NoFetch == [rows |-> NoRows, live |-> FALSE]

Listed(cl, step, picks, target) ==
  [step |-> step, listed |-> cl, picks |-> picks, target |-> target, picker |-> NoRows,
   options |-> [c \in FormClasses |-> {}], lastRoomUrl |-> NoRows]

FormInit ==
  /\ mine = FormClasses /\ freeRooms = [c \in FormClasses |-> FormRooms]
  /\ form = Listed(mine, 1, {}, "f2f")
  /\ fetch = [flight |-> NoFetch, queued |-> NoFetch, begun |-> 0]
  /\ fhist = [want |-> NoRows, touched |-> FALSE, lost |-> FALSE, dropped |-> FALSE]

-----------------------------------------------------------------------------
\* Mutant: the fetch does not carry the rooms chosen so far.
rooms_url_plain(f) == [c \in FormClasses |-> IF c \in f.picks THEN AnyRoom ELSE NoRow]

\* The address of the picker: the picked classes with the rooms already chosen.
rooms_url(f) ==
  [c \in FormClasses |->
     IF c \notin f.picks THEN NoRow
     ELSE IF f.picker[c] \in FormRooms THEN f.picker[c] ELSE AnyRoom]

\* htmx sends one request at a time and keeps the last of those that wait.
enqueue(q, rows) ==
  LET new == [rows |-> rows, live |-> TRUE]
  IN  IF q.flight = NoFetch THEN [q EXCEPT !.flight = new, !.begun = @ + 1]
      ELSE [q EXCEPT !.queued = new, !.begun = @ + 1]

\* loadRooms, unless nothing is picked or the same address was asked for last.
loadRooms(f, q) ==
  LET url == rooms_url(f)
  IN  IF f.picks = {} \/ url = f.lastRoomUrl THEN form' = f /\ fetch' = q
      ELSE /\ q.begun < MaxFetches
           /\ form' = [f EXCEPT !.lastRoomUrl = url] /\ fetch' = enqueue(q, url)

syncConditional(f, q) ==
  IF f.target = "online" \/ f.step # 2 THEN form' = f /\ fetch' = q ELSE loadRooms(f, q)

-----------------------------------------------------------------------------
\* syncPicks: step 1 needs no picker yet.
pick(c) ==
  /\ form.step = 1 /\ c \in form.listed
  /\ form' = [form EXCEPT !.picks = IF c \in @ THEN @ \ {c} ELSE @ \union {c}]
  /\ UNCHANGED <<mine, freeRooms, fetch, fhist>>

form_next ==
  /\ form.step \in {1, 2} /\ (form.step = 1 => form.picks # {})
  /\ syncConditional([form EXCEPT !.step = @ + 1], fetch)
  /\ UNCHANGED <<mine, freeRooms, fhist>>

form_back ==
  /\ form.step \in {2, 3}
  /\ syncConditional([form EXCEPT !.step = @ - 1], fetch)
  /\ UNCHANGED <<mine, freeRooms, fhist>>

choose_target(t) ==
  /\ form.step = 2 /\ form.target # t
  /\ syncConditional([form EXCEPT !.target = t], fetch)
  /\ UNCHANGED <<mine, freeRooms, fhist>>

\* A room of the picker, which is shown for a target that needs one.
choose_room(c, r) ==
  /\ form.step = 2 /\ form.target # "online"
  /\ form.picker[c] \notin {NoRow, r} /\ r \in form.options[c] \union {AnyRoom}
  /\ form' = [form EXCEPT !.picker[c] = r]
  /\ fhist' = [fhist EXCEPT !.want[c] = r, !.touched = @ \/ fetch.flight # NoFetch]
  /\ UNCHANGED <<mine, freeRooms, fetch>>

-----------------------------------------------------------------------------
\* modality_rooms: a row for each asked class that is still the teacher's; a preference
\* that is no longer free is not among its options.
modality_rooms(rows) ==
  [c \in FormClasses |-> IF rows[c] = NoRow \/ c \notin mine THEN NoRow
                         ELSE IF rows[c] \in freeRooms[c] THEN rows[c] ELSE AnyRoom]

Dequeued(q) == [q EXCEPT !.flight = q.queued, !.queued = NoFetch]

\* The answer is swapped into the picker it was asked for.
rooms_answer ==
  LET got == modality_rooms(fetch.flight.rows)
  IN  /\ fetch.flight # NoFetch /\ fetch' = Dequeued(fetch)
      /\ IF fetch.flight.live
         THEN /\ form' = [form EXCEPT !.picker = got,
                            !.options = [c \in FormClasses |-> IF got[c] = NoRow THEN {} ELSE freeRooms[c]]]
              /\ fhist' = [fhist EXCEPT !.want =
                   [c \in FormClasses |-> IF got[c] = NoRow THEN NoRow
                                          ELSE IF @[c] \in freeRooms[c] THEN @[c] ELSE AnyRoom]]
         ELSE UNCHANGED <<form, fhist>>
      /\ UNCHANGED <<mine, freeRooms>>

rooms_lost ==
  /\ fetch.flight # NoFetch /\ fetch' = Dequeued(fetch)
  /\ fhist' = [fhist EXCEPT !.lost = @ \/ fetch.flight.live]
  /\ UNCHANGED <<mine, freeRooms, form>>

-----------------------------------------------------------------------------
\* The form rendered again with an error: the posted classes that are still listed, the
\* step the error belongs to, an empty picker.  Fetches of the old form go nowhere.
modality_form_again(step) ==
  LET orphan(x) == [x EXCEPT !.live = FALSE]
      q == [fetch EXCEPT !.flight = orphan(@), !.queued = orphan(@)]
  IN  IF mine = {} THEN form' = Listed({}, 0, {}, form.target) /\ fetch' = q
      ELSE syncConditional(Listed(mine, step, form.picks \intersect mine, form.target), q)

\* Refused for its dates or times before the classes are looked at, for its classes, or by
\* the service; or accepted, which leaves the page.
modality_new(ok) ==
  /\ form.step = 3
  /\ IF form.picks = {} THEN modality_form_again(1)
     ELSE \/ ~ok /\ modality_form_again(2)
          \/ ~(form.picks \subseteq mine) /\ modality_form_again(1)
          \/ ok /\ form.picks \subseteq mine /\ form' = Listed({}, 0, {}, form.target) /\ UNCHANGED fetch
  /\ fhist' = [fhist EXCEPT !.want = NoRows]
  /\ UNCHANGED <<mine, freeRooms>>

\* While the form is open the office drops a class, a room is taken or given back.
office_drops(c) ==
  /\ form.step # 0 /\ c \in mine \intersect Droppable /\ mine' = mine \ {c}
  /\ fhist' = [fhist EXCEPT !.dropped = TRUE]
  /\ UNCHANGED <<freeRooms, form, fetch>>

room_changes(c, r) ==
  /\ form.step # 0 /\ c \in Contested
  /\ freeRooms' = [freeRooms EXCEPT ![c] = IF r \in @ THEN @ \ {r} ELSE @ \union {r}]
  /\ UNCHANGED <<mine, form, fetch, fhist>>

FormNext ==
  \/ \E c \in FormClasses :
       \/ pick(c) \/ office_drops(c)
       \/ \E r \in FormRooms \union {AnyRoom} : choose_room(c, r)
       \/ \E r \in FormRooms : room_changes(c, r)
  \/ form_next \/ form_back \/ (\E t \in {"f2f", "online"} : choose_target(t))
  \/ rooms_answer \/ rooms_lost
  \/ \E ok \in BOOLEAN : modality_new(ok)

-----------------------------------------------------------------------------
\* Once every fetch has come back, step 2 shows a select for exactly the picked classes;
\* a fetch never resets a room that is still on offer, unless it was chosen while the
\* fetch was under way; and nobody is past step 1 without a class.  Excepted: a lost
\* fetch, whose address is not asked for again, and a class the office has dropped.
PickerFits ==
  /\ form.step = 2 /\ form.target # "online" /\ fetch.flight = NoFetch
       /\ ~fhist.lost /\ ~fhist.dropped
     => {c \in FormClasses : form.picker[c] # NoRow} = form.picks
  /\ ~fhist.touched => \A c \in FormClasses : fhist.want[c] \in FormRooms => form.picker[c] = fhist.want[c]
  /\ form.step \in {2, 3} /\ ~fhist.dropped => form.picks # {}
=============================================================================
