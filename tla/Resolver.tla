------------------------------ MODULE Resolver ------------------------------
(***************************************************************************)
(* The pure decision core shared by the web layer and the background jobs: *)
(* scheduling/resolver.py (the faculty scan resolver and the one no-show   *)
(* predicate), the merge key of scheduling/merge.py and the start ladder   *)
(* of web/faculty.py.  Nothing here reads the clock or the database        *)
(* on its own: the caller hands over the rows it has read and the time.    *)
(*                                                                         *)
(* Times are ticks of the minute clock; the policy windows are constants.  *)
(***************************************************************************)
EXTENDS Naturals, FiniteSets

CONSTANTS
  Sessions,    \* the session rows of one teaching day of the ACTIVE term
  FacultyOf,   \* [Sessions -> faculty member]
  Course,      \* [Sessions -> course code]
  Start,       \* [Sessions -> scheduled_start]
  End,         \* [Sessions -> scheduled_end]
  Online,      \* the sessions whose effective modality is online
  Grace,       \* policy grace_minutes
  EarlyEnd,    \* policy early_end_threshold_minutes
  OpenLead,    \* open_min, the lead of the check-in window
  None         \* the absent value (SQL NULL, Python None, a blank field)

ASSUME PolicyAssumption ==
  /\ Grace \in Nat /\ EarlyEnd \in Nat /\ OpenLead \in Nat
  /\ Start \in [Sessions -> Nat] /\ End \in [Sessions -> Nat]
  /\ Online \subseteq Sessions
  /\ None \notin Sessions

(***************************************************************************)
(* Outcomes of a faculty scan, and those that need a second, explicit      *)
(* confirmation.                                                           *)
(***************************************************************************)
Outcomes == {"checked-in", "checked-out", "absent", "too-early", "wrong-room",
             "room-occupied", "early-end", "online-reject", "no-schedule"}

CONFIRM_OUTCOMES == {"wrong-room", "room-occupied", "early-end"}

Resolution(outcome, s, prior) == [outcome |-> outcome, s |-> s, prior |-> prior]

-----------------------------------------------------------------------------
\* The one no-show predicate: strictly past start + grace.
is_no_show_past_grace(s, t) == t > Start[s] + Grace

\* A query ordered by scheduled_start gives one of the earliest rows first;
\* the database breaks ties as it likes.
FirstOf(S) == {s \in S : \A t \in S : Start[s] <= Start[t]}

\* A re-scan while one of the faculty member's sessions is active.
ActiveOutcome(rows, s, room, t) ==
  Resolution(IF rows[s].room # room THEN "wrong-room"
             ELSE IF t + EarlyEnd < End[s] THEN "early-end" ELSE "checked-out",
             s, None)

\* Mutant: the past-grace rung is missing.
ScheduledOutcome_no_grace(rows, s, room, occupying, t) ==
  IF s \in Online THEN Resolution("online-reject", s, None)
  ELSE IF rows[s].room # room THEN Resolution("wrong-room", s, None)
  ELSE IF occupying # None THEN Resolution("room-occupied", s, occupying)
  ELSE Resolution("checked-in", s, None)

\* A scan inside the check-in window of a scheduled session.
ScheduledOutcome(rows, s, room, occupying, t) ==
  IF s \in Online THEN Resolution("online-reject", s, None)
  ELSE IF rows[s].room # room THEN Resolution("wrong-room", s, None)
  ELSE IF is_no_show_past_grace(s, t) THEN Resolution("absent", s, None)
  ELSE IF occupying # None THEN Resolution("room-occupied", s, occupying)
  ELSE Resolution("checked-in", s, None)

(***************************************************************************)
(* The resolutions of a scan of room by the owner of the sessions mine, one *)
(* per order in which the database may return rows of equal start.         *)
(***************************************************************************)
resolve_faculty_scan(rows, mine, room, occupying, t) ==
  LET active    == {s \in mine : rows[s].status = "active"}
      scheduled == {s \in mine : rows[s].status = "scheduled"}
      window    == {s \in scheduled : Start[s] <= t + OpenLead /\ t <= End[s]}
      here      == {s \in window : rows[s].room = room}
      later     == {s \in scheduled : rows[s].room = room /\ t + OpenLead < Start[s]}
  IN  IF active # {} THEN {ActiveOutcome(rows, s, room, t) : s \in FirstOf(active)}
      ELSE IF window # {}
      THEN {ScheduledOutcome(rows, s, room, occupying, t) :
              s \in FirstOf(IF here # {} THEN here ELSE window)}
      ELSE IF later # {} THEN {Resolution("too-early", s, None) : s \in FirstOf(later)}
      ELSE {Resolution("no-schedule", None, None)}

-----------------------------------------------------------------------------
(***************************************************************************)
(* The merge key: one instructor holding one meeting for several sections. *)
(***************************************************************************)
merged_sibling_ids(rows, a) ==
  {c \in Sessions \ {a} :
     /\ FacultyOf[c] = FacultyOf[a]
     /\ Start[c] = Start[a]
     /\ \/ a \in Online /\ c \in Online
        \/ rows[c].room = rows[a].room
        \/ Course[c] = Course[a]}

-----------------------------------------------------------------------------
\* The ladder an online start request climbs (web/faculty.py).
OnlineStartAccepts(rows, s, t) ==
  /\ s \in Online
  /\ rows[s].status = "scheduled"
  /\ ~is_no_show_past_grace(s, t)
=============================================================================
