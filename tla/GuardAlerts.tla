----------------------------- MODULE GuardAlerts ----------------------------
(***************************************************************************)
(* The guards' floor alerts (ops/guard_alerts.py).  One run of the sweep   *)
(* job collects, in memory, the floor of every session it marks absent and *)
(* of every conflict it flags, and then tells each guard on duty once what *)
(* happened on the floors posted to.  The marks are saved one by one and   *)
(* the batch is not: a run that dies takes its batch along.                *)
(***************************************************************************)
EXTENDS Integers, FiniteSets

CONSTANTS
  GuardUsers, GuardFloors,
  Posting0,         \* postings at the start: [who, floors, from, to]
  PostingForms,     \* postings the office may add
  MaxSweeps,        \* bound on the runs
  MaxFloorEvents,   \* bound on what happens on a floor, per kind
  LastGuardTime     \* the clock's bound

ASSUME GuardConstants ==
  /\ Posting0 \union PostingForms \subseteq [who : GuardUsers, floors : SUBSET GuardFloors, from : Nat, to : Nat]
  /\ LastGuardTime \in Nat /\ MaxSweeps \in Nat /\ MaxFloorEvents \in Nat

EventKinds == {"absent", "conflict"}
Nothing == [k \in EventKinds |-> 0]
NoTally == [f \in GuardFloors |-> Nothing]

VARIABLES
  gposts,    \* active FLOOR-scope Assignment rows of guards
  enabled,   \* users with is_active
  gclock,    \* the time of day
  sweeping,  \* the job: idle, sweeping, flagging, or telling the guards still to tell
  events,    \* the collector of the run, tallied by floor and kind
  happened,  \* absences and conflicts on record, by floor and kind
  told,      \* by guard: alerts received, and what they add up to
  ghist      \* runs begun, and whether one was cut

guardVars == <<gposts, enabled, gclock, sweeping, events, happened, told, ghist>>

NotSweeping == [phase |-> "idle", todo |-> {}]

GuardInit ==
  /\ gposts = Posting0 /\ enabled = GuardUsers /\ gclock = 0
  /\ sweeping = NotSweeping /\ events = NoTally /\ happened = NoTally
  /\ told = [g \in GuardUsers |-> [alerts |-> 0, sum |-> NoTally]]
  /\ ghist = [runs |-> 0, cut |-> FALSE]

-----------------------------------------------------------------------------
\* Mutant: the collector is kept from run to run.
sweep_start_kept ==
  /\ sweeping.phase = "idle" /\ ghist.runs < MaxSweeps
  /\ sweeping' = [NotSweeping EXCEPT !.phase = "sweeping"]
  /\ ghist' = [ghist EXCEPT !.runs = @ + 1]
  /\ UNCHANGED <<events, gposts, enabled, gclock, happened, told>>

sweep_start ==
  /\ sweeping.phase = "idle" /\ ghist.runs < MaxSweeps
  /\ sweeping' = [NotSweeping EXCEPT !.phase = "sweeping"] /\ events' = NoTally
  /\ ghist' = [ghist EXCEPT !.runs = @ + 1]
  /\ UNCHANGED <<gposts, enabled, gclock, happened, told>>

\* A session is marked absent, then a conflict is flagged, each in its transaction,
\* and its floor is appended to the collector.
collect(kind, f) ==
  /\ sweeping.phase = IF kind = "absent" THEN "sweeping" ELSE "flagging"
  /\ happened[f][kind] < MaxFloorEvents
  /\ happened' = [happened EXCEPT ![f][kind] = @ + 1]
  /\ events' = [events EXCEPT ![f][kind] = @ + 1]
  /\ UNCHANGED <<gposts, enabled, gclock, sweeping, told, ghist>>

sweep_done ==
  /\ sweeping.phase = "sweeping"
  /\ sweeping' = [sweeping EXCEPT !.phase = "flagging"]
  /\ UNCHANGED <<gposts, enabled, gclock, events, happened, told, ghist>>

-----------------------------------------------------------------------------
\* assignment_covers_now: a standing posting, or a shift with the time in its window.
OnDuty(p) == p.from <= gclock /\ gclock <= p.to
Tallied == {f \in GuardFloors : events[f] # Nothing}

\* One entry per guard, with the floors of all their postings that have something.
per_user ==
  LET here == {p \in gposts : p.who \in enabled /\ OnDuty(p) /\ p.floors \cap Tallied # {}}
  IN  {[who |-> g, floors |-> UNION {p.floors \cap Tallied : p \in {x \in here : x.who = g}}] :
         g \in {p.who : p \in here}}

\* The batch is tallied and the postings are read; a quiet run stops here.
notify_floor_guards ==
  /\ sweeping.phase = "flagging"
  /\ sweeping' = IF per_user = {} THEN NotSweeping ELSE [phase |-> "telling", todo |-> per_user]
  /\ UNCHANGED <<gposts, enabled, gclock, events, happened, told, ghist>>

\* The alert's totals, floor by floor.
summarize_floor_events(floors) ==
  [f \in GuardFloors |-> IF f \in floors THEN events[f] ELSE Nothing]

Plus(a, b) == [f \in GuardFloors |-> [k \in EventKinds |-> a[f][k] + b[f][k]]]

tell_guard(e) ==
  /\ sweeping.phase = "telling" /\ e \in sweeping.todo
  /\ told' = [told EXCEPT ![e.who] = [alerts |-> @.alerts + 1,
                                      sum |-> Plus(@.sum, summarize_floor_events(e.floors))]]
  /\ sweeping' = IF sweeping.todo = {e} THEN NotSweeping ELSE [sweeping EXCEPT !.todo = @ \ {e}]
  /\ UNCHANGED <<gposts, enabled, gclock, events, happened, ghist>>

\* The process dies, or the job raises: what was marked stays, the batch is gone.
sweep_cut ==
  /\ sweeping # NotSweeping /\ sweeping' = NotSweeping
  /\ ghist' = [ghist EXCEPT !.cut = TRUE]
  /\ UNCHANGED <<gposts, enabled, gclock, events, happened, told>>

-----------------------------------------------------------------------------
\* Meanwhile the office posts guards, an account is disabled, time passes.
post_guard(p) ==
  /\ p \notin gposts /\ gposts' = gposts \union {p}
  /\ UNCHANGED <<enabled, gclock, sweeping, events, happened, told, ghist>>

guard_disabled(g) ==
  /\ g \in enabled /\ enabled' = enabled \ {g}
  /\ UNCHANGED <<gposts, gclock, sweeping, events, happened, told, ghist>>

guard_clock ==
  /\ gclock < LastGuardTime /\ gclock' = gclock + 1
  /\ UNCHANGED <<gposts, enabled, sweeping, events, happened, told, ghist>>

GuardNext ==
  \/ sweep_start
  \/ \E f \in GuardFloors, k \in EventKinds : collect(k, f)
  \/ sweep_done \/ notify_floor_guards \/ (\E e \in sweeping.todo : tell_guard(e)) \/ sweep_cut
  \/ (\E p \in PostingForms : post_guard(p)) \/ (\E g \in GuardUsers : guard_disabled(g))
  \/ guard_clock

-----------------------------------------------------------------------------
\* A guard posted to a floor, all day, since the start.
Standing(g, f) ==
  g \in enabled /\ \E p \in Posting0 : /\ p.who = g /\ f \in p.floors
                                       /\ p.from = 0 /\ p.to = LastGuardTime

\* Whatever postings a guard has, and however runs die and begin again, no absence or
\* conflict is told to a guard twice and a run alerts a guard at most once; and between
\* runs, if none was cut, a guard standing on a floor has been told of all of it.
FloorsAlerted ==
  \A g \in GuardUsers :
    /\ told[g].alerts <= ghist.runs
    /\ \A f \in GuardFloors, k \in EventKinds :
         /\ told[g].sum[f][k] <= happened[f][k]
         /\ sweeping = NotSweeping /\ ~ghist.cut /\ Standing(g, f) => told[g].sum[f][k] = happened[f][k]
=============================================================================
