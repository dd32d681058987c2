----------------------------- MODULE Backoffice -----------------------------
(***************************************************************************)
(* The desks around the sessions: the online roster, notifications and     *)
(* push, the job runner, the weekly reports, the campus, the import, the   *)
(* report pages and the live board, the guards' alerts, the identity       *)
(* photos, the board and the shift form in the browser.  They share no row *)
(* they write, so a behaviour follows one of them, `desk`, while the       *)
(* others rest: every interleaving within a desk is there, and no product  *)
(* of independent desks.                                                   *)
(***************************************************************************)
EXTENDS OnlineRoster, PushOutbox, JobRunner, WeeklyReports, CampusDesk, ImportDesk,
        Offerings, ReportScope, ReportPages, GuardAlerts, ProfilePhoto, BoardPage, ShiftForm

VARIABLE desk

Desks == {"roster", "push", "reading", "jobs", "weekly", "campus", "import", "offerings",
          "scope", "pages", "guards", "photo", "board", "form"}

backVars == <<desk, rosterVars, pushVars, jobVars, reportVars, campusVars, importVars,
              offeringVars, scopeVars, reportingVars, guardVars, photoVars, boardVars, formVars>>

BackInit ==
  /\ desk \in Desks
  /\ RosterInit /\ PushInit /\ JobInit /\ ReportInit /\ CampusInit /\ ImportInit
  /\ OfferingInit /\ ScopeInit /\ ReportingInit /\ GuardInit /\ PhotoInit
  /\ BoardInit /\ FormInit

\* What rests while one desk works.
RosterRests   == UNCHANGED rosterVars
PushRests     == UNCHANGED pushVars
JobsRest      == UNCHANGED jobVars
WeeklyRests   == UNCHANGED reportVars
CampusRests   == UNCHANGED campusVars
ImportRests   == UNCHANGED <<importVars, offeringVars>>
PagesRest     == UNCHANGED <<scopeVars, reportingVars>>
PeopleRest    == UNCHANGED <<guardVars, photoVars, boardVars, formVars>>

AtDesk(d) == desk = d /\ UNCHANGED desk

RosterTurn(A) ==
  /\ AtDesk("roster") /\ A
  /\ PushRests /\ JobsRest /\ WeeklyRests /\ CampusRests /\ ImportRests /\ PagesRest /\ PeopleRest
PushTurn(d, A) ==
  /\ AtDesk(d) /\ A
  /\ RosterRests /\ JobsRest /\ WeeklyRests /\ CampusRests /\ ImportRests /\ PagesRest /\ PeopleRest
JobTurn(A) ==
  /\ AtDesk("jobs") /\ A
  /\ RosterRests /\ PushRests /\ WeeklyRests /\ CampusRests /\ ImportRests /\ PagesRest /\ PeopleRest
WeeklyTurn(A) ==
  /\ AtDesk("weekly") /\ A
  /\ RosterRests /\ PushRests /\ JobsRest /\ CampusRests /\ ImportRests /\ PagesRest /\ PeopleRest
CampusTurn(A) ==
  /\ AtDesk("campus") /\ A
  /\ RosterRests /\ PushRests /\ JobsRest /\ WeeklyRests /\ ImportRests /\ PagesRest /\ PeopleRest
ImportTurn(d, A) ==
  /\ AtDesk(d) /\ A
  /\ RosterRests /\ PushRests /\ JobsRest /\ WeeklyRests /\ CampusRests /\ PagesRest /\ PeopleRest
PagesTurn(d, A) ==
  /\ AtDesk(d) /\ A
  /\ RosterRests /\ PushRests /\ JobsRest /\ WeeklyRests /\ CampusRests /\ ImportRests /\ PeopleRest
PeopleTurn(d, A) ==
  /\ AtDesk(d) /\ A
  /\ RosterRests /\ PushRests /\ JobsRest /\ WeeklyRests /\ CampusRests /\ ImportRests /\ PagesRest

BackNext ==
  \/ RosterTurn(RosterNext)
  \/ PushTurn("push", PushNext) \/ PushTurn("reading", ReadNext)
  \/ JobTurn(JobNext)
  \/ WeeklyTurn(ReportNext)
  \/ CampusTurn(CampusNext)
  \/ ImportTurn("import", ImportNext /\ UNCHANGED offeringVars)
  \/ ImportTurn("offerings", OfferingNext /\ UNCHANGED importVars)
  \/ PagesTurn("scope", ScopeNext /\ UNCHANGED reportingVars)
  \/ PagesTurn("pages", ReportingNext /\ UNCHANGED scopeVars)
  \/ PeopleTurn("guards", GuardNext /\ UNCHANGED <<photoVars, boardVars, formVars>>)
  \/ PeopleTurn("photo", PhotoNext /\ UNCHANGED <<guardVars, boardVars, formVars>>)
  \/ PeopleTurn("board", BoardNext /\ UNCHANGED <<guardVars, photoVars, formVars>>)
  \/ PeopleTurn("form", FormNext /\ UNCHANGED <<guardVars, photoVars, boardVars>>)

\* What keeps running: the outbox job of every minute, the watchdog's cron entry and
\* the clock, a generation that has begun, and the service manager's restart.
BackFairness ==
  /\ \A d \in {"push", "reading"} : WF_pushVars(PushTurn(d, OutboxStep))
  /\ WF_jobVars(JobTurn(checkscheduler)) /\ WF_jobVars(JobTurn(job_tick))
  /\ \A g \in Generators : WF_reportVars(WeeklyTurn(GenerateStep(g)))
  /\ WF_reportVars(WeeklyTurn(Backfilling))

BackSpec == BackInit /\ [][BackNext]_backVars /\ BackFairness
=============================================================================
