----------------------------- MODULE ReportScope ----------------------------
(***************************************************************************)
(* web/reporting_common.py: how a report page decides which days it shows. *)
(* A request names a term, a first and a last day and a day the numbers    *)
(* are as of, or leaves any of them out; every page's own links, pagers    *)
(* and exports then carry the scope the page settled on.  Days are         *)
(* numbered, a week starts on the multiples of seven.                      *)
(***************************************************************************)
EXTENDS Integers, FiniteSets, FiniteSetsExt

CONSTANTS TermStart, TermEnd,   \* the selected term's days
          DateInputs,               \* what may stand in a date field
          FirstDay, LastDayOfRun

\* A field may be left out, be no date at all, or be a date no calendar has (the
\* 30th of February): parse_date returns None for the second, raises for the third.
Omitted     == -1
Malformed  == -2
Impossible == -3

ASSUME ScopeConstants ==
  /\ {FirstDay, TermStart, TermEnd, LastDayOfRun} \subseteq Nat /\ DateInputs \subseteq Int
  /\ FirstDay <= TermStart /\ TermStart <= TermEnd /\ TermEnd < LastDayOfRun

VARIABLES clockDay,    \* today
          termStatus,  \* the term's status
          shownReport,       \* the scope of the page on screen, NoPage, or an error page
          followed     \* the page whose link led here

scopeVars == <<clockDay, termStatus, shownReport, followed>>

NoPage      == [kind |-> "none"]
ErrorPage(code) == [kind |-> "error", code |-> code]
ServerError == [kind |-> "raised"]

ScopeInit ==
  /\ clockDay = FirstDay /\ termStatus = "draft"
  /\ shownReport = NoPage /\ followed = NoPage

-----------------------------------------------------------------------------
clamp_day(d, lower, upper) == Min({Max({d, lower}), upper})

Given(x) == x >= 0
Ignored(x) == x = Malformed

\* reporting_range: the days asked for, else the current week up to today.
reporting_range(req) ==
  LET week  == clockDay - (clockDay % 7)
      bad   == Ignored(req.from) \/ Ignored(req.to)
      start == IF Given(req.from) /\ ~bad THEN req.from ELSE week
      end   == IF Given(req.to) /\ ~bad THEN req.to ELSE clockDay
  IN  IF start > end THEN <<week, clockDay>> ELSE <<start, end>>

default_window(req) ==
  IF req.page = "hr" THEN <<TermStart, TermEnd>> ELSE reporting_range(req)

\* A reversed default falls back to the whole term.
Defaults(req) ==
  LET w == IF termStatus = "active" THEN default_window(req) ELSE <<TermStart, TermEnd>>
      start == clamp_day(w[1], TermStart, TermEnd)
      end   == clamp_day(w[2], TermStart, TermEnd)
  IN  IF start > end THEN <<TermStart, TermEnd>> ELSE <<start, end>>

as_of_day(req, end) ==
  LET cap == Min({end, clockDay})
  IN  IF cap < TermStart THEN cap
      ELSE clamp_day(IF Given(req.as_of) THEN req.as_of ELSE cap, TermStart, cap)

selected_report_scope(req) ==
  LET def   == Defaults(req)
      start == clamp_day(IF Given(req.from) THEN req.from ELSE def[1], TermStart, TermEnd)
      end   == clamp_day(IF Given(req.to) THEN req.to ELSE def[2], TermStart, TermEnd)
      days  == IF start > end THEN def ELSE <<start, end>>
  IN  IF req.term = "unknown" THEN ErrorPage("invalid-term")
      ELSE IF req.term = "absent" /\ termStatus # "active" THEN ErrorPage("no-active-term")
      ELSE IF Impossible \in {req.from, req.to, req.as_of} THEN ServerError
      ELSE [kind |-> "report", start |-> days[1], end |-> days[2],
            as_of |-> as_of_day(req, days[2])]

\* Mutant: the links leave the as-of day out.
query_params_open(page, scope) ==
  [page |-> page, term |-> "given", from |-> scope.start, to |-> scope.end, as_of |-> Omitted]

\* The query a page's links carry, in whichever report's address it is used.
query_params(page, scope) ==
  [page |-> page, term |-> "given", from |-> scope.start, to |-> scope.end, as_of |-> scope.as_of]

-----------------------------------------------------------------------------
Requests == [page : {"dean", "hr"}, term : {"absent", "given", "unknown"},
             from : DateInputs, to : DateInputs, as_of : DateInputs]

open_report(req) ==
  /\ shownReport = NoPage
  /\ shownReport' = selected_report_scope(req)
  /\ UNCHANGED <<clockDay, termStatus, followed>>

follow_link(page) ==
  /\ shownReport.kind = "report" /\ followed = NoPage
  /\ followed' = shownReport
  /\ shownReport' = selected_report_scope(query_params(page, shownReport))
  /\ UNCHANGED <<clockDay, termStatus>>

day_passes ==
  /\ clockDay < LastDayOfRun
  /\ clockDay' = clockDay + 1
  /\ UNCHANGED <<termStatus, shownReport, followed>>

term_changes(status) ==
  /\ status # termStatus
  /\ termStatus' = status
  /\ UNCHANGED <<clockDay, shownReport, followed>>

ScopeNext ==
  \/ \E req \in Requests : open_report(req)
  \/ \E page \in {"dean", "hr"} : follow_link(page)
  \/ day_passes
  \/ \E status \in {"draft", "active", "closed"} : term_changes(status)

-----------------------------------------------------------------------------
\* Whatever is asked, a report shows an unreversed range of the term's own days, as
\* of a day that is not past the range nor in the future; and a link shared or followed
\* days later, after the term has closed or reopened, shows the same report, once the
\* term has begun.
ReportScopeKept ==
  /\ shownReport.kind = "report" =>
       /\ TermStart <= shownReport.start /\ shownReport.start <= shownReport.end /\ shownReport.end <= TermEnd
       /\ shownReport.as_of <= shownReport.end /\ shownReport.as_of <= clockDay
  /\ followed # NoPage /\ followed.as_of >= TermStart => shownReport = followed
=============================================================================
