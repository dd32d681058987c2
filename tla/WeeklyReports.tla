--------------------------- MODULE WeeklyReports ----------------------------
(***************************************************************************)
(* The stored reports of one week (ops/reports.py): a row per department   *)
(* and one for the roll-up, and a csv and a pdf file behind each row.  The *)
(* scheduler's job, its start-up backfill and the on-demand command run    *)
(* the same code with no lock between them; a file is deleted before it is *)
(* written again, outside any transaction.                                 *)
(***************************************************************************)
EXTENDS Integers, Sequences, FiniteSets, FiniteSetsExt

CONSTANTS
  ReportDepts,    \* departments with classes in the week, in generation order
  Scheduler, Command,   \* the two processes that may generate
  MaxSuffix, MaxRuns, MaxReportCuts   \* bounds of the instance

Rollup == "ALL"
ReportKeys == {ReportDepts[i] : i \in DOMAIN ReportDepts} \union {Rollup}
Kinds == {"csv", "pdf"}
NoFile == -1
Generators == {Scheduler, Command}
Saving == [csv |-> "save csv", pdf |-> "save pdf"]

ASSUME ReportAssumption ==
  /\ ReportDepts \in Seq({ReportDepts[i] : i \in DOMAIN ReportDepts})
  /\ Rollup \notin {ReportDepts[i] : i \in DOMAIN ReportDepts}
  /\ MaxSuffix \in Nat /\ MaxReportCuts \in Nat /\ MaxRuns \in Nat

VARIABLES
  reports,     \* WeeklyReport rows: their department, and the suffix of each path
  files,       \* default_storage: the names in use, <<department, kind, suffix>>
  gen,         \* what each generation has in hand
  backfill,    \* the scheduler process has died: its start runs the backfill
  rhist        \* history: a file may be missing since a run was cut

reportVars == <<reports, files, gen, backfill, rhist>>

NoGen == [pc |-> "idle", todo |-> <<>>, row |-> 0, csv |-> NoFile, pdf |-> NoFile,
          old |-> FALSE]

ReportInit ==
  /\ reports = <<>> /\ files = {}
  /\ gen = [g \in Generators |-> NoGen]
  /\ backfill = FALSE
  /\ rhist = [cut |-> FALSE, byCommand |-> FALSE, cuts |-> 0, runs |-> 0]

-----------------------------------------------------------------------------
RowsOf(d) == {i \in DOMAIN reports : reports[i].dept = d}
Duplicated == \E d \in ReportKeys : Cardinality(RowsOf(d)) > 1
Current(g) == Head(gen[g].todo)

\* Mutant: a week that has its roll-up is not generated again.
generate_week_reports_once(g) ==
  /\ gen[g] = NoGen /\ (rhist.runs < MaxRuns \/ (backfill /\ g = Scheduler))
  /\ RowsOf(Rollup) = {}
  /\ gen' = [gen EXCEPT ![g] = [NoGen EXCEPT !.pc = "get", !.todo = Append(ReportDepts, Rollup)]]
  /\ backfill' = (backfill /\ g # Scheduler)
  /\ rhist' = [rhist EXCEPT !.runs = IF backfill /\ g = Scheduler THEN @ ELSE @ + 1]
  /\ UNCHANGED <<reports, files>>

\* The scheduler's cron job or start-up backfill, or the command: the departments
\* first, the roll-up last.  `old` runs have been under way since before a cut.
generate_week_reports(g) ==
  /\ gen[g] = NoGen /\ (rhist.runs < MaxRuns \/ (backfill /\ g = Scheduler))
  /\ gen' = [gen EXCEPT ![g] = [NoGen EXCEPT !.pc = "get", !.todo = Append(ReportDepts, Rollup)]]
  /\ backfill' = (backfill /\ g # Scheduler)
  /\ rhist' = [rhist EXCEPT !.runs = IF backfill /\ g = Scheduler THEN @ ELSE @ + 1]
  /\ UNCHANGED <<reports, files>>

NextReport(g, rest) ==
  IF rest = <<>> THEN NoGen ELSE [NoGen EXCEPT !.pc = "get", !.todo = rest, !.old = gen[g].old]

\* The attendance rows are read, and the report row looked up.
report_get(g) ==
  LET found == RowsOf(Current(g))
  IN  /\ gen[g].pc = "get" /\ Cardinality(found) <= 1
      /\ gen' = [gen EXCEPT ![g] = IF found = {} THEN [@ EXCEPT !.pc = "insert"]
                                   ELSE [@ EXCEPT !.pc = "csv", !.row = CHOOSE i \in found : TRUE]]
      /\ UNCHANGED <<reports, files, backfill, rhist>>

Stop(g) == gen' = [h \in Generators |-> IF h = g \/ gen[h] = NoGen THEN NoGen
                                         ELSE [gen[h] EXCEPT !.old = TRUE]]

\* Two rows for one key: the lookup raises and the run is over.
report_get_raises(g) ==
  /\ gen[g].pc = "get" /\ Cardinality(RowsOf(Current(g))) > 1
  /\ Stop(g)
  /\ rhist' = [rhist EXCEPT !.cut = TRUE]
  /\ UNCHANGED <<reports, files, backfill>>

\* The constraint covers departments; NULL, the roll-up, may be inserted twice.
report_insert(g) ==
  LET d == Current(g)
  IN  /\ gen[g].pc = "insert"
      /\ IF d # Rollup /\ RowsOf(d) # {}
         THEN /\ gen' = [gen EXCEPT ![g].pc = "csv", ![g].row = CHOOSE i \in RowsOf(d) : TRUE]
              /\ UNCHANGED reports
         ELSE /\ reports' = Append(reports, [dept |-> d, csv |-> NoFile, pdf |-> NoFile])
              /\ gen' = [gen EXCEPT ![g].pc = "csv", ![g].row = Len(reports) + 1]
      /\ UNCHANGED <<files, backfill, rhist>>

-----------------------------------------------------------------------------
\* _save_overwrite: the file under the canonical name goes first.
save_overwrite_delete(g, k) ==
  /\ gen[g].pc = k
  /\ files' = files \ {<<Current(g), k, 0>>}
  /\ gen' = [gen EXCEPT ![g].pc = Saving[k]]
  /\ UNCHANGED <<reports, backfill, rhist>>

\* Then the new one is saved, under a suffixed name if the canonical one is taken.
save_overwrite_save(g, k) ==
  LET d    == Current(g)
      free == {s \in 0..MaxSuffix : <<d, k, s>> \notin files}
      s    == Min(free)
  IN  /\ gen[g].pc = Saving[k] /\ free # {}
      /\ files' = files \union {<<d, k, s>>}
      /\ gen' = [gen EXCEPT ![g] = IF k = "csv" THEN [@ EXCEPT !.csv = s, !.pc = "pdf"]
                                   ELSE [@ EXCEPT !.pdf = s, !.pc = "save"]]
      /\ UNCHANGED <<reports, backfill, rhist>>

\* Mutant: only the csv's path is among the fields saved.
report_save_csv(g) ==
  LET rest == Tail(gen[g].todo)
  IN  /\ gen[g].pc = "save"
      /\ reports' = [reports EXCEPT ![gen[g].row] = [@ EXCEPT !.csv = gen[g].csv]]
      /\ gen' = [gen EXCEPT ![g] = NextReport(g, rest)]
      /\ rhist' = [rhist EXCEPT !.cut = @ /\ (rest # <<>> \/ gen[g].old)]
      /\ UNCHANGED <<files, backfill>>

\* The row takes both paths, the recipients are told, the next report begins.
report_save(g) ==
  LET rest == Tail(gen[g].todo)
  IN  /\ gen[g].pc = "save"
      /\ reports' = [reports EXCEPT ![gen[g].row] = [@ EXCEPT !.csv = gen[g].csv, !.pdf = gen[g].pdf]]
      /\ gen' = [gen EXCEPT ![g] = NextReport(g, rest)]
      /\ rhist' = [rhist EXCEPT !.cut = @ /\ (rest # <<>> \/ gen[g].old)]
      /\ UNCHANGED <<files, backfill>>

\* The process dies or a write raises.
generate_cut(g) ==
  /\ gen[g] # NoGen /\ rhist.cuts < MaxReportCuts
  /\ Stop(g)
  /\ backfill' = (backfill \/ g = Scheduler)
  /\ rhist' = [rhist EXCEPT !.cut = TRUE, !.byCommand = @ \/ g = Command, !.cuts = @ + 1]
  /\ UNCHANGED <<reports, files>>

GenerateStep(g) ==
  \/ report_get(g) \/ report_get_raises(g) \/ report_insert(g)
  \/ \E k \in Kinds : save_overwrite_delete(g, k) \/ save_overwrite_save(g, k)
  \/ report_save(g)

ReportNext ==
  \E g \in Generators : generate_week_reports(g) \/ GenerateStep(g) \/ generate_cut(g)

\* The service manager starts a dead scheduler again, and the start backfills.
Backfilling == backfill /\ generate_week_reports(Scheduler)

-----------------------------------------------------------------------------
Quiet == \A g \in Generators : gen[g] = NoGen

\* The office's index of the week, and what weekly_download finds behind a row's path:
\* any row for the office, a dean's own department's for a dean, and never the roll-up.
weekly_reports == DOMAIN reports
Stored(i, k) == <<reports[i].dept, k, reports[i][k]>> \in files
ifo_weekly_download(i, k) == i \in weekly_reports /\ Stored(i, k)
dean_weekly_download(d, i, k) == d # Rollup /\ reports[i].dept = d /\ Stored(i, k)

Downloadable(i) ==
  \A k \in Kinds : /\ ifo_weekly_download(i, k)
                   /\ reports[i].dept # Rollup => dean_weekly_download(reports[i].dept, i, k)

\* With nobody generating and no run cut since the last complete one, both files
\* of every row listed are there, for the office and for the department's dean, also after runs that overlapped: the delete of one
\* never takes the file another's row points to.
ReportFilesThere == Quiet /\ ~rhist.cut => \A i \in weekly_reports : Downloadable(i)

\* A file lost when the scheduler died comes back with the backfill of its next
\* start, unless the roll-up has two rows by then or a command was cut as well.
ReportsRecover ==
  backfill ~> \/ Duplicated \/ rhist.byCommand
              \/ /\ ReportKeys = {reports[i].dept : i \in DOMAIN reports}
                 /\ \A i \in DOMAIN reports : Downloadable(i)
=============================================================================
