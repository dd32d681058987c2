----------------------------- MODULE JobRunner ------------------------------
(***************************************************************************)
(* The scheduler process: run_job around every job (ops/jobrun.py), the    *)
(* watchdog beside it (checkscheduler), and the nightly pruning of run     *)
(* rows.  Jobs run side by side in the scheduler's threads, one instance   *)
(* of each; the process may die at any moment, leaving rows "running".     *)
(* Of each job the table keeps its newest finished row and its newest      *)
(* unfinished one: older rows change no answer the code gives.  Ages       *)
(* saturate, so time is unbounded.                                         *)
(***************************************************************************)
EXTENDS Integers

CONSTANTS
  SchedulerJobs, MaintenanceJob,
  StaleAge,    \* SCHEDULER_STALE_MINUTES
  AlertGap,    \* an hour
  Retention    \* JOB_RUN_RETENTION_DAYS

ASSUME JobAssumption ==
  /\ MaintenanceJob \in SchedulerJobs
  /\ StaleAge \in Nat \ {0} /\ AlertGap \in Nat \ {0} /\ Retention \in Nat
  /\ StaleAge < Retention

Forever == (IF AlertGap > Retention THEN AlertGap ELSE Retention) + 1
Ages    == 0..Forever
Older(a) == IF a = Forever THEN a ELSE a + 1

VARIABLES
  up,         \* the scheduler process is alive
  threads,    \* jobs running in it
  unfinished, \* age of the start of each job's newest row with no finished_at
  finished,   \* status and ages of each job's newest finished row
  beat,       \* history: age of the last completion of any job, or of the deployment
  alertAge    \* age of the newest scheduler_stale notification

jobVars == <<up, threads, unfinished, finished, beat, alertAge>>

FinishedRow == [status : {"none", "ok", "failed"}, started : Ages, at : Ages]
NoRun == [status |-> "none", started |-> Forever, at |-> Forever]

JobInit ==
  /\ up = TRUE /\ threads = {}
  /\ unfinished = [j \in SchedulerJobs |-> Forever]
  /\ finished = [j \in SchedulerJobs |-> NoRun]
  /\ beat = 0 /\ alertAge = Forever

-----------------------------------------------------------------------------
\* The trigger fires (max_instances=1) and the row is inserted.
job_start(j) ==
  /\ up /\ j \notin threads
  /\ threads' = threads \union {j}
  /\ unfinished' = [unfinished EXCEPT ![j] = 0]
  /\ UNCHANGED <<up, finished, beat, alertAge>>

Completed(j, status) ==
  [status |-> status, started |-> unfinished[j], at |-> 0]

prune_operational_data ==
  [j \in SchedulerJobs |-> IF finished[j].started > Retention THEN NoRun ELSE finished[j]]

\* The job returned: status ok and the row is saved.  The maintenance job has
\* deleted the rows past retention, unfinished ones too.
job_ok(j) ==
  LET pruned == j = MaintenanceJob
      kept   == IF pruned THEN prune_operational_data ELSE finished
  IN  /\ j \in threads
      /\ finished' = [kept EXCEPT ![j] = Completed(j, "ok")]
      /\ unfinished' = [k \in SchedulerJobs |-> IF k = j \/ (pruned /\ unfinished[k] > Retention)
                                       THEN Forever ELSE unfinished[k]]
      /\ threads' = threads \ {j} /\ beat' = 0
      /\ UNCHANGED <<up, alertAge>>

\* The job raised: the admins are told, the row is saved, the loop goes on.
job_raise(j) ==
  /\ j \in threads
  /\ finished' = [finished EXCEPT ![j] = Completed(j, "failed")]
  /\ unfinished' = [unfinished EXCEPT ![j] = Forever]
  /\ threads' = threads \ {j} /\ beat' = 0
  /\ UNCHANGED <<up, alertAge>>

scheduler_die ==
  /\ up /\ up' = FALSE /\ threads' = {}
  /\ UNCHANGED <<unfinished, finished, beat, alertAge>>

scheduler_boot ==
  /\ ~up /\ up' = TRUE
  /\ UNCHANGED <<threads, unfinished, finished, beat, alertAge>>

-----------------------------------------------------------------------------
\* Mutant: a run that has started lately is a sign of life too.
scheduler_stale_started ==
  \A j \in SchedulerJobs : finished[j].at > StaleAge /\ unfinished[j] > StaleAge

\* No finished row is recent.
scheduler_stale == \A j \in SchedulerJobs : finished[j].at > StaleAge

\* The cron job beside the scheduler: stale, and not alerted within the hour.
checkscheduler ==
  /\ scheduler_stale /\ alertAge > AlertGap
  /\ alertAge' = 0
  /\ UNCHANGED <<up, threads, unfinished, finished, beat>>

job_tick ==
  /\ unfinished' = [j \in SchedulerJobs |-> Older(unfinished[j])]
  /\ finished' = [j \in SchedulerJobs |-> [finished[j] EXCEPT !.started = Older(@), !.at = Older(@)]]
  /\ beat' = Older(beat) /\ alertAge' = Older(alertAge)
  /\ UNCHANGED <<up, threads>>

JobNext ==
  \/ \E j \in SchedulerJobs : job_start(j) \/ job_ok(j) \/ job_raise(j)
  \/ scheduler_die \/ scheduler_boot \/ checkscheduler \/ job_tick

-----------------------------------------------------------------------------
\* A scheduler that completes nothing, dead or starting and dying over and over,
\* is reported.
StaleReported == beat > StaleAge ~> beat <= StaleAge \/ alertAge <= AlertGap
=============================================================================
