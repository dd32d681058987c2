SPECIFICATION Spec
CONSTANTS
  None = None  Scheduler = Scheduler
  spring = spring  summer = summer  bridge = bridge
  algebra = algebra  biology = biology  w1 = w1  w2 = w2
  Terms = {spring, summer, bridge}
  Existing = {spring}
  Schedules = {algebra, biology}
  Planned = {algebra}
  Workers = {w1}
  Horizon = 1  JobDays = 2  MaxDate = 0  MaxCrashes = 1
  Ops = {"activate", "schedule_new"}
  First <- MCFirst
  Last <- MCLast
  TermOf <- MCTermOf
  MeetsOn <- MCMeetsOn
INVARIANTS NoDuplicateSession
CHECK_DEADLOCK FALSE
