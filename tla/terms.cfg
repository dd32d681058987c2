SPECIFICATION Spec
CONSTANTS
  None = None  Scheduler = Scheduler
  spring = spring  summer = summer  bridge = bridge
  algebra = algebra  biology = biology  w1 = w1  w2 = w2
  Terms = {spring, summer, bridge}
  Existing = {spring}
  Schedules = {algebra}
  Planned = {}
  Workers = {w1, w2}
  Horizon = 1  JobDays = 2  MaxDate = 1  MaxCrashes = 1
  Ops = {"create", "activate", "close", "reopen", "checkin", "schedule_new"}
  First <- MCFirst
  Last <- MCLast
  TermOf <- MCTermOf
  MeetsOn <- MCMeetsOn
INVARIANTS TermsDisjoint ArchivedHasNoActive
SYMMETRY WorkerSymmetry
CHECK_DEADLOCK FALSE
