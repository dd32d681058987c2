SPECIFICATION Spec
CONSTANTS
  None = None
  s1 = s1  s2 = s2  s3 = s3  f1 = f1  f2 = f2  r1 = r1  r2 = r2
  b1 = b1  b2 = b2  k1 = k1  k2 = k2  typhoon = typhoon  dropped = dropped
  w1 = w1  w2 = w2
  Sessions = {s1, s2}
  Online = {s1, s2}
  Rooms = {r1}
  Breaks = {}
  Suspensions = {}
  CancelReasons = {}
  Workers = {w1, w2}
  ScanMethods = {"qr_scan"}
  Ops = {"online_start", "checker"}
  MaxTime = 1  MaxTokens = 1
  Grace = 0  EarlyEnd = 1  OpenLead = 1  TokenAge = 1
  FacultyOf <- MCFacultyOf
  Course <- MCCourse
  Start <- MCStart
  End <- MCEnd
  HomeRoom <- MCHomeRoom
  BuildingOf <- MCBuildingOf
  SusBuilding <- MCSusBuilding
  SusReason <- MCSusReason
SYMMETRY WorkerSymmetry
INVARIANTS NoEarlyAbsent MergedHasAnchor
CHECK_DEADLOCK FALSE
