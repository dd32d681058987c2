\* The office's desks, one at a time, with all their interleavings.
SPECIFICATION BackSpec
CONSTANTS
  OnlineClasses = {1, 2}
  Shiftable = {2}
  OnlineCheckers = {1, 2}
  RosterRuns = {w1, w2}
  SlotOf <- MCSlotOf
  Shifts <- MCShifts
  Notes = {"n1", "n2"}
  NoteUser <- MCNoteUser
  NoteType <- MCNoteType
  PushUsers = {"u1", "u2"}
  Mutable <- MCMutable
  BrowserTabs = {"t1", "t2"}
  Endpoints = {"e1", "e2"}
  PREVIEW_LIMIT = 1
  PushWindow = 0
  MaxPushTime = 1
  MaxRows = 2
  MaxCuts = 1
  SchedulerJobs = {sweep, maintenance}
  MaintenanceJob = maintenance
  StaleAge = 1
  AlertGap = 2
  Retention = 2
  ReportDepts <- MCReportDepts
  Scheduler = scheduler
  Command = command
  MaxSuffix = 2
  MaxRuns = 2
  MaxReportCuts = 1
  Clerks = {k1, k2}
  CBuildings = {"B"}
  CFloors <- MCFloors
  RoomCodes = {"r1"}
  ShiftItems = {h1}
  MaxRotations = 2
  ImportTabs = {"t1", "t2"}
  Tokens = {"x1", "x2"}
  MaxImportCuts = 1
  Files <- MCFiles
  Prefix <- MCPrefix
  FirstDigit <- MCDigit
  MaxImports = 2
  TermStart = 8
  TermEnd = 9
  FirstDay = 7
  LastDayOfRun = 10
  DateInputs <- MCDateInputs
  RSchedules = {"c1", "c2", "c3"}
  DayOf <- MCDayOf
  Slot0 <- MCSlot0
  SlotEdit <- MCSlotEdit
  RSessions = {"s1", "s2", "s3"}
  ScheduleOf <- MCScheduleOf
  DateOf <- MCDateOf
  ModalityOf <- MCModalityOf
  DeptOf <- MCDeptOf
  RRooms = {"r1", "r2", "v"}
  Building <- MCBuilding
  FloorNo <- MCFloorNo
  Virtual = {"v"}
  Checkable = {"s1"}
  Offsets <- MCOffsets
  HourTicks = 2
  MinuteTicks = 1
  ChronicFloor = 2
  MaxEdits = 1
  Grace = 1
  ClassModality <- MCClassModality
  CourseOf <- MCCourseOf
  HEAT_STEPS = 4
  Scopes <- MCScopes
  GuardUsers = {"g1", "g2"}
  GuardFloors = {1, 2}
  Posting0 <- MCPosting0
  PostingForms <- MCPostingForms
  MaxSweeps = 2
  MaxFloorEvents = 1
  LastGuardTime = 1
  PhotoTabs = {"t1", "t2"}
  NameSuffixes = {"x", "y", "z"}
  MaxUploads = 3
  BoardRooms = {"r1", "r2"}
  BuildingOf <- MCBuildingOf
  Boards <- MCBoards
  Matching = {"r1"}
  MaxTimers = 1
  FormClasses = {"a", "b"}
  FormRooms = {"r"}
  Droppable = {"a", "b"}
  Contested = {"a"}
  MaxFetches = 2
INVARIANTS
  FloorsAlerted
  PhotoThere
  
  
  
  ResentOnlyAfterCut
  NothingReadUnseen
  ReportFilesThere
  
  
  ImportedOnce
  NoLeftoverFiles
  
  
  
  
  
  
PROPERTIES
  NoReshuffle
  LiveSubscriptionKept
  OutboxDrains
  StaleReported
  ReportsRecover
CHECK_DEADLOCK FALSE
