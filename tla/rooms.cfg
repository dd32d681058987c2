SPECIFICATION Spec
CONSTANTS
  f1 = f1
  f2 = f2
  None = None
  Classes <- MCClasses
  FacultyOf <- MCSameFaculty
  HomeRoom <- MCHomeRoom
  HomeSlot <- MCHomeSlot
  HomeModality <- MCHomeModality
  Rooms <- MCRooms
  Slots <- MCSlots
  Asks <- MCAsks
  Edits <- MCEdits
  Held <- MCHeld
  Wants <- MCWants
  MaxDate = 3
  Tickets = {t1, t2}
  Bookings = {b1}
  Procs = {p1, p2}
  Lead = 0
  Cooldown = 0
  Horizon = 1
  Ops = {"submit", "withdraw", "reject", "approve", "book", "edit", "crash"}
SYMMETRY Symmetry
INVARIANTS OnlyApprovedApplied
PROPERTIES DecidedOnce ApprovalTakesUnreservedRoom
CHECK_DEADLOCK FALSE
