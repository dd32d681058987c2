SPECIFICATION Spec
CONSTANTS
  k1 = k1
  k2 = k2
  m1 = m1
  m2 = m2
  c1 = c1
  c2 = c2
  None = None
  Checkers = {c1}
  Device = c1
  Classes = {k1, k2}
  Rooms = {m1}
  ClassRoom <- MCClassRoom
  Start <- MCStart
  End <- MCEnd
  FloorOf <- MCFloorOf
  Grants <- MCGrants
  Scans <- MCScans
  LiveScans <- MCLiveScans
  MaxTime = 2
  Limit = 1
  Uuids = {u1}
  Drains = {d1, d2}
  
PROPERTIES ImplementsReplayLog QueueDrains
CHECK_DEADLOCK FALSE
