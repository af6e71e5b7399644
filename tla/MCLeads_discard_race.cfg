\* A discard that lands while the confirm of the same lead is writing.
SPECIFICATION Spec
CONSTANTS
  u1 = u1  u2 = u2  h1 = h1  h2 = h2  s1 = s1  s2 = s2  t1 = t1  m1 = m1
  NoHandler = NoHandler  NoId = NoId  NoRow = NoRow  NoMsg = NoMsg  NoJob = NoJob
  User = {u1}  Handler <- Handlers  SubId = {s1}  Text <- Texts  MsgId <- Messages
  Requests = {"submit", "confirm", "discard"}
  FaultKinds = {}
  MaxDay = 0  Retention = 0  DedupWindow = 1  MaxAttempts = 2  MaxFaults = 0
PROPERTY DiscardedIsFinal
CHECK_DEADLOCK FALSE
