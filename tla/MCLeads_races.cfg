\* Two accounts, two submissions: everything a lead can go through interleaves over a
\* midnight, with one fault of any kind.
SPECIFICATION Spec
CONSTANTS
  u1 = u1  u2 = u2  h1 = h1  h2 = h2  s1 = s1  s2 = s2  t1 = t1  m1 = m1
  NoHandler = NoHandler  NoId = NoId  NoRow = NoRow  NoMsg = NoMsg  NoJob = NoJob
  User <- Users  Handler <- Handlers  SubId <- Subs  Text <- Texts  MsgId <- Messages
  Requests = {"submit", "email", "rerun", "confirm", "discard"}
  FaultKinds = {"reply", "update", "crash"}
  MaxDay = 1  Retention = 0  DedupWindow = 1  MaxAttempts = 2  MaxFaults = 1
SYMMETRY Symmetric
INVARIANTS TypeOK OneConfirmAtATime WrittenIsAtDestination EveryCopyIsAccounted OneLiveRowPerContent
PROPERTIES KeepsPromise WrittenNeverReopens
CHECK_DEADLOCK FALSE
