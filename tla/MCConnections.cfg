SPECIFICATION FairSpec
CONSTANTS
  h1 = h1  h2 = h2  sheet = sheet  base = base
  NoLink = NoLink  NoDest = NoDest  NoJob = NoJob
  Handler = {h1, h2}
  TargetsOf <- OneEach
  Requests <- AnyBesideChange
  FaultKinds = {"db", "token", "omit", "crash"}
  MaxConsents = 1
  MaxFaults = 1
PROPERTIES UnlinkedIsFlagged PromptIsShown DroppedStaysDropped RevocationIsNoticed
CHECK_DEADLOCK FALSE
