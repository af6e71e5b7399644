SPECIFICATION Spec
CONSTANTS
  h1 = h1  h2 = h2  sheet = sheet  base = base
  NoLink = NoLink  NoDest = NoDest  NoJob = NoJob
  Handler = {h1, h2}
  TargetsOf <- OneEach
  Requests <- AnyBesideChange
  FaultKinds = {"db", "token", "omit", "crash"}
  MaxConsents = 1
  MaxFaults = 0
PROPERTY OtherProviderUnaffected
CHECK_DEADLOCK FALSE
