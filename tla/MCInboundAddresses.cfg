SPECIFICATION FairSpec
CONSTANTS
  NoRow = NoRow  NoAddr = NoAddr  NoRule = NoRule  NoJob = NoJob
  User = {u1}
  Handler = {h1, h2}
  Addr = {a1, a2, a3}
  Rule = {r1, r2, r3}
  Requests = {"enable", "rotate"}
  FaultKinds = {"db", "cloudflare", "reply", "crash"}
  MaxAddresses = 2
  Others = {0, 2}
  Grace = 0
  MaxFaults = 1
  MaxDay = 1
INVARIANTS ShownAddressRoutes ActiveWithinBudget
PROPERTIES AddressesLast GraceEnds
CHECK_DEADLOCK FALSE
