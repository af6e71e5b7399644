SPECIFICATION Spec
CONSTANTS
  NoUser = NoUser  NoPassword = NoPassword  NoJob = NoJob
  Email = {ada}
  Password = {p1, p2}
  Handler = {h1, h2}
  Requests = {"signup", "verify", "login", "forgot", "reset", "google", "unlink", "logout"}
  FaultKinds = {"db", "mail", "crash"}
  MaxLinks = 2
  MaxSessions = 2
  MaxFaults = 1
SYMMETRY Symmetric
INVARIANTS LinkWorksOnce ActiveIsProved LinkedIsVerified
CHECK_DEADLOCK FALSE
