SPECIFICATION Spec
CONSTANTS
  None = None
  MaxLead = 2
  Pictured = {1}
  Replies = {"written", "failed", "no_destination", "unreachable"}
  Failures = {"discard", "extract", "queue"}
  Elsewhere = TRUE
  MaxFlows = 2
INVARIANTS ConfirmsWhatIsShown WaitsForSomething
PROPERTY EditsSurviveRefusal
CHECK_DEADLOCK FALSE
