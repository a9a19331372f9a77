SPECIFICATION Spec
CONSTANTS
  MaxPid = 2
  Slots = {s1}
  Operations = {"snapshot", "stop", "shutdown", "rollback", "output"}
  MaxEvents = 1
  ParentsLeave = FALSE
INVARIANTS
  ConfirmedMeansEmpty
  AnswersAreTrue
CHECK_DEADLOCK FALSE
