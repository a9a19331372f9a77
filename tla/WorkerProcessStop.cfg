SPECIFICATION Spec
CONSTANTS
  MaxPid = 1
  Slots = {s1}
  Operations = {"stop"}
  MaxEvents = 1
  ParentsLeave = FALSE
PROPERTY KilledInTheEnd
CHECK_DEADLOCK FALSE
