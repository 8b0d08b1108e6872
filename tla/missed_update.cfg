SPECIFICATION Spec
CONSTANTS
  Service = {app}
  Slot = {r1}
  Every = {4}
  NoRow = NoRow
  Check = {1, 2}
  Registry = "bearer"
  Timeout = 1
  QueueCap = 1
  Outside = {"release", "outage", "busy", "edit", "stop", "restart"}
  Limit = 3
INVARIANT QuietIsCurrent
