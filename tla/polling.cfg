SPECIFICATION FairSpec
CONSTANTS
  Service = {app}
  Slot = {r1}
  Every = {3}
  NoRow = NoRow
  Check = {1, 2}
  Registry = "hub"
  Timeout = 1
  QueueCap = 1
  Outside = {"release", "outage", "busy", "edit", "stop", "restart"}
  Limit = 3
INVARIANTS TypeOK 
PROPERTIES  WebhookObeyed
