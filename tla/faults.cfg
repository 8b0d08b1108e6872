SPECIFICATION LifeSpec
CONSTANTS
  Name = {app, other}
  Digest = {d1, d2}
  NoDigest = NoDigest
  BadRef = BadRef
  NoName = NoName
  Labelled = {app}
  MaxId = 7
  RingSize = 2
  Cap = 2
  Held = {}
  Slot = {r1}
  Service = {}
  PollMode = {}
  Env = {"pull", "rollback", "sick", "fault", "remove", "restart", "run", "crash"}
  Limit = 4
SYMMETRY DigestSymmetry
INVARIANTS ServiceHeld KeyedById  ActiveIsApplying
 
