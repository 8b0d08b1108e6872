SPECIFICATION Spec
CONSTANTS
  Name = {app}
  Digest = {d1, d2}
  NoDigest = NoDigest
  BadRef = BadRef
  NoName = NoName
  Labelled = {app}
  MaxId = 7
  RingSize = 2
  Cap = 2
  Held = {}
  Slot = {r1}
  Service = {}
  PollMode = {}
  Env = {"pull", "sick", "release"}
  Limit = 5
SYMMETRY DigestSymmetry
INVARIANTS RollbackOnlySick
