SPECIFICATION Spec
CONSTANTS
  Name = {app}
  Digest = {d1, d2}
  NoDigest = NoDigest
  BadRef = BadRef
  NoName = NoName
  Labelled = {app}
  MaxId = 5
  RingSize = 2
  Cap = 2
  Held = {}
  Slot = {r1}
  Service = {}
  PollMode = {}
  Env = {"sweep", "release"}
  Limit = 3
SYMMETRY DigestSymmetry
INVARIANTS OnePin
