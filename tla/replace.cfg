SPECIFICATION Spec
CONSTANTS
  Name = {app}
  Digest = {d1, d2}
  NoDigest = NoDigest
  BadRef = BadRef
  NoName = NoName
  Labelled = {app}
  MaxId = 7
  RingSize = 2
  Cap = 1
  Held = {}
  Slot = {r1}
  Service = {}
  PollMode = {}
  Env = {"pull", "release", "sick"}
  Limit = 5
SYMMETRY DigestSymmetry
INVARIANTS TypeOK OneReplacement RingHasRun AppliedHasRun
