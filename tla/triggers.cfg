SPECIFICATION Spec
CONSTANTS
  Name = {app, job}
  Digest = {d1, d2}
  NoDigest = NoDigest
  BadRef = BadRef
  NoName = NoName
  Labelled = {app, job}
  MaxId = 5
  RingSize = 2
  Cap = 2
  Held = {job}
  Slot = {r1, r2}
  Service = {job}
  PollMode = {job}
  Env = {"sweep", "update", "service", "push", "hub", "pull", "release", "fault", "crash", "remove", "restart", "run"}
  Limit = 2
SYMMETRY DigestSymmetry
INVARIANTS HeldUntouched AppliedHasRun
