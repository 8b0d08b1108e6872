SPECIFICATION FairSpec
CONSTANTS
  Host = {h1, h2}
  Trusted = {h1}
  SendCap = 1
  MaxSess = 3
  MaxCmd = 2
INVARIANTS TypeOK NoGhost RunsOnce
PROPERTIES Settles
