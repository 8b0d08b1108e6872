SPECIFICATION FairSpec
CONSTANTS
  Job = {1, 2}
  Reader = {c1, c2}
  LogCap = 1
  ChanCap = 1
  First <- MCFirst
  Pushed <- MCPushed
  Strategy = "patch"
  Semver <- MCSemver
  Dotted = {"reg.io", "docker.io", "1.0.0", "1.0.1", "1.1.0"}
  Brisk = FALSE
  MaxTime = 2
  MaxLines = 2
  PipeCap = 1
  Outside = {"push", "poll", "edit", "long", "fault", "crash", "watch", "leave"}
  Limit = 3
INVARIANTS TypeOK ReferencesRead EachLineOnce LoneReaderSees BackupKept FileUsable StaysInLine
PROPERTIES DoneIsDone DeployEnds 
CHECK_DEADLOCK FALSE
