SPECIFICATION NativeSpec
CONSTANTS
  LauncherPid = 101
  ChildPid = 102
INVARIANTS
  EveryTranscriptAccepted
CHECK_DEADLOCK FALSE
