SPECIFICATION NativeFair
CONSTANTS
  LauncherPid = 101
  ChildPid = 102
INVARIANTS
  TranscriptAccepted
  MaskIsTrue
  NoChildLeftBehind
PROPERTY
  LauncherExits
CHECK_DEADLOCK FALSE
