CONSTANTS
  OutputCap = 1
  InputCap = 1
SPECIFICATION TalkativeSpec
PROPERTY ShellExitEndsSession
CHECK_DEADLOCK FALSE
