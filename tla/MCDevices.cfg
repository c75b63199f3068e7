SPECIFICATION Spec
CONSTANTS
  Path <- TtyAndUsb
  MaxDevices = 2
  MaxFd = 2
  MaxCopies = 1
  CommandLine <- OnlyTty
INVARIANTS OneOwner NoneIsDeaf OnePerPath
PROPERTIES KeptWhileWatched Reconnects
