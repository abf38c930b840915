SPECIFICATION Spec
CONSTANTS
  Modes = {TRUE, FALSE}
  Darwin = TRUE
  MaxWindows = 3
  MaxQuits = 3
INVARIANT NoOrphanServer
INVARIANT AlwaysReachable
INVARIANT ShellInv
PROPERTY QuitCompletes
