SPECIFICATION Spec
CONSTANTS
  OptionIDs <- MCOptionIDs
  ChoicesOf <- MCChoicesOf
  Elements <- MCElements
  DHOnly <- MCDHOnly
  Locked <- MCLocked
  Imports <- MCImports
  Mounts = TRUE
INVARIANTS MountedAllApplied
