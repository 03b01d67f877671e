SPECIFICATION MCSpec
CONSTANTS
  t1 = t1
  t2 = t2
  t3 = t3
  MaxKernelSteps = 2
  MaxReloads = 0
  MaxSteps = 2
  Names <- MCNames
  Empty = ""
  Cpus = {0, 1}
  Present = {0, 1}
  CreatableDirs = {{0}, {1}}
  fnmatch <- MCfnmatch
  Tids = {t1, t2}
  CommPkgs <- MCCommPkgs
  Windows <- MCWindows
  RingCap = 2
  AppliedCap = 2
  RenameAttached = TRUE
  CrossRename = FALSE
  InitTasks <- IdleStarts
  CommNames = {"worker"}
  CmdNames = {}
  Unspecialized = {"zygote"}
  Configs <- OneConfig
  KeysOf <- MCKeysOf
  TargetCap = 3
  BaseName <- MCBaseName
  ChanBound = 1
  QuickReuse = FALSE
INVARIANT
  NamedThreadBound
