SPECIFICATION MCSpec
CONSTANTS
  t1 = t1
  t2 = t2
  t3 = t3
  MaxKernelSteps = 3
  MaxReloads = 1
  MaxSteps = 3
  Names <- MCNames
  Empty = ""
  Cpus = {0, 1}
  Present = {0, 1}
  CreatableDirs = {{0}, {1}}
  fnmatch <- MCfnmatch
  Tids = {t1, t2, t3}
  CommPkgs <- MCCommPkgs
  Windows <- MCWindows
  RingCap = 2
  AppliedCap = 2
  RenameAttached = TRUE
  CrossRename = FALSE
  InitTasks <- ServiceStarts
  CommNames = {"worker","app"}
  CmdNames = {"app","app:push"}
  Unspecialized = {"zygote"}
  Configs <- ServiceConfigs
  KeysOf <- MCKeysOf
  TargetCap = 3
  BaseName <- MCBaseName
  ChanBound = 1
  QuickReuse = FALSE
INVARIANT
  ProcessCovered
PROPERTY
  LiveBindingKept
