SPECIFICATION MCSpec
CONSTANTS
  t1 = t1
  t2 = t2
  t3 = t3
  MaxKernelSteps = 4
  MaxReloads = 1
  MaxSteps = 4
  Names <- MCNames
  Empty = ""
  Cpus = {0, 1}
  Present = {0, 1}
  CreatableDirs = {{0}, {1}}
  fnmatch <- MCfnmatch
  Tids = {t1, t2}
  CommPkgs <- MCCommPkgs
  Windows <- MCWindows
  RingCap = 2
  AppliedCap = 1
  RenameAttached = TRUE
  CrossRename = TRUE
  InitTasks <- AppStarts
  CommNames = {"worker"}
  CmdNames = {"app", "apphelper"}
  Unspecialized = {"zygote"}
  Configs <- BothConfigs
  KeysOf <- MCKeysOf
  TargetCap = 1
  BaseName <- MCBaseName
  ChanBound = 1
  QuickReuse = TRUE
INVARIANTS
  TypeOK
  NoBlindBinding
  ConfigCoherent
  CpusetDirAgrees
PROPERTIES
  ThreadBindingKept
  ImplementsBindings
