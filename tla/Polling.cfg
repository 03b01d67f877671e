SPECIFICATION MCFairSpec
CONSTANTS
  t1 = t1
  t2 = t2
  t3 = t3
  MaxSystemSteps = 3
  MaxBreaks = 1
  Names <- MCNames
  Empty = ""
  Cpus = {0, 1}
  Present = {0, 1}
  CreatableDirs = {{0}}
  fnmatch <- MCfnmatch
  Tids = {t1, t2}
  CommPkgs <- MCCommPkgs
  Wildcards = {}
  UserApps = {"tool"}
  Blacklist = {}
  KeyWords <- MCKeyWords
  Big = {1}
  Mid = {}
  Little = {0}
  Files <- TwoFiles
  InitCaches <- NoCache
  BaseName <- MCBaseName
  Jump = 1
  UserPids = {t1, t2}
  CpusetEnabled = TRUE
  Background = {0}
  InitTasks <- Starts
  CommNames = {"worker"}
  CmdNames = {"app", "tool"}
  Unspecialized = {"zygote"}
INVARIANTS
  TypeOK
  CacheFollowsRules
  OneEntryPerPackage
PROPERTIES
  FullScanFinds
  UnknownLearned
  DeadForgotten
  MaskRestored
  ImplementsBindings
