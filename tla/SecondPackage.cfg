SPECIFICATION MCSpec
CONSTANTS
  t1 = t1
  t2 = t2
  t3 = t3
  MaxSystemSteps = 2
  MaxBreaks = 0
  Names <- MCNames
  Empty = ""
  Cpus = {0, 1}
  Present = {0, 1}
  CreatableDirs = {{0}}
  fnmatch <- MCfnmatch
  Tids = {t1, t2}
  CommPkgs <- MCCommPkgs
  Wildcards = {}
  UserApps = {"tool"}
  Blacklist = {}
  KeyWords <- MCKeyWords
  Big = {1}
  Mid = {}
  Little = {0}
  Files <- OneFile
  InitCaches <- NoCache
  BaseName <- MCBaseName
  Jump = 1
  UserPids = {t1, t2}
  CpusetEnabled = TRUE
  Background = {0}
  InitTasks <- OtherStarts
  CommNames = {"worker"}
  CmdNames = {"app", "tool"}
  Unspecialized = {"zygote"}
INVARIANT
  EveryPackageBound
