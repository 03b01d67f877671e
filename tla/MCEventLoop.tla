---------------------------- MODULE MCEventLoop ----------------------------
(***************************************************************************)
(* Small instances of EventLoop.  The names are those of the zygote, of a  *)
(* configured application, of a thread of it that has a rule of its own,   *)
(* of a program whose name looks like the application's to the kernel's 8  *)
(* byte windows only, of a package that does not fit the whitelist, of a   *)
(* second application, and of a service process of the first one.          *)
(***************************************************************************)
EXTENDS EventLoop

CONSTANTS
    t1, t2, t3,
    MaxKernelSteps,  \* bound on the steps of the kernel's tasks
    MaxReloads,      \* bound on the new configurations
    MaxSteps         \* bound on both together

VARIABLES kernelSteps, reloads

mcVars == <<vars, kernelSteps, reloads>>

MCNames == {"zygote", "app", "worker", "apphelper", "suite", "game", "app:push"}

MCfnmatch(pat, name) == pat = name

MCCommPkgs == [n \in MCNames |-> IF n \in {"app", "app:push", "suite", "game"} THEN {n} ELSE {}]

MCWindows == [n \in MCNames |-> IF n \in {"apphelper", "app:push"} THEN {"app", n} ELSE {n}]

MCKeysOf == [n \in MCNames |-> IF n = "suite" THEN {"suite", "uite"} ELSE {n}]

MCBaseName == [n \in MCNames |-> IF n = "app:push" THEN "app" ELSE n]

-----------------------------------------------------------------------------

PackageRule(c) ==
    [pkg |-> "app", thread |-> Empty, cpus |-> c, cpuset_dir |-> c]

WorkerRule(c) ==
    [pkg |-> "app", thread |-> "worker", cpus |-> c, cpuset_dir |-> {}]

ThreadConfig ==
    [rules |-> <<PackageRule({0}), WorkerRule({1})>>, pkg_set |-> {"app"}, wild |-> {}]

PackageConfig ==
    [rules |-> <<PackageRule({1}), PackageRule({0}), [PackageRule({0}) EXCEPT !.pkg = "suite"]>>,
     pkg_set |-> {"app", "suite"}, wild |-> {}]

TwoApps ==
    [rules |-> <<PackageRule({0}), [PackageRule({1}) EXCEPT !.pkg = "game"]>>,
     pkg_set |-> {"app", "game"}, wild |-> {}]

ServiceConfig ==
    [rules |-> <<PackageRule({0}), [PackageRule({1}) EXCEPT !.pkg = "app:push"]>>,
     pkg_set |-> {"app", "app:push"}, wild |-> {}]

ServiceConfigs == {ThreadConfig, ServiceConfig}

BothConfigs == {ThreadConfig, PackageConfig}

OneConfig == {ThreadConfig}

TwoAppsConfig == {TwoApps}

-----------------------------------------------------------------------------

Main(t, name) == [tgid |-> t, comm |-> name, cmd |-> name, aff |-> Present]

Thread(t, p, name) == [tgid |-> p, comm |-> name, cmd |-> Empty, aff |-> Present]

ZygoteOnly == [t \in {t1} |-> Main(t, "zygote")]

AppRunning ==
    [t \in {t1, t2} |-> IF t = t1 THEN Main(t1, "app") ELSE Thread(t2, t1, "worker")]

AppWithIdleThread ==
    [t \in {t1, t2} |-> IF t = t1 THEN Main(t1, "app") ELSE Thread(t2, t1, "apphelper")]

ServiceOnly == [t \in {t1} |-> Main(t1, "app:push")]

Starts == {ZygoteOnly, AppRunning}

ServiceStarts == {ZygoteOnly, AppRunning, ServiceOnly}

ZygoteStarts == {ZygoteOnly}

IdleStarts == {AppWithIdleThread}

AppStarts == {AppRunning}

-----------------------------------------------------------------------------

(* The run starts with an inotify descriptor: a reload may lose it, and a   *)
(* daemon without one has a part of the behaviours of one with it.          *)
MCInit == Init /\ inotify_fd /\ kernelSteps = 0 /\ reloads = 0

Steps == kernelSteps + reloads

MCNext ==
    \/ /\ kernelSteps < MaxKernelSteps /\ Steps < MaxSteps
       /\ KernelStep
       /\ kernelSteps' = kernelSteps + 1
       /\ UNCHANGED reloads
    \/ /\ reloads < MaxReloads /\ Steps < MaxSteps
       /\ hot_reload \/ hot_reload_unscanned
       /\ reloads' = reloads + 1
       /\ UNCHANGED kernelSteps
    \/ /\ ebpf_reader \/ MainStep
       /\ UNCHANGED <<kernelSteps, reloads>>

MCSpec == MCInit /\ [][MCNext]_mcVars

MCFairSpec == MCSpec /\ Fairness
=============================================================================
