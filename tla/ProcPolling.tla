---------------------------- MODULE ProcPolling ----------------------------
(***************************************************************************)
(* The daemon without eBPF: the start of src/src/main.rs and its polling   *)
(* turn, with proc_cache_sync, the affinity timer, affinity_set and the    *)
(* scan for unknown applications, composed with the threads of the system. *)
(*                                                                         *)
(* The main thread is one process with a program counter.  Each action is  *)
(* what it does from one look at the system, or one change of it, to the   *)
(* next.  The daemon may be killed and started again at any point.         *)
(*                                                                         *)
(* Abstractions.  /proc is listed in one step, which reads the command     *)
(* line and the thread ids of a process together; sysinfo and the kill(2)  *)
(* of each tracked process are one step; affinity_set is one step.  Of the *)
(* clock and of the counter of turns (cache_scan) only remains that they   *)
(* may, or may not, have come to their limit.  The configuration file may  *)
(* have changed at the top of any turn.                                    *)
(***************************************************************************)
EXTENDS ProcCache, AutoCache

CONSTANTS
    Files,          \* what the configuration file may hold
    InitCaches,     \* what the cache file may hold before the first start
    BaseName,       \* BaseName[name]: the part of name before ':'
    Jump,           \* how many more threads do not count as a change: 11
    UserPids,       \* the pids from MIN_USER_PID on
    CpusetEnabled,  \* topo.cpuset_enabled
    Background,     \* the CPUs of a cpuset the framework moves threads to
    InitTasks,      \* the sets of threads that may run at the first start
    CommNames, CmdNames, Unspecialized    \* as in Tracepoints

ASSUME PollingAssumption ==
    /\ Files \subseteq Seq(FileEntry)
    /\ \A c \in InitCaches : c \subseteq Seq(FileEntry) /\ \A f, g \in c : f = g
    /\ \A n \in Names : BaseName[n] \in Names
    /\ Jump \in Nat /\ UserPids \subseteq Tids /\ CpusetEnabled \in BOOLEAN
    /\ ~ CpusetEnabled => CreatableDirs \subseteq {{}}
    /\ Background \subseteq Present
    /\ CommNames \subseteq Names /\ CmdNames \subseteq Names /\ Unspecialized \subseteq Names

VARIABLES
    task,               \* the live threads: tid -> Task
    file,               \* the configuration file, as last loaded
    cacheFile,          \* threads_cache
    cfg,                \* the AppConfig in force
    scan_cfg,           \* the one the cache was last cleared for (history)
    inotify_fd,         \* there is an inotify descriptor
    last_proc_count, scan_all_proc, tracked_pids, last_proc_total,
    force_affinity,     \* ProcState
    pc,                 \* where the main thread is
    targets,            \* proc_cache_sync: the processes still to visit
    cur,                \* proc_cache_sync: the process being visited
    todo,               \* the tids a loop has still to visit
    any,                \* proc_cache_sync: a thread of cur has been bound
    current_total,
    dead,               \* affinity_sync: dead_tids
    unknown,            \* scan_unknown: unknown applications' processes and threads
    unsaved,            \* those to save, with the names of the package's threads
    writing             \* the cache file to be, while it is written

watchVars == <<scan_cfg, inotify_fd>>
procState == <<last_proc_count, scan_all_proc, tracked_pids, last_proc_total, force_affinity>>
scanVars == <<targets, cur, any, current_total>>
autoVars == <<unknown, unsaved, writing>>
vars == <<task, pkgs, tasks, file, cacheFile, cfg, watchVars, procState, pc, scanVars, todo,
          dead, autoVars>>

(* dir is the CPUs of the cpuset a thread is in; aff never leaves it. *)
Task == [tgid : Tids, comm : Names, cmd : Names \cup {Empty}, aff : SUBSET Cpus,
         dir : SUBSET Cpus]

(* The kernel starts with whole processes, and the cache file is as the    *)
(* daemon writes it: an entry for each of some user applications.          *)
WholeProcesses(system) ==
    \A t \in DOMAIN system :
        system[t].tgid \in DOMAIN system /\ system[system[t].tgid].tgid = system[t].tgid

DaemonWritten(f) ==
    /\ \A k \in DOMAIN f : \E u \in UserApps : f[k].packages = <<u>>
    /\ \A i, k \in DOMAIN f : f[i].packages = f[k].packages => i = k

ASSUME StartAssumption ==
    /\ \A system \in InitTasks : IsMap(system, Tids, Task) /\ WholeProcesses(system)
    /\ \A c \in InitCaches : \A f \in c : DaemonWritten(f)

Visited == [pid : Tids, pkg : Names, htr : BOOLEAN]

PC == {"start", "top", "count", "list", "scan", "timer", "sync", "cache", "comms", "save", "merge"}

TypeOK ==
    /\ IsMap(task, Tids, Task)
    /\ IsMap(pkgs, Tids, PkgEntry)
    /\ IsMap(tasks, Tids, TaskEntry)
    /\ file \in Files
    /\ cacheFile \subseteq Seq(FileEntry) /\ Cardinality(cacheFile) <= 1
    /\ cfg \in AppConfig /\ scan_cfg \in AppConfig
    /\ {last_proc_count, last_proc_total, current_total} \subseteq Nat
    /\ {inotify_fd, scan_all_proc, force_affinity, any} \subseteq BOOLEAN
    /\ tracked_pids \subseteq Tids /\ todo \subseteq Tids /\ dead \subseteq Tids
    /\ pc \in PC
    /\ targets \subseteq Tids
    /\ cur \subseteq Visited /\ Cardinality(cur) <= 1
    /\ unknown \subseteq [pid : Tids, pkg : Names, tids : SUBSET Tids]
    /\ unsaved \subseteq [pid : Tids, pkg : Names, comms : SUBSET (Names \cup {Empty})]
    /\ Cardinality(writing) <= 1
    /\ \A new \in writing : new \subseteq Seq(FileEntry) /\ Cardinality(new) <= 1
    /\ pc # "scan" => targets = {} /\ cur = {}
    /\ pc # "sync" => dead = {}

(* main, up to the first scan for unknown applications. *)
Init ==
    /\ task \in InitTasks
    /\ file \in Files
    /\ cacheFile \in InitCaches
    /\ pkgs = EmptyMap /\ tasks = EmptyMap
    /\ cfg = merge(load(file), cacheFile) /\ scan_cfg = cfg
    /\ inotify_fd \in BOOLEAN
    /\ last_proc_count = 0 /\ last_proc_total = 0 /\ current_total = 0
    /\ scan_all_proc = TRUE /\ force_affinity = FALSE /\ any = FALSE
    /\ pc = "start"
    /\ tracked_pids = {} /\ targets = {} /\ cur = {} /\ todo = {} /\ dead = {}
    /\ unknown = {} /\ unsaved = {} /\ writing = {}

Goto(label) == pc' = label

-----------------------------------------------------------------------------
(* The system the daemon runs on.                                          *)

MainThreads == {t \in DOMAIN task : task[t].tgid = t}

ThreadsOf(p) == {t \in DOMAIN task : task[t].tgid = p}

(* Process or thread t starts thread or process c, which inherits its      *)
(* parent's name, affinity and cpuset.                                     *)
Fork(t, c, newProcess) ==
    /\ t \in DOMAIN task /\ c \notin DOMAIN task
    /\ task' = Insert(task, c,
                      IF newProcess
                      THEN [task[t] EXCEPT !.tgid = c, !.cmd = task[task[t].tgid].cmd]
                      ELSE [task[t] EXCEPT !.cmd = Empty])

(* A process forked from the zygote takes the name of an application. *)
SetArgV0(t, name) ==
    /\ t \in MainThreads /\ task[t].cmd \in Unspecialized
    /\ task' = [task EXCEPT ![t].cmd = name, ![t].comm = name]

SetName(t, name) ==
    /\ t \in DOMAIN task /\ name # task[t].comm
    /\ task' = [task EXCEPT ![t].comm = name]

(* A process ends with its main thread. *)
Exit(t) ==
    /\ t \in DOMAIN task
    /\ task' = Remove(task, ThreadsOf(t) \cup {t})

(* The framework moves a thread to another cpuset, whose CPUs it gets. *)
MoveAway(t) ==
    /\ t \in DOMAIN task /\ task[t].dir # Background
    /\ task' = [task EXCEPT ![t].dir = Background, ![t].aff = Background]

SystemStep ==
    /\ \/ \E t, c \in Tids, newProcess \in BOOLEAN : Fork(t, c, newProcess)
       \/ \E t \in Tids, name \in CmdNames : SetArgV0(t, name)
       \/ \E t \in Tids, name \in CommNames : SetName(t, name)
       \/ \E t \in Tids : Exit(t) \/ MoveAway(t)
    /\ UNCHANGED <<pkgs, tasks, file, cacheFile, cfg, watchVars, procState, pc, scanVars, todo,
                   dead, autoVars>>

-----------------------------------------------------------------------------
(* The top of the turn.                                                    *)

(* No news of the configuration file. *)
KeepConfig ==
    /\ pc = "top"
    /\ Goto("count")
    /\ UNCHANGED <<task, pkgs, tasks, file, cacheFile, cfg, watchVars, procState, scanVars,
                   todo, dead, autoVars>>

(* Faulty variant of hot_reload: no full scan for the new rules.           *)
hot_reload_only ==
    /\ pc = "top"
    /\ file' \in Files
    /\ cfg' = merge(load(file'), cacheFile)
    /\ inotify_fd' \in {inotify_fd, FALSE}
    /\ Goto("count")
    /\ UNCHANGED <<task, pkgs, tasks, cacheFile, scan_cfg, procState, scanVars, todo, dead,
                   autoVars>>

(* hot_reload, after which config_changed asks for a full scan.  A file    *)
(* that was replaced is watched anew, or not at all from now on.           *)
hot_reload ==
    /\ pc = "top"
    /\ file' \in Files
    /\ cfg' = merge(load(file'), cacheFile)
    /\ inotify_fd' \in {inotify_fd, FALSE}
    /\ scan_all_proc' = TRUE
    /\ Goto("count")
    /\ UNCHANGED <<task, pkgs, tasks, cacheFile, scan_cfg, last_proc_count, tracked_pids,
                   last_proc_total, force_affinity, scanVars, todo, dead, autoVars>>

(* The file goes away again after the reload that inotify has asked for:   *)
(* as in EventLoop, the second reload fails and overwrites the result of   *)
(* the first, and nothing asks for a full scan.                            *)
hot_reload_unscanned ==
    /\ pc = "top" /\ inotify_fd
    /\ \/ file' \in Files /\ cfg' = merge(load(file'), cacheFile)
       \/ UNCHANGED <<file, cfg>>
    /\ inotify_fd' = FALSE
    /\ Goto("count")
    /\ UNCHANGED <<task, pkgs, tasks, cacheFile, scan_cfg, procState, scanVars, todo, dead,
                   autoVars>>

-----------------------------------------------------------------------------
(* proc_cache_sync.                                                        *)

procs == Cardinality(DOMAIN task)

(* kill(pid, 0) fails for a tracked process. *)
TrackedGone == tracked_pids \ DOMAIN task # {}

NeedReload == scan_all_proc \/ procs > last_proc_count + Jump \/ TrackedGone

(* sysinfo counts threads.  A few more of them only force the affinities.  *)
check_count ==
    /\ pc = "count"
    /\ last_proc_count' = procs
    /\ force_affinity' = (force_affinity \/ procs \in last_proc_count + 1 .. last_proc_count + Jump)
    /\ Goto(IF NeedReload THEN "list" ELSE "timer")
    /\ UNCHANGED <<task, pkgs, tasks, file, cacheFile, cfg, watchVars, scan_all_proc,
                   tracked_pids, last_proc_total, scanVars, todo, dead, autoVars>>

(* Faulty variant of ToVisit: a process is visited if it was before.       *)
TrackedOnly(P) == P \cap tracked_pids

(* Without scan_all_proc only processes tracked before are visited. *)
ToVisit(P) == IF scan_all_proc THEN P ELSE P \cap tracked_pids

(* Faulty variant of rescan_list: the new entries are added to the old.    *)
rescan_list_added ==
    /\ pc = "list"
    /\ scan_cfg' = cfg
    /\ current_total' = Cardinality(MainThreads)
    /\ targets' = ToVisit(MainThreads)
    /\ Goto("scan")
    /\ UNCHANGED <<task, pkgs, tasks, file, cacheFile, cfg, inotify_fd, procState, cur, any,
                   todo, dead, autoVars>>

(* pc.clear(), and the processes of /proc. *)
rescan_list ==
    /\ pc = "list"
    /\ pkgs' = EmptyMap /\ tasks' = EmptyMap
    /\ scan_cfg' = cfg
    /\ current_total' = Cardinality(MainThreads)
    /\ targets' = ToVisit(MainThreads)
    /\ Goto("scan")
    /\ UNCHANGED <<task, file, cacheFile, cfg, inotify_fd, procState, cur, any, todo, dead,
                   autoVars>>

(* read_cmdline of a process, or the comm of its main thread. *)
ProcessName(p) == IF task[p].cmd # Empty THEN task[p].cmd ELSE task[p].comm

interested(name) ==
    \/ name \in cfg.pkg_set
    \/ BaseName[name] \in cfg.pkg_set
    \/ \E w \in cfg.wild : fnmatch(w, name)

(* The next process: its name and, if that is of interest, its threads. *)
rescan_process ==
    /\ pc = "scan" /\ cur = {}
    /\ \E p \in targets :
          /\ targets' = targets \ {p}
          /\ cur' = {[pid |-> t, pkg |-> ProcessName(t),
                       htr |-> pkg_has_thread_rules(ProcessName(t), cfg)] :
                         t \in {t \in MainThreads \cap {p} : interested(ProcessName(t))}}
          /\ todo' = IF cur' = {} THEN {} ELSE ThreadsOf(p)
    /\ any' = FALSE
    /\ UNCHANGED <<task, pkgs, tasks, file, cacheFile, cfg, watchVars, procState, pc,
                   current_total, dead, autoVars>>

(* One thread of it.  task_apply stores the entry; the mask is not set     *)
(* here, so the thread is not found dead.                                  *)
rescan_thread ==
    /\ pc = "scan"
    /\ \E p \in cur, t \in todo :
          LET comm  == IF p.htr /\ t \in DOMAIN task THEN task[t].comm ELSE Empty
              entry == [pkg |-> p.pkg, htr |-> p.htr]
              bound == {EntryFor(p.pid, r) : r \in ResultToApply(t, entry, comm, TRUE, cfg)}
          IN  /\ todo' = todo \ {t}
              /\ any' = (any \/ thread_affinity(p.pkg, comm, cfg) # {})
              /\ IF bound = {} THEN UNCHANGED tasks
                 ELSE \E e \in bound : tasks' = Insert(tasks, t, e)
    /\ UNCHANGED <<task, pkgs, file, cacheFile, cfg, watchVars, procState, pc, targets, cur,
                   current_total, dead, autoVars>>

(* A process with a bound thread is cached, and tracked. *)
rescan_package ==
    /\ pc = "scan" /\ todo = {}
    /\ \E p \in cur :
          pkgs' = IF any THEN Insert(pkgs, p.pid, [pkg |-> p.pkg, htr |-> p.htr]) ELSE pkgs
    /\ cur' = {}
    /\ UNCHANGED <<task, tasks, file, cacheFile, cfg, watchVars, procState, pc, targets,
                   any, current_total, todo, dead, autoVars>>

(* Faulty variant of rescan_end: the last process may still be open.      *)
rescan_end_early ==
    /\ pc = "scan" /\ targets = {}
    /\ scan_all_proc' = (current_total > last_proc_total)
    /\ last_proc_total' = current_total
    /\ tracked_pids' = DOMAIN pkgs
    /\ force_affinity' = TRUE
    /\ Goto("timer")
    /\ UNCHANGED <<task, pkgs, tasks, file, cacheFile, cfg, watchVars, last_proc_count,
                   scanVars, todo, dead, autoVars>>

(* The next scan is a full one if this one has seen more processes. *)
rescan_end ==
    /\ pc = "scan" /\ targets = {} /\ cur = {}
    /\ scan_all_proc' = (current_total > last_proc_total)
    /\ last_proc_total' = current_total
    /\ tracked_pids' = DOMAIN pkgs
    /\ force_affinity' = TRUE
    /\ Goto("timer")
    /\ UNCHANGED <<task, pkgs, tasks, file, cacheFile, cfg, watchVars, last_proc_count,
                   scanVars, todo, dead, autoVars>>

-----------------------------------------------------------------------------
(* The affinity timer.                                                     *)

TimerNotDue ==
    /\ pc = "timer" /\ ~ force_affinity
    /\ Goto("cache")
    /\ UNCHANGED <<task, pkgs, tasks, file, cacheFile, cfg, watchVars, procState, scanVars,
                   todo, dead, autoVars>>

affinity_sync_start ==
    /\ pc = "timer"
    /\ todo' = DOMAIN tasks
    /\ Goto("sync")
    /\ UNCHANGED <<task, pkgs, tasks, file, cacheFile, cfg, watchVars, procState, scanVars,
                   dead, autoVars>>

(* Faulty variant of MovedTo: only a rule's own directory is entered.      *)
MovedToOwn(thread, dir) ==
    IF dir = {} THEN thread
    ELSE [thread EXCEPT !.dir = dir \cap Present, !.aff = dir \cap Present]

(* A thread gets the CPUs of the cpuset it is moved to: the one of its     *)
(* rule, or the base directory, which has them all.                        *)
MovedTo(thread, dir) ==
    LET cpus == (IF dir = {} THEN Present ELSE dir) \cap Present
    IN  IF CpusetEnabled THEN [thread EXCEPT !.dir = cpus, !.aff = cpus] ELSE thread

(* affinity_set of a live thread: nothing if the mask is right already;    *)
(* otherwise the move, and the mask if the cpuset leaves any CPU of it.    *)
AffinitySet(thread, cpus, dir) ==
    LET moved == MovedTo(thread, dir)
    IN  IF thread.aff = cpus THEN thread
        ELSE IF cpus \cap moved.dir = {} THEN moved
        ELSE [moved EXCEPT !.aff = cpus \cap moved.dir]

affinity_sync_thread ==
    /\ pc = "sync"
    /\ \E t \in todo :
          /\ todo' = todo \ {t}
          /\ IF t \in DOMAIN task
             THEN /\ task' = [task EXCEPT ![t] =
                                AffinitySet(@, tasks[t].cpus, tasks[t].cpuset_dir)]
                  /\ UNCHANGED dead
             ELSE dead' = dead \cup {t} /\ UNCHANGED task
    /\ UNCHANGED <<pkgs, tasks, file, cacheFile, cfg, watchVars, procState, pc, scanVars,
                   autoVars>>

affinity_sync_end ==
    /\ pc = "sync" /\ todo = {}
    /\ tasks' = TasksWithout(dead)
    /\ pkgs' = PkgsWithout(pkgs, dead)
    /\ dead' = {}
    /\ force_affinity' = FALSE
    /\ Goto("cache")
    /\ UNCHANGED <<task, file, cacheFile, cfg, watchVars, last_proc_count, scan_all_proc,
                   tracked_pids, last_proc_total, scanVars, todo, autoVars>>

-----------------------------------------------------------------------------
(* Unknown applications, with the pids of users' processes: at the start,  *)
(* and every 30 turns.                                                     *)

CacheNotDue ==
    /\ pc = "cache"
    /\ Goto("top")
    /\ UNCHANGED <<task, pkgs, tasks, file, cacheFile, cfg, watchVars, procState, scanVars,
                   todo, dead, autoVars>>

scan_unknown ==
    /\ pc \in {"start", "cache"}
    /\ unknown' = {[pid |-> p, pkg |-> task[p].cmd, tids |-> ThreadsOf(p)] :
                      p \in {t \in MainThreads \cap UserPids : IsUnknown(task[t].cmd, cfg)}}
    /\ Goto(IF unknown' = {} THEN "top" ELSE "comms")
    /\ UNCHANGED <<task, pkgs, tasks, file, cacheFile, cfg, watchVars, procState, scanVars,
                   todo, dead, unsaved, writing>>

(* The threads' names; that of a thread that has ended meanwhile is "".    *)
scan_unknown_comms ==
    /\ pc = "comms"
    /\ unsaved' = {[pid |-> u.pid, pkg |-> u.pkg,
                     comms |-> {IF t \in DOMAIN task THEN task[t].comm ELSE Empty :
                                  t \in UNION {v.tids : v \in {v \in unknown : v.pkg = u.pkg}}}] :
                     u \in {u \in unknown : u.pkg \notin Blacklist}}
    /\ unknown' = {}
    /\ Goto(IF unsaved' = {} THEN "top" ELSE "save")
    /\ UNCHANGED <<task, pkgs, tasks, file, cacheFile, cfg, watchVars, procState, scanVars,
                   todo, dead, writing>>

(* cache::save: fs::write truncates the file before it writes.  *)
save_truncate ==
    /\ pc = "save" /\ writing = {}
    /\ \E u \in unsaved :
          /\ writing' = {Saved(cacheFile, AutoEntry(u.pkg, u.comms))}
          /\ unsaved' = unsaved \ {u}
    /\ cacheFile' = {}
    /\ UNCHANGED <<task, pkgs, tasks, file, cfg, watchVars, procState, pc, scanVars, todo,
                   dead, unknown>>

save_write ==
    /\ pc = "save"
    /\ \E new \in writing : cacheFile' = new
    /\ writing' = {}
    /\ Goto(IF unsaved = {} THEN "merge" ELSE "save")
    /\ UNCHANGED <<task, pkgs, tasks, file, cfg, watchVars, procState, scanVars, todo, dead,
                   unknown, unsaved>>

cache_merge ==
    /\ pc = "merge"
    /\ cfg' = merge(cfg, cacheFile)
    /\ Goto("top")
    /\ UNCHANGED <<task, pkgs, tasks, file, cacheFile, watchVars, procState, scanVars, todo,
                   dead, autoVars>>

-----------------------------------------------------------------------------

(* The service kills the daemon and starts it again. *)
Restart ==
    /\ file' \in Files
    /\ pkgs' = EmptyMap /\ tasks' = EmptyMap
    /\ cfg' = merge(load(file'), cacheFile) /\ scan_cfg' = cfg'
    /\ inotify_fd' \in BOOLEAN
    /\ last_proc_count' = 0 /\ last_proc_total' = 0 /\ current_total' = 0
    /\ scan_all_proc' = TRUE /\ force_affinity' = FALSE /\ any' = FALSE
    /\ Goto("start")
    /\ tracked_pids' = {} /\ targets' = {} /\ cur' = {} /\ todo' = {} /\ dead' = {}
    /\ unknown' = {} /\ unsaved' = {} /\ writing' = {}
    /\ UNCHANGED <<task, cacheFile>>

proc_cache_sync ==
    \/ check_count \/ rescan_list \/ rescan_process \/ rescan_thread \/ rescan_package
    \/ rescan_end

affinity_sync == affinity_sync_start \/ affinity_sync_thread \/ affinity_sync_end

auto_assign ==
    \/ scan_unknown \/ scan_unknown_comms \/ save_truncate \/ save_write \/ cache_merge

(* A step the main thread takes by itself, without a new configuration. *)
MainStep ==
    \/ KeepConfig \/ proc_cache_sync
    \/ TimerNotDue \/ affinity_sync
    \/ CacheNotDue \/ auto_assign

Next == SystemStep \/ hot_reload \/ hot_reload_unscanned \/ Restart \/ MainStep

Spec == Init /\ [][Next]_vars

(* The main thread runs, the wall clock passes the affinity deadline again *)
(* and again, and so does the counter of turns its limit.                  *)
Fairness ==
    /\ WF_vars(MainStep)
    /\ SF_vars(affinity_sync_start)
    /\ SF_vars(scan_unknown)

FairSpec == Spec /\ Fairness

-----------------------------------------------------------------------------
(* Safety.                                                                 *)

(* Between two rescans the cache is that of the rules in force: a bound    *)
(* thread has a cached process, and its mask follows from the rules of the *)
(* process's package.  So a reload is followed by a rescan before anything *)
(* is bound, and the rules that cache::merge appends without a rescan      *)
(* (main.rs:388) change nothing for what is cached.  Once the descriptor   *)
(* is lost, and with it perhaps a rescan (main.rs:318), the cache is still *)
(* wholly that of the rules of the last rescan, never a mixture.           *)
FollowsRules(entry, pkg, c) ==
    \E name \in Names \cup {Empty} : \E r \in thread_affinity(pkg, name, c) :
        entry.cpus = r.cpus /\ entry.is_thread_rule = r.is_thread_rule

CacheOf(c) ==
    /\ \A p \in DOMAIN pkgs : pkgs[p].htr = pkg_has_thread_rules(pkgs[p].pkg, c)
    /\ \A t \in DOMAIN tasks :
          tasks[t].pid \in DOMAIN pkgs /\ FollowsRules(tasks[t], pkgs[tasks[t].pid].pkg, c)

CacheFollowsRules ==
    pc \notin {"count", "list", "scan"} =>
        CacheOf(scan_cfg) /\ (inotify_fd => CacheOf(cfg))

(* The cache file has one entry per package (README.md:103), also when     *)
(* several processes of a new application are saved one after the other,   *)
(* or the daemon is killed in between.                                     *)
OneEntryPerPackage ==
    \A f \in cacheFile \cup UNION writing : \A i, k \in DOMAIN f :
        f[i].packages = f[k].packages => i = k

-----------------------------------------------------------------------------
(* Liveness.                                                               *)

(* A process whose name the configuration binds. *)
Bindable(t) ==
    /\ t \in MainThreads
    /\ task[t].cmd \in cfg.pkg_set /\ thread_affinity(task[t].cmd, Empty, cfg) # {}

(* A full scan leaves out no configured application that runs while it is  *)
(* made, whatever starts, ends or is renamed in the meantime.              *)
FullScanFinds ==
    \A t \in Tids :
        pc = "top" /\ scan_all_proc /\ Bindable(t) ~> t \in DOMAIN tasks \/ ~ Bindable(t)

(* An application without rules that keeps running gets rules of its own,  *)
(* even if the daemon is killed while it writes the cache file, provided   *)
(* that its pid is that of a user's process (process.rs:122).              *)
UnknownApp(t) ==
    t \in MainThreads /\ task[t].cmd \notin Blacklist /\ IsUnknown(task[t].cmd, cfg)

UnknownLearned == \A t \in UserPids : UnknownApp(t) ~> ~ UnknownApp(t)

(* The entry of a dead thread goes away (unless a new thread gets the tid):*)
(* kill(2) finds a process gone, the timer a thread.                       *)
DeadForgotten ==
    \A t \in Tids :
        t \in DOMAIN tasks \ DOMAIN task ~> t \notin DOMAIN tasks \ DOMAIN task

(* With cpusets, a bound thread gets its CPUs back again and again after   *)
(* the framework has moved it to a cpuset without them.                    *)
MaskRestored ==
    CpusetEnabled =>
        \A t \in Tids :
            []<>(t \in DOMAIN tasks \cap DOMAIN task /\ tasks[t].cpus \cap Present # {}
                    => task[t].aff = tasks[t].cpus \cap Present)

-----------------------------------------------------------------------------
(* Refinement.                                                             *)

Bound ==
    [t \in DOMAIN tasks |->
        [cpus |-> tasks[t].cpus, is_thread_rule |-> tasks[t].is_thread_rule]]

Abstract == INSTANCE Bindings WITH bound <- Bound, rules <- cfg, kept <- scan_cfg

(* The polling mode keeps the promises of Bindings, too: over rescans,     *)
(* reloads, merges of the cache file and restarts.                         *)
ImplementsBindings == Abstract!Spec

-----------------------------------------------------------------------------
(* What the repository says and the code does not keep to: each of these   *)
(* is refuted by a run.                                                    *)

(* A changed number of processes rebuilds the whole cache (main.rs:148):   *)
(* a configured application that keeps running is bound in the end.        *)
AppFound ==
    \A t \in Tids : Bindable(t) ~> t \in DOMAIN tasks \/ ~ Bindable(t)

(* "other" is the default binding of every thread of the application       *)
(* (README.md:65), that is of each package its entry lists: when a rescan  *)
(* is through with such a process, it has bound its threads.               *)
EveryPackageBound ==
    pc = "scan" /\ todo = {} =>
        \A p \in cur :
            (\E e \in Range(file) : p.pkg \in Range(e.packages) /\ e.other # {}) => any
=============================================================================
