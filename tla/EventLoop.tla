----------------------------- MODULE EventLoop -----------------------------
(***************************************************************************)
(* The daemon in eBPF mode: the reader thread of src/src/bpf.rs, and the   *)
(* main loop of src/src/main.rs with its whitelist, full scan, event       *)
(* dispatch and periodic affinity sync, composed with the kernel's half.   *)
(*                                                                         *)
(* The main thread is one process with a program counter.  One action is   *)
(* what it does between two points at which the kernel's steps can tell    *)
(* the difference: a system call that reads or writes kernel state ends    *)
(* an action.  task_apply therefore takes two: Apply computes the result,  *)
(* forgets the old entry and sets the affinity (which tells whether the    *)
(* thread is dead), Commit marks it in APPLIED_MAP and stores the entry.   *)
(*                                                                         *)
(* Abstractions.  /proc is listed in one step.  sched_setaffinity fails    *)
(* only with ESRCH, or for a mask without a present CPU.  The timer may    *)
(* find its deadline passed or not, whatever the time.                     *)
(***************************************************************************)
EXTENDS Tracepoints

CONSTANTS
    Configs,     \* the configurations hot_reload may load, cache merged
    KeysOf,      \* KeysOf[pkg]: the whitelist keys comm_keys_build makes of a name
    TargetCap,   \* comm_capacity
    BaseName,    \* BaseName[name]: the part of name before ':'
    ChanBound,   \* events in the channel at once; the code has no bound
    QuickReuse   \* a tid may be reused while the daemon is still busy with it

ASSUME LoopAssumption ==
    /\ Configs \subseteq AppConfig
    /\ \A c \in Configs : \A i \in DOMAIN c.rules : RuleDirAgrees(c.rules[i])
    /\ \A n \in Names : n \in DOMAIN KeysOf /\ BaseName[n] \in Names
    /\ TargetCap \in Nat /\ ChanBound \in Nat \ {0}
    /\ \A m \in InitTasks : IsMap(m, Tids, Task)
    /\ QuickReuse \in BOOLEAN

VARIABLES
    chan,           \* the mpsc channel between reader and main thread
    cfg,            \* the AppConfig in force
    scan_cfg,       \* history: the AppConfig the last full scan started from
    inotify_fd,     \* there is an inotify descriptor
    need_full_scan,
    pc,             \* where the main thread is
    job,            \* the task_apply between Apply and Commit
    targets,        \* full_scan: the processes still to visit
    cur,            \* full_scan: the process being visited
    todo,           \* the tids a loop has still to visit
    dead            \* affinity_sync: dead_tids

watchVars == <<scan_cfg, inotify_fd>>

mainVars == <<pkgs, tasks, chan, cfg, watchVars, need_full_scan, pc, job, targets, cur,
              todo, dead>>
vars == <<kernelVars, mainVars>>

PC == {"top", "whitelist", "fill", "clear", "unmark", "list", "scan", "recv",
       "timer", "sync"}

Target == [pid : Tids, pkg : Names, htr : BOOLEAN]

Job == [tid : Tids, pid : Tids, result : AffinityResult, dead : BOOLEAN]

MainTypeOK ==
    /\ IsMap(pkgs, Tids, PkgEntry)
    /\ IsMap(tasks, Tids, TaskEntry)
    /\ chan \in Seq(Event) /\ Len(chan) <= ChanBound
    /\ cfg \in Configs /\ scan_cfg \in Configs
    /\ inotify_fd \in BOOLEAN
    /\ need_full_scan \in BOOLEAN
    /\ pc \in PC
    /\ job \subseteq Job /\ \A j, k \in job : j = k
    /\ targets \subseteq Target
    /\ cur \subseteq Target /\ \A c, d \in cur : c = d
    /\ todo \subseteq Tids
    /\ dead \subseteq Tids

(* The program's variables have their types, a Rust Option has at most one *)
(* value, and no map or buffer holds more than its capacity.               *)
TypeOK == KernelTypeOK /\ Cardinality(target) <= TargetCap /\ MainTypeOK

Init ==
    /\ KernelInit
    /\ pkgs = EmptyMap /\ tasks = EmptyMap
    /\ chan = <<>>
    /\ cfg \in Configs /\ scan_cfg = cfg
    /\ inotify_fd \in BOOLEAN
    /\ need_full_scan = TRUE
    /\ pc = "top"
    /\ job = {} /\ targets = {} /\ cur = {} /\ todo = {} /\ dead = {}

Goto(label) == pc' = label

At(label) == pc = label /\ job = {}

-----------------------------------------------------------------------------
(* The reader thread moves an event from the ring buffer to the channel.   *)
ebpf_reader ==
    /\ ring # <<>>
    /\ Len(chan) < ChanBound
    /\ chan' = Append(chan, Head(ring))
    /\ ring' = Tail(ring)
    /\ UNCHANGED <<task, applied, target, lost, dropped, pkgs, tasks, cfg, watchVars,
                   need_full_scan, pc, job, targets, cur, todo, dead>>

-----------------------------------------------------------------------------
(* task_apply.                                                             *)

(* Faulty variant of affinity_set: a mask set before is not set again.     *)
affinity_set_once(tid, cpus) ==
    task' = IF tid \in DOMAIN task /\ tid \notin DOMAIN tasks
            THEN [task EXCEPT ![tid].aff = cpus \cap Present]
            ELSE task

(* affinity_set: tid's mask, if there is such a thread and the kernel      *)
(* takes the mask.                                                         *)
affinity_set(tid, cpus) ==
    task' = IF tid \in DOMAIN task /\ cpus \cap Present # {}
            THEN [task EXCEPT ![tid].aff = cpus \cap Present]
            ELSE task

(* task_apply, up to the point where apply_fn knows whether tid is dead.   *)
Apply(tid, pid, entry, comm, trust_comm) ==
    LET results == ResultToApply(tid, entry, comm, trust_comm, cfg)
    IN  \/ /\ results = {}
           /\ UNCHANGED <<task, tasks, job>>
        \/ \E r \in results :
              /\ tasks' = TasksWithout({tid})
              /\ affinity_set(tid, r.cpus)
              /\ job' = {[tid |-> tid, pid |-> pid, result |-> r,
                          dead |-> tid \notin DOMAIN task]}

(* The rest of it: event_affinity_apply's applied_set and the new entry,   *)
(* neither of them for a dead thread.                                      *)
Commit ==
    /\ \E j \in job :
          IF j.dead THEN UNCHANGED <<applied, lost, tasks>>
          ELSE /\ AppliedInsert(j.tid, j.tid \in DOMAIN task)
               /\ tasks' = Insert(tasks, j.tid, EntryFor(j.pid, j.result))
    /\ job' = {}
    /\ UNCHANGED <<task, target, ring, dropped, pkgs, chan, cfg, watchVars, need_full_scan,
                   pc, targets, cur, todo, dead>>

-----------------------------------------------------------------------------
(* The top of the loop, and the rescan a new configuration asks for.       *)

(* No news of the configuration file. *)
KeepConfig ==
    /\ At("top")
    /\ Goto(IF need_full_scan THEN "whitelist" ELSE "recv")
    /\ UNCHANGED <<kernelVars, pkgs, tasks, chan, cfg, watchVars, need_full_scan, job,
                   targets, cur, todo, dead>>

(* A new configuration and the rescan for it.  The descriptor may be lost  *)
(* with the file it was for.                                               *)
hot_reload ==
    /\ At("top")
    /\ cfg' \in Configs
    /\ inotify_fd' \in {inotify_fd, FALSE}
    /\ Goto("whitelist")
    /\ UNCHANGED <<kernelVars, pkgs, tasks, chan, scan_cfg, need_full_scan, job, targets,
                   cur, todo, dead>>

(* The file goes away again after the reload that inotify has asked for:   *)
(* there is nothing to watch, the mtime is newer, and the second reload    *)
(* fails and overwrites the first one's result.  The new configuration is  *)
(* in force without a rescan.  (With the same cfg: the first one fails.)   *)
hot_reload_unscanned ==
    /\ At("top") /\ inotify_fd
    /\ cfg' \in Configs
    /\ inotify_fd' = FALSE
    /\ Goto(IF need_full_scan THEN "whitelist" ELSE "recv")
    /\ UNCHANGED <<kernelVars, pkgs, tasks, chan, scan_cfg, need_full_scan, job, targets,
                   cur, todo, dead>>

WhitelistKeys == UNION {KeysOf[p] : p \in cfg.pkg_set}

(* comm_map_init removes the old keys, unless the new ones do not fit ...  *)
comm_map_init ==
    /\ At("whitelist")
    /\ IF Cardinality(WhitelistKeys) <= TargetCap
       THEN Goto("fill") /\ target' = {}
       ELSE Goto("clear") /\ UNCHANGED target
    /\ UNCHANGED <<task, applied, ring, lost, dropped, pkgs, tasks, chan, cfg, watchVars,
                   need_full_scan, job, targets, cur, todo, dead>>

(* ... and inserts the new ones. *)
comm_map_fill ==
    /\ At("fill")
    /\ target' = WhitelistKeys
    /\ Goto("clear")
    /\ UNCHANGED <<task, applied, ring, lost, dropped, pkgs, tasks, chan, cfg, watchVars,
                   need_full_scan, job, targets, cur, todo, dead>>

(* Faulty variant of full_scan_clear: the packages stay cached.            *)
full_scan_clear_tasks ==
    /\ At("clear")
    /\ tasks' = EmptyMap
    /\ todo' = applied
    /\ scan_cfg' = cfg
    /\ Goto("unmark")
    /\ UNCHANGED <<kernelVars, pkgs, chan, cfg, inotify_fd, need_full_scan, job, targets,
                   cur, dead>>

(* Faulty variant of full_scan_clear: the bindings stay cached.            *)
full_scan_clear_pkgs ==
    /\ At("clear")
    /\ pkgs' = EmptyMap
    /\ todo' = applied
    /\ scan_cfg' = cfg
    /\ Goto("unmark")
    /\ UNCHANGED <<kernelVars, tasks, chan, cfg, inotify_fd, need_full_scan, job, targets,
                   cur, dead>>

(* full_scan: pc.clear(), and applied_clear lists the keys of APPLIED_MAP  *)
(* before it removes them.                                                 *)
full_scan_clear ==
    /\ At("clear")
    /\ pkgs' = EmptyMap /\ tasks' = EmptyMap
    /\ todo' = applied
    /\ scan_cfg' = cfg
    /\ Goto("unmark")
    /\ UNCHANGED <<kernelVars, chan, cfg, inotify_fd, need_full_scan, job, targets, cur, dead>>

applied_clear ==
    /\ At("unmark")
    /\ applied' = applied \ todo
    /\ todo' = {}
    /\ Goto("list")
    /\ UNCHANGED <<task, target, ring, lost, dropped, pkgs, tasks, chan, cfg, watchVars,
                   need_full_scan, job, targets, cur, dead>>

(* read_cmdline of a process, or the comm of its main thread. *)
ProcessName(p) == IF task[p].cmd # Empty THEN task[p].cmd ELSE task[p].comm

interested(name) ==
    \/ name \in cfg.pkg_set
    \/ BaseName[name] \in cfg.pkg_set
    \/ \E w \in cfg.wild : fnmatch(w, name)

(* The exec reports under way that make the daemon forget their thread.    *)
Undoing ==
    {ev \in Range(ring) \cup Range(chan) :
        ev.type = "EXEC" /\ comm_to_pkg(ev.comm, cfg) = {}}

(* The scan makes up for the events lost before it, unless such a report   *)
(* is still to come, and undoes a binding that the scan has made.          *)
full_scan_list ==
    /\ At("list")
    /\ targets' = {[pid |-> p, pkg |-> ProcessName(p),
                    htr |-> pkg_has_thread_rules(ProcessName(p), cfg)] :
                      p \in {t \in MainThreads : interested(ProcessName(t))}}
    /\ dropped' = {ev.tid : ev \in Undoing}
    /\ Goto("scan")
    /\ UNCHANGED <<task, applied, target, ring, lost, pkgs, tasks, chan, cfg, watchVars,
                   need_full_scan, job, cur, todo, dead>>

(* task_tids of the next process, unless it has gone. *)
full_scan_process ==
    /\ At("scan") /\ cur = {}
    /\ \E p \in targets :
          /\ targets' = targets \ {p}
          /\ todo' = {t \in DOMAIN task : task[t].tgid = p.pid}
          /\ cur' = IF todo' = {} THEN {} ELSE {p}
    /\ UNCHANGED <<kernelVars, pkgs, tasks, chan, cfg, watchVars, need_full_scan, pc, job, dead>>

(* One thread of it: its comm, if the package has thread rules and the     *)
(* thread is still there, and its binding.                                 *)
full_scan_thread ==
    /\ At("scan")
    /\ \E p \in cur, t \in todo :
          /\ todo' = todo \ {t}
          /\ Apply(t, p.pid, [pkg |-> p.pkg, htr |-> p.htr],
                   IF t \in DOMAIN task THEN task[t].comm ELSE Empty, TRUE)
    /\ UNCHANGED <<applied, target, ring, lost, dropped, pkgs, chan, cfg, watchVars,
                   need_full_scan, pc, targets, cur, dead>>

(* The process's package, once all its threads are done. *)
full_scan_package ==
    /\ At("scan") /\ todo = {}
    /\ \E p \in cur : pkgs' = Insert(pkgs, p.pid, [pkg |-> p.pkg, htr |-> p.htr])
    /\ cur' = {}
    /\ UNCHANGED <<kernelVars, tasks, chan, cfg, watchVars, need_full_scan, pc, job, targets,
                   todo, dead>>

full_scan_end ==
    /\ At("scan") /\ targets = {} /\ cur = {}
    /\ need_full_scan' = FALSE
    /\ Goto("recv")
    /\ UNCHANGED <<kernelVars, pkgs, tasks, chan, cfg, watchVars, job, targets, cur, todo,
                   dead>>

-----------------------------------------------------------------------------
(* event_dispatch.  (The branches leave the kernel's other maps alone.)    *)

(* event_apply with the package cache pk: the package found for the event  *)
(* is cached, and its binding applied.                                     *)
event_apply(ev, pk, trust_comm) ==
    \E entry \in pkg_lookup_comm(pk, ev.pid, ev.comm, cfg) :
        /\ pkgs' = Insert(pk, ev.pid, entry)
        /\ Apply(ev.tid, ev.pid, entry, ev.comm, trust_comm)
        /\ dropped' = IF thread_affinity(entry.pkg, Empty, cfg) = {} THEN dropped \cup {ev.tid}
                      ELSE dropped

Unknown(ev, pk) == pkg_lookup_comm(pk, ev.pid, ev.comm, cfg) = {}

(* task_del and applied_del of the event's thread. *)
Forget(ev, pk) ==
    /\ tasks' = TasksWithout({ev.tid})
    /\ pkgs' = PkgsWithout(pk, {ev.tid})
    /\ applied' = applied \ {ev.tid}
    /\ UNCHANGED <<task, dropped, job>>

(* Faulty variant of OnExit: only the exit of a whole process counts.      *)
OnProcessExit(ev) ==
    /\ ev.type = "EXIT"
    /\ IF ev.tid = ev.pid THEN Forget(ev, Remove(pkgs, {ev.pid}))
       ELSE UNCHANGED <<task, tasks, pkgs, applied, dropped, job>>

(* Faulty variant of OnExit: pid and tid of the event mixed up.            *)
OnExitOfPid(ev) ==
    /\ ev.type = "EXIT"
    /\ Forget([ev EXCEPT !.tid = ev.pid], IF ev.tid = ev.pid THEN Remove(pkgs, {ev.pid}) ELSE pkgs)

OnExit(ev) ==
    /\ ev.type = "EXIT"
    /\ Forget(ev, IF ev.tid = ev.pid THEN Remove(pkgs, {ev.pid}) ELSE pkgs)

OnExec(ev) ==
    LET pk == Remove(pkgs, {ev.pid})
    IN  /\ ev.type = "EXEC"
        /\ \/ event_apply(ev, pk, TRUE) /\ UNCHANGED applied
           \/ Unknown(ev, pk) /\ Forget(ev, pk)

OnForkOrRename(ev) ==
    /\ ev.type \in {"FORK", "RENAME"}
    /\ \/ event_apply(ev, pkgs, ev.type = "RENAME" \/ ev.tid = ev.pid)
       \/ Unknown(ev, pkgs) /\ UNCHANGED <<task, dropped, tasks, pkgs, job>>
    /\ UNCHANGED applied

(* The next event of the channel, from recv_timeout or from try_recv. *)
event_dispatch ==
    /\ At("recv") /\ chan # <<>>
    /\ chan' = Tail(chan)
    /\ \/ OnExit(Head(chan))
       \/ OnExec(Head(chan))
       \/ OnForkOrRename(Head(chan))
    /\ UNCHANGED <<target, ring, lost, cfg, watchVars, need_full_scan, pc, targets,
                   cur, todo, dead>>

(* recv_timeout gives up, or try_recv finds the channel empty. *)
recv_done ==
    /\ At("recv") /\ chan = <<>>
    /\ Goto("timer")
    /\ UNCHANGED <<kernelVars, pkgs, tasks, chan, cfg, watchVars, need_full_scan, job, targets,
                   cur, todo, dead>>

-----------------------------------------------------------------------------
(* The affinity timer.                                                     *)

TimerNotDue ==
    /\ At("timer")
    /\ Goto("top")
    /\ UNCHANGED <<kernelVars, pkgs, tasks, chan, cfg, watchVars, need_full_scan, job, targets,
                   cur, todo, dead>>

affinity_sync_start ==
    /\ At("timer")
    /\ todo' = DOMAIN tasks
    /\ Goto("sync")
    /\ UNCHANGED <<kernelVars, pkgs, tasks, chan, cfg, watchVars, need_full_scan, job, targets,
                   cur, dead>>

affinity_sync_thread ==
    /\ At("sync")
    /\ \E t \in todo :
          /\ todo' = todo \ {t}
          /\ affinity_set(t, tasks[t].cpus)
          /\ dead' = IF t \in DOMAIN task THEN dead ELSE dead \cup {t}
    /\ UNCHANGED <<applied, target, ring, lost, dropped, pkgs, tasks, chan, cfg, watchVars,
                   need_full_scan, pc, job, targets, cur>>

(* task_del and applied_del of the dead threads. *)
affinity_sync_end ==
    /\ At("sync") /\ todo = {}
    /\ tasks' = TasksWithout(dead)
    /\ pkgs' = PkgsWithout(pkgs, dead)
    /\ applied' = applied \ dead
    /\ dead' = {}
    /\ Goto("top")
    /\ UNCHANGED <<task, target, ring, lost, dropped, chan, cfg, watchVars, need_full_scan, job,
                   targets, cur, todo>>

-----------------------------------------------------------------------------

full_scan ==
    \/ comm_map_init \/ comm_map_fill
    \/ full_scan_clear \/ applied_clear \/ full_scan_list
    \/ full_scan_process \/ full_scan_thread \/ full_scan_package \/ full_scan_end

affinity_sync == affinity_sync_start \/ affinity_sync_thread \/ affinity_sync_end

(* A step the main thread takes by itself, without a new configuration. *)
MainStep ==
    \/ KeepConfig \/ full_scan
    \/ event_dispatch \/ recv_done \/ Commit
    \/ TimerNotDue \/ affinity_sync

(* The ids the daemon is busy with: those of the events under way, of the  *)
(* bindings it keeps (until affinity_sync at the latest) or is making, and *)
(* of the tasks a loop has seen but is not done with.                      *)
InFlight ==
    {ev.tid : ev \in Range(ring) \cup Range(chan)}
        \cup DOMAIN tasks \cup {j.tid : j \in job}
        \cup {p.pid : p \in targets \cup cur} \cup todo \cup dead

(* The kernel hands out ids in cyclic order, tens of thousands of them, so *)
(* without QuickReuse a new task never gets an id that is in flight.       *)
KernelStep ==
    /\ KernelNext
    /\ QuickReuse \/ (DOMAIN task' \ DOMAIN task) \cap InFlight = {}
    /\ UNCHANGED mainVars

Next ==
    \/ KernelStep
    \/ ebpf_reader
    \/ hot_reload \/ hot_reload_unscanned
    \/ MainStep

Spec == Init /\ [][Next]_vars

(* Both threads run, and the wall clock passes the affinity deadline again *)
(* and again.  The drain loop ends: there are always later moments without *)
(* an event to handle.  The code does not see to that (try_recv is called  *)
(* until the channel is empty): the system does, which creates and renames *)
(* tasks more slowly than the daemon handles the events.                   *)
Fairness ==
    /\ WF_vars(ebpf_reader)
    /\ WF_vars(MainStep)
    /\ SF_vars(recv_done)
    /\ SF_vars(affinity_sync_start)

EventsPause == []<>(pc = "recv" => job = {} /\ chan = <<>>)

FairSpec == Spec /\ Fairness /\ EventsPause

-----------------------------------------------------------------------------
(* Safety.                                                                 *)

Pending(type, t) ==
    \E ev \in Range(ring) \cup Range(chan) : ev.type = type /\ ev.tid = t

(* The exit of every bound thread reaches the daemon: the thread runs and  *)
(* is marked, so that the exit program will report it, or its report is    *)
(* under way.  Only affinity_sync is left to find it in three cases: LRU   *)
(* eviction took the mark, EVENTS was full, or the thread ended between    *)
(* affinity_set and applied_set (main.rs:43), which marks a dead tid.      *)
ExitSeen(t) == (t \in applied /\ t \in DOMAIN task) \/ Pending("EXIT", t)

NoBlindBinding == \A t \in DOMAIN tasks : ExitSeen(t) \/ t \in lost

(* Nothing of an old configuration survives a reload: outside the steps    *)
(* between loading one and clearing the cache, every cached package and    *)
(* every binding follows from the rules in force; once the descriptor is   *)
(* lost, and with it perhaps a rescan (main.rs:318), from them or those of *)
(* the last scan, of none older.  What is about to be bound or scanned     *)
(* follows from the rules in force.                                        *)
Effective == IF inotify_fd THEN {cfg} ELSE {cfg, scan_cfg}

FromRules(pid, entry, c) ==
    \E pkg \in Names, name \in Names \cup {Empty} :
        \E r \in thread_affinity(pkg, name, c) : entry = EntryFor(pid, r)

ConfigCoherent ==
    pc \notin {"whitelist", "fill", "clear"} =>
        /\ \A p \in DOMAIN pkgs :
              \E c \in Effective : pkgs[p].htr = pkg_has_thread_rules(pkgs[p].pkg, c)
        /\ \A t \in DOMAIN tasks : \E c \in Effective : FromRules(tasks[t].pid, tasks[t], c)
        /\ \A j \in job : FromRules(j.pid, EntryFor(j.pid, j.result), cfg)
        /\ \A p \in targets \cup cur : p.htr = pkg_has_thread_rules(p.pkg, cfg)

(* The cpuset directory a thread is put in is the one of the CPUs it is    *)
(* bound to, or the base directory: moving it there never takes away CPUs  *)
(* of its mask (rule_match.rs:27).                                         *)
CpusetDirAgrees ==
    \A t \in DOMAIN tasks : tasks[t].cpuset_dir \in {{}, tasks[t].cpus}

(* A thread bound by a thread rule, or about to be, loses that binding     *)
(* only to a rescan, to its exit or exec, or by being found dead: never to *)
(* a fallback, however its name changes in between (proccache.rs:56).      *)
ThreadBound(t) ==
    \/ t \in DOMAIN tasks /\ tasks[t].is_thread_rule
    \/ \E j \in job : j.tid = t /\ j.result.is_thread_rule

Reports(ev, t) == ev.tid = t /\ ev.type \in {"EXIT", "EXEC"}

ThreadBindingKept ==
    [][\A t \in Tids :
          ThreadBound(t) /\ ~ ThreadBound(t)' =>
              \/ pc = "clear"
              \/ chan # <<>> /\ Reports(Head(chan), t)
              \/ t \in dead
              \/ \E j \in job : j.tid = t /\ j.dead]_vars

(* A live thread keeps its binding but for a rescan, its own exec, or a    *)
(* new binding on the way: no exit of another thread, no purge of a dead   *)
(* one and no late event takes it away.                                    *)
LiveBindingKept ==
    [][\A t \in DOMAIN tasks \cap DOMAIN task :
          t \notin DOMAIN tasks' =>
              \/ pc = "clear"
              \/ chan # <<>> /\ Head(chan).tid = t /\ Head(chan).type = "EXEC"
              \/ \E j \in job' : j.tid = t]_vars

(* Once all events are handled, every running process that has the name of *)
(* a configured package is bound, whether the scan found it or an event    *)
(* did, unless an event of its own was lost, or spent on a package without *)
(* CPUs, that no scan has made up for (full_scan_list), or the rules are   *)
(* newer than the last scan (hot_reload_unscanned).                        *)
Quiet == At("recv") /\ ring = <<>> /\ chan = <<>>

Configured(name) == name \in cfg.pkg_set /\ thread_affinity(name, Empty, cfg) # {}

ProcessCovered ==
    Quiet /\ scan_cfg = cfg =>
        \A t \in MainThreads \ dropped :
            Configured(task[t].cmd) /\ task[t].cmd \in CommPkgs[task[t].comm] =>
                t \in DOMAIN tasks

-----------------------------------------------------------------------------
(* Refinement.                                                             *)

(* A thread is bound once its mask is set: before its entry is stored, and *)
(* not at all if it was found dead.                                        *)
Underway == {j \in job : ~ j.dead}

Bound ==
    [t \in DOMAIN tasks \cup {j.tid : j \in Underway} |->
        LET entries == {tasks[u] : u \in DOMAIN tasks \cap {t}}
            results == {j.result : j \in {j \in Underway : j.tid = t}}
            b       == CHOOSE b \in (IF results # {} THEN results ELSE entries) : TRUE
        IN  [cpus |-> b.cpus, is_thread_rule |-> b.is_thread_rule]]

Abstract == INSTANCE Bindings WITH bound <- Bound, rules <- cfg, kept <- scan_cfg

(* The eBPF mode keeps the promises of Bindings: it binds by the rules in  *)
(* force only, beside bindings of the last scan's rules at most, releases  *)
(* all of them when it scans, and replaces no thread rule binding by a     *)
(* default, through scans, events and reloads.                             *)
ImplementsBindings == Abstract!Spec

-----------------------------------------------------------------------------
(* What the repository says and the code does not keep to: each of these   *)
(* is refuted by a run.                                                    *)

(* "other" binds all threads of the application (README.md:65): once all  *)
(* events are handled and none was dropped, a bound process has no unbound *)
(* thread.                                                                 *)
EveryThreadBound ==
    Quiet /\ dropped = {} =>
        \A t \in DOMAIN task : task[t].tgid \in DOMAIN tasks => t \in DOMAIN tasks

(* "comm" binds threads by their names (README.md:66): once all events are *)
(* handled and none was dropped, a bound thread with a name that has a     *)
(* thread rule is bound by a thread rule.                                  *)
NamedThreadBound ==
    Quiet /\ dropped = {} =>
        \A t \in DOMAIN tasks \cap DOMAIN task :
            LET pid == task[t].tgid
            IN  (pid \in DOMAIN pkgs
                   /\ ThreadRules(pkgs[pid].pkg, task[t].comm, cfg) # {})
                => tasks[t].is_thread_rule

(* "other" is about this application (README.md:65): a running application *)
(* is bound by the rules of its own package, whoever had its id before.    *)
BoundByOwnPackage ==
    Quiet /\ dropped = {} =>
        \A t \in MainThreads \cap DOMAIN tasks :
            task[t].cmd \in cfg.pkg_set =>
                \E name \in Names \cup {Empty} :
                    \E r \in thread_affinity(task[t].cmd, name, cfg) :
                        [tasks[t] EXCEPT !.pid = t] = EntryFor(t, r)

-----------------------------------------------------------------------------
(* Liveness.                                                               *)

(* The entry of a dead thread goes away, even when the kernel has lost the *)
(* mark or the report of its exit (unless a new thread gets the tid).      *)
DeadPurged ==
    \A t \in Tids :
        t \in DOMAIN tasks \ DOMAIN task ~> t \notin DOMAIN tasks \ DOMAIN task

(* A binding that something else has undone is restored again and again.   *)
AffinityRestored ==
    \A t \in Tids :
        []<>(t \in DOMAIN tasks \cap DOMAIN task => task[t].aff = tasks[t].cpus \cap Present)
=============================================================================
