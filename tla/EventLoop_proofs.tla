-------------------------- MODULE EventLoop_proofs --------------------------
(***************************************************************************)
(* The safety of the eBPF mode, for every number of tasks, names, CPUs and *)
(* configurations.  The inductive invariant IInv adds to the properties    *)
(* what the program counter says about the rest of the main thread's       *)
(* state; each action is shown to keep it in a lemma of its own.  With it, *)
(* EventLoop implements Bindings.                                          *)
(***************************************************************************)
EXTENDS EventLoop, Tracepoints_proofs, TLAPS

USE DEF watchVars

(* A binding is between Apply and Commit only while a thread is scanned or *)
(* an event is handled, and its thread has no entry meanwhile.             *)
JobPlace == job # {} => pc \in {"scan", "recv"}

JobUntracked == \A j \in job : j.tid \notin DOMAIN tasks

(* Only a scan has processes to visit; no thread is bound between clearing *)
(* the cache and listing the processes; the keys to be written do fit.     *)
ScanPlace == pc # "scan" => targets = {} /\ cur = {}

NothingBound == pc = "unmark" => tasks = EmptyMap

KeysFit == pc = "fill" => Cardinality(WhitelistKeys) <= TargetCap

(* As long as there is a descriptor, a reload is followed by a scan.       *)
Reloading == pc \in {"whitelist", "fill", "clear"}

ScanUpToDate == inotify_fd /\ ~ Reloading => scan_cfg = cfg

IInv ==
    /\ TypeOK
    /\ JobPlace /\ JobUntracked /\ ScanPlace /\ NothingBound /\ KeysFit
    /\ NoBlindBinding
    /\ ConfigCoherent /\ ScanUpToDate

(* What ConfigCoherent says of a cached package and of a binding.          *)
RightHtr(entry) == \E c \in Effective : entry.htr = pkg_has_thread_rules(entry.pkg, c)

Follows(entry) == \E c \in Effective : FromRules(entry.pid, entry, c)

LEMMA CoherentNow ==
    ASSUME IInv, ~ Reloading
    PROVE  /\ \A p \in DOMAIN pkgs : RightHtr(pkgs[p])
           /\ \A t \in DOMAIN tasks : Follows(tasks[t])
           /\ \A j \in job : FromRules(j.pid, EntryFor(j.pid, j.result), cfg)
           /\ \A p \in targets \cup cur : p.htr = pkg_has_thread_rules(p.pkg, cfg)
    BY DEF IInv, ConfigCoherent, Reloading, RightHtr, Follows

(* What the next state has to satisfy while the configuration stays.       *)
LEMMA CoherentNext ==
    ASSUME IInv, cfg' = cfg, watchVars' = watchVars, ~ Reloading,
           \A p \in DOMAIN pkgs' : RightHtr(pkgs'[p]),
           \A t \in DOMAIN tasks' : Follows(tasks'[t]),
           \A j \in job' : FromRules(j.pid, EntryFor(j.pid, j.result), cfg),
           \A p \in targets' \cup cur' : p.htr = pkg_has_thread_rules(p.pkg, cfg)
    PROVE  (ConfigCoherent /\ ScanUpToDate)'
<1>1. Effective' = Effective /\ inotify_fd' = inotify_fd /\ scan_cfg' = scan_cfg
    BY DEF Effective, watchVars
<1>2. ScanUpToDate'
    BY <1>1 DEF IInv, ScanUpToDate
<1>3. ConfigCoherent'
    BY <1>1 DEF ConfigCoherent, RightHtr, Follows
<1> QED
    BY <1>2, <1>3

(* A step that leaves all of it alone.                                     *)
LEMMA CoherentSame ==
    ASSUME IInv, UNCHANGED <<pkgs, tasks, cfg, watchVars, job, targets, cur>>,
           Reloading => Reloading'
    PROVE  (ConfigCoherent /\ ScanUpToDate)'
<1>1. CASE Reloading'
    BY <1>1 DEF Reloading, ConfigCoherent, ScanUpToDate
<1>2. CASE ~ Reloading
    BY <1>2, CoherentNow, CoherentNext
<1> QED
    BY <1>1, <1>2

-----------------------------------------------------------------------------

LEMMA EmptyMapFacts ==
    DOMAIN EmptyMap = {} /\ \A K, V : IsMap(EmptyMap, K, V)
    BY DEF EmptyMap, IsMap

(* task_del leaves the maps typed, and the other threads' entries alone.   *)
LEMMA TaskDel ==
    ASSUME IsMap(tasks, Tids, TaskEntry), NEW T
    PROVE  /\ IsMap(TasksWithout(T), Tids, TaskEntry)
           /\ DOMAIN TasksWithout(T) = DOMAIN tasks \ T
           /\ \A t \in DOMAIN tasks \ T : TasksWithout(T)[t] = tasks[t]
<1>1. IsMap(Remove(tasks, T), Tids, TaskEntry)
    BY RemoveType
<1>2. /\ DOMAIN Remove(tasks, T) = DOMAIN tasks \ T
      /\ \A t \in DOMAIN tasks \ T : Remove(tasks, T)[t] = tasks[t]
    BY RemoveProperties
<1> QED
    BY <1>1, <1>2 DEF TasksWithout

LEMMA PkgDel ==
    ASSUME NEW pk, IsMap(pk, Tids, PkgEntry), NEW T
    PROVE  /\ IsMap(PkgsWithout(pk, T), Tids, PkgEntry)
           /\ DOMAIN PkgsWithout(pk, T) \subseteq DOMAIN pk
           /\ \A p \in DOMAIN PkgsWithout(pk, T) : PkgsWithout(pk, T)[p] = pk[p]
<1>1. PICK keys : PkgsWithout(pk, T) = Remove(pk, keys)
    BY DEF PkgsWithout, pkgs_purge
<1>2. IsMap(Remove(pk, keys), Tids, PkgEntry)
    BY RemoveType
<1>3. /\ DOMAIN Remove(pk, keys) = DOMAIN pk \ keys
      /\ \A p \in DOMAIN pk \ keys : Remove(pk, keys)[p] = pk[p]
    BY RemoveProperties
<1> QED
    BY <1>1, <1>2, <1>3

LEMMA AffinitySetType ==
    ASSUME IsMap(task, Tids, Task), NEW tid, NEW cpus \in SUBSET Cpus, affinity_set(tid, cpus)
    PROVE  IsMap(task', Tids, Task) /\ DOMAIN task' = DOMAIN task
<1>1. CASE tid \in DOMAIN task /\ cpus \cap Present # {}
    BY <1>1 DEF affinity_set, IsMap, Task
<1>2. CASE ~ (tid \in DOMAIN task /\ cpus \cap Present # {})
    BY <1>2 DEF affinity_set
<1> QED
    BY <1>1, <1>2

(* A binding that follows from the rules in force.                         *)
LEMMA ResultFollows ==
    ASSUME TypeOK, NEW tid, NEW pid, NEW entry \in PkgEntry,
           NEW comm \in Names \cup {Empty}, NEW trust,
           NEW r \in ResultToApply(tid, entry, comm, trust, cfg)
    PROVE  r \in AffinityResult /\ FromRules(pid, EntryFor(pid, r), cfg)
<1>1. entry.pkg \in Names /\ cfg \in AppConfig
    BY LoopAssumption DEF PkgEntry, TypeOK, MainTypeOK
<1>2. PICK name \in Names \cup {Empty} : r \in thread_affinity(entry.pkg, name, cfg)
    BY ResultFromRules
<1>3. r \in AffinityResult
    BY <1>1, <1>2, ThreadAffinityType
<1> QED
    BY <1>1, <1>2, <1>3 DEF FromRules

(* Apply gives a typed job whose binding follows from the rules, and only  *)
(* ever removes the entry of the thread it binds.                          *)
LEMMA ApplyStep ==
    ASSUME TypeOK, job = {}, NEW tid \in Tids, NEW pid \in Tids, NEW entry \in PkgEntry,
           NEW comm \in Names \cup {Empty}, NEW trust, Apply(tid, pid, entry, comm, trust)
    PROVE  /\ IsMap(task', Tids, Task) /\ DOMAIN task' = DOMAIN task
           /\ IsMap(tasks', Tids, TaskEntry)
           /\ DOMAIN tasks' \subseteq DOMAIN tasks
           /\ \A t \in DOMAIN tasks' : tasks'[t] = tasks[t]
           /\ job' \subseteq Job /\ \A j, k \in job' : j = k
           /\ \A j \in job' : /\ FromRules(j.pid, EntryFor(j.pid, j.result), cfg)
                              /\ j.tid \notin DOMAIN tasks'
           /\ \A t \in Tids : ThreadBound(t) => ThreadBound(t)'
<1> DEFINE results == ResultToApply(tid, entry, comm, trust, cfg)
<1>1. CASE results = {} /\ UNCHANGED <<task, tasks, job>>
    BY <1>1 DEF TypeOK, KernelTypeOK, MainTypeOK, ThreadBound
<1>2. ASSUME NEW r \in results,
             tasks' = TasksWithout({tid}), affinity_set(tid, r.cpus),
             job' = {[tid |-> tid, pid |-> pid, result |-> r, dead |-> tid \notin DOMAIN task]}
      PROVE  /\ IsMap(task', Tids, Task) /\ DOMAIN task' = DOMAIN task
             /\ IsMap(tasks', Tids, TaskEntry)
             /\ DOMAIN tasks' \subseteq DOMAIN tasks
             /\ \A t \in DOMAIN tasks' : tasks'[t] = tasks[t]
             /\ job' \subseteq Job /\ \A j, k \in job' : j = k
             /\ \A j \in job' : /\ FromRules(j.pid, EntryFor(j.pid, j.result), cfg)
                                /\ j.tid \notin DOMAIN tasks'
             /\ \A t \in Tids : ThreadBound(t) => ThreadBound(t)'
  <2>1. r \in AffinityResult /\ FromRules(pid, EntryFor(pid, r), cfg)
    BY ResultFollows
  <2>2. IsMap(task', Tids, Task) /\ DOMAIN task' = DOMAIN task
    BY <1>2, <2>1, AffinitySetType DEF AffinityResult, TypeOK, KernelTypeOK
  <2>3. /\ IsMap(tasks', Tids, TaskEntry)
        /\ DOMAIN tasks' = DOMAIN tasks \ {tid}
        /\ \A t \in DOMAIN tasks' : tasks'[t] = tasks[t]
    BY <1>2, TaskDel DEF TypeOK, MainTypeOK
  <2> DEFINE late == tid \notin DOMAIN task
             j == [tid |-> tid, pid |-> pid, result |-> r, dead |-> late]
  <2>4. late \in BOOLEAN
    OBVIOUS
  <2> HIDE DEF late
  <2>5. j \in Job /\ j.tid = tid /\ j.pid = pid /\ j.result = r
    BY <2>1, <2>4 DEF Job
  <2>6. job' = {j}
    BY <1>2 DEF late
  <2> HIDE DEF j
  <2>7. \A t \in Tids : ThreadBound(t) => ThreadBound(t)'
    <3> SUFFICES ASSUME NEW t \in Tids, t \in DOMAIN tasks, tasks[t].is_thread_rule
                 PROVE  ThreadBound(t)'
        BY DEF ThreadBound
    <3>1. CASE t = tid
        <4>1. r.is_thread_rule
            BY <1>2, <3>1 DEF ResultToApply
        <4> QED
            BY <2>5, <2>6, <3>1, <4>1 DEF ThreadBound
    <3>2. CASE t # tid
        BY <2>3, <3>2 DEF ThreadBound
    <3> QED
        BY <3>1, <3>2
  <2> QED
    BY <2>1, <2>2, <2>3, <2>5, <2>6, <2>7
<1> QED
    BY <1>1, <1>2 DEF Apply

-----------------------------------------------------------------------------
(* NoBlindBinding in terms of what the kernel and the channel know.        *)

Heard == {ev.tid : ev \in {e \in Range(chan) : e.type = "EXIT"}}

LEMMA Blind == NoBlindBinding <=> DOMAIN tasks \subseteq Known \cup Heard
    BY DEF NoBlindBinding, ExitSeen, Pending, Known, Heard

LEMMA BlindNext ==
    (DOMAIN tasks \subseteq Known \cup Heard)' => NoBlindBinding'
    BY DEF NoBlindBinding, ExitSeen, Pending, Known, Heard

-----------------------------------------------------------------------------
(* Every step keeps the invariant.                                         *)

LEMMA KernelKeeps ==
    ASSUME IInv, KernelStep
    PROVE  IInv'
<1>1. KernelTypeOK' /\ Known \subseteq Known' /\ target' = target
    BY KernelSafe DEF IInv, TypeOK, KernelStep
<1>2. UNCHANGED mainVars
    BY DEF KernelStep
<1>3. MainTypeOK'
    BY <1>2 DEF mainVars, IInv, TypeOK, MainTypeOK
<1>4. NoBlindBinding'
    BY <1>1, <1>2, Blind, BlindNext DEF mainVars, IInv, Heard
<1>5. (JobPlace /\ JobUntracked /\ ScanPlace /\ NothingBound /\ KeysFit)'
    BY <1>2 DEF mainVars, IInv, JobPlace, JobUntracked, ScanPlace, NothingBound,
                KeysFit, WhitelistKeys
<1>6. (ConfigCoherent /\ ScanUpToDate)'
    BY <1>2, CoherentSame DEF mainVars, Reloading
<1> QED
    BY <1>1, <1>3, <1>4, <1>5, <1>6 DEF IInv, TypeOK

LEMMA ReaderKeeps ==
    ASSUME IInv, ebpf_reader
    PROVE  IInv'
<1> USE DEF ebpf_reader
<1>1. ring \in Seq(Event) /\ ring # <<>> /\ chan \in Seq(Event)
    BY DEF IInv, TypeOK, KernelTypeOK, MainTypeOK
<1>2. /\ Head(ring) \in Event /\ Tail(ring) \in Seq(Event)
      /\ Len(Tail(ring)) = Len(ring) - 1 /\ Len(ring) \in Nat
    BY <1>1, HeadTailProperties, LenProperties
<1>3. /\ Append(chan, Head(ring)) \in Seq(Event)
      /\ Len(Append(chan, Head(ring))) = Len(chan) + 1 /\ Len(chan) \in Nat
    BY <1>1, <1>2, AppendProperties, LenProperties
<1>4. KernelTypeOK'
    BY <1>2, KernelAssumption DEF IInv, TypeOK, KernelTypeOK
<1>5. MainTypeOK'
    BY <1>3, LoopAssumption DEF IInv, TypeOK, MainTypeOK
<1>6. NoBlindBinding'
  <2>1. Range(ring) = {Head(ring)} \cup Range(ring')
    BY <1>1, RangeTail
  <2>2. Range(chan') = Range(chan) \cup {Head(ring)}
    BY <1>1, <1>2, RangeAppend
  <2>3. Known \cup Heard \subseteq Known' \cup Heard'
    BY <2>1, <2>2 DEF Known, Heard
  <2> QED
    BY <2>3, Blind, BlindNext DEF IInv
<1>7. (JobPlace /\ JobUntracked /\ ScanPlace /\ NothingBound /\ KeysFit)'
    BY DEF IInv, JobPlace, JobUntracked, ScanPlace, NothingBound, KeysFit, WhitelistKeys
<1>8. (ConfigCoherent /\ ScanUpToDate)'
    BY CoherentSame DEF Reloading
<1> QED
    BY <1>4, <1>5, <1>6, <1>7, <1>8 DEF IInv, TypeOK

(* The steps that only move the program counter.                           *)
LEMMA MoveKeeps ==
    ASSUME IInv, KeepConfig \/ recv_done \/ TimerNotDue
    PROVE  IInv'
<1> USE DEF KeepConfig, recv_done, TimerNotDue, At, Goto
<1>1. /\ UNCHANGED <<kernelVars, pkgs, tasks, chan, cfg, watchVars, need_full_scan, job, targets, cur,
                     todo, dead>>
      /\ job = {} /\ pc \in {"top", "recv", "timer"}
      /\ pc' \in {"top", "whitelist", "recv", "timer"}
    OBVIOUS
<1>2. TypeOK'
    BY <1>1 DEF kernelVars, IInv, TypeOK, KernelTypeOK, MainTypeOK, PC
<1>3. (JobPlace /\ JobUntracked /\ ScanPlace /\ NothingBound /\ KeysFit)'
    BY <1>1 DEF IInv, JobPlace, JobUntracked, ScanPlace, NothingBound, KeysFit
<1>4. NoBlindBinding'
    BY <1>1, Blind, BlindNext DEF kernelVars, IInv, Known, Heard
<1>5. (ConfigCoherent /\ ScanUpToDate)'
    BY <1>1, CoherentSame DEF Reloading
<1> QED
    BY <1>2, <1>3, <1>4, <1>5 DEF IInv

(* A reload goes on to the scan, or else the bindings follow from rules    *)
(* that are the last scan's from now on.                                   *)
LEMMA ReloadKeeps ==
    ASSUME IInv, hot_reload \/ hot_reload_unscanned
    PROVE  IInv'
<1> USE DEF hot_reload, hot_reload_unscanned, At, Goto
<1>1. TypeOK'
    BY DEF kernelVars, IInv, TypeOK, KernelTypeOK, MainTypeOK, PC
<1>2. (JobPlace /\ JobUntracked /\ ScanPlace /\ NothingBound /\ KeysFit)'
    BY DEF IInv, JobPlace, JobUntracked, ScanPlace, NothingBound, KeysFit
<1>3. NoBlindBinding'
    BY Blind, BlindNext DEF kernelVars, IInv, Known, Heard
<1>4. (ConfigCoherent /\ ScanUpToDate)'
  <2>1. CASE Reloading'
    BY <2>1 DEF Reloading, ConfigCoherent, ScanUpToDate
  <2>2. CASE ~ Reloading'
    <3>1. /\ pc = "top" /\ job = {} /\ job' = {} /\ inotify_fd /\ ~ inotify_fd'
          /\ UNCHANGED <<pkgs, tasks, scan_cfg, targets, cur>>
        BY <2>2 DEF Reloading
    <3>2. ~ Reloading /\ scan_cfg = cfg
        BY <3>1 DEF Reloading, IInv, ScanUpToDate
    <3>3. Effective \subseteq Effective'
        BY <3>1, <3>2 DEF Effective
    <3>4. /\ \A p \in DOMAIN pkgs : RightHtr(pkgs[p])
          /\ \A t \in DOMAIN tasks : Follows(tasks[t])
        BY <3>2, CoherentNow
    <3>5. targets = {} /\ cur = {}
        BY <3>1 DEF IInv, ScanPlace
    <3> QED
        BY <3>1, <3>3, <3>4, <3>5 DEF ConfigCoherent, ScanUpToDate, RightHtr, Follows
  <2> QED
    BY <2>1, <2>2
<1> QED
    BY <1>1, <1>2, <1>3, <1>4 DEF IInv

LEMMA WhitelistKeeps ==
    ASSUME IInv, comm_map_init \/ comm_map_fill
    PROVE  IInv'
<1> USE DEF comm_map_init, comm_map_fill, At, Goto
<1>1. /\ UNCHANGED <<task, applied, ring, lost, dropped, pkgs, tasks, chan, cfg, watchVars,
                     need_full_scan, job, targets, cur, todo, dead>>
      /\ job = {} /\ pc \in {"whitelist", "fill"} /\ pc' \in {"fill", "clear"}
    OBVIOUS
<1>2. TypeOK'
  <2>1. Cardinality(target') <= TargetCap
    BY FS_EmptySet, LoopAssumption DEF IInv, KeysFit, TypeOK
  <2> QED
    BY <1>1, <2>1 DEF IInv, TypeOK, KernelTypeOK, MainTypeOK, PC
<1>3. KeysFit'
    BY <1>1 DEF IInv, KeysFit, WhitelistKeys
<1>4. (JobPlace /\ JobUntracked /\ ScanPlace /\ NothingBound)'
    BY <1>1 DEF IInv, JobPlace, JobUntracked, ScanPlace, NothingBound
<1>6. (ConfigCoherent /\ ScanUpToDate)'
    BY <1>1 DEF Reloading, ConfigCoherent, ScanUpToDate
<1>5. NoBlindBinding'
    BY <1>1, Blind, BlindNext DEF IInv, Known, Heard
<1> QED
    BY <1>2, <1>3, <1>4, <1>5, <1>6 DEF IInv

(* Clearing the cache, and then the marks, leaves nothing bound.           *)
LEMMA ClearKeeps ==
    ASSUME IInv, full_scan_clear
    PROVE  IInv'
<1> USE DEF full_scan_clear, At, Goto
<1>1. TypeOK'
    BY EmptyMapFacts DEF kernelVars, IInv, TypeOK, KernelTypeOK, MainTypeOK, PC
<1>2. (JobPlace /\ JobUntracked /\ ScanPlace /\ NothingBound /\ KeysFit)'
    BY DEF IInv, JobPlace, JobUntracked, ScanPlace, NothingBound, KeysFit
<1>3. (NoBlindBinding /\ ConfigCoherent /\ ScanUpToDate)'
    BY EmptyMapFacts DEF IInv, NoBlindBinding, ConfigCoherent, ScanUpToDate, ScanPlace
<1> QED
    BY <1>1, <1>2, <1>3 DEF IInv

LEMMA UnmarkKeeps ==
    ASSUME IInv, applied_clear
    PROVE  IInv'
<1> USE DEF applied_clear, At, Goto
<1>1. TypeOK'
  <2>1. IsFiniteSet(applied) /\ applied' \subseteq applied
    BY CacheAssumption, FS_Subset DEF IInv, TypeOK, KernelTypeOK
  <2>2. Cardinality(applied') <= Cardinality(applied) /\ IsFiniteSet(applied')
    BY <2>1, FS_Subset
  <2>3. Cardinality(applied') <= AppliedCap
    BY <2>1, <2>2, FS_CardinalityType, KernelAssumption DEF IInv, TypeOK, KernelTypeOK
  <2> QED
    BY <2>1, <2>3 DEF IInv, TypeOK, KernelTypeOK, MainTypeOK, PC
<1>2. (JobPlace /\ JobUntracked /\ ScanPlace /\ NothingBound /\ KeysFit)'
    BY DEF IInv, JobPlace, JobUntracked, ScanPlace, NothingBound, KeysFit
<1>3. NoBlindBinding'
    BY EmptyMapFacts DEF IInv, NothingBound, NoBlindBinding
<1>4. (ConfigCoherent /\ ScanUpToDate)'
    BY CoherentSame DEF Reloading
<1> QED
    BY <1>1, <1>2, <1>3, <1>4 DEF IInv

(* The name a process is known by, and whether it has thread rules.        *)
LEMMA TargetType ==
    ASSUME TypeOK, NEW p \in MainThreads
    PROVE  [pid |-> p, pkg |-> ProcessName(p),
            htr |-> pkg_has_thread_rules(ProcessName(p), cfg)] \in Target
<1>1. p \in Tids /\ task[p] \in Task
    BY DEF MainThreads, TypeOK, KernelTypeOK, IsMap
<1>2. ProcessName(p) \in Names
    BY <1>1 DEF ProcessName, Task
<1> DEFINE name == ProcessName(p)
           htr == pkg_has_thread_rules(name, cfg)
<1>3. htr \in BOOLEAN
    BY DEF pkg_has_thread_rules
<1> HIDE DEF name, htr
<1>4. name \in Names
    BY <1>2 DEF name
<1>5. [pid |-> p, pkg |-> name, htr |-> htr] \in Target
    BY <1>1, <1>3, <1>4 DEF Target
<1> QED
    BY <1>5 DEF name, htr

LEMMA ListKeeps ==
    ASSUME IInv, full_scan_list
    PROVE  IInv'
<1> USE DEF full_scan_list, At, Goto
<1>1. targets' \subseteq Target
    BY TargetType DEF IInv
<1>2. TypeOK'
  <2>1. ring \in Seq(Event) /\ chan \in Seq(Event)
    BY DEF IInv, TypeOK, KernelTypeOK, MainTypeOK
  <2>2. Range(ring) \subseteq Event /\ Range(chan) \subseteq Event
    BY <2>1, LenProperties, ElementOfSeq DEF Range
  <2>3. dropped' \subseteq Tids
    BY <2>2 DEF Undoing, Event
  <2> QED
    BY <1>1, <2>3 DEF IInv, TypeOK, KernelTypeOK, MainTypeOK, PC
<1>3. (JobPlace /\ JobUntracked /\ ScanPlace /\ NothingBound /\ KeysFit)'
    BY DEF IInv, JobPlace, JobUntracked, ScanPlace, NothingBound, KeysFit
<1>4. NoBlindBinding'
    BY Blind, BlindNext DEF IInv, Known, Heard
<1>5. (ConfigCoherent /\ ScanUpToDate)'
  <2>1. cur = {} /\ ~ Reloading /\ UNCHANGED <<pkgs, tasks, job, cfg, watchVars, cur>>
    BY DEF IInv, ScanPlace, Reloading
  <2>2. \A p \in targets' : p.htr = pkg_has_thread_rules(p.pkg, cfg)
    OBVIOUS
  <2> QED
    BY <2>1, <2>2, CoherentNow, CoherentNext
<1> QED
    BY <1>2, <1>3, <1>4, <1>5 DEF IInv

(* The steps of the scan between two threads.                              *)
LEMMA ScanKeeps ==
    ASSUME IInv, full_scan_process \/ full_scan_package \/ full_scan_end
    PROVE  IInv'
<1>1. /\ UNCHANGED <<kernelVars, tasks, chan, cfg, watchVars, job, dead>>
      /\ pc = "scan" /\ job = {} /\ pc' \in {"scan", "recv"}
    BY DEF full_scan_process, full_scan_package, full_scan_end, At, Goto
<1>2. /\ targets' \subseteq Target /\ cur' \subseteq Target /\ \A c, d \in cur' : c = d
      /\ targets' \cup cur' \subseteq targets \cup cur /\ todo' \subseteq Tids
      /\ need_full_scan' \in BOOLEAN
      /\ pc' = "recv" => targets' = {} /\ cur' = {}
  <2>1. targets \subseteq Target /\ cur \subseteq Target /\ (\A c, d \in cur : c = d)
        /\ todo \subseteq Tids /\ need_full_scan \in BOOLEAN /\ DOMAIN task \subseteq Tids
    BY DEF IInv, TypeOK, KernelTypeOK, MainTypeOK, IsMap
  <2>2. CASE full_scan_process
    <3>1. PICK p \in targets :
              /\ targets' = targets \ {p}
              /\ cur' = IF todo' = {} THEN {} ELSE {p}
        BY <2>2 DEF full_scan_process
    <3>2. todo' \subseteq Tids /\ need_full_scan' = need_full_scan /\ pc' = pc
        BY <2>1, <2>2 DEF full_scan_process
    <3> QED
        BY <1>1, <2>1, <3>1, <3>2
  <2>3. CASE full_scan_package
    BY <1>1, <2>1, <2>3 DEF full_scan_package
  <2>4. CASE full_scan_end
    BY <2>1, <2>4 DEF full_scan_end
  <2> QED
    BY <2>2, <2>3, <2>4
<1>3. /\ IsMap(pkgs', Tids, PkgEntry)
      /\ \A p \in DOMAIN pkgs' : RightHtr(pkgs'[p])
  <2>3. ~ Reloading
    BY <1>1 DEF Reloading
  <2>1. CASE pkgs' = pkgs
    BY <2>1, <2>3, CoherentNow DEF IInv, TypeOK, MainTypeOK
  <2>2. CASE full_scan_package
    <3>1. PICK p \in cur : pkgs' = Insert(pkgs, p.pid, [pkg |-> p.pkg, htr |-> p.htr])
        BY <2>2 DEF full_scan_package
    <3> DEFINE entry == [pkg |-> p.pkg, htr |-> p.htr]
    <3>2. p \in Target /\ p.htr = pkg_has_thread_rules(p.pkg, cfg)
        BY <2>3, CoherentNow DEF IInv, TypeOK, MainTypeOK
    <3>3. /\ entry \in PkgEntry /\ p.pid \in Tids
          /\ RightHtr(entry)
        BY <3>2 DEF Target, PkgEntry, RightHtr, Effective
    <3>4. IsMap(pkgs, Tids, PkgEntry)
        BY DEF IInv, TypeOK, MainTypeOK
    <3> HIDE DEF entry
    <3>5. IsMap(Insert(pkgs, p.pid, entry), Tids, PkgEntry)
        BY <3>3, <3>4, InsertType
    <3>6. \A q \in DOMAIN pkgs : RightHtr(pkgs[q])
        BY <2>3, CoherentNow
    <3>7. pkgs' = Insert(pkgs, p.pid, entry)
        BY <3>1 DEF entry
    <3>8. /\ DOMAIN pkgs' = DOMAIN pkgs \cup {p.pid} /\ pkgs'[p.pid] = entry
          /\ \A q \in DOMAIN pkgs \ {p.pid} : pkgs'[q] = pkgs[q]
        BY <3>7 DEF Insert
    <3>9. ASSUME NEW q \in DOMAIN pkgs'
          PROVE  RightHtr(pkgs'[q])
        BY <3>3, <3>6, <3>8
    <3> QED
        BY <3>5, <3>7, <3>9
  <2> QED
    BY <2>1, <2>2 DEF full_scan_process, full_scan_package, full_scan_end
<1>4. TypeOK'
    BY <1>1, <1>2, <1>3 DEF kernelVars, IInv, TypeOK, KernelTypeOK, MainTypeOK, PC
<1>5. (JobPlace /\ JobUntracked /\ ScanPlace /\ NothingBound /\ KeysFit)'
    BY <1>1, <1>2 DEF IInv, JobPlace, JobUntracked, ScanPlace, NothingBound, KeysFit
<1>6. NoBlindBinding'
    BY <1>1, Blind, BlindNext DEF kernelVars, IInv, Known, Heard
<1>7. (ConfigCoherent /\ ScanUpToDate)'
  <2>1. ~ Reloading
    BY <1>1 DEF Reloading
  <2> QED
    BY <1>1, <1>2, <1>3, <2>1, CoherentNow, CoherentNext
<1> QED
    BY <1>4, <1>5, <1>6, <1>7 DEF IInv

(* What Apply leaves: of the bindings that follow from the rules, some.    *)
LEMMA BindingsFollow ==
    ASSUME IInv, ~ Reloading,
           DOMAIN tasks' \subseteq DOMAIN tasks, \A t \in DOMAIN tasks' : tasks'[t] = tasks[t]
    PROVE  \A t \in DOMAIN tasks' : Follows(tasks'[t])
    BY CoherentNow

LEMMA ThreadKeeps ==
    ASSUME IInv, full_scan_thread
    PROVE  IInv'
<1>1. PICK p \in cur, t \in todo :
          /\ todo' = todo \ {t}
          /\ Apply(t, p.pid, [pkg |-> p.pkg, htr |-> p.htr],
                   IF t \in DOMAIN task THEN task[t].comm ELSE Empty, TRUE)
    BY DEF full_scan_thread
<1> DEFINE entry == [pkg |-> p.pkg, htr |-> p.htr]
           comm == IF t \in DOMAIN task THEN task[t].comm ELSE Empty
<1>2. /\ UNCHANGED <<applied, target, ring, lost, dropped, pkgs, chan, cfg, watchVars,
                     need_full_scan, pc, targets, cur, dead>>
      /\ pc = "scan" /\ job = {}
    BY DEF full_scan_thread, At
<1>3. t \in Tids /\ p \in Target
    BY DEF IInv, TypeOK, MainTypeOK
<1>4. p.pid \in Tids /\ entry \in PkgEntry
    BY <1>3 DEF Target, PkgEntry
<1>5. comm \in Names \cup {Empty}
    BY DEF IInv, TypeOK, KernelTypeOK, IsMap, Task
<1>6. Apply(t, p.pid, entry, comm, TRUE)
    BY <1>1
<1> HIDE DEF entry, comm
<1>7. /\ IsMap(task', Tids, Task) /\ DOMAIN task' = DOMAIN task
      /\ IsMap(tasks', Tids, TaskEntry)
      /\ DOMAIN tasks' \subseteq DOMAIN tasks
      /\ \A u \in DOMAIN tasks' : tasks'[u] = tasks[u]
      /\ job' \subseteq Job /\ \A j, k \in job' : j = k
      /\ \A j \in job' : /\ FromRules(j.pid, EntryFor(j.pid, j.result), cfg)
                         /\ j.tid \notin DOMAIN tasks'
    BY <1>2, <1>3, <1>4, <1>5, <1>6, ApplyStep DEF IInv
<1>8. TypeOK'
    BY <1>1, <1>2, <1>7 DEF IInv, TypeOK, KernelTypeOK, MainTypeOK
<1>9. (JobPlace /\ JobUntracked /\ ScanPlace /\ NothingBound /\ KeysFit)'
    BY <1>2, <1>7 DEF IInv, JobPlace, JobUntracked, ScanPlace, NothingBound, KeysFit
<1>10. NoBlindBinding'
    BY <1>2, <1>7, Blind, BlindNext DEF IInv, Known, Heard
<1>11. (ConfigCoherent /\ ScanUpToDate)'
  <2>1. ~ Reloading
    BY <1>2 DEF Reloading
  <2>2. \A u \in DOMAIN tasks' : Follows(tasks'[u])
    BY <1>7, <2>1, BindingsFollow
  <2> QED
    BY <1>2, <1>7, <2>1, <2>2, CoherentNow, CoherentNext
<1> QED
    BY <1>8, <1>9, <1>10, <1>11 DEF IInv

(* The rest of a binding: its mark and its entry, once they are made.      *)
LEMMA CommitKeeps ==
    ASSUME IInv, Commit
    PROVE  IInv'
<1>1. PICK j \in job :
          IF j.dead THEN UNCHANGED <<applied, lost, tasks>>
          ELSE /\ AppliedInsert(j.tid, j.tid \in DOMAIN task)
               /\ tasks' = Insert(tasks, j.tid, EntryFor(j.pid, j.result))
    BY DEF Commit
<1>2. /\ UNCHANGED <<task, target, ring, dropped, pkgs, chan, cfg, watchVars, need_full_scan,
                     pc, targets, cur, todo, dead>>
      /\ job' = {} /\ pc \in {"scan", "recv"}
    BY DEF Commit, IInv, JobPlace
<1>3. j \in Job /\ j.tid \in Tids /\ j.pid \in Tids /\ j.result \in AffinityResult
    BY DEF IInv, TypeOK, MainTypeOK, Job
<1>4. FromRules(j.pid, EntryFor(j.pid, j.result), cfg)
    BY <1>2, CoherentNow DEF Reloading
<1> DEFINE entry == EntryFor(j.pid, j.result)
<1>5. entry \in TaskEntry /\ entry.pid = j.pid
    BY <1>3 DEF EntryFor, TaskEntry, AffinityResult
<1> HIDE DEF entry
<1>6. IsMap(tasks, Tids, TaskEntry)
    BY DEF IInv, TypeOK, MainTypeOK
<1>7. /\ applied' \subseteq Tids /\ lost' \subseteq Tids /\ Cardinality(applied') <= AppliedCap
      /\ applied \subseteq applied' \cup lost'
      /\ lost \subseteq lost' \cup (applied' \cap DOMAIN task)
      /\ ~ j.dead => j.tid \in lost' \cup (applied' \cap DOMAIN task)
  <2>1. CASE j.dead
    BY <1>1, <2>1 DEF IInv, TypeOK, KernelTypeOK
  <2>2. CASE ~ j.dead
    <3> DEFINE alive == j.tid \in DOMAIN task
    <3>1. alive \in BOOLEAN /\ AppliedInsert(j.tid, alive)
        BY <1>1, <2>2
    <3>2. alive => j.tid \in DOMAIN task
        OBVIOUS
    <3> HIDE DEF alive
    <3>3. applied' \subseteq Tids /\ lost' \subseteq Tids /\ Cardinality(applied') <= AppliedCap
        BY <1>3, <3>1, AppliedInsertType DEF IInv, TypeOK, KernelTypeOK
    <3>4. /\ j.tid \in applied' /\ (alive \/ j.tid \in lost')
          /\ applied \subseteq applied' \cup lost' /\ lost \subseteq lost' \cup {j.tid}
        BY <3>1, AppliedInsertKeeps
    <3> QED
        BY <3>2, <3>3, <3>4
  <2> QED
    BY <2>1, <2>2
<1>8. /\ IsMap(tasks', Tids, TaskEntry)
      /\ \A t \in DOMAIN tasks' :
            \/ t \in DOMAIN tasks /\ tasks'[t] = tasks[t]
            \/ ~ j.dead /\ t = j.tid /\ tasks'[t] = entry
  <2>1. CASE j.dead
    BY <1>1, <1>6, <2>1
  <2>2. CASE ~ j.dead
    <3>1. tasks' = Insert(tasks, j.tid, entry)
        BY <1>1, <2>2 DEF entry
    <3>2. IsMap(tasks', Tids, TaskEntry)
        BY <1>3, <1>5, <1>6, <3>1, InsertType
    <3>3. DOMAIN tasks' = DOMAIN tasks \cup {j.tid} /\ tasks'[j.tid] = entry
          /\ \A t \in DOMAIN tasks \ {j.tid} : tasks'[t] = tasks[t]
        BY <3>1 DEF Insert
    <3> QED
        BY <2>2, <3>2, <3>3
  <2> QED
    BY <2>1, <2>2
<1>9. TypeOK'
    BY <1>2, <1>7, <1>8 DEF IInv, TypeOK, KernelTypeOK, MainTypeOK
<1>10. (JobPlace /\ JobUntracked /\ ScanPlace /\ NothingBound /\ KeysFit)'
    BY <1>2 DEF IInv, JobPlace, JobUntracked, ScanPlace, NothingBound, KeysFit
<1>11. NoBlindBinding'
  <2>1. Known \cup Heard \subseteq Known' \cup Heard'
    BY <1>2, <1>7 DEF Known, Heard
  <2>2. ~ j.dead => j.tid \in Known'
    BY <1>2, <1>7 DEF Known
  <2> QED
    BY <1>8, <2>1, <2>2, Blind, BlindNext DEF IInv
<1>12. (ConfigCoherent /\ ScanUpToDate)'
  <2>1. ~ Reloading
    BY <1>2 DEF Reloading
  <2>2. Follows(entry)
    BY <1>4, <1>5 DEF Follows, Effective, entry
  <2>3. \A t \in DOMAIN tasks' : Follows(tasks'[t])
    BY <1>8, <2>1, <2>2, CoherentNow
  <2> QED
    BY <1>2, <2>1, <2>3, CoherentNow, CoherentNext
<1> QED
    BY <1>9, <1>10, <1>11, <1>12 DEF IInv

-----------------------------------------------------------------------------
(* The dispatch of an event ev.  A handler keeps what Handled says: typed  *)
(* maps that follow from the rules, a job only for a thread without entry, *)
(* and no binding for a thread whose exit it has just been told of.        *)

Handled(ev) ==
    /\ IsMap(task', Tids, Task) /\ DOMAIN task' = DOMAIN task
    /\ IsMap(pkgs', Tids, PkgEntry)
    /\ \A p \in DOMAIN pkgs' : RightHtr(pkgs'[p])
    /\ dropped' \subseteq Tids
    /\ IsMap(tasks', Tids, TaskEntry)
    /\ DOMAIN tasks' \subseteq DOMAIN tasks
    /\ \A t \in DOMAIN tasks' : tasks'[t] = tasks[t]
    /\ job' \subseteq Job /\ \A j, k \in job' : j = k
    /\ \A j \in job' : /\ FromRules(j.pid, EntryFor(j.pid, j.result), cfg)
                       /\ j.tid \notin DOMAIN tasks'
    /\ applied' \subseteq applied
    /\ \A t \in applied \ applied' : t \notin DOMAIN tasks'
    /\ ev.type = "EXIT" => ev.tid \notin DOMAIN tasks'
    /\ \A t \in Tids : ThreadBound(t) => ThreadBound(t)' \/ Reports(ev, t)

CachedOK(pk) ==
    /\ IsMap(pk, Tids, PkgEntry)
    /\ \A p \in DOMAIN pk : RightHtr(pk[p])

LEMMA RemoveCached ==
    ASSUME NEW pk, CachedOK(pk), NEW keys
    PROVE  CachedOK(Remove(pk, keys))
<1>1. IsMap(Remove(pk, keys), Tids, PkgEntry)
    BY RemoveType DEF CachedOK
<1>2. DOMAIN Remove(pk, keys) = DOMAIN pk \ keys
      /\ \A p \in DOMAIN pk \ keys : Remove(pk, keys)[p] = pk[p]
    BY RemoveProperties
<1> QED
    BY <1>1, <1>2 DEF CachedOK

LEMMA EventApplyHandled ==
    ASSUME TypeOK, job = {}, NEW ev \in Event, NEW pk, CachedOK(pk), NEW trust,
           event_apply(ev, pk, trust), applied' = applied, ev.type # "EXIT"
    PROVE  Handled(ev)
<1>1. PICK entry \in pkg_lookup_comm(pk, ev.pid, ev.comm, cfg) :
          /\ pkgs' = Insert(pk, ev.pid, entry)
          /\ Apply(ev.tid, ev.pid, entry, ev.comm, trust)
          /\ dropped' \in {dropped, dropped \cup {ev.tid}}
    BY DEF event_apply
<1>2. ev.pid \in Tids /\ ev.tid \in Tids /\ ev.comm \in Names \cup {Empty}
    BY DEF Event
<1>3. cfg \in AppConfig
    BY LoopAssumption DEF TypeOK, MainTypeOK
<1>4. entry \in PkgEntry
    BY <1>3, LookupType DEF CachedOK
<1>5. RightHtr(entry)
  <2>1. CASE ev.pid \in DOMAIN pk
    BY <2>1 DEF pkg_lookup_comm, CachedOK
  <2>2. CASE ev.pid \notin DOMAIN pk
    BY <2>2 DEF pkg_lookup_comm, RightHtr, Effective
  <2> QED
    BY <2>1, <2>2
<1>6. /\ DOMAIN pkgs' = DOMAIN pk \cup {ev.pid} /\ pkgs'[ev.pid] = entry
      /\ \A q \in DOMAIN pk \ {ev.pid} : pkgs'[q] = pk[q]
    BY <1>1 DEF Insert
<1>7. \A p \in DOMAIN pkgs' : RightHtr(pkgs'[p])
    BY <1>5, <1>6 DEF CachedOK
<1>8. IsMap(pkgs', Tids, PkgEntry)
    BY <1>1, <1>2, <1>4, InsertType DEF CachedOK
<1>9. /\ IsMap(task', Tids, Task) /\ DOMAIN task' = DOMAIN task
      /\ IsMap(tasks', Tids, TaskEntry)
      /\ DOMAIN tasks' \subseteq DOMAIN tasks
      /\ \A t \in DOMAIN tasks' : tasks'[t] = tasks[t]
      /\ job' \subseteq Job /\ \A j, k \in job' : j = k
      /\ \A j \in job' : /\ FromRules(j.pid, EntryFor(j.pid, j.result), cfg)
                         /\ j.tid \notin DOMAIN tasks'
      /\ \A t \in Tids : ThreadBound(t) => ThreadBound(t)'
    BY <1>1, <1>2, <1>4, ApplyStep
<1>10. dropped' \subseteq Tids
    BY <1>1, <1>2 DEF TypeOK, KernelTypeOK
<1> QED
    BY <1>7, <1>8, <1>9, <1>10 DEF Handled

LEMMA ForgetHandled ==
    ASSUME TypeOK, job = {}, NEW ev \in Event, NEW pk, CachedOK(pk),
           Forget(ev, pk), ev.type \in {"EXIT", "EXEC"}
    PROVE  Handled(ev)
<1>1. /\ IsMap(tasks', Tids, TaskEntry)
      /\ DOMAIN tasks' = DOMAIN tasks \ {ev.tid}
      /\ \A t \in DOMAIN tasks' : tasks'[t] = tasks[t]
    BY TaskDel DEF Forget, TypeOK, MainTypeOK
<1>2. /\ IsMap(pkgs', Tids, PkgEntry)
      /\ DOMAIN pkgs' \subseteq DOMAIN pk
      /\ \A p \in DOMAIN pkgs' : pkgs'[p] = pk[p]
    BY PkgDel DEF Forget, CachedOK
<1>3. applied' = applied \ {ev.tid} /\ task' = task /\ dropped' = dropped /\ job' = {}
    BY DEF Forget
<1>4. \A t \in Tids : ThreadBound(t) => ThreadBound(t)' \/ Reports(ev, t)
    BY <1>1 DEF ThreadBound, Reports
<1> QED
    BY <1>1, <1>2, <1>3, <1>4 DEF Handled, CachedOK, TypeOK, KernelTypeOK

LEMMA EventHandled ==
    ASSUME IInv, NEW ev \in Event, pc = "recv", job = {},
           OnExit(ev) \/ OnExec(ev) \/ OnForkOrRename(ev)
    PROVE  Handled(ev)
<1>1. CachedOK(pkgs) /\ TypeOK
    BY CoherentNow DEF Reloading, IInv, TypeOK, MainTypeOK, CachedOK
<1>2. CachedOK(Remove(pkgs, {ev.pid}))
    BY <1>1, RemoveCached
<1>3. CASE OnExit(ev)
    BY <1>1, <1>2, <1>3, ForgetHandled DEF OnExit
<1>4. CASE OnExec(ev)
  <2>1. CASE event_apply(ev, Remove(pkgs, {ev.pid}), TRUE) /\ UNCHANGED applied
    BY <1>1, <1>2, <1>4, <2>1, EventApplyHandled DEF OnExec
  <2>2. CASE Forget(ev, Remove(pkgs, {ev.pid}))
    BY <1>1, <1>2, <1>4, <2>2, ForgetHandled DEF OnExec
  <2> QED
    BY <1>4, <2>1, <2>2 DEF OnExec
<1>5. CASE OnForkOrRename(ev)
  <2>1. ev.type # "EXIT" /\ applied' = applied
    BY <1>5 DEF OnForkOrRename
  <2>2. CASE event_apply(ev, pkgs, ev.type = "RENAME" \/ ev.tid = ev.pid)
    BY <1>1, <2>1, <2>2, EventApplyHandled
  <2>3. CASE UNCHANGED <<task, dropped, tasks, pkgs, job>>
    BY <1>1, <2>1, <2>3 DEF Handled, CachedOK, TypeOK, KernelTypeOK, MainTypeOK, ThreadBound
  <2> QED
    BY <1>5, <2>2, <2>3 DEF OnForkOrRename
<1> QED
    BY <1>3, <1>4, <1>5

LEMMA DispatchHandled ==
    ASSUME IInv, event_dispatch
    PROVE  /\ chan # <<>> /\ Head(chan) \in Event /\ Handled(Head(chan))
           /\ Tail(chan) \in Seq(Event) /\ Len(Tail(chan)) <= ChanBound
           /\ Range(chan) = {Head(chan)} \cup Range(Tail(chan))
<1>1. chan \in Seq(Event) /\ chan # <<>> /\ Len(chan) <= ChanBound /\ Len(chan) \in Nat
    BY LenProperties DEF event_dispatch, IInv, TypeOK, MainTypeOK
<1>2. /\ Head(chan) \in Event /\ Tail(chan) \in Seq(Event)
      /\ Len(Tail(chan)) = Len(chan) - 1
    BY <1>1, HeadTailProperties
<1>3. Range(chan) = {Head(chan)} \cup Range(Tail(chan))
    BY <1>1, RangeTail
<1>4. Handled(Head(chan))
    BY <1>2, EventHandled DEF event_dispatch, At
<1> QED
    BY <1>1, <1>2, <1>3, <1>4, LoopAssumption

LEMMA DispatchKeeps ==
    ASSUME IInv, event_dispatch
    PROVE  IInv'
<1>1. /\ chan' = Tail(chan)
      /\ UNCHANGED <<target, ring, lost, cfg, watchVars, need_full_scan, pc, targets,
                     cur, todo, dead>>
      /\ pc = "recv" /\ job = {}
    BY DEF event_dispatch, At
<1>2. /\ Head(chan) \in Event /\ Handled(Head(chan))
      /\ chan' \in Seq(Event) /\ Len(chan') <= ChanBound
      /\ Range(chan) = {Head(chan)} \cup Range(chan')
    BY <1>1, DispatchHandled
<1>3. applied' \subseteq Tids /\ Cardinality(applied') <= AppliedCap
  <2>1. applied' \subseteq applied /\ IsFiniteSet(applied)
    BY <1>2, CacheAssumption, FS_Subset DEF Handled, IInv, TypeOK, KernelTypeOK
  <2>2. Cardinality(applied') <= Cardinality(applied) /\ IsFiniteSet(applied')
    BY <2>1, FS_Subset
  <2> QED
    BY <2>1, <2>2, FS_CardinalityType, KernelAssumption DEF IInv, TypeOK, KernelTypeOK
<1>4. TypeOK'
    BY <1>1, <1>2, <1>3 DEF Handled, IInv, TypeOK, KernelTypeOK, MainTypeOK
<1>5. (JobPlace /\ JobUntracked /\ ScanPlace /\ NothingBound /\ KeysFit)'
    BY <1>1, <1>2 DEF Handled, IInv, JobPlace, JobUntracked, ScanPlace, NothingBound, KeysFit
<1>6. NoBlindBinding'
  <2> SUFFICES ASSUME NEW t \in DOMAIN tasks'
               PROVE  t \in Known' \cup Heard'
    BY BlindNext
  <2>1. t \in DOMAIN tasks /\ t \in Known \cup Heard
    BY <1>2, Blind DEF Handled, IInv
  <2>4. DOMAIN task' = DOMAIN task
    BY <1>1, <1>2 DEF Handled
  <2>2. t \in Known => t \in Known'
    BY <1>1, <1>2, <2>4 DEF Handled, Known
  <2>3. t \in Heard => t \in Heard'
    BY <1>2 DEF Handled, Heard
  <2> QED
    BY <2>1, <2>2, <2>3
<1>7. (ConfigCoherent /\ ScanUpToDate)'
  <2>1. ~ Reloading
    BY <1>1 DEF Reloading
  <2>2. \A t \in DOMAIN tasks' : Follows(tasks'[t])
    BY <1>2, <2>1, BindingsFollow DEF Handled
  <2> QED
    BY <1>1, <1>2, <2>1, <2>2, CoherentNow, CoherentNext DEF Handled
<1> QED
    BY <1>4, <1>5, <1>6, <1>7 DEF IInv

-----------------------------------------------------------------------------
(* The affinity sync. *)

LEMMA SyncThreadKeeps ==
    ASSUME IInv, affinity_sync_start \/ affinity_sync_thread
    PROVE  IInv'
<1>1. /\ UNCHANGED <<applied, target, ring, lost, dropped, pkgs, tasks, chan, cfg, watchVars,
                     need_full_scan, job, targets, cur>>
      /\ pc \in {"timer", "sync"} /\ pc' = "sync" /\ job = {}
    BY DEF affinity_sync_start, affinity_sync_thread, At, Goto, kernelVars
<1>2. /\ IsMap(task', Tids, Task) /\ DOMAIN task' = DOMAIN task
      /\ todo' \subseteq Tids /\ dead' \subseteq Tids
  <2>1. CASE affinity_sync_start
    BY <2>1 DEF affinity_sync_start, kernelVars, IInv, TypeOK, KernelTypeOK, MainTypeOK, IsMap
  <2>2. CASE affinity_sync_thread
    <3>1. PICK t \in todo :
              /\ todo' = todo \ {t}
              /\ affinity_set(t, tasks[t].cpus)
              /\ dead' = IF t \in DOMAIN task THEN dead ELSE dead \cup {t}
        BY <2>2 DEF affinity_sync_thread
    <3>2. IsMap(task', Tids, Task) /\ DOMAIN task' = DOMAIN task
        <4>1. CASE t \in DOMAIN tasks
            <5>1. tasks[t].cpus \in SUBSET Cpus
                BY <4>1 DEF IInv, TypeOK, MainTypeOK, IsMap, TaskEntry
            <5> QED
                BY <3>1, <5>1, AffinitySetType DEF IInv, TypeOK, KernelTypeOK
        <4>2. CASE t \notin DOMAIN tasks
            BY <3>1, <4>2, NamesAssumption DEF IInv, TypeOK, KernelTypeOK, affinity_set,
               IsMap, Task
        <4> QED
            BY <4>1, <4>2
    <3> QED
        BY <3>1, <3>2 DEF IInv, TypeOK, MainTypeOK
  <2> QED
    BY <2>1, <2>2
<1>3. TypeOK'
    BY <1>1, <1>2 DEF IInv, TypeOK, KernelTypeOK, MainTypeOK, PC
<1>4. (JobPlace /\ JobUntracked /\ ScanPlace /\ NothingBound /\ KeysFit)'
    BY <1>1 DEF IInv, JobPlace, JobUntracked, ScanPlace, NothingBound, KeysFit
<1>5. NoBlindBinding'
    BY <1>1, <1>2, Blind, BlindNext DEF IInv, Known, Heard
<1>6. (ConfigCoherent /\ ScanUpToDate)'
    BY <1>1, CoherentSame DEF Reloading
<1> QED
    BY <1>3, <1>4, <1>5, <1>6 DEF IInv

LEMMA SyncEndKeeps ==
    ASSUME IInv, affinity_sync_end
    PROVE  IInv'
<1>1. /\ tasks' = TasksWithout(dead) /\ pkgs' = PkgsWithout(pkgs, dead)
      /\ applied' = applied \ dead /\ dead' = {}
      /\ UNCHANGED <<task, target, ring, lost, dropped, chan, cfg, watchVars, need_full_scan, job,
                     targets, cur, todo>>
      /\ pc = "sync" /\ pc' = "top" /\ job = {}
    BY DEF affinity_sync_end, At, Goto
<1>2. /\ IsMap(tasks', Tids, TaskEntry)
      /\ DOMAIN tasks' = DOMAIN tasks \ dead
      /\ \A t \in DOMAIN tasks' : tasks'[t] = tasks[t]
    BY <1>1, TaskDel DEF IInv, TypeOK, MainTypeOK
<1>3. /\ IsMap(pkgs', Tids, PkgEntry)
      /\ DOMAIN pkgs' \subseteq DOMAIN pkgs
      /\ \A p \in DOMAIN pkgs' : pkgs'[p] = pkgs[p]
    BY <1>1, PkgDel DEF IInv, TypeOK, MainTypeOK
<1>4. applied' \subseteq Tids /\ Cardinality(applied') <= AppliedCap
  <2>1. applied' \subseteq applied /\ IsFiniteSet(applied)
    BY <1>1, CacheAssumption, FS_Subset DEF IInv, TypeOK, KernelTypeOK
  <2>2. Cardinality(applied') <= Cardinality(applied) /\ IsFiniteSet(applied')
    BY <2>1, FS_Subset
  <2> QED
    BY <2>1, <2>2, FS_CardinalityType, KernelAssumption DEF IInv, TypeOK, KernelTypeOK
<1>5. TypeOK'
    BY <1>1, <1>2, <1>3, <1>4 DEF IInv, TypeOK, KernelTypeOK, MainTypeOK, PC
<1>6. (JobPlace /\ JobUntracked /\ ScanPlace /\ NothingBound /\ KeysFit)'
    BY <1>1 DEF IInv, JobPlace, JobUntracked, ScanPlace, NothingBound, KeysFit
<1>7. NoBlindBinding'
  <2>1. DOMAIN tasks' \subseteq (Known \cup Heard) \ dead
    BY <1>2, Blind DEF IInv
  <2>2. (Known \cup Heard) \ dead \subseteq Known' \cup Heard'
    BY <1>1 DEF Known, Heard
  <2> QED
    BY <2>1, <2>2, BlindNext
<1>8. (ConfigCoherent /\ ScanUpToDate)'
  <2>1. ~ Reloading
    BY <1>1 DEF Reloading
  <2>2. \A t \in DOMAIN tasks' : Follows(tasks'[t])
    BY <1>2, <2>1, BindingsFollow
  <2> QED
    BY <1>1, <1>3, <2>1, <2>2, CoherentNow, CoherentNext
<1> QED
    BY <1>5, <1>6, <1>7, <1>8 DEF IInv

-----------------------------------------------------------------------------

LEMMA InitIInv ==
    ASSUME Init
    PROVE  IInv
<1> USE DEF Init, KernelInit
<1>1. TypeOK
  <2>1. Cardinality({}) = 0
    BY FS_EmptySet
  <2>2. <<>> \in Seq(Event) /\ Len(<<>>) = 0
    BY EmptySeq
  <2>3. 0 <= RingCap /\ 0 <= AppliedCap
    BY KernelAssumption
  <2>4. IsMap(task, Tids, Task)
    BY LoopAssumption
  <2>5. KernelTypeOK
    BY <2>1, <2>2, <2>3, <2>4 DEF KernelTypeOK
  <2> QED
    BY <2>1, <2>2, <2>5, EmptyMapFacts, LoopAssumption DEF TypeOK, MainTypeOK, PC
<1>2. JobPlace /\ JobUntracked /\ ScanPlace /\ NothingBound /\ KeysFit
    BY DEF JobPlace, JobUntracked, ScanPlace, NothingBound, KeysFit
<1>3. NoBlindBinding /\ ConfigCoherent /\ ScanUpToDate
    BY EmptyMapFacts DEF NoBlindBinding, ConfigCoherent, ScanUpToDate
<1> QED
    BY <1>1, <1>2, <1>3 DEF IInv

(* A step that changes no variable keeps the invariant.                    *)
LEMMA StutterKeeps ==
    ASSUME IInv, UNCHANGED vars
    PROVE  IInv'
<1> USE DEF vars, kernelVars, mainVars
<1>1. TypeOK'
    BY DEF IInv, TypeOK, KernelTypeOK, MainTypeOK
<1>2. (JobPlace /\ JobUntracked /\ ScanPlace /\ NothingBound /\ KeysFit)'
    BY DEF IInv, JobPlace, JobUntracked, ScanPlace, NothingBound, KeysFit, WhitelistKeys
<1>3. NoBlindBinding'
    BY Blind, BlindNext DEF IInv, Known, Heard
<1>4. (ConfigCoherent /\ ScanUpToDate)'
    BY CoherentSame DEF Reloading
<1> QED
    BY <1>1, <1>2, <1>3, <1>4 DEF IInv

(* IInv is inductive. *)
LEMMA NextIInv ==
    ASSUME IInv, [Next]_vars
    PROVE  IInv'
<1>1. CASE KernelStep
    BY <1>1, KernelKeeps
<1>2. CASE ebpf_reader
    BY <1>2, ReaderKeeps
<1>3. CASE hot_reload \/ hot_reload_unscanned
    BY <1>3, ReloadKeeps
<1>4. CASE MainStep
    BY <1>4, MoveKeeps, WhitelistKeeps, ClearKeeps, UnmarkKeeps, ListKeeps, ScanKeeps,
       ThreadKeeps, CommitKeeps, DispatchKeeps, SyncThreadKeeps, SyncEndKeeps
       DEF MainStep, full_scan, affinity_sync
<1>5. CASE UNCHANGED vars
    BY <1>5, StutterKeeps
<1> QED
    BY <1>1, <1>2, <1>3, <1>4, <1>5 DEF Next

LEMMA Invariance == Spec => []IInv
<1>1. Init => IInv
    BY InitIInv
<1>2. IInv /\ [Next]_vars => IInv'
    BY NextIInv
<1> QED
    BY <1>1, <1>2, PTL DEF Spec

(* Every map, buffer and option of the eBPF mode keeps its type and its    *)
(* capacity, whatever the kernel's tasks do (main.rs, bpf.rs, ebpf).       *)
THEOREM TypeCorrect == Spec => []TypeOK
<1>1. IInv => TypeOK
    BY DEF IInv
<1> QED
    BY <1>1, Invariance, PTL

(* No binding outlives its thread unnoticed, except through a loss the     *)
(* kernel side records (ebpf/src/main.rs:183, main.rs:69).                 *)
THEOREM BindingsWatched == Spec => []NoBlindBinding
<1>1. IInv => NoBlindBinding
    BY DEF IInv
<1> QED
    BY <1>1, Invariance, PTL

(* After the cache is cleared nothing comes from rules other than those in *)
(* force, or those of the last scan once the descriptor is lost            *)
(* (main.rs:313, :330).                                                    *)
THEOREM ReloadComplete == Spec => []ConfigCoherent
<1>1. IInv => ConfigCoherent
    BY DEF IInv
<1> QED
    BY <1>1, Invariance, PTL

-----------------------------------------------------------------------------

(* On the way from loading a configuration to clearing the cache the       *)
(* bindings stay as they are.                                              *)
LEMMA ReloadPath ==
    ASSUME IInv, [Next]_vars, pc' \in {"whitelist", "fill", "clear"}
    PROVE  tasks' = tasks
<1>1. CASE KernelStep \/ ebpf_reader \/ hot_reload \/ hot_reload_unscanned \/ UNCHANGED vars
    BY <1>1 DEF KernelStep, mainVars, ebpf_reader, hot_reload, hot_reload_unscanned,
       vars
<1>2. CASE MainStep
  <2>1. CASE KeepConfig \/ comm_map_init \/ comm_map_fill
    BY <2>1 DEF KeepConfig, comm_map_init, comm_map_fill
  <2>2. CASE Commit
    BY <2>2 DEF Commit, IInv, JobPlace
  <2>3. CASE event_dispatch \/ full_scan_thread
    BY <2>3 DEF event_dispatch, full_scan_thread, At
  <2>4. CASE full_scan_clear \/ applied_clear \/ full_scan_list \/ full_scan_end
    BY <2>4 DEF full_scan_clear, applied_clear, full_scan_list, full_scan_end, Goto
  <2>5. CASE full_scan_process \/ full_scan_package
    BY <2>5 DEF full_scan_process, full_scan_package
  <2>6. CASE recv_done \/ TimerNotDue \/ affinity_sync
    BY <2>6 DEF recv_done, TimerNotDue, affinity_sync, affinity_sync_start,
       affinity_sync_thread, affinity_sync_end, Goto
  <2> QED
    BY <1>2, <2>1, <2>2, <2>3, <2>4, <2>5, <2>6 DEF MainStep, full_scan
<1> QED
    BY <1>1, <1>2 DEF Next

(* A binding that follows from the rules has the directory of its CPUs.    *)
LEMMA FromRulesDir ==
    ASSUME NEW c \in Configs, NEW pid, NEW entry, FromRules(pid, entry, c)
    PROVE  entry.cpuset_dir \in {{}, entry.cpus}
<1>1. PICK pkg \in Names, name \in Names \cup {Empty} :
          \E r \in thread_affinity(pkg, name, c) : entry = EntryFor(pid, r)
    BY DEF FromRules
<1>2. PICK r \in thread_affinity(pkg, name, c) : entry = EntryFor(pid, r)
    BY <1>1
<1>3. c \in AppConfig /\ \A i \in DOMAIN c.rules : RuleDirAgrees(c.rules[i])
    BY LoopAssumption
<1>4. r.cpuset_dir \in {{}, r.cpus}
    BY <1>3, ThreadAffinityDir
<1> QED
    BY <1>2, <1>4 DEF EntryFor

LEMMA DirsFollow == IInv /\ ~ Reloading => CpusetDirAgrees
<1> SUFFICES ASSUME IInv, ~ Reloading, NEW t \in DOMAIN tasks
             PROVE  tasks[t].cpuset_dir \in {{}, tasks[t].cpus}
    BY DEF CpusetDirAgrees
<1>1. PICK c \in Effective : FromRules(tasks[t].pid, tasks[t], c)
    BY CoherentNow DEF Follows
<1>2. c \in Configs
    BY DEF Effective, IInv, TypeOK, MainTypeOK
<1> QED
    BY <1>1, <1>2, FromRulesDir

(* No binding puts a thread into a cpuset that takes away CPUs of its mask *)
(* (rule_match.rs:27, main.rs:42).                                         *)
THEOREM CpusetDirsAgree == Spec => []CpusetDirAgrees
<1>1. Init => CpusetDirAgrees
    BY EmptyMapFacts DEF Init, CpusetDirAgrees
<1>2. IInv /\ CpusetDirAgrees /\ [Next]_vars => CpusetDirAgrees' \/ ~ Reloading'
    BY ReloadPath DEF Reloading, CpusetDirAgrees
<1>3. IInv /\ ~ Reloading => CpusetDirAgrees
    BY DirsFollow
<1> QED
    BY <1>1, <1>2, <1>3, Invariance, PTL DEF Spec

-----------------------------------------------------------------------------

(* What ThreadBindingKept asks of a step.                                  *)
StepKeepsThreadBindings ==
    \A t \in Tids :
        ThreadBound(t) /\ ~ ThreadBound(t)' =>
            \/ pc = "clear"
            \/ chan # <<>> /\ Reports(Head(chan), t)
            \/ t \in dead
            \/ \E j \in job : j.tid = t /\ j.dead

LEMMA ThreadScanBound ==
    ASSUME IInv, full_scan_thread
    PROVE  \A u \in Tids : ThreadBound(u) => ThreadBound(u)'
<1>1. PICK p \in cur, t \in todo :
          Apply(t, p.pid, [pkg |-> p.pkg, htr |-> p.htr],
                IF t \in DOMAIN task THEN task[t].comm ELSE Empty, TRUE)
    BY DEF full_scan_thread
<1> DEFINE entry == [pkg |-> p.pkg, htr |-> p.htr]
           comm == IF t \in DOMAIN task THEN task[t].comm ELSE Empty
<1>2. t \in Tids /\ p \in Target /\ job = {}
    BY DEF full_scan_thread, At, IInv, TypeOK, MainTypeOK
<1>3. p.pid \in Tids /\ entry \in PkgEntry
    BY <1>2 DEF Target, PkgEntry
<1>4. comm \in Names \cup {Empty}
    BY DEF IInv, TypeOK, KernelTypeOK, IsMap, Task
<1>5. Apply(t, p.pid, entry, comm, TRUE)
    BY <1>1
<1> HIDE DEF entry, comm
<1> QED
    BY <1>2, <1>3, <1>4, <1>5, ApplyStep DEF IInv

LEMMA CommitBound ==
    ASSUME IInv, Commit, NEW t \in Tids, ThreadBound(t), ~ ThreadBound(t)'
    PROVE  \E j \in job : j.tid = t /\ j.dead
<1>1. PICK j \in job :
          IF j.dead THEN UNCHANGED <<applied, lost, tasks>>
          ELSE /\ AppliedInsert(j.tid, j.tid \in DOMAIN task)
               /\ tasks' = Insert(tasks, j.tid, EntryFor(j.pid, j.result))
    BY DEF Commit
<1>2. \A k \in job : k = j
    BY DEF IInv, TypeOK, MainTypeOK
<1>3. CASE j.dead
    BY <1>1, <1>2, <1>3 DEF ThreadBound
<1>4. CASE ~ j.dead
  <2>1. /\ DOMAIN tasks' = DOMAIN tasks \cup {j.tid}
        /\ tasks'[j.tid] = EntryFor(j.pid, j.result)
        /\ \A u \in DOMAIN tasks \ {j.tid} : tasks'[u] = tasks[u]
    BY <1>1, <1>4 DEF Insert
  <2>2. j.tid \notin DOMAIN tasks
    BY DEF IInv, JobUntracked
  <2>3. tasks'[j.tid].is_thread_rule = j.result.is_thread_rule
    BY <2>1 DEF EntryFor
  <2> QED
    BY <1>2, <2>1, <2>2, <2>3 DEF ThreadBound
<1> QED
    BY <1>3, <1>4

LEMMA SyncEndBound ==
    ASSUME IInv, affinity_sync_end, NEW t \in Tids, ThreadBound(t), ~ ThreadBound(t)'
    PROVE  t \in dead
<1>1. DOMAIN tasks' = DOMAIN tasks \ dead /\ \A u \in DOMAIN tasks' : tasks'[u] = tasks[u]
    BY TaskDel DEF affinity_sync_end, IInv, TypeOK, MainTypeOK
<1>2. job' = job
    BY DEF affinity_sync_end
<1> QED
    BY <1>1, <1>2 DEF ThreadBound

LEMMA NextKeepsThreadBindings ==
    ASSUME IInv, [Next]_vars
    PROVE  StepKeepsThreadBindings
<1>1. CASE tasks' = tasks /\ job' = job
    BY <1>1 DEF StepKeepsThreadBindings, ThreadBound
<1>2. CASE event_dispatch
    BY <1>2, DispatchHandled DEF Handled, StepKeepsThreadBindings
<1>3. CASE full_scan_thread
    BY <1>3, ThreadScanBound DEF StepKeepsThreadBindings
<1>4. CASE Commit
    BY <1>4, CommitBound DEF StepKeepsThreadBindings
<1>5. CASE affinity_sync_end
    BY <1>5, SyncEndBound DEF StepKeepsThreadBindings
<1>6. CASE full_scan_clear
    BY <1>6 DEF full_scan_clear, At, StepKeepsThreadBindings
<1>7. CASE KernelStep \/ ebpf_reader \/ hot_reload \/ hot_reload_unscanned \/ UNCHANGED vars
    BY <1>1, <1>7 DEF KernelStep, mainVars, ebpf_reader, hot_reload, hot_reload_unscanned,
       vars
<1>8. CASE \/ KeepConfig \/ recv_done \/ TimerNotDue
           \/ comm_map_init \/ comm_map_fill \/ applied_clear \/ full_scan_list
           \/ full_scan_process \/ full_scan_package \/ full_scan_end
           \/ affinity_sync_start \/ affinity_sync_thread
    BY <1>1, <1>8 DEF KeepConfig, recv_done, TimerNotDue, comm_map_init, comm_map_fill,
       applied_clear, full_scan_list, full_scan_process, full_scan_package, full_scan_end,
       affinity_sync_start, affinity_sync_thread
<1> QED
    BY <1>2, <1>3, <1>4, <1>5, <1>6, <1>7, <1>8 DEF Next, MainStep, full_scan, affinity_sync

(* A fallback never takes a thread rule's binding away (proccache.rs:56).  *)
THEOREM ThreadRulesWin == Spec => ThreadBindingKept
<1>1. IInv /\ [Next]_vars => StepKeepsThreadBindings
    BY NextKeepsThreadBindings
<1>2. Spec => [][StepKeepsThreadBindings]_vars
    BY <1>1, Invariance, PTL DEF Spec
<1> QED
    BY <1>2 DEF ThreadBindingKept, StepKeepsThreadBindings

-----------------------------------------------------------------------------
(* The eBPF mode implements Bindings: under the mapping Bound, each step   *)
(* of EventLoop binds one thread by the rules in force, releases threads,  *)
(* loads new rules, or is not visible.                                     *)

Image(b) == [cpus |-> b.cpus, is_thread_rule |-> b.is_thread_rule]

(* Bound, as a function of the entries and the job it is made from.        *)
BoundOf(tk, jb) ==
    [t \in DOMAIN tk \cup {j.tid : j \in {j \in jb : ~ j.dead}} |->
        LET entries == {tk[u] : u \in DOMAIN tk \cap {t}}
            results == {j.result : j \in {j \in {j \in jb : ~ j.dead} : j.tid = t}}
            b       == CHOOSE b \in (IF results # {} THEN results ELSE entries) : TRUE
        IN  [cpus |-> b.cpus, is_thread_rule |-> b.is_thread_rule]]

(* bd shows the entries of tk as they are stored, and the jobs of jb whose *)
(* thread is not dead as they will be.                                     *)
Shows(bd, tk, jb) ==
    /\ bd = [t \in DOMAIN bd |-> bd[t]]
    /\ DOMAIN bd = DOMAIN tk \cup {j.tid : j \in {j \in jb : ~ j.dead}}
    /\ \A t \in DOMAIN tk : bd[t] = Image(tk[t])
    /\ \A j \in jb : ~ j.dead => bd[j.tid] = Image(j.result)

LEMMA BoundByParts == Bound = BoundOf(tasks, job) /\ Bound' = BoundOf(tasks', job')
    BY DEF Bound, Underway, BoundOf

LEMMA BoundValues ==
    ASSUME NEW tk, NEW jb, \A j, k \in jb : j = k, \A j \in jb : j.tid \notin DOMAIN tk
    PROVE  Shows(BoundOf(tk, jb), tk, jb)
<1>1. /\ BoundOf(tk, jb) = [t \in DOMAIN BoundOf(tk, jb) |-> BoundOf(tk, jb)[t]]
      /\ DOMAIN BoundOf(tk, jb) = DOMAIN tk \cup {j.tid : j \in {j \in jb : ~ j.dead}}
    BY DEF BoundOf
<1>2. ASSUME NEW t \in DOMAIN tk
      PROVE  BoundOf(tk, jb)[t] = Image(tk[t])
  <2>1. {j.result : j \in {j \in {j \in jb : ~ j.dead} : j.tid = t}} = {}
    OBVIOUS
  <2>2. {tk[u] : u \in DOMAIN tk \cap {t}} = {tk[t]}
    OBVIOUS
  <2>3. (CHOOSE b \in {tk[t]} : TRUE) = tk[t]
    OBVIOUS
  <2> QED
    BY <2>1, <2>2, <2>3 DEF BoundOf, Image
<1>3. ASSUME NEW j \in jb, ~ j.dead
      PROVE  BoundOf(tk, jb)[j.tid] = Image(j.result)
  <2>1. {k.result : k \in {k \in {k \in jb : ~ k.dead} : k.tid = j.tid}} = {j.result}
    BY <1>3
  <2>2. (CHOOSE b \in {j.result} : TRUE) = j.result
    OBVIOUS
  <2>3. j.tid \in DOMAIN tk \cup {k.tid : k \in {k \in jb : ~ k.dead}}
    BY <1>3
  <2> QED
    BY <2>1, <2>2, <2>3 DEF BoundOf, Image
<1> QED
    BY <1>1, <1>2, <1>3 DEF Shows

(* The same of the mapping, before and after a step.                       *)
LEMMA BoundNow == IInv => Shows(Bound, tasks, job)
<1> SUFFICES ASSUME IInv PROVE Shows(Bound, tasks, job)
    OBVIOUS
<1>1. (\A j, k \in job : j = k) /\ \A j \in job : j.tid \notin DOMAIN tasks
    BY DEF IInv, TypeOK, MainTypeOK, JobUntracked
<1>2. Shows(BoundOf(tasks, job), tasks, job)
    BY <1>1, BoundValues
<1> QED
    BY <1>2, BoundByParts

LEMMA BoundNext == IInv' => Shows(Bound', tasks', job')
<1> SUFFICES ASSUME IInv' PROVE Shows(Bound', tasks', job')
    OBVIOUS
<1>1. (\A j, k \in job' : j = k) /\ \A j \in job' : j.tid \notin DOMAIN tasks'
    BY DEF IInv, TypeOK, MainTypeOK, JobUntracked
<1>2. Shows(BoundOf(tasks', job'), tasks', job')
    BY <1>1, BoundValues
<1> QED
    BY <1>2, BoundByParts

-----------------------------------------------------------------------------
(* What a step has to do to implement Bindings.                            *)

MappedStep == Abstract!Next \/ UNCHANGED <<Bound, cfg, scan_cfg>>

LEMMA SameAppConfig == Abstract!AppConfig = AppConfig
    BY DEF Abstract!AppConfig, AppConfig, Abstract!Rule, Rule

LEMMA AllowedByRules ==
    ASSUME NEW c
    PROVE  Abstract!Allowed(c) =
               {Image(r) : r \in UNION {thread_affinity(pkg, name, c) :
                                           pkg \in Names, name \in Names \cup {Empty}}}
    BY DEF Image, Abstract!Allowed, Abstract!thread_affinity, thread_affinity,
       Abstract!ThreadRules, ThreadRules, Abstract!PackageRules, PackageRules,
       Abstract!CpusOf, CpusOf, Abstract!FallbackDir, FallbackDir,
       Abstract!ensure_cpuset_dir, ensure_cpuset_dir,
       Abstract!pkg_has_thread_rules, pkg_has_thread_rules

(* What follows from rules is allowed by them.                               *)
LEMMA FollowsAllowed ==
    ASSUME NEW c, NEW pid, NEW r, FromRules(pid, EntryFor(pid, r), c)
    PROVE  Image(r) \in Abstract!Allowed(c)
<1>1. PICK pkg \in Names, name \in Names \cup {Empty} :
          \E q \in thread_affinity(pkg, name, c) : EntryFor(pid, r) = EntryFor(pid, q)
    BY DEF FromRules
<1>2. PICK q \in thread_affinity(pkg, name, c) : EntryFor(pid, r) = EntryFor(pid, q)
    BY <1>1
<1>3. Image(r) = Image(q)
    BY <1>2 DEF EntryFor, Image
<1> QED
    BY <1>3, AllowedByRules

LEMMA EntryAllowed ==
    ASSUME NEW c, NEW pid, NEW e, FromRules(pid, e, c)
    PROVE  Image(e) \in Abstract!Allowed(c)
<1>1. PICK pkg \in Names, name \in Names \cup {Empty} :
          \E q \in thread_affinity(pkg, name, c) : e = EntryFor(pid, q)
    BY DEF FromRules
<1>2. PICK q \in thread_affinity(pkg, name, c) : e = EntryFor(pid, q)
    BY <1>1
<1>3. Image(e) = Image(q)
    BY <1>2 DEF EntryFor, Image
<1> QED
    BY <1>3, AllowedByRules

(* A step that only takes bindings away.                                   *)
LEMMA FewerBound ==
    ASSUME IInv, IInv', cfg' = cfg, scan_cfg' = scan_cfg, DOMAIN Bound' \subseteq DOMAIN Bound,
           \A t \in DOMAIN Bound' : Bound'[t] = Bound[t]
    PROVE  MappedStep
<1> DEFINE T == DOMAIN Bound \ DOMAIN Bound'
<1>1. DOMAIN Bound \ T = DOMAIN Bound'
    OBVIOUS
<1>2. Bound' = [t \in DOMAIN Bound \ T |-> Bound[t]]
    BY <1>1, BoundNext DEF Shows
<1>3. Abstract!Release(T)
    BY <1>2 DEF Abstract!Release
<1>4. T \in SUBSET DOMAIN Bound
    OBVIOUS
<1> QED
    BY <1>3, <1>4 DEF MappedStep, Abstract!Next

(* A step that touches neither entries nor the job.                        *)
LEMMA SameBound ==
    ASSUME tasks' = tasks, job' = job, cfg' = cfg, scan_cfg' = scan_cfg
    PROVE  MappedStep
    BY BoundByParts DEF MappedStep

-----------------------------------------------------------------------------
(* Apply binds one thread, by the rules in force, or none.                 *)

LEMMA AllCoherent ==
    ASSUME IInv, ~ Reloading
    PROVE  Abstract!Coherent
<1> SUFFICES ASSUME NEW t \in DOMAIN Bound
             PROVE  Bound[t] \in Abstract!Allowed(cfg) \cup Abstract!Allowed(scan_cfg)
    BY DEF Abstract!Coherent
<1>1. CASE t \in DOMAIN tasks
  <2>1. PICK c \in Effective : FromRules(tasks[t].pid, tasks[t], c)
    BY <1>1, CoherentNow DEF Follows
  <2>2. Image(tasks[t]) \in Abstract!Allowed(c) /\ c \in {cfg, scan_cfg}
    BY <2>1, EntryAllowed DEF Effective
  <2> QED
    BY <1>1, <2>2, BoundNow DEF Shows
<1>2. ASSUME NEW j \in job, ~ j.dead, t = j.tid
      PROVE  Bound[t] \in Abstract!Allowed(cfg) \cup Abstract!Allowed(scan_cfg)
  <2>1. FromRules(j.pid, EntryFor(j.pid, j.result), cfg)
    BY CoherentNow
  <2> QED
    BY <1>2, <2>1, FollowsAllowed, BoundNow DEF Shows
<1> QED
    BY <1>1, <1>2, BoundNow DEF Shows

(* A step that binds one more thread, and moves no other binding.          *)
LEMMA OneBound ==
    ASSUME IInv, IInv', cfg' = cfg, scan_cfg' = scan_cfg, ~ Reloading,
           NEW t \in Tids, NEW b \in Abstract!Allowed(cfg),
           DOMAIN Bound' = DOMAIN Bound \cup {t}, Bound'[t] = b,
           \A u \in DOMAIN Bound \ {t} : Bound'[u] = Bound[u],
           t \in DOMAIN Bound /\ Bound[t].is_thread_rule => b.is_thread_rule
    PROVE  MappedStep
<1>1. Abstract!Coherent
    BY AllCoherent
<1>2. Bound' = [u \in DOMAIN Bound \cup {t} |-> IF u = t THEN b ELSE Bound[u]]
    BY BoundNext DEF Shows
<1>3. Abstract!Bind(t, b)
    BY <1>1, <1>2 DEF Abstract!Bind
<1> QED
    BY <1>3 DEF MappedStep, Abstract!Next

LEMMA ApplyMaps ==
    ASSUME IInv, IInv', cfg' = cfg, scan_cfg' = scan_cfg, pc \in {"scan", "recv"},
           job = {},
           NEW tid \in Tids, NEW pid \in Tids, NEW entry \in PkgEntry,
           NEW comm \in Names \cup {Empty}, NEW trust, Apply(tid, pid, entry, comm, trust)
    PROVE  MappedStep
<1> DEFINE results == ResultToApply(tid, entry, comm, trust, cfg)
<1>1. CASE UNCHANGED <<task, tasks, job>>
    BY <1>1, SameBound
<1>2. ASSUME NEW r \in results, tasks' = TasksWithout({tid}),
             job' = {[tid |-> tid, pid |-> pid, result |-> r, dead |-> tid \notin DOMAIN task]}
      PROVE  MappedStep
  <2>1. FromRules(pid, EntryFor(pid, r), cfg)
    BY ResultFollows DEF IInv
  <2>2. /\ DOMAIN tasks' = DOMAIN tasks \ {tid}
        /\ \A t \in DOMAIN tasks' : tasks'[t] = tasks[t]
    BY <1>2, TaskDel DEF IInv, TypeOK, MainTypeOK
  <2>3. DOMAIN Bound = DOMAIN tasks /\ \A t \in DOMAIN tasks : Bound[t] = Image(tasks[t])
    BY BoundNow DEF Shows
  <2> DEFINE j == [tid |-> tid, pid |-> pid, result |-> r, dead |-> tid \notin DOMAIN task]
  <2>4. job' = {j} /\ j.tid = tid /\ j.result = r
    BY <1>2
  <2> HIDE DEF j
  <2>5. CASE j.dead
    <3>1. DOMAIN Bound' = DOMAIN tasks'
        BY <2>4, <2>5, BoundNext DEF Shows
    <3>2. \A t \in DOMAIN Bound' : Bound'[t] = Bound[t]
        BY <2>2, <2>3, <3>1, BoundNext DEF Shows
    <3> QED
        BY <2>2, <2>3, <3>1, <3>2, FewerBound
  <2>6. CASE ~ j.dead
    <3>1. DOMAIN Bound' = DOMAIN Bound \cup {tid} /\ Bound'[tid] = Image(r)
        BY <2>2, <2>3, <2>4, <2>6, BoundNext DEF Shows
    <3>2. \A u \in DOMAIN Bound \ {tid} : Bound'[u] = Bound[u]
        BY <2>2, <2>3, BoundNext DEF Shows
    <3>3. Image(r) \in Abstract!Allowed(cfg)
        BY <2>1, FollowsAllowed
    <3>4. tid \in DOMAIN Bound /\ Bound[tid].is_thread_rule => Image(r).is_thread_rule
        BY <2>3 DEF ResultToApply, Image
    <3> QED
        BY <3>1, <3>2, <3>3, <3>4, OneBound DEF Reloading
  <2> QED
    BY <2>5, <2>6
<1> QED
    BY <1>1, <1>2 DEF Apply

-----------------------------------------------------------------------------
(* Every step implements Bindings.                                         *)

LEMMA ReloadMaps ==
    ASSUME hot_reload \/ hot_reload_unscanned
    PROVE  MappedStep
<1>1. Bound' = Bound /\ scan_cfg' = scan_cfg
    BY BoundByParts DEF hot_reload, hot_reload_unscanned
<1>2. cfg' \in Abstract!AppConfig
    BY SameAppConfig, LoopAssumption DEF hot_reload, hot_reload_unscanned
<1>3. Abstract!Reload
    BY <1>1, <1>2 DEF Abstract!Reload
<1> QED
    BY <1>3 DEF MappedStep, Abstract!Next

(* A scan begins with no bindings. *)
LEMMA ClearMaps ==
    ASSUME IInv, IInv', full_scan_clear
    PROVE  MappedStep
<1>1. DOMAIN tasks' = {} /\ job' = {} /\ cfg' = cfg /\ scan_cfg' = cfg
    BY EmptyMapFacts DEF full_scan_clear, At
<1>2. Bound' = [t \in {} |-> t]
    BY <1>1, BoundNext DEF Shows
<1>3. Abstract!Renew
    BY <1>1, <1>2 DEF Abstract!Renew, Abstract!NoBindings
<1> QED
    BY <1>3 DEF MappedStep, Abstract!Next

LEMMA ThreadMaps ==
    ASSUME IInv, IInv', full_scan_thread
    PROVE  MappedStep
<1>1. PICK p \in cur, t \in todo :
          Apply(t, p.pid, [pkg |-> p.pkg, htr |-> p.htr],
                IF t \in DOMAIN task THEN task[t].comm ELSE Empty, TRUE)
    BY DEF full_scan_thread
<1> DEFINE entry == [pkg |-> p.pkg, htr |-> p.htr]
           comm == IF t \in DOMAIN task THEN task[t].comm ELSE Empty
<1>2. t \in Tids /\ p \in Target /\ job = {} /\ pc = "scan" /\ cfg' = cfg /\ scan_cfg' = scan_cfg
    BY DEF full_scan_thread, At, IInv, TypeOK, MainTypeOK
<1>3. p.pid \in Tids /\ entry \in PkgEntry
    BY <1>2 DEF Target, PkgEntry
<1>4. comm \in Names \cup {Empty}
    BY DEF IInv, TypeOK, KernelTypeOK, IsMap, Task
<1>5. Apply(t, p.pid, entry, comm, TRUE)
    BY <1>1
<1> HIDE DEF entry, comm
<1> QED
    BY <1>2, <1>3, <1>4, <1>5, ApplyMaps

(* The new entry shows what the job showed already.                        *)
LEMMA CommitMaps ==
    ASSUME IInv, IInv', Commit
    PROVE  MappedStep
<1>1. PICK j \in job :
          IF j.dead THEN UNCHANGED <<applied, lost, tasks>>
          ELSE /\ AppliedInsert(j.tid, j.tid \in DOMAIN task)
               /\ tasks' = Insert(tasks, j.tid, EntryFor(j.pid, j.result))
    BY DEF Commit
<1>2. job = {j} /\ job' = {} /\ cfg' = cfg /\ scan_cfg' = scan_cfg /\ j.tid \notin DOMAIN tasks
    BY DEF Commit, IInv, TypeOK, MainTypeOK, JobUntracked
<1>3. CASE j.dead
  <2>1. DOMAIN Bound = DOMAIN tasks /\ DOMAIN Bound' = DOMAIN tasks /\ tasks' = tasks
    BY <1>1, <1>2, <1>3, BoundNow, BoundNext DEF Shows
  <2>2. \A t \in DOMAIN Bound' : Bound'[t] = Bound[t]
    BY <2>1, BoundNow, BoundNext DEF Shows
  <2> QED
    BY <1>2, <2>1, <2>2, FewerBound
<1>4. CASE ~ j.dead
  <2>1. /\ DOMAIN tasks' = DOMAIN tasks \cup {j.tid}
        /\ tasks'[j.tid] = EntryFor(j.pid, j.result)
        /\ \A u \in DOMAIN tasks : tasks'[u] = tasks[u]
    BY <1>1, <1>2, <1>4 DEF Insert
  <2>2. Image(EntryFor(j.pid, j.result)) = Image(j.result)
    BY DEF Image, EntryFor
  <2>3. DOMAIN Bound = DOMAIN tasks' /\ DOMAIN Bound' = DOMAIN tasks'
    BY <1>2, <1>4, <2>1, BoundNow, BoundNext DEF Shows
  <2>4. \A t \in DOMAIN Bound' : Bound'[t] = Bound[t]
    <3>1. Bound[j.tid] = Image(j.result) /\ \A u \in DOMAIN tasks : Bound[u] = Image(tasks[u])
        BY <1>4, BoundNow DEF Shows
    <3>2. \A u \in DOMAIN tasks' : Bound'[u] = Image(tasks'[u])
        BY BoundNext DEF Shows
    <3> QED
        BY <2>1, <2>2, <2>3, <3>1, <3>2
  <2> QED
    BY <1>2, <2>3, <2>4, FewerBound
<1> QED
    BY <1>3, <1>4

(* A step that removes entries while no thread is being bound.             *)
LEMMA DeleteMaps ==
    ASSUME IInv, IInv', NEW T, tasks' = TasksWithout(T), job = {}, job' = {}, cfg' = cfg,
           scan_cfg' = scan_cfg
    PROVE  MappedStep
<1>1. DOMAIN tasks' = DOMAIN tasks \ T /\ \A t \in DOMAIN tasks' : tasks'[t] = tasks[t]
    BY TaskDel DEF IInv, TypeOK, MainTypeOK
<1>2. DOMAIN Bound = DOMAIN tasks /\ DOMAIN Bound' = DOMAIN tasks'
    BY BoundNow, BoundNext DEF Shows
<1>3. \A t \in DOMAIN Bound' : Bound'[t] = Bound[t]
    BY <1>1, <1>2, BoundNow, BoundNext DEF Shows
<1> QED
    BY <1>1, <1>2, <1>3, FewerBound

LEMMA EventApplyMaps ==
    ASSUME IInv, IInv', cfg' = cfg, scan_cfg' = scan_cfg, pc = "recv", job = {},
           NEW ev \in Event, NEW pk, CachedOK(pk), NEW trust, event_apply(ev, pk, trust)
    PROVE  MappedStep
<1>1. PICK entry \in pkg_lookup_comm(pk, ev.pid, ev.comm, cfg) :
          Apply(ev.tid, ev.pid, entry, ev.comm, trust)
    BY DEF event_apply
<1>2. ev.pid \in Tids /\ ev.tid \in Tids /\ ev.comm \in Names \cup {Empty}
    BY DEF Event
<1>3. cfg \in AppConfig
    BY LoopAssumption DEF IInv, TypeOK, MainTypeOK
<1>4. entry \in PkgEntry
    BY <1>3, LookupType DEF CachedOK
<1> QED
    BY <1>1, <1>2, <1>4, ApplyMaps

LEMMA DispatchMaps ==
    ASSUME IInv, IInv', event_dispatch
    PROVE  MappedStep
<1> DEFINE ev == Head(chan)
<1>1. /\ pc = "recv" /\ job = {} /\ cfg' = cfg /\ scan_cfg' = scan_cfg
      /\ OnExit(ev) \/ OnExec(ev) \/ OnForkOrRename(ev)
    BY DEF event_dispatch, At
<1>2. ev \in Event
    BY DispatchHandled
<1> HIDE DEF ev
<1>3. CachedOK(pkgs)
    BY <1>1, CoherentNow DEF Reloading, IInv, TypeOK, MainTypeOK, CachedOK
<1>4. CachedOK(Remove(pkgs, {ev.pid}))
    BY <1>3, RemoveCached
<1>5. ASSUME NEW pk, Forget(ev, pk)
      PROVE  MappedStep
    BY <1>1, <1>5, DeleteMaps DEF Forget
<1>6. CASE OnExit(ev)
    BY <1>5, <1>6 DEF OnExit
<1>7. CASE OnExec(ev)
    BY <1>1, <1>2, <1>4, <1>5, <1>7, EventApplyMaps DEF OnExec
<1>8. CASE OnForkOrRename(ev)
  <2>1. CASE event_apply(ev, pkgs, ev.type = "RENAME" \/ ev.tid = ev.pid)
    BY <1>1, <1>2, <1>3, <2>1, EventApplyMaps
  <2>2. CASE UNCHANGED <<task, dropped, tasks, pkgs, job>>
    BY <1>1, <2>2, SameBound
  <2> QED
    BY <1>8, <2>1, <2>2 DEF OnForkOrRename
<1> QED
    BY <1>1, <1>6, <1>7, <1>8

LEMMA SyncEndMaps ==
    ASSUME IInv, IInv', affinity_sync_end
    PROVE  MappedStep
    BY DeleteMaps DEF affinity_sync_end, At

LEMMA StepMaps ==
    ASSUME IInv, IInv', [Next]_vars
    PROVE  MappedStep
<1>1. CASE hot_reload \/ hot_reload_unscanned
    BY <1>1, ReloadMaps
<1>2. CASE full_scan_clear \/ full_scan_thread
    BY <1>2, ClearMaps, ThreadMaps
<1>3. CASE event_dispatch \/ Commit
    BY <1>3, DispatchMaps, CommitMaps
<1>4. CASE affinity_sync_end
    BY <1>4, SyncEndMaps
<1>5. CASE KernelStep \/ ebpf_reader \/ UNCHANGED vars
    BY <1>5, SameBound DEF KernelStep, mainVars, ebpf_reader, vars
<1>6. CASE \/ KeepConfig \/ recv_done \/ TimerNotDue
           \/ comm_map_init \/ comm_map_fill \/ applied_clear \/ full_scan_list
           \/ full_scan_process \/ full_scan_package \/ full_scan_end
           \/ affinity_sync_start \/ affinity_sync_thread
    BY <1>6, SameBound DEF KeepConfig, recv_done, TimerNotDue, comm_map_init, comm_map_fill,
       applied_clear, full_scan_list, full_scan_process, full_scan_package, full_scan_end,
       affinity_sync_start, affinity_sync_thread
<1> QED
    BY <1>1, <1>2, <1>3, <1>4, <1>5, <1>6 DEF Next, MainStep, full_scan, affinity_sync

LEMMA InitMaps ==
    ASSUME Init
    PROVE  Abstract!Init
<1>1. DOMAIN tasks = {} /\ job = {} /\ cfg \in Abstract!AppConfig /\ scan_cfg = cfg
    BY EmptyMapFacts, SameAppConfig, LoopAssumption DEF Init
<1>2. Shows(Bound, tasks, job)
    BY InitIInv, BoundNow
<1>3. Bound = [t \in {} |-> t]
    BY <1>1, <1>2 DEF Shows
<1> QED
    BY <1>1, <1>3 DEF Abstract!Init, Abstract!NoBindings

(* The eBPF mode keeps the promises of Bindings: it binds a thread by the  *)
(* rules in force only, beside bindings of the last scan's rules at most,  *)
(* and replaces no thread rule binding by a default (main.rs:51, :93,      *)
(* :306; proccache.rs:56).                                                 *)
THEOREM Implementation == Spec => ImplementsBindings
<1>1. Init => Abstract!Init
    BY InitMaps
<1>2. IInv /\ IInv' /\ [Next]_vars => [Abstract!Next]_<<Bound, cfg, scan_cfg>>
    BY StepMaps DEF MappedStep
<1> QED
    BY <1>1, <1>2, Invariance, PTL DEF Spec, ImplementsBindings, Abstract!Spec
=============================================================================
