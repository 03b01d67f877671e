------------------------- MODULE LiveBinding_proofs -------------------------
(***************************************************************************)
(* What the eBPF mode does for the threads that are alive, as long as the  *)
(* kernel gives no tid away that the daemon is still busy with.  It never  *)
(* undoes the binding of one: what the invariant adds is that reports of   *)
(* exits and the dead threads of the timer are about tids that nobody has. *)
(* And it overlooks no process it is to bind: the invariant of the second  *)
(* half follows such a process from the report of its name, or from the    *)
(* list of the scan, to the entry that the daemon stores.                  *)
(***************************************************************************)
EXTENDS EventLoop_proofs

Exits == {ev \in Range(ring) \cup Range(chan) : ev.type = "EXIT"}

ExitsAreOver == \A ev \in Exits : ev.tid \notin DOMAIN task

DeadAreGone == dead \cap DOMAIN task = {}

GoneIInv == ExitsAreOver /\ DeadAreGone

-----------------------------------------------------------------------------
(* The kernel's steps.                                                     *)

(* What a step puts in the ring: no report of an exit but of one just made.*)
OnlyRealExits ==
    \A ev \in Range(ring') \ Range(ring) : ev.type = "EXIT" => ev.tid \notin DOMAIN task'

LEMMA SubmitOne ==
    ASSUME KernelTypeOK, NEW ev \in Event, submit_event(ev)
    PROVE  Range(ring') \subseteq Range(ring) \cup {ev}
    BY RangeAppend DEF submit_event, KernelTypeOK

LEMMA RenameExits ==
    ASSUME KernelTypeOK, NEW r \in DOMAIN task, NEW name \in Names,
           IF RenameReported(r, name) THEN submit_event(EventOf("RENAME", r, name)) ELSE NoEvent
    PROVE  OnlyRealExits
<1> DEFINE ev == EventOf("RENAME", r, name)
<1>1. ev \in Event /\ ev.type = "RENAME"
    BY EventType
<1>2. submit_event(ev) \/ ring' = ring
    BY DEF NoEvent
<1> HIDE DEF ev
<1> QED
    BY <1>1, <1>2, SubmitOne DEF OnlyRealExits

LEMMA ForkExits ==
    ASSUME KernelTypeOK, NEW t \in Tids, NEW c \in Tids, NEW newProcess \in BOOLEAN,
           sched_process_fork(t, c, newProcess)
    PROVE  OnlyRealExits
<1> DEFINE parent == EventOf("FORK", t, task[t].comm)
           ev == [parent EXCEPT !.tid = c]
<1>1. t \in DOMAIN task /\ task[t].comm \in Names
    BY DEF sched_process_fork, KernelTypeOK, IsMap, Task
<1>2. parent \in Event /\ parent.type = "FORK"
    BY <1>1, EventType
<1>3. submit_event(ev) \/ ring' = ring
    BY DEF sched_process_fork, NoEvent
<1> HIDE DEF parent
<1>4. ev \in Event /\ ev.type = "FORK"
    BY <1>2 DEF Event
<1> HIDE DEF ev
<1> QED
    BY <1>3, <1>4, SubmitOne DEF OnlyRealExits

LEMMA ExecExits ==
    ASSUME KernelTypeOK, NEW t \in Tids, NEW name \in CmdNames, sched_process_exec(t, name)
    PROVE  OnlyRealExits
<1> DEFINE renamed == IF RenameReported(t, name) THEN <<EventOf("RENAME", t, name)>> ELSE <<>>
           execed == IF whitelist_matched(name) THEN <<EventOf("EXEC", t, name)>> ELSE <<>>
           reached == ring \o renamed \o execed
<1>1. t \in DOMAIN task /\ name \in Names
    BY KernelAssumption DEF sched_process_exec, MainThreads
<1>2. /\ renamed \in Seq(Event) /\ execed \in Seq(Event) /\ ring \in Seq(Event)
      /\ \A i \in 1 .. Len(renamed) : renamed[i].type # "EXIT"
      /\ \A i \in 1 .. Len(execed) : execed[i].type # "EXIT"
    BY <1>1, EventType DEF KernelTypeOK
<1>3. ring' = IF Len(reached) <= RingCap THEN reached ELSE SubSeq(reached, 1, RingCap)
    BY DEF sched_process_exec
<1> HIDE DEF renamed, execed
<1>4. /\ ring \o renamed \in Seq(Event)
      /\ \A i \in 1 .. Len(ring \o renamed) :
            (ring \o renamed)[i] \in Range(ring) \/ (ring \o renamed)[i].type # "EXIT"
  <2>1. /\ ring \o renamed \in Seq(Event) /\ Len(ring \o renamed) = Len(ring) + Len(renamed)
        /\ \A i \in 1 .. Len(ring \o renamed) :
              (ring \o renamed)[i] = IF i <= Len(ring) THEN ring[i] ELSE renamed[i - Len(ring)]
    BY <1>2, ConcatProperties
  <2>2. Len(ring) \in Nat /\ Len(renamed) \in Nat /\ DOMAIN ring = 1 .. Len(ring)
    BY <1>2, LenProperties
  <2>3. \A i \in 1 .. Len(ring) : ring[i] \in Range(ring)
    BY <2>2 DEF Range
  <2>4. ASSUME NEW i \in 1 .. Len(ring \o renamed), ~ (i <= Len(ring))
        PROVE  i - Len(ring) \in 1 .. Len(renamed)
    BY <2>1, <2>2, <2>4
  <2> QED
    BY <1>2, <2>1, <2>2, <2>3, <2>4
<1>5. /\ reached \in Seq(Event)
      /\ \A i \in 1 .. Len(reached) : reached[i] \in Range(ring) \/ reached[i].type # "EXIT"
  <2> DEFINE front == ring \o renamed
  <2>1. /\ reached \in Seq(Event) /\ Len(reached) = Len(front) + Len(execed)
        /\ \A i \in 1 .. Len(reached) :
              reached[i] = IF i <= Len(front) THEN front[i] ELSE execed[i - Len(front)]
    BY <1>2, <1>4, ConcatProperties
  <2>2. Len(front) \in Nat /\ Len(execed) \in Nat
    BY <1>2, <1>4, LenProperties
  <2> HIDE DEF front, reached
  <2>3. \A i \in 1 .. Len(front) : front[i] \in Range(ring) \/ front[i].type # "EXIT"
    BY <1>4 DEF front
  <2>4. ASSUME NEW i \in 1 .. Len(reached), ~ (i <= Len(front))
        PROVE  i - Len(front) \in 1 .. Len(execed)
    BY <2>1, <2>2, <2>4
  <2>5. ASSUME NEW i \in 1 .. Len(reached)
        PROVE  reached[i] \in Range(ring) \/ reached[i].type # "EXIT"
    <3>1. CASE i <= Len(front)
        BY <2>1, <2>2, <2>3, <3>1
    <3>2. CASE ~ (i <= Len(front))
        BY <1>2, <2>1, <2>4, <3>2
    <3> QED
        BY <3>1, <3>2
  <2> QED
    BY <2>1, <2>5
<1> HIDE DEF reached
<1>6. \A ev \in Range(ring') : ev \in Range(ring) \/ ev.type # "EXIT"
  <2>1. RingCap \in Nat /\ Len(reached) \in Nat /\ DOMAIN reached = 1 .. Len(reached)
    BY <1>5, KernelAssumption, LenProperties
  <2>2. CASE ring' = reached
    BY <1>5, <2>1, <2>2 DEF Range
  <2>3. CASE ring' = SubSeq(reached, 1, RingCap) /\ ~ (Len(reached) <= RingCap)
    <3>1. /\ DOMAIN ring' = 1 .. RingCap
          /\ \A i \in 1 .. RingCap : ring'[i] = reached[i]
        BY <1>5, <2>1, <2>3, SubSeqProperties
    <3> QED
        BY <1>5, <2>1, <2>3, <3>1 DEF Range
  <2> QED
    BY <1>3, <2>2, <2>3
<1> QED
    BY <1>6 DEF OnlyRealExits

LEMMA ExitExits ==
    ASSUME KernelTypeOK, NEW t \in Tids, sched_process_exit(t)
    PROVE  OnlyRealExits
<1> DEFINE ev == EventOf("EXIT", t, Empty)
<1>1. ev \in Event /\ ev.tid = t
    BY EventType DEF sched_process_exit
<1>2. submit_event(ev) \/ ring' = ring
    BY DEF sched_process_exit, NoEvent
<1>3. t \notin DOMAIN task'
  <2>1. task' = Remove(task, {t})
    BY DEF sched_process_exit
  <2>2. DOMAIN Remove(task, {t}) = DOMAIN task \ {t}
    BY RemoveProperties
  <2> QED
    BY <2>1, <2>2
<1> HIDE DEF ev
<1> QED
    BY <1>1, <1>2, <1>3, SubmitOne DEF OnlyRealExits

LEMMA KernelExits ==
    ASSUME KernelTypeOK, KernelNext
    PROVE  OnlyRealExits
<1>1. ASSUME NEW r \in Tids, NEW t \in Tids, NEW comm \in CommNames, task_rename(r, t, comm)
      PROVE  OnlyRealExits
    BY <1>1, RenameExits, KernelAssumption DEF task_rename
<1>2. ASSUME NEW t \in Tids, NEW name \in CmdNames, SetArgV0(t, name)
      PROVE  OnlyRealExits
    BY <1>2, RenameExits, KernelAssumption DEF SetArgV0, MainThreads
<1>3. ASSUME NEW t \in Tids, ResetAffinity(t)
      PROVE  OnlyRealExits
    BY <1>3 DEF ResetAffinity, OnlyRealExits
<1> QED
    BY <1>1, <1>2, <1>3, ForkExits, ExecExits, ExitExits DEF KernelNext

LEMMA KernelKeepsGone ==
    ASSUME ~ QuickReuse, IInv, GoneIInv, KernelStep
    PROVE  GoneIInv'
<1>1. (DOMAIN task' \ DOMAIN task) \cap InFlight = {} /\ UNCHANGED mainVars
    BY DEF KernelStep
<1>2. chan' = chan /\ dead' = dead
    BY <1>1 DEF mainVars
<1>3. DeadAreGone'
    BY <1>1, <1>2 DEF InFlight, GoneIInv, DeadAreGone
<1>4. ASSUME NEW ev \in Range(ring) \cup Range(chan), ev.type = "EXIT"
      PROVE  ev.tid \notin DOMAIN task'
    BY <1>1, <1>4 DEF InFlight, GoneIInv, ExitsAreOver, Exits
<1>5. OnlyRealExits
    BY KernelExits DEF KernelStep, IInv, TypeOK
<1>6. ExitsAreOver'
    BY <1>2, <1>4, <1>5 DEF ExitsAreOver, Exits, OnlyRealExits
<1> QED
    BY <1>3, <1>6 DEF GoneIInv

-----------------------------------------------------------------------------
(* The daemon's steps.                                                     *)

LEMMA ReaderKeepsGone ==
    ASSUME IInv, GoneIInv, ebpf_reader
    PROVE  GoneIInv'
<1>1. ring \in Seq(Event) /\ ring # <<>> /\ chan \in Seq(Event)
    BY DEF ebpf_reader, IInv, TypeOK, KernelTypeOK, MainTypeOK
<1>2. Head(ring) \in Event
    BY <1>1, HeadTailProperties
<1>3. Range(ring) = {Head(ring)} \cup Range(Tail(ring))
    BY <1>1, RangeTail
<1>4. Range(Append(chan, Head(ring))) = Range(chan) \cup {Head(ring)}
    BY <1>1, <1>2, RangeAppend
<1>5. /\ ring' = Tail(ring) /\ chan' = Append(chan, Head(ring))
      /\ task' = task /\ dead' = dead
    BY DEF ebpf_reader
<1> QED
    BY <1>3, <1>4, <1>5 DEF GoneIInv, ExitsAreOver, Exits, DeadAreGone

(* Binding a thread, and the timer's second look, start and end no thread. *)
LEMMA ApplySameThreads ==
    ASSUME NEW tid, NEW pid, NEW entry, NEW comm, NEW trust,
           Apply(tid, pid, entry, comm, trust)
    PROVE  DOMAIN task' = DOMAIN task
    BY DEF Apply, affinity_set

LEMMA DispatchKeepsGone ==
    ASSUME IInv, GoneIInv, event_dispatch
    PROVE  GoneIInv'
<1>1. Range(chan) = {Head(chan)} \cup Range(Tail(chan))
    BY DispatchHandled
<1>2. chan' = Tail(chan) /\ ring' = ring /\ dead' = dead
    BY DEF event_dispatch
<1>3. DOMAIN task' = DOMAIN task
  <2> DEFINE ev == Head(chan)
  <2>1. OnExit(ev) \/ OnExec(ev) \/ OnForkOrRename(ev)
    BY DEF event_dispatch
  <2> HIDE DEF ev
  <2>2. ASSUME NEW pk, NEW trust, event_apply(ev, pk, trust)
        PROVE  DOMAIN task' = DOMAIN task
    BY <2>2, ApplySameThreads DEF event_apply
  <2> QED
    BY <2>1, <2>2 DEF OnExit, OnExec, OnForkOrRename, Forget
<1> QED
    BY <1>1, <1>2, <1>3 DEF GoneIInv, ExitsAreOver, Exits, DeadAreGone

LEMMA ThreadKeepsGone ==
    ASSUME GoneIInv, full_scan_thread
    PROVE  GoneIInv'
<1>1. DOMAIN task' = DOMAIN task
    BY ApplySameThreads DEF full_scan_thread
<1>2. ring' = ring /\ chan' = chan /\ dead' = dead
    BY DEF full_scan_thread
<1> QED
    BY <1>1, <1>2 DEF GoneIInv, ExitsAreOver, Exits, DeadAreGone

LEMMA SyncThreadKeepsGone ==
    ASSUME GoneIInv, affinity_sync_thread
    PROVE  GoneIInv'
<1>1. PICK t \in todo : /\ affinity_set(t, tasks[t].cpus)
                        /\ dead' = IF t \in DOMAIN task THEN dead ELSE dead \cup {t}
    BY DEF affinity_sync_thread
<1>2. DOMAIN task' = DOMAIN task
    BY <1>1 DEF affinity_set
<1>3. ring' = ring /\ chan' = chan
    BY DEF affinity_sync_thread
<1> QED
    BY <1>1, <1>2, <1>3 DEF GoneIInv, ExitsAreOver, Exits, DeadAreGone

LEMMA QuietKeepsGone ==
    ASSUME GoneIInv, UNCHANGED <<task, ring, chan>>, dead' = dead \/ dead' = {}
    PROVE  GoneIInv'
    BY DEF GoneIInv, ExitsAreOver, Exits, DeadAreGone

LEMMA NextKeepsGone ==
    ASSUME ~ QuickReuse, IInv, GoneIInv, [Next]_vars
    PROVE  GoneIInv'
<1>1. CASE KernelStep \/ ebpf_reader
    BY <1>1, KernelKeepsGone, ReaderKeepsGone
<1>2. CASE full_scan_thread \/ event_dispatch \/ affinity_sync_thread
    BY <1>2, ThreadKeepsGone, DispatchKeepsGone, SyncThreadKeepsGone
<1>3. CASE \/ KeepConfig \/ recv_done \/ TimerNotDue \/ Commit
           \/ hot_reload \/ hot_reload_unscanned
           \/ comm_map_init \/ comm_map_fill \/ full_scan_clear \/ applied_clear
           \/ full_scan_list \/ full_scan_process \/ full_scan_package \/ full_scan_end
           \/ affinity_sync_start \/ affinity_sync_end \/ UNCHANGED vars
    BY <1>3, QuietKeepsGone DEF KeepConfig, recv_done, TimerNotDue, hot_reload,
       hot_reload_unscanned, Commit, comm_map_init, comm_map_fill, full_scan_clear, applied_clear, full_scan_list,
       full_scan_process, full_scan_package, full_scan_end, affinity_sync_start,
       affinity_sync_end, kernelVars, mainVars, vars
<1> QED
    BY <1>1, <1>2, <1>3 DEF Next, MainStep, full_scan, affinity_sync

LEMMA InitGone ==
    ASSUME Init
    PROVE  GoneIInv
    BY DEF Init, KernelInit, GoneIInv, ExitsAreOver, Exits, DeadAreGone, Range

-----------------------------------------------------------------------------
(* What LiveBindingKept asks of a step.                                    *)

StepKeepsLiveBindings ==
    \A t \in DOMAIN tasks \cap DOMAIN task :
        t \notin DOMAIN tasks' =>
            \/ pc = "clear"
            \/ chan # <<>> /\ Head(chan).tid = t /\ Head(chan).type = "EXEC"
            \/ \E j \in job' : j.tid = t

(* Apply takes away no entry but for a job in its place.                   *)
LEMMA ApplyReplaces ==
    ASSUME IInv, NEW tid, NEW pid, NEW entry, NEW comm, NEW trust,
           Apply(tid, pid, entry, comm, trust)
    PROVE  StepKeepsLiveBindings
<1>1. CASE tasks' = tasks
    BY <1>1 DEF StepKeepsLiveBindings
<1>2. ASSUME NEW r, tasks' = TasksWithout({tid}),
             job' = {[tid |-> tid, pid |-> pid, result |-> r, dead |-> tid \notin DOMAIN task]}
      PROVE  StepKeepsLiveBindings
  <2>1. DOMAIN tasks' = DOMAIN tasks \ {tid}
    BY <1>2, TaskDel DEF IInv, TypeOK, MainTypeOK
  <2>2. \E j \in job' : j.tid = tid
    BY <1>2
  <2> QED
    BY <2>1, <2>2 DEF StepKeepsLiveBindings
<1> QED
    BY <1>1, <1>2 DEF Apply

LEMMA DispatchKeepsLive ==
    ASSUME IInv, GoneIInv, event_dispatch
    PROVE  StepKeepsLiveBindings
<1> DEFINE ev == Head(chan)
<1>1. chan # <<>> /\ ev \in Range(chan)
    BY DispatchHandled
<1>2. OnExit(ev) \/ OnExec(ev) \/ OnForkOrRename(ev)
    BY DEF event_dispatch
<1>3. ev.type = "EXIT" => ev.tid \notin DOMAIN task
    BY <1>1 DEF GoneIInv, ExitsAreOver, Exits
<1>4. ASSUME NEW pk, NEW trust, event_apply(ev, pk, trust)
      PROVE  StepKeepsLiveBindings
    BY <1>4, ApplyReplaces DEF event_apply
<1>5. ASSUME NEW pk, Forget(ev, pk), ev.type \in {"EXIT", "EXEC"}
      PROVE  StepKeepsLiveBindings
  <2>1. DOMAIN tasks' = DOMAIN tasks \ {ev.tid}
    BY <1>5, TaskDel DEF Forget, IInv, TypeOK, MainTypeOK
  <2> QED
    BY <1>1, <1>3, <1>5, <2>1 DEF StepKeepsLiveBindings
<1>6. CASE tasks' = tasks
    BY <1>6 DEF StepKeepsLiveBindings
<1> HIDE DEF ev
<1> QED
    BY <1>2, <1>4, <1>5, <1>6 DEF OnExit, OnExec, OnForkOrRename

LEMMA NextKeepsLive ==
    ASSUME IInv, GoneIInv, [Next]_vars
    PROVE  StepKeepsLiveBindings
<1>1. CASE event_dispatch
    BY <1>1, DispatchKeepsLive
<1>2. CASE full_scan_thread
    BY <1>2, ApplyReplaces DEF full_scan_thread
<1>3. CASE full_scan_clear
    BY <1>3 DEF full_scan_clear, At, StepKeepsLiveBindings
<1>4. CASE affinity_sync_end
  <2>1. DOMAIN tasks' = DOMAIN tasks \ dead
    BY <1>4, TaskDel DEF affinity_sync_end, IInv, TypeOK, MainTypeOK
  <2> QED
    BY <2>1 DEF GoneIInv, DeadAreGone, StepKeepsLiveBindings
<1>5. CASE Commit
    BY <1>5 DEF Commit, Insert, StepKeepsLiveBindings
<1>6. CASE tasks' = tasks
    BY <1>6 DEF StepKeepsLiveBindings
<1>7. CASE \/ KernelStep \/ ebpf_reader \/ hot_reload \/ hot_reload_unscanned \/ UNCHANGED vars
           \/ KeepConfig \/ recv_done \/ TimerNotDue
           \/ comm_map_init \/ comm_map_fill \/ applied_clear \/ full_scan_list
           \/ full_scan_process \/ full_scan_package \/ full_scan_end
           \/ affinity_sync_start \/ affinity_sync_thread
    BY <1>6, <1>7 DEF KernelStep, mainVars, ebpf_reader, hot_reload, hot_reload_unscanned,
       vars, KeepConfig, recv_done, TimerNotDue, comm_map_init, comm_map_fill, applied_clear, full_scan_list,
       full_scan_process, full_scan_package, full_scan_end, affinity_sync_start,
       affinity_sync_thread
<1> QED
    BY <1>1, <1>2, <1>3, <1>4, <1>5, <1>7 DEF Next, MainStep, full_scan, affinity_sync

(* With tids that are not reused while the daemon is busy with them, no    *)
(* late exit, no purge and no event of another thread takes a live         *)
(* thread's binding away (main.rs:71, :354).                               *)
THEOREM LiveBindingsStay ==
    ASSUME ~ QuickReuse
    PROVE  Spec => LiveBindingKept
<1>1. Init => GoneIInv
    BY InitGone
<1>2. IInv /\ GoneIInv /\ [Next]_vars => GoneIInv'
    BY NextKeepsGone
<1>3. IInv /\ GoneIInv /\ [Next]_vars => StepKeepsLiveBindings
    BY NextKeepsLive
<1>4. Spec => [][StepKeepsLiveBindings]_vars
    BY <1>1, <1>2, <1>3, Invariance, PTL DEF Spec
<1> QED
    BY <1>4 DEF LiveBindingKept, StepKeepsLiveBindings

-----------------------------------------------------------------------------
(* Coverage.  What the daemon is to find out about a process is among the  *)
(* events under way, or it has been scanned, and no report behind that     *)
(* makes the daemon forget it again.                                       *)

(* The keys of every configuration fit the whitelist, and any comm that is *)
(* recognised hits one of them (NameMatch_proofs has that for the keys of  *)
(* comm_keys_build).                                                       *)
WhitelistSound(c) ==
    /\ Cardinality(UNION {KeysOf[p] : p \in c.pkg_set}) <= TargetCap
    /\ \A comm \in Names : \A p \in CommPkgs[comm] \cap c.pkg_set :
          KeysOf[p] \cap Windows[comm] # {}

(* Any text matches itself taken as a pattern (config.rs:3).                *)
MatchesItself == \A name \in Names : fnmatch(name, name)

CoverageAssumption ==
    /\ ~ QuickReuse /\ RenameAttached /\ ~ CrossRename /\ MatchesItself
    /\ \A c \in Configs : WhitelistSound(c)

(* An event that has its thread bound, and one that has it forgotten.      *)
Binding(ev, t, c) ==
    ev.tid = t /\ ev.type # "EXIT" /\ comm_to_pkg(ev.comm, c) # {}

Unbinding(ev, t, c) ==
    ev.tid = t /\ ev.type = "EXEC" /\ comm_to_pkg(ev.comm, c) = {}

(* No event of q has t forgotten; or one has t bound and none after it has *)
(* it forgotten.                                                           *)
Steady(q, t, c) == \A k \in 1 .. Len(q) : ~ Unbinding(q[k], t, c)

Settled(q, t, c) ==
    \E i \in 1 .. Len(q) :
        Binding(q[i], t, c) /\ \A k \in i + 1 .. Len(q) : ~ Unbinding(q[k], t, c)

LEMMA SteadyLonger ==
    ASSUME NEW q \in Seq(Event), NEW r \in Seq(Event), NEW t, NEW c,
           Steady(q, t, c), Steady(r, t, c)
    PROVE  Steady(q \o r, t, c)
<1>1. /\ Len(q \o r) = Len(q) + Len(r) /\ Len(q) \in Nat /\ Len(r) \in Nat
      /\ \A i \in 1 .. Len(q) + Len(r) :
            (q \o r)[i] = IF i <= Len(q) THEN q[i] ELSE r[i - Len(q)]
    BY ConcatProperties, LenProperties
<1>2. ASSUME NEW i \in 1 .. Len(q) + Len(r)
      PROVE  IF i <= Len(q) THEN i \in 1 .. Len(q) ELSE i - Len(q) \in 1 .. Len(r)
    BY <1>1
<1> QED
    BY <1>1, <1>2 DEF Steady

LEMMA SettledLonger ==
    ASSUME NEW q \in Seq(Event), NEW r \in Seq(Event), NEW t, NEW c,
           Settled(q, t, c), Steady(r, t, c)
    PROVE  Settled(q \o r, t, c)
<1>1. /\ Len(q \o r) = Len(q) + Len(r) /\ Len(q) \in Nat /\ Len(r) \in Nat
      /\ \A i \in 1 .. Len(q) + Len(r) :
            (q \o r)[i] = IF i <= Len(q) THEN q[i] ELSE r[i - Len(q)]
    BY ConcatProperties, LenProperties
<1>2. PICK i \in 1 .. Len(q) :
          Binding(q[i], t, c) /\ \A k \in i + 1 .. Len(q) : ~ Unbinding(q[k], t, c)
    BY DEF Settled
<1>3. i \in 1 .. Len(q \o r) /\ (q \o r)[i] = q[i]
    BY <1>1
<1>4. ASSUME NEW k \in i + 1 .. Len(q \o r) PROVE ~ Unbinding((q \o r)[k], t, c)
  <2>1. CASE k <= Len(q)
    <3>1. k \in i + 1 .. Len(q) /\ (q \o r)[k] = q[k]
      BY <1>1, <2>1
    <3> QED
      BY <1>2, <3>1
  <2>2. CASE ~ (k <= Len(q))
    <3>1. k - Len(q) \in 1 .. Len(r) /\ (q \o r)[k] = r[k - Len(q)]
      BY <1>1, <2>2
    <3> QED
      BY <3>1 DEF Steady
  <2> QED
    BY <2>1, <2>2
<1> QED
    BY <1>2, <1>3, <1>4 DEF Settled

LEMMA EndsBinding ==
    ASSUME NEW q \in Seq(Event), NEW r \in Seq(Event), r # <<>>, NEW t, NEW c,
           Binding(r[Len(r)], t, c)
    PROVE  Settled(q \o r, t, c)
<1>1. /\ Len(q \o r) = Len(q) + Len(r) /\ Len(q) \in Nat /\ Len(r) \in Nat \ {0}
      /\ \A i \in 1 .. Len(q) + Len(r) :
            (q \o r)[i] = IF i <= Len(q) THEN q[i] ELSE r[i - Len(q)]
    BY ConcatProperties, LenProperties, EmptySeq
<1> DEFINE n == Len(q) + Len(r)
<1>2. n \in 1 .. Len(q \o r) /\ (q \o r)[n] = r[Len(r)]
    BY <1>1
<1>3. \A k \in n + 1 .. Len(q \o r) : FALSE
    BY <1>1
<1> HIDE DEF n
<1> QED
    BY <1>2, <1>3 DEF Settled

(* What the head of the channel means for a thread, and what comes then.   *)
LEMMA HeadHandled ==
    ASSUME NEW q \in Seq(Event), q # <<>>, NEW t, NEW c
    PROVE  /\ Steady(q, t, c) => Steady(Tail(q), t, c) /\ ~ Unbinding(Head(q), t, c)
           /\ Settled(q, t, c) => \/ Settled(Tail(q), t, c)
                                  \/ Binding(Head(q), t, c) /\ Steady(Tail(q), t, c)
<1>1. /\ Len(q) \in Nat \ {0} /\ Head(q) = q[1] /\ Len(Tail(q)) = Len(q) - 1
      /\ \A i \in 1 .. Len(q) - 1 : Tail(q)[i] = q[i + 1]
    BY HeadTailProperties, EmptySeq
<1>2. \A i \in 1 .. Len(q) - 1 : i + 1 \in 1 .. Len(q)
    BY <1>1
<1>3. 1 \in 1 .. Len(q)
    BY <1>1
<1>4. Steady(q, t, c) => Steady(Tail(q), t, c) /\ ~ Unbinding(Head(q), t, c)
    BY <1>1, <1>2, <1>3 DEF Steady
<1>5. ASSUME Settled(q, t, c)
      PROVE  \/ Settled(Tail(q), t, c)
             \/ Binding(Head(q), t, c) /\ Steady(Tail(q), t, c)
  <2>1. PICK i \in 1 .. Len(q) :
            Binding(q[i], t, c) /\ \A k \in i + 1 .. Len(q) : ~ Unbinding(q[k], t, c)
    BY <1>5 DEF Settled
  <2>2. CASE i = 1
    <3>1. \A k \in 1 .. Len(q) - 1 : k + 1 \in i + 1 .. Len(q)
      BY <1>1, <2>2
    <3> QED
      BY <1>1, <2>1, <2>2, <3>1 DEF Steady
  <2>3. CASE i # 1
    <3>1. i - 1 \in 1 .. Len(q) - 1 /\ (i - 1) + 1 = i
      BY <1>1, <2>3
    <3>2. \A k \in (i - 1) + 1 .. Len(q) - 1 : k \in 1 .. Len(q) - 1 /\ k + 1 \in i + 1 .. Len(q)
      BY <1>1, <3>1
    <3>3. Tail(q)[i - 1] = q[i]
      BY <1>1, <3>1
    <3>4. \A k \in (i - 1) + 1 .. Len(q) - 1 : ~ Unbinding(Tail(q)[k], t, c)
      BY <1>1, <2>1, <3>2
    <3> QED
      BY <1>1, <2>1, <3>1, <3>3, <3>4 DEF Settled
  <2> QED
    BY <2>2, <2>3
<1> QED
    BY <1>4, <1>5

-----------------------------------------------------------------------------
(* The kernel's steps.                                                     *)

(* A package that has CPUs for its threads.                                *)
Gives(pkg, c) == thread_affinity(pkg, Empty, c) # {}

(* Process t has a configured name, and shows it.                          *)
WantedIn(tk, t, c) ==
    /\ t \in DOMAIN tk /\ tk[t].tgid = t /\ Gives(tk[t].cmd, c)
    /\ tk[t].cmd \in c.pkg_set /\ tk[t].cmd \in CommPkgs[tk[t].comm]

(* What a step reports, as far as the ring takes it: of the threads it     *)
(* loses no event of, nothing that has a wanted process forgotten, and     *)
(* last of all the process that it makes a wanted one.                     *)
Reporting(r) ==
    /\ r \in Seq(Event) /\ ring' = ring \o r /\ dropped \subseteq dropped'
    /\ \A t \in Tids \ dropped' : WantedIn(task', t, cfg) =>
          /\ Steady(r, t, cfg)
          /\ WantedIn(task, t, cfg) \/ (r # <<>> /\ Binding(r[Len(r)], t, cfg))

LEMMA WantedSeen ==
    ASSUME CoverageAssumption, TypeOK, target = WhitelistKeys, NEW comm \in Names,
           NEW pkg \in cfg.pkg_set, pkg \in CommPkgs[comm]
    PROVE  whitelist_matched(comm) /\ comm_to_pkg(comm, cfg) # {}
<1>1. cfg \in Configs
    BY DEF TypeOK, MainTypeOK
<1>2. KeysOf[pkg] \cap Windows[comm] # {}
    BY <1>1 DEF CoverageAssumption, WhitelistSound
<1>3. KeysOf[pkg] \subseteq target
    BY DEF WhitelistKeys
<1>4. whitelist_matched(comm)
    BY <1>2, <1>3 DEF whitelist_matched
<1>5. comm_to_pkg(comm, cfg) # {}
    BY DEF comm_to_pkg
<1> QED
    BY <1>4, <1>5

(* Reports of no event, and of one.                                        *)
LEMMA NoneReported ==
    ASSUME TypeOK, ring' = ring, dropped \subseteq dropped',
           \A t \in Tids \ dropped' : WantedIn(task', t, cfg) => WantedIn(task, t, cfg)
    PROVE  Reporting(<<>>)
<1>1. ring \in Seq(Event)
    BY DEF TypeOK, KernelTypeOK
<1>2. <<>> \in Seq(Event) /\ Len(<<>>) = 0 /\ ring \o <<>> = ring
    BY <1>1, EmptySeq, ConcatEmptySeq
<1>3. \A t : Steady(<<>>, t, cfg)
    BY <1>2 DEF Steady
<1> QED
    BY <1>2, <1>3 DEF Reporting

LEMMA OneReported ==
    ASSUME TypeOK, NEW ev \in Event, ring' = Append(ring, ev), dropped' = dropped,
           \A t \in Tids : WantedIn(task', t, cfg) =>
               /\ ~ Unbinding(ev, t, cfg)
               /\ WantedIn(task, t, cfg) \/ Binding(ev, t, cfg)
    PROVE  Reporting(<<ev>>)
<1>1. ring \in Seq(Event)
    BY DEF TypeOK, KernelTypeOK
<1> DEFINE r == <<ev>>
<1>2. r \in Seq(Event) /\ Len(r) = 1 /\ r[1] = ev /\ r # <<>>
    OBVIOUS
<1>3. ring \o r = Append(ring, ev)
    BY <1>1
<1> HIDE DEF r
<1>4. \A t : ~ Unbinding(ev, t, cfg) => Steady(r, t, cfg)
    BY <1>2 DEF Steady
<1> QED
    BY <1>2, <1>3, <1>4 DEF Reporting, r

ReportsAll == \E r \in Seq(Event) : Reporting(r)

(* What submit_event is given is reported, or its thread's event is lost.  *)
LEMMA Submitted ==
    ASSUME TypeOK, NEW ev \in Event, submit_event(ev),
           \A t \in Tids : WantedIn(task', t, cfg) =>
               /\ ~ Unbinding(ev, t, cfg)
               /\ WantedIn(task, t, cfg) \/ Binding(ev, t, cfg)
    PROVE  ReportsAll
<1>1. CASE Full
  <2>1. ring' = ring /\ dropped' = dropped \cup {ev.tid}
    BY <1>1 DEF submit_event
  <2>2. \A t \in Tids \ dropped' : WantedIn(task', t, cfg) => WantedIn(task, t, cfg)
    BY <2>1 DEF Binding
  <2>3. Reporting(<<>>)
    BY <2>1, <2>2, NoneReported
  <2> QED
    BY <2>3 DEF ReportsAll, Reporting
<1>2. CASE ~ Full
  <2>1. ring' = Append(ring, ev) /\ dropped' = dropped
    BY <1>2 DEF submit_event
  <2>2. Reporting(<<ev>>)
    BY <2>1, OneReported
  <2> QED
    BY <2>2 DEF ReportsAll, Reporting
<1> QED
    BY <1>1, <1>2

LEMMA ForkReports ==
    ASSUME CoverageAssumption, TypeOK, target = WhitelistKeys,
           NEW t \in Tids, NEW c \in Tids, NEW newProcess \in BOOLEAN,
           sched_process_fork(t, c, newProcess)
    PROVE  ReportsAll
<1>1. t \in DOMAIN task /\ task[t] \in Task /\ task[t].tgid \in DOMAIN task /\ c \notin DOMAIN task
    BY DEF sched_process_fork, MainThreadAlive, Unused, TypeOK, KernelTypeOK, IsMap
<1> DEFINE main == task[task[t].tgid]
           child == IF newProcess THEN [task[t] EXCEPT !.tgid = c, !.cmd = main.cmd]
                    ELSE [task[t] EXCEPT !.cmd = Empty]
           ev == [EventOf("FORK", t, task[t].comm) EXCEPT !.tid = c]
<1>2. task' = Insert(task, c, child)
    BY DEF sched_process_fork
<1>3. child.comm = task[t].comm /\ child.tgid = IF newProcess THEN c ELSE task[t].tgid
    BY <1>1 DEF Task
<1>4. ev \in Event /\ ev.tid = c /\ ev.type = "FORK" /\ ev.comm = task[t].comm
  <2>1. EventOf("FORK", t, task[t].comm) \in Event
    BY <1>1, EventType DEF TypeOK, Task
  <2>2. /\ EventOf("FORK", t, task[t].comm).type = "FORK"
        /\ EventOf("FORK", t, task[t].comm).comm = task[t].comm
    BY DEF EventOf
  <2> QED
    BY <2>1, <2>2 DEF Event
<1>5. IF applied_lookup(t) \/ whitelist_matched(task[t].comm) THEN submit_event(ev) ELSE NoEvent
    BY DEF sched_process_fork
<1> HIDE DEF main, child, ev
<1>6. DOMAIN task' = DOMAIN task \cup {c} /\ task'[c] = child
      /\ \A u \in DOMAIN task : task'[u] = task[u]
  <2>1. \A v : /\ DOMAIN Insert(task, c, v) = DOMAIN task \cup {c}
              /\ Insert(task, c, v)[c] = v
              /\ \A u \in DOMAIN task \ {c} : Insert(task, c, v)[u] = task[u]
    BY DEF Insert
  <2> QED
    BY <1>1, <1>2, <2>1
<1>7. ASSUME NEW u \in Tids, u # c, WantedIn(task', u, cfg)
      PROVE  WantedIn(task, u, cfg)
    BY <1>6, <1>7 DEF WantedIn
<1>8. ASSUME WantedIn(task', c, cfg)
      PROVE  whitelist_matched(task[t].comm) /\ comm_to_pkg(task[t].comm, cfg) # {}
  <2>1. child.cmd \in cfg.pkg_set /\ child.cmd \in CommPkgs[task[t].comm]
    BY <1>3, <1>6, <1>8 DEF WantedIn
  <2>2. task[t].comm \in Names
    BY <1>1 DEF Task
  <2> QED
    BY <2>1, <2>2, WantedSeen
<1>9. CASE applied_lookup(t) \/ whitelist_matched(task[t].comm)
  <2>1. ASSUME NEW u \in Tids, WantedIn(task', u, cfg)
        PROVE  ~ Unbinding(ev, u, cfg) /\ (WantedIn(task, u, cfg) \/ Binding(ev, u, cfg))
    BY <1>4, <1>7, <1>8, <2>1 DEF Unbinding, Binding
  <2> QED
    BY <1>4, <1>5, <1>9, <2>1, Submitted
<1>10. CASE ~ (applied_lookup(t) \/ whitelist_matched(task[t].comm))
  <2>1. ring' = ring /\ dropped' = dropped
    BY <1>5, <1>10 DEF NoEvent
  <2>2. \A u \in Tids : WantedIn(task', u, cfg) => WantedIn(task, u, cfg)
    BY <1>7, <1>8, <1>10
  <2>3. Reporting(<<>>)
    BY <2>1, <2>2, NoneReported
  <2> QED
    BY <2>1, <2>3 DEF ReportsAll, Reporting
<1> QED
    BY <1>9, <1>10

(* A thread that changes its name, or a process its name and command line. *)
LEMMA RenameReports ==
    ASSUME CoverageAssumption, TypeOK, target = WhitelistKeys,
           NEW t \in DOMAIN task, NEW name \in Names,
           DOMAIN task' = DOMAIN task, \A u \in DOMAIN task \ {t} : task'[u] = task[u],
           task'[t].comm = name,
           IF RenameReported(t, name) THEN submit_event(EventOf("RENAME", t, name)) ELSE NoEvent
    PROVE  ReportsAll
<1> DEFINE ev == EventOf("RENAME", t, name)
<1>1. ev \in Event /\ ev.tid = t /\ ev.type = "RENAME" /\ ev.comm = name
    BY EventType DEF TypeOK, EventOf
<1>2. IF RenameReported(t, name) THEN submit_event(ev) ELSE NoEvent
    OBVIOUS
<1> HIDE DEF ev
<1>3. ASSUME NEW u \in Tids, u # t, WantedIn(task', u, cfg)
      PROVE  WantedIn(task, u, cfg)
    BY <1>3 DEF WantedIn
<1>4. ASSUME WantedIn(task', t, cfg)
      PROVE  RenameReported(t, name) /\ comm_to_pkg(name, cfg) # {}
    BY <1>4, WantedSeen DEF WantedIn, RenameReported, CoverageAssumption
<1>5. CASE RenameReported(t, name)
  <2>1. ASSUME NEW u \in Tids, WantedIn(task', u, cfg)
        PROVE  ~ Unbinding(ev, u, cfg) /\ (WantedIn(task, u, cfg) \/ Binding(ev, u, cfg))
    BY <1>1, <1>3, <1>4, <2>1 DEF Unbinding, Binding
  <2> QED
    BY <1>1, <1>2, <1>5, <2>1, Submitted
<1>6. CASE ~ RenameReported(t, name)
  <2>1. ring' = ring /\ dropped' = dropped
    BY <1>2, <1>6 DEF NoEvent
  <2>2. \A u \in Tids : WantedIn(task', u, cfg) => WantedIn(task, u, cfg)
    BY <1>3, <1>4, <1>6
  <2>3. Reporting(<<>>)
    BY <2>1, <2>2, NoneReported
  <2> QED
    BY <2>1, <2>3 DEF ReportsAll, Reporting
<1> QED
    BY <1>5, <1>6

(* The beginnings of a sequence, and of one continued.                     *)
LEMMA Prefix ==
    ASSUME NEW S, NEW s \in Seq(S), NEW n \in 0 .. Len(s)
    PROVE  /\ SubSeq(s, 1, n) \in Seq(S) /\ Len(SubSeq(s, 1, n)) = n
           /\ \A i \in 1 .. n : SubSeq(s, 1, n)[i] = s[i]
<1>1. Len(s) \in Nat /\ \A i \in 1 .. Len(s) : s[i] \in S
    BY LenProperties, ElementOfSeq
<1>2. n \in Nat /\ \A i \in 1 .. n : i \in 1 .. Len(s)
    BY <1>1
<1>3. \A i \in 1 .. n : s[i] \in S
    BY <1>1, <1>2
<1>4. IF 1 <= n THEN n - 1 + 1 = n ELSE n = 0
    BY <1>2
<1>5. \A i \in 1 .. n : 1 + i - 1 = i
    BY <1>2
<1> QED
    BY <1>2, <1>3, <1>4, <1>5, SubSeqProperties

LEMMA PrefixOfConcat ==
    ASSUME NEW S, NEW s \in Seq(S), NEW r \in Seq(S), NEW k \in Nat,
           Len(s) <= k, k <= Len(s \o r)
    PROVE  SubSeq(s \o r, 1, k) = s \o SubSeq(r, 1, k - Len(s))
<1> DEFINE m == Len(s)
           n == k - m
           head == SubSeq(r, 1, n)
           joined == s \o r
           left == SubSeq(joined, 1, k)
           right == s \o head
<1>1. /\ m \in Nat /\ Len(r) \in Nat
      /\ joined \in Seq(S) /\ Len(joined) = m + Len(r)
      /\ \A i \in 1 .. m + Len(r) : joined[i] = IF i <= m THEN s[i] ELSE r[i - m]
    BY LenProperties, ConcatProperties
<1>2. k \in 0 .. Len(joined) /\ n \in 0 .. Len(r)
    BY <1>1
<1>3. /\ left \in Seq(S) /\ Len(left) = k /\ \A i \in 1 .. k : left[i] = joined[i]
    BY <1>1, <1>2, Prefix
<1>4. /\ head \in Seq(S) /\ Len(head) = n /\ \A i \in 1 .. n : head[i] = r[i]
    BY <1>2, Prefix
<1> HIDE DEF head, joined, left
<1>5. /\ right \in Seq(S) /\ Len(right) = m + n
      /\ \A i \in 1 .. m + n : right[i] = IF i <= m THEN s[i] ELSE head[i - m]
    BY <1>4, LenProperties, ConcatProperties
<1> HIDE DEF right
<1>6. m + n = k
    BY <1>1
<1>7. ASSUME NEW i \in 1 .. k PROVE left[i] = right[i]
  <2>1. i \in 1 .. m + Len(r) /\ i \in 1 .. m + n
    BY <1>1, <1>2, <1>6
  <2>2. ~ (i <= m) => i - m \in 1 .. n
    BY <1>1, <1>6
  <2> HIDE DEF m, n
  <2> QED
    BY <1>1, <1>3, <1>4, <1>5, <2>1, <2>2
<1> HIDE DEF m, n
<1>8. left = right
    BY <1>3, <1>5, <1>6, <1>7, SeqEqual
<1> QED
    BY <1>8 DEF left, right, joined, head, n, m

LEMMA ExecReports ==
    ASSUME CoverageAssumption, TypeOK, target = WhitelistKeys,
           NEW t \in Tids, NEW name \in CmdNames, sched_process_exec(t, name)
    PROVE  ReportsAll
<1> DEFINE ren == EventOf("RENAME", t, name)
           exe == EventOf("EXEC", t, name)
           renamed == IF RenameReported(t, name) THEN <<ren>> ELSE <<>>
           execed == IF whitelist_matched(name) THEN <<exe>> ELSE <<>>
           reached == ring \o renamed \o execed
<1>1. t \in DOMAIN task /\ task[t] \in Task /\ name \in Names
    BY KernelAssumption DEF sched_process_exec, MainThreads, TypeOK, KernelTypeOK, IsMap
<1>2. /\ ren \in Event /\ ren.tid = t /\ ren.type = "RENAME"
      /\ exe \in Event /\ exe.tid = t /\ exe.type = "EXEC" /\ exe.comm = name
    BY <1>1, EventType DEF TypeOK, EventOf
<1>3. /\ ring' = IF Len(reached) <= RingCap THEN reached ELSE SubSeq(reached, 1, RingCap)
      /\ dropped' = IF Len(reached) <= RingCap THEN dropped ELSE dropped \cup {t}
    BY DEF sched_process_exec
<1>4. DOMAIN task' = DOMAIN task /\ (\A u \in DOMAIN task \ {t} : task'[u] = task[u])
      /\ task'[t].comm = name /\ task'[t].cmd = name
    BY <1>1 DEF sched_process_exec, Task
<1> HIDE DEF ren, exe
<1> DEFINE r == renamed \o execed
<1>5. renamed \in Seq(Event) /\ execed \in Seq(Event) /\ ring \in Seq(Event)
    BY <1>2 DEF TypeOK, KernelTypeOK
<1>6. /\ Len(renamed) \in 0 .. 1 /\ Len(execed) \in 0 .. 1
      /\ \A i \in 1 .. Len(renamed) : renamed[i] = ren
      /\ \A i \in 1 .. Len(execed) : execed[i] = exe
      /\ whitelist_matched(name) => Len(execed) = 1
  <2>1. \A x : Len(<<x>>) = 1 /\ <<x>>[1] = x
    OBVIOUS
  <2>2. Len(<<>>) = 0
    OBVIOUS
  <2>3. 1 .. 1 = {1} /\ 1 .. 0 = {} /\ 0 \in 0 .. 1 /\ 1 \in 0 .. 1
    OBVIOUS
  <2>4. Len(renamed) \in 0 .. 1 /\ \A i \in 1 .. Len(renamed) : renamed[i] = ren
    BY <2>1, <2>2, <2>3
  <2>5. Len(execed) \in 0 .. 1 /\ \A i \in 1 .. Len(execed) : execed[i] = exe
    BY <2>1, <2>2, <2>3
  <2>6. whitelist_matched(name) => Len(execed) = 1
    BY <2>1
  <2> QED
    BY <2>4, <2>5, <2>6
<1> HIDE DEF renamed, execed
<1>7. /\ r \in Seq(Event) /\ Len(r) = Len(renamed) + Len(execed)
      /\ \A i \in 1 .. Len(renamed) + Len(execed) :
            r[i] = IF i <= Len(renamed) THEN renamed[i] ELSE execed[i - Len(renamed)]
    BY <1>5, ConcatProperties
<1>8. reached = ring \o r
    BY <1>5, ConcatAssociative
<1> HIDE DEF reached, r
<1>9. \A i \in 1 .. Len(r) : r[i] \in {ren, exe}
    BY <1>6, <1>7
<1>10. ASSUME whitelist_matched(name) PROVE Len(r) \in Nat \ {0} /\ r[Len(r)] = exe
  <2> DEFINE m == Len(renamed)
             n == Len(execed)
  <2>1. m \in 0 .. 1 /\ n = 1 /\ Len(r) = m + n
    BY <1>6, <1>7, <1>10
  <2>2. execed[1] = exe
    BY <1>6, <2>1
  <2>3. \A i \in 1 .. m + n : r[i] = IF i <= m THEN renamed[i] ELSE execed[i - m]
    BY <1>7
  <2> HIDE DEF m, n
  <2>4. m + n \in 1 .. m + n /\ ~ (m + n <= m) /\ (m + n) - m = 1 /\ m + n \in Nat \ {0}
    BY <2>1
  <2>5. r[m + n] = execed[1]
    BY <2>3, <2>4
  <2> QED
    BY <2>1, <2>2, <2>4, <2>5
<1>11. ASSUME NEW u \in Tids, WantedIn(task', u, cfg)
       PROVE  /\ Steady(r, u, cfg)
              /\ WantedIn(task, u, cfg) \/ (r # <<>> /\ Binding(r[Len(r)], u, cfg))
  <2>1. CASE u # t
    <3>1. WantedIn(task, u, cfg)
      BY <1>4, <1>11, <2>1 DEF WantedIn
    <3>2. Steady(r, u, cfg)
      BY <1>2, <1>9, <2>1 DEF Steady, Unbinding
    <3> QED
      BY <3>1, <3>2
  <2>2. CASE u = t
    <3>1. whitelist_matched(name) /\ comm_to_pkg(name, cfg) # {}
      BY <1>1, <1>4, <1>11, <2>2, WantedSeen DEF WantedIn
    <3>2. Steady(r, u, cfg)
      BY <1>2, <1>9, <3>1 DEF Steady, Unbinding
    <3>3. Len(r) \in Nat \ {0} /\ r[Len(r)] = exe
      BY <1>10, <3>1
    <3>4. r # <<>>
      BY <3>3, EmptySeq
    <3>5. Binding(r[Len(r)], u, cfg)
      BY <1>2, <2>2, <3>1, <3>3 DEF Binding
    <3> QED
      BY <3>2, <3>4, <3>5
  <2> QED
    BY <2>1, <2>2
<1>12. CASE Len(reached) <= RingCap
  <2>1. Reporting(r)
    BY <1>3, <1>7, <1>8, <1>11, <1>12 DEF Reporting
  <2> QED
    BY <1>7, <2>1 DEF ReportsAll
<1>13. CASE ~ (Len(reached) <= RingCap)
  <2> DEFINE n == RingCap - Len(ring)
             taken == SubSeq(r, 1, n)
  <2>1. /\ Len(r) \in Nat /\ Len(ring) \in Nat /\ RingCap \in Nat /\ Len(ring) <= RingCap
        /\ Len(reached) = Len(ring) + Len(r)
    BY <1>5, <1>7, <1>8, KernelAssumption, ConcatProperties, LenProperties
       DEF TypeOK, KernelTypeOK
  <2>2. n \in 0 .. Len(r) /\ n \in Nat
    BY <1>13, <2>1
  <2>3. /\ taken \in Seq(Event) /\ Len(taken) = n
        /\ \A i \in 1 .. n : taken[i] = r[i]
    BY <1>7, <2>2, Prefix
  <2> HIDE DEF taken
  <2>4. ring' = ring \o taken
    <3>1. ring' = SubSeq(ring \o r, 1, RingCap)
      BY <1>3, <1>8, <1>13
    <3>2. Len(ring) <= RingCap /\ RingCap <= Len(ring \o r) /\ RingCap \in Nat
      BY <1>8, <1>13, <2>1
    <3>3. SubSeq(ring \o r, 1, RingCap) = ring \o SubSeq(r, 1, RingCap - Len(ring))
      BY ONLY <1>5, <1>7, <3>2, PrefixOfConcat, Zenon
    <3> QED
      BY <3>1, <3>3 DEF taken
  <2>5. \A u \in Tids \ {t} : Steady(taken, u, cfg)
    <3>1. \A i \in 1 .. n : i \in 1 .. Len(r)
      BY <2>1, <2>2
    <3>2. \A i \in 1 .. Len(taken) : taken[i] \in {ren, exe}
      BY <1>9, <2>3, <3>1
    <3> QED
      BY <1>2, <3>2 DEF Steady, Unbinding
  <2>6. \A u \in Tids \ {t} : WantedIn(task', u, cfg) => WantedIn(task, u, cfg)
    BY <1>4 DEF WantedIn
  <2>7. Reporting(taken)
    BY <1>3, <1>13, <2>3, <2>4, <2>5, <2>6 DEF Reporting
  <2> QED
    BY <2>3, <2>7 DEF ReportsAll
<1> QED
    BY <1>12, <1>13

LEMMA ExitReports ==
    ASSUME CoverageAssumption, TypeOK, NEW t \in Tids, sched_process_exit(t)
    PROVE  ReportsAll
<1> DEFINE ev == EventOf("EXIT", t, Empty)
<1>1. ev \in Event /\ ev.type = "EXIT"
    BY EventType DEF TypeOK, sched_process_exit
<1>2. task' = Remove(task, {t}) /\ (submit_event(ev) \/ NoEvent)
    BY DEF sched_process_exit
<1> HIDE DEF ev
<1>3. DOMAIN task' = DOMAIN task \ {t} /\ \A u \in DOMAIN task' : task'[u] = task[u]
  <2>1. /\ DOMAIN Remove(task, {t}) = DOMAIN task \ {t}
        /\ \A u \in DOMAIN task \ {t} : Remove(task, {t})[u] = task[u]
    BY RemoveProperties
  <2> QED
    BY <1>2, <2>1
<1>4. \A u \in Tids : WantedIn(task', u, cfg) => WantedIn(task, u, cfg)
    BY <1>3 DEF WantedIn
<1>5. CASE submit_event(ev)
    BY <1>1, <1>4, <1>5, Submitted DEF Unbinding
<1>6. CASE NoEvent
    BY <1>4, <1>6, NoneReported DEF NoEvent, ReportsAll, Reporting
<1> QED
    BY <1>2, <1>5, <1>6

LEMMA KernelReports ==
    ASSUME CoverageAssumption, TypeOK, target = WhitelistKeys, KernelNext
    PROVE  ReportsAll
<1>1. IsMap(task, Tids, Task)
    BY DEF TypeOK, KernelTypeOK
<1>2. ASSUME NEW r \in Tids, NEW t \in Tids, NEW comm \in CommNames, task_rename(r, t, comm)
      PROVE  ReportsAll
  <2>1. r = t /\ t \in DOMAIN task /\ comm \in Names /\ task[t] \in Task
    BY <1>1, <1>2, KernelAssumption DEF task_rename, CoverageAssumption, IsMap
  <2>2. /\ DOMAIN task' = DOMAIN task /\ task'[t].comm = comm
        /\ \A u \in DOMAIN task \ {t} : task'[u] = task[u]
    BY <1>2, <2>1 DEF task_rename, Task
  <2> QED
    BY <1>2, <2>1, <2>2, RenameReports DEF task_rename
<1>3. ASSUME NEW t \in Tids, NEW name \in CmdNames, SetArgV0(t, name)
      PROVE  ReportsAll
  <2>1. t \in DOMAIN task /\ name \in Names /\ task[t] \in Task
    BY <1>1, <1>3, KernelAssumption DEF SetArgV0, MainThreads, IsMap
  <2>2. /\ DOMAIN task' = DOMAIN task /\ task'[t].comm = name
        /\ \A u \in DOMAIN task \ {t} : task'[u] = task[u]
    BY <1>3, <2>1 DEF SetArgV0, Task
  <2> QED
    BY <1>3, <2>1, <2>2, RenameReports DEF SetArgV0
<1>4. ASSUME NEW t \in Tids, ResetAffinity(t)
      PROVE  ReportsAll
  <2>1. t \in DOMAIN task /\ task[t] \in Task /\ ring' = ring /\ dropped' = dropped
    BY <1>1, <1>4 DEF ResetAffinity, IsMap
  <2>2. task' = [task EXCEPT ![t].aff = Present]
    BY <1>4 DEF ResetAffinity
  <2>3. \A u \in Tids : WantedIn(task', u, cfg) => WantedIn(task, u, cfg)
    BY <2>1, <2>2 DEF WantedIn, Task
  <2> QED
    BY <2>1, <2>3, NoneReported DEF ReportsAll, Reporting
<1> QED
    BY <1>2, <1>3, <1>4, ForkReports, ExecReports, ExitReports DEF KernelNext

-----------------------------------------------------------------------------
(* What the daemon knows.                                                  *)

(* A scan for the configuration in force has listed the processes.         *)
Scanned ==
    /\ scan_cfg = cfg
    /\ pc \in {"scan", "recv", "timer", "sync"} \/ (pc = "top" /\ ~ need_full_scan)

(* The process is bound, or about to be.                                   *)
InHand(t) ==
    \/ t \in DOMAIN tasks
    \/ \E j \in job : j.tid = t
    \/ \E p \in targets : p.pid = t /\ Gives(p.pkg, cfg)
    \/ pc = "scan" /\ t \in todo /\ \E p \in cur : Gives(p.pkg, cfg)

Assured(t) ==
    \/ InHand(t) /\ Steady(chan \o ring, t, cfg)
    \/ Settled(chan \o ring, t, cfg)

Coverage ==
    Scanned => \A t \in Tids \ dropped : WantedIn(task, t, cfg) => Assured(t)

(* A job found dead is one, the whitelist is that of the rules in force    *)
(* once the marks are cleared, and the scan has threads to visit only of a *)
(* process.                                                                *)
JobsOfDead == \A j \in job : j.dead => j.tid \notin DOMAIN task

Watched == Scanned \/ pc \in {"clear", "unmark", "list"} => target = WhitelistKeys

ScanUnderWay == pc \in {"list", "scan"} /\ cur = {} => todo = {}

CoverIInv == JobsOfDead /\ Watched /\ ScanUnderWay /\ Coverage

LEMMA JobsStayDead ==
    ASSUME ~ QuickReuse, IInv, JobsOfDead, [Next]_vars
    PROVE  JobsOfDead'
<1>1. CASE job' = job /\ DOMAIN task' \cap {j.tid : j \in job} \subseteq DOMAIN task
    BY <1>1 DEF JobsOfDead
<1>2. ASSUME NEW tid, NEW pid, NEW entry, NEW comm, NEW trust,
             Apply(tid, pid, entry, comm, trust)
      PROVE  JobsOfDead'
  <2>1. DOMAIN task' = DOMAIN task
    BY <1>2, ApplySameThreads
  <2>2. \A j \in job' : j \in job \/ (j.tid = tid /\ j.dead = (tid \notin DOMAIN task))
    BY <1>2 DEF Apply
  <2> QED
    BY <2>1, <2>2 DEF JobsOfDead
<1>3. CASE KernelStep
  <2>1. (DOMAIN task' \ DOMAIN task) \cap InFlight = {} /\ job' = job
    BY <1>3 DEF KernelStep, mainVars
  <2> QED
    BY <1>1, <2>1 DEF InFlight
<1>4. CASE full_scan_thread
    BY <1>2, <1>4 DEF full_scan_thread
<1>5. CASE event_dispatch
  <2> DEFINE ev == Head(chan)
  <2>1. OnExit(ev) \/ OnExec(ev) \/ OnForkOrRename(ev)
    BY <1>5 DEF event_dispatch
  <2> HIDE DEF ev
  <2>2. ASSUME NEW pk, NEW trust, event_apply(ev, pk, trust)
        PROVE  JobsOfDead'
    BY <1>2, <2>2 DEF event_apply
  <2>3. CASE UNCHANGED <<task, job>>
    BY <1>1, <2>3
  <2> QED
    BY <2>1, <2>2, <2>3 DEF OnExit, OnExec, OnForkOrRename, Forget
<1>6. CASE Commit
    BY <1>6 DEF Commit, JobsOfDead
<1>7. CASE affinity_sync_thread
  <2>1. DOMAIN task' = DOMAIN task /\ job' = job
    BY <1>7 DEF affinity_sync_thread, affinity_set
  <2> QED
    BY <1>1, <2>1
<1>8. CASE \/ ebpf_reader \/ KeepConfig \/ recv_done \/ TimerNotDue
           \/ hot_reload \/ hot_reload_unscanned
           \/ comm_map_init \/ comm_map_fill \/ full_scan_clear \/ applied_clear
           \/ full_scan_list \/ full_scan_process \/ full_scan_package \/ full_scan_end
           \/ affinity_sync_start \/ affinity_sync_end \/ UNCHANGED vars
  <2>1. UNCHANGED <<task, job>>
    BY <1>8 DEF ebpf_reader, KeepConfig, recv_done, TimerNotDue, hot_reload,
       hot_reload_unscanned, comm_map_init, comm_map_fill, full_scan_clear, applied_clear, full_scan_list,
       full_scan_process, full_scan_package, full_scan_end, affinity_sync_start,
       affinity_sync_end, kernelVars, mainVars, vars
  <2> QED
    BY <1>1, <2>1
<1> QED
    BY <1>3, <1>4, <1>5, <1>6, <1>7, <1>8 DEF Next, MainStep, full_scan, affinity_sync

LEMMA WatchedNext ==
    ASSUME CoverageAssumption, IInv, Watched, [Next]_vars
    PROVE  Watched'
<1> DEFINE Needed == Scanned \/ pc \in {"clear", "unmark", "list"}
<1>1. CASE target' = target /\ cfg' = cfg /\ (Needed' => Needed)
    BY <1>1 DEF Watched, WhitelistKeys
<1>9. CASE hot_reload_unscanned
  <2>1. target' = target /\ scan_cfg' = scan_cfg /\ pc = "top" /\ inotify_fd
    BY <1>9 DEF hot_reload_unscanned, kernelVars, At
  <2>2. scan_cfg = cfg
    BY <2>1 DEF IInv, ScanUpToDate, Reloading
  <2>3. pc' \in {"whitelist", "recv"} /\ (pc' = "recv" => ~ need_full_scan)
    BY <1>9 DEF hot_reload_unscanned, Goto
  <2>4. CASE cfg' = cfg /\ pc' = "recv"
    BY <1>1, <2>1, <2>2, <2>3, <2>4 DEF Scanned
  <2>5. CASE cfg' # cfg \/ pc' = "whitelist"
    BY <2>1, <2>2, <2>5, <2>3 DEF Scanned, Watched
  <2> QED
    BY <2>3, <2>4, <2>5
<1>2. CASE hot_reload
    BY <1>2 DEF hot_reload, Goto, Watched, Scanned
<1>3. CASE comm_map_init
  <2>1. Cardinality(WhitelistKeys) <= TargetCap
    BY DEF CoverageAssumption, WhitelistSound, WhitelistKeys, IInv, TypeOK, MainTypeOK
  <2>2. pc' = "fill"
    BY <1>3, <2>1 DEF comm_map_init, Goto
  <2> QED
    BY <2>2 DEF Watched, Scanned
<1>4. CASE comm_map_fill
    BY <1>4 DEF comm_map_fill, Watched, WhitelistKeys
<1>5. CASE KernelStep
  <2>1. target' = target
    BY <1>5, KernelSafe DEF KernelStep, IInv, TypeOK
  <2> QED
    BY <1>1, <1>5, <2>1 DEF KernelStep, mainVars, watchVars, Scanned
<1>6. CASE KeepConfig \/ recv_done \/ TimerNotDue \/ affinity_sync_start \/ affinity_sync_end
           \/ affinity_sync_thread
    BY <1>1, <1>6 DEF KeepConfig, recv_done, TimerNotDue, affinity_sync_start,
       affinity_sync_end, affinity_sync_thread, At, Goto, kernelVars, watchVars, Scanned
<1>7. CASE full_scan_clear \/ applied_clear \/ full_scan_list \/ full_scan_end
    BY <1>1, <1>7 DEF full_scan_clear, applied_clear, full_scan_list, full_scan_end,
       At, Goto, kernelVars, watchVars, Scanned
<1>8. CASE ebpf_reader \/ Commit \/ full_scan_process \/ full_scan_thread \/ full_scan_package
           \/ event_dispatch \/ UNCHANGED vars
  <2>1. UNCHANGED <<target, cfg, scan_cfg, pc, need_full_scan>>
    BY <1>8 DEF ebpf_reader, Commit, full_scan_process, full_scan_thread,
       full_scan_package, event_dispatch, vars, kernelVars, mainVars, watchVars
  <2> QED
    BY <1>1, <2>1 DEF Scanned
<1> QED
    BY <1>2, <1>3, <1>4, <1>5, <1>6, <1>7, <1>8, <1>9 DEF Next, MainStep, full_scan, affinity_sync

LEMMA ScanUnderWayNext ==
    ASSUME IInv, ScanUnderWay, [Next]_vars
    PROVE  ScanUnderWay'
<1>1. CASE UNCHANGED <<cur, todo>> /\ (pc' \in {"list", "scan"} => pc \in {"list", "scan"})
    BY <1>1 DEF ScanUnderWay
<1>2. CASE applied_clear
    BY <1>2 DEF applied_clear, ScanUnderWay
<1>3. CASE full_scan_process
    BY <1>3 DEF full_scan_process, ScanUnderWay
<1>4. CASE full_scan_thread
  <2>1. cur # {} /\ cur' = cur
    BY <1>4 DEF full_scan_thread
  <2> QED
    BY <2>1 DEF ScanUnderWay
<1>5. CASE full_scan_package
    BY <1>5 DEF full_scan_package, ScanUnderWay
<1>6. CASE full_scan_clear \/ affinity_sync_start \/ affinity_sync_thread \/ full_scan_end
  <2>1. pc' \notin {"list", "scan"}
    BY <1>6 DEF full_scan_clear, affinity_sync_start, affinity_sync_thread, full_scan_end, At, Goto
  <2> QED
    BY <2>1 DEF ScanUnderWay
<1>7. CASE KernelStep \/ ebpf_reader \/ Commit \/ event_dispatch \/ UNCHANGED vars
    BY <1>1, <1>7 DEF KernelStep, ebpf_reader, Commit, event_dispatch, vars, mainVars
<1>8. CASE KeepConfig \/ hot_reload \/ hot_reload_unscanned \/ recv_done \/ TimerNotDue
           \/ affinity_sync_end \/ comm_map_init \/ comm_map_fill \/ full_scan_list
    BY <1>1, <1>8 DEF KeepConfig, hot_reload, hot_reload_unscanned, recv_done, TimerNotDue, affinity_sync_end,
       comm_map_init, comm_map_fill, full_scan_list, At, Goto
<1> QED
    BY <1>2, <1>3, <1>4, <1>5, <1>6, <1>7, <1>8 DEF Next, MainStep, full_scan, affinity_sync

-----------------------------------------------------------------------------
(* Every step keeps Coverage.                                              *)

(* The reports under way are a sequence of events, whose head is the       *)
(* channel's.                                                              *)
LEMMA QueueType ==
    ASSUME TypeOK
    PROVE  /\ chan \in Seq(Event) /\ ring \in Seq(Event)
           /\ chan \o ring \in Seq(Event)
           /\ chan # <<>> => /\ chan \o ring # <<>>
                             /\ Head(chan \o ring) = Head(chan)
                             /\ Tail(chan \o ring) = Tail(chan) \o ring
<1>1. chan \in Seq(Event) /\ ring \in Seq(Event)
    BY DEF TypeOK, KernelTypeOK, MainTypeOK
<1>2. chan \o ring \in Seq(Event) /\ Len(chan \o ring) = Len(chan) + Len(ring)
    BY <1>1, ConcatProperties
<1>3. ASSUME chan # <<>>
      PROVE  /\ chan \o ring # <<>>
             /\ Head(chan \o ring) = Head(chan)
             /\ Tail(chan \o ring) = Tail(chan) \o ring
    BY <1>1, <1>3
<1> QED
    BY <1>1, <1>2, <1>3

(* Steps that report and handle nothing, and leave in hand what was.       *)
LEMMA QuietCovers ==
    ASSUME Coverage, chan' \o ring' = chan \o ring, cfg' = cfg, dropped' = dropped,
           Scanned' => Scanned,
           \A t \in Tids : WantedIn(task', t, cfg) =>
               WantedIn(task, t, cfg) /\ (InHand(t) => InHand(t)')
    PROVE  Coverage'
<1> SUFFICES ASSUME Scanned', NEW t \in Tids \ dropped', WantedIn(task', t, cfg')
             PROVE  Assured(t)'
    BY DEF Coverage
<1>1. WantedIn(task, t, cfg) /\ (InHand(t) => InHand(t)')
    OBVIOUS
<1>2. Assured(t)
    BY <1>1 DEF Coverage
<1> QED
    BY <1>1, <1>2 DEF Assured

(* A package with CPUs has them for every thread.                          *)
LEMMA GivesAll ==
    ASSUME MatchesItself, cfg \in AppConfig, NEW pkg, NEW name, Gives(pkg, cfg)
    PROVE  thread_affinity(pkg, name, cfg) # {}
<1>1. ThreadRules(pkg, Empty, cfg) = {}
    BY DEF ThreadRules
<1>2. CASE ThreadRules(pkg, name, cfg) = {}
    BY <1>1, <1>2 DEF Gives, thread_affinity
<1>3. CASE ThreadRules(pkg, name, cfg) # {}
  <2>1. PICK i \in DOMAIN cfg.rules : cfg.rules[i].pkg = pkg /\ cfg.rules[i].thread # Empty
    BY <1>3 DEF ThreadRules
  <2>2. cfg.rules[i].pkg \in Names
    <3>1. cfg.rules \in Seq(Rule)
      BY DEF AppConfig
    <3>2. cfg.rules[i] \in Rule
      BY <3>1
    <3> QED
      BY <3>2 DEF Rule
  <2>3. pkg_has_thread_rules(pkg, cfg)
    BY <2>1, <2>2 DEF MatchesItself, pkg_has_thread_rules
  <2> QED
    BY <2>3 DEF thread_affinity
<1> QED
    BY <1>2, <1>3

(* Binding takes no thread out of hand, and in hand that of a package that *)
(* has CPUs.                                                               *)
LEMMA ApplyInHand ==
    ASSUME CoverageAssumption, TypeOK, job = {}, NEW tid \in Tids, NEW pid, NEW entry,
           NEW comm, NEW trust, Apply(tid, pid, entry, comm, trust)
    PROVE  /\ DOMAIN tasks \subseteq DOMAIN tasks' \cup {j.tid : j \in job'}
           /\ Gives(entry.pkg, cfg) => tid \in DOMAIN tasks' \cup {j.tid : j \in job'}
<1> DEFINE results == ResultToApply(tid, entry, comm, trust, cfg)
<1>1. MatchesItself /\ cfg \in AppConfig
    BY LoopAssumption DEF CoverageAssumption, TypeOK, MainTypeOK
<1>2. Gives(entry.pkg, cfg) /\ results = {} => tid \in DOMAIN tasks
    BY <1>1, GivesAll DEF ResultToApply
<1>3. CASE results = {} /\ UNCHANGED <<task, tasks, job>>
    BY <1>2, <1>3
<1>4. ASSUME NEW r, tasks' = TasksWithout({tid}),
             job' = {[tid |-> tid, pid |-> pid, result |-> r, dead |-> tid \notin DOMAIN task]}
      PROVE  DOMAIN tasks \cup {tid} \subseteq DOMAIN tasks' \cup {j.tid : j \in job'}
  <2>1. DOMAIN tasks' = DOMAIN tasks \ {tid}
    BY <1>4, TaskDel DEF TypeOK, MainTypeOK
  <2>2. \E j \in job' : j.tid = tid
    BY <1>4
  <2> QED
    BY <2>1, <2>2
<1> HIDE DEF results
<1> QED
    BY <1>3, <1>4 DEF Apply, results

(* It changes nobody's name.                                               *)
LEMMA AffinityWanted ==
    ASSUME TypeOK, NEW tid, NEW cpus, affinity_set(tid, cpus)
    PROVE  \A t \in Tids : WantedIn(task', t, cfg) => WantedIn(task, t, cfg)
<1>1. IsMap(task, Tids, Task)
    BY DEF TypeOK, KernelTypeOK
<1>2. CASE task' = task
    BY <1>2
<1>3. CASE tid \in DOMAIN task /\ task' = [task EXCEPT ![tid].aff = cpus \cap Present]
  <2>1. DOMAIN task' = DOMAIN task
    BY <1>3
  <2>2. ASSUME NEW t \in DOMAIN task
        PROVE  /\ task'[t].tgid = task[t].tgid /\ task'[t].cmd = task[t].cmd
               /\ task'[t].comm = task[t].comm
    BY <1>1, <1>3 DEF IsMap, Task
  <2> QED
    BY <2>1, <2>2 DEF WantedIn
<1> QED
    BY <1>2, <1>3 DEF affinity_set

LEMMA ApplyWanted ==
    ASSUME TypeOK, NEW tid, NEW pid, NEW entry, NEW comm, NEW trust,
           Apply(tid, pid, entry, comm, trust)
    PROVE  \A t \in Tids : WantedIn(task', t, cfg) => WantedIn(task, t, cfg)
    BY AffinityWanted DEF Apply

LEMMA KernelCovers ==
    ASSUME CoverageAssumption, IInv, CoverIInv, KernelStep
    PROVE  Coverage'
<1> SUFFICES ASSUME Scanned', NEW t \in Tids \ dropped', WantedIn(task', t, cfg')
             PROVE  Assured(t)'
    BY DEF Coverage
<1>1. TypeOK /\ chan' = chan /\ cfg' = cfg /\ KernelNext /\ Scanned
      /\ (InHand(t) <=> InHand(t)')
    BY DEF KernelStep, mainVars, watchVars, IInv, Scanned, InHand
<1>2. target = WhitelistKeys /\ Coverage
    BY <1>1 DEF CoverIInv, Watched
<1>3. ReportsAll
    BY <1>1, <1>2, KernelReports
<1>4. PICK r \in Seq(Event) : Reporting(r)
    BY <1>3 DEF ReportsAll
<1>5. t \notin dropped
    BY <1>4 DEF Reporting
<1>6. chan \in Seq(Event) /\ ring \in Seq(Event) /\ chan \o ring \in Seq(Event)
    BY <1>1, QueueType
<1>7. chan' \o ring' = (chan \o ring) \o r
  <2>1. (chan \o ring) \o r = chan \o (ring \o r)
    BY <1>6, ConcatAssociative
  <2> QED
    BY <1>1, <1>4, <2>1 DEF Reporting
<1>8. Steady(r, t, cfg) /\ (WantedIn(task, t, cfg) \/ (r # <<>> /\ Binding(r[Len(r)], t, cfg)))
    BY <1>1, <1>4 DEF Reporting
<1>9. CASE r # <<>> /\ Binding(r[Len(r)], t, cfg)
  <2>1. Settled((chan \o ring) \o r, t, cfg)
    BY <1>6, <1>9, EndsBinding
  <2> QED
    BY <1>1, <1>7, <2>1 DEF Assured
<1>10. CASE WantedIn(task, t, cfg)
  <2>1. Assured(t)
    BY <1>1, <1>2, <1>5, <1>10 DEF Coverage
  <2>2. Steady(chan \o ring, t, cfg) => Steady((chan \o ring) \o r, t, cfg)
    BY <1>6, <1>8, SteadyLonger
  <2>3. Settled(chan \o ring, t, cfg) => Settled((chan \o ring) \o r, t, cfg)
    BY <1>6, <1>8, SettledLonger
  <2> QED
    BY <1>1, <1>7, <2>1, <2>2, <2>3 DEF Assured
<1> QED
    BY <1>8, <1>9, <1>10

LEMMA ReaderCovers ==
    ASSUME IInv, CoverIInv, ebpf_reader
    PROVE  Coverage'
<1>1. chan \in Seq(Event) /\ ring \in Seq(Event) /\ ring # <<>>
    BY QueueType DEF IInv, ebpf_reader
<1>2. Append(chan, Head(ring)) \o Tail(ring) = chan \o ring
    BY <1>1
<1>3. chan' \o ring' = chan \o ring
    BY <1>2 DEF ebpf_reader
<1>4. Coverage /\ UNCHANGED <<task, dropped, tasks, cfg, scan_cfg, need_full_scan, pc, job,
                              targets, cur, todo>>
    BY DEF CoverIInv, ebpf_reader, watchVars
<1>5. (Scanned' => Scanned) /\ \A t : InHand(t) => InHand(t)'
    BY <1>4 DEF Scanned, InHand
<1>6. \A t \in Tids : WantedIn(task', t, cfg) =>
          WantedIn(task, t, cfg) /\ (InHand(t) => InHand(t)')
    BY <1>4, <1>5
<1> QED
    BY <1>3, <1>4, <1>5, <1>6, QuietCovers

(* A job whose thread is alive becomes an entry.                           *)
LEMMA CommitCovers ==
    ASSUME IInv, CoverIInv, Commit
    PROVE  Coverage'
<1>1. UNCHANGED <<task, ring, dropped, chan, cfg, scan_cfg, need_full_scan, pc, targets, cur,
                  todo>>
      /\ job' = {} /\ Coverage /\ JobsOfDead
    BY DEF Commit, CoverIInv, watchVars
<1>2. PICK j \in job :
          IF j.dead THEN tasks' = tasks
          ELSE tasks' = Insert(tasks, j.tid, EntryFor(j.pid, j.result))
    BY DEF Commit
<1>3. \A k \in job : k = j
    BY DEF IInv, TypeOK, MainTypeOK
<1>4. DOMAIN tasks \subseteq DOMAIN tasks' /\ (~ j.dead => j.tid \in DOMAIN tasks')
    BY <1>2 DEF Insert
<1>5. ASSUME NEW t \in Tids, WantedIn(task', t, cfg)
      PROVE  WantedIn(task, t, cfg) /\ (InHand(t) => InHand(t)')
  <2>1. WantedIn(task, t, cfg) /\ t \in DOMAIN task
    BY <1>1, <1>5 DEF WantedIn
  <2>2. ASSUME NEW k \in job, k.tid = t PROVE t \in DOMAIN tasks'
    BY <1>1, <1>3, <1>4, <2>1, <2>2 DEF JobsOfDead
  <2> QED
    BY <1>1, <1>4, <2>1, <2>2 DEF InHand
<1>6. Scanned' => Scanned
    BY <1>1 DEF Scanned
<1> QED
    BY <1>1, <1>5, <1>6, QuietCovers

(* The scan lists every wanted process, unless a report under way has      *)
(* it forgotten, which counts as an event of it lost.                      *)
LEMMA ListCovers ==
    ASSUME IInv, full_scan_list
    PROVE  Coverage'
<1> SUFFICES ASSUME NEW t \in Tids \ dropped', WantedIn(task', t, cfg')
             PROVE  Assured(t)'
    BY DEF Coverage
<1>1. UNCHANGED <<task, ring, chan, cfg>> /\ TypeOK
      /\ dropped' = {ev.tid : ev \in Undoing}
    BY DEF full_scan_list, IInv
<1>2. WantedIn(task, t, cfg)
    BY <1>1
<1>3. cfg \in AppConfig
    BY <1>1, LoopAssumption DEF TypeOK, MainTypeOK
<1>4. ProcessName(t) \in cfg.pkg_set /\ t \in MainThreads
    BY <1>2, <1>3, NamesAssumption DEF WantedIn, ProcessName, MainThreads, AppConfig
<1> DEFINE p == [pid |-> t, pkg |-> ProcessName(t),
                 htr |-> pkg_has_thread_rules(ProcessName(t), cfg)]
<1>5. p \in targets' /\ p.pid = t /\ p.pkg = ProcessName(t)
    BY <1>4 DEF full_scan_list, interested
<1> HIDE DEF p
<1>6. InHand(t)'
  <2>1. ProcessName(t) = task[t].cmd
    BY <1>2, <1>3, NamesAssumption DEF WantedIn, ProcessName, AppConfig
  <2>2. Gives(p.pkg, cfg')
    BY <1>1, <1>2, <1>5, <2>1 DEF WantedIn
  <2> QED
    BY <1>5, <2>2 DEF InHand
<1>7. chan \in Seq(Event) /\ ring \in Seq(Event)
    BY <1>1, QueueType
<1>8. Steady(chan, t, cfg) /\ Steady(ring, t, cfg)
  <2>1. DOMAIN chan = 1 .. Len(chan) /\ DOMAIN ring = 1 .. Len(ring)
    BY <1>7, LenProperties
  <2>2. \A ev \in Range(ring) \cup Range(chan) : ~ Unbinding(ev, t, cfg)
    BY <1>1 DEF Undoing, Unbinding
  <2> QED
    BY <2>1, <2>2 DEF Range, Steady
<1>9. Steady(chan \o ring, t, cfg)
    BY <1>7, <1>8, SteadyLonger
<1> QED
    BY <1>1, <1>6, <1>9 DEF Assured

(* Of a wanted process at least the main thread is there to visit; its     *)
(* threads are visited one by one, and the last has its binding under way. *)
LEMMA ScanProcessCovers ==
    ASSUME CoverIInv, full_scan_process
    PROVE  Coverage'
<1>1. /\ UNCHANGED <<task, ring, dropped, tasks, chan, cfg, scan_cfg, need_full_scan, pc, job>>
      /\ pc = "scan" /\ cur = {} /\ Coverage /\ ScanUnderWay
    BY DEF full_scan_process, At, kernelVars, watchVars, CoverIInv
<1>2. PICK p \in targets : /\ targets' = targets \ {p}
                           /\ todo' = {t \in DOMAIN task : task[t].tgid = p.pid}
                           /\ cur' = IF todo' = {} THEN {} ELSE {p}
    BY DEF full_scan_process
<1>3. todo = {}
    BY <1>1 DEF ScanUnderWay
<1>4. ASSUME NEW t \in Tids, WantedIn(task', t, cfg)
      PROVE  WantedIn(task, t, cfg) /\ (InHand(t) => InHand(t)')
  <2>1. WantedIn(task, t, cfg) /\ t \in DOMAIN task /\ task[t].tgid = t
    BY <1>1, <1>4 DEF WantedIn
  <2>2. p.pid = t => t \in todo' /\ p \in cur'
    BY <1>2, <2>1
  <2> QED
    BY <1>1, <1>2, <1>3, <2>1, <2>2 DEF InHand
<1>5. Scanned' => Scanned
    BY <1>1 DEF Scanned
<1> QED
    BY <1>1, <1>4, <1>5, QuietCovers

LEMMA ScanThreadCovers ==
    ASSUME CoverageAssumption, IInv, CoverIInv, full_scan_thread
    PROVE  Coverage'
<1>1. /\ UNCHANGED <<ring, dropped, chan, cfg, scan_cfg, need_full_scan, pc, targets, cur>>
      /\ pc = "scan" /\ job = {} /\ Coverage /\ TypeOK
    BY DEF full_scan_thread, At, watchVars, CoverIInv, IInv
<1>2. PICK p \in cur, u \in todo :
          /\ todo' = todo \ {u}
          /\ Apply(u, p.pid, [pkg |-> p.pkg, htr |-> p.htr],
                   IF u \in DOMAIN task THEN task[u].comm ELSE Empty, TRUE)
    BY DEF full_scan_thread
<1> DEFINE entry == [pkg |-> p.pkg, htr |-> p.htr]
           comm == IF u \in DOMAIN task THEN task[u].comm ELSE Empty
<1>3. entry.pkg = p.pkg /\ \A q \in cur : q = p
    BY <1>1 DEF TypeOK, MainTypeOK
<1>4. u \in Tids
    BY <1>1 DEF TypeOK, MainTypeOK
<1>5. Apply(u, p.pid, entry, comm, TRUE)
    BY <1>2
<1> HIDE DEF entry, comm
<1>6. /\ DOMAIN tasks \subseteq DOMAIN tasks' \cup {j.tid : j \in job'}
      /\ Gives(p.pkg, cfg) => u \in DOMAIN tasks' \cup {j.tid : j \in job'}
    BY <1>1, <1>3, <1>4, <1>5, ApplyInHand
<1>7. \A t \in Tids : WantedIn(task', t, cfg) => WantedIn(task, t, cfg)
    BY <1>1, <1>5, ApplyWanted
<1>8. \A t : InHand(t) => InHand(t)'
    BY <1>1, <1>2, <1>3, <1>6 DEF InHand
<1>9. Scanned' => Scanned
    BY <1>1 DEF Scanned
<1> QED
    BY <1>1, <1>7, <1>8, <1>9, QuietCovers

LEMMA ScanRestCovers ==
    ASSUME CoverIInv, full_scan_package \/ full_scan_end
    PROVE  Coverage'
<1>1. /\ UNCHANGED <<task, ring, dropped, tasks, chan, cfg, scan_cfg, job, targets, todo>>
      /\ pc = "scan" /\ Coverage /\ ScanUnderWay
    BY DEF full_scan_package, full_scan_end, At, kernelVars, watchVars, CoverIInv
<1>2. todo = {} /\ (pc' = pc \/ targets = {})
    BY <1>1 DEF full_scan_package, full_scan_end, ScanUnderWay
<1>3. \A t : InHand(t) => InHand(t)'
    BY <1>1, <1>2 DEF InHand
<1>4. Scanned' => Scanned
    BY <1>1 DEF Scanned
<1>5. \A t \in Tids : WantedIn(task', t, cfg) =>
          WantedIn(task, t, cfg) /\ (InHand(t) => InHand(t)')
    BY <1>1, <1>3
<1> QED
    BY <1>1, <1>4, <1>5, QuietCovers

(* An event of a package binds its thread, or is wasted; one that has a thread forgotten *)
(* is the exit of a dead one or the exec report of an unknown name.        *)
LEMMA EventInHand ==
    ASSUME CoverageAssumption, IInv, GoneIInv, CoverIInv, event_dispatch,
           NEW t \in Tids \ dropped', WantedIn(task', t, cfg)
    PROVE  /\ WantedIn(task, t, cfg) /\ t \notin dropped
           /\ Binding(Head(chan), t, cfg) => InHand(t)'
           /\ InHand(t) /\ ~ Unbinding(Head(chan), t, cfg) => InHand(t)'
<1> DEFINE ev == Head(chan)
<1>1. /\ UNCHANGED <<ring, cfg, need_full_scan, pc, targets, cur, todo>>
      /\ pc = "recv" /\ job = {} /\ TypeOK
    BY DEF event_dispatch, At, IInv
<1>2. targets = {} /\ (InHand(t) <=> t \in DOMAIN tasks)
    BY <1>1 DEF IInv, ScanPlace, InHand
<1>3. ev \in Event /\ ev \in Range(chan)
    BY DispatchHandled
<1>4. ev.type = "EXIT" => ev.tid \notin DOMAIN task
    BY <1>3 DEF GoneIInv, ExitsAreOver, Exits
<1>5. OnExit(ev) \/ OnExec(ev) \/ OnForkOrRename(ev)
    BY DEF event_dispatch
<1>6. ev.tid \in Tids
    BY <1>3 DEF Event
<1> HIDE DEF ev
<1> DEFINE Handles == /\ WantedIn(task, t, cfg) /\ t \notin dropped
                      /\ Binding(ev, t, cfg) => InHand(t)'
                      /\ InHand(t) /\ ~ Unbinding(ev, t, cfg) => InHand(t)'
<1>9. ASSUME NEW pk, NEW trust, event_apply(ev, pk, trust)
      PROVE  Handles
  <2>1. PICK entry \in pkg_lookup_comm(pk, ev.pid, ev.comm, cfg) :
            /\ Apply(ev.tid, ev.pid, entry, ev.comm, trust)
            /\ dropped' = IF Gives(entry.pkg, cfg) THEN dropped ELSE dropped \cup {ev.tid}
    BY <1>9 DEF event_apply, Gives
  <2>2. /\ DOMAIN tasks \subseteq DOMAIN tasks' \cup {j.tid : j \in job'}
        /\ Gives(entry.pkg, cfg) => ev.tid \in DOMAIN tasks' \cup {j.tid : j \in job'}
    BY <1>1, <1>6, <2>1, ApplyInHand
  <2>3. WantedIn(task, t, cfg)
    BY <1>1, <2>1, ApplyWanted
  <2>4. t \notin dropped /\ (ev.tid = t => Gives(entry.pkg, cfg))
    BY <2>1
  <2>5. (ev.tid = t \/ InHand(t)) => InHand(t)'
    BY <1>2, <2>2, <2>4 DEF InHand
  <2> QED
    BY <2>3, <2>4, <2>5 DEF Binding
<1>10. ASSUME UNCHANGED <<task, dropped, tasks, job>>, ~ Binding(ev, t, cfg)
       PROVE  Handles
    BY <1>1, <1>10 DEF InHand
<1>11. ASSUME NEW pk, Forget(ev, pk), ~ Binding(ev, t, cfg),
              ev.tid = t => Unbinding(ev, t, cfg) \/ t \notin DOMAIN task
       PROVE  Handles
  <2>1. DOMAIN tasks' = DOMAIN tasks \ {ev.tid} /\ UNCHANGED <<task, dropped>>
    BY <1>1, <1>11, TaskDel DEF Forget, TypeOK, MainTypeOK
  <2>2. t \in DOMAIN task
    BY <2>1 DEF WantedIn
  <2> QED
    BY <1>2, <1>11, <2>1, <2>2 DEF InHand
<1>12. ASSUME NEW pk, Unknown(ev, pk)
       PROVE  comm_to_pkg(ev.comm, cfg) = {}
    BY <1>12 DEF Unknown, pkg_lookup_comm
<1>13. CASE OnExit(ev)
  <2>1. ~ Binding(ev, t, cfg) /\ (ev.tid = t => t \notin DOMAIN task)
    BY <1>4, <1>13 DEF OnExit, Binding
  <2> QED
    BY <1>11, <1>13, <2>1 DEF OnExit, ev
<1>14. CASE OnExec(ev)
  <2> DEFINE pk == Remove(pkgs, {ev.pid})
  <2>1. CASE event_apply(ev, pk, TRUE)
    <3> HIDE DEF Handles
    <3> QED
      BY <1>9, <2>1 DEF Handles, ev
  <2>2. CASE Unknown(ev, pk) /\ Forget(ev, pk)
    <3>1. comm_to_pkg(ev.comm, cfg) = {} /\ ev.type = "EXEC"
      BY <1>12, <1>14, <2>2 DEF OnExec
    <3>2. ~ Binding(ev, t, cfg) /\ (ev.tid = t => Unbinding(ev, t, cfg))
      BY <3>1 DEF Binding, Unbinding
    <3> QED
      BY <1>11, <2>2, <3>2 DEF ev
  <2> QED
    BY <1>14, <2>1, <2>2 DEF OnExec
<1>15. CASE OnForkOrRename(ev)
  <2> DEFINE trust == ev.type = "RENAME" \/ ev.tid = ev.pid
  <2>1. CASE event_apply(ev, pkgs, trust)
    <3> HIDE DEF trust, Handles
    <3> QED
      BY <1>9, <2>1 DEF Handles, ev
  <2>2. CASE Unknown(ev, pkgs) /\ UNCHANGED <<task, dropped, tasks, pkgs, job>>
    <3>1. ~ Binding(ev, t, cfg)
      BY <1>12, <2>2 DEF Binding
    <3> QED
      BY <1>10, <2>2, <3>1 DEF ev
  <2> QED
    BY <1>15, <2>1, <2>2 DEF OnForkOrRename
<1> QED
    BY <1>5, <1>13, <1>14, <1>15

LEMMA DispatchCovers ==
    ASSUME CoverageAssumption, IInv, GoneIInv, CoverIInv, event_dispatch
    PROVE  Coverage'
<1> SUFFICES ASSUME Scanned', NEW t \in Tids \ dropped', WantedIn(task', t, cfg')
             PROVE  Assured(t)'
    BY DEF Coverage
<1>1. /\ UNCHANGED <<ring, cfg, scan_cfg, need_full_scan, pc>> /\ chan' = Tail(chan)
      /\ chan # <<>> /\ Coverage /\ TypeOK
    BY DEF event_dispatch, watchVars, CoverIInv, IInv
<1>2. /\ WantedIn(task, t, cfg) /\ t \notin dropped
      /\ Binding(Head(chan), t, cfg) => InHand(t)'
      /\ InHand(t) /\ ~ Unbinding(Head(chan), t, cfg) => InHand(t)'
    BY <1>1, EventInHand
<1>3. Assured(t)
    BY <1>1, <1>2 DEF Coverage, Scanned
<1> DEFINE q == chan \o ring
<1>4. /\ q \in Seq(Event) /\ q # <<>> /\ Head(q) = Head(chan)
      /\ Tail(q) = chan' \o ring'
    BY <1>1, QueueType
<1> HIDE DEF q
<1>5. /\ Steady(q, t, cfg) => Steady(Tail(q), t, cfg) /\ ~ Unbinding(Head(q), t, cfg)
      /\ Settled(q, t, cfg) => \/ Settled(Tail(q), t, cfg)
                               \/ Binding(Head(q), t, cfg) /\ Steady(Tail(q), t, cfg)
    BY <1>4, HeadHandled
<1>6. (InHand(t) /\ Steady(q, t, cfg)) \/ Settled(q, t, cfg)
    BY <1>3 DEF Assured, q
<1>7. (InHand(t)' /\ Steady(Tail(q), t, cfg)) \/ Settled(Tail(q), t, cfg)
    BY <1>2, <1>4, <1>5, <1>6
<1> QED
    BY <1>1, <1>4, <1>7 DEF Assured

(* The timer sets masks again, and forgets dead threads only.              *)
LEMMA SyncCovers ==
    ASSUME IInv, GoneIInv, CoverIInv, affinity_sync
    PROVE  Coverage'
<1>1. /\ UNCHANGED <<ring, dropped, chan, cfg, scan_cfg, need_full_scan, job, targets>>
      /\ pc \in {"timer", "sync"} /\ Coverage /\ TypeOK /\ pc' # "scan"
    BY DEF affinity_sync, affinity_sync_start, affinity_sync_thread, affinity_sync_end,
           At, Goto, kernelVars, watchVars, CoverIInv, IInv
<1>2. \A t \in Tids : WantedIn(task', t, cfg) => WantedIn(task, t, cfg)
  <2>1. CASE affinity_sync_thread
    BY <1>1, <2>1, AffinityWanted DEF affinity_sync_thread
  <2>2. CASE affinity_sync_start \/ affinity_sync_end
    BY <2>2 DEF affinity_sync_start, affinity_sync_end, kernelVars
  <2> QED
    BY <2>1, <2>2 DEF affinity_sync
<1>3. DOMAIN tasks \cap DOMAIN task \subseteq DOMAIN tasks'
  <2>1. CASE affinity_sync_end
    <3>1. DOMAIN tasks' = DOMAIN tasks \ dead
      BY <1>1, <2>1, TaskDel DEF affinity_sync_end, TypeOK, MainTypeOK
    <3> QED
      BY <3>1 DEF GoneIInv, DeadAreGone
  <2>2. CASE affinity_sync_start \/ affinity_sync_thread
    BY <2>2 DEF affinity_sync_start, affinity_sync_thread
  <2> QED
    BY <2>1, <2>2 DEF affinity_sync
<1>4. ASSUME NEW t \in Tids, WantedIn(task', t, cfg)
      PROVE  WantedIn(task, t, cfg) /\ (InHand(t) => InHand(t)')
    BY <1>1, <1>2, <1>3, <1>4 DEF InHand, WantedIn
<1>5. Scanned' => Scanned
    BY <1>1 DEF Scanned
<1> QED
    BY <1>1, <1>4, <1>5, QuietCovers

(* The other steps, which move the program counter within what is scanned, *)
(* or leave it.                                                            *)
LEMMA MoveCovers ==
    ASSUME IInv, CoverIInv,
           \/ KeepConfig \/ hot_reload_unscanned \/ recv_done \/ TimerNotDue
           \/ UNCHANGED vars
    PROVE  Coverage'
<1>1. /\ UNCHANGED <<task, ring, dropped, tasks, chan, scan_cfg, need_full_scan, job, targets,
                     cur, todo>>
      /\ Coverage /\ (pc = "scan" => pc' = "scan")
    BY DEF KeepConfig, hot_reload_unscanned, recv_done, TimerNotDue, At, Goto, vars,
           kernelVars, mainVars, watchVars, CoverIInv
<1>2. Scanned' => Scanned /\ cfg' = cfg
  <2>1. CASE hot_reload_unscanned
    <3>1. pc = "top" /\ inotify_fd /\ (pc' # "whitelist" => ~ need_full_scan)
      BY <2>1 DEF hot_reload_unscanned, At, Goto
    <3>2. scan_cfg = cfg
      BY <3>1 DEF IInv, ScanUpToDate, Reloading
    <3> QED
      BY <1>1, <3>1, <3>2 DEF Scanned
  <2>2. CASE KeepConfig \/ recv_done \/ TimerNotDue \/ UNCHANGED vars
    BY <2>2 DEF KeepConfig, recv_done, TimerNotDue, At, Goto, vars, mainVars, watchVars, Scanned
  <2> QED
    BY <2>1, <2>2
<1>3. CASE cfg' = cfg
  <2>1. \A t : InHand(t) => InHand(t)'
    BY <1>1, <1>3 DEF InHand
  <2>2. \A t \in Tids : WantedIn(task', t, cfg) =>
            WantedIn(task, t, cfg) /\ (InHand(t) => InHand(t)')
    BY <1>1, <2>1
  <2> QED
    BY <1>1, <1>2, <1>3, <2>2, QuietCovers
<1>4. CASE cfg' # cfg
    BY <1>2, <1>4 DEF Coverage
<1> QED
    BY <1>3, <1>4

LEMMA UnscannedCovers ==
    ASSUME hot_reload \/ comm_map_init \/ comm_map_fill \/ full_scan_clear \/ applied_clear
    PROVE  Coverage'
<1>1. pc' \in {"whitelist", "fill", "clear", "unmark", "list"}
    BY DEF hot_reload, comm_map_init, comm_map_fill, full_scan_clear, applied_clear, Goto
<1> QED
    BY <1>1 DEF Coverage, Scanned

LEMMA NextCoverIInv ==
    ASSUME CoverageAssumption, IInv, GoneIInv, CoverIInv, [Next]_vars
    PROVE  CoverIInv'
<1>1. (JobsOfDead /\ Watched /\ ScanUnderWay)'
    BY JobsStayDead, WatchedNext, ScanUnderWayNext
       DEF CoverIInv, CoverageAssumption
<1>2. Coverage'
    BY KernelCovers, ReaderCovers, CommitCovers, ListCovers, ScanProcessCovers,
       ScanThreadCovers, ScanRestCovers, DispatchCovers, SyncCovers, MoveCovers,
       UnscannedCovers DEF Next, MainStep, full_scan
<1> QED
    BY <1>1, <1>2 DEF CoverIInv

LEMMA InitCoverIInv ==
    ASSUME Init
    PROVE  CoverIInv
<1>1. pc = "top" /\ need_full_scan /\ pkgs = EmptyMap /\ job = {} /\ targets = {} /\ cur = {}
    BY DEF Init
<1> QED
    BY <1>1, EmptyMapFacts DEF CoverIInv, JobsOfDead, Watched, ScanUnderWay, Coverage,
       Scanned

LEMMA CoveredAtRest ==
    ASSUME IInv, Coverage
    PROVE  ProcessCovered
<1> SUFFICES ASSUME Quiet, scan_cfg = cfg, NEW t \in MainThreads \ dropped,
                    Configured(task[t].cmd), task[t].cmd \in CommPkgs[task[t].comm]
             PROVE  t \in DOMAIN tasks
    BY DEF ProcessCovered
<1>1. pc = "recv" /\ job = {} /\ targets = {} /\ chan = <<>> /\ ring = <<>>
    BY DEF Quiet, At, IInv, ScanPlace
<1>2. WantedIn(task, t, cfg) /\ t \in Tids
    BY DEF WantedIn, Configured, Gives, MainThreads, IInv, TypeOK, KernelTypeOK, IsMap
<1>3. Assured(t)
    BY <1>1, <1>2 DEF Coverage, Scanned
<1>4. Len(chan \o ring) = 0
    BY <1>1
<1>5. ~ Settled(chan \o ring, t, cfg)
    BY <1>4 DEF Settled
<1> QED
    BY <1>1, <1>3, <1>5 DEF Assured, InHand

(* No process is overlooked: whenever all events are handled, every        *)
(* running process with the name of a configured package is bound, unless  *)
(* an event of its own was lost or wasted that no scan has made up for, or *)
(* the rules are newer than the last scan, whatever scans, forks, renames, *)
(* execs and reloads came before (main.rs:63, :93, and the four programs   *)
(* of ebpf/src/main.rs).                                                   *)
THEOREM ProcessesCovered ==
    ASSUME CoverageAssumption
    PROVE  Spec => []ProcessCovered
<1>1. Init => GoneIInv /\ CoverIInv
    BY InitGone, InitCoverIInv
<1>2. IInv /\ GoneIInv /\ [Next]_vars => GoneIInv'
    BY NextKeepsGone DEF CoverageAssumption
<1>3. IInv /\ GoneIInv /\ CoverIInv /\ [Next]_vars => CoverIInv'
    BY NextCoverIInv
<1>4. IInv /\ CoverIInv => ProcessCovered
    BY CoveredAtRest DEF CoverIInv
<1> QED
    BY <1>1, <1>2, <1>3, <1>4, Invariance, PTL DEF Spec
=============================================================================
