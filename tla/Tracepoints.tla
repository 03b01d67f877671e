---------------------------- MODULE Tracepoints ----------------------------
(***************************************************************************)
(* The kernel's half of the eBPF mode: the tasks of the system, the four   *)
(* tracepoint programs of src/ebpf/src/main.rs that watch them, the maps   *)
(* they share with the daemon and the ring buffer they fill.               *)
(*                                                                         *)
(* Abstractions.  APPLIED_MAP's values are never read, so it is the set of *)
(* its keys.  TARGET_COMM_MAP is the set of its keys; Windows[comm] are    *)
(* the nine 8-byte windows of a comm.  The offsets are injected before the *)
(* programs are attached (src/src/bpf.rs:89), so offsets_load succeeds.    *)
(*                                                                         *)
(* Of the kernel itself (external): a thread starts with its parent's name *)
(* and affinity; a process whose main thread is gone only exits; a tid is  *)
(* reused once nothing holds it; exec sets the name, which runs the rename *)
(* tracepoint, before it runs its own; only a single-threaded process      *)
(* execs (the kernel kills the other threads first, which is their Exit).  *)
(***************************************************************************)
EXTENDS ProcCache

CONSTANTS
    Windows,         \* Windows[comm]: the keys a comm is looked up under
    RingCap,         \* events EVENTS holds
    AppliedCap,      \* entries APPLIED_MAP holds
    RenameAttached,  \* the optional task_rename program is attached
    CrossRename,     \* a thread may rename another one of its process
    InitTasks,       \* the sets of tasks that may run when the daemon starts
    CommNames,       \* the names threads give themselves
    CmdNames,        \* the command names processes take
    Unspecialized    \* the names of a process that is not an application yet

ASSUME KernelAssumption ==
    /\ \A n \in Names : n \in DOMAIN Windows
    /\ RingCap \in Nat /\ AppliedCap \in Nat \ {0}
    /\ RenameAttached \in BOOLEAN /\ CrossRename \in BOOLEAN
    /\ CommNames \subseteq Names /\ CmdNames \subseteq Names /\ Unspecialized \subseteq Names

VARIABLES
    task,       \* the live tasks: tid -> [tgid, comm, cmd, aff]
    applied,    \* the keys of APPLIED_MAP
    target,     \* the keys of TARGET_COMM_MAP
    ring,       \* EVENTS
    lost,       \* history: tids of which no EXIT came: EVENTS was full, LRU had
                \* evicted the mark, or the mark came after the exit
    dropped     \* history: tids an event of which was lost, or spent on a package
                \* without CPUs, and no scan has made up for it

kernelVars == <<task, applied, target, ring, lost, dropped>>

(* cmd is the process's /proc/<pid>/cmdline and kept with its main thread. *)
Task == [tgid : Tids, comm : Names, cmd : Names \cup {Empty}, aff : SUBSET Cpus]

Event == [type : {"FORK", "EXEC", "RENAME", "EXIT"}, pid : Tids, tid : Tids,
          comm : Names \cup {Empty}]

KernelTypeOK ==
    /\ IsMap(task, Tids, Task)
    /\ applied \subseteq Tids
    /\ Cardinality(applied) <= AppliedCap
    /\ ring \in Seq(Event)
    /\ Len(ring) <= RingCap
    /\ lost \subseteq Tids
    /\ dropped \subseteq Tids

KernelInit ==
    /\ task \in InitTasks
    /\ applied = {} /\ target = {} /\ lost = {}
    /\ ring = <<>>
    /\ dropped = {}

-----------------------------------------------------------------------------

applied_lookup(tid) == tid \in applied

whitelist_matched(comm) == Windows[comm] \cap target # {}

EventOf(type, t, comm) == [type |-> type, pid |-> task[t].tgid, tid |-> t, comm |-> comm]

(* Faulty variant of Full: one event too many is taken for the last one.   *)
FullOffByOne == Len(ring) > RingCap

(* submit_event: EVENTS.reserve fails when the ring is full and the event  *)
(* is gone.                                                                *)
Full == Len(ring) >= RingCap

submit_event(ev) ==
    /\ ring' = IF Full THEN ring ELSE Append(ring, ev)
    /\ dropped' = IF Full THEN dropped \cup {ev.tid} ELSE dropped

NoEvent == UNCHANGED <<ring, dropped>>

(* APPLIED_MAP.insert, from a program or from the daemon: an LRU map makes *)
(* room by evicting; its LRU is approximate, so any entry may go.  It does *)
(* not ask whether t is alive.                                             *)
AppliedInsert(t, alive) ==
    /\ \/ /\ t \in applied \/ Cardinality(applied) < AppliedCap
          /\ applied' = applied \cup {t}
       \/ /\ t \notin applied /\ Cardinality(applied) >= AppliedCap
          /\ \E old \in applied : applied' = (applied \ {old}) \cup {t}
    /\ LET evicted == applied \ applied'
       IN  lost' = IF alive THEN (lost \cup evicted) \ {t} ELSE lost \cup evicted \cup {t}

MainThreads == {t \in DOMAIN task : task[t].tgid = t}

MainThreadAlive(t) == task[t].tgid \in DOMAIN task

Unused(t) == t \notin DOMAIN task /\ \A u \in DOMAIN task : task[u].tgid # t

-----------------------------------------------------------------------------

(* Thread t clones a thread, or forks a process, that gets the id c.  The  *)
(* event carries the parent's tgid as pid for both (fork_parse).           *)
sched_process_fork(t, c, newProcess) ==
    /\ t \in DOMAIN task /\ MainThreadAlive(t)
    /\ Unused(c)
    /\ LET cmdline == task[task[t].tgid].cmd
           child   == IF newProcess THEN [task[t] EXCEPT !.tgid = c, !.cmd = cmdline]
                      ELSE [task[t] EXCEPT !.cmd = Empty]
       IN  task' = Insert(task, c, child)
    /\ IF applied_lookup(t) THEN AppliedInsert(c, TRUE) ELSE UNCHANGED <<applied, lost>>
    /\ IF applied_lookup(t) \/ whitelist_matched(task[t].comm)
       THEN submit_event([EventOf("FORK", t, task[t].comm) EXCEPT !.tid = c])
       ELSE NoEvent
    /\ UNCHANGED target

(* Faulty variant of RenameReported: only tracked threads are reported, so *)
(* that a process is not noticed when it becomes an application.           *)
RenameReportedOfTracked(r, comm) == RenameAttached /\ applied_lookup(r)

(* The event of task_rename when thread r makes comm the name of a thread: *)
(* its tid is that of r, the thread that runs, whichever thread it names.  *)
RenameReported(r, comm) ==
    RenameAttached /\ (applied_lookup(r) \/ whitelist_matched(comm))

task_rename(r, t, comm) ==
    /\ r \in DOMAIN task /\ t \in DOMAIN task
    /\ MainThreadAlive(r)
    /\ r = t \/ (CrossRename /\ task[r].tgid = task[t].tgid)
    /\ comm # task[t].comm
    /\ task' = [task EXCEPT ![t].comm = comm]
    /\ IF RenameReported(r, comm) THEN submit_event(EventOf("RENAME", r, comm))
       ELSE NoEvent
    /\ UNCHANGED <<applied, target, lost>>

(* A process forked from the zygote becomes an application: it changes the *)
(* command line and the comm of its main thread (setArgV0), which the      *)
(* rename tracepoint sees.                                                 *)
SetArgV0(t, name) ==
    /\ t \in MainThreads /\ task[t].cmd \in Unspecialized
    /\ name # task[t].cmd
    /\ task' = [task EXCEPT ![t].comm = name, ![t].cmd = name]
    /\ IF RenameReported(t, name) THEN submit_event(EventOf("RENAME", t, name))
       ELSE NoEvent
    /\ UNCHANGED <<applied, target, lost>>

(* A single-threaded process execs: the rename event of the kernel's own   *)
(* set_task_comm, if one is reported, and after it the exec event.         *)
sched_process_exec(t, name) ==
    /\ t \in MainThreads
    /\ \A u \in DOMAIN task \ {t} : task[u].tgid # t
    /\ name # task[t].cmd
    /\ task' = [task EXCEPT ![t].comm = name, ![t].cmd = name]
    /\ LET renamed == IF RenameReported(t, name) THEN <<EventOf("RENAME", t, name)>> ELSE <<>>
           execed  == IF whitelist_matched(name) THEN <<EventOf("EXEC", t, name)>> ELSE <<>>
           reached == ring \o renamed \o execed
           fits    == Len(reached) <= RingCap
       IN  /\ ring' = IF fits THEN reached ELSE SubSeq(reached, 1, RingCap)
           /\ dropped' = IF fits THEN dropped ELSE dropped \cup {t}
    /\ UNCHANGED <<applied, target, lost>>

(* Thread t exits; only a tracked one is reported. *)
sched_process_exit(t) ==
    /\ t \in DOMAIN task
    /\ task' = Remove(task, {t})
    /\ applied' = applied \ {t}
    /\ IF applied_lookup(t)
       THEN /\ submit_event(EventOf("EXIT", t, Empty))
            /\ lost' = IF Full THEN lost \cup {t} ELSE lost
       ELSE NoEvent /\ UNCHANGED lost
    /\ UNCHANGED target

(* Something else in the system (a cpuset move, the framework) resets the  *)
(* affinity of a thread.                                                   *)
ResetAffinity(t) ==
    /\ t \in DOMAIN task
    /\ task[t].aff # Present
    /\ task' = [task EXCEPT ![t].aff = Present]
    /\ UNCHANGED <<applied, target, ring, lost, dropped>>

KernelNext ==
    \/ \E t, c \in Tids, newProcess \in BOOLEAN : sched_process_fork(t, c, newProcess)
    \/ \E r, t \in Tids, comm \in CommNames : task_rename(r, t, comm)
    \/ \E t \in Tids, name \in CmdNames : SetArgV0(t, name)
    \/ \E t \in Tids, name \in CmdNames : sched_process_exec(t, name)
    \/ \E t \in Tids : sched_process_exit(t)
    \/ \E t \in Tids : ResetAffinity(t)
=============================================================================
