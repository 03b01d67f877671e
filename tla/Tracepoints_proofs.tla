------------------------- MODULE Tracepoints_proofs -------------------------
(***************************************************************************)
(* Facts about the kernel's half: the maps and the ring buffer keep their  *)
(* types and capacities, and the kernel loses no exit of a tracked thread  *)
(* without saying so in the history variable lost.                         *)
(***************************************************************************)
EXTENDS Tracepoints, RuleMatch_proofs, FiniteSetTheorems, SequenceTheorems

(* The elements of a sequence that grows at its end or shrinks at its front. *)
LEMMA RangeAppend ==
    ASSUME NEW S, NEW s \in Seq(S), NEW e \in S
    PROVE  Range(Append(s, e)) = Range(s) \cup {e}
    BY AppendProperties DEF Range

LEMMA RangeTail ==
    ASSUME NEW S, NEW s \in Seq(S), s # <<>>
    PROVE  Range(s) = {Head(s)} \cup Range(Tail(s))
<1>1. /\ Head(s) = s[1] /\ Tail(s) \in Seq(S) /\ Len(s) \in Nat \ {0}
      /\ Len(Tail(s)) = Len(s) - 1
      /\ \A i \in 1 .. Len(Tail(s)) : Tail(s)[i] = s[i + 1]
    BY HeadTailProperties, EmptySeq
<1>2. DOMAIN s = 1 .. Len(s) /\ DOMAIN Tail(s) = 1 .. (Len(s) - 1)
    BY <1>1
<1>3. ASSUME NEW i \in DOMAIN s PROVE s[i] \in {Head(s)} \cup Range(Tail(s))
  <2>1. CASE i = 1
    BY <2>1, <1>1
  <2>2. CASE i # 1
    <3>1. i - 1 \in DOMAIN Tail(s) /\ Tail(s)[i - 1] = s[i]
        BY <2>2, <1>1, <1>2
    <3> QED
        BY <3>1 DEF Range
  <2> QED
    BY <2>1, <2>2
<1>4. ASSUME NEW i \in DOMAIN Tail(s) PROVE Tail(s)[i] \in Range(s)
  <2>1. i + 1 \in DOMAIN s /\ Tail(s)[i] = s[i + 1]
    BY <1>1, <1>2
  <2> QED
    BY <2>1 DEF Range
<1>5. Head(s) \in Range(s)
    BY <1>1, <1>2 DEF Range
<1> QED
    BY <1>3, <1>4, <1>5 DEF Range

-----------------------------------------------------------------------------

(* Marking a thread keeps APPLIED_MAP's type and capacity ...              *)
LEMMA AppliedInsertType ==
    ASSUME applied \subseteq Tids, lost \subseteq Tids,
           Cardinality(applied) <= AppliedCap, NEW t \in Tids,
           NEW alive \in BOOLEAN, AppliedInsert(t, alive)
    PROVE  applied' \subseteq Tids /\ lost' \subseteq Tids /\ Cardinality(applied') <= AppliedCap
<1>1. AppliedCap \in Nat \ {0} /\ IsFiniteSet(applied)
    BY KernelAssumption, CacheAssumption, FS_Subset
<1>2. Cardinality(applied) \in Nat
    BY <1>1, FS_CardinalityType
<1>3. CASE /\ t \in applied \/ Cardinality(applied) < AppliedCap
           /\ applied' = applied \cup {t}
  <2>1. Cardinality(applied') = IF t \in applied THEN Cardinality(applied)
                                ELSE Cardinality(applied) + 1
    BY <1>1, <1>3, FS_AddElement
  <2>2. Cardinality(applied') <= AppliedCap
    BY <1>1, <1>2, <1>3, <2>1
  <2> QED
    BY <1>3, <2>2 DEF AppliedInsert
<1>4. CASE /\ t \notin applied /\ Cardinality(applied) >= AppliedCap
           /\ \E old \in applied : applied' = (applied \ {old}) \cup {t}
  <2>1. PICK old \in applied : applied' = (applied \ {old}) \cup {t}
    BY <1>4
  <2>2. /\ IsFiniteSet(applied \ {old})
        /\ Cardinality(applied \ {old}) = Cardinality(applied) - 1
    BY <1>1, FS_RemoveElement
  <2>3. Cardinality(applied') = Cardinality(applied \ {old}) + 1
    BY <1>4, <2>1, <2>2, FS_AddElement
  <2>4. Cardinality(applied') <= AppliedCap
    BY <1>1, <1>2, <2>2, <2>3
  <2> QED
    BY <2>1, <2>4 DEF AppliedInsert
<1> QED
    BY <1>3, <1>4 DEF AppliedInsert

(* ... and what it evicts is accounted for in lost, as is a mark that      *)
(* comes too late.                                                         *)
LEMMA AppliedInsertKeeps ==
    ASSUME NEW t, NEW alive \in BOOLEAN, AppliedInsert(t, alive)
    PROVE  /\ t \in applied' /\ (alive \/ t \in lost')
           /\ applied \subseteq applied' \cup lost' /\ lost \subseteq lost' \cup {t}
    BY DEF AppliedInsert

(* submit_event keeps the ring's type and capacity, and what is in it.     *)
LEMMA SubmitType ==
    ASSUME ring \in Seq(Event), Len(ring) <= RingCap, dropped \subseteq Tids,
           NEW ev \in Event, submit_event(ev)
    PROVE  /\ ring' \in Seq(Event) /\ Len(ring') <= RingCap /\ dropped' \subseteq Tids
           /\ Range(ring) \subseteq Range(ring')
           /\ Full \/ ev \in Range(ring')
<1>1. RingCap \in Nat /\ Len(ring) \in Nat
    BY KernelAssumption, LenProperties
<1>2. CASE Full
    BY <1>2 DEF submit_event, Event
<1>3. CASE ~ Full
  <2>1. ring' = Append(ring, ev)
    BY <1>3 DEF submit_event
  <2>2. ring' \in Seq(Event) /\ Len(ring') = Len(ring) + 1
    BY <2>1, AppendProperties
  <2>3. Range(ring') = Range(ring) \cup {ev}
    BY <2>1, RangeAppend
  <2> QED
    BY <1>1, <1>3, <2>2, <2>3 DEF submit_event, Full
<1> QED
    BY <1>2, <1>3

-----------------------------------------------------------------------------

(* The threads whose exit is known of on the kernel's side: they run and   *)
(* are marked, or are reported in the ring, or counted as lost.            *)
Known == (applied \cap DOMAIN task) \cup lost \cup {ev.tid : ev \in {e \in Range(ring) : e.type = "EXIT"}}

(* An event of a live thread is an event.                                  *)
LEMMA EventType ==
    ASSUME KernelTypeOK, NEW t \in DOMAIN task, NEW comm \in Names \cup {Empty},
           NEW type \in {"FORK", "EXEC", "RENAME", "EXIT"}
    PROVE  /\ EventOf(type, t, comm) \in Event
           /\ EventOf(type, t, comm).type = type /\ EventOf(type, t, comm).tid = t
<1>1. t \in Tids /\ task[t] \in Task
    BY DEF KernelTypeOK, IsMap
<1> QED
    BY <1>1 DEF EventOf, Event, Task

(* What a step leaves of the marks, the reports and the losses is enough.  *)
LEMMA KnownKept ==
    ASSUME DOMAIN task \subseteq DOMAIN task', applied \subseteq applied' \cup lost',
           lost \subseteq lost' \cup (applied' \cap DOMAIN task'), Range(ring) \subseteq Range(ring')
    PROVE  Known \subseteq Known'
    BY DEF Known

LEMMA ForkStep ==
    ASSUME KernelTypeOK, NEW t \in Tids, NEW c \in Tids, NEW newProcess \in BOOLEAN,
           sched_process_fork(t, c, newProcess)
    PROVE  KernelTypeOK' /\ Known \subseteq Known'
<1>1. t \in DOMAIN task /\ task[t] \in Task /\ task[t].tgid \in DOMAIN task
    BY DEF sched_process_fork, KernelTypeOK, IsMap, MainThreadAlive
<1>2. IsMap(task', Tids, Task)
  <2> DEFINE cmdline == task[task[t].tgid].cmd
             child == IF newProcess THEN [task[t] EXCEPT !.tgid = c, !.cmd = cmdline]
                      ELSE [task[t] EXCEPT !.cmd = Empty]
  <2>1. cmdline \in Names \cup {Empty}
    BY <1>1 DEF KernelTypeOK, IsMap, Task
  <2>2. child \in Task
    BY <1>1, <2>1 DEF Task
  <2>3. task' = Insert(task, c, child)
    BY DEF sched_process_fork
  <2> QED
    BY <2>2, <2>3, InsertType DEF KernelTypeOK
<1>5. DOMAIN task' = DOMAIN task \cup {c}
    BY DEF sched_process_fork, Insert
<1>3. /\ applied' \subseteq Tids /\ lost' \subseteq Tids /\ Cardinality(applied') <= AppliedCap
      /\ applied \subseteq applied' \cup lost' /\ lost \subseteq lost' \cup (applied' \cap DOMAIN task')
  <2>1. CASE applied_lookup(t)
    <3>1. AppliedInsert(c, TRUE)
        BY <2>1 DEF sched_process_fork
    <3>2. applied' \subseteq Tids /\ lost' \subseteq Tids /\ Cardinality(applied') <= AppliedCap
        BY <3>1, AppliedInsertType DEF KernelTypeOK
    <3> QED
        BY <1>5, <3>1, <3>2, AppliedInsertKeeps
  <2>2. CASE ~ applied_lookup(t)
    BY <2>2 DEF sched_process_fork, KernelTypeOK
  <2> QED
    BY <2>1, <2>2
<1>4. /\ ring' \in Seq(Event) /\ Len(ring') <= RingCap /\ dropped' \subseteq Tids
      /\ Range(ring) \subseteq Range(ring')
  <2>1. CASE applied_lookup(t) \/ whitelist_matched(task[t].comm)
    <3> DEFINE ev == [EventOf("FORK", t, task[t].comm) EXCEPT !.tid = c]
    <3>1. EventOf("FORK", t, task[t].comm) \in Event
        BY <1>1, EventType DEF Task
    <3>2. ev \in Event
        BY <3>1 DEF Event
    <3>3. submit_event(ev)
        BY <2>1 DEF sched_process_fork
    <3> HIDE DEF ev
    <3> QED
        BY <3>2, <3>3, SubmitType DEF KernelTypeOK
  <2>2. CASE ~ (applied_lookup(t) \/ whitelist_matched(task[t].comm))
    BY <2>2 DEF sched_process_fork, NoEvent, KernelTypeOK
  <2> QED
    BY <2>1, <2>2
<1> QED
    BY <1>2, <1>3, <1>4, <1>5, KnownKept DEF KernelTypeOK

(* The rename tracepoint's part of a step keeps the ring.                  *)
LEMMA RenameReport ==
    ASSUME KernelTypeOK, NEW r \in DOMAIN task, NEW name \in Names,
           IF RenameReported(r, name) THEN submit_event(EventOf("RENAME", r, name)) ELSE NoEvent
    PROVE  /\ ring' \in Seq(Event) /\ Len(ring') <= RingCap /\ dropped' \subseteq Tids
           /\ Range(ring) \subseteq Range(ring')
<1>1. CASE RenameReported(r, name)
    BY <1>1, EventType, SubmitType DEF KernelTypeOK
<1>2. CASE ~ RenameReported(r, name)
    BY <1>2 DEF NoEvent, KernelTypeOK
<1> QED
    BY <1>1, <1>2

LEMMA RenameStep ==
    ASSUME KernelTypeOK, NEW r \in Tids, NEW t \in Tids, NEW comm \in CommNames,
           task_rename(r, t, comm)
    PROVE  KernelTypeOK' /\ Known \subseteq Known'
<1>1. comm \in Names /\ t \in DOMAIN task /\ r \in DOMAIN task
    BY KernelAssumption DEF task_rename
<1>2. IsMap(task', Tids, Task)
    BY <1>1 DEF task_rename, KernelTypeOK, IsMap, Task
<1>3. /\ ring' \in Seq(Event) /\ Len(ring') <= RingCap /\ dropped' \subseteq Tids
      /\ Range(ring) \subseteq Range(ring')
    BY <1>1, RenameReport DEF task_rename
<1>4. DOMAIN task' = DOMAIN task
    BY DEF task_rename
<1> QED
    BY <1>2, <1>3, <1>4, KnownKept DEF task_rename, KernelTypeOK

LEMMA SetArgV0Step ==
    ASSUME KernelTypeOK, NEW t \in Tids, NEW name \in CmdNames, SetArgV0(t, name)
    PROVE  KernelTypeOK' /\ Known \subseteq Known'
<1>1. name \in Names /\ t \in DOMAIN task
    BY KernelAssumption DEF SetArgV0, MainThreads
<1>2. IsMap(task', Tids, Task)
    BY <1>1 DEF SetArgV0, KernelTypeOK, IsMap, Task
<1>3. /\ ring' \in Seq(Event) /\ Len(ring') <= RingCap /\ dropped' \subseteq Tids
      /\ Range(ring) \subseteq Range(ring')
    BY <1>1, RenameReport DEF SetArgV0
<1>4. DOMAIN task' = DOMAIN task
    BY DEF SetArgV0
<1> QED
    BY <1>2, <1>3, <1>4, KnownKept DEF SetArgV0, KernelTypeOK

LEMMA ExecStep ==
    ASSUME KernelTypeOK, NEW t \in Tids, NEW name \in CmdNames, sched_process_exec(t, name)
    PROVE  KernelTypeOK' /\ Known \subseteq Known'
<1> DEFINE renamed == IF RenameReported(t, name) THEN <<EventOf("RENAME", t, name)>> ELSE <<>>
           execed == IF whitelist_matched(name) THEN <<EventOf("EXEC", t, name)>> ELSE <<>>
           reached == ring \o renamed \o execed
<1>1. name \in Names /\ t \in DOMAIN task
    BY KernelAssumption DEF sched_process_exec, MainThreads
<1>2. IsMap(task', Tids, Task)
    BY <1>1 DEF sched_process_exec, KernelTypeOK, IsMap, Task
<1>3. renamed \in Seq(Event) /\ execed \in Seq(Event) /\ ring \in Seq(Event)
    BY <1>1, EventType DEF KernelTypeOK
<1>4. ring' = IF Len(reached) <= RingCap THEN reached ELSE SubSeq(reached, 1, RingCap)
    BY DEF sched_process_exec
<1>5. dropped' \subseteq Tids
    BY DEF sched_process_exec, KernelTypeOK
<1> HIDE DEF renamed, execed
<1>6. /\ reached \in Seq(Event) /\ Len(reached) \in Nat /\ Len(ring) \in Nat
      /\ Len(reached) >= Len(ring)
      /\ \A i \in 1 .. Len(ring) : reached[i] = ring[i]
  <2>1. /\ ring \o renamed \in Seq(Event) /\ Len(ring \o renamed) = Len(ring) + Len(renamed)
        /\ \A i \in 1 .. Len(ring) : (ring \o renamed)[i] = ring[i]
    BY <1>3, ConcatProperties, LenProperties
  <2>2. /\ reached \in Seq(Event) /\ Len(reached) = Len(ring \o renamed) + Len(execed)
        /\ \A i \in 1 .. Len(ring \o renamed) : reached[i] = (ring \o renamed)[i]
    BY <1>3, <2>1, ConcatProperties, LenProperties
  <2>3. Len(ring) \in Nat /\ Len(renamed) \in Nat /\ Len(execed) \in Nat
    BY <1>3, LenProperties
  <2> QED
    BY <2>1, <2>2, <2>3
<1> HIDE DEF reached
<1>7. /\ ring' \in Seq(Event) /\ Len(ring') <= RingCap /\ Len(ring) <= Len(ring')
      /\ \A i \in 1 .. Len(ring) : ring'[i] = ring[i]
  <2>1. RingCap \in Nat /\ Len(ring) <= RingCap
    BY KernelAssumption DEF KernelTypeOK
  <2>2. CASE Len(reached) <= RingCap
    BY <1>4, <1>6, <2>2
  <2>3. CASE ~ (Len(reached) <= RingCap)
    <3>1. ring' = SubSeq(reached, 1, RingCap)
        BY <1>4, <2>3
    <3>2. RingCap \in 0 .. Len(reached)
        BY <1>6, <2>1, <2>3
    <3>3. /\ SubSeq(reached, 1, RingCap) \in Seq(Event)
          /\ Len(SubSeq(reached, 1, RingCap)) = RingCap
          /\ \A i \in 1 .. RingCap : SubSeq(reached, 1, RingCap)[i] = reached[i]
        BY <1>6, <2>1, <3>2, SubSeqProperties
    <3> QED
        BY <1>6, <2>1, <3>1, <3>3
  <2> QED
    BY <2>2, <2>3
<1>8. Range(ring) \subseteq Range(ring')
  <2>1. DOMAIN ring = 1 .. Len(ring) /\ DOMAIN ring' = 1 .. Len(ring')
    BY <1>3, <1>7, LenProperties
  <2>2. Len(ring) \in Nat /\ Len(ring') \in Nat
    BY <1>3, <1>7, LenProperties
  <2> QED
    BY <1>7, <2>1, <2>2 DEF Range
<1>9. DOMAIN task' = DOMAIN task
    BY DEF sched_process_exec
<1> QED
    BY <1>2, <1>5, <1>7, <1>8, <1>9, KnownKept DEF sched_process_exec, KernelTypeOK

LEMMA ExitStep ==
    ASSUME KernelTypeOK, NEW t \in Tids, sched_process_exit(t)
    PROVE  KernelTypeOK' /\ Known \subseteq Known'
<1>1. IsMap(task', Tids, Task)
    BY RemoveType DEF sched_process_exit, KernelTypeOK
<1>5. DOMAIN task' = DOMAIN task \ {t}
    BY DEF sched_process_exit, Remove, Restrict
<1>2. applied' \subseteq Tids /\ Cardinality(applied') <= AppliedCap
  <2>1. applied' = applied \ {t}
    BY DEF sched_process_exit
  <2>2. IsFiniteSet(applied)
    BY CacheAssumption, FS_Subset DEF KernelTypeOK
  <2>3. Cardinality(applied') <= Cardinality(applied)
    BY <2>1, <2>2, FS_Subset
  <2>4. Cardinality(applied) \in Nat /\ Cardinality(applied') \in Nat /\ AppliedCap \in Nat
    BY <2>1, <2>2, FS_Subset, FS_CardinalityType, KernelAssumption
  <2> QED
    BY <2>1, <2>3, <2>4 DEF KernelTypeOK
<1>3. CASE ~ applied_lookup(t)
  <2>1. applied' = applied /\ t \notin applied /\ UNCHANGED <<ring, dropped, lost>>
    BY <1>3 DEF sched_process_exit, applied_lookup, NoEvent
  <2> QED
    BY <1>1, <1>2, <1>5, <2>1 DEF KernelTypeOK, Known
<1>4. CASE applied_lookup(t)
  <2> DEFINE ev == EventOf("EXIT", t, Empty)
  <2>1. ev \in Event /\ ev.type = "EXIT" /\ ev.tid = t
    BY EventType DEF sched_process_exit
  <2>2. submit_event(ev) /\ lost' = IF Full THEN lost \cup {t} ELSE lost
    BY <1>4 DEF sched_process_exit
  <2> HIDE DEF ev
  <2>3. /\ ring' \in Seq(Event) /\ Len(ring') <= RingCap /\ dropped' \subseteq Tids
        /\ Range(ring) \subseteq Range(ring')
        /\ Full \/ ev \in Range(ring')
    BY <2>1, <2>2, SubmitType DEF KernelTypeOK
  <2>4. t \in Known'
    BY <2>1, <2>2, <2>3 DEF Known
  <2>5. applied' = applied \ {t} /\ lost \subseteq lost'
    BY <2>2 DEF sched_process_exit
  <2>6. Known \subseteq Known'
    BY <1>5, <2>3, <2>4, <2>5 DEF Known
  <2> QED
    BY <1>1, <1>2, <2>2, <2>3, <2>6 DEF KernelTypeOK
<1> QED
    BY <1>3, <1>4

LEMMA ResetAffinityStep ==
    ASSUME KernelTypeOK, NEW t \in Tids, ResetAffinity(t)
    PROVE  KernelTypeOK' /\ Known \subseteq Known'
<1>1. IsMap(task', Tids, Task)
    BY NamesAssumption DEF ResetAffinity, KernelTypeOK, IsMap, Task
<1>2. DOMAIN task' = DOMAIN task
    BY DEF ResetAffinity
<1> QED
    BY <1>1, <1>2 DEF ResetAffinity, KernelTypeOK, Known

(* Every step of the kernel keeps its maps and its ring buffer within      *)
(* their types and capacities, and forgets no exit (ebpf/src/main.rs).     *)
THEOREM KernelSafe ==
    ASSUME KernelTypeOK, KernelNext
    PROVE  KernelTypeOK' /\ Known \subseteq Known' /\ target' = target
<1>1. target' = target
    BY DEF KernelNext, sched_process_fork, task_rename, SetArgV0, sched_process_exec,
           sched_process_exit, ResetAffinity
<1> QED
    BY <1>1, ForkStep, RenameStep, SetArgV0Step, ExecStep, ExitStep, ResetAffinityStep
       DEF KernelNext
=============================================================================
