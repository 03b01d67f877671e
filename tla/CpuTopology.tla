---------------------------- MODULE CpuTopology ----------------------------
(***************************************************************************)
(* CPU sets and lists (CpuSet and parse_cpu_ranges of src/src/cpuset.rs,   *)
(* fmt_cpus of src/src/cpu.rs), and the clusters the two files make of the *)
(* cpufreq policies (detect and detect_core_types).                        *)
(*                                                                         *)
(* Abstractions.  A word of a CpuSet is the set of its bits that are one.  *)
(* A list such as "0-3,6" is the sequence of its parts, a part a sequence  *)
(* of one or two numbers, and a number that cannot be parsed is Bad.  A    *)
(* policy that cannot be read is not there.  A loop whose order matters is *)
(* a function of the number of rounds; one that only sets bits is a union. *)
(***************************************************************************)
EXTENDS Integers, FiniteSets, SequencesExt

CONSTANTS
    CPU_WORD_BITS,
    CPU_WORDS,
    CPU_FILES      \* how many CPUs cpu.rs:37 looks for one by one

ASSUME TopologyAssumption ==
    CPU_WORD_BITS \in Nat \ {0} /\ CPU_WORDS \in Nat \ {0} /\ CPU_FILES \in Nat

CPU_SETSIZE == CPU_WORD_BITS * CPU_WORDS

CpuSet == [0 .. CPU_WORDS - 1 -> SUBSET (0 .. CPU_WORD_BITS - 1)]

new == [w \in 0 .. CPU_WORDS - 1 |-> {}]

(* set for each of cpus: a CPU from CPU_SETSIZE on is in no word.          *)
set(s, cpus) ==
    [w \in 0 .. CPU_WORDS - 1 |->
        s[w] \cup {bit \in 0 .. CPU_WORD_BITS - 1 : w * CPU_WORD_BITS + bit \in cpus}]

is_set(s, cpu) == cpu < CPU_SETSIZE /\ cpu % CPU_WORD_BITS \in s[cpu \div CPU_WORD_BITS]

(* The numbers of a finite set in ascending order. *)
Ascending(S) ==
    [i \in 1 .. Cardinality(S) |-> CHOOSE x \in S : Cardinality({y \in S : y < x}) = i - 1]

-----------------------------------------------------------------------------
(* Printing.  The parts so far, and the range that is still open, if any.  *)

Nothing == [parts |-> <<>>, open |-> <<>>]

push_range(p) ==
    IF p.open = <<>> THEN p
    ELSE [parts |-> Append(p.parts, IF p.open[1] = p.open[2] THEN <<p.open[1]>> ELSE p.open),
          open  |-> <<>>]

PrintCpu(p, cpu) ==
    IF p.open # <<>> /\ cpu = p.open[2] + 1
    THEN [p EXCEPT !.open = <<@[1], cpu>>]
    ELSE [push_range(p) EXCEPT !.open = <<cpu, cpu>>]

(* Faulty variant of PrintBit: a range ends with its word.                 *)
PrintBitAlone(s, p, cpu) ==
    LET q == IF cpu % CPU_WORD_BITS = 0 THEN push_range(p) ELSE p
    IN  IF is_set(s, cpu) THEN PrintCpu(q, cpu) ELSE q

(* An empty word closes the range as soon as it is met. *)
PrintBit(s, p, cpu) ==
    IF cpu % CPU_WORD_BITS = 0 /\ s[cpu \div CPU_WORD_BITS] = {} THEN push_range(p)
    ELSE IF is_set(s, cpu) THEN PrintCpu(p, cpu)
    ELSE p

(* What is printed of s after each of its bits. *)
Printed(s) ==
    LET after[cpu \in 0 .. CPU_SETSIZE] ==
            IF cpu = 0 THEN Nothing ELSE PrintBit(s, after[cpu - 1], cpu - 1)
    IN  after

(* Faulty variant of to_range_string: the last range is not pushed.        *)
to_range_string_open(s) == Printed(s)[CPU_SETSIZE].parts

to_range_string(s) == push_range(Printed(s)[CPU_SETSIZE]).parts

(* cpu.rs prints a list in the order it has. *)
Listed(cpus) ==
    LET after[i \in 0 .. Len(cpus)] ==
            IF i = 0 THEN Nothing ELSE PrintCpu(after[i - 1], cpus[i])
    IN  after

fmt_cpus(cpus) ==
    IF cpus = <<>> THEN <<<<0>>>> ELSE push_range(Listed(cpus)[Len(cpus)]).parts

-----------------------------------------------------------------------------
(* Parsing.                                                                *)

Bad == -1

(* The CPUs of a part, whose ends are in whichever order. *)
CpusOfPart(part) ==
    LET a == part[1]
        b == IF Len(part) = 1 \/ part[2] = Bad THEN a ELSE part[2]
    IN  IF a = Bad THEN {}
        ELSE {cpu \in 0 .. CPU_SETSIZE - 1 : cpu \in a .. b \/ cpu \in b .. a}

(* present is a Rust Option. *)
parse_cpu_ranges(parts, present) ==
    set(new, {cpu \in UNION {CpusOfPart(parts[i]) : i \in DOMAIN parts} :
                 \A p \in present : is_set(p, cpu)})

from_range(parts) == parse_cpu_ranges(parts, {})

-----------------------------------------------------------------------------
(* Clusters.  A cluster is a frequency and a list of CPUs, as a policy is. *)

(* The clusters in descending order of their frequencies; policies of the  *)
(* same frequency stay in the order they were read in.                     *)
Descending(cls) ==
    LET before(i) == {k \in DOMAIN cls : cls[k].freq > cls[i].freq
                                             \/ (cls[k].freq = cls[i].freq /\ k < i)}
    IN  [n \in DOMAIN cls |-> cls[CHOOSE i \in DOMAIN cls : Cardinality(before(i)) = n - 1]]

(* CPUs of the same frequency are a cluster, in the order of their first.  *)
Join(cls, cluster) ==
    IF \E i \in DOMAIN cls : cls[i].freq = cluster.freq
    THEN [i \in DOMAIN cls |->
             IF cls[i].freq = cluster.freq THEN [cls[i] EXCEPT !.cpus = @ \o cluster.cpus]
             ELSE cls[i]]
    ELSE Append(cls, cluster)

(* The groups after each of cls, but for those of a frequency in skipped.  *)
Grouped(cls, skipped) ==
    LET after[i \in 0 .. Len(cls)] ==
            IF i = 0 THEN <<>>
            ELSE IF cls[i].freq \in skipped THEN after[i - 1]
            ELSE Join(after[i - 1], cls[i])
    IN  after

(* A CPU that is offline has no frequency file. *)
Missing == -2

(* Method 2: the frequency files of the CPUs, up to the first missing one; *)
(* one that cannot be parsed is passed over.                               *)
PerCpu(freqs) ==
    LET ones == [i \in {i \in DOMAIN freqs :
                           i <= CPU_FILES /\ \A k \in 1 .. i : freqs[k] # Missing} |->
                    [freq |-> freqs[i], cpus |-> <<i - 1>>]]
    IN  Grouped(ones, {Bad})[Len(ones)]

Known(cls) == UNION {ToSet(cls[i].cpus) : i \in DOMAIN cls}

(* Faulty variant of WithOffline: the CPUs known are counted as offline,   *)
(* too.                                                                    *)
WithOfflineAll(cls, total) ==
    IF Len(cls) = 1 /\ total > Len(cls[1].cpus)
    THEN <<[freq |-> 1, cpus |-> Ascending(0 .. total - 1)], [freq |-> 0, cpus |-> cls[1].cpus]>>
    ELSE cls

(* With one cluster known and more CPUs present, the others are taken for  *)
(* the big ones.                                                           *)
WithOffline(cls, total) ==
    LET extra == Ascending((0 .. total - 1) \ Known(cls))
    IN  IF Len(cls) = 1 /\ total > Len(cls[1].cpus) /\ extra # <<>>
        THEN <<[freq |-> 1, cpus |-> extra], [freq |-> 0, cpus |-> cls[1].cpus]>>
        ELSE cls

clusters(policies, freqs, total) ==
    WithOffline(Descending(IF Len(policies) < 2 THEN PerCpu(freqs) ELSE policies), total)

(* cpu::detect: the lists of the fastest, the second and the slowest.      *)
detect(policies, freqs, total) ==
    LET cls == clusters(policies, freqs, total)
    IN  IF cls = <<>> THEN [big |-> <<<<0>>>>, mid |-> <<>>, little |-> <<<<0>>>>]
        ELSE [big    |-> fmt_cpus(cls[1].cpus),
              mid    |-> IF Len(cls) >= 3 THEN fmt_cpus(cls[2].cpus) ELSE <<>>,
              little |-> fmt_cpus(cls[Len(cls)].cpus)]

(* The CPUs of the clusters from first to last. *)
AllOf(cls, first, last) == set(new, UNION {ToSet(cls[i].cpus) : i \in first .. last})

(* Faulty variant of CoreTypes: the last group is never told from those in *)
(* the middle.                                                             *)
CoreTypesOffByOne(cls) ==
    LET n == Len(cls)
    IN  [e_core  |-> IF n = 0 THEN new ELSE AllOf(cls, n, n),
         p_core  |-> AllOf(cls, 1, n - 1),
         hp_core |-> new]

(* The slowest are e-cores, the fastest hp-cores, all in between p-cores.  *)
CoreTypes(cls) ==
    LET n == Len(cls)
    IN  [e_core  |-> IF n = 0 THEN new ELSE AllOf(cls, n, n),
         p_core  |-> AllOf(cls, 2, n - 1),
         hp_core |-> IF n < 2 THEN new ELSE AllOf(cls, 1, 1)]

(* cpuset.rs: policies of one frequency are one group. *)
detect_core_types(policies) == CoreTypes(Descending(Grouped(policies, {0})[Len(policies)]))
=============================================================================
