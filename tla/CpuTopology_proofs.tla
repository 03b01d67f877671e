------------------------- MODULE CpuTopology_proofs -------------------------
(***************************************************************************)
(* What the run on CpuTopology shows for a few CPUs, for CPU sets, lists   *)
(* and policies of every size: a printed list means its CPUs, and a CPU    *)
(* set has one name; the clusters of detect do not overlap, and are in the *)
(* order of their frequencies if all are found; and detect_core_types sees *)
(* the same ones.                                                          *)
(*                                                                         *)
(* A loop is a function of the number of its rounds.  What it keeps is     *)
(* proved of the first round that would not keep it: there is none.        *)
(***************************************************************************)
EXTENDS MCAlgorithms, SequenceTheorems, TLAPS

(* Both come by INSTANCE: names of theirs are names of the modules above,  *)
(* too.                                                                    *)
Wf == INSTANCE WellFoundedInduction

Fs == INSTANCE FiniteSetTheorems

(* A set of numbers that is not empty has a least one.                     *)
LEMMA LeastNumber ==
    ASSUME NEW T \in SUBSET Nat, T # {}
    PROVE  \E x \in T : \A y \in T : x <= y
<1> DEFINE R == Wf!OpToRel(<, Nat)
<1>1. \A x, y \in Nat : x < y => <<x, y>> \in R
    BY DEF Wf!OpToRel
<1>2. Wf!IsWellFoundedOn(R, Nat)
    BY Wf!NatLessThanWellFounded
<1> HIDE DEF R
<1>3. PICK x \in T : \A y \in T : ~ (<<y, x>> \in R)
    BY <1>2, Wf!WFMin
<1>4. \A y \in T : ~ (y < x)
    BY <1>1, <1>3
<1>5. \A y \in T : x <= y
    BY <1>4
<1> QED
    BY <1>5

(* What holds of 0, and of the next number if it holds of one, holds of    *)
(* all up to a bound: kept is the set of those that it holds of.           *)
LEMMA Rounds ==
    ASSUME NEW last \in Nat, NEW kept,
           0 \in kept,
           \A n \in 0 .. last - 1 : n \in kept => n + 1 \in kept
    PROVE  \A n \in 0 .. last : n \in kept
<1> DEFINE T == {n \in 0 .. last : n \notin kept}
<1> SUFFICES ASSUME T # {} PROVE FALSE
    OBVIOUS
<1>1. PICK n \in T : \A k \in T : n <= k
  <2>1. T \in SUBSET Nat
    OBVIOUS
  <2> HIDE DEF T
  <2> QED
    BY <2>1, LeastNumber
<1>2. n # 0 /\ n \in 0 .. last /\ n \notin kept
    OBVIOUS
<1>3. n - 1 \in 0 .. last - 1 /\ n - 1 + 1 = n /\ ~ (n <= n - 1)
    BY <1>2
<1>4. n - 1 \in kept
    BY <1>1, <1>3
<1> QED
    BY <1>2, <1>3, <1>4

(* A loop whose rounds stay in a set of states has a value after each.     *)
Unrolls(f, last, start, step) == f[0] = start /\ \A k \in 1 .. last : f[k] = step[k][f[k - 1]]

LEMMA Unrolled ==
    ASSUME NEW last \in Nat, NEW States, NEW start \in States,
           NEW step \in [1 .. last -> [States -> States]]
    PROVE  \E f \in [0 .. last -> States] : Unrolls(f, last, start, step)
<1> DEFINE Runs(f, n) == f[0] = start /\ \A k \in 1 .. n : f[k] = step[k][f[k - 1]]
           kept == {n \in 0 .. last : \E f \in [0 .. last -> States] : Runs(f, n)}
<1>1. 0 \in kept
  <2> DEFINE f == [k \in 0 .. last |-> start]
  <2>1. f \in [0 .. last -> States] /\ Runs(f, 0) /\ 0 \in 0 .. last
    OBVIOUS
  <2> HIDE DEF f, Runs
  <2> QED
    BY <2>1
<1>2. ASSUME NEW n \in 0 .. last - 1, n \in kept PROVE n + 1 \in kept
  <2>1. PICK f \in [0 .. last -> States] : Runs(f, n)
    BY <1>2
  <2> DEFINE g == [k \in 0 .. last |-> IF k = n + 1 THEN step[n + 1][f[n]] ELSE f[k]]
  <2>2. n \in Nat /\ n + 1 \in 1 .. last /\ n \in 0 .. last /\ 0 \in 0 .. last /\ n + 1 # 0
    OBVIOUS
  <2>3. step[n + 1][f[n]] \in States
    BY <2>2
  <2>4. g \in [0 .. last -> States] /\ g[0] = start
    BY <2>1, <2>2, <2>3
  <2>5. ASSUME NEW k \in 1 .. n + 1 PROVE g[k] = step[k][g[k - 1]]
    <3>1. k \in 0 .. last /\ k - 1 \in 0 .. last /\ k - 1 # n + 1
      BY <2>2
    <3>2. g[k - 1] = f[k - 1]
      BY <3>1
    <3>3. CASE k = n + 1
      <4>1. g[k] = step[n + 1][f[n]] /\ k - 1 = n
        BY <2>2, <3>1, <3>3
      <4> HIDE DEF g
      <4> QED
        BY <3>2, <3>3, <4>1
    <3>4. CASE k # n + 1
      <4>1. k \in 1 .. n /\ g[k] = f[k]
        BY <2>2, <3>1, <3>4
      <4>2. f[k] = step[k][f[k - 1]]
        BY <2>1, <4>1
      <4> QED
        BY <3>2, <4>1, <4>2
    <3> QED
      BY <3>3, <3>4
  <2> HIDE DEF g
  <2>6. Runs(g, n + 1) /\ n + 1 \in 0 .. last
    BY <2>2, <2>4, <2>5
  <2> QED
    BY <2>4, <2>6
<1>3. last \in kept
  <2> HIDE DEF kept
  <2>1. last \in 0 .. last
    OBVIOUS
  <2> QED
    BY <1>1, <1>2, <2>1, Rounds
<1> QED
    BY <1>3 DEF Unrolls

-----------------------------------------------------------------------------
(* CPU sets.                                                               *)

(* The CPUs that have a bit.                                               *)
Cpu == 0 .. CPU_SETSIZE - 1

LEMMA Sizes ==
    /\ CPU_WORD_BITS \in Nat /\ CPU_WORD_BITS > 0 /\ CPU_WORDS \in Nat /\ CPU_WORDS > 0
    /\ CPU_SETSIZE \in Nat /\ CPU_SETSIZE > 0
BY TopologyAssumption DEF CPU_SETSIZE

(* The bit of a word has a CPU,                                            *)
LEMMA CpuOfBit ==
    ASSUME NEW w \in 0 .. CPU_WORDS - 1, NEW bit \in 0 .. CPU_WORD_BITS - 1
    PROVE  /\ w * CPU_WORD_BITS + bit \in Cpu
           /\ (w * CPU_WORD_BITS + bit) \div CPU_WORD_BITS = w
           /\ (w * CPU_WORD_BITS + bit) % CPU_WORD_BITS = bit
<1> DEFINE b == CPU_WORD_BITS
           c == w * b + bit
<1>1. b \in Nat /\ b > 0 /\ CPU_WORDS \in Nat /\ w \in Nat /\ bit \in Nat /\ bit < b
    BY Sizes
<1>2. (CPU_WORDS - 1 - w) * b \in Nat /\ CPU_SETSIZE = (CPU_WORDS - 1 - w) * b + w * b + b
    BY <1>1 DEF CPU_SETSIZE
<1>3. w * b \in Nat /\ c \in Nat
    BY <1>1
<1>4. c < CPU_SETSIZE
    BY <1>1, <1>2, <1>3
<1>5. c \div b = w /\ c % b = bit
    BY <1>1, <1>3
<1> QED
    BY <1>3, <1>4, <1>5, Sizes DEF Cpu

(* and the CPU a bit of a word.                                            *)
LEMMA BitOfCpu ==
    ASSUME NEW cpu \in Cpu
    PROVE  /\ cpu \div CPU_WORD_BITS \in 0 .. CPU_WORDS - 1
           /\ cpu % CPU_WORD_BITS \in 0 .. CPU_WORD_BITS - 1
           /\ cpu = (cpu \div CPU_WORD_BITS) * CPU_WORD_BITS + (cpu % CPU_WORD_BITS)
<1> DEFINE b == CPU_WORD_BITS
           w == cpu \div b
           bit == cpu % b
<1>1. b \in Nat /\ b > 0 /\ CPU_WORDS \in Nat /\ cpu \in Nat /\ cpu < CPU_WORDS * b
    BY Sizes DEF Cpu, CPU_SETSIZE
<1>2. w \in Nat /\ bit \in Nat /\ bit < b /\ cpu = w * b + bit
    BY <1>1
<1>3. ASSUME w >= CPU_WORDS PROVE FALSE
  <2> HIDE DEF w, bit
  <2>1. (w - CPU_WORDS) * b \in Nat
    BY <1>1, <1>2, <1>3
  <2>2. w * b = (w - CPU_WORDS) * b + CPU_WORDS * b
    BY <1>1, <1>2
  <2> QED
    BY <1>1, <1>2, <2>1, <2>2
<1> QED
    BY <1>1, <1>2, <1>3

(* A bit that is set, and no other one, is set.                            *)
LEMMA SetBits ==
    ASSUME NEW cs
    PROVE  /\ set(new, cs) \in CpuSet
           /\ \A cpu \in Cpu : is_set(set(new, cs), cpu) <=> cpu \in cs
<1>1. set(new, cs) = [w \in 0 .. CPU_WORDS - 1 |->
                         {bit \in 0 .. CPU_WORD_BITS - 1 : w * CPU_WORD_BITS + bit \in cs}]
    BY DEF set, new
<1>2. ASSUME NEW cpu \in Cpu PROVE is_set(set(new, cs), cpu) <=> cpu \in cs
  <2> DEFINE w == cpu \div CPU_WORD_BITS
             bit == cpu % CPU_WORD_BITS
  <2>1. cpu < CPU_SETSIZE
    BY Sizes DEF Cpu
  <2>2. /\ w \in 0 .. CPU_WORDS - 1 /\ bit \in 0 .. CPU_WORD_BITS - 1
        /\ cpu = w * CPU_WORD_BITS + bit
    BY BitOfCpu
  <2>3. is_set(set(new, cs), cpu) <=> bit \in set(new, cs)[w]
    BY <2>1 DEF is_set
  <2> HIDE DEF w, bit
  <2>4. bit \in set(new, cs)[w] <=> cpu \in cs
    BY <1>1, <2>2
  <2> QED
    BY <2>3, <2>4
<1> QED
    BY <1>1, <1>2 DEF CpuSet

(* A CPU set is what is set in it.                                         *)
LEMMA SetOfItsBits ==
    ASSUME NEW s \in CpuSet
    PROVE  set(new, {cpu \in Cpu : is_set(s, cpu)}) = s
<1> DEFINE cs == {cpu \in Cpu : is_set(s, cpu)}
<1>1. set(new, cs) = [w \in 0 .. CPU_WORDS - 1 |->
                         {bit \in 0 .. CPU_WORD_BITS - 1 : w * CPU_WORD_BITS + bit \in cs}]
    BY DEF set, new
<1>2. ASSUME NEW w \in 0 .. CPU_WORDS - 1
      PROVE  {bit \in 0 .. CPU_WORD_BITS - 1 : w * CPU_WORD_BITS + bit \in cs} = s[w]
  <2>1. s[w] \subseteq 0 .. CPU_WORD_BITS - 1
    BY DEF CpuSet
  <2>2. ASSUME NEW bit \in 0 .. CPU_WORD_BITS - 1
        PROVE  w * CPU_WORD_BITS + bit \in cs <=> bit \in s[w]
    <3>1. w * CPU_WORD_BITS + bit < CPU_SETSIZE
      BY CpuOfBit, Sizes DEF Cpu
    <3> QED
      BY <3>1, CpuOfBit DEF is_set
  <2> HIDE DEF cs
  <2> QED
    BY <2>1, <2>2
<1>3. set(new, cs) = s
  <2> HIDE DEF cs
  <2>1. set(new, cs) = [w \in 0 .. CPU_WORDS - 1 |-> s[w]]
    BY <1>1, <1>2
  <2> QED
    BY <2>1 DEF CpuSet
<1> QED
    BY <1>3
-----------------------------------------------------------------------------
(* Printing.                                                               *)

(* The state of a printer: parts of one number or two ascending ones, and  *)
(* the ends of a range that is open.                                       *)
IsPart(part) == part \in Seq(Nat) /\ (Len(part) = 1 \/ (Len(part) = 2 /\ part[1] < part[2]))

(* What is printed is always parts, and perhaps an open range.             *)
Printer ==
    {p \in [parts : Seq(Seq(Nat)), open : Seq(Nat)] :
        /\ \A i \in 1 .. Len(p.parts) : IsPart(p.parts[i])
        /\ p.open # <<>> => Len(p.open) = 2 /\ p.open[1] <= p.open[2]}

(* The part is of that CPU.                                                *)
Within(part, cpu) == part[1] <= cpu /\ cpu <= part[Len(part)]

(* What a printer has seen. *)
Shown(p, cpu) ==
    \/ \E i \in 1 .. Len(p.parts) : Within(p.parts[i], cpu)
    \/ p.open # <<>> /\ p.open[1] <= cpu /\ cpu <= p.open[2]

(* At first no CPU is shown.                                               *)
LEMMA NothingPrinted ==
    Nothing \in Printer /\ \A cpu \in Nat : ~ Shown(Nothing, cpu)
<1>1. Nothing.parts = <<>> /\ Nothing.open = <<>>
    BY DEF Nothing
<1>2. Nothing \in [parts : Seq(Seq(Nat)), open : Seq(Nat)]
    BY DEF Nothing
<1> QED
    BY <1>1, <1>2 DEF Printer, Shown

(* push_range adds the open range to the parts, as it is.                  *)
LEMMA Pushed ==
    ASSUME NEW p \in Printer, p.open # <<>>
    PROVE  LET q    == push_range(p)
               n    == Len(p.parts)
               last == q.parts[n + 1]
           IN  /\ q \in [parts : Seq(Seq(Nat)), open : Seq(Nat)] /\ q.open = <<>>
               /\ n \in Nat /\ Len(q.parts) = n + 1
               /\ \A i \in 1 .. n : q.parts[i] = p.parts[i]
               /\ IsPart(last) /\ last[1] = p.open[1] /\ last[Len(last)] = p.open[2]
<1> DEFINE a == p.open[1]
           b == p.open[2]
           part == IF a = b THEN <<a>> ELSE p.open
<1>1. /\ p.parts \in Seq(Seq(Nat)) /\ p.open \in Seq(Nat) /\ Len(p.open) = 2
      /\ a \in Nat /\ b \in Nat /\ a <= b
    BY DEF Printer
<1>2. part \in Seq(Nat) /\ IsPart(part) /\ part[1] = a /\ part[Len(part)] = b
  <2>1. CASE a = b
    <3>1. part = <<a>>
      BY <2>1
    <3> QED
      BY <1>1, <2>1, <3>1 DEF IsPart
  <2>2. CASE a # b
    <3>1. part = p.open
      BY <2>2
    <3>2. IsPart(p.open) /\ p.open[1] = a /\ p.open[Len(p.open)] = b
      BY <1>1, <2>2 DEF IsPart
    <3> HIDE DEF a, b, part
    <3> QED
      BY <1>1, <3>1, <3>2
  <2> QED
    BY <2>1, <2>2
<1>3. push_range(p) = [parts |-> Append(p.parts, part), open |-> <<>>]
    BY DEF push_range
<1> HIDE DEF a, b, part
<1>4. /\ Append(p.parts, part) \in Seq(Seq(Nat)) /\ Len(Append(p.parts, part)) = Len(p.parts) + 1
      /\ Append(p.parts, part)[Len(p.parts) + 1] = part /\ Len(p.parts) \in Nat
      /\ \A i \in 1 .. Len(p.parts) : Append(p.parts, part)[i] = p.parts[i]
    BY <1>1, <1>2
<1> QED
    BY <1>2, <1>3, <1>4 DEF a, b

(* Closing a range shows the same CPUs.                                    *)
LEMMA PushedShown ==
    ASSUME NEW p \in Printer
    PROVE  /\ push_range(p) \in Printer /\ push_range(p).open = <<>>
           /\ \A cpu \in Nat : Shown(push_range(p), cpu) <=> Shown(p, cpu)
<1>1. CASE p.open = <<>>
    BY <1>1 DEF push_range
<1>2. CASE p.open # <<>>
  <2> DEFINE q == push_range(p)
             n == Len(p.parts)
             last == q.parts[n + 1]
  <2>1. /\ q \in [parts : Seq(Seq(Nat)), open : Seq(Nat)] /\ q.open = <<>>
        /\ n \in Nat /\ Len(q.parts) = n + 1
        /\ \A i \in 1 .. n : q.parts[i] = p.parts[i]
        /\ IsPart(last) /\ last[1] = p.open[1] /\ last[Len(last)] = p.open[2]
    BY <1>2, Pushed
  <2>2. \A i \in 1 .. n : IsPart(p.parts[i])
    BY DEF Printer
  <2> HIDE DEF q, last
  <2>3. \A i \in 1 .. n + 1 : i \in 1 .. n \/ i = n + 1
    <3>1. n \in Nat
      BY <2>1, Zenon
    <3> HIDE DEF n
    <3> QED
      BY <3>1
  <2>4. q \in Printer
    <3>1. ASSUME NEW i \in 1 .. Len(q.parts) PROVE IsPart(q.parts[i])
      <4>1. i \in 1 .. n \/ i = n + 1
        BY <2>1, <2>3
      <4> QED
        BY <2>1, <2>2, <4>1 DEF last
    <3> QED
      BY <2>1, <3>1, Zenon DEF Printer
  <2>5. ASSUME NEW cpu \in Nat PROVE Shown(q, cpu) <=> Shown(p, cpu)
    <3>1. Shown(q, cpu) <=> \E i \in 1 .. n + 1 : Within(q.parts[i], cpu)
      BY <2>1 DEF Shown
    <3>2. (\E i \in 1 .. n + 1 : Within(q.parts[i], cpu))
             <=> (\E i \in 1 .. n : Within(p.parts[i], cpu)) \/ Within(last, cpu)
      <4>1. ASSUME NEW i \in 1 .. n + 1, Within(q.parts[i], cpu)
            PROVE  (\E k \in 1 .. n : Within(p.parts[k], cpu)) \/ Within(last, cpu)
        BY <2>1, <2>3, <4>1 DEF last
      <4>2. ASSUME NEW i \in 1 .. n, Within(p.parts[i], cpu)
            PROVE  i \in 1 .. n + 1 /\ Within(q.parts[i], cpu)
        <5>1. i \in 1 .. n + 1 /\ q.parts[i] = p.parts[i]
          BY <2>1
        <5> QED
          BY <4>2, <5>1
      <4>3. n + 1 \in 1 .. n + 1
        BY <2>1
      <4> QED
        BY <4>1, <4>2, <4>3 DEF last
    <3>3. Within(last, cpu) <=> p.open[1] <= cpu /\ cpu <= p.open[2]
      BY <2>1 DEF Within
    <3> QED
      BY <1>2, <3>1, <3>2, <3>3 DEF Shown
  <2> QED
    BY <2>1, <2>4, <2>5 DEF q
<1> QED
    BY <1>1, <1>2

(* A CPU is printed after what was printed before.                         *)
LEMMA PrintedCpu ==
    ASSUME NEW p \in Printer, NEW cpu \in Nat
    PROVE  /\ PrintCpu(p, cpu) \in Printer
           /\ \A c \in Nat : Shown(PrintCpu(p, cpu), c) <=> Shown(p, c) \/ c = cpu
<1> DEFINE r == PrintCpu(p, cpu)
<1>1. CASE p.open # <<>> /\ cpu = p.open[2] + 1
  <2>1. /\ p.parts \in Seq(Seq(Nat)) /\ p.open \in Seq(Nat) /\ Len(p.open) = 2
        /\ p.open[1] \in Nat /\ p.open[2] \in Nat /\ p.open[1] <= p.open[2]
        /\ \A i \in 1 .. Len(p.parts) : IsPart(p.parts[i])
    BY <1>1 DEF Printer
  <2>2. r = [parts |-> p.parts, open |-> <<p.open[1], cpu>>]
    BY <1>1 DEF PrintCpu, Printer
  <2> HIDE DEF r
  <2>3. r.parts = p.parts /\ r.open \in Seq(Nat) /\ r.open # <<>> /\ Len(r.open) = 2
        /\ r.open[1] = p.open[1] /\ r.open[2] = cpu
    BY <2>1, <2>2
  <2>4. r \in Printer
    BY <1>1, <2>1, <2>2, <2>3 DEF Printer
  <2>5. ASSUME NEW c \in Nat PROVE Shown(r, c) <=> Shown(p, c) \/ c = cpu
    <3>1. (r.open[1] <= c /\ c <= r.open[2])
              <=> (p.open[1] <= c /\ c <= p.open[2]) \/ c = cpu
      BY <1>1, <2>1, <2>3
    <3> QED
      BY <1>1, <2>3, <3>1 DEF Shown
  <2> QED
    BY <2>4, <2>5 DEF r
<1>2. CASE ~ (p.open # <<>> /\ cpu = p.open[2] + 1)
  <2> DEFINE q == push_range(p)
  <2>1. /\ q \in Printer /\ q.open = <<>>
        /\ \A c \in Nat : Shown(q, c) <=> Shown(p, c)
    BY PushedShown
  <2>2. q.parts \in Seq(Seq(Nat)) /\ \A i \in 1 .. Len(q.parts) : IsPart(q.parts[i])
    BY <2>1 DEF Printer
  <2>3. r = [parts |-> q.parts, open |-> <<cpu, cpu>>]
    BY <1>2, <2>1 DEF PrintCpu, Printer
  <2> HIDE DEF r, q
  <2>4. r.parts = q.parts /\ r.open \in Seq(Nat) /\ r.open # <<>> /\ Len(r.open) = 2
        /\ r.open[1] = cpu /\ r.open[2] = cpu
    BY <2>3
  <2>5. r \in Printer
    BY <2>2, <2>3, <2>4 DEF Printer
  <2>6. ASSUME NEW c \in Nat PROVE Shown(r, c) <=> Shown(p, c) \/ c = cpu
    <3>1. (r.open[1] <= c /\ c <= r.open[2]) <=> c = cpu
      BY <2>4
    <3> QED
      BY <2>1, <2>4, <3>1 DEF Shown
  <2> QED
    BY <2>5, <2>6 DEF r
<1> QED
    BY <1>1, <1>2

(* A bit that is one shows its CPU; nothing else changes what is shown.    *)
LEMMA PrintedBit ==
    ASSUME NEW s \in CpuSet, NEW p \in Printer, NEW cpu \in Cpu
    PROVE  /\ PrintBit(s, p, cpu) \in Printer
           /\ \A c \in Nat : Shown(PrintBit(s, p, cpu), c)
                                 <=> Shown(p, c) \/ (c = cpu /\ is_set(s, cpu))
<1>1. cpu \in Nat
    BY Sizes DEF Cpu
<1>2. CASE cpu % CPU_WORD_BITS = 0 /\ s[cpu \div CPU_WORD_BITS] = {}
  <2>1. ~ is_set(s, cpu) /\ PrintBit(s, p, cpu) = push_range(p)
    BY <1>2 DEF is_set, PrintBit
  <2> QED
    BY <2>1, PushedShown
<1>3. CASE ~ (cpu % CPU_WORD_BITS = 0 /\ s[cpu \div CPU_WORD_BITS] = {})
  <2>1. PrintBit(s, p, cpu) = IF is_set(s, cpu) THEN PrintCpu(p, cpu) ELSE p
    BY <1>3, Zenon DEF PrintBit
  <2> QED
    BY <1>1, <2>1, PrintedCpu
<1> QED
    BY <1>2, <1>3

(* What is printed after each bit is what the last one made of it.         *)
LEMMA PrintedRounds ==
    ASSUME NEW s \in CpuSet
    PROVE  /\ Printed(s) \in [0 .. CPU_SETSIZE -> Printer] /\ Printed(s)[0] = Nothing
           /\ \A cpu \in Cpu : Printed(s)[cpu + 1] = PrintBit(s, Printed(s)[cpu], cpu)
<1> DEFINE last == CPU_SETSIZE
           step == [k \in 1 .. last |-> [p \in Printer |-> PrintBit(s, p, k - 1)]]
           Runs(f) == f = [k \in 0 .. last |->
                              IF k = 0 THEN Nothing ELSE PrintBit(s, f[k - 1], k - 1)]
<1>1. last \in Nat /\ \A k \in 1 .. last : k - 1 \in Cpu
    BY Sizes DEF Cpu
<1>2. step \in [1 .. last -> [Printer -> Printer]]
    BY <1>1, PrintedBit
<1>3. \E f : Runs(f)
  <2> HIDE DEF last, step
  <2>1. PICK f \in [0 .. last -> Printer] :
            f[0] = Nothing /\ \A k \in 1 .. last : f[k] = step[k][f[k - 1]]
    <3>1. PICK f \in [0 .. last -> Printer] : Unrolls(f, last, Nothing, step)
      BY <1>1, <1>2, NothingPrinted, Unrolled
    <3> QED
      BY <3>1, Zenon DEF Unrolls
  <2>2. ASSUME NEW k \in 1 .. last PROVE f[k] = PrintBit(s, f[k - 1], k - 1)
    <3>1. k - 1 \in 0 .. last
      BY <1>1
    <3>2. f[k - 1] \in Printer /\ f[k] = step[k][f[k - 1]]
      BY <2>1, <3>1
    <3> QED
      BY <3>2 DEF step
  <2>3. \A k \in 0 .. last : k = 0 \/ k \in 1 .. last
    BY <1>1
  <2>4. Runs(f)
    BY <2>1, <2>2, <2>3
  <2> QED
    BY <2>4
<1>4. Printed(s) = CHOOSE f : Runs(f)
    BY DEF Printed
<1> DEFINE p == Printed(s)
<1>5. p = [k \in 0 .. last |-> IF k = 0 THEN Nothing ELSE PrintBit(s, p[k - 1], k - 1)]
    BY <1>3, <1>4
<1> HIDE DEF p
<1>6. p[0] = Nothing
    BY <1>1, <1>5
<1>7. ASSUME NEW cpu \in Cpu PROVE p[cpu + 1] = PrintBit(s, p[cpu], cpu)
  <2> DEFINE k == cpu + 1
  <2>1. k \in 0 .. last /\ k # 0 /\ k - 1 = cpu
    BY Sizes DEF Cpu
  <2> HIDE DEF k
  <2>2. p[k] = PrintBit(s, p[k - 1], k - 1)
    BY <1>5, <2>1
  <2>3. p[k] = PrintBit(s, p[cpu], cpu)
    BY <2>1, <2>2
  <2> QED
    BY <2>3 DEF k
<1>8. \A n \in 0 .. last : n \in {k \in 0 .. last : p[k] \in Printer}
  <2> DEFINE kept == {k \in 0 .. last : p[k] \in Printer}
  <2>1. 0 \in kept
    BY <1>1, <1>6, NothingPrinted
  <2>2. ASSUME NEW n \in 0 .. last - 1, n \in kept PROVE n + 1 \in kept
    <3>1. n \in Cpu /\ n + 1 \in 0 .. last
      BY <1>1 DEF Cpu
    <3> QED
      BY <1>7, <2>2, <3>1, PrintedBit
  <2> HIDE DEF kept
  <2>3. \A n \in 0 .. last : n \in kept
    BY <1>1, <2>1, <2>2, Rounds
  <2> QED
    BY <2>3 DEF kept
<1>9. p \in [0 .. last -> Printer]
    BY <1>5, <1>8
<1> QED
    BY <1>6, <1>7, <1>9 DEF p

(* A CPU set is shown, CPU by CPU.                                         *)
LEMMA PrintedShown ==
    ASSUME NEW s \in CpuSet, NEW n \in 0 .. CPU_SETSIZE
    PROVE  \A c \in Nat : Shown(Printed(s)[n], c) <=> c < n /\ is_set(s, c)
<1> DEFINE p == Printed(s)
           kept == {k \in 0 .. CPU_SETSIZE :
                       \A c \in Nat : Shown(p[k], c) <=> c < k /\ is_set(s, c)}
<1>1. /\ p \in [0 .. CPU_SETSIZE -> Printer] /\ p[0] = Nothing
      /\ \A cpu \in Cpu : p[cpu + 1] = PrintBit(s, p[cpu], cpu)
    BY PrintedRounds
<1> HIDE DEF p
<1>2. 0 \in kept
    BY <1>1, NothingPrinted, Sizes
<1>3. ASSUME NEW k \in 0 .. CPU_SETSIZE - 1, k \in kept PROVE k + 1 \in kept
  <2>1. k \in Cpu /\ k \in 0 .. CPU_SETSIZE /\ k + 1 \in 0 .. CPU_SETSIZE /\ k \in Nat
    BY Sizes DEF Cpu
  <2>2. p[k] \in Printer /\ p[k + 1] = PrintBit(s, p[k], k)
    BY <1>1, <2>1
  <2>3. ASSUME NEW c \in Nat PROVE Shown(p[k + 1], c) <=> c < k + 1 /\ is_set(s, c)
    <3>1. Shown(p[k + 1], c) <=> Shown(p[k], c) \/ (c = k /\ is_set(s, k))
      BY <2>1, <2>2, PrintedBit
    <3>2. Shown(p[k], c) <=> c < k /\ is_set(s, c)
      BY <1>3
    <3>3. c < k + 1 <=> c < k \/ c = k
      BY <2>1
    <3> QED
      BY <3>1, <3>2, <3>3
  <2> QED
    BY <2>1, <2>3
<1>4. n \in kept
  <2> HIDE DEF kept
  <2> QED
    BY <1>2, <1>3, Sizes, Rounds
<1> QED
    BY <1>4 DEF p

(* The same for a list.                                                    *)
LEMMA ListedRounds ==
    ASSUME NEW cs \in Seq(Nat)
    PROVE  /\ Listed(cs) \in [0 .. Len(cs) -> Printer] /\ Listed(cs)[0] = Nothing
           /\ \A n \in 1 .. Len(cs) : Listed(cs)[n] = PrintCpu(Listed(cs)[n - 1], cs[n])
<1> DEFINE last == Len(cs)
           step == [k \in 1 .. last |-> [p \in Printer |-> PrintCpu(p, cs[k])]]
           Runs(f) == f = [k \in 0 .. last |->
                              IF k = 0 THEN Nothing ELSE PrintCpu(f[k - 1], cs[k])]
<1>1. last \in Nat /\ \A k \in 1 .. last : cs[k] \in Nat
    OBVIOUS
<1>2. step \in [1 .. last -> [Printer -> Printer]]
    BY <1>1, PrintedCpu
<1>3. \E f : Runs(f)
  <2> HIDE DEF last, step
  <2>1. PICK f \in [0 .. last -> Printer] :
            f[0] = Nothing /\ \A k \in 1 .. last : f[k] = step[k][f[k - 1]]
    <3>1. PICK f \in [0 .. last -> Printer] : Unrolls(f, last, Nothing, step)
      BY <1>1, <1>2, NothingPrinted, Unrolled
    <3> QED
      BY <3>1, Zenon DEF Unrolls
  <2>2. ASSUME NEW k \in 1 .. last PROVE f[k] = PrintCpu(f[k - 1], cs[k])
    <3>1. k - 1 \in 0 .. last
      BY <1>1
    <3>2. f[k - 1] \in Printer /\ f[k] = step[k][f[k - 1]]
      BY <2>1, <3>1
    <3> QED
      BY <3>2 DEF step
  <2>3. \A k \in 0 .. last : k = 0 \/ k \in 1 .. last
    BY <1>1
  <2>4. Runs(f)
    BY <2>1, <2>2, <2>3
  <2> QED
    BY <2>4
<1>4. Listed(cs) = CHOOSE f : Runs(f)
    BY DEF Listed
<1> DEFINE p == Listed(cs)
<1>5. p = [k \in 0 .. last |-> IF k = 0 THEN Nothing ELSE PrintCpu(p[k - 1], cs[k])]
    BY <1>3, <1>4
<1> HIDE DEF p
<1>6. p[0] = Nothing
    BY <1>1, <1>5
<1>7. ASSUME NEW n \in 1 .. last PROVE p[n] = PrintCpu(p[n - 1], cs[n])
  <2>1. n \in 0 .. last /\ n # 0
    BY <1>1
  <2>2. p[n] = IF n = 0 THEN Nothing ELSE PrintCpu(p[n - 1], cs[n])
    BY <1>5, <2>1, Zenon
  <2> QED
    BY <2>1, <2>2, Zenon
<1>8. \A n \in 0 .. last : n \in {k \in 0 .. last : p[k] \in Printer}
  <2> DEFINE kept == {k \in 0 .. last : p[k] \in Printer}
  <2>1. 0 \in kept
    BY <1>1, <1>6, NothingPrinted
  <2>2. ASSUME NEW n \in 0 .. last - 1, n \in kept PROVE n + 1 \in kept
    <3> DEFINE k == n + 1
    <3>1. k \in 1 .. last /\ k \in 0 .. last /\ k - 1 = n
      BY <1>1
    <3> HIDE DEF k
    <3>2. p[k] \in Printer
      <4>1. p[k] = PrintCpu(p[n], cs[k])
        BY <1>7, <3>1, Zenon
      <4>2. p[n] \in Printer /\ cs[k] \in Nat
        BY <2>2, <3>1
      <4> QED
        BY <4>1, <4>2, PrintedCpu
    <3> QED
      BY <3>1, <3>2 DEF k
  <2> HIDE DEF kept
  <2>3. \A n \in 0 .. last : n \in kept
    BY <1>1, <2>1, <2>2, Rounds
  <2> QED
    BY <2>3 DEF kept
<1>9. p \in [0 .. last -> Printer]
    BY <1>5, <1>8
<1> QED
    BY <1>6, <1>7, <1>9 DEF p

(* After n CPUs of the list, those are the CPUs that are shown.            *)
LEMMA ListedShown ==
    ASSUME NEW cs \in Seq(Nat), NEW n \in 0 .. Len(cs)
    PROVE  \A c \in Nat : Shown(Listed(cs)[n], c) <=> \E i \in 1 .. n : cs[i] = c
<1> DEFINE p == Listed(cs)
           kept == {k \in 0 .. Len(cs) :
                       \A c \in Nat : Shown(p[k], c) <=> \E i \in 1 .. k : cs[i] = c}
<1>1. /\ p \in [0 .. Len(cs) -> Printer] /\ p[0] = Nothing /\ Len(cs) \in Nat
      /\ \A k \in 1 .. Len(cs) : p[k] = PrintCpu(p[k - 1], cs[k])
    BY ListedRounds
<1> HIDE DEF p
<1>2. 0 \in kept
    BY <1>1, NothingPrinted
<1>3. ASSUME NEW m \in 0 .. Len(cs) - 1, m \in kept PROVE m + 1 \in kept
  <2> DEFINE k == m + 1
  <2>1. /\ k \in 1 .. Len(cs) /\ k \in 0 .. Len(cs) /\ k - 1 = m /\ m \in 0 .. Len(cs)
        /\ \A i \in 1 .. k : i \in 1 .. m \/ i = k
        /\ \A i \in 1 .. m : i \in 1 .. k
        /\ k \in 1 .. k
    BY <1>1
  <2> HIDE DEF k
  <2>2. p[m] \in Printer /\ cs[k] \in Nat /\ p[k] = PrintCpu(p[m], cs[k])
    <3>1. p[m] \in Printer
      BY <1>1, <2>1, Zenon
    <3>2. cs[k] \in Nat
      BY <2>1, ElementOfSeq
    <3>3. p[k] = PrintCpu(p[k - 1], cs[k])
      BY <1>1, <2>1, Zenon
    <3> QED
      BY <2>1, <3>1, <3>2, <3>3
  <2>3. ASSUME NEW c \in Nat PROVE Shown(p[k], c) <=> \E i \in 1 .. k : cs[i] = c
    <3>1. Shown(p[k], c) <=> Shown(p[m], c) \/ c = cs[k]
      <4>1. Shown(PrintCpu(p[m], cs[k]), c) <=> Shown(p[m], c) \/ c = cs[k]
        BY <2>2, PrintedCpu
      <4> QED
        BY <2>2, <4>1
    <3>2. Shown(p[m], c) <=> \E i \in 1 .. m : cs[i] = c
      BY <1>3
    <3> QED
      BY <2>1, <3>1, <3>2
  <2> QED
    BY <2>1, <2>3 DEF k
<1>4. n \in kept
  <2> HIDE DEF kept
  <2> QED
    BY <1>1, <1>2, <1>3, Rounds
<1> QED
    BY <1>4 DEF p

(* What was shown is what is parsed.                                       *)
LEMMA ParsedParts ==
    ASSUME NEW p \in Printer
    PROVE  from_range(push_range(p).parts) = set(new, {cpu \in Cpu : Shown(p, cpu)})
<1> DEFINE parts == push_range(p).parts
           cs == UNION {CpusOfPart(parts[i]) : i \in DOMAIN parts}
<1>1. /\ push_range(p) \in Printer /\ push_range(p).open = <<>>
      /\ \A cpu \in Nat : Shown(push_range(p), cpu) <=> Shown(p, cpu)
    BY PushedShown
<1>2. parts \in Seq(Seq(Nat)) /\ DOMAIN parts = 1 .. Len(parts)
        /\ \A i \in 1 .. Len(parts) : IsPart(parts[i])
    BY <1>1 DEF Printer
<1>3. \A cpu \in Nat : Shown(p, cpu) <=> \E i \in 1 .. Len(parts) : Within(parts[i], cpu)
    BY <1>1 DEF Shown
<1> HIDE DEF parts
<1>4. ASSUME NEW i \in 1 .. Len(parts)
      PROVE  CpusOfPart(parts[i]) = {cpu \in Cpu : Within(parts[i], cpu)}
  <2> DEFINE part == parts[i]
  <2>1. part \in Seq(Nat) /\ (Len(part) = 1 \/ (Len(part) = 2 /\ part[1] < part[2]))
    BY <1>2 DEF IsPart
  <2> HIDE DEF part
  <2>2. CASE Len(part) = 1
    <3>1. part[1] \in Nat /\ part[1] # Bad
      BY <2>1, <2>2 DEF Bad
    <3>2. CpusOfPart(part) = {cpu \in Cpu : cpu \in part[1] .. part[1]}
      BY <2>2, <3>1 DEF CpusOfPart, Cpu
    <3>3. CpusOfPart(part) = {cpu \in Cpu : Within(part, cpu)}
      BY <2>2, <3>1, <3>2, Sizes DEF Within, Cpu
    <3> QED
      BY <3>3 DEF part
  <2>3. CASE Len(part) = 2 /\ part[1] < part[2]
    <3>1. part[1] \in Nat /\ part[1] # Bad /\ part[2] \in Nat /\ part[2] # Bad
      <4>1. part[1] \in Nat /\ part[2] \in Nat
        BY <2>1, <2>3
      <4> QED
        BY <4>1 DEF Bad
    <3>2. CpusOfPart(part) = {cpu \in Cpu : cpu \in part[1] .. part[2] \/ cpu \in part[2] .. part[1]}
      BY <2>3, <3>1 DEF CpusOfPart, Cpu
    <3>3. CpusOfPart(part) = {cpu \in Cpu : Within(part, cpu)}
      BY <2>3, <3>1, <3>2, Sizes DEF Within, Cpu
    <3> QED
      BY <3>3 DEF part
  <2> QED
    BY <2>1, <2>2, <2>3
<1>5. cs = {cpu \in Cpu : Shown(p, cpu)}
  <2>1. Cpu \subseteq Nat
    BY Sizes DEF Cpu
  <2>2. \A cpu : cpu \in cs <=> \E i \in 1 .. Len(parts) : cpu \in Cpu /\ Within(parts[i], cpu)
    BY <1>2, <1>4
  <2> HIDE DEF cs
  <2> QED
    BY <1>3, <2>1, <2>2
<1>6. from_range(parts) = set(new, cs)
  <2>1. {cpu \in cs : \A present \in {} : is_set(present, cpu)} = cs
    OBVIOUS
  <2> QED
    BY <2>1 DEF from_range, parse_cpu_ranges
<1> QED
    BY <1>5, <1>6 DEF parts

(* CPUs that have no bit make no difference.                               *)
LEMMA SetOfCpus ==
    ASSUME NEW cs, NEW ds, cs \cap Cpu = ds \cap Cpu
    PROVE  set(new, cs) = set(new, ds)
<1>1. \A w \in 0 .. CPU_WORDS - 1, bit \in 0 .. CPU_WORD_BITS - 1 :
          w * CPU_WORD_BITS + bit \in cs <=> w * CPU_WORD_BITS + bit \in ds
    BY CpuOfBit
<1>2. \A w \in 0 .. CPU_WORDS - 1 :
          {bit \in 0 .. CPU_WORD_BITS - 1 : w * CPU_WORD_BITS + bit \in cs}
              = {bit \in 0 .. CPU_WORD_BITS - 1 : w * CPU_WORD_BITS + bit \in ds}
    BY <1>1
<1> QED
    BY <1>2 DEF set

(* The printed list of a CPU set means that set.                           *)
LEMMA SetRoundTrip ==
    ASSUME NEW s \in CpuSet
    PROVE  from_range(to_range_string(s)) = s
<1> DEFINE p == Printed(s)[CPU_SETSIZE]
<1>1. CPU_SETSIZE \in 0 .. CPU_SETSIZE /\ \A cpu \in Cpu : cpu \in Nat /\ cpu < CPU_SETSIZE
    BY Sizes DEF Cpu
<1>2. p \in Printer /\ \A cpu \in Cpu : Shown(p, cpu) <=> is_set(s, cpu)
    BY <1>1, PrintedRounds, PrintedShown
<1>3. to_range_string(s) = push_range(p).parts
    BY DEF to_range_string
<1> HIDE DEF p
<1>4. {cpu \in Cpu : Shown(p, cpu)} = {cpu \in Cpu : is_set(s, cpu)}
    BY <1>2
<1> QED
    BY <1>2, <1>3, <1>4, ParsedParts, SetOfItsBits

(* fmt_cpus of a list means the CPUs in it, in whichever order they are.   *)
LEMMA ListMeansItsCpus ==
    ASSUME NEW cs \in Seq(Nat), cs # <<>>
    PROVE  from_range(fmt_cpus(cs)) = set(new, ToSet(cs))
<1> DEFINE p == Listed(cs)[Len(cs)]
<1>1. Len(cs) \in 0 .. Len(cs) /\ Len(cs) \in Nat /\ Cpu \subseteq Nat
    BY Sizes DEF Cpu
<1>2. p \in Printer /\ \A c \in Nat : Shown(p, c) <=> \E i \in 1 .. Len(cs) : cs[i] = c
    BY <1>1, ListedRounds, ListedShown
<1>3. fmt_cpus(cs) = push_range(p).parts
    BY DEF fmt_cpus
<1> HIDE DEF p
<1>4. {cpu \in Cpu : Shown(p, cpu)} \cap Cpu = ToSet(cs) \cap Cpu
  <2>1. \A c : c \in ToSet(cs) <=> \E i \in 1 .. Len(cs) : cs[i] = c
    BY <1>1 DEF ToSet
  <2>2. \A c \in Cpu : Shown(p, c) <=> c \in ToSet(cs)
    BY <1>1, <1>2, <2>1
  <2> QED
    BY <2>2
<1> QED
    BY <1>2, <1>3, <1>4, ParsedParts, SetOfCpus

(* The parts printed of the CPUs below n are ascending, with gaps, and so  *)
(* is what is still open.                                                  *)
LastOfPart(part) == part[Len(part)]

Gaps(p, n) ==
    /\ \A i \in 1 .. Len(p.parts) - 1 : LastOfPart(p.parts[i]) + 1 < p.parts[i + 1][1]
    /\ \A i \in 1 .. Len(p.parts) : i = Len(p.parts) =>
          LastOfPart(p.parts[i]) + 1 < IF p.open = <<>> THEN n ELSE p.open[1]
    /\ p.open # <<>> => p.open[2] < n

(* The ends of a part are numbers, in their order.                         *)
LEMMA PartEnds ==
    ASSUME NEW p \in Printer
    PROVE  /\ p.parts \in Seq(Seq(Nat)) /\ Len(p.parts) \in Nat
           /\ \A i \in 1 .. Len(p.parts) : p.parts[i][1] \in Nat /\ LastOfPart(p.parts[i]) \in Nat
           /\ p.open # <<>> => p.open[1] \in Nat /\ p.open[2] \in Nat
<1>1. /\ p.parts \in Seq(Seq(Nat)) /\ Len(p.parts) \in Nat
      /\ p.open # <<>> => p.open[1] \in Nat /\ p.open[2] \in Nat
    BY DEF Printer
<1>2. ASSUME NEW i \in 1 .. Len(p.parts)
      PROVE  p.parts[i][1] \in Nat /\ LastOfPart(p.parts[i]) \in Nat
  <2> DEFINE part == p.parts[i]
  <2>1. IsPart(part)
    <3>1. \A k \in 1 .. Len(p.parts) : IsPart(p.parts[k])
      BY Zenon DEF Printer
    <3> QED
      BY <1>2, <3>1, Zenon
  <2> HIDE DEF part
  <2>2. part \in Seq(Nat) /\ (Len(part) = 1 \/ Len(part) = 2)
    BY <2>1 DEF IsPart
  <2>3. 1 \in 1 .. Len(part) /\ Len(part) \in 1 .. Len(part)
    <3>1. Len(part) = 1 \/ Len(part) = 2
      BY <2>2, Zenon
    <3> QED
      BY <3>1
  <2>4. \A k \in 1 .. Len(part) : part[k] \in Nat
    BY <2>2
  <2>5. part[1] \in Nat /\ part[Len(part)] \in Nat
    BY <2>3, <2>4, Zenon
  <2> QED
    BY <2>5 DEF part, LastOfPart
<1> QED
    BY <1>1, <1>2

(* Closing a range keeps the gaps,                                         *)
LEMMA PushedGaps ==
    ASSUME NEW p \in Printer, NEW n \in Nat, Gaps(p, n)
    PROVE  /\ Gaps(push_range(p), n + 1)
           /\ (p.open # <<>> => n # p.open[2] + 1) => Gaps(push_range(p), n)
<1> DEFINE len == Len(p.parts)
<1>1. /\ len \in Nat
      /\ \A i \in 1 .. len : p.parts[i][1] \in Nat /\ LastOfPart(p.parts[i]) \in Nat
      /\ p.open # <<>> => p.open[1] \in Nat /\ p.open[2] \in Nat
    BY PartEnds
<1>2. CASE p.open = <<>>
  <2>1. push_range(p) = p
    BY <1>2 DEF push_range
  <2>2. Gaps(p, n + 1)
    BY <1>1, <1>2 DEF Gaps
  <2> QED
    BY <2>1, <2>2
<1>3. CASE p.open # <<>>
  <2> DEFINE q == push_range(p)
  <2>1. /\ q.open = <<>> /\ Len(q.parts) = len + 1
        /\ \A i \in 1 .. len : q.parts[i] = p.parts[i]
        /\ q.parts[len + 1][1] = p.open[1] /\ LastOfPart(q.parts[len + 1]) = p.open[2]
    BY <1>3, Pushed DEF LastOfPart
  <2> HIDE DEF q, len
  <2>2. /\ \A i \in 1 .. len - 1 : LastOfPart(p.parts[i]) + 1 < p.parts[i + 1][1]
        /\ \A i \in 1 .. len : i = len => LastOfPart(p.parts[i]) + 1 < p.open[1]
        /\ p.open[2] < n
    BY <1>3 DEF Gaps, len
  <2>3. ASSUME NEW i \in 1 .. len PROVE LastOfPart(q.parts[i]) + 1 < q.parts[i + 1][1]
    <3>1. q.parts[i] = p.parts[i]
      BY <2>1
    <3>2. CASE i = len
      BY <2>1, <2>2, <3>1, <3>2
    <3>3. CASE i # len
      <4>1. i \in 1 .. len - 1 /\ i + 1 \in 1 .. len
        BY <1>1, <3>3
      <4>2. q.parts[i + 1] = p.parts[i + 1]
        BY <2>1, <4>1
      <4> QED
        BY <2>2, <3>1, <4>1, <4>2
    <3> QED
      BY <3>2, <3>3
  <2>4. ASSUME NEW m \in Nat, p.open[2] + 1 < m PROVE Gaps(q, m)
    <3>1. \A i \in 1 .. Len(q.parts) : i = Len(q.parts) => LastOfPart(q.parts[i]) + 1 < m
      BY <2>1, <2>4
    <3>2. \A i \in 1 .. Len(q.parts) - 1 : LastOfPart(q.parts[i]) + 1 < q.parts[i + 1][1]
      BY <1>1, <2>1, <2>3
    <3> QED
      BY <2>1, <3>1, <3>2 DEF Gaps
  <2>5. p.open[2] + 1 < n + 1 /\ n + 1 \in Nat
    BY <1>1, <1>3, <2>2
  <2>6. n # p.open[2] + 1 => p.open[2] + 1 < n
    BY <1>1, <1>3, <2>2
  <2> QED
    BY <1>3, <2>4, <2>5, <2>6 DEF q
<1> QED
    BY <1>2, <1>3

(* and so does the next bit.                                               *)
LEMMA PrintedBitGaps ==
    ASSUME NEW s \in CpuSet, NEW p \in Printer, NEW cpu \in Cpu, Gaps(p, cpu)
    PROVE  Gaps(PrintBit(s, p, cpu), cpu + 1)
<1>1. cpu \in Nat /\ cpu + 1 \in Nat /\ cpu < cpu + 1
    BY Sizes DEF Cpu
<1>2. /\ Len(p.parts) \in Nat
      /\ \A i \in 1 .. Len(p.parts) : p.parts[i][1] \in Nat /\ LastOfPart(p.parts[i]) \in Nat
      /\ p.open # <<>> => p.open[1] \in Nat /\ p.open[2] \in Nat
    BY PartEnds
<1>3. Gaps(push_range(p), cpu + 1)
    BY <1>1, PushedGaps
<1>4. Gaps(p, cpu + 1)
    BY <1>1, <1>2 DEF Gaps
<1>5. Gaps(PrintCpu(p, cpu), cpu + 1)
  <2> DEFINE r == PrintCpu(p, cpu)
  <2>1. CASE p.open # <<>> /\ cpu = p.open[2] + 1
    <3>1. r = [parts |-> p.parts, open |-> <<p.open[1], cpu>>]
      BY <2>1 DEF PrintCpu, Printer
    <3>2. r.parts = p.parts /\ r.open # <<>> /\ r.open[1] = p.open[1] /\ r.open[2] = cpu
      BY <3>1
    <3> HIDE DEF r
    <3>3. Gaps(r, cpu + 1)
      BY <1>1, <2>1, <3>2 DEF Gaps
    <3> QED
      BY <3>3 DEF r
  <2>2. CASE ~ (p.open # <<>> /\ cpu = p.open[2] + 1)
    <3> DEFINE q == push_range(p)
    <3>1. q \in Printer /\ q.open = <<>>
      BY PushedShown
    <3>2. r = [parts |-> q.parts, open |-> <<cpu, cpu>>]
      BY <2>2, <3>1 DEF PrintCpu, Printer
    <3>3. r.parts = q.parts /\ r.open # <<>> /\ r.open[1] = cpu /\ r.open[2] = cpu
      BY <3>2
    <3>4. Gaps(q, cpu)
      BY <1>1, <2>2, PushedGaps
    <3> HIDE DEF r, q
    <3>5. Gaps(r, cpu + 1)
      BY <1>1, <3>1, <3>3, <3>4 DEF Gaps
    <3> QED
      BY <3>5 DEF r
  <2> QED
    BY <2>1, <2>2
<1>6. PrintBit(s, p, cpu) \in {push_range(p), PrintCpu(p, cpu), p}
    BY Zenon DEF PrintBit
<1> QED
    BY <1>3, <1>4, <1>5, <1>6

(* The list of a CPU set is ascending, with gaps.                          *)
Canonical(parts) ==
    /\ \A i \in DOMAIN parts : Len(parts[i]) = 2 => parts[i][1] < parts[i][2]
    /\ \A i \in 1 .. Len(parts) - 1 : parts[i][Len(parts[i])] + 1 < parts[i + 1][1]

(* The list of a CPU set is in its one form.                               *)
LEMMA SetCanonical ==
    ASSUME NEW s \in CpuSet
    PROVE  Canonical(to_range_string(s))
<1> DEFINE p == Printed(s)
           last == CPU_SETSIZE
           kept == {n \in 0 .. last : Gaps(p[n], n)}
<1>1. /\ last \in Nat /\ p \in [0 .. last -> Printer] /\ p[0] = Nothing
      /\ \A cpu \in Cpu : p[cpu + 1] = PrintBit(s, p[cpu], cpu)
    BY PrintedRounds, Sizes
<1> HIDE DEF p, last
<1>2. 0 \in kept
  <2>1. Gaps(Nothing, 0)
    BY DEF Nothing, Gaps
  <2> QED
    BY <1>1, <2>1
<1>3. ASSUME NEW n \in 0 .. last - 1, n \in kept PROVE n + 1 \in kept
  <2>1. n \in Cpu /\ n \in 0 .. last /\ n + 1 \in 0 .. last
    BY <1>1 DEF Cpu, last
  <2>2. p[n] \in Printer /\ p[n + 1] = PrintBit(s, p[n], n)
    BY <1>1, <2>1
  <2>3. Gaps(PrintBit(s, p[n], n), n + 1)
    BY <1>3, <2>1, <2>2, PrintedBitGaps
  <2> QED
    BY <2>1, <2>2, <2>3
<1>4. last \in kept
  <2> HIDE DEF kept
  <2>1. last \in 0 .. last
    BY <1>1
  <2> QED
    BY <1>1, <1>2, <1>3, <2>1, Rounds
<1> DEFINE q == push_range(p[last])
<1>5. p[last] \in Printer
    BY <1>1
<1>6. q \in Printer /\ Gaps(q, last + 1)
    BY <1>1, <1>4, <1>5, PushedShown, PushedGaps
<1>7. to_range_string(s) = q.parts
    BY DEF to_range_string, p, last
<1> HIDE DEF q
<1>8. /\ q.parts \in Seq(Seq(Nat)) /\ \A i \in 1 .. Len(q.parts) : IsPart(q.parts[i])
      /\ \A i \in 1 .. Len(q.parts) - 1 :
            q.parts[i][Len(q.parts[i])] + 1 < q.parts[i + 1][1]
    BY <1>6 DEF Printer, Gaps, LastOfPart
<1>9. \A i \in 1 .. Len(q.parts) : Len(q.parts[i]) = 2 => q.parts[i][1] < q.parts[i][2]
    BY <1>8 DEF IsPart
<1>10. DOMAIN q.parts = 1 .. Len(q.parts)
    BY <1>8
<1> QED
    BY <1>7, <1>8, <1>9, <1>10 DEF Canonical

-----------------------------------------------------------------------------
(* The run's properties of lists.                                          *)

(* The CPUs of the run are numbers.                                        *)
CpusOK == cpus \in Seq(Nat)

LEMMA CpusInductive == Spec => []CpusOK
<1>1. ASSUME Init PROVE CpusOK
    BY <1>1 DEF Init, CpusOK
<1>2. ASSUME CpusOK, [Next]_vars PROVE CpusOK'
  <2>1. CASE NextCpus
    <3>1. PICK cpu \in Cpu : cpus' = Append(cpus, cpu)
      BY <2>1 DEF NextCpus, Cpu
    <3>2. cpu \in Nat /\ cpus \in Seq(Nat)
      BY <1>2, Sizes DEF Cpu, CpusOK
    <3> QED
      BY <3>1, <3>2, AppendProperties DEF CpusOK
  <2>2. CASE NextComm \/ NextPattern \/ NextPolicies \/ UNCHANGED vars
    BY <1>2, <2>2 DEF NextComm, NextPattern, NextPolicies, vars, CpusOK
  <2> QED
    BY <1>2, <2>1, <2>2 DEF Next
<1> QED
    BY <1>1, <1>2, PTL DEF Spec

(* A list that to_range_string (cpuset.rs:55) or fmt_cpus (cpu.rs:76)      *)
(* prints means its CPUs when parse_cpu_ranges (cpuset.rs:137) reads it,   *)
(* for CPU sets and lists of every size.                                   *)
THEOREM ListsRoundTrip == Spec => []ListRoundTrip
<1>1. CpusOK => ListRoundTrip
    BY SetBits, SetRoundTrip, ListMeansItsCpus DEF CpusOK, ListRoundTrip
<1> QED
    BY <1>1, CpusInductive, PTL

(* A CPU set has one list (cpuset.rs:55), and so one cpuset directory, for *)
(* CPU sets of every size and with words of every width.                   *)
THEOREM ListsAreCanonical == Spec => []ListCanonical
<1>1. CpusOK => ListCanonical
  <2> DEFINE parts == to_range_string(set(new, ToSet(cpus)))
  <2>1. Canonical(parts)
    BY SetBits, SetCanonical
  <2> QED
    BY <2>1, Zenon DEF Canonical, ListCanonical
<1> QED
    BY <1>1, CpusInductive, PTL

-----------------------------------------------------------------------------
(* Ranks.                                                                  *)

(* FiniteSetTheorems counts as FiniteSets does.                            *)
LEMMA SameCardinality ==
    ASSUME NEW S
    PROVE  Cardinality(S) = Fs!Cardinality(S)
BY DEF Cardinality, Fs!Cardinality, IsFiniteSet, Fs!IsFiniteSet

(* The elements of S that come before x in R. *)
Before(S, R, x) == {y \in S : <<y, x>> \in R}

(* R orders S strictly, and any two elements of it.                        *)
Ordered(S, R) ==
    /\ \A x \in S : <<x, x>> \notin R
    /\ \A x, y, z \in S : <<x, y>> \in R /\ <<y, z>> \in R => <<x, z>> \in R
    /\ \A x, y \in S : x = y \/ <<x, y>> \in R \/ <<y, x>> \in R

(* An element of a finite set that is ordered has a rank of its own, and   *)
(* each rank has an element.                                               *)
Ranked(S, R, n) ==
    /\ \A x \in S : Cardinality(Before(S, R, x)) \in 0 .. n - 1
    /\ \A x, y \in S : <<x, y>> \in R =>
          Cardinality(Before(S, R, x)) < Cardinality(Before(S, R, y))
    /\ \A x, y \in S : Cardinality(Before(S, R, x)) = Cardinality(Before(S, R, y)) => x = y
    /\ \A m \in 1 .. n : \E x \in S : Cardinality(Before(S, R, x)) = m - 1

LEMMA Ranks ==
    ASSUME NEW S, Fs!IsFiniteSet(S), NEW R, Ordered(S, R)
    PROVE  Cardinality(S) \in Nat /\ Ranked(S, R, Cardinality(S))
<1> DEFINE n == Fs!Cardinality(S)
           rank == [x \in S |-> Fs!Cardinality(Before(S, R, x))]
<1> USE DEF Ordered
<1>1. n \in Nat
    BY Fs!FS_CardinalityType
<1>2. ASSUME NEW x \in S, NEW T \in SUBSET S, Before(S, R, x) \subseteq T, x \in T
      PROVE  rank[x] \in Nat /\ Fs!Cardinality(T) \in Nat /\ rank[x] < Fs!Cardinality(T)
  <2> DEFINE B == Before(S, R, x)
  <2>1. Fs!IsFiniteSet(T) /\ B \subseteq T /\ x \notin B
    BY <1>2, Fs!FS_Subset DEF Before
  <2> HIDE DEF B
  <2>2. /\ Fs!IsFiniteSet(B) /\ Fs!Cardinality(B) <= Fs!Cardinality(T)
        /\ Fs!Cardinality(T) = Fs!Cardinality(B) => T = B
    BY <2>1, Fs!FS_Subset
  <2>3. Fs!Cardinality(B) \in Nat /\ Fs!Cardinality(T) \in Nat
    BY <2>1, <2>2, Fs!FS_CardinalityType
  <2>4. Fs!Cardinality(B) < Fs!Cardinality(T)
    BY <1>2, <2>1, <2>2, <2>3
  <2>5. rank[x] = Fs!Cardinality(B)
    BY DEF B
  <2> QED
    BY <2>3, <2>4, <2>5
<1>3. \A x \in S : rank[x] \in 0 .. n - 1
  <2> SUFFICES ASSUME NEW x \in S PROVE rank[x] \in 0 .. n - 1
    OBVIOUS
  <2> HIDE DEF rank
  <2>1. rank[x] \in Nat /\ rank[x] < n
    BY <1>2 DEF Before
  <2> QED
    BY <1>1, <2>1
<1>4. ASSUME NEW x \in S, NEW y \in S, <<x, y>> \in R PROVE rank[x] < rank[y]
  <2> DEFINE T == Before(S, R, y)
  <2>1. T \in SUBSET S /\ Before(S, R, x) \subseteq T /\ x \in T
    BY <1>4 DEF Before
  <2>2. rank[y] = Fs!Cardinality(T)
    OBVIOUS
  <2> HIDE DEF rank, T
  <2> QED
    BY <1>2, <2>1, <2>2
<1> HIDE DEF rank, n
<1>5. ASSUME NEW x \in S, NEW y \in S, rank[x] = rank[y] PROVE x = y
  <2>1. rank[x] \in Nat /\ ~ (rank[x] < rank[x])
    BY <1>1, <1>3
  <2>2. <<x, y>> \notin R /\ <<y, x>> \notin R
    BY <1>4, <1>5, <2>1
  <2> QED
    BY <2>2
<1>6. ASSUME NEW m \in 1 .. n PROVE \E x \in S : rank[x] = m - 1
  <2> DEFINE T == 0 .. n - 1
  <2>1. Fs!IsFiniteSet(T) /\ Fs!Cardinality(T) = n
    BY <1>1, Fs!FS_Interval
  <2>2. rank \in [S -> T]
    BY <1>3 DEF rank
  <2>3. rank \in Fs!Injection(S, T)
    BY <1>5, <2>2 DEF Fs!Injection, Fs!IsInjective
  <2> HIDE DEF T
  <2>4. rank \in Fs!Surjection(S, T)
    BY <2>1, <2>3, Fs!FS_Injection DEF n
  <2>5. m - 1 \in T
    BY <1>1 DEF T
  <2> QED
    BY <2>4, <2>5 DEF Fs!Surjection
<1>7. n = Cardinality(S) /\ \A x \in S : rank[x] = Cardinality(Before(S, R, x))
    BY SameCardinality DEF n, rank
<1> QED
    BY <1>1, <1>3, <1>4, <1>5, <1>6, <1>7 DEF Ranked

(* Ascending has all of a set, and nothing else.                           *)
LEMMA AscendingLists ==
    ASSUME NEW S \in SUBSET Nat, Fs!IsFiniteSet(S)
    PROVE  Ascending(S) \in Seq(Nat) /\ ToSet(Ascending(S)) = S
<1> DEFINE R == {p \in S \X S : p[1] < p[2]}
           n == Cardinality(S)
           rank(x) == Cardinality({y \in S : y < x})
<1>1. \A x, y \in S : <<x, y>> \in R <=> x < y
    OBVIOUS
<1>2. \A x \in S : Before(S, R, x) = {y \in S : y < x}
    BY <1>1 DEF Before
<1>3. Ordered(S, R)
    BY <1>1 DEF Ordered
<1> HIDE DEF R
<1>4. /\ n \in Nat
      /\ \A x \in S : rank(x) \in 0 .. n - 1
      /\ \A x, y \in S : rank(x) = rank(y) => x = y
      /\ \A m \in 1 .. n : \E x \in S : rank(x) = m - 1
  <2>1. n \in Nat /\ Ranked(S, R, n)
    BY <1>3, Ranks
  <2>2. \A x \in S : Cardinality(Before(S, R, x)) = rank(x)
    BY <1>2
  <2> HIDE DEF n, rank
  <2> QED
    BY <2>1, <2>2 DEF Ranked
<1> DEFINE at == [m \in 1 .. n |-> CHOOSE x \in S : rank(x) = m - 1]
<1>5. Ascending(S) = at
    BY DEF Ascending
<1> HIDE DEF n, rank
<1>6. \A m \in 1 .. n : at[m] \in S /\ rank(at[m]) = m - 1
    BY <1>4
<1>7. at \in [1 .. n -> S]
    BY <1>6
<1> HIDE DEF at
<1>8. ASSUME NEW x \in S PROVE \E m \in 1 .. n : at[m] = x
  <2> DEFINE m == rank(x) + 1
  <2>1. m \in 1 .. n /\ m - 1 = rank(x)
    BY <1>4
  <2> HIDE DEF m
  <2>2. at[m] \in S /\ rank(at[m]) = rank(x)
    BY <1>6, <2>1
  <2> QED
    BY <1>4, <2>1, <2>2
<1>9. at \in Seq(Nat)
  <2>1. at \in [1 .. n -> Nat]
    BY <1>7
  <2> QED
    BY <1>4, <2>1, SeqDef
<1>10. ToSet(at) = S
    BY <1>7, <1>8 DEF ToSet
<1> QED
    BY <1>5, <1>9, <1>10

(* detect and detect_core_types sort the clusters: each is one of those    *)
(* there were, none is there twice and none is missing.                    *)
Cluster == [freq : Int, cpus : Seq(Nat)]

(* at is where in cls the clusters of sorted were.                         *)
SortedBy(cls, sorted, at) ==
    /\ at \in [1 .. Len(cls) -> 1 .. Len(cls)]
    /\ \A i, k \in 1 .. Len(cls) : at[i] = at[k] => i = k
    /\ \A i \in 1 .. Len(cls) : \E k \in 1 .. Len(cls) : at[k] = i
    /\ \A k \in 1 .. Len(cls) : sorted[k] = cls[at[k]]
    /\ \A i, k \in 1 .. Len(cls) : i < k => sorted[i].freq >= sorted[k].freq

(* What is known of each cluster.                                          *)
LEMMA ClustersOf ==
    ASSUME NEW cls \in Seq(Cluster)
    PROVE  /\ Len(cls) \in Nat /\ DOMAIN cls = 1 .. Len(cls)
           /\ \A i \in 1 .. Len(cls) :
                 cls[i] \in Cluster /\ cls[i].freq \in Int /\ cls[i].cpus \in Seq(Nat)
<1>1. \A i \in 1 .. Len(cls) : cls[i] \in Cluster
    BY ElementOfSeq
<1> QED
    BY <1>1, LenProperties DEF Cluster

(* Descending only moves clusters, and the faster ones come first.         *)
LEMMA Sorted ==
    ASSUME NEW cls \in Seq(Cluster)
    PROVE  /\ Descending(cls) \in Seq(Cluster) /\ Len(Descending(cls)) = Len(cls)
           /\ \E at : SortedBy(cls, Descending(cls), at)
<1> DEFINE n == Len(cls)
           S == DOMAIN cls
           goes(i, k) == cls[i].freq > cls[k].freq \/ (cls[i].freq = cls[k].freq /\ i < k)
           R == {p \in S \X S : goes(p[1], p[2])}
           rank(i) == Cardinality({k \in S : goes(k, i)})
<1>1. /\ n \in Nat /\ S = 1 .. n
      /\ \A i \in S : cls[i] \in Cluster /\ cls[i].freq \in Int /\ i \in Nat
    BY ClustersOf
<1>2. Fs!IsFiniteSet(S) /\ Cardinality(S) = n
  <2>1. Fs!IsFiniteSet(1 .. n) /\ Fs!Cardinality(1 .. n) = n
    BY <1>1, Fs!FS_Interval
  <2>2. Cardinality(1 .. n) = n
    BY <2>1, SameCardinality
  <2> QED
    BY <1>1, <2>1, <2>2
<1> HIDE DEF n, S
<1>3. \A i, k \in S : <<i, k>> \in R <=> goes(i, k)
    OBVIOUS
<1>4. \A i \in S : Before(S, R, i) = {k \in S : goes(k, i)}
  <2> HIDE DEF R, goes
  <2> QED
    BY <1>3 DEF Before
<1> HIDE DEF R
<1>5. Ordered(S, R)
  <2>1. \A x \in S : ~ goes(x, x)
    BY <1>1
  <2>2. \A x, y, z \in S : goes(x, y) /\ goes(y, z) => goes(x, z)
    BY <1>1
  <2>3. \A x, y \in S : x = y \/ goes(x, y) \/ goes(y, x)
    BY <1>1
  <2> HIDE DEF goes
  <2> QED
    BY <1>3, <2>1, <2>2, <2>3 DEF Ordered
<1>6. Descending(cls) = [m \in S |-> cls[CHOOSE i \in S : rank(i) = m - 1]]
    BY DEF Descending, S
<1>7. /\ \A x \in S : rank(x) \in 0 .. n - 1
      /\ \A x, y \in S : goes(x, y) => rank(x) < rank(y)
      /\ \A x, y \in S : rank(x) = rank(y) => x = y
      /\ \A m \in 1 .. n : \E x \in S : rank(x) = m - 1
  <2>1. Ranked(S, R, n)
    BY <1>2, <1>5, Ranks
  <2> HIDE DEF goes
  <2>2. \A x \in S : Cardinality(Before(S, R, x)) = rank(x)
    BY <1>4
  <2> HIDE DEF rank
  <2> QED
    BY <1>3, <2>1, <2>2 DEF Ranked
<1> HIDE DEF rank
<1> DEFINE at == [m \in S |-> CHOOSE i \in S : rank(i) = m - 1]
           sorted == [m \in S |-> cls[at[m]]]
<1>8. \A m \in S : at[m] \in S /\ rank(at[m]) = m - 1
    BY <1>1, <1>7
<1>9. at \in [S -> S]
    BY <1>8
<1>10. Descending(cls) = sorted
    BY <1>6
<1> HIDE DEF at
<1>11. sorted \in Seq(Cluster) /\ Len(sorted) = n
  <2>1. sorted \in [1 .. n -> Cluster]
    BY <1>1, <1>9
  <2> HIDE DEF sorted
  <2>2. sorted \in Seq(Cluster)
    BY <1>1, <2>1, SeqDef
  <2> QED
    BY <1>1, <2>1, <2>2, LenProperties
<1>12. ASSUME NEW i \in S, NEW k \in S, at[i] = at[k] PROVE i = k
  <2>1. i - 1 = k - 1 /\ i \in Nat /\ k \in Nat
    BY <1>1, <1>8, <1>12
  <2> QED
    BY <2>1
<1>13. ASSUME NEW i \in S PROVE \E k \in S : at[k] = i
  <2> DEFINE k == rank(i) + 1
  <2>1. k \in S /\ k - 1 = rank(i)
    BY <1>1, <1>7
  <2> HIDE DEF k
  <2>2. at[k] \in S /\ rank(at[k]) = rank(i)
    BY <1>8, <2>1
  <2> QED
    BY <1>7, <2>1, <2>2
<1>14. \A k \in S : sorted[k] = cls[at[k]]
    OBVIOUS
<1>15. ASSUME NEW i \in S, NEW k \in S, i < k PROVE sorted[i].freq >= sorted[k].freq
  <2> DEFINE a == at[i]
             b == at[k]
  <2>1. a \in S /\ b \in S /\ rank(a) = i - 1 /\ rank(b) = k - 1 /\ i \in Nat /\ k \in Nat
    BY <1>1, <1>8
  <2> HIDE DEF a, b
  <2>2. ~ (rank(b) < rank(a))
    BY <1>15, <2>1
  <2>3. ~ goes(b, a)
    BY <1>7, <2>1, <2>2
  <2>4. cls[a].freq >= cls[b].freq
    BY <1>1, <2>1, <2>3
  <2> QED
    BY <1>14, <2>4 DEF a, b
<1> HIDE DEF sorted
<1>16. SortedBy(cls, sorted, at)
    BY <1>1, <1>9, <1>12, <1>13, <1>14, <1>15 DEF SortedBy, n
<1> QED
    BY <1>10, <1>11, <1>16 DEF n

-----------------------------------------------------------------------------
(* Groups of one frequency.                                                *)

(* The list has that CPU.                                                  *)
Has(list, cpu) == \E i \in 1 .. Len(list) : list[i] = cpu

(* Has, and ToSet, of a list of numbers.                                   *)
LEMMA HasIsToSet ==
    ASSUME NEW list \in Seq(Nat)
    PROVE  /\ Len(list) \in Nat
           /\ \A cpu : cpu \in ToSet(list) <=> Has(list, cpu)
           /\ \A cpu : Has(list, cpu) => cpu \in Nat
           /\ list # <<>> => Has(list, list[1])
<1>1. Len(list) \in Nat /\ DOMAIN list = 1 .. Len(list)
    BY LenProperties
<1>2. \A i \in 1 .. Len(list) : list[i] \in Nat
    BY ElementOfSeq
<1>3. list # <<>> => 1 \in 1 .. Len(list)
    BY <1>1
<1> QED
    BY <1>1, <1>2, <1>3 DEF ToSet, Has

(* A joined list has the CPUs of both.                                     *)
LEMMA Joins ==
    ASSUME NEW one \in Seq(Nat), NEW other \in Seq(Nat)
    PROVE  /\ one \o other \in Seq(Nat)
           /\ \A cpu : Has(one \o other, cpu) <=> Has(one, cpu) \/ Has(other, cpu)
           /\ one # <<>> => one \o other # <<>>
<1> DEFINE both == one \o other
           m == Len(one)
           n == Len(other)
<1>1. m \in Nat /\ n \in Nat
    BY LenProperties
<1>2. /\ both \in Seq(Nat) /\ Len(both) = m + n
      /\ \A i \in 1 .. m + n : both[i] = IF i <= m THEN one[i] ELSE other[i - m]
    BY ConcatProperties
<1>3. one # <<>> => both # <<>>
    BY ConcatEqualIffEmpty, EmptySeq
<1> HIDE DEF both, m, n
<1>4. ASSUME NEW cpu PROVE Has(both, cpu) <=> Has(one, cpu) \/ Has(other, cpu)
  <2>1. ASSUME NEW i \in 1 .. m, one[i] = cpu PROVE i \in 1 .. m + n /\ both[i] = cpu
    BY <1>1, <1>2, <2>1
  <2>2. ASSUME NEW i \in 1 .. n, other[i] = cpu PROVE m + i \in 1 .. m + n /\ both[m + i] = cpu
    <3> DEFINE k == m + i
    <3>1. k \in 1 .. m + n /\ ~ (k <= m) /\ k - m = i
      BY <1>1
    <3> HIDE DEF k
    <3>2. both[k] = cpu
      BY <1>2, <2>2, <3>1
    <3> QED
      BY <3>1, <3>2 DEF k
  <2>3. ASSUME NEW i \in 1 .. m + n, both[i] = cpu
        PROVE  (\E k \in 1 .. m : one[k] = cpu) \/ (\E k \in 1 .. n : other[k] = cpu)
    <3>1. CASE i <= m
      <4>1. i \in 1 .. m /\ one[i] = cpu
        BY <1>1, <1>2, <2>3, <3>1
      <4> QED
        BY <4>1
    <3>2. CASE ~ (i <= m)
      <4>1. i - m \in 1 .. n /\ other[i - m] = cpu
        BY <1>1, <1>2, <2>3, <3>2
      <4> QED
        BY <4>1
    <3> QED
      BY <3>1, <3>2
  <2> QED
    BY <1>2, <2>1, <2>2, <2>3 DEF Has, m, n
<1> QED
    BY <1>2, <1>3, <1>4 DEF both

(* A cluster joins the group of its frequency, or becomes one.             *)
Added(groups, c, r) ==
    IF \E i \in 1 .. Len(groups) : groups[i].freq = c.freq
    THEN /\ Len(r) = Len(groups)
         /\ \A k \in 1 .. Len(groups) :
               /\ r[k].freq = groups[k].freq
               /\ groups[k].cpus # <<>> => r[k].cpus # <<>>
               /\ \A cpu : Has(r[k].cpus, cpu) <=>
                     Has(groups[k].cpus, cpu) \/ (groups[k].freq = c.freq /\ Has(c.cpus, cpu))
    ELSE /\ Len(r) = Len(groups) + 1
         /\ \A k \in 1 .. Len(groups) : r[k] = groups[k]
         /\ r[Len(groups) + 1] = c

(* That is what Join does.                                                 *)
LEMMA Joined ==
    ASSUME NEW groups \in Seq(Cluster), NEW c \in Cluster
    PROVE  Join(groups, c) \in Seq(Cluster) /\ Added(groups, c, Join(groups, c))
<1> DEFINE n == Len(groups)
           r == Join(groups, c)
<1>1. /\ n \in Nat /\ DOMAIN groups = 1 .. n
      /\ \A k \in 1 .. n : groups[k] \in Cluster /\ groups[k].cpus \in Seq(Nat)
    BY ClustersOf
<1>2. c.cpus \in Seq(Nat)
    BY DEF Cluster
<1>3. CASE \E i \in 1 .. n : groups[i].freq = c.freq
  <2> DEFINE joined(k) == IF groups[k].freq = c.freq
                          THEN [groups[k] EXCEPT !.cpus = @ \o c.cpus] ELSE groups[k]
  <2>1. r = [k \in 1 .. n |-> joined(k)]
    BY <1>1, <1>3 DEF Join
  <2>2. ASSUME NEW k \in 1 .. n
        PROVE  /\ joined(k) \in Cluster /\ joined(k).freq = groups[k].freq
               /\ groups[k].cpus # <<>> => joined(k).cpus # <<>>
               /\ \A cpu : Has(joined(k).cpus, cpu) <=>
                     Has(groups[k].cpus, cpu) \/ (groups[k].freq = c.freq /\ Has(c.cpus, cpu))
    <3>1. CASE groups[k].freq = c.freq
      <4> DEFINE list == groups[k].cpus \o c.cpus
      <4>1. /\ list \in Seq(Nat)
            /\ groups[k].cpus # <<>> => list # <<>>
            /\ \A cpu : Has(list, cpu) <=> Has(groups[k].cpus, cpu) \/ Has(c.cpus, cpu)
        BY <1>1, <1>2, Joins
      <4> DEFINE g == groups[k]
                 j == joined(k)
      <4>2. j = [g EXCEPT !.cpus = list] /\ g \in Cluster
        BY <1>1, <3>1
      <4> HIDE DEF list, j, g
      <4>3. j \in Cluster /\ j.freq = g.freq /\ j.cpus = list
        BY <4>1, <4>2 DEF Cluster
      <4>4. \A cpu : Has(j.cpus, cpu) <=> Has(groups[k].cpus, cpu) \/ Has(c.cpus, cpu)
        BY <4>1, <4>3
      <4>5. j.freq = groups[k].freq /\ (groups[k].cpus # <<>> => j.cpus # <<>>)
        BY <4>1, <4>3 DEF g
      <4> QED
        BY <3>1, <4>3, <4>4, <4>5, Zenon DEF j
    <3>2. CASE groups[k].freq # c.freq
      <4>1. joined(k) = groups[k]
        BY <3>2
      <4> HIDE DEF joined
      <4> QED
        BY <1>1, <3>2, <4>1
    <3> QED
      BY <3>1, <3>2
  <2> HIDE DEF joined, r, n
  <2>3. r \in [1 .. n -> Cluster]
    BY <2>1, <2>2
  <2>4. r \in Seq(Cluster) /\ Len(r) = n
    <3>1. r \in Seq(Cluster)
      BY <1>1, <2>3, SeqDef
    <3> QED
      BY <1>1, <2>3, <3>1, LenProperties
  <2>5. \A k \in 1 .. n : r[k] = joined(k)
    BY <2>1
  <2>6. Added(groups, c, r)
    BY <1>3, <2>2, <2>4, <2>5 DEF Added, n
  <2> QED
    BY <2>4, <2>6 DEF r
<1>4. CASE ~ \E i \in 1 .. n : groups[i].freq = c.freq
  <2>1. r = Append(groups, c)
    BY <1>1, <1>4 DEF Join
  <2>2. /\ r \in Seq(Cluster) /\ Len(r) = n + 1 /\ r[n + 1] = c
        /\ \A k \in 1 .. n : r[k] = groups[k]
    BY <1>1, <2>1, AppendProperties
  <2> HIDE DEF r
  <2> QED
    BY <1>4, <2>2 DEF Added, r
<1> QED
    BY <1>3, <1>4

(* The groups after each cluster are what it makes of those before it.     *)
LEMMA GroupedRounds ==
    ASSUME NEW cls \in Seq(Cluster), NEW skipped
    PROVE  /\ Grouped(cls, skipped) \in [0 .. Len(cls) -> Seq(Cluster)]
           /\ Grouped(cls, skipped)[0] = <<>>
           /\ \A n \in 1 .. Len(cls) :
                 Grouped(cls, skipped)[n] =
                     IF cls[n].freq \in skipped THEN Grouped(cls, skipped)[n - 1]
                     ELSE Join(Grouped(cls, skipped)[n - 1], cls[n])
<1> DEFINE last == Len(cls)
           round(k, g) == IF cls[k].freq \in skipped THEN g ELSE Join(g, cls[k])
           step == [k \in 1 .. last |-> [g \in Seq(Cluster) |-> round(k, g)]]
           Runs(f) == f = [k \in 0 .. last |-> IF k = 0 THEN <<>> ELSE round(k, f[k - 1])]
<1>1. last \in Nat /\ \A k \in 1 .. last : cls[k] \in Cluster
    BY ClustersOf
<1>2. \A k \in 1 .. last, g \in Seq(Cluster) : round(k, g) \in Seq(Cluster)
    BY <1>1, Joined
<1> HIDE DEF round
<1>3. step \in [1 .. last -> [Seq(Cluster) -> Seq(Cluster)]]
    BY <1>2
<1>4. \E f : Runs(f)
  <2> HIDE DEF last, step
  <2>1. PICK f \in [0 .. last -> Seq(Cluster)] :
            f[0] = <<>> /\ \A k \in 1 .. last : f[k] = step[k][f[k - 1]]
    <3>1. PICK f \in [0 .. last -> Seq(Cluster)] : Unrolls(f, last, <<>>, step)
      BY <1>1, <1>3, EmptySeq, Unrolled
    <3> QED
      BY <3>1, Zenon DEF Unrolls
  <2>2. ASSUME NEW k \in 1 .. last PROVE f[k] = round(k, f[k - 1])
    <3>1. k - 1 \in 0 .. last
      BY <1>1
    <3>2. f[k - 1] \in Seq(Cluster) /\ f[k] = step[k][f[k - 1]]
      BY <2>1, <3>1
    <3> QED
      BY <3>2 DEF step
  <2>3. \A k \in 0 .. last : k = 0 \/ k \in 1 .. last
    BY <1>1
  <2>4. Runs(f)
    BY <2>1, <2>2, <2>3
  <2> QED
    BY <2>4
<1>5. Grouped(cls, skipped) = CHOOSE f : Runs(f)
    BY DEF Grouped, round
<1> DEFINE p == Grouped(cls, skipped)
<1>6. p = [k \in 0 .. last |-> IF k = 0 THEN <<>> ELSE round(k, p[k - 1])]
    BY <1>4, <1>5
<1> HIDE DEF p
<1>7. p[0] = <<>>
    BY <1>1, <1>6
<1>8. ASSUME NEW n \in 1 .. last PROVE p[n] = round(n, p[n - 1])
  <2>1. n \in 0 .. last /\ n # 0
    BY <1>1
  <2> QED
    BY <1>6, <2>1
<1>9. \A n \in 0 .. last : n \in {k \in 0 .. last : p[k] \in Seq(Cluster)}
  <2> DEFINE kept == {k \in 0 .. last : p[k] \in Seq(Cluster)}
  <2>1. 0 \in kept
    <3>1. 0 \in 0 .. last /\ <<>> \in Seq(Cluster)
      BY <1>1
    <3>2. p[0] \in Seq(Cluster)
      BY <1>7, <3>1, Zenon
    <3> QED
      BY <3>1, <3>2
  <2>2. ASSUME NEW n \in 0 .. last - 1, n \in kept PROVE n + 1 \in kept
    <3> DEFINE k == n + 1
    <3>1. k \in 1 .. last /\ k \in 0 .. last /\ k - 1 = n
      BY <1>1
    <3> HIDE DEF k
    <3>2. p[k] \in Seq(Cluster)
      BY <1>2, <1>8, <2>2, <3>1
    <3> QED
      BY <3>1, <3>2 DEF k
  <2> HIDE DEF kept
  <2>3. \A n \in 0 .. last : n \in kept
    BY <1>1, <2>1, <2>2, Rounds
  <2> QED
    BY <2>3 DEF kept
<1>10. p \in [0 .. last -> Seq(Cluster)]
    BY <1>6, <1>9
<1> QED
    BY <1>7, <1>8, <1>10 DEF p, round

(* The groups of the first n clusters, but for those of a skipped          *)
(* frequency.                                                              *)
GroupsOf(groups, cls, skipped, n) ==
    /\ \A j, k \in 1 .. Len(groups) : groups[j].freq = groups[k].freq => j = k
    /\ \A k \in 1 .. Len(groups) : \A cpu :
          Has(groups[k].cpus, cpu) <=>
              \E i \in 1 .. n : cls[i].freq = groups[k].freq /\ Has(cls[i].cpus, cpu)
    /\ \A i \in 1 .. n : cls[i].freq \notin skipped =>
          \E k \in 1 .. Len(groups) : groups[k].freq = cls[i].freq
    /\ \A k \in 1 .. Len(groups) : groups[k].freq \notin skipped /\ groups[k].cpus # <<>>

(* The next cluster keeps the groups what they are.                        *)
LEMMA GroupsKept ==
    ASSUME NEW cls \in Seq(Cluster), NEW n \in 1 .. Len(cls), cls[n].cpus # <<>>,
           NEW skipped, cls[n].freq \notin skipped,
           NEW groups \in Seq(Cluster), GroupsOf(groups, cls, skipped, n - 1),
           NEW r \in Seq(Cluster), Added(groups, cls[n], r)
    PROVE  GroupsOf(r, cls, skipped, n)
<1> DEFINE c == cls[n]
           m == Len(groups)
<1>1. m \in Nat /\ n \in Nat /\ (\A i \in 1 .. n : i \in 1 .. n - 1 \/ i = n)
        /\ (\A i \in 1 .. n - 1 : i \in 1 .. n) /\ n \in 1 .. n
    BY ClustersOf
<1> HIDE DEF m
<1>2. CASE \E i \in 1 .. m : groups[i].freq = c.freq
  <2>1. /\ Len(r) = m
        /\ \A k \in 1 .. m :
              /\ r[k].freq = groups[k].freq
              /\ groups[k].cpus # <<>> => r[k].cpus # <<>>
              /\ \A cpu : Has(r[k].cpus, cpu) <=>
                    Has(groups[k].cpus, cpu) \/ (groups[k].freq = c.freq /\ Has(c.cpus, cpu))
    BY <1>2 DEF Added, m
  <2>2. \A j, k \in 1 .. m : r[j].freq = r[k].freq => j = k
    BY <2>1 DEF GroupsOf, m
  <2>3. ASSUME NEW k \in 1 .. m, NEW cpu
        PROVE  Has(r[k].cpus, cpu) <=>
                   \E i \in 1 .. n : cls[i].freq = r[k].freq /\ Has(cls[i].cpus, cpu)
    <3>1. Has(groups[k].cpus, cpu) <=>
              \E i \in 1 .. n - 1 : cls[i].freq = groups[k].freq /\ Has(cls[i].cpus, cpu)
      BY DEF GroupsOf, m
    <3> QED
      BY <1>1, <2>1, <3>1
  <2>4. \A i \in 1 .. n : cls[i].freq \notin skipped => \E k \in 1 .. m : r[k].freq = cls[i].freq
    BY <1>1, <1>2, <2>1 DEF GroupsOf, m
  <2>5. \A k \in 1 .. m : r[k].freq \notin skipped /\ r[k].cpus # <<>>
    BY <2>1 DEF GroupsOf, m
  <2> QED
    BY <2>1, <2>2, <2>3, <2>4, <2>5 DEF GroupsOf
<1>3. CASE ~ \E i \in 1 .. m : groups[i].freq = c.freq
  <2>1. /\ Len(r) = m + 1 /\ r[m + 1] = c
        /\ \A k \in 1 .. m : r[k] = groups[k]
    BY <1>3 DEF Added, m
  <2>2. /\ \A k \in 1 .. m + 1 : k \in 1 .. m \/ k = m + 1
        /\ \A k \in 1 .. m : k \in 1 .. m + 1 /\ k # m + 1
        /\ m + 1 \in 1 .. m + 1
    BY <1>1
  <2>3. \A j, k \in 1 .. m + 1 : r[j].freq = r[k].freq => j = k
    BY <1>3, <2>1, <2>2 DEF GroupsOf, m
  <2>4. ASSUME NEW k \in 1 .. m + 1, NEW cpu
        PROVE  Has(r[k].cpus, cpu) <=>
                   \E i \in 1 .. n : cls[i].freq = r[k].freq /\ Has(cls[i].cpus, cpu)
    <3>1. CASE k \in 1 .. m
      <4>1. r[k] = groups[k] /\ groups[k].freq # c.freq
        BY <1>3, <2>1, <3>1
      <4>2. Has(groups[k].cpus, cpu) <=>
                \E i \in 1 .. n - 1 : cls[i].freq = groups[k].freq /\ Has(cls[i].cpus, cpu)
        BY <3>1 DEF GroupsOf, m
      <4> QED
        BY <1>1, <4>1, <4>2
    <3>2. CASE k = m + 1
      <4>1. r[k] = c
        BY <2>1, <3>2
      <4>2. \A i \in 1 .. n - 1 : cls[i].freq # c.freq
        BY <1>1, <1>3 DEF GroupsOf, m
      <4> QED
        BY <1>1, <4>1, <4>2
    <3> QED
      BY <2>2, <3>1, <3>2
  <2>5. ASSUME NEW i \in 1 .. n, cls[i].freq \notin skipped
        PROVE  \E k \in 1 .. m + 1 : r[k].freq = cls[i].freq
    <3>1. CASE i \in 1 .. n - 1
      <4>1. PICK k \in 1 .. m : groups[k].freq = cls[i].freq
        BY <2>5, <3>1 DEF GroupsOf, m
      <4> QED
        BY <2>1, <2>2, <4>1
    <3>2. CASE i = n
      BY <2>1, <2>2, <3>2
    <3> QED
      BY <1>1, <3>1, <3>2
  <2>6. \A k \in 1 .. m + 1 : r[k].freq \notin skipped /\ r[k].cpus # <<>>
    BY <2>1, <2>2 DEF GroupsOf, m
  <2> QED
    BY <2>1, <2>3, <2>4, <2>5, <2>6 DEF GroupsOf
<1> QED
    BY <1>2, <1>3

(* One that is skipped does, too.                                          *)
LEMMA GroupsSkip ==
    ASSUME NEW cls \in Seq(Cluster), NEW n \in 1 .. Len(cls),
           NEW skipped, cls[n].freq \in skipped,
           NEW groups, GroupsOf(groups, cls, skipped, n - 1)
    PROVE  GroupsOf(groups, cls, skipped, n)
<1>1. (\A i \in 1 .. n : i \in 1 .. n - 1 \/ i = n) /\ (\A i \in 1 .. n - 1 : i \in 1 .. n)
    BY ClustersOf
<1>2. ASSUME NEW k \in 1 .. Len(groups), NEW cpu
      PROVE  Has(groups[k].cpus, cpu) <=>
                 \E i \in 1 .. n : cls[i].freq = groups[k].freq /\ Has(cls[i].cpus, cpu)
  <2>1. /\ groups[k].freq \notin skipped
        /\ Has(groups[k].cpus, cpu) <=>
              \E i \in 1 .. n - 1 : cls[i].freq = groups[k].freq /\ Has(cls[i].cpus, cpu)
    BY DEF GroupsOf
  <2> QED
    BY <1>1, <2>1
<1>3. \A i \in 1 .. n : cls[i].freq \notin skipped =>
          \E k \in 1 .. Len(groups) : groups[k].freq = cls[i].freq
    BY <1>1 DEF GroupsOf
<1>4. /\ \A j, k \in 1 .. Len(groups) : groups[j].freq = groups[k].freq => j = k
      /\ \A k \in 1 .. Len(groups) : groups[k].freq \notin skipped /\ groups[k].cpus # <<>>
    BY DEF GroupsOf
<1> QED
    BY <1>2, <1>3, <1>4 DEF GroupsOf

(* Each frequency that is not skipped has one group, with all its CPUs.    *)
LEMMA AllGrouped ==
    ASSUME NEW cls \in Seq(Cluster), \A i \in 1 .. Len(cls) : cls[i].cpus # <<>>, NEW skipped
    PROVE  GroupsOf(Grouped(cls, skipped)[Len(cls)], cls, skipped, Len(cls))
<1> DEFINE p == Grouped(cls, skipped)
           last == Len(cls)
           kept == {n \in 0 .. last : GroupsOf(p[n], cls, skipped, n)}
<1>1. /\ p \in [0 .. last -> Seq(Cluster)] /\ p[0] = <<>> /\ last \in Nat
      /\ \A n \in 1 .. last : p[n] = IF cls[n].freq \in skipped THEN p[n - 1] ELSE Join(p[n - 1], cls[n])
      /\ \A n \in 1 .. last : cls[n] \in Cluster
    BY GroupedRounds, ClustersOf
<1> HIDE DEF p
<1>2. 0 \in kept
  <2> DEFINE none == <<>>
  <2>1. Len(none) = 0
    OBVIOUS
  <2> HIDE DEF none
  <2>2. GroupsOf(none, cls, skipped, 0)
    BY <2>1 DEF GroupsOf
  <2> QED
    BY <1>1, <2>2 DEF none
<1>3. ASSUME NEW m \in 0 .. last - 1, m \in kept PROVE m + 1 \in kept
  <2> DEFINE n == m + 1
  <2>1. n \in 1 .. last /\ n \in 0 .. last /\ n - 1 = m /\ m \in 0 .. last
    BY <1>1
  <2> HIDE DEF n
  <2>2. p[m] \in Seq(Cluster) /\ cls[n] \in Cluster
    BY <1>1, <2>1
  <2>3. p[n] = IF cls[n].freq \in skipped THEN p[m] ELSE Join(p[m], cls[n])
    BY <1>1, <2>1
  <2>4. CASE cls[n].freq \in skipped
    <3>1. p[n] = p[m] /\ GroupsOf(p[m], cls, skipped, n - 1)
      BY <1>3, <2>1, <2>3, <2>4
    <3>2. GroupsOf(p[n], cls, skipped, n)
      BY <2>1, <2>4, <3>1, GroupsSkip
    <3> QED
      BY <2>1, <3>2 DEF n
  <2>5. CASE cls[n].freq \notin skipped
    <3>1. p[n] = Join(p[m], cls[n])
      BY <2>3, <2>5
    <3>2. p[n] \in Seq(Cluster) /\ Added(p[m], cls[n], p[n])
      BY <2>2, <3>1, Joined
    <3>3. GroupsOf(p[m], cls, skipped, n - 1) /\ cls[n].cpus # <<>>
      BY <1>3, <2>1
    <3>4. GroupsOf(p[n], cls, skipped, n)
      BY <2>1, <2>2, <2>5, <3>2, <3>3, GroupsKept
    <3> QED
      BY <2>1, <3>4 DEF n
  <2> QED
    BY <2>4, <2>5
<1>4. last \in kept
  <2> HIDE DEF kept
  <2>1. last \in 0 .. last
    BY <1>1
  <2> QED
    BY <1>1, <1>2, <1>3, <2>1, Rounds
<1> QED
    BY <1>4 DEF p

(* Clusters of different frequencies are groups as they are.               *)
LEMMA GroupsAreClusters ==
    ASSUME NEW cls \in Seq(Cluster), NEW skipped,
           \A i, k \in 1 .. Len(cls) : cls[i].freq = cls[k].freq => i = k,
           \A i \in 1 .. Len(cls) : cls[i].freq \notin skipped
    PROVE  Grouped(cls, skipped)[Len(cls)] = cls
<1> DEFINE p == Grouped(cls, skipped)
           last == Len(cls)
           kept == {n \in 0 .. last : Len(p[n]) = n /\ \A k \in 1 .. n : p[n][k] = cls[k]}
<1>1. /\ p \in [0 .. last -> Seq(Cluster)] /\ p[0] = <<>> /\ last \in Nat
      /\ \A n \in 1 .. last : cls[n] \in Cluster
    BY GroupedRounds, ClustersOf
<1>2. \A n \in 1 .. last : p[n] = Join(p[n - 1], cls[n])
    BY GroupedRounds
<1> HIDE DEF p
<1>3. 0 \in kept
  <2>1. Len(p[0]) = 0
    BY <1>1, EmptySeq
  <2> QED
    BY <1>1, <2>1
<1>4. ASSUME NEW m \in 0 .. last - 1, m \in kept PROVE m + 1 \in kept
  <2> DEFINE n == m + 1
             g == p[m]
             r == p[n]
  <2>1. /\ n \in 1 .. last /\ n \in 0 .. last /\ n - 1 = m /\ m \in 0 .. last
        /\ \A k \in 1 .. m : k \in 1 .. last /\ k # n
        /\ \A k \in 1 .. n : k \in 1 .. m \/ k = n
    BY <1>1
  <2>2. g \in Seq(Cluster) /\ Len(g) = m /\ \A k \in 1 .. m : g[k] = cls[k]
    BY <1>1, <1>4, <2>1
  <2> HIDE DEF n, g
  <2>3. r = Join(g, cls[n])
    BY <1>2, <2>1 DEF g
  <2> HIDE DEF r
  <2>4. Added(g, cls[n], r)
    BY <1>1, <2>1, <2>2, <2>3, Joined
  <2>5. \A k \in 1 .. m : g[k].freq # cls[n].freq
    BY <2>1, <2>2
  <2>6. Len(r) = m + 1 /\ r[m + 1] = cls[n] /\ \A k \in 1 .. m : r[k] = g[k]
    BY <2>2, <2>4, <2>5 DEF Added
  <2>7. Len(r) = n /\ \A k \in 1 .. n : r[k] = cls[k]
    BY <2>1, <2>2, <2>6 DEF n
  <2> QED
    BY <2>1, <2>7 DEF n, r
<1>5. last \in kept
  <2> HIDE DEF kept
  <2>1. last \in 0 .. last
    BY <1>1
  <2> QED
    BY <1>1, <1>3, <1>4, <2>1, Rounds
<1>6. p[last] \in Seq(Cluster)
    BY <1>1
<1>7. p[last] = cls
    BY <1>5, <1>6, SeqEqual
<1> QED
    BY <1>7 DEF p

-----------------------------------------------------------------------------
(* The policies of the run.                                                *)

(* The policies of a device: each has CPUs of its own.                     *)
Device(ps) ==
    /\ ps \in Seq(Cluster)
    /\ \A i \in 1 .. Len(ps) : ps[i].freq > 0 /\ ps[i].cpus # <<>>
    /\ \A i, k \in 1 .. Len(ps) : \A cpu :
          Has(ps[i].cpus, cpu) /\ Has(ps[k].cpus, cpu) => i = k

(* The CPUs of a device, which are numbered from 0: those of the policies, *)
(* and others between and behind them.                                     *)
Numbered(known, others, n) ==
    /\ n \in Nat /\ known \cup others = 0 .. n - 1 /\ known \cap others = {}
    /\ Cardinality(known) \in Nat /\ Cardinality(others) \in Nat
    /\ n = Cardinality(known) + Cardinality(others)

(* The inductive invariant of the run's policies.                          *)
PoliciesOK ==
    /\ Device(policies) /\ Len(policies) <= MaxPolicies
    /\ unknown \in [DOMAIN unknown -> {Missing, Bad}]
    /\ Numbered(Known(policies), DOMAIN unknown, Present)
    /\ Cardinality(Known(policies)) <= Len(policies) * MaxCpus
    /\ Cardinality(DOMAIN unknown) <= MaxUnknown

(* A CPU is known if some cluster has it.                                  *)
LEMMA KnownCpus ==
    ASSUME NEW cls \in Seq(Cluster)
    PROVE  \A cpu : cpu \in Known(cls) <=> \E i \in 1 .. Len(cls) : Has(cls[i].cpus, cpu)
<1>1. /\ DOMAIN cls = 1 .. Len(cls)
      /\ \A i \in 1 .. Len(cls) : cls[i].cpus \in Seq(Nat)
    BY ClustersOf
<1> QED
    BY <1>1, HasIsToSet DEF Known

(* r is s and then t, of lengths m and n.                                  *)
IsConcat(r, s, t, m, n) ==
    Len(r) = m + n /\ \A i \in 1 .. m + n : r[i] = IF i <= m THEN s[i] ELSE t[i - m]

LEMMA Concatenated ==
    ASSUME NEW S, NEW s \in Seq(S), NEW t \in Seq(S), NEW m, NEW n, Len(s) = m, Len(t) = n
    PROVE  s \o t \in Seq(S) /\ IsConcat(s \o t, s, t, m, n)
<1> DEFINE r == s \o t
<1>1. /\ r \in Seq(S) /\ Len(r) = Len(s) + Len(t)
      /\ \A i \in 1 .. Len(s) + Len(t) : r[i] = IF i <= Len(s) THEN s[i] ELSE t[i - Len(s)]
    BY ConcatProperties
<1> HIDE DEF r
<1>2. /\ r \in Seq(S) /\ Len(r) = m + n
      /\ \A i \in 1 .. m + n : r[i] = IF i <= m THEN s[i] ELSE t[i - m]
    BY <1>1
<1> QED
    BY <1>2 DEF r, IsConcat

(* r is s with e at the place at.                                          *)
IsInsert(r, s, at, e) ==
    /\ Len(r) = Len(s) + 1 /\ r[at] = e
    /\ \A i \in 1 .. at - 1 : r[i] = s[i]
    /\ \A i \in at + 1 .. Len(s) + 1 : r[i] = s[i - 1]

LEMMA Inserted ==
    ASSUME NEW S, NEW s \in Seq(S), NEW at \in 1 .. Len(s) + 1, NEW e \in S
    PROVE  InsertAt(s, at, e) \in Seq(S) /\ IsInsert(InsertAt(s, at, e), s, at, e)
<1> DEFINE n == Len(s)
           a == SubSeq(s, 1, at - 1)
           b == SubSeq(s, at, n)
           one == <<e>>
           r == a \o one \o b
<1>1. n \in Nat /\ at \in Nat /\ 1 <= at /\ at <= n + 1 /\ \A i \in 1 .. n : s[i] \in S
    BY LenProperties, ElementOfSeq
<1>2. /\ a \in Seq(S) /\ Len(a) = at - 1
      /\ \A i \in 1 .. at - 1 : a[i] = s[i]
  <2>1. 1 \in Int /\ at - 1 \in Int /\ \A i \in 1 .. at - 1 : s[i] \in S
    BY <1>1
  <2>2. /\ a \in Seq(S) /\ Len(a) = (IF 1 <= at - 1 THEN at - 1 - 1 + 1 ELSE 0)
        /\ \A i \in 1 .. at - 1 - 1 + 1 : a[i] = s[1 + i - 1]
    BY <2>1, SubSeqProperties
  <2> HIDE DEF a
  <2> QED
    BY <1>1, <2>2
<1>3. /\ b \in Seq(S) /\ Len(b) = n - at + 1
      /\ \A i \in 1 .. n - at + 1 : b[i] = s[at + i - 1]
  <2>1. at \in Int /\ n \in Int /\ \A i \in at .. n : s[i] \in S
    BY <1>1
  <2>2. /\ b \in Seq(S) /\ Len(b) = (IF at <= n THEN n - at + 1 ELSE 0)
        /\ \A i \in 1 .. n - at + 1 : b[i] = s[at + i - 1]
    BY <2>1, SubSeqProperties
  <2> HIDE DEF b
  <2> QED
    BY <1>1, <2>2
<1>4. one \in Seq(S) /\ Len(one) = 1 /\ one[1] = e
    OBVIOUS
<1>5. InsertAt(s, at, e) = r
    BY DEF InsertAt
<1> HIDE DEF a, b, one, n
<1> DEFINE c == a \o one
<1>6. /\ c \in Seq(S) /\ Len(c) = at
      /\ \A i \in 1 .. at : c[i] = IF i <= at - 1 THEN a[i] ELSE one[i - (at - 1)]
  <2> DEFINE m == at - 1
  <2>1. a \in Seq(S) /\ one \in Seq(S) /\ Len(a) = m /\ Len(one) = 1
    BY <1>2, <1>4
  <2> HIDE DEF m
  <2>2. c \in Seq(S) /\ IsConcat(c, a, one, m, 1)
    BY <2>1, Concatenated, Zenon
  <2>3. m + 1 = at
    BY <1>1 DEF m
  <2> HIDE DEF c
  <2> QED
    BY <2>2, <2>3 DEF m, IsConcat
<1>7. c[at] = e /\ \A i \in 1 .. at - 1 : c[i] = s[i]
  <2> HIDE DEF c
  <2>1. at \in 1 .. at /\ ~ (at <= at - 1) /\ at - (at - 1) = 1
    BY <1>1
  <2>2. \A i \in 1 .. at - 1 : i \in 1 .. at /\ i <= at - 1
    BY <1>1
  <2> QED
    BY <1>2, <1>4, <1>6, <2>1, <2>2
<1> HIDE DEF c
<1>8. /\ r \in Seq(S) /\ Len(r) = at + (n - at + 1)
      /\ \A i \in 1 .. at + (n - at + 1) : r[i] = IF i <= at THEN c[i] ELSE b[i - at]
  <2>1. r = c \o b
    BY DEF c
  <2>2. c \in Seq(S) /\ b \in Seq(S) /\ Len(c) = at /\ Len(b) = n - at + 1
    BY <1>3, <1>6
  <2> HIDE DEF r
  <2> DEFINE k == n - at + 1
  <2>3. r \in Seq(S) /\ IsConcat(r, c, b, at, k)
    <3> HIDE DEF k
    <3>1. Len(b) = k
      BY <2>2 DEF k
    <3> QED
      BY <2>1, <2>2, <3>1, Concatenated, Zenon
  <2> QED
    BY <2>3 DEF IsConcat
<1> HIDE DEF r
<1>9. /\ r \in Seq(S) /\ Len(r) = n + 1
      /\ \A i \in 1 .. n + 1 : r[i] = IF i <= at THEN c[i] ELSE b[i - at]
    BY <1>1, <1>8
<1>10. r[at] = e
    BY <1>1, <1>7, <1>9
<1>11. ASSUME NEW i \in 1 .. at - 1 PROVE r[i] = s[i]
    BY <1>1, <1>7, <1>9
<1>12. ASSUME NEW i \in at + 1 .. n + 1 PROVE r[i] = s[i - 1]
  <2>1. i \in 1 .. n + 1 /\ ~ (i <= at) /\ i - at \in 1 .. n - at + 1 /\ at + (i - at) - 1 = i - 1
    BY <1>1
  <2> QED
    BY <1>3, <1>9, <2>1
<1> QED
    BY <1>5, <1>9, <1>10, <1>11, <1>12 DEF n, IsInsert

(* What is inserted is new; everything else has a place it came from.      *)
CameFrom(r, s, at, e, from) ==
    /\ Len(r) = Len(s) + 1 /\ r[at] = e
    /\ \A i \in 1 .. Len(s) + 1 : i # at => from[i] \in 1 .. Len(s) /\ r[i] = s[from[i]]
    /\ \A i, k \in 1 .. Len(s) + 1 : i # at /\ k # at /\ from[i] = from[k] => i = k
    /\ \A j \in 1 .. Len(s) : \E i \in 1 .. Len(s) + 1 : i # at /\ from[i] = j

LEMMA InsertedCameFrom ==
    ASSUME NEW S, NEW s \in Seq(S), NEW at \in 1 .. Len(s) + 1, NEW e \in S
    PROVE  /\ InsertAt(s, at, e) \in Seq(S)
           /\ \E from : CameFrom(InsertAt(s, at, e), s, at, e, from)
<1> DEFINE r == InsertAt(s, at, e)
           n == Len(s)
           from == [i \in 1 .. n + 1 |-> IF i < at THEN i ELSE i - 1]
<1>1. n \in Nat /\ at \in Nat /\ 1 <= at /\ at <= n + 1
    BY LenProperties
<1>2. /\ r \in Seq(S) /\ Len(r) = n + 1 /\ r[at] = e
      /\ \A i \in 1 .. at - 1 : r[i] = s[i]
      /\ \A i \in at + 1 .. n + 1 : r[i] = s[i - 1]
  <2>1. r \in Seq(S) /\ IsInsert(r, s, at, e)
    BY Inserted, Zenon
  <2> HIDE DEF r
  <2> QED
    BY <2>1 DEF IsInsert
<1> HIDE DEF r, n
<1>3. ASSUME NEW i \in 1 .. n + 1, i # at PROVE from[i] \in 1 .. n /\ r[i] = s[from[i]]
  <2>1. CASE i < at
    <3>1. i \in 1 .. at - 1 /\ from[i] = i /\ i \in 1 .. n
      BY <1>1, <2>1
    <3> HIDE DEF from
    <3> QED
      BY <1>2, <3>1
  <2>2. CASE ~ (i < at)
    <3>1. i \in at + 1 .. n + 1 /\ from[i] = i - 1 /\ i - 1 \in 1 .. n
      BY <1>1, <1>3, <2>2
    <3> HIDE DEF from
    <3> QED
      BY <1>2, <3>1
  <2> QED
    BY <2>1, <2>2
<1>4. \A i, k \in 1 .. n + 1 : i # at /\ k # at /\ from[i] = from[k] => i = k
    BY <1>1
<1>5. ASSUME NEW j \in 1 .. n PROVE \E i \in 1 .. n + 1 : i # at /\ from[i] = j
  <2> DEFINE i == IF j < at THEN j ELSE j + 1
  <2>1. i \in 1 .. n + 1 /\ i # at /\ from[i] = j
    BY <1>1
  <2> HIDE DEF i
  <2> QED
    BY <2>1
<1> HIDE DEF from
<1>6. CameFrom(r, s, at, e, from)
    BY <1>2, <1>3, <1>4, <1>5 DEF CameFrom, n
<1> QED
    BY <1>2, <1>6 DEF r

(* A policy of the CPUs from N on makes a device of a device.              *)
Grown(ps, N, freq, size, at) ==
    InsertAt(ps, at, [freq |-> freq, cpus |-> [k \in 1 .. size |-> N + k - 1]])

LEMMA DeviceGrows ==
    ASSUME NEW ps, Device(ps), NEW freq \in 1 .. MaxFreq, NEW size \in 1 .. MaxCpus,
           NEW at \in 1 .. Len(ps) + 1, NEW N \in Nat, Known(ps) \subseteq 0 .. N - 1
    PROVE  LET qs == Grown(ps, N, freq, size, at)
           IN  /\ Device(qs) /\ Len(qs) = Len(ps) + 1
               /\ Known(qs) = Known(ps) \cup N .. N + size - 1
<1> DEFINE more == [k \in 1 .. size |-> N + k - 1]
           e == [freq |-> freq, cpus |-> more]
           qs == InsertAt(ps, at, e)
           n == Len(ps)
<1>1. /\ ps \in Seq(Cluster) /\ n \in Nat /\ N \in Nat
      /\ size \in Nat /\ freq \in Nat /\ size >= 1 /\ size <= MaxCpus /\ freq > 0
      /\ MaxCpus \in Nat
    BY ClustersOf, BoundsAssumption DEF Device
<1>2. Known(ps) \subseteq 0 .. N - 1
    OBVIOUS
<1>3. more \in Seq(Nat) /\ Len(more) = size
  <2>1. more \in [1 .. size -> Nat]
    BY <1>1
  <2> HIDE DEF more
  <2>2. more \in Seq(Nat)
    BY <1>1, <2>1, SeqDef
  <2> QED
    BY <1>1, <2>1, <2>2, LenProperties
<1>4. \A cpu : Has(more, cpu) <=> cpu \in N .. N + size - 1
  <2>1. ASSUME NEW cpu \in N .. N + size - 1 PROVE \E k \in 1 .. size : more[k] = cpu
    <3> DEFINE k == cpu - N + 1
    <3>1. k \in 1 .. size /\ N + k - 1 = cpu
      BY <1>1
    <3> HIDE DEF k
    <3> QED
      BY <3>1
  <2>2. \A k \in 1 .. size : more[k] \in N .. N + size - 1
    BY <1>1
  <2> HIDE DEF more
  <2> QED
    BY <1>3, <2>1, <2>2 DEF Has
<1>5. more # <<>>
    BY <1>1, <1>3, EmptySeq
<1> HIDE DEF more
<1>6. e \in Cluster /\ e.freq = freq /\ e.cpus = more
    BY <1>1, <1>3 DEF Cluster
<1> HIDE DEF e
<1>7. qs \in Seq(Cluster) /\ \E from : CameFrom(qs, ps, at, e, from)
    BY <1>1, <1>6, InsertedCameFrom
<1>8. PICK from : CameFrom(qs, ps, at, e, from)
    BY <1>7
<1> HIDE DEF qs
<1>9. /\ Len(qs) = n + 1 /\ qs[at] = e
      /\ \A i \in 1 .. n + 1 : i # at => from[i] \in 1 .. n /\ qs[i] = ps[from[i]]
      /\ \A i, k \in 1 .. n + 1 : i # at /\ k # at /\ from[i] = from[k] => i = k
      /\ \A j \in 1 .. n : \E i \in 1 .. n + 1 : i # at /\ from[i] = j
    BY <1>8 DEF CameFrom, n
<1> HIDE DEF n
<1>10. at \in 1 .. n + 1
    BY DEF n
<1>11. /\ \A i \in 1 .. n : ps[i].freq > 0 /\ ps[i].cpus # <<>>
       /\ \A i, k \in 1 .. n : \A cpu : Has(ps[i].cpus, cpu) /\ Has(ps[k].cpus, cpu) => i = k
    BY DEF Device, n
<1>12. \A cpu : cpu \in Known(ps) <=> \E i \in 1 .. n : Has(ps[i].cpus, cpu)
    BY <1>1, KnownCpus DEF n
<1>13. \A cpu : ~ (cpu \in Known(ps) /\ cpu \in N .. N + size - 1)
  <2>1. \A cpu : ~ (cpu \in 0 .. N - 1 /\ cpu \in N .. N + size - 1)
    BY <1>1
  <2> QED
    BY <1>2, <2>1
<1>14. ASSUME NEW i \in 1 .. n + 1 PROVE qs[i].freq > 0 /\ qs[i].cpus # <<>>
  <2>1. CASE i = at
    <3>1. qs[i] = e
      BY <1>9, <2>1
    <3> QED
      BY <1>1, <1>5, <1>6, <3>1
  <2>2. CASE i # at
    <3>1. PICK k \in 1 .. n : qs[i] = ps[k]
      BY <1>9, <2>2
    <3> QED
      BY <1>11, <3>1
  <2> QED
    BY <2>1, <2>2
<1>15. ASSUME NEW i \in 1 .. n + 1, NEW k \in 1 .. n + 1, NEW cpu,
              Has(qs[i].cpus, cpu), Has(qs[k].cpus, cpu)
       PROVE  i = k
  <2>1. ASSUME NEW j \in 1 .. n + 1, j # at, Has(qs[j].cpus, cpu) PROVE cpu \in Known(ps)
    <3>1. from[j] \in 1 .. n /\ Has(ps[from[j]].cpus, cpu)
      BY <1>9, <2>1
    <3> QED
      BY <1>12, <3>1
  <2>2. ASSUME Has(qs[at].cpus, cpu) PROVE cpu \in N .. N + size - 1
    BY <1>4, <1>6, <1>9, <2>2
  <2>3. CASE i = at \/ k = at
    BY <1>13, <1>15, <2>1, <2>2, <2>3
  <2>4. CASE i # at /\ k # at
    <3>1. /\ from[i] \in 1 .. n /\ Has(ps[from[i]].cpus, cpu)
          /\ from[k] \in 1 .. n /\ Has(ps[from[k]].cpus, cpu)
      BY <1>9, <1>15, <2>4
    <3>2. from[i] = from[k]
      BY <1>11, <3>1
    <3> QED
      BY <1>9, <2>4, <3>2
  <2> QED
    BY <2>3, <2>4
<1>16. Known(qs) = Known(ps) \cup N .. N + size - 1
  <2>1. \A cpu : cpu \in Known(qs) <=> \E i \in 1 .. n + 1 : Has(qs[i].cpus, cpu)
    BY <1>7, <1>9, KnownCpus
  <2>2. ASSUME NEW cpu
        PROVE  (\E i \in 1 .. n + 1 : Has(qs[i].cpus, cpu))
                   <=> cpu \in Known(ps) \/ cpu \in N .. N + size - 1
    <3>1. ASSUME NEW i \in 1 .. n + 1, Has(qs[i].cpus, cpu)
          PROVE  cpu \in Known(ps) \/ cpu \in N .. N + size - 1
      <4>1. CASE i = at
        BY <1>4, <1>6, <1>9, <3>1, <4>1
      <4>2. CASE i # at
        <5>1. from[i] \in 1 .. n /\ Has(ps[from[i]].cpus, cpu)
          BY <1>9, <3>1, <4>2
        <5> QED
          BY <1>12, <5>1
      <4> QED
        BY <4>1, <4>2
    <3>2. ASSUME cpu \in N .. N + size - 1 PROVE Has(qs[at].cpus, cpu)
      BY <1>4, <1>6, <1>9, <3>2
    <3>3. ASSUME cpu \in Known(ps) PROVE \E i \in 1 .. n + 1 : Has(qs[i].cpus, cpu)
      <4>1. PICK j \in 1 .. n : Has(ps[j].cpus, cpu)
        BY <1>12, <3>3
      <4>2. PICK i \in 1 .. n + 1 : i # at /\ from[i] = j
        BY <1>9
      <4>3. qs[i] = ps[j]
        BY <1>9, <4>2
      <4> QED
        BY <4>1, <4>3
    <3> QED
      BY <1>10, <3>1, <3>2, <3>3
  <2> QED
    BY <2>1, <2>2
<1>17. Device(qs)
  <2>1. /\ \A i \in 1 .. Len(qs) : qs[i].freq > 0 /\ qs[i].cpus # <<>>
        /\ \A i, k \in 1 .. Len(qs) : \A cpu :
              Has(qs[i].cpus, cpu) /\ Has(qs[k].cpus, cpu) => i = k
    BY <1>9, <1>14, <1>15
  <2> QED
    BY <1>7, <2>1, Zenon DEF Device
<1> QED
    BY <1>9, <1>16, <1>17 DEF Grown, qs, e, more, n

(* Numbers below n are finitely many.                                      *)
LEMMA FewNumbers ==
    ASSUME NEW n \in Nat, NEW S, S \subseteq 0 .. n - 1
    PROVE  Fs!IsFiniteSet(S)
<1> DEFINE m == n - 1
<1>1. m \in Int /\ 0 \in Int
    OBVIOUS
<1> HIDE DEF m
<1>2. Fs!IsFiniteSet(0 .. m)
    BY <1>1, Fs!FS_Interval
<1> QED
    BY <1>2, Fs!FS_Subset DEF m

(* The next number for a CPU of no policy,                                 *)
LEMMA OtherNumbered ==
    ASSUME NEW known, NEW others, NEW n, Numbered(known, others, n)
    PROVE  /\ Numbered(known, others \cup {n}, n + 1)
           /\ Cardinality(others \cup {n}) = Cardinality(others) + 1
<1>1. /\ n \in Nat /\ known \cup others = 0 .. n - 1 /\ known \cap others = {}
      /\ Cardinality(known) \in Nat /\ Cardinality(others) \in Nat
      /\ n = Cardinality(known) + Cardinality(others)
    BY DEF Numbered
<1>2. n \notin 0 .. n - 1 /\ (0 .. n - 1) \cup {n} = 0 .. n + 1 - 1
    BY <1>1
<1>3. Fs!IsFiniteSet(others)
  <2>1. others \subseteq 0 .. n - 1
    BY <1>1
  <2> QED
    BY <1>1, <2>1, FewNumbers
<1>4. Cardinality(others \cup {n}) = Cardinality(others) + 1
  <2>1. n \notin others
    BY <1>1, <1>2
  <2>2. Fs!Cardinality(others \cup {n}) = Fs!Cardinality(others) + 1
    BY <1>3, <2>1, Fs!FS_AddElement
  <2> QED
    BY <2>2, SameCardinality
<1>5. known \cup (others \cup {n}) = 0 .. n + 1 - 1 /\ known \cap (others \cup {n}) = {}
    BY <1>1, <1>2
<1>6. /\ n + 1 \in Nat /\ Cardinality(others \cup {n}) \in Nat
      /\ n + 1 = Cardinality(known) + Cardinality(others \cup {n})
    BY <1>1, <1>4
<1> QED
    BY <1>1, <1>4, <1>5, <1>6 DEF Numbered

(* and the next ones for those of a policy.                                *)
LEMMA KnownNumbered ==
    ASSUME NEW known, NEW others, NEW n, Numbered(known, others, n), NEW size \in Nat
    PROVE  LET more == n .. n + size - 1
           IN  /\ Numbered(known \cup more, others, n + size)
               /\ Cardinality(known \cup more) = Cardinality(known) + size
<1> DEFINE more == n .. n + size - 1
<1>1. /\ n \in Nat /\ known \cup others = 0 .. n - 1 /\ known \cap others = {}
      /\ Cardinality(known) \in Nat /\ Cardinality(others) \in Nat
      /\ n = Cardinality(known) + Cardinality(others)
    BY DEF Numbered
<1>2. /\ (0 .. n - 1) \cap more = {} /\ (0 .. n - 1) \cup more = 0 .. n + size - 1
      /\ n + size - 1 \in Int /\ n \in Int
      /\ size = IF n > n + size - 1 THEN 0 ELSE n + size - 1 - n + 1
    BY <1>1
<1>3. Fs!IsFiniteSet(known)
  <2>1. known \subseteq 0 .. n - 1
    BY <1>1
  <2> QED
    BY <1>1, <2>1, FewNumbers
<1>4. Fs!IsFiniteSet(more) /\ Fs!Cardinality(more) = size
    BY <1>2, Fs!FS_Interval
<1> HIDE DEF more
<1>5. Cardinality(known \cup more) = Cardinality(known) + size
  <2>1. known \cap more = {}
    BY <1>1, <1>2
  <2>2. Fs!Cardinality(known \cup more) = Fs!Cardinality(known) + Fs!Cardinality(more) - 0
    BY <1>3, <1>4, <2>1, Fs!FS_Union, Fs!FS_EmptySet
  <2> DEFINE a == Fs!Cardinality(known \cup more)
             b == Fs!Cardinality(known)
  <2>3. a = b + size - 0 /\ b \in Nat
    BY <1>1, <1>4, <2>2, SameCardinality
  <2> HIDE DEF a, b
  <2>4. a = b + size
    BY <2>3
  <2> QED
    BY <2>4, SameCardinality DEF a, b
<1>6. /\ (known \cup more) \cup others = 0 .. n + size - 1
      /\ (known \cup more) \cap others = {}
    BY <1>1, <1>2
<1>7. /\ n + size \in Nat /\ Cardinality(known \cup more) \in Nat
      /\ n + size = Cardinality(known \cup more) + Cardinality(others)
    BY <1>1, <1>5
<1>8. Numbered(known \cup more, others, n + size)
    BY <1>1, <1>6, <1>7 DEF Numbered
<1> QED
    BY <1>5, <1>8 DEF more

(* Each new policy makes a device of a device, within the bounds.          *)
LEMMA PoliciesInductive == Spec => []PoliciesOK
<1>1. ASSUME Init PROVE PoliciesOK
  <2>1. policies = <<>> /\ unknown = [cpu \in {} |-> Missing]
    BY <1>1 DEF Init
  <2>2. Known(policies) = {} /\ policies \in Seq(Cluster) /\ Len(policies) = 0
    <3>1. DOMAIN policies = {}
      BY <2>1
    <3> QED
      BY <2>1, <3>1 DEF Known
  <2>3. DOMAIN unknown = {} /\ unknown \in [DOMAIN unknown -> {Missing, Bad}]
    BY <2>1
  <2>4. Cardinality(Known(policies)) = 0 /\ Cardinality(DOMAIN unknown) = 0
    BY <2>2, <2>3, SameCardinality, Fs!FS_EmptySet
  <2>5. 0 .. 0 - 1 = {} /\ 0 <= MaxUnknown /\ 0 <= MaxPolicies /\ 0 <= 0 * MaxCpus /\ 0 + 0 = 0
    BY BoundsAssumption
  <2>6. Present = 0
    BY <2>4, <2>5 DEF Present, Online, Known
  <2>7. Numbered(Known(policies), DOMAIN unknown, Present)
    BY <2>2, <2>3, <2>4, <2>5, <2>6 DEF Numbered
  <2>8. \A i : i \notin 1 .. Len(policies)
    BY <2>2
  <2>9. Device(policies)
    BY <2>2, <2>8 DEF Device
  <2> QED
    BY <2>2, <2>3, <2>4, <2>5, <2>7, <2>9 DEF PoliciesOK
<1>2. ASSUME PoliciesOK, [Next]_vars PROVE PoliciesOK'
  <2>1. CASE NextPolicies
    <3>0. /\ Device(policies) /\ Len(policies) \in Nat /\ Len(policies) <= MaxPolicies
          /\ Numbered(Known(policies), DOMAIN unknown, Present)
          /\ Cardinality(Known(policies)) \in Nat /\ Cardinality(DOMAIN unknown) \in Nat
          /\ Cardinality(Known(policies)) <= Len(policies) * MaxCpus
          /\ Cardinality(DOMAIN unknown) <= MaxUnknown
          /\ Present \in Nat
      BY <1>2, LenProperties DEF PoliciesOK, Device, Numbered
    <3>1. /\ Present' = Cardinality(Known(policies)') + Cardinality(DOMAIN unknown')
          /\ Present = Cardinality(Known(policies)) + Cardinality(DOMAIN unknown)
      BY DEF Present, Online, Known
    <3>2. CASE \E freq \in 1 .. MaxFreq, size \in 1 .. MaxCpus, at \in 1 .. Len(policies) + 1 :
                  /\ Len(policies) < MaxPolicies
                  /\ policies' = InsertAt(policies, at,
                                          [freq |-> freq,
                                           cpus |-> [k \in 1 .. size |-> Present + k - 1]])
                  /\ UNCHANGED <<readable, unknown>>
      <4>1. PICK freq \in 1 .. MaxFreq, size \in 1 .. MaxCpus, at \in 1 .. Len(policies) + 1 :
                  /\ Len(policies) < MaxPolicies
                  /\ policies' = InsertAt(policies, at,
                                          [freq |-> freq,
                                           cpus |-> [k \in 1 .. size |-> Present + k - 1]])
                  /\ UNCHANGED <<readable, unknown>>
        BY <3>2
      <4>2. /\ Known(policies) \subseteq 0 .. Present - 1
            /\ size \in Nat /\ size <= MaxCpus /\ MaxCpus \in Nat
        BY <3>0, BoundsAssumption DEF Numbered
      <4>3. /\ Device(policies') /\ Len(policies') = Len(policies) + 1
            /\ Known(policies') = Known(policies) \cup Present .. Present + size - 1
        <5>1. policies' = Grown(policies, Present, freq, size, at)
          BY <4>1 DEF Grown
        <5>2. /\ Device(policies) /\ Present \in Nat /\ Known(policies) \subseteq 0 .. Present - 1
              /\ freq \in 1 .. MaxFreq /\ size \in 1 .. MaxCpus /\ at \in 1 .. Len(policies) + 1
          BY <3>0, <4>2
        <5> QED
          BY <5>1, <5>2, DeviceGrows
      <4>4. /\ Numbered(Known(policies'), DOMAIN unknown, Present + size)
            /\ Cardinality(Known(policies')) = Cardinality(Known(policies)) + size
        <5>1. LET more == Present .. Present + size - 1
              IN  /\ Numbered(Known(policies) \cup more, DOMAIN unknown, Present + size)
                  /\ Cardinality(Known(policies) \cup more) = Cardinality(Known(policies)) + size
          <6>1. Numbered(Known(policies), DOMAIN unknown, Present) /\ size \in Nat
            BY <3>0, <4>2
          <6> QED
            BY <6>1, KnownNumbered, ZenonT(60)
        <5> QED
          BY <4>3, <5>1
      <4>5. Known(policies)' = Known(policies') /\ unknown' = unknown
        BY <4>1 DEF Known
      <4>6. Present' = Present + size
        BY <3>0, <3>1, <4>2, <4>4, <4>5
      <4>7. /\ Len(policies') <= MaxPolicies
            /\ Cardinality(Known(policies')) <= Len(policies') * MaxCpus
        <5>1. (Len(policies) + 1) * MaxCpus = Len(policies) * MaxCpus + MaxCpus
          BY <3>0, <4>2
        <5>2. Len(policies) * MaxCpus \in Nat
          BY <3>0, <4>2
        <5> QED
          <6> DEFINE a == Len(policies) * MaxCpus
                     b == Cardinality(Known(policies))
                     c == Cardinality(Known(policies'))
          <6>1. /\ a \in Nat /\ b \in Nat /\ b <= a /\ c = b + size
                /\ Len(policies') * MaxCpus = a + MaxCpus
            BY <3>0, <4>3, <4>4, <5>1, <5>2
          <6> HIDE DEF a, b, c
          <6>2. c <= a + MaxCpus
            BY <4>2, <6>1
          <6>3. Len(policies') <= MaxPolicies
            BY <3>0, <4>1, <4>3, BoundsAssumption
          <6> QED
            BY <6>1, <6>2, <6>3 DEF c
      <4> QED
        BY <1>2, <3>0, <4>3, <4>4, <4>5, <4>6, <4>7 DEF PoliciesOK
    <3>3. CASE /\ UNCHANGED policies
               /\ Cardinality(DOMAIN unknown) < MaxUnknown
               /\ \E f \in {Missing, Bad} :
                     unknown' = [cpu \in DOMAIN unknown \cup {Present} |->
                                   IF cpu = Present THEN f ELSE unknown[cpu]]
      <4>1. PICK f \in {Missing, Bad} :
                unknown' = [cpu \in DOMAIN unknown \cup {Present} |->
                              IF cpu = Present THEN f ELSE unknown[cpu]]
        BY <3>3
      <4>2. /\ Numbered(Known(policies), DOMAIN unknown \cup {Present}, Present + 1)
            /\ Cardinality(DOMAIN unknown \cup {Present}) = Cardinality(DOMAIN unknown) + 1
        BY <3>0, OtherNumbered
      <4>3. /\ DOMAIN unknown' = DOMAIN unknown \cup {Present}
            /\ unknown' \in [DOMAIN unknown' -> {Missing, Bad}]
        BY <1>2, <4>1 DEF PoliciesOK
      <4>4. Known(policies)' = Known(policies) /\ policies' = policies
        BY <3>3 DEF Known
      <4>5. Present' = Present + 1
        BY <3>0, <3>1, <4>2, <4>3, <4>4
      <4>6. Cardinality(DOMAIN unknown') <= MaxUnknown
        BY <3>0, <3>3, <4>2, <4>3, BoundsAssumption
      <4> QED
        BY <1>2, <3>0, <4>2, <4>3, <4>4, <4>5, <4>6 DEF PoliciesOK
    <3>4. CASE UNCHANGED <<policies, unknown>>
      BY <1>2, <3>4 DEF PoliciesOK, Present, Online
    <3> QED
      BY <2>1, <3>2, <3>3, <3>4, Zenon DEF NextPolicies
  <2>2. CASE NextComm \/ NextPattern \/ NextCpus \/ UNCHANGED vars
    <3>1. UNCHANGED <<policies, unknown>>
      BY <2>2 DEF NextComm, NextPattern, NextCpus, vars
    <3> QED
      BY <1>2, <3>1 DEF PoliciesOK, Present, Online
  <2> QED
    BY <1>2, <2>1, <2>2 DEF Next
<1> QED
    BY <1>1, <1>2, PTL DEF Spec

-----------------------------------------------------------------------------
(* What detect makes of the policies.                                      *)

(* Freq, of any policies.                                                  *)
FreqIn(ps, cpu) == (CHOOSE p \in ToSet(ps) : cpu \in ToSet(p.cpus)).freq

(* A CPU has the frequency of the policy that has it.                      *)
LEMMA FreqOfPolicy ==
    ASSUME NEW ps, Device(ps), NEW i \in 1 .. Len(ps), NEW cpu, Has(ps[i].cpus, cpu)
    PROVE  cpu \in Known(ps) /\ FreqIn(ps, cpu) = ps[i].freq
<1> DEFINE owner == CHOOSE p \in ToSet(ps) : cpu \in ToSet(p.cpus)
<1>1. ps \in Seq(Cluster) /\ \A k \in 1 .. Len(ps) : Has(ps[k].cpus, cpu) => i = k
    BY DEF Device
<1>2. /\ DOMAIN ps = 1 .. Len(ps)
      /\ \A k \in 1 .. Len(ps) : cpu \in ToSet(ps[k].cpus) <=> Has(ps[k].cpus, cpu)
    BY <1>1, ClustersOf, HasIsToSet
<1>3. ToSet(ps) = {ps[k] : k \in 1 .. Len(ps)}
    BY <1>2 DEF ToSet
<1>4. owner \in ToSet(ps) /\ cpu \in ToSet(owner.cpus)
    BY <1>2, <1>3
<1> HIDE DEF owner
<1>5. PICK k \in 1 .. Len(ps) : owner = ps[k]
    BY <1>3, <1>4
<1>6. owner = ps[i]
    BY <1>1, <1>2, <1>4, <1>5
<1>7. cpu \in Known(ps)
    BY <1>1, KnownCpus
<1> QED
    BY <1>6, <1>7 DEF FreqIn, owner

(* Clusters that know no CPU but those of the policies and each at most    *)
(* once, by its frequency; and all of them if all are found.               *)
Faithful(ps, cls, all) ==
    /\ cls \in Seq(Cluster)
    /\ \A k \in 1 .. Len(cls) : cls[k].cpus # <<>>
    /\ \A k \in 1 .. Len(cls) : \A cpu : Has(cls[k].cpus, cpu) =>
          cpu \in Known(ps) /\ FreqIn(ps, cpu) = cls[k].freq
    /\ all => \A cpu \in Known(ps) : \E k \in 1 .. Len(cls) : Has(cls[k].cpus, cpu)
    /\ \A i, k \in 1 .. Len(cls) : \A cpu :
          Has(cls[i].cpus, cpu) /\ Has(cls[k].cpus, cpu) => i = k

(* The policies do,                                                        *)
LEMMA PoliciesFaithful ==
    ASSUME NEW ps, Device(ps), NEW all
    PROVE  Faithful(ps, ps, all)
<1>1. \A k \in 1 .. Len(ps) : \A cpu : Has(ps[k].cpus, cpu) =>
          cpu \in Known(ps) /\ FreqIn(ps, cpu) = ps[k].freq
    BY FreqOfPolicy
<1>2. \A cpu \in Known(ps) : \E k \in 1 .. Len(ps) : Has(ps[k].cpus, cpu)
    BY KnownCpus DEF Device
<1> QED
    BY <1>1, <1>2 DEF Faithful, Device

(* so do the frequency files of the CPUs, which have them all if none is   *)
(* missing before one of a policy.                                         *)
FreqFiles(ps, others, n) ==
    [i \in 1 .. n |-> IF i - 1 \in Known(ps) THEN FreqIn(ps, i - 1) ELSE others[i - 1]]

NoneMissing(ps, others) == \A c \in Known(ps), d \in DOMAIN others : d < c => others[d] # Missing

(* They are read up to some CPU.                                           *)
LEMMA FilesRead ==
    ASSUME NEW files, NEW n \in Nat, DOMAIN files = 1 .. n, n <= CPU_FILES
    PROVE  \E last \in 0 .. n :
              /\ {i \in DOMAIN files : i <= CPU_FILES /\ \A k \in 1 .. i : files[k] # Missing} = 1 .. last
              /\ last = n \/ files[last + 1] = Missing
<1> DEFINE T == {i \in 1 .. n : files[i] = Missing}
           R == {i \in 1 .. n : i <= CPU_FILES /\ \A k \in 1 .. i : files[k] # Missing}
<1>1. \A i \in 1 .. n : i <= CPU_FILES /\ \A k \in 1 .. i : k \in 1 .. n
    BY TopologyAssumption
<1>2. CASE T = {}
  <2>1. R = 1 .. n /\ n \in 0 .. n
    BY <1>1, <1>2
  <2> HIDE DEF R
  <2> QED
    BY <2>1 DEF R
<1>3. CASE T # {}
  <2>1. PICK x \in T : \A y \in T : x <= y
    <3>1. T \in SUBSET Nat
      OBVIOUS
    <3> HIDE DEF T
    <3> QED
      BY <1>3, <3>1, LeastNumber
  <2>2. x \in 1 .. n /\ files[x] = Missing /\ \A y \in 1 .. n : files[y] = Missing => x <= y
    BY <2>1
  <2>3. ASSUME NEW i \in 1 .. n PROVE (\A k \in 1 .. i : files[k] # Missing) <=> i < x
    BY <2>2
  <2>4. R = 1 .. x - 1 /\ x - 1 \in 0 .. n /\ x - 1 + 1 = x
    BY <1>1, <2>2, <2>3
  <2> HIDE DEF R
  <2> QED
    BY <2>2, <2>4 DEF R
<1> QED
    BY <1>2, <1>3

LEMMA FilesFaithful ==
    ASSUME NEW ps, Device(ps), NEW others, others \in [DOMAIN others -> {Missing, Bad}],
           NEW n, Numbered(Known(ps), DOMAIN others, n), n <= CPU_FILES
    PROVE  Faithful(ps, PerCpu(FreqFiles(ps, others, n)), NoneMissing(ps, others))
<1> DEFINE files == FreqFiles(ps, others, n)
           read == {i \in DOMAIN files : i <= CPU_FILES /\ \A k \in 1 .. i : files[k] # Missing}
           all == [i \in read |-> [freq |-> files[i], cpus |-> <<i - 1>>]]
           cls == PerCpu(files)
<1>1. /\ n \in Nat /\ Known(ps) \cup DOMAIN others = 0 .. n - 1
      /\ Known(ps) \cap DOMAIN others = {} /\ ps \in Seq(Cluster)
    BY DEF Device, Numbered
<1>2. ASSUME NEW cpu \in Known(ps) PROVE FreqIn(ps, cpu) \in Int /\ FreqIn(ps, cpu) > 0
  <2>1. PICK i \in 1 .. Len(ps) : Has(ps[i].cpus, cpu)
    BY <1>1, KnownCpus
  <2>2. FreqIn(ps, cpu) = ps[i].freq /\ ps[i].freq \in Int /\ ps[i].freq > 0
    BY <1>1, <2>1, FreqOfPolicy, ClustersOf DEF Device
  <2> QED
    BY <2>2
<1>3. /\ DOMAIN files = 1 .. n
      /\ \A i \in 1 .. n : files[i] = IF i - 1 \in Known(ps) THEN FreqIn(ps, i - 1) ELSE others[i - 1]
    BY DEF FreqFiles
<1> HIDE DEF files
<1>4. ASSUME NEW i \in 1 .. n
      PROVE  /\ files[i] \in Int
             /\ files[i] # Bad /\ files[i] # Missing =>
                   i - 1 \in Known(ps) /\ files[i] = FreqIn(ps, i - 1)
             /\ i - 1 \in Known(ps) => files[i] = FreqIn(ps, i - 1) /\ files[i] # Bad /\ files[i] # Missing
             /\ files[i] = Missing => i - 1 \in DOMAIN others /\ others[i - 1] = Missing
  <2>1. CASE i - 1 \in Known(ps)
    BY <1>2, <1>3, <2>1 DEF Bad, Missing
  <2>2. CASE i - 1 \notin Known(ps)
    <3>1. i - 1 \in DOMAIN others
      BY <1>1, <2>2
    <3>2. files[i] = others[i - 1] /\ others[i - 1] \in {Missing, Bad}
      BY <1>3, <2>2, <3>1
    <3> QED
      BY <2>2, <3>1, <3>2 DEF Bad, Missing
  <2> QED
    BY <2>1, <2>2
<1>5. PICK last \in 0 .. n : read = 1 .. last /\ (last = n \/ files[last + 1] = Missing)
    BY <1>1, <1>3, FilesRead
<1> DEFINE ones == [i \in 1 .. last |-> [freq |-> files[i], cpus |-> <<i - 1>>]]
<1>6. /\ last \in Nat /\ last <= n /\ \A i \in 1 .. last : i \in 1 .. n
      /\ \A i \in 1 .. last : files[i] # Missing
  <2>1. \A i \in read : i \in 1 .. i /\ files[i] # Missing
    BY <1>3
  <2> HIDE DEF read
  <2> QED
    BY <1>1, <1>5, <2>1
<1>7. cls = Grouped(ones, {Bad})[Len(ones)]
  <2>1. cls = Grouped(all, {Bad})[Len(all)]
    BY DEF PerCpu
  <2> HIDE DEF cls, read
  <2>2. all = ones
    BY <1>5
  <2> HIDE DEF all, ones
  <2> QED
    BY <2>1, <2>2
<1> HIDE DEF cls, read, all
<1>8. \A i \in 1 .. last : ones[i].freq = files[i] /\ ones[i].cpus = <<i - 1>>
    OBVIOUS
<1>9. ones \in Seq(Cluster) /\ Len(ones) = last
  <2>1. ones \in [1 .. last -> Cluster]
    <3>1. ASSUME NEW i \in 1 .. last PROVE [freq |-> files[i], cpus |-> <<i - 1>>] \in Cluster
      <4>1. files[i] \in Int /\ i - 1 \in Nat
        BY <1>4, <1>6
      <4> QED
        BY <4>1 DEF Cluster
    <3> QED
      BY <3>1
  <2> HIDE DEF ones
  <2>2. ones \in Seq(Cluster)
    BY <1>6, <2>1, SeqDef
  <2> QED
    BY <1>6, <2>1, <2>2, LenProperties
<1> HIDE DEF ones
<1>10. \A i \in 1 .. last : ones[i].cpus # <<>> /\ \A cpu : Has(ones[i].cpus, cpu) <=> cpu = i - 1
  <2>1. ASSUME NEW i \in 1 .. last
        PROVE  <<i - 1>> # <<>> /\ \A cpu : Has(<<i - 1>>, cpu) <=> cpu = i - 1
    <3>1. Len(<<i - 1>>) = 1 /\ <<i - 1>>[1] = i - 1 /\ \A k \in 1 .. 1 : k = 1
      OBVIOUS
    <3>2. <<i - 1>> # <<>>
      OBVIOUS
    <3> QED
      BY <3>1, <3>2 DEF Has
  <2> QED
    BY <1>8, <2>1
<1>11. GroupsOf(cls, ones, {Bad}, last)
  <2>1. \A i \in 1 .. Len(ones) : ones[i].cpus # <<>>
    BY <1>9, <1>10
  <2>2. GroupsOf(Grouped(ones, {Bad})[Len(ones)], ones, {Bad}, Len(ones))
    BY <1>9, <2>1, AllGrouped
  <2> QED
    BY <1>7, <1>9, <2>2
<1>12. cls \in Seq(Cluster)
  <2>1. /\ Grouped(ones, {Bad}) \in [0 .. Len(ones) -> Seq(Cluster)]
        /\ Len(ones) \in 0 .. Len(ones)
    BY <1>6, <1>9, GroupedRounds
  <2> QED
    BY <1>7, <2>1
<1>13. ASSUME NEW k \in 1 .. Len(cls), NEW cpu, Has(cls[k].cpus, cpu)
       PROVE  cpu \in Known(ps) /\ FreqIn(ps, cpu) = cls[k].freq
  <2>1. PICK i \in 1 .. last : ones[i].freq = cls[k].freq /\ Has(ones[i].cpus, cpu)
    BY <1>11, <1>13 DEF GroupsOf
  <2>2. cpu = i - 1 /\ files[i] = cls[k].freq
    BY <1>8, <1>10, <2>1
  <2>3. files[i] # Bad /\ files[i] # Missing /\ i \in 1 .. n
    BY <1>6, <1>11, <2>2 DEF GroupsOf
  <2> QED
    BY <1>4, <2>2, <2>3
<1>14. ASSUME NoneMissing(ps, others), NEW cpu \in Known(ps)
       PROVE  \E k \in 1 .. Len(cls) : Has(cls[k].cpus, cpu)
  <2> DEFINE i == cpu + 1
  <2>1. i \in 1 .. n /\ cpu = i - 1 /\ cpu \in Nat
    BY <1>1
  <2> HIDE DEF i
  <2>2. i \in 1 .. last
    <3>1. CASE last = n
      BY <2>1, <3>1
    <3>2. CASE last # n
      <4> DEFINE d == last
      <4>1. last + 1 \in 1 .. n /\ last + 1 - 1 = d
        BY <1>1, <1>6, <3>2
      <4>2. d \in DOMAIN others /\ others[d] = Missing
        BY <1>4, <1>5, <3>2, <4>1
      <4>3. ~ (d < cpu)
        BY <1>14, <4>2 DEF NoneMissing
      <4>4. d # cpu
        BY <1>1, <4>2
      <4> QED
        BY <1>6, <2>1, <4>3, <4>4
    <3> QED
      BY <3>1, <3>2
  <2>3. ones[i].freq \notin {Bad}
    BY <1>4, <1>8, <2>1, <2>2
  <2>4. PICK k \in 1 .. Len(cls) : cls[k].freq = ones[i].freq
    BY <1>11, <2>2, <2>3 DEF GroupsOf
  <2>5. Has(ones[i].cpus, cpu)
    BY <1>10, <2>1, <2>2
  <2>6. Has(cls[k].cpus, cpu)
    BY <1>11, <2>2, <2>4, <2>5 DEF GroupsOf
  <2> QED
    BY <2>6
<1>15. \A i, k \in 1 .. Len(cls) : cls[i].freq = cls[k].freq => i = k
    BY <1>11 DEF GroupsOf
<1>16. \A k \in 1 .. Len(cls) : cls[k].cpus # <<>>
    BY <1>11 DEF GroupsOf
<1>17. Faithful(ps, cls, NoneMissing(ps, others))
  <2>1. \A i, k \in 1 .. Len(cls) : \A cpu :
            Has(cls[i].cpus, cpu) /\ Has(cls[k].cpus, cpu) => i = k
    BY <1>13, <1>15
  <2> QED
    BY <1>12, <1>13, <1>14, <1>16, <2>1 DEF Faithful
<1> QED
    BY <1>17 DEF cls, files

(* and sorting changes nothing.                                            *)
Falling(cls) == \A i, k \in 1 .. Len(cls) : i < k => cls[i].freq >= cls[k].freq

LEMMA SortedFaithful ==
    ASSUME NEW ps, NEW all, NEW cls, Faithful(ps, cls, all)
    PROVE  Faithful(ps, Descending(cls), all) /\ Falling(Descending(cls))
<1> DEFINE r == Descending(cls)
           n == Len(cls)
<1>1. cls \in Seq(Cluster)
    BY DEF Faithful
<1>2. r \in Seq(Cluster) /\ Len(r) = n /\ \E at : SortedBy(cls, r, at)
    BY <1>1, Sorted
<1>3. PICK at : SortedBy(cls, r, at)
    BY <1>2
<1> HIDE DEF r
<1>4. /\ at \in [1 .. n -> 1 .. n]
      /\ \A i, k \in 1 .. n : at[i] = at[k] => i = k
      /\ \A i \in 1 .. n : \E k \in 1 .. n : at[k] = i
      /\ \A k \in 1 .. n : r[k] = cls[at[k]]
      /\ \A i, k \in 1 .. n : i < k => r[i].freq >= r[k].freq
    BY <1>3 DEF SortedBy
<1>5. \A k \in 1 .. n : at[k] \in 1 .. n
    BY <1>4
<1>6. Falling(r)
    BY <1>2, <1>4 DEF Falling
<1>7. ASSUME NEW k \in 1 .. n
      PROVE  /\ r[k].cpus # <<>>
             /\ \A cpu : Has(r[k].cpus, cpu) =>
                   cpu \in Known(ps) /\ FreqIn(ps, cpu) = r[k].freq
  <2>1. r[k] = cls[at[k]]
    BY <1>4
  <2>2. PICK i \in 1 .. n : i = at[k]
    BY <1>5
  <2>3. /\ cls[i].cpus # <<>>
        /\ \A cpu : Has(cls[i].cpus, cpu) => cpu \in Known(ps) /\ FreqIn(ps, cpu) = cls[i].freq
    BY DEF Faithful
  <2> QED
    BY <2>1, <2>2, <2>3
<1>8. ASSUME all, NEW cpu \in Known(ps) PROVE \E k \in 1 .. n : Has(r[k].cpus, cpu)
  <2>1. PICK i \in 1 .. n : Has(cls[i].cpus, cpu)
    BY <1>8 DEF Faithful
  <2>2. PICK k \in 1 .. n : at[k] = i
    BY <1>4
  <2>3. r[k] = cls[i]
    BY <1>4, <2>2
  <2> QED
    BY <2>1, <2>3
<1>9. ASSUME NEW i \in 1 .. n, NEW k \in 1 .. n, NEW cpu, Has(r[i].cpus, cpu), Has(r[k].cpus, cpu)
       PROVE  i = k
  <2>1. Has(cls[at[i]].cpus, cpu) /\ Has(cls[at[k]].cpus, cpu)
    BY <1>4, <1>9
  <2>2. at[i] = at[k]
    BY <1>5, <2>1 DEF Faithful
  <2> QED
    BY <1>4, <2>2
<1>10. Faithful(ps, r, all)
    BY <1>2, <1>7, <1>8, <1>9 DEF Faithful
<1> QED
    BY <1>6, <1>10 DEF r

(* The CPUs of the lists it prints.                                        *)
LEMMA CpusOfList ==
    ASSUME NEW cs \in Seq(Nat), cs # <<>>
    PROVE  CpusOf(fmt_cpus(cs)) = {cpu \in Cpu : Has(cs, cpu)}
<1>1. from_range(fmt_cpus(cs)) = set(new, ToSet(cs))
    BY ListMeansItsCpus
<1>2. \A cpu \in Cpu : is_set(from_range(fmt_cpus(cs)), cpu) <=> Has(cs, cpu)
    BY <1>1, SetBits, HasIsToSet
<1> QED
    BY <1>2 DEF CpusOf, Cpu

(* No part means no CPU, and 0 means CPU 0.                                *)
LEMMA CpusOfNone ==
    CpusOf(<<>>) = {} /\ from_range(<<>>) = set(new, {}) /\ CpusOf(<<<<0>>>>) = {0}
<1> DEFINE none == <<>>
           zero == <<<<0>>>>
<1>1. /\ UNION {CpusOfPart(none[i]) : i \in DOMAIN none} = {}
      /\ UNION {CpusOfPart(zero[i]) : i \in DOMAIN zero} = CpusOfPart(<<0>>)
  <2>1. DOMAIN none = {} /\ DOMAIN zero = {1} /\ zero[1] = <<0>>
    OBVIOUS
  <2> HIDE DEF none, zero
  <2> QED
    BY <2>1
<1>2. CpusOfPart(<<0>>) = {0}
  <2> DEFINE part == <<0>>
  <2>1. Len(part) = 1 /\ part[1] = 0 /\ 0 # Bad
    BY DEF Bad
  <2> HIDE DEF part
  <2>2. CpusOfPart(part) = {cpu \in 0 .. CPU_SETSIZE - 1 : cpu \in 0 .. 0}
    BY <2>1 DEF CpusOfPart
  <2>3. 0 \in 0 .. CPU_SETSIZE - 1 /\ 0 .. 0 = {0}
    BY Sizes
  <2> QED
    BY <2>2, <2>3 DEF part
<1>3. from_range(none) = set(new, {}) /\ from_range(zero) = set(new, {0})
  <2> HIDE DEF none, zero
  <2> QED
    BY <1>1, <1>2 DEF from_range, parse_cpu_ranges
<1>4. \A cpu \in Cpu : is_set(set(new, {}), cpu) <=> cpu \in {}
    BY SetBits
<1>5. \A cpu \in Cpu : is_set(set(new, {0}), cpu) <=> cpu \in {0}
    BY SetBits
<1>6. 0 \in Cpu
    BY Sizes DEF Cpu
<1>7. CpusOf(none) = {} /\ CpusOf(zero) = {0}
  <2> HIDE DEF none, zero
  <2> QED
    BY <1>3, <1>4, <1>5, <1>6 DEF CpusOf, Cpu
<1> QED
    BY <1>3, <1>7

(* The lists detect makes of clusters, and what is expected of them.       *)
ListsOf(cls) ==
    IF cls = <<>> THEN [big |-> <<<<0>>>>, mid |-> <<>>, little |-> <<<<0>>>>]
    ELSE [big    |-> fmt_cpus(cls[1].cpus),
          mid    |-> IF Len(cls) >= 3 THEN fmt_cpus(cls[2].cpus) ELSE <<>>,
          little |-> fmt_cpus(cls[Len(cls)].cpus)]

SoundSets(ps, all, big, mid, little) ==
    /\ big # {} /\ little # {}
    /\ big = little \/ (big \cup mid) \cap little = {}
    /\ big \cap mid = {}
    /\ all =>
         /\ \A c \in big \cap Known(ps), d \in Known(ps) : FreqIn(ps, c) >= FreqIn(ps, d)
         /\ \A c \in little \cap Known(ps), d \in Known(ps) : FreqIn(ps, c) <= FreqIn(ps, d)

SoundLists(ps, all, lists) ==
    SoundSets(ps, all, CpusOf(lists.big), CpusOf(lists.mid), CpusOf(lists.little))

(* No CPU is known: both lists are CPU 0.                                  *)
LEMMA NoneSound ==
    ASSUME NEW ps, NEW all, Faithful(ps, <<>>, all)
    PROVE  SoundLists(ps, all, ListsOf(<<>>))
<1> DEFINE none == <<>>
           lists == ListsOf(none)
<1>1. /\ CpusOf(lists.big) = {0} /\ CpusOf(lists.mid) = {} /\ CpusOf(lists.little) = {0}
    BY CpusOfNone DEF ListsOf
<1>2. all => Known(ps) = {}
  <2>1. Len(none) = 0
    OBVIOUS
  <2> HIDE DEF none, lists
  <2>2. Faithful(ps, none, all)
    BY DEF none
  <2> QED
    BY <2>1, <2>2 DEF Faithful
<1> HIDE DEF lists
<1>3. SoundLists(ps, all, lists)
    BY <1>1, <1>2 DEF SoundLists, SoundSets
<1> QED
    BY <1>3 DEF lists

(* All that are there are known.                                           *)
LEMMA KnownSound ==
    ASSUME NEW ps, Known(ps) \subseteq Cpu,
           NEW all, NEW cls, Faithful(ps, cls, all), Falling(cls), cls # <<>>
    PROVE  SoundLists(ps, all, ListsOf(cls))
<1> DEFINE n == Len(cls)
           lists == ListsOf(cls)
           big == CpusOf(lists.big)
           mid == CpusOf(lists.mid)
           little == CpusOf(lists.little)
<1>1. /\ n \in Nat /\ n >= 1
      /\ \A k \in 1 .. n : cls[k].freq \in Int /\ cls[k].cpus \in Seq(Nat) /\ cls[k].cpus # <<>>
  <2>1. cls \in Seq(Cluster) /\ \A k \in 1 .. n : cls[k].cpus # <<>>
    BY DEF Faithful
  <2>2. /\ n \in Nat /\ (cls # <<>> => n # 0)
        /\ \A k \in 1 .. n : cls[k].freq \in Int /\ cls[k].cpus \in Seq(Nat)
    BY <2>1, ClustersOf, EmptySeq
  <2> QED
    BY <2>1, <2>2
<1>2. ASSUME NEW k \in 1 .. n
      PROVE  /\ CpusOf(fmt_cpus(cls[k].cpus)) = {cpu \in Cpu : Has(cls[k].cpus, cpu)}
             /\ \E cpu \in Cpu : Has(cls[k].cpus, cpu)
  <2>1. cls[k].cpus \in Seq(Nat) /\ cls[k].cpus # <<>>
    BY <1>1
  <2>2. Has(cls[k].cpus, cls[k].cpus[1])
    BY <2>1, HasIsToSet
  <2>3. cls[k].cpus[1] \in Cpu
    BY <2>2 DEF Faithful
  <2> QED
    BY <2>1, <2>2, <2>3, CpusOfList
<1>3. /\ lists.big = fmt_cpus(cls[1].cpus) /\ lists.little = fmt_cpus(cls[n].cpus)
      /\ lists.mid = IF n >= 3 THEN fmt_cpus(cls[2].cpus) ELSE <<>>
    BY DEF ListsOf
<1> HIDE DEF n, lists
<1>4. /\ big = {cpu \in Cpu : Has(cls[1].cpus, cpu)} /\ big # {}
      /\ little = {cpu \in Cpu : Has(cls[n].cpus, cpu)} /\ little # {}
  <2>1. 1 \in 1 .. n /\ n \in 1 .. n
    BY <1>1
  <2> QED
    BY <1>2, <1>3, <2>1
<1>5. mid = IF n >= 3 THEN {cpu \in Cpu : Has(cls[2].cpus, cpu)} ELSE {}
  <2>1. n >= 3 => 2 \in 1 .. n
    BY <1>1
  <2> QED
    BY <1>2, <1>3, <2>1, CpusOfNone
<1> HIDE DEF big, mid, little
<1>6. \A i, k \in 1 .. n : \A cpu : Has(cls[i].cpus, cpu) /\ Has(cls[k].cpus, cpu) => i = k
    BY DEF Faithful, n
<1>7. big = little \/ (big \cup mid) \cap little = {}
  <2>1. CASE n = 1
    BY <1>4, <2>1
  <2>2. CASE n # 1
    <3>1. 1 \in 1 .. n /\ n \in 1 .. n /\ (n >= 3 => 2 \in 1 .. n /\ 2 # n)
      BY <1>1
    <3>2. \A cpu : ~ (Has(cls[1].cpus, cpu) /\ Has(cls[n].cpus, cpu))
      BY <1>6, <2>2, <3>1
    <3>3. n >= 3 => \A cpu : ~ (Has(cls[2].cpus, cpu) /\ Has(cls[n].cpus, cpu))
      BY <1>6, <3>1
    <3> QED
      BY <1>4, <1>5, <3>2, <3>3
  <2> QED
    BY <2>1, <2>2
<1>8. big \cap mid = {}
  <2>1. n >= 3 => 1 \in 1 .. n /\ 2 \in 1 .. n
    BY <1>1
  <2>2. n >= 3 => \A cpu : ~ (Has(cls[1].cpus, cpu) /\ Has(cls[2].cpus, cpu))
    BY <1>6, <2>1
  <2> QED
    BY <1>4, <1>5, <2>2
<1>9. ASSUME NEW k \in 1 .. n, NEW cpu, Has(cls[k].cpus, cpu)
      PROVE  FreqIn(ps, cpu) = cls[k].freq
    BY <1>9 DEF Faithful, n
<1>10. ASSUME all, NEW d \in Known(ps)
       PROVE  \E k \in 1 .. n : FreqIn(ps, d) = cls[k].freq
    BY <1>9, <1>10 DEF Faithful, n
<1>11. \A k \in 1 .. n : cls[1].freq >= cls[k].freq /\ cls[k].freq >= cls[n].freq
  <2>1. ASSUME NEW k \in 1 .. n PROVE cls[1].freq >= cls[k].freq
    <3>1. 1 \in 1 .. n /\ (k = 1 \/ 1 < k)
      BY <1>1
    <3> QED
      BY <1>1, <3>1 DEF Falling, n
  <2>2. ASSUME NEW k \in 1 .. n PROVE cls[k].freq >= cls[n].freq
    <3>1. n \in 1 .. n /\ (k = n \/ k < n)
      BY <1>1
    <3> QED
      BY <1>1, <3>1 DEF Falling, n
  <2> QED
    BY <2>1, <2>2
<1>12. ASSUME all, NEW c \in big, NEW d \in Known(ps) PROVE FreqIn(ps, c) >= FreqIn(ps, d)
  <2>1. 1 \in 1 .. n
    BY <1>1
  <2>2. FreqIn(ps, c) = cls[1].freq
    BY <1>4, <1>9, <2>1
  <2> QED
    BY <1>10, <1>11, <1>12, <2>2
<1>13. ASSUME all, NEW c \in little, NEW d \in Known(ps) PROVE FreqIn(ps, c) <= FreqIn(ps, d)
  <2>1. n \in 1 .. n
    BY <1>1
  <2>2. FreqIn(ps, c) = cls[n].freq
    BY <1>4, <1>9, <2>1
  <2>3. PICK k \in 1 .. n : FreqIn(ps, d) = cls[k].freq
    BY <1>10, <1>13
  <2> QED
    BY <1>1, <1>11, <2>1, <2>2, <2>3
<1>14. SoundSets(ps, all, big, mid, little)
    BY <1>4, <1>7, <1>8, <1>12, <1>13 DEF SoundSets
<1> QED
    BY <1>14 DEF SoundLists, lists, big, mid, little

(* Of one cluster known, the CPUs that are not are taken for the others.   *)
LEMMA OfflineSound ==
    ASSUME NEW ps, NEW total \in Nat, total <= CPU_SETSIZE, Known(ps) \subseteq Cpu,
           NEW all, NEW c \in Cluster, Faithful(ps, <<c>>, all),
           (0 .. total - 1) \ Known(<<c>>) # {}
    PROVE  LET extra == Ascending((0 .. total - 1) \ Known(<<c>>))
           IN  SoundLists(ps, all, ListsOf(<<[freq |-> 1, cpus |-> extra], [freq |-> 0, cpus |-> c.cpus]>>))
<1> DEFINE cls == <<c>>
           S == (0 .. total - 1) \ Known(cls)
           extra == Ascending(S)
           lists == ListsOf(<<[freq |-> 1, cpus |-> extra], [freq |-> 0, cpus |-> c.cpus]>>)
           big == CpusOf(lists.big)
           mid == CpusOf(lists.mid)
           little == CpusOf(lists.little)
<1>1. S \in SUBSET Nat /\ S \subseteq Cpu /\ S # {}
    BY Sizes DEF Cpu
<1>2. Fs!IsFiniteSet(S)
  <2>1. Fs!IsFiniteSet(0 .. total - 1) /\ S \subseteq 0 .. total - 1
    BY Fs!FS_Interval
  <2> HIDE DEF S
  <2> QED
    BY <2>1, Fs!FS_Subset
<1>3. /\ lists.big = fmt_cpus(extra) /\ lists.mid = <<>> /\ lists.little = fmt_cpus(c.cpus)
  <2> DEFINE two == <<[freq |-> 1, cpus |-> extra], [freq |-> 0, cpus |-> c.cpus]>>
  <2>1. Len(two) = 2 /\ two # <<>> /\ two[1].cpus = extra /\ two[2].cpus = c.cpus
    OBVIOUS
  <2>2. lists = ListsOf(two)
    OBVIOUS
  <2> HIDE DEF two, lists, extra
  <2> QED
    BY <2>1, <2>2 DEF ListsOf
<1>4. Len(cls) = 1 /\ cls[1] = c /\ cls \in Seq(Cluster) /\ 1 \in 1 .. 1 /\ \A k \in 1 .. 1 : k = 1
    OBVIOUS
<1>5. Faithful(ps, cls, all)
    OBVIOUS
<1> HIDE DEF cls
<1>6. \A cpu : cpu \in Known(cls) <=> Has(c.cpus, cpu)
    BY <1>4, KnownCpus
<1>7. /\ c.cpus \in Seq(Nat) /\ c.cpus # <<>> /\ c.freq \in Int
      /\ \A cpu : Has(c.cpus, cpu) => cpu \in Known(ps) /\ FreqIn(ps, cpu) = c.freq
      /\ all => \A cpu \in Known(ps) : Has(c.cpus, cpu)
    BY <1>4, <1>5 DEF Faithful, Cluster
<1> HIDE DEF S
<1>8. extra \in Seq(Nat) /\ extra # <<>> /\ \A cpu : Has(extra, cpu) <=> cpu \in S
  <2>1. extra \in Seq(Nat) /\ ToSet(extra) = S
    BY <1>1, <1>2, AscendingLists
  <2> HIDE DEF extra
  <2>2. \A cpu : Has(extra, cpu) <=> cpu \in S
    BY <2>1, HasIsToSet
  <2>3. PICK cpu : Has(extra, cpu)
    BY <1>1, <2>2
  <2>4. extra # <<>>
    <3> DEFINE none == <<>>
    <3>1. Len(none) = 0
      OBVIOUS
    <3> HIDE DEF none
    <3>2. ~ Has(none, cpu)
      BY <3>1 DEF Has
    <3> QED
      BY <2>3, <3>2 DEF none
  <2> QED
    BY <2>1, <2>2, <2>4
<1> HIDE DEF extra, lists
<1>9. big = S
    BY <1>1, <1>3, <1>8, CpusOfList
<1>10. mid = {}
    BY <1>3, CpusOfNone
<1>11. little = {cpu \in Cpu : Has(c.cpus, cpu)} /\ little # {}
  <2>1. little = {cpu \in Cpu : Has(c.cpus, cpu)}
    BY <1>3, <1>7, CpusOfList
  <2>2. Has(c.cpus, c.cpus[1])
    BY <1>7, HasIsToSet
  <2>3. c.cpus[1] \in Cpu
    BY <1>7, <2>2
  <2> QED
    BY <2>1, <2>2, <2>3
<1> HIDE DEF big, mid, little
<1>12. \A cpu : ~ (cpu \in S /\ Has(c.cpus, cpu))
    BY <1>6 DEF S
<1>13. big \cap little = {} /\ (all => big \cap Known(ps) = {})
    BY <1>7, <1>9, <1>11, <1>12
<1>14. all => \A x \in little \cap Known(ps), d \in Known(ps) : FreqIn(ps, x) <= FreqIn(ps, d)
    BY <1>7
<1>15. SoundSets(ps, all, big, mid, little)
    BY <1>1, <1>9, <1>10, <1>11, <1>13, <1>14 DEF SoundSets
<1> QED
    BY <1>15 DEF SoundLists, lists, big, mid, little, extra, S, cls

(* Whichever way the clusters are known, and whichever CPUs are not.       *)
LEMMA DetectSound ==
    ASSUME NEW ps, NEW total \in Nat, total <= CPU_SETSIZE, Known(ps) \subseteq Cpu,
           NEW all, NEW cls, Faithful(ps, cls, all), Falling(cls)
    PROVE  SoundLists(ps, all, ListsOf(WithOffline(cls, total)))
<1> DEFINE extra == Ascending((0 .. total - 1) \ Known(cls))
           others == Len(cls) = 1 /\ total > Len(cls[1].cpus) /\ extra # <<>>
<1>1. CASE ~ others
  <2>1. WithOffline(cls, total) = cls
    BY <1>1 DEF WithOffline
  <2>2. CASE cls = <<>>
    BY <2>1, <2>2, NoneSound
  <2>3. CASE cls # <<>>
    BY <2>1, <2>3, KnownSound
  <2> QED
    BY <2>2, <2>3
<1>2. CASE others
  <2> DEFINE c == cls[1]
  <2>1. cls \in Seq(Cluster) /\ Len(cls) = 1
    BY <1>2 DEF Faithful
  <2>2. c \in Cluster /\ cls = <<c>>
    <3>1. c \in Cluster
      BY <2>1, ElementOfSeq
    <3> QED
      BY <2>1, SMTT(60)
  <2>3. WithOffline(cls, total) = <<[freq |-> 1, cpus |-> extra], [freq |-> 0, cpus |-> c.cpus]>>
    BY <1>2 DEF WithOffline
  <2>4. (0 .. total - 1) \ Known(cls) # {}
    <3> DEFINE S == (0 .. total - 1) \ Known(cls)
    <3>1. S = {} => Ascending(S) = <<>>
      <4> DEFINE list == Ascending(S)
      <4>1. S \in SUBSET Nat
        OBVIOUS
      <4>2. S = {} => Fs!IsFiniteSet(S)
        BY Fs!FS_EmptySet
      <4> HIDE DEF S
      <4>3. S = {} => list \in Seq(Nat) /\ ToSet(list) = {}
        BY <4>1, <4>2, AscendingLists
      <4> HIDE DEF list
      <4>4. ASSUME list \in Seq(Nat), ToSet(list) = {} PROVE list = <<>>
        <5>1. ~ Has(list, list[1])
          BY <4>4, HasIsToSet
        <5> QED
          BY <4>4, <5>1, HasIsToSet
      <4> QED
        BY <4>3, <4>4 DEF list
    <3> HIDE DEF S
    <3> QED
      BY <1>2, <3>1 DEF S
  <2> HIDE DEF c
  <2>5. Faithful(ps, <<c>>, all) /\ (0 .. total - 1) \ Known(<<c>>) # {}
    BY <2>2, <2>4
  <2>6. extra = Ascending((0 .. total - 1) \ Known(<<c>>))
    BY <2>2
  <2> HIDE DEF extra, others
  <2>7. SoundLists(ps, all, ListsOf(<<[freq |-> 1, cpus |-> extra], [freq |-> 0, cpus |-> c.cpus]>>))
    BY <2>2, <2>5, <2>6, OfflineSound
  <2> QED
    BY <2>3, <2>7
<1> QED
    BY <1>1, <1>2

(* No CPU is beyond what the code looks at.                                *)
LEMMA FewCpus ==
    ASSUME PoliciesOK
    PROVE  Present \in Nat /\ Present <= CPU_FILES /\ Present <= CPU_SETSIZE
<1> DEFINE n == Len(policies)
           N == Cardinality(Known(policies))
           U == Cardinality(DOMAIN unknown)
<1>1. /\ n \in Nat /\ n <= MaxPolicies /\ N \in Nat /\ N <= n * MaxCpus
      /\ U \in Nat /\ U <= MaxUnknown /\ Present = N + U
      /\ MaxPolicies \in Nat /\ MaxCpus \in Nat /\ MaxUnknown \in Nat
    BY BoundsAssumption, LenProperties DEF PoliciesOK, Device, Numbered
<1> HIDE DEF n, N, U
<1>2. (MaxPolicies - n) * MaxCpus \in Nat
    BY <1>1
<1>3. (MaxPolicies - n) * MaxCpus = MaxPolicies * MaxCpus - n * MaxCpus
    BY <1>1
<1>4. n * MaxCpus \in Nat /\ MaxPolicies * MaxCpus \in Nat
    BY <1>1
<1>5. N <= MaxPolicies * MaxCpus
    BY <1>1, <1>2, <1>3, <1>4
<1>6. Present \in Nat /\ Present <= MaxPolicies * MaxCpus + MaxUnknown
    BY <1>1, <1>4, <1>5
<1> QED
    BY <1>1, <1>4, <1>6, BoundsAssumption, TopologyAssumption, Sizes

(* In whichever state, the clusters are faithful before those that are not *)
(* known are counted.                                                      *)
LEMMA DetectedLists ==
    ASSUME PoliciesOK
    PROVE  \E cls :
              /\ Faithful(policies, cls, AllFound) /\ Falling(cls)
              /\ Detected = ListsOf(WithOffline(cls, Present))
              /\ readable /\ Len(policies) >= 2 => cls = Descending(policies)
<1> DEFINE read == IF readable THEN policies ELSE <<>>
           files == FreqFiles(policies, unknown, Present)
           base == IF Len(read) < 2 THEN PerCpu(files) ELSE read
           cls == Descending(base)
<1>1. /\ Device(policies) /\ Len(policies) \in Nat
      /\ unknown \in [DOMAIN unknown -> {Missing, Bad}]
      /\ Numbered(Known(policies), DOMAIN unknown, Present)
      /\ Present \in Nat /\ Present <= CPU_FILES
    BY LenProperties, FewCpus DEF PoliciesOK, Device
<1>2. Online = Known(policies) /\ \A cpu : Freq(cpu) = FreqIn(policies, cpu)
    BY DEF Online, Known, Freq, FreqIn
<1>3. Detected = detect(read, files, Present)
    BY <1>2 DEF Detected, FreqFiles
<1>4. AllFound <=> (readable /\ Len(policies) >= 2) \/ NoneMissing(policies, unknown)
    BY <1>2 DEF AllFound, NoneMissing
<1>5. Faithful(policies, PerCpu(files), NoneMissing(policies, unknown))
    BY <1>1, FilesFaithful
<1>6. readable /\ Len(policies) >= 2 => base = policies
    BY <1>1
<1>7. ~ (readable /\ Len(policies) >= 2) => base = PerCpu(files)
  <2> DEFINE none == <<>>
  <2>1. Len(none) = 0
    OBVIOUS
  <2> QED
    BY <1>1, <2>1
<1>8. clusters(read, files, Present) = WithOffline(cls, Present)
    BY DEF clusters
<1>9. Detected = ListsOf(WithOffline(cls, Present))
  <2> HIDE DEF read, cls, files
  <2> QED
    BY <1>3, <1>8 DEF detect, ListsOf
<1> HIDE DEF base, files
<1>10. Faithful(policies, base, AllFound)
  <2>1. CASE readable /\ Len(policies) >= 2
    BY <1>1, <1>6, <2>1, PoliciesFaithful
  <2>2. CASE ~ (readable /\ Len(policies) >= 2)
    <3>1. AllFound => NoneMissing(policies, unknown)
      BY <1>4, <2>2
    <3> QED
      BY <1>5, <1>7, <2>2, <3>1 DEF Faithful
  <2> QED
    BY <2>1, <2>2
<1>11. Faithful(policies, cls, AllFound) /\ Falling(cls)
    BY <1>10, SortedFaithful
<1> QED
    BY <1>6, <1>9, <1>11

(* detect (cpu.rs:8) never gives an empty list, nor one CPU to two of      *)
(* them, for devices with any number of policies and of CPUs that are      *)
(* offline or have no frequency, whatever their numbers, as long as a      *)
(* CpuSet has a bit for each.  Nor does it give a faster CPU to the list   *)
(* of the slower, if there are two policies that can be read or no file is *)
(* missing (cpu.rs:40) before one of a CPU that is online.                 *)
THEOREM ClustersAreSound == Spec => []ClustersSound
<1>1. PoliciesOK => ClustersSound
  <2> SUFFICES ASSUME PoliciesOK PROVE ClustersSound
    OBVIOUS
  <2>1. PICK cls : /\ Faithful(policies, cls, AllFound) /\ Falling(cls)
                   /\ Detected = ListsOf(WithOffline(cls, Present))
    BY DetectedLists
  <2>2. Present \in Nat /\ Present <= CPU_SETSIZE /\ Known(policies) \subseteq Cpu
    <3>1. Present \in Nat /\ Present <= CPU_SETSIZE
      BY FewCpus
    <3>2. Known(policies) \subseteq 0 .. Present - 1
      BY DEF PoliciesOK, Numbered
    <3> QED
      BY <3>1, <3>2, Sizes DEF Cpu
  <2>3. SoundLists(policies, AllFound, Detected)
    BY <2>1, <2>2, DetectSound
  <2>4. Online = Known(policies) /\ \A cpu : Freq(cpu) = FreqIn(policies, cpu)
    BY DEF Online, Known, Freq, FreqIn
  <2> QED
    BY <2>3, <2>4 DEF SoundLists, SoundSets, ClustersSound
<1> QED
    BY <1>1, PoliciesInductive, PTL

(* The groups of detect_core_types (cpuset.rs:234) are the clusters of     *)
(* detect, for two or three policies of different frequencies and however  *)
(* many CPUs.                                                              *)
THEOREM TopologiesAlwaysAgree == Spec => []TopologiesAgree
<1>1. PoliciesOK => TopologiesAgree
  <2> SUFFICES ASSUME PoliciesOK, readable, Len(policies) \in 2 .. 3,
                      \A i, k \in DOMAIN policies : policies[i].freq = policies[k].freq => i = k
               PROVE  LET types == detect_core_types(policies)
                      IN  /\ from_range(Detected.big) = types.hp_core
                          /\ from_range(Detected.little) = types.e_core
                          /\ from_range(Detected.mid) = types.p_core
    BY DEF TopologiesAgree
  <2> DEFINE cls == Descending(policies)
             n == Len(cls)
             types == detect_core_types(policies)
             total == Present
  <2>1. /\ policies \in Seq(Cluster) /\ DOMAIN policies = 1 .. Len(policies)
        /\ Len(policies) \in Nat /\ Len(policies) >= 2
        /\ \A i \in 1 .. Len(policies) : policies[i].freq \in Int /\ policies[i].freq > 0
    <3>1. /\ policies \in Seq(Cluster)
          /\ \A i \in 1 .. Len(policies) : policies[i].freq > 0
      BY DEF PoliciesOK, Device
    <3> HIDE DEF cls, n, types, total
    <3>2. /\ DOMAIN policies = 1 .. Len(policies) /\ Len(policies) \in Nat
          /\ \A i \in 1 .. Len(policies) : policies[i].freq \in Int
      BY <3>1, ClustersOf
    <3>3. Len(policies) >= 2
      OBVIOUS
    <3> QED
      BY <3>1, <3>2, <3>3
  <2>2. Grouped(policies, {0})[Len(policies)] = policies
    <3> HIDE DEF cls, n, types, total
    <3>1. \A i, k \in 1 .. Len(policies) : policies[i].freq = policies[k].freq => i = k
      BY <2>1
    <3>2. \A i \in 1 .. Len(policies) : policies[i].freq \notin {0}
      BY <2>1
    <3> QED
      BY <2>1, <3>1, <3>2, GroupsAreClusters
  <2>3. types = CoreTypes(cls)
    BY <2>2, Zenon DEF detect_core_types
  <2>4. n = Len(policies) /\ cls \in Seq(Cluster)
    BY <2>1, Sorted
  <2>5. Faithful(policies, cls, AllFound) /\ Detected = ListsOf(WithOffline(cls, total))
    BY <2>1, DetectedLists
  <2> HIDE DEF cls, n, types
  <2>6. Detected = ListsOf(cls)
    <3>1. n # 1
      BY <2>1, <2>4
    <3>2. WithOffline(cls, total) = cls
      BY <3>1 DEF WithOffline, n
    <3> QED
      BY <2>5, <3>2
  <2>7. ASSUME NEW k \in 1 .. n
        PROVE  from_range(fmt_cpus(cls[k].cpus)) = AllOf(cls, k, k)
    <3>1. cls[k].cpus \in Seq(Nat) /\ cls[k].cpus # <<>> /\ k \in Nat
      BY <2>4, <2>5, ClustersOf DEF Faithful, n
    <3>2. from_range(fmt_cpus(cls[k].cpus)) = set(new, ToSet(cls[k].cpus))
      BY <3>1, ListMeansItsCpus
    <3>3. UNION {ToSet(cls[i].cpus) : i \in k .. k} = ToSet(cls[k].cpus)
      BY <3>1
    <3> QED
      BY <3>2, <3>3 DEF AllOf
  <2>8. /\ cls # <<>> /\ n \in 2 .. 3
        /\ Detected.big = fmt_cpus(cls[1].cpus) /\ Detected.little = fmt_cpus(cls[n].cpus)
        /\ Detected.mid = IF n >= 3 THEN fmt_cpus(cls[2].cpus) ELSE <<>>
    <3>1. cls # <<>> /\ n \in 2 .. 3
      BY <2>4 DEF n
    <3> QED
      BY <2>6, <3>1 DEF ListsOf, n
  <2>9. /\ types.hp_core = AllOf(cls, 1, 1) /\ types.e_core = AllOf(cls, n, n)
        /\ types.p_core = AllOf(cls, 2, n - 1)
    BY <2>3, <2>8 DEF CoreTypes, n
  <2>10. from_range(Detected.big) = types.hp_core /\ from_range(Detected.little) = types.e_core
    <3>1. 1 \in 1 .. n /\ n \in 1 .. n
      BY <2>8
    <3> QED
      BY <2>7, <2>8, <2>9, <3>1
  <2>11. from_range(Detected.mid) = types.p_core
    <3>1. CASE n = 2
      <4>1. 2 .. n - 1 = {}
        BY <3>1
      <4>2. AllOf(cls, 2, n - 1) = set(new, {})
        BY <4>1 DEF AllOf
      <4> QED
        BY <2>8, <2>9, <3>1, <4>2, CpusOfNone
    <3>2. CASE n = 3
      <4>1. n - 1 = 2 /\ 2 \in 1 .. n
        BY <3>2
      <4> QED
        BY <2>7, <2>8, <2>9, <3>2, <4>1
    <3> QED
      BY <2>8, <3>1, <3>2
  <2> QED
    BY <2>10, <2>11 DEF types
<1> QED
    BY <1>1, PoliciesInductive, PTL
=============================================================================
