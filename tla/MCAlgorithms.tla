---------------------------- MODULE MCAlgorithms ----------------------------
(***************************************************************************)
(* The pure algorithms of NameMatch and CpuTopology on every small input:  *)
(* a state is an input, and a step makes it larger.  There are four kinds: *)
(* two configured packages and a comm, a pattern and a name, a list of     *)
(* CPUs, and the cpufreq policies of a device.                             *)
(***************************************************************************)
EXTENDS NameMatch, CpuTopology

CONSTANTS
    MaxName,     \* bound on the bytes of a package's name
    MaxPattern,  \* bound on the bytes of a pattern, and of the name it is to match
    MaxPolicies, \* bound on the policies of a device
    MaxFreq,     \* bound on their frequencies
    MaxCpus,     \* bound on the CPUs of a policy
    MaxUnknown   \* bound on the CPUs that are present but in no policy

(* A device has no CPU that a CpuSet has no bit for, nor one that detect   *)
(* does not look for.                                                      *)
ASSUME BoundsAssumption ==
    /\ MaxPolicies \in Nat /\ MaxFreq \in Nat /\ MaxCpus \in Nat /\ MaxUnknown \in Nat
    /\ MaxPolicies * MaxCpus + MaxUnknown <= CPU_FILES
    /\ MaxPolicies * MaxCpus + MaxUnknown <= CPU_SETSIZE

VARIABLES
    kind,
    pkgs, comm,         \* the configured packages, and what a thread is called
    pat, name,
    cpus,
    policies, readable, \* the policies, and whether their directory can be read
    unknown             \* what the frequency files of the other CPUs are: Missing or Bad

vars == <<kind, pkgs, comm, pat, name, cpus, policies, readable, unknown>>

Init ==
    /\ kind \in {"comm", "pattern", "cpus", "policies"}
    /\ pkgs = <<<<>>, <<>>>> /\ comm = <<>>
    /\ pat = <<>> /\ name = <<>>
    /\ cpus = <<>>
    /\ policies = <<>> /\ readable = TRUE /\ unknown = [cpu \in {} |-> Missing]

NextComm ==
    /\ kind = "comm"
    /\ \E b \in Byte :
          \/ \E i \in 1 .. 2 : /\ Len(pkgs[i]) < MaxName
                               /\ pkgs' = [pkgs EXCEPT ![i] = Append(@, b)]
                               /\ UNCHANGED comm
          \/ Len(comm) < CommLen /\ comm' = Append(comm, b) /\ UNCHANGED pkgs
    /\ UNCHANGED <<kind, pat, name, cpus, policies, readable, unknown>>

NextPattern ==
    /\ kind = "pattern"
    /\ \/ Len(pat) < MaxPattern /\ pat' \in {Append(pat, b) : b \in Byte \cup {Star, AnyByte}}
            /\ UNCHANGED name
       \/ Len(name) < MaxPattern /\ name' \in {Append(name, b) : b \in Byte} /\ UNCHANGED pat
    /\ UNCHANGED <<kind, pkgs, comm, cpus, policies, readable, unknown>>

NextCpus ==
    /\ kind = "cpus"
    /\ \E cpu \in (0 .. CPU_SETSIZE - 1) \ ToSet(cpus) : cpus' = Append(cpus, cpu)
    /\ UNCHANGED <<kind, pkgs, comm, pat, name, policies, readable, unknown>>

(* The CPUs of the policies.  Those of no policy have numbers anywhere     *)
(* between and behind them.                                                *)
Online == UNION {ToSet(policies[i].cpus) : i \in DOMAIN policies}

Present == Cardinality(Online) + Cardinality(DOMAIN unknown)

(* A policy of the next CPUs, read before or after any other one, or a CPU *)
(* of none: it is offline, or its frequency cannot be parsed.              *)
NextPolicies ==
    /\ kind = "policies"
    /\ \/ /\ Len(policies) < MaxPolicies
          /\ \E freq \in 1 .. MaxFreq, size \in 1 .. MaxCpus, at \in 1 .. Len(policies) + 1 :
                policies' = InsertAt(policies, at,
                                     [freq |-> freq,
                                      cpus |-> [k \in 1 .. size |-> Present + k - 1]])
          /\ UNCHANGED <<readable, unknown>>
       \/ /\ Cardinality(DOMAIN unknown) < MaxUnknown
          /\ \E f \in {Missing, Bad} :
                unknown' = [cpu \in DOMAIN unknown \cup {Present} |->
                              IF cpu = Present THEN f ELSE unknown[cpu]]
          /\ UNCHANGED <<policies, readable>>
       \/ readable /\ readable' = FALSE /\ UNCHANGED <<policies, unknown>>
    /\ UNCHANGED <<kind, pkgs, comm, pat, name, cpus>>

Next == NextComm \/ NextPattern \/ NextCpus \/ NextPolicies

Spec == Init /\ [][Next]_vars

-----------------------------------------------------------------------------
(* Names.                                                                  *)

(* Whatever comm the daemon recognises as a configured package's, the      *)
(* tracepoint programs report: their windows, two keys per name and its    *)
(* cut-off comm go together (bpf.rs:364), for every place of the cut.      *)
RecognisedIsReported ==
    comm # <<>> /\ comm_to_pkg(comm, ToSet(pkgs)) # {}
        => whitelist_matched(comm, comm_keys_build(ToSet(pkgs)))

(* A process of a configured package is recognised by its comm, whichever  *)
(* end of the name the comm shows, as some package with that comm.         *)
OwnCommRecognised ==
    \A pkg \in ToSet(pkgs) : \A c \in Comms(pkg) :
        /\ comm_to_pkg(c, ToSet(pkgs)) # {}
        /\ \A p \in comm_to_pkg(c, ToSet(pkgs)) : c \in Comms(p)

(* The documented meaning of a pattern: n can be cut so that each byte of  *)
(* p has a part of its own, that byte itself or, for a star, any bytes, or *)
(* for a '?', any one.  (The inputs have no example of the third kind of   *)
(* wildcard, '[a-z]'; fnmatch takes it literally as it does the '?'.)      *)
Glob(p, n) ==
    \E cut \in [0 .. Len(p) -> 0 .. Len(n)] :
        /\ cut[0] = 0 /\ cut[Len(p)] = Len(n)
        /\ \A i \in 1 .. Len(p) :
              IF p[i] = Star THEN cut[i - 1] <= cut[i]
              ELSE cut[i] = cut[i - 1] + 1 /\ (p[i] = AnyByte \/ n[cut[i]] = p[i])

(* fnmatch matches what a pattern means whose only wildcard is one star,   *)
(* whose two sides may not overlap in the name (config.rs:9).  README.md:66*)
(* promises '*', and no pattern that is shipped has more than one.         *)
OneStarMatches ==
    pat # <<>> /\ AnyByte \notin ToSet(pat) /\ Cardinality(Stars(pat)) <= 1
        => (fnmatch(pat, name) <=> Glob(pat, name))

(* README.md:112 promises '?' for any one byte, as in Thread-???, and      *)
(* config.rs:71 lists a package with one among the patterns: refuted by a  *)
(* run, because fnmatch looks for the byte '?' itself.                     *)
QuestionMarkMatches ==
    pat # <<>> /\ Stars(pat) = {} => (fnmatch(pat, name) <=> Glob(pat, name))

-----------------------------------------------------------------------------
(* CPU lists and clusters.                                                 *)

(* A printed list means the same CPUs when it is parsed again: a cpuset    *)
(* directory's name, and the rules of the auto-assignment cache, go        *)
(* through both.                                                           *)
ListRoundTrip ==
    /\ from_range(to_range_string(set(new, ToSet(cpus)))) = set(new, ToSet(cpus))
    /\ cpus # <<>> => from_range(fmt_cpus(cpus)) = set(new, ToSet(cpus))

(* A CPU set has one name: its list is ascending, with a gap between any   *)
(* two ranges, also across the words.  So the directory of equal CPU sets  *)
(* is the same one (rule_match.rs:27).                                     *)
ListCanonical ==
    LET parts == to_range_string(set(new, ToSet(cpus)))
    IN  /\ \A i \in DOMAIN parts : Len(parts[i]) = 2 => parts[i][1] < parts[i][2]
        /\ \A i \in 1 .. Len(parts) - 1 : parts[i][Len(parts[i])] + 1 < parts[i + 1][1]

Freq(cpu) == (CHOOSE p \in ToSet(policies) : cpu \in ToSet(p.cpus)).freq

Detected ==
    detect(IF readable THEN policies ELSE <<>>,
           [i \in 1 .. Present |-> IF i - 1 \in Online THEN Freq(i - 1) ELSE unknown[i - 1]],
           Present)

CpusOf(parts) == {cpu \in 0 .. CPU_SETSIZE - 1 : is_set(from_range(parts), cpu)}

(* The frequency of each CPU that is online is found: from the policies,   *)
(* or from the files of the CPUs when none before it is missing.           *)
AllFound ==
    \/ readable /\ Len(policies) >= 2
    \/ \A c \in Online, d \in DOMAIN unknown : d < c => unknown[d] # Missing

(* The clusters the auto-assignment binds to: never empty and no CPU in    *)
(* two of them when there are two, however the policies are read and       *)
(* whichever CPUs are offline.  And none of a slower cluster is faster, if *)
(* all frequencies are found: what is behind a missing file is taken for   *)
(* a big CPU (cpu.rs:59) or is in no cluster, however fast it is.          *)
ClustersSound ==
    LET big    == CpusOf(Detected.big)
        mid    == CpusOf(Detected.mid)
        little == CpusOf(Detected.little)
    IN  kind = "policies" =>
        /\ big # {} /\ little # {}
        /\ big = little \/ (big \cup mid) \cap little = {}
        /\ big \cap mid = {}
        /\ AllFound =>
             /\ \A c \in big \cap Online, d \in Online : Freq(c) >= Freq(d)
             /\ \A c \in little \cap Online, d \in Online : Freq(c) <= Freq(d)

(* The daemon's two views of the topology agree when no two policies have  *)
(* the same frequency and there are no more than three: of more, cpu.rs:70 *)
(* takes only the second for the middle.                                   *)
TopologiesAgree ==
    LET types == detect_core_types(policies)
    IN  kind = "policies" /\ readable /\ Len(policies) \in 2 .. 3
          /\ (\A i, k \in DOMAIN policies : policies[i].freq = policies[k].freq => i = k)
        => /\ from_range(Detected.big) = types.hp_core
           /\ from_range(Detected.little) = types.e_core
           /\ from_range(Detected.mid) = types.p_core
=============================================================================
