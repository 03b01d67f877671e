----------------------------- MODULE RuleMatch -----------------------------
(***************************************************************************)
(* The rule engine: src/src/rule_match.rs, and from src/src/config.rs the  *)
(* rule record and pkg_has_thread_rules.                                   *)
(*                                                                         *)
(* Abstractions.  Package names, thread names, command names and patterns  *)
(* are members of one set Names; the empty string is Empty.  What matches  *)
(* what is the parameter fnmatch.  A CPU list string is the set of CPUs it *)
(* parses to (cpuset::from_range), and a cpuset directory, which the code  *)
(* names after the range string of its CPU set, is that CPU set; the empty *)
(* directory name is the empty set.  A Rust Option is a set with at most   *)
(* one element.                                                            *)
(***************************************************************************)
EXTENDS Naturals, Sequences, FiniteSets

CONSTANTS
    Names,          \* package, thread and command names, and patterns
    Empty,          \* the empty string
    Cpus,           \* the CPU numbers rules speak of
    Present,        \* topo.present_cpus
    CreatableDirs,  \* the CPU sets create_cpuset_dir succeeds for; {} without /dev/cpuset
    fnmatch(_, _)   \* config::fnmatch(pattern, name)

ASSUME NamesAssumption ==
    /\ Empty \notin Names
    /\ Present \subseteq Cpus
    /\ CreatableDirs \subseteq SUBSET Cpus
    /\ \A pat, name \in Names : fnmatch(pat, name) \in BOOLEAN

(* config.rs Rule: prio is never read by thread_affinity and is left out. *)
Rule == [pkg : Names, thread : Names \cup {Empty}, cpus : SUBSET Cpus,
         cpuset_dir : SUBSET Cpus]

(* AppConfig::load names a package rule's directory after its CPUs; it is  *)
(* "" when it cannot be made, for a thread rule, and from the cache file.  *)
RuleDirAgrees(rule) == rule.cpuset_dir \in {{}, rule.cpus}

(* The fields of AppConfig the daemon reads while it runs. *)
AppConfig == [rules : Seq(Rule), pkg_set : SUBSET Names, wild : SUBSET Names]

AffinityResult == [cpus : SUBSET Cpus, cpuset_dir : SUBSET Cpus,
                   is_thread_rule : BOOLEAN]

-----------------------------------------------------------------------------

pkg_has_thread_rules(pkg, cfg) ==
    \E i \in DOMAIN cfg.rules :
        /\ cfg.rules[i].thread # Empty
        /\ fnmatch(cfg.rules[i].pkg, pkg)

(* cpuset::ensure_cpuset_dir: the directory named after cpus, or "" when   *)
(* cpusets are disabled or the directory cannot be made.                   *)
ensure_cpuset_dir(cpus) == IF cpus \in CreatableDirs THEN cpus ELSE {}

(* The rules whose CPUs the first loop of thread_affinity accumulates ...  *)
ThreadRules(pkg, thread, cfg) ==
    {i \in DOMAIN cfg.rules :
        /\ cfg.rules[i].pkg = pkg
        /\ cfg.rules[i].thread # Empty
        /\ thread # Empty
        /\ fnmatch(cfg.rules[i].thread, thread)}

(* ... and the second one, for the package as a whole. *)
PackageRules(pkg, cfg) ==
    {i \in DOMAIN cfg.rules :
        /\ cfg.rules[i].pkg = pkg
        /\ cfg.rules[i].thread = Empty}

CpusOf(I, cfg) == UNION {cfg.rules[i].cpus : i \in I}

(* Faulty variant of FallbackDir: a second package rule does not clear the *)
(* directory of the first.                                                 *)
FallbackDirOfFirst(I, cfg) ==
    IF I = {} THEN {}
    ELSE cfg.rules[CHOOSE i \in I : \A k \in I : i <= k].cpuset_dir

(* The fallback's directory: the single package rule's own one, or a fresh *)
(* one if that could not be made at load; a second package rule clears it. *)
FallbackDir(I, cfg) ==
    IF \E i \in I : I = {i}
    THEN LET rule == cfg.rules[CHOOSE i \in I : TRUE]
         IN  IF rule.cpuset_dir = {} THEN ensure_cpuset_dir(rule.cpus)
             ELSE rule.cpuset_dir
    ELSE {}

(* Thread rules accumulate; without one the package rules do; and if that  *)
(* leaves no CPU, a package with thread rules is left on every present CPU *)
(* and any other is left alone.                                            *)
thread_affinity(pkg, thread, cfg) ==
    LET own     == ThreadRules(pkg, thread, cfg)
        general == PackageRules(pkg, cfg)
        matched == own # {}
        cpus    == CpusOf(IF matched THEN own ELSE general, cfg)
        dir     == IF matched THEN ensure_cpuset_dir(cpus)
                   ELSE FallbackDir(general, cfg)
    IN  IF cpus # {}
        THEN {[cpus |-> cpus, cpuset_dir |-> dir, is_thread_rule |-> matched]}
        ELSE IF pkg_has_thread_rules(pkg, cfg)
        THEN {[cpus |-> Present, cpuset_dir |-> {}, is_thread_rule |-> FALSE]}
        ELSE {}
=============================================================================
