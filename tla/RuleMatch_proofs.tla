-------------------------- MODULE RuleMatch_proofs --------------------------
(***************************************************************************)
(* Facts about the rule engine and the process cache's maps.               *)
(***************************************************************************)
EXTENDS ProcCache, TLAPS

(* The CPUs of any selection of rules are CPUs. *)
LEMMA CpusOfType ==
    ASSUME NEW cfg \in AppConfig, NEW I \in SUBSET (DOMAIN cfg.rules)
    PROVE  CpusOf(I, cfg) \subseteq Cpus
<1>1. cfg.rules \in Seq(Rule)
    BY DEF AppConfig
<1>2. \A i \in I : cfg.rules[i] \in Rule
    BY <1>1
<1>3. \A i \in I : cfg.rules[i].cpus \subseteq Cpus
    BY <1>2 DEF Rule
<1> QED
    BY <1>3 DEF CpusOf

(* One rule alone gives its own CPUs. *)
LEMMA CpusOfOne ==
    ASSUME NEW cfg, NEW i
    PROVE  CpusOf({i}, cfg) = cfg.rules[i].cpus
    BY DEF CpusOf

(* The result of thread_affinity is an affinity: CPU sets and a flag.      *)
LEMMA ThreadAffinityType ==
    ASSUME NEW cfg \in AppConfig, NEW pkg, NEW thread
    PROVE  thread_affinity(pkg, thread, cfg) \subseteq AffinityResult
<1> DEFINE own == ThreadRules(pkg, thread, cfg)
           general == PackageRules(pkg, cfg)
           cpus == CpusOf(IF own # {} THEN own ELSE general, cfg)
           dir == IF own # {} THEN ensure_cpuset_dir(cpus)
                  ELSE FallbackDir(general, cfg)
<1>1. own \subseteq DOMAIN cfg.rules /\ general \subseteq DOMAIN cfg.rules
    BY DEF ThreadRules, PackageRules
<1>2. cpus \subseteq Cpus
    BY <1>1, CpusOfType
<1>3. \A c \in SUBSET Cpus : ensure_cpuset_dir(c) \subseteq Cpus
    BY DEF ensure_cpuset_dir
<1>4. FallbackDir(general, cfg) \subseteq Cpus
  <2>1. CASE \E i \in general : general = {i}
    <3>1. (CHOOSE i \in general : TRUE) \in general
        BY <2>1
    <3>2. cfg.rules[CHOOSE i \in general : TRUE] \in Rule
        BY <3>1, <1>1 DEF AppConfig
    <3> QED
        BY <2>1, <3>2, <1>3 DEF FallbackDir, Rule
  <2>2. CASE ~ \E i \in general : general = {i}
    BY <2>2 DEF FallbackDir
  <2> QED
    BY <2>1, <2>2
<1>5. dir \subseteq Cpus
    BY <1>2, <1>3, <1>4
<1>6. Present \subseteq Cpus
    BY NamesAssumption
<1>7. \A r \in thread_affinity(pkg, thread, cfg) :
          \/ r = [cpus |-> cpus, cpuset_dir |-> dir, is_thread_rule |-> own # {}]
          \/ r = [cpus |-> Present, cpuset_dir |-> {}, is_thread_rule |-> FALSE]
    BY Zenon DEF thread_affinity
<1> DEFINE matched == own # {}
<1>8. matched \in BOOLEAN
    OBVIOUS
<1> HIDE DEF own, cpus, dir
<1>9. [cpus |-> cpus, cpuset_dir |-> dir, is_thread_rule |-> matched] \in AffinityResult
    BY <1>2, <1>5, <1>8 DEF AffinityResult
<1>10. [cpus |-> Present, cpuset_dir |-> {}, is_thread_rule |-> FALSE] \in AffinityResult
    BY <1>6 DEF AffinityResult
<1> QED
    BY <1>7, <1>9, <1>10

(* The directory a result names is the one of the result's CPUs, or none:  *)
(* thread_affinity recomputes it for accumulated CPUs (rule_match.rs:27).  *)
THEOREM ThreadAffinityDir ==
    ASSUME NEW cfg \in AppConfig, NEW pkg, NEW thread,
           \A i \in DOMAIN cfg.rules : RuleDirAgrees(cfg.rules[i])
    PROVE  \A r \in thread_affinity(pkg, thread, cfg) : r.cpuset_dir \in {{}, r.cpus}
<1> DEFINE own == ThreadRules(pkg, thread, cfg)
           general == PackageRules(pkg, cfg)
           cpus == CpusOf(IF own # {} THEN own ELSE general, cfg)
           dir == IF own # {} THEN ensure_cpuset_dir(cpus)
                  ELSE FallbackDir(general, cfg)
<1>1. general \subseteq DOMAIN cfg.rules
    BY DEF PackageRules
<1>2. FallbackDir(general, cfg) \in {{}, CpusOf(general, cfg)}
  <2>1. CASE \E i \in general : general = {i}
    <3>1. PICK i \in general : general = {i}
        BY <2>1
    <3>2. (CHOOSE k \in general : TRUE) = i
        BY <3>1
    <3>3. CpusOf(general, cfg) = cfg.rules[i].cpus
        BY <3>1, CpusOfOne
    <3>4. RuleDirAgrees(cfg.rules[i])
        BY <1>1
    <3> QED
        BY <2>1, <3>2, <3>3, <3>4 DEF FallbackDir, RuleDirAgrees, ensure_cpuset_dir
  <2>2. CASE ~ \E i \in general : general = {i}
    BY <2>2 DEF FallbackDir
  <2> QED
    BY <2>1, <2>2
<1>3. dir \in {{}, cpus}
    BY <1>2 DEF ensure_cpuset_dir
<1>4. \A r \in thread_affinity(pkg, thread, cfg) :
          \/ r = [cpus |-> cpus, cpuset_dir |-> dir, is_thread_rule |-> own # {}]
          \/ r = [cpus |-> Present, cpuset_dir |-> {}, is_thread_rule |-> FALSE]
    BY Zenon DEF thread_affinity
<1> HIDE DEF own, cpus, dir
<1> QED
    BY <1>3, <1>4

-----------------------------------------------------------------------------

(* Inserting and removing keys keep the type of a map. *)
LEMMA InsertType ==
    ASSUME NEW K, NEW V, NEW map, IsMap(map, K, V), NEW key \in K, NEW value \in V
    PROVE  IsMap(Insert(map, key, value), K, V)
    BY DEF IsMap, Insert

LEMMA InsertProperties ==
    ASSUME NEW map, NEW key, NEW value
    PROVE  /\ DOMAIN Insert(map, key, value) = DOMAIN map \cup {key}
           /\ Insert(map, key, value)[key] = value
           /\ \A x \in DOMAIN map \ {key} : Insert(map, key, value)[x] = map[x]
    BY DEF Insert

LEMMA RemoveType ==
    ASSUME NEW K, NEW V, NEW map, IsMap(map, K, V), NEW keys
    PROVE  IsMap(Remove(map, keys), K, V)
    BY DEF IsMap, Remove, Restrict

LEMMA RemoveProperties ==
    ASSUME NEW map, NEW keys
    PROVE  /\ DOMAIN Remove(map, keys) = DOMAIN map \ keys
           /\ \A x \in DOMAIN map \ keys : Remove(map, keys)[x] = map[x]
    BY DEF Remove, Restrict

(* The cached package comes from the cache or from the configuration.      *)
LEMMA LookupType ==
    ASSUME NEW cfg \in AppConfig, NEW pk, IsMap(pk, Tids, PkgEntry),
           NEW pid, NEW comm
    PROVE  pkg_lookup_comm(pk, pid, comm, cfg) \subseteq PkgEntry
<1>1. CASE pid \in DOMAIN pk
    BY <1>1 DEF pkg_lookup_comm, IsMap
<1>2. CASE pid \notin DOMAIN pk
  <2>1. cfg.pkg_set \subseteq Names
    BY DEF AppConfig
  <2>2. \A pkg : pkg_has_thread_rules(pkg, cfg) \in BOOLEAN
    BY DEF pkg_has_thread_rules
  <2> QED
    BY <1>2, <2>1, <2>2 DEF pkg_lookup_comm, comm_to_pkg, PkgEntry
<1> QED
    BY <1>1, <1>2

(* A result about to be applied is an affinity that the rules give some    *)
(* thread of the package.                                                  *)
LEMMA ResultFromRules ==
    ASSUME NEW tid, NEW entry, NEW comm, NEW trust, NEW cfg,
           NEW r \in ResultToApply(tid, entry, comm, trust, cfg)
    PROVE  \/ r \in thread_affinity(entry.pkg, comm, cfg)
           \/ r \in thread_affinity(entry.pkg, Empty, cfg)
    BY DEF ResultToApply
=============================================================================
