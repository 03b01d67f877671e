----------------------------- MODULE ProcCache -----------------------------
(***************************************************************************)
(* The process cache both modes of the daemon share: src/src/proccache.rs, *)
(* and comm_to_pkg of src/src/bpf.rs, which its lookup calls.              *)
(*                                                                         *)
(* A HashMap is a function whose domain is the set of its keys.  The       *)
(* operators give the new value of a map; the handlers that call them are  *)
(* actions of the modules that extend this one, because a handler changes  *)
(* the cache and the kernel's state together.                              *)
(***************************************************************************)
EXTENDS RuleMatch, Functions

CONSTANTS
    Tids,       \* task ids; a process id is the tid of its main thread
    CommPkgs    \* CommPkgs[comm]: the packages a comm may be the (cut) name of

ASSUME CacheAssumption ==
    /\ IsFiniteSet(Tids)
    /\ CommPkgs \in [Names -> SUBSET Names]

VARIABLES
    pkgs,       \* ProcCache.pkgs:  pid -> (package, has_thread_rules)
    tasks       \* ProcCache.tasks: tid -> TaskEntry

PkgEntry == [pkg : Names, htr : BOOLEAN]

TaskEntry == [pid : Tids, cpus : SUBSET Cpus, cpuset_dir : SUBSET Cpus,
              is_thread_rule : BOOLEAN]

EmptyMap == [x \in {} |-> x]

Insert(map, key, value) ==
    [x \in DOMAIN map \cup {key} |-> IF x = key THEN value ELSE map[x]]

Remove(map, keys) == Restrict(map, DOMAIN map \ keys)

IsMap(map, K, V) == DOMAIN map \subseteq K /\ \A x \in DOMAIN map : map[x] \in V

-----------------------------------------------------------------------------

(* pkgs_purge for every process in P: the package entry goes when no task  *)
(* of the process is left among the entries of tk.                         *)
pkgs_purge(pk, tk, P) ==
    Remove(pk, {p \in P : \A t \in DOMAIN tk : tk[t].pid # p})

(* Faulty variant of TasksWithout: task_del drops the package only.        *)
TasksKept(T) == tasks

(* task_del of every tid in T: the pair of maps is changed by two          *)
(* operators, the tasks left and then the packages left.                   *)
TasksWithout(T) == Remove(tasks, T)

PkgsWithout(pk, T) ==
    pkgs_purge(pk, TasksWithout(T), {tasks[t].pid : t \in T \cap DOMAIN tasks})

(* The packages comm_to_pkg may return: the one of that very name, or else *)
(* any whose name agrees with comm on the part that comm shows; HashSet    *)
(* iteration order decides between them.  (NameMatch has it in detail.)    *)
comm_to_pkg(comm, cfg) ==
    IF comm \in cfg.pkg_set THEN {comm} ELSE CommPkgs[comm] \cap cfg.pkg_set

(* pkg_lookup_comm: a cached entry wins; otherwise the one derived from    *)
(* comm, which the caller stores in pkgs.                                  *)
pkg_lookup_comm(pk, pid, comm, cfg) ==
    IF pid \in DOMAIN pk THEN {pk[pid]}
    ELSE {[pkg |-> pkg, htr |-> pkg_has_thread_rules(pkg, cfg)] :
              pkg \in comm_to_pkg(comm, cfg)}

(* Faulty variant of ResultToApply: a fallback replaces any binding.       *)
ResultAlwaysApplied(tid, entry, comm, trust_comm, cfg) ==
    thread_affinity(entry.pkg, IF entry.htr /\ trust_comm THEN comm ELSE Empty, cfg)

(* task_apply up to the call of apply_fn: the result to apply, if there is *)
(* one and it is not a fallback over an existing thread rule binding.      *)
ResultToApply(tid, entry, comm, trust_comm, cfg) ==
    LET thread_name == IF entry.htr /\ trust_comm THEN comm ELSE Empty
    IN  {r \in thread_affinity(entry.pkg, thread_name, cfg) :
            \/ r.is_thread_rule
            \/ tid \notin DOMAIN tasks
            \/ ~ tasks[tid].is_thread_rule}

(* The entry task_apply stores once apply_fn has not found tid dead. *)
EntryFor(pid, r) ==
    [pid |-> pid, cpus |-> r.cpus, cpuset_dir |-> r.cpuset_dir,
     is_thread_rule |-> r.is_thread_rule]
=============================================================================
