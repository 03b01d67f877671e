------------------------------ MODULE Bindings ------------------------------
(***************************************************************************)
(* What the daemon promises of its bindings in either mode, without its    *)
(* events, scans, caches and timers.  A thread is free or bound to CPUs,   *)
(* by a thread rule or by its package's default.  New rules leave the      *)
(* bindings alone; a renewal releases all of them.  A binding is made by   *)
(* the rules in force, and only while every other one is theirs or of the  *)
(* rules of the last renewal.  A default never takes the place of a thread *)
(* rule's binding: the thread must be released before.                     *)
(***************************************************************************)
EXTENDS RuleMatch

CONSTANT Tids

VARIABLES
    bound,  \* the bound threads: tid -> Binding
    rules,  \* the AppConfig in force
    kept    \* the AppConfig in force at the last renewal

Binding == [cpus : SUBSET Cpus, is_thread_rule : BOOLEAN]

TypeOK ==
    /\ DOMAIN bound \subseteq Tids
    /\ \A t \in DOMAIN bound : bound[t] \in Binding
    /\ rules \in AppConfig /\ kept \in AppConfig

(* The bindings rules c may give to a thread of some package and name. *)
Allowed(c) ==
    {[cpus |-> r.cpus, is_thread_rule |-> r.is_thread_rule] :
        r \in UNION {thread_affinity(pkg, name, c) :
                        pkg \in Names, name \in Names \cup {Empty}}}

(* Every binding is one that these two may give. *)
Coherent == \A t \in DOMAIN bound : bound[t] \in Allowed(rules) \cup Allowed(kept)

NoBindings == [t \in {} |-> t]

Init == bound = NoBindings /\ rules \in AppConfig /\ kept = rules

Release(T) ==
    /\ bound' = [t \in DOMAIN bound \ T |-> bound[t]]
    /\ UNCHANGED <<rules, kept>>

Reload == rules' \in AppConfig /\ UNCHANGED <<bound, kept>>

Renew == bound' = NoBindings /\ kept' = rules /\ UNCHANGED rules

(* A restart forgets the bindings, and loads rules of its own. *)
Restart == bound' = NoBindings /\ rules' \in AppConfig /\ kept' = rules'

Bind(t, b) ==
    /\ UNCHANGED <<rules, kept>>
    /\ bound' = [u \in DOMAIN bound \cup {t} |-> IF u = t THEN b ELSE bound[u]]
    /\ t \in DOMAIN bound /\ bound[t].is_thread_rule => b.is_thread_rule
    /\ Coherent /\ b \in Allowed(rules)

Next ==
    \/ \E T \in SUBSET DOMAIN bound : Release(T)
    \/ Reload \/ Renew \/ Restart
    \/ \E t \in Tids, b \in Allowed(rules) : Bind(t, b)

Spec == Init /\ [][Next]_<<bound, rules, kept>>
=============================================================================
