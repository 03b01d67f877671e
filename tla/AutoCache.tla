----------------------------- MODULE AutoCache -----------------------------
(***************************************************************************)
(* The rules' two sources: the configuration file (AppConfig::load) and    *)
(* the auto-assignment cache file, both of src/src/config.rs, and the      *)
(* choice of the applications that go into the latter (scan_unknown of     *)
(* src/src/process.rs).                                                    *)
(*                                                                         *)
(* Abstractions.  A file is the sequence of its entries; the cache file is *)
(* a set of at most one such sequence, empty while the file is missing or  *)
(* cannot be parsed, which merge and save do not tell apart.  The comm     *)
(* object of an entry is a sequence of CPU set and name pairs.             *)
(***************************************************************************)
EXTENDS RuleMatch, Functions

Seqs == INSTANCE SequencesExt

CONSTANTS
    Wildcards,          \* the names with a '*' or a '?'
    UserApps,           \* names with a '.' and no '/' of processes with an app's uid
    Blacklist,          \* the names is_blacklisted accepts
    KeyWords,           \* KeyWords[comm]: the words comm contains
    Big, Mid, Little    \* cpu::detect; Mid is {} with fewer than three clusters

ASSUME CacheFileAssumption ==
    /\ Wildcards \subseteq Names /\ UserApps \subseteq Names /\ Blacklist \subseteq Names
    /\ \A n \in Names \cup {Empty} : n \in DOMAIN KeyWords
    /\ {Big, Mid, Little} \subseteq SUBSET Cpus

(* What config::fnmatch does with a pattern that has no star, and how the  *)
(* processes of Android applications are named.                            *)
ASSUME PlainNameAssumption ==
    /\ \A pat \in Names \ Wildcards : \A name \in Names : fnmatch(pat, name) <=> pat = name
    /\ UserApps \cap Wildcards = {}

CommRule == [cpus : SUBSET Cpus, name : Names \cup {Empty}]

FileEntry == [packages : Seq(Names), other : SUBSET Cpus, comm : Seq(CommRule)]

(* The places in S, pairs of numbers, that come no later than p ...        *)
UpTo(p, S) == {q \in S : q[1] < p[1] \/ (q[1] = p[1] /\ q[2] <= p[2])}

(* ... and all of them in order.                                           *)
InOrder(S) == [i \in 1 .. Cardinality(S) |-> CHOOSE p \in S : Cardinality(UpTo(p, S)) = i]

(* Entries without a package are skipped. *)
Listed(file) == {k \in DOMAIN file : file[k].packages # <<>>}

PackagesOf(file, K) == UNION {Range(file[k].packages) : k \in K}

(* The rules of an entry name its first package only; place 0 is "other",  *)
(* the others are those of "comm".                                         *)
RuleAt(e, place, dir) ==
    IF place = 0
    THEN [pkg |-> Head(e.packages), thread |-> Empty, cpus |-> e.other, cpuset_dir |-> dir]
    ELSE [pkg |-> Head(e.packages), thread |-> e.comm[place].name,
          cpus |-> e.comm[place].cpus, cpuset_dir |-> {}]

RulePlaces(file, K) == UNION {{k} \X (0 .. Len(file[k].comm)) : k \in K}

(* The rules of the entries at K; dirs[c] is the directory for other = c.  *)
RulesOf(file, K, dirs) ==
    LET places == InOrder(RulePlaces(file, K))
    IN  [i \in DOMAIN places |->
            RuleAt(file[places[i][1]], places[i][2], dirs[file[places[i][1]].other])]

load(file) ==
    [rules   |-> RulesOf(file, Listed(file), [c \in SUBSET Cpus |-> ensure_cpuset_dir(c)]),
     pkg_set |-> PackagesOf(file, DOMAIN file),
     wild    |-> PackagesOf(file, DOMAIN file) \cap Wildcards]

(* Of several entries with the same first package the first counts. *)
Deduped(file) ==
    {k \in Listed(file) :
        \A i \in Listed(file) : Head(file[i].packages) = Head(file[k].packages) => k <= i}

Contents(cached) == IF cached = {} THEN <<>> ELSE CHOOSE file \in cached : TRUE

(* cache::merge: appends the cached rules to cfg's, each time it is called. *)
merge(cfg, cached) ==
    LET file == Contents(cached)
        K    == Deduped(file)
    IN  [cfg EXCEPT !.rules = @ \o RulesOf(file, K, [c \in SUBSET Cpus |-> {}]),
                    !.pkg_set = @ \cup PackagesOf(file, K)]

-----------------------------------------------------------------------------

(* scan_unknown: a user application that is neither listed nor matched. *)
IsUnknown(name, cfg) ==
    /\ name \in UserApps \ cfg.pkg_set
    /\ ~ \E w \in cfg.wild : fnmatch(w, name)

Graphics == {"Render", "Gfx", "GL", "Vulkan"}
Codec    == {"Decode", "Codec", "Video", "Audio"}
Engine   == {"Main", "Unity", "Game", "Native", "RHI", "TaskGraph"}
Worker   == {"Worker", "Thread", "Job"}
Network  == {"Io", "Network", "Http"}
Idle     == {"Background", "Idle", "Pool"}

(* The first class with a word in the name decides; a worker has the load  *)
(* of a name without any.                                                  *)
est_load(comm) ==
    LET has(class) == KeyWords[comm] \cap class # {}
    IN  IF has(Graphics) THEN 10
        ELSE IF has(Codec) THEN 8
        ELSE IF has(Engine) THEN 9
        ELSE IF has(Worker) THEN 5
        ELSE IF has(Network) THEN 3
        ELSE IF has(Idle) THEN 1
        ELSE 5

(* The entry cache::save makes of a package and its threads' names. *)
AutoEntry(pkg, comms) ==
    LET high == {n \in comms : est_load(n) >= 8}
        mean == {n \in comms : est_load(n) \in 5 .. 7 /\ Mid # {}}
    IN  [packages |-> <<pkg>>, other |-> Little,
         comm |-> Seqs!SetToSeq({[cpus |-> Big, name |-> n] : n \in high}
                             \cup {[cpus |-> Mid, name |-> n] : n \in mean})]

(* Faulty variant of OtherEntries: the package's old entry is kept.        *)
AllEntries(cached, pkg) == Contents(cached)

(* The entries of the other packages, in the order they are in. *)
OtherEntries(cached, pkg) ==
    LET file  == Contents(cached)
        kept  == {k \in DOMAIN file : file[k].packages = <<>> \/ Head(file[k].packages) # pkg}
        order == InOrder(kept \X {0})
    IN  [i \in DOMAIN order |-> file[order[i][1]]]

(* Faulty variant of Saved: an unreadable file is not written again.       *)
SavedInReadable(cached, entry) ==
    IF cached = {} THEN {}
    ELSE {Append(OtherEntries(cached, Head(entry.packages)), entry)}

(* The cache file with an entry in place of the package's old one; a file  *)
(* that cannot be read or parsed counts as empty.                          *)
Saved(cached, entry) == {Append(OtherEntries(cached, Head(entry.packages)), entry)}
=============================================================================
