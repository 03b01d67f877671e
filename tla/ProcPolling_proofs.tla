------------------------- MODULE ProcPolling_proofs -------------------------
(***************************************************************************)
(* The safety of the polling mode, and that it implements Bindings, for    *)
(* every number of threads, names, CPUs and configurations, and for every  *)
(* length of the configuration and of the cache file.                      *)
(***************************************************************************)
EXTENDS ProcPolling, RuleMatch_proofs, FiniteSetTheorems, SequenceTheorems, TLAPS

-----------------------------------------------------------------------------
(* Files and the rules made of them.                                       *)

(* InOrder lists every element of a finite set of places once: the number  *)
(* of places up to one numbers the places.                                 *)
LEMMA InOrderLists ==
    ASSUME NEW S \in SUBSET (Nat \X Nat), IsFiniteSet(S)
    PROVE  /\ Cardinality(S) \in Nat
           /\ InOrder(S) \in [1 .. Cardinality(S) -> S]
           /\ \A p \in S : \E i \in 1 .. Cardinality(S) : InOrder(S)[i] = p
           /\ \A i, k \in 1 .. Cardinality(S) : InOrder(S)[i] = InOrder(S)[k] => i = k
<1> DEFINE n == Cardinality(S)
           rank == [p \in S |-> Cardinality(UpTo(p, S))]
<1>1. n \in Nat
    BY FS_CardinalityType
<1>2. ASSUME NEW p \in S
      PROVE  UpTo(p, S) \subseteq S /\ p \in UpTo(p, S)
    BY <1>2 DEF UpTo
<1>3. ASSUME NEW p \in S
      PROVE  rank[p] \in 1 .. n
  <2>1. IsFiniteSet(UpTo(p, S)) /\ Cardinality(UpTo(p, S)) <= n
    BY <1>2, FS_Subset
  <2>2. Cardinality(UpTo(p, S)) \in Nat
    BY <2>1, FS_CardinalityType
  <2>3. Cardinality(UpTo(p, S)) # 0
    BY <1>2, <2>1, FS_EmptySet
  <2> QED
    BY <1>1, <2>1, <2>2, <2>3
<1>4. ASSUME NEW p \in S, NEW q \in S, rank[p] = rank[q]
      PROVE  p = q
  <2>1. UpTo(p, S) \subseteq UpTo(q, S) \/ UpTo(q, S) \subseteq UpTo(p, S)
    BY DEF UpTo
  <2>2. IsFiniteSet(UpTo(p, S)) /\ IsFiniteSet(UpTo(q, S))
    BY <1>2, FS_Subset
  <2>3. Cardinality(UpTo(p, S)) = Cardinality(UpTo(q, S))
    BY <1>4
  <2>4. UpTo(p, S) = UpTo(q, S)
    BY <2>1, <2>2, <2>3, FS_Subset
  <2>5. p \in UpTo(q, S) /\ q \in UpTo(p, S)
    BY <1>2, <2>4
  <2>6. /\ p[1] < q[1] \/ (p[1] = q[1] /\ p[2] <= q[2])
        /\ q[1] < p[1] \/ (q[1] = p[1] /\ q[2] <= p[2])
    BY <2>5 DEF UpTo
  <2>7. p \in Nat \X Nat /\ q \in Nat \X Nat
    OBVIOUS
  <2>8. p[1] = q[1] /\ p[2] = q[2]
    BY <2>6, <2>7
  <2> QED
    BY <2>7, <2>8
<1>5. rank \in Injection(S, 1 .. n)
    BY <1>3, <1>4 DEF Injection, IsInjective
<1>6. IsFiniteSet(1 .. n) /\ Cardinality(1 .. n) = n
    BY <1>1, FS_Interval
<1>7. rank \in Surjection(S, 1 .. n)
    BY <1>5, <1>6, FS_Injection
<1>8. \A i \in 1 .. n : \E p \in S : rank[p] = i
    BY <1>7 DEF Surjection
<1>9. ASSUME NEW i \in 1 .. n
      PROVE  InOrder(S)[i] \in S /\ rank[InOrder(S)[i]] = i
  <2>1. \E p \in S : Cardinality(UpTo(p, S)) = i
    BY <1>8
  <2>2. InOrder(S)[i] = CHOOSE p \in S : Cardinality(UpTo(p, S)) = i
    BY DEF InOrder
  <2> QED
    BY <2>1, <2>2
<1>10. InOrder(S) \in [1 .. n -> S]
  <2>1. InOrder(S) = [i \in 1 .. n |-> InOrder(S)[i]]
    BY DEF InOrder
  <2> QED
    BY <1>9, <2>1
<1>11. \A p \in S : rank[p] \in 1 .. n /\ InOrder(S)[rank[p]] = p
    BY <1>3, <1>4, <1>9
<1> HIDE DEF rank
<1>12. \A i, k \in 1 .. n : InOrder(S)[i] = InOrder(S)[k] => i = k
    BY <1>9
<1> QED
    BY <1>1, <1>10, <1>11, <1>12

(* An entry of a file, its first package, and the parts of its comm.       *)
LEMMA EntryType ==
    ASSUME NEW f \in Seq(FileEntry), NEW k \in DOMAIN f
    PROVE  /\ f[k] \in FileEntry /\ k \in Nat /\ Len(f) \in Nat /\ DOMAIN f = 1 .. Len(f)
           /\ Range(f[k].packages) \subseteq Names
           /\ Len(f[k].comm) \in Nat /\ DOMAIN f[k].comm = 1 .. Len(f[k].comm)
           /\ \A j \in 1 .. Len(f[k].comm) : f[k].comm[j] \in CommRule
           /\ f[k].packages # <<>> =>
                 Head(f[k].packages) \in Names /\ Head(f[k].packages) \in Range(f[k].packages)
<1>1. Len(f) \in Nat /\ DOMAIN f = 1 .. Len(f)
    BY LenProperties
<1>2. f[k] \in FileEntry /\ k \in Nat
    BY <1>1, ElementOfSeq
<1>3. f[k].packages \in Seq(Names) /\ f[k].comm \in Seq(CommRule)
    BY <1>2 DEF FileEntry
<1>4. \A j \in 1 .. Len(f[k].comm) : f[k].comm[j] \in CommRule
    BY <1>3, ElementOfSeq
<1>5. Range(f[k].packages) \subseteq Names
    BY <1>3 DEF Range
<1>6. ASSUME f[k].packages # <<>>
      PROVE  Head(f[k].packages) \in Names /\ Head(f[k].packages) \in Range(f[k].packages)
    BY <1>3, <1>6 DEF Range
<1> QED
    BY <1>1, <1>2, <1>3, <1>4, <1>5, <1>6, LenProperties

(* A rule made of an entry.                                                *)
LEMMA RuleAtType ==
    ASSUME NEW f \in Seq(FileEntry), NEW k \in Listed(f), NEW place \in 0 .. Len(f[k].comm),
           NEW dir \in SUBSET Cpus
    PROVE  RuleAt(f[k], place, dir) \in Rule /\ RuleAt(f[k], place, dir).pkg = Head(f[k].packages)
<1>1. k \in DOMAIN f /\ f[k].packages # <<>>
    BY DEF Listed
<1>2. Head(f[k].packages) \in Names /\ f[k].other \in SUBSET Cpus
    BY <1>1, EntryType DEF FileEntry
<1>3. CASE place = 0
    BY <1>2, <1>3 DEF RuleAt, Rule
<1>4. CASE place # 0
  <2>1. Len(f[k].comm) \in Nat
    BY <1>1, EntryType
  <2>2. place \in 1 .. Len(f[k].comm)
    BY <1>4, <2>1
  <2>3. f[k].comm[place] \in CommRule
    BY <1>1, <2>2, EntryType
  <2> QED
    BY <1>2, <1>4, <2>3 DEF RuleAt, Rule, CommRule
<1> QED
    BY <1>3, <1>4

LEMMA PlacesFinite ==
    ASSUME NEW f \in Seq(FileEntry), NEW K \in SUBSET DOMAIN f
    PROVE  RulePlaces(f, K) \in SUBSET (Nat \X Nat) /\ IsFiniteSet(RulePlaces(f, K))
<1> DEFINE ofEntry == [k \in K |-> {k} \X (0 .. Len(f[k].comm))]
<1>1. IsFiniteSet(K)
  <2>1. IsFiniteSet(DOMAIN f)
    BY LenProperties, FS_Interval
  <2> QED
    BY <2>1, FS_Subset
<1>2. \A k \in K : k \in Nat /\ Len(f[k].comm) \in Nat
    BY EntryType
<1>3. ASSUME NEW k \in K
      PROVE  IsFiniteSet({k}) /\ IsFiniteSet(0 .. Len(f[k].comm))
  <2>1. IsFiniteSet({k})
    BY FS_Singleton
  <2>2. 0 \in Int /\ Len(f[k].comm) \in Int
    BY <1>2
  <2> QED
    BY <2>1, <2>2, FS_Interval
<1>4. \A k \in K : IsFiniteSet(ofEntry[k])
    BY <1>3, FS_Product
<1>5. ofEntry \in Surjection(K, Range(ofEntry))
    BY DEF Surjection, Range
<1>6. IsFiniteSet(Range(ofEntry))
    BY <1>1, <1>5, FS_Surjection
<1>7. RulePlaces(f, K) = UNION Range(ofEntry)
    BY DEF RulePlaces, Range
<1>8. \A T \in Range(ofEntry) : IsFiniteSet(T)
    BY <1>4 DEF Range
<1> HIDE DEF ofEntry
<1>9. IsFiniteSet(RulePlaces(f, K))
    BY <1>6, <1>7, <1>8, FS_UNION
<1>10. RulePlaces(f, K) \subseteq Nat \X Nat
    BY <1>2 DEF RulePlaces
<1> QED
    BY <1>9, <1>10

(* The rules of some entries of a file: one for each place, and no other.  *)
LEMMA RulesOfPlaces ==
    ASSUME NEW f \in Seq(FileEntry), NEW K \in SUBSET Listed(f),
           NEW dirs \in [SUBSET Cpus -> SUBSET Cpus]
    PROVE  /\ RulesOf(f, K, dirs) \in Seq(Rule)
           /\ \A i \in DOMAIN RulesOf(f, K, dirs) : \E k \in K : \E j \in 0 .. Len(f[k].comm) :
                 RulesOf(f, K, dirs)[i] = RuleAt(f[k], j, dirs[f[k].other])
           /\ \A k \in K : \A j \in 0 .. Len(f[k].comm) : \E i \in DOMAIN RulesOf(f, K, dirs) :
                 RulesOf(f, K, dirs)[i] = RuleAt(f[k], j, dirs[f[k].other])
<1> DEFINE S == RulePlaces(f, K)
           n == Cardinality(S)
           rules == RulesOf(f, K, dirs)
           ruleOf(p) == RuleAt(f[p[1]], p[2], dirs[f[p[1]].other])
<1>1. K \subseteq DOMAIN f
    BY DEF Listed
<1>2. S \in SUBSET (Nat \X Nat) /\ IsFiniteSet(S)
    BY <1>1, PlacesFinite
<1>3. /\ n \in Nat /\ InOrder(S) \in [1 .. n -> S]
      /\ \A p \in S : \E i \in 1 .. n : InOrder(S)[i] = p
    BY <1>2, InOrderLists
<1>4. rules = [i \in 1 .. n |-> ruleOf(InOrder(S)[i])]
    BY <1>3 DEF RulesOf
<1>5. \A p \in S : p[1] \in K /\ p[2] \in 0 .. Len(f[p[1]].comm)
    BY DEF RulePlaces
<1>6. \A k \in K : \A j \in 0 .. Len(f[k].comm) : <<k, j>> \in S
    BY DEF RulePlaces
<1> HIDE DEF S, n, rules
<1>7. ASSUME NEW p \in S
      PROVE  ruleOf(p) \in Rule
  <2>1. p[1] \in Listed(f) /\ p[2] \in 0 .. Len(f[p[1]].comm)
    BY <1>5
  <2>2. f[p[1]] \in FileEntry
    BY <1>1, <1>5, EntryType
  <2>3. dirs[f[p[1]].other] \in SUBSET Cpus
    BY <2>2 DEF FileEntry
  <2> QED
    BY <2>1, <2>3, RuleAtType
<1>8. rules \in Seq(Rule)
  <2>1. \A i \in 1 .. n : ruleOf(InOrder(S)[i]) \in Rule
    BY <1>3, <1>7
  <2> QED
    BY <1>3, <1>4, <2>1
<1>9. ASSUME NEW i \in 1 .. n
      PROVE  \E k \in K : \E j \in 0 .. Len(f[k].comm) :
                rules[i] = RuleAt(f[k], j, dirs[f[k].other])
  <2>1. InOrder(S)[i] \in S
    BY <1>3
  <2> QED
    BY <1>4, <1>5, <2>1
<1>10. ASSUME NEW k \in K, NEW j \in 0 .. Len(f[k].comm)
       PROVE  \E i \in 1 .. n : rules[i] = RuleAt(f[k], j, dirs[f[k].other])
  <2>1. PICK i \in 1 .. n : InOrder(S)[i] = <<k, j>>
    BY <1>3, <1>6
  <2>2. rules[i] = ruleOf(<<k, j>>)
    BY <1>4, <2>1
  <2> QED
    BY <2>2
<1>11. DOMAIN rules = 1 .. n
    BY <1>4
<1> QED
    BY <1>8, <1>9, <1>10, <1>11 DEF rules

(* The rules of a configuration name packages it watches, and it tries its *)
(* watched patterns.                                                       *)
RulesListed(c) ==
    /\ \A i \in DOMAIN c.rules : c.rules[i].pkg \in c.pkg_set
    /\ c.pkg_set \cap Wildcards \subseteq c.wild

(* A configuration has the rules that merge makes of an entry.             *)
Merged(e, c) ==
    \A place \in 0 .. Len(e.comm) :
        \E i \in DOMAIN c.rules : c.rules[i] = RuleAt(e, place, {})

LEMMA PackagesType ==
    ASSUME NEW f \in Seq(FileEntry), NEW K \in SUBSET DOMAIN f
    PROVE  /\ PackagesOf(f, K) \subseteq Names
           /\ \A k \in K : f[k].packages # <<>> => Head(f[k].packages) \in PackagesOf(f, K)
<1>1. \A k \in K : Range(f[k].packages) \subseteq Names
    BY EntryType
<1>2. \A k \in K : f[k].packages # <<>> => Head(f[k].packages) \in Range(f[k].packages)
    BY EntryType
<1> QED
    BY <1>1, <1>2 DEF PackagesOf

LEMMA LoadListed ==
    ASSUME NEW f \in Seq(FileEntry)
    PROVE  load(f) \in AppConfig /\ RulesListed(load(f))
<1> DEFINE dirs == [c \in SUBSET Cpus |-> ensure_cpuset_dir(c)]
           rules == RulesOf(f, Listed(f), dirs)
           set == PackagesOf(f, DOMAIN f)
<1>1. dirs \in [SUBSET Cpus -> SUBSET Cpus] /\ Listed(f) \in SUBSET Listed(f)
    BY DEF ensure_cpuset_dir
<1> HIDE DEF dirs
<1>2. /\ rules \in Seq(Rule)
      /\ \A i \in DOMAIN rules : \E k \in Listed(f) : \E j \in 0 .. Len(f[k].comm) :
            rules[i] = RuleAt(f[k], j, dirs[f[k].other])
    BY <1>1, RulesOfPlaces
<1>3. /\ set \subseteq Names
      /\ \A k \in DOMAIN f : f[k].packages # <<>> => Head(f[k].packages) \in set
    BY PackagesType
<1>4. load(f) = [rules |-> rules, pkg_set |-> set, wild |-> set \cap Wildcards]
    BY DEF load, dirs
<1>5. ASSUME NEW i \in DOMAIN rules
      PROVE  rules[i].pkg \in set
  <2>1. PICK k \in Listed(f) : \E j \in 0 .. Len(f[k].comm) :
            rules[i] = RuleAt(f[k], j, dirs[f[k].other])
    BY <1>2
  <2> QED
    BY <1>3, <2>1 DEF Listed, RuleAt
<1> HIDE DEF rules, set
<1> QED
    BY <1>2, <1>3, <1>4, <1>5 DEF AppConfig, RulesListed

(* The one file of a set of at most one.                                   *)
AtMostOne(S) == \A x, y \in S : x = y

LEMMA ContentsOf ==
    ASSUME NEW cached \in SUBSET Seq(FileEntry), AtMostOne(cached)
    PROVE  /\ Contents(cached) \in Seq(FileEntry)
           /\ \A f \in cached : Contents(cached) = f
           /\ cached = {} => Contents(cached) = <<>>
<1>1. CASE cached = {}
    BY <1>1 DEF Contents
<1>2. CASE cached # {}
  <2>1. PICK f \in cached : cached = {f}
    BY <1>2 DEF AtMostOne
  <2> QED
    BY <2>1 DEF Contents
<1> QED
    BY <1>1, <1>2

(* What cache::merge leaves and adds: the old rules keep their places, and *)
(* each further one is of an entry of the cache file.                      *)
LEMMA MergeAdds ==
    ASSUME NEW c \in AppConfig, NEW cached \in SUBSET Seq(FileEntry), AtMostOne(cached)
    PROVE  /\ merge(c, cached) \in AppConfig
           /\ merge(c, cached).wild = c.wild
           /\ c.pkg_set \subseteq merge(c, cached).pkg_set
           /\ \A i \in DOMAIN c.rules :
                 i \in DOMAIN merge(c, cached).rules /\ merge(c, cached).rules[i] = c.rules[i]
           /\ \A i \in DOMAIN merge(c, cached).rules :
                 \/ i \in DOMAIN c.rules
                 \/ \E f \in cached : \E k \in Listed(f) : \E place \in 0 .. Len(f[k].comm) :
                       /\ merge(c, cached).rules[i] = RuleAt(f[k], place, {})
                       /\ Head(f[k].packages) \in merge(c, cached).pkg_set
           /\ \A n \in merge(c, cached).pkg_set :
                 n \in c.pkg_set \/ \E f \in cached : \E k \in DOMAIN f : n \in Range(f[k].packages)
           /\ \A f \in cached : \A k \in Deduped(f) : Merged(f[k], merge(c, cached))
<1> DEFINE f == Contents(cached)
           K == Deduped(f)
           dirs == [s \in SUBSET Cpus |-> {}]
           more == RulesOf(f, K, dirs)
           m == merge(c, cached)
           known == c.rules
<1>1. f \in Seq(FileEntry) /\ (\A g \in cached : f = g) /\ (cached = {} => f = <<>>)
    BY ContentsOf
<1>2. K \in SUBSET Listed(f) /\ K \in SUBSET DOMAIN f
    BY DEF Deduped, Listed
<1>3. dirs \in [SUBSET Cpus -> SUBSET Cpus]
    OBVIOUS
<1>4. /\ more \in Seq(Rule)
      /\ \A i \in DOMAIN more : \E k \in K : \E j \in 0 .. Len(f[k].comm) :
            more[i] = RuleAt(f[k], j, dirs[f[k].other])
      /\ \A k \in K : \A j \in 0 .. Len(f[k].comm) : \E i \in DOMAIN more :
            more[i] = RuleAt(f[k], j, dirs[f[k].other])
    BY <1>1, <1>2, <1>3, RulesOfPlaces
<1>5. /\ PackagesOf(f, K) \subseteq Names
      /\ \A k \in K : f[k].packages # <<>> => Head(f[k].packages) \in PackagesOf(f, K)
    BY <1>1, <1>2, PackagesType
<1>6. /\ m = [c EXCEPT !.rules = known \o more, !.pkg_set = c.pkg_set \cup PackagesOf(f, K)]
      /\ known \in Seq(Rule)
    BY DEF merge, AppConfig
<1>7. \A k \in K : dirs[f[k].other] = {}
  <2>1. \A k \in K : f[k] \in FileEntry
    BY <1>1, <1>2, EntryType
  <2> QED
    BY <2>1 DEF FileEntry
<1> HIDE DEF more, dirs, K, m, f, known
<1>8. /\ m \in AppConfig /\ m.wild = c.wild /\ m.rules = known \o more
      /\ m.pkg_set = c.pkg_set \cup PackagesOf(f, K)
  <2>1. known \o more \in Seq(Rule)
    BY <1>4, <1>6, ConcatProperties
  <2>2. c.pkg_set \cup PackagesOf(f, K) \in SUBSET Names
    BY <1>5 DEF AppConfig
  <2> QED
    BY <1>6, <2>1, <2>2 DEF AppConfig
<1>9. /\ Len(known) \in Nat /\ Len(more) \in Nat
      /\ DOMAIN known = 1 .. Len(known) /\ DOMAIN more = 1 .. Len(more)
      /\ DOMAIN m.rules = 1 .. Len(known) + Len(more)
      /\ \A i \in 1 .. Len(known) + Len(more) :
            m.rules[i] = IF i <= Len(known) THEN known[i] ELSE more[i - Len(known)]
    BY <1>4, <1>6, <1>8, ConcatProperties, LenProperties
<1>10. \A i \in DOMAIN known : i \in DOMAIN m.rules /\ m.rules[i] = known[i]
    BY <1>9
<1>11. \A k \in K : \E g \in cached : g = f
  <2>1. f = <<>> => K = {}
    BY <1>2
  <2> QED
    BY <1>1, <2>1
<1>12. ASSUME NEW i \in DOMAIN m.rules, i \notin DOMAIN known
       PROVE  \E g \in cached : \E k \in Listed(g) : \E place \in 0 .. Len(g[k].comm) :
                 /\ m.rules[i] = RuleAt(g[k], place, {})
                 /\ Head(g[k].packages) \in m.pkg_set
  <2>1. i - Len(known) \in DOMAIN more /\ m.rules[i] = more[i - Len(known)]
    BY <1>9, <1>12
  <2>2. PICK k \in K : \E j \in 0 .. Len(f[k].comm) :
            more[i - Len(known)] = RuleAt(f[k], j, dirs[f[k].other])
    BY <1>4, <2>1
  <2>3. PICK j \in 0 .. Len(f[k].comm) : m.rules[i] = RuleAt(f[k], j, {})
    BY <1>7, <2>1, <2>2
  <2>4. k \in Listed(f) /\ Head(f[k].packages) \in m.pkg_set
    BY <1>2, <1>5, <1>8 DEF Listed
  <2>5. PICK g \in cached : g = f
    BY <1>11
  <2> QED
    BY <2>3, <2>4, <2>5
<1>13. \A n \in m.pkg_set :
          n \in c.pkg_set \/ \E g \in cached : \E k \in DOMAIN g : n \in Range(g[k].packages)
  <2> SUFFICES ASSUME NEW n \in PackagesOf(f, K)
               PROVE  \E g \in cached : \E k \in DOMAIN g : n \in Range(g[k].packages)
    BY <1>8
  <2>1. PICK k \in K : n \in Range(f[k].packages)
    BY DEF PackagesOf
  <2>2. PICK g \in cached : g = f
    BY <1>11
  <2> QED
    BY <1>2, <2>1, <2>2
<1>14. ASSUME NEW g \in cached, NEW k \in Deduped(g)
       PROVE  Merged(g[k], m)
  <2>1. g = f /\ k \in K
    BY <1>1, <1>14 DEF K
  <2>2. ASSUME NEW j \in 0 .. Len(f[k].comm)
        PROVE  \E i \in DOMAIN m.rules : m.rules[i] = RuleAt(f[k], j, {})
    <3>1. PICK i \in DOMAIN more : more[i] = RuleAt(f[k], j, dirs[f[k].other])
      BY <1>4, <2>1
    <3>2. /\ Len(known) + i \in DOMAIN m.rules /\ m.rules[Len(known) + i] = more[i]
      BY <1>9, <3>1
    <3>3. dirs[f[k].other] = {}
      BY <1>7, <2>1
    <3> QED
      BY <3>1, <3>2, <3>3
  <2> QED
    BY <2>1, <2>2 DEF Merged
<1> QED
    BY <1>8, <1>10, <1>12, <1>13, <1>14 DEF m, known

-----------------------------------------------------------------------------
(* What the rules of a merge leave alone.                                  *)

(* A package that some name of a thread gives a binding for is watched, or *)
(* matched by a watched pattern: scan_unknown does not report it.          *)
LEMMA BoundIsKnown ==
    ASSUME NEW c \in AppConfig, RulesListed(c), NEW pkg \in Names,
           NEW name \in Names \cup {Empty}, thread_affinity(pkg, name, c) # {}
    PROVE  ~ IsUnknown(pkg, c)
<1>1. \A i \in DOMAIN c.rules : c.rules[i] \in Rule /\ c.rules[i].pkg \in c.pkg_set
    BY DEF AppConfig, RulesListed
<1>2. CASE \E i \in DOMAIN c.rules : c.rules[i].pkg = pkg
    BY <1>1, <1>2 DEF IsUnknown
<1>3. CASE ~ \E i \in DOMAIN c.rules : c.rules[i].pkg = pkg
  <2>1. ThreadRules(pkg, name, c) = {} /\ PackageRules(pkg, c) = {}
    BY <1>3 DEF ThreadRules, PackageRules
  <2>2. CpusOf({}, c) = {}
    BY DEF CpusOf
  <2>3. pkg_has_thread_rules(pkg, c)
    BY <2>1, <2>2 DEF thread_affinity
  <2>4. PICK i \in DOMAIN c.rules : fnmatch(c.rules[i].pkg, pkg)
    BY <2>3 DEF pkg_has_thread_rules
  <2>5. c.rules[i].pkg \in Names /\ c.rules[i].pkg \in c.pkg_set /\ c.rules[i].pkg # pkg
    BY <1>1, <1>3 DEF Rule
  <2>6. c.rules[i].pkg \in Wildcards
    BY <2>4, <2>5, PlainNameAssumption
  <2>7. c.rules[i].pkg \in c.wild
    BY <2>5, <2>6 DEF RulesListed
  <2> QED
    BY <2>4, <2>7 DEF IsUnknown
<1> QED
    BY <1>2, <1>3

(* d has c's rules, and every rule of d is one of c, too, or is for an     *)
(* application that c does not know.                                       *)
Extends(d, c) ==
    /\ \A i \in DOMAIN c.rules : \E k \in DOMAIN d.rules : d.rules[k] = c.rules[i]
    /\ \A k \in DOMAIN d.rules :
          \/ \E i \in DOMAIN c.rules : d.rules[k] = c.rules[i]
          \/ IsUnknown(d.rules[k].pkg, c)

(* Rules that are there twice, or for other applications, change nothing   *)
(* for a package c knows.                                                  *)
LEMMA ExtendedSame ==
    ASSUME NEW c \in AppConfig, NEW d \in AppConfig, Extends(d, c),
           NEW pkg \in Names, ~ IsUnknown(pkg, c)
    PROVE  /\ pkg_has_thread_rules(pkg, d) = pkg_has_thread_rules(pkg, c)
           /\ \A name : \A r \in thread_affinity(pkg, name, c) :
                 \E s \in thread_affinity(pkg, name, d) :
                     s.cpus = r.cpus /\ s.is_thread_rule = r.is_thread_rule
<1>1. /\ \A i \in DOMAIN c.rules : c.rules[i] \in Rule
      /\ \A k \in DOMAIN d.rules : d.rules[k] \in Rule
    BY DEF AppConfig
<1>2. ASSUME NEW k \in DOMAIN d.rules, fnmatch(d.rules[k].pkg, pkg) \/ d.rules[k].pkg = pkg
      PROVE  \E i \in DOMAIN c.rules : d.rules[k] = c.rules[i]
  <2> SUFFICES ASSUME IsUnknown(d.rules[k].pkg, c) PROVE FALSE
    BY DEF Extends
  <2>1. d.rules[k].pkg \in UserApps /\ d.rules[k].pkg \in Names
    BY <1>1 DEF IsUnknown, Rule
  <2>2. d.rules[k].pkg = pkg
    BY <1>2, <2>1, PlainNameAssumption
  <2> QED
    BY <2>2
<1>3. pkg_has_thread_rules(pkg, d) = pkg_has_thread_rules(pkg, c)
  <2>1. ASSUME pkg_has_thread_rules(pkg, c) PROVE pkg_has_thread_rules(pkg, d)
    <3>1. PICK i \in DOMAIN c.rules : c.rules[i].thread # Empty /\ fnmatch(c.rules[i].pkg, pkg)
      BY <2>1 DEF pkg_has_thread_rules
    <3>2. PICK k \in DOMAIN d.rules : d.rules[k] = c.rules[i]
      BY DEF Extends
    <3> QED
      BY <3>1, <3>2 DEF pkg_has_thread_rules
  <2>2. ASSUME pkg_has_thread_rules(pkg, d) PROVE pkg_has_thread_rules(pkg, c)
    <3>1. PICK k \in DOMAIN d.rules : d.rules[k].thread # Empty /\ fnmatch(d.rules[k].pkg, pkg)
      BY <2>2 DEF pkg_has_thread_rules
    <3>2. PICK i \in DOMAIN c.rules : d.rules[k] = c.rules[i]
      BY <1>2, <3>1
    <3> QED
      BY <3>1, <3>2 DEF pkg_has_thread_rules
  <2>3. pkg_has_thread_rules(pkg, c) \in BOOLEAN /\ pkg_has_thread_rules(pkg, d) \in BOOLEAN
    BY DEF pkg_has_thread_rules
  <2> QED
    BY <2>1, <2>2, <2>3
<1>4. ASSUME NEW name, NEW r \in thread_affinity(pkg, name, c)
      PROVE  \E s \in thread_affinity(pkg, name, d) :
                 s.cpus = r.cpus /\ s.is_thread_rule = r.is_thread_rule
  <2> DEFINE ownC == ThreadRules(pkg, name, c)
             ownD == ThreadRules(pkg, name, d)
             genC == PackageRules(pkg, c)
             genD == PackageRules(pkg, d)
             cpusC == CpusOf(IF ownC # {} THEN ownC ELSE genC, c)
             cpusD == CpusOf(IF ownD # {} THEN ownD ELSE genD, d)
             dirC == IF ownC # {} THEN ensure_cpuset_dir(cpusC) ELSE FallbackDir(genC, c)
             dirD == IF ownD # {} THEN ensure_cpuset_dir(cpusD) ELSE FallbackDir(genD, d)
             ruleC == ownC # {}
             ruleD == ownD # {}
  <2>1. /\ \A i \in ownC : \E k \in ownD : d.rules[k] = c.rules[i]
        /\ \A k \in ownD : \E i \in ownC : d.rules[k] = c.rules[i]
    <3>1. ASSUME NEW i \in ownC PROVE \E k \in ownD : d.rules[k] = c.rules[i]
      BY <3>1 DEF ThreadRules, Extends
    <3>2. ASSUME NEW k \in ownD PROVE \E i \in ownC : d.rules[k] = c.rules[i]
      <4>1. k \in DOMAIN d.rules /\ d.rules[k].pkg = pkg
        BY DEF ThreadRules
      <4>2. PICK i \in DOMAIN c.rules : d.rules[k] = c.rules[i]
        BY <1>2, <4>1
      <4> QED
        BY <4>2 DEF ThreadRules
    <3> QED
      BY <3>1, <3>2
  <2>2. /\ \A i \in genC : \E k \in genD : d.rules[k] = c.rules[i]
        /\ \A k \in genD : \E i \in genC : d.rules[k] = c.rules[i]
    <3>1. ASSUME NEW i \in genC PROVE \E k \in genD : d.rules[k] = c.rules[i]
      BY <3>1 DEF PackageRules, Extends
    <3>2. ASSUME NEW k \in genD PROVE \E i \in genC : d.rules[k] = c.rules[i]
      <4>1. k \in DOMAIN d.rules /\ d.rules[k].pkg = pkg
        BY DEF PackageRules
      <4>2. PICK i \in DOMAIN c.rules : d.rules[k] = c.rules[i]
        BY <1>2, <4>1
      <4> QED
        BY <4>2 DEF PackageRules
    <3> QED
      BY <3>1, <3>2
  <2> HIDE DEF ownC, ownD, genC, genD
  <2>3. CpusOf(ownC, c) = CpusOf(ownD, d) /\ CpusOf(genC, c) = CpusOf(genD, d)
    BY <2>1, <2>2 DEF CpusOf
  <2>4. (ownC = {} <=> ownD = {}) /\ ruleC = ruleD
    BY <2>1
  <2>5. cpusC = cpusD
    BY <2>3, <2>4
  <2> DEFINE RC == [cpus |-> cpusC, cpuset_dir |-> dirC, is_thread_rule |-> ruleC]
             RD == [cpus |-> cpusD, cpuset_dir |-> dirD, is_thread_rule |-> ruleD]
             all == [cpus |-> Present, cpuset_dir |-> {}, is_thread_rule |-> FALSE]
  <2>6. thread_affinity(pkg, name, c)
          = IF cpusC # {} THEN {RC} ELSE IF pkg_has_thread_rules(pkg, c) THEN {all} ELSE {}
    BY DEF thread_affinity, ownC, genC
  <2>7. thread_affinity(pkg, name, d)
          = IF cpusD # {} THEN {RD} ELSE IF pkg_has_thread_rules(pkg, d) THEN {all} ELSE {}
    BY DEF thread_affinity, ownD, genD
  <2>8. /\ RC.cpus = cpusC /\ RC.is_thread_rule = ruleC
        /\ RD.cpus = cpusD /\ RD.is_thread_rule = ruleD
    OBVIOUS
  <2> HIDE DEF RC, RD, all, cpusC, cpusD, ruleC, ruleD
  <2> QED
    BY <1>3, <2>4, <2>5, <2>6, <2>7, <2>8
<1> QED
    BY <1>3, <1>4

-----------------------------------------------------------------------------
(* The cache file as the daemon writes it.                                 *)

(* Each entry of it counts.                                                *)
LEMMA WrittenEntries ==
    ASSUME NEW f \in Seq(FileEntry), DaemonWritten(f), NEW k \in DOMAIN f
    PROVE  /\ k \in Deduped(f)
           /\ Head(f[k].packages) \in UserApps
           /\ Range(f[k].packages) = {Head(f[k].packages)}
           /\ f[k].packages = <<Head(f[k].packages)>>
<1>1. \A i \in DOMAIN f : /\ f[i].packages # <<>>
                          /\ Head(f[i].packages) \in UserApps
                          /\ f[i].packages = <<Head(f[i].packages)>>
  <2> SUFFICES ASSUME NEW i \in DOMAIN f
               PROVE  /\ f[i].packages # <<>>
                      /\ Head(f[i].packages) \in UserApps
                      /\ f[i].packages = <<Head(f[i].packages)>>
    OBVIOUS
  <2>1. PICK u \in UserApps : f[i].packages = <<u>>
    BY DEF DaemonWritten
  <2>2. Head(<<u>>) = u /\ <<u>> # <<>>
    OBVIOUS
  <2> QED
    BY <2>1, <2>2
<1>2. k \in Listed(f)
    BY <1>1 DEF Listed
<1>3. ASSUME NEW i \in Listed(f), Head(f[i].packages) = Head(f[k].packages)
      PROVE  k <= i
  <2>1. f[i].packages = f[k].packages /\ i \in DOMAIN f
    BY <1>1, <1>3 DEF Listed
  <2>2. i = k /\ k \in Nat
    BY <2>1, EntryType DEF DaemonWritten
  <2> QED
    BY <2>2
<1>4. k \in Deduped(f)
    BY <1>2, <1>3 DEF Deduped
<1>5. Range(<<Head(f[k].packages)>>) = {Head(f[k].packages)}
    BY DEF Range
<1> QED
    BY <1>1, <1>4, <1>5

(* The rules with the cache file merged into them.                         *)
LEMMA MergeKnown ==
    ASSUME NEW c \in AppConfig, RulesListed(c),
           NEW cached \in SUBSET Seq(FileEntry), AtMostOne(cached),
           \A f \in cached : DaemonWritten(f)
    PROVE  /\ merge(c, cached) \in AppConfig
           /\ RulesListed(merge(c, cached))
           /\ \A f \in cached : \A k \in DOMAIN f : Merged(f[k], merge(c, cached))
           /\ (\A f \in cached : \A k \in DOMAIN f :
                  Merged(f[k], c) \/ IsUnknown(Head(f[k].packages), c))
              => Extends(merge(c, cached), c)
<1> DEFINE m == merge(c, cached)
<1>1. /\ m \in AppConfig /\ m.wild = c.wild /\ c.pkg_set \subseteq m.pkg_set
      /\ \A i \in DOMAIN c.rules : i \in DOMAIN m.rules /\ m.rules[i] = c.rules[i]
      /\ \A i \in DOMAIN m.rules :
            \/ i \in DOMAIN c.rules
            \/ \E f \in cached : \E k \in Listed(f) : \E place \in 0 .. Len(f[k].comm) :
                  /\ m.rules[i] = RuleAt(f[k], place, {})
                  /\ Head(f[k].packages) \in m.pkg_set
      /\ \A n \in m.pkg_set :
            n \in c.pkg_set \/ \E f \in cached : \E k \in DOMAIN f : n \in Range(f[k].packages)
      /\ \A f \in cached : \A k \in Deduped(f) : Merged(f[k], m)
    BY MergeAdds
<1> HIDE DEF m
<1>2. \A e, place : RuleAt(e, place, {}).pkg = Head(e.packages)
    BY DEF RuleAt
<1>3. \A i \in DOMAIN m.rules : m.rules[i].pkg \in m.pkg_set
  <2> SUFFICES ASSUME NEW i \in DOMAIN m.rules PROVE m.rules[i].pkg \in m.pkg_set
    OBVIOUS
  <2>1. CASE i \in DOMAIN c.rules
    BY <1>1, <2>1 DEF RulesListed
  <2>2. CASE i \notin DOMAIN c.rules
    BY <1>1, <1>2, <2>2
  <2> QED
    BY <2>1, <2>2
<1>4. m.pkg_set \cap Wildcards \subseteq m.wild
  <2> SUFFICES ASSUME NEW n \in m.pkg_set, n \in Wildcards PROVE n \in m.wild
    OBVIOUS
  <2>1. CASE n \in c.pkg_set
    BY <1>1, <2>1 DEF RulesListed
  <2>2. CASE n \notin c.pkg_set
    <3>1. PICK f \in cached : \E k \in DOMAIN f : n \in Range(f[k].packages)
      BY <1>1, <2>2
    <3>2. PICK k \in DOMAIN f : n \in Range(f[k].packages)
      BY <3>1
    <3>3. Head(f[k].packages) \in UserApps /\ Range(f[k].packages) = {Head(f[k].packages)}
      BY WrittenEntries
    <3>4. n \in UserApps
      BY <3>2, <3>3
    <3> QED
      BY <3>4, PlainNameAssumption
  <2> QED
    BY <2>1, <2>2
<1>5. \A f \in cached : \A k \in DOMAIN f : Merged(f[k], m)
    BY <1>1, WrittenEntries
<1>6. ASSUME \A f \in cached : \A k \in DOMAIN f :
                 Merged(f[k], c) \/ IsUnknown(Head(f[k].packages), c)
      PROVE  Extends(m, c)
  <2>1. \A i \in DOMAIN c.rules : \E k \in DOMAIN m.rules : m.rules[k] = c.rules[i]
    BY <1>1
  <2>2. ASSUME NEW i \in DOMAIN m.rules, i \notin DOMAIN c.rules
        PROVE  \/ \E k \in DOMAIN c.rules : m.rules[i] = c.rules[k]
               \/ IsUnknown(m.rules[i].pkg, c)
    <3>1. PICK f \in cached : \E k \in Listed(f) : \E place \in 0 .. Len(f[k].comm) :
              m.rules[i] = RuleAt(f[k], place, {})
      BY <1>1, <2>2
    <3>2. PICK k \in Listed(f) : \E place \in 0 .. Len(f[k].comm) :
              m.rules[i] = RuleAt(f[k], place, {})
      BY <3>1
    <3>3. PICK place \in 0 .. Len(f[k].comm) : m.rules[i] = RuleAt(f[k], place, {})
      BY <3>2
    <3>4. k \in DOMAIN f
      BY DEF Listed
    <3>5. CASE Merged(f[k], c)
      BY <3>3, <3>5 DEF Merged
    <3>6. CASE IsUnknown(Head(f[k].packages), c)
      BY <1>2, <3>3, <3>6
    <3> QED
      BY <1>6, <3>4, <3>5, <3>6
  <2> QED
    BY <1>1, <2>1, <2>2 DEF Extends
<1> QED
    BY <1>1, <1>3, <1>4, <1>5, <1>6 DEF m, RulesListed

(* A configuration file, loaded and merged with the cache file.            *)
LEMMA LoadMerged ==
    ASSUME NEW f \in Files, NEW cached \in SUBSET Seq(FileEntry), AtMostOne(cached),
           \A g \in cached : DaemonWritten(g)
    PROVE  /\ merge(load(f), cached) \in AppConfig
           /\ RulesListed(merge(load(f), cached))
           /\ \A g \in cached : \A k \in DOMAIN g : Merged(g[k], merge(load(f), cached))
<1>1. f \in Seq(FileEntry)
    BY PollingAssumption
<1>2. load(f) \in AppConfig /\ RulesListed(load(f))
    BY <1>1, LoadListed
<1> QED
    BY <1>2, MergeKnown

(* The elements of a finite set, as a sequence.                            *)
LEMMA SetAsSeq ==
    ASSUME NEW T, NEW S \in SUBSET T, IsFiniteSet(S)
    PROVE  Seqs!SetToSeq(S) \in Seq(T)
<1>1. Cardinality(S) \in Nat /\ ExistsBijection(1 .. Cardinality(S), S)
    BY FS_CardinalityType
<1>2. PICK g \in Bijection(1 .. Cardinality(S), S) : TRUE
    BY <1>1 DEF ExistsBijection
<1>3. g \in [1 .. Cardinality(S) -> S] /\ Seqs!IsInjective(g)
    BY <1>2 DEF Bijection, Injection, IsInjective, Seqs!IsInjective
<1>4. Seqs!Cardinality(S) = Cardinality(S)
    BY DEF Seqs!Cardinality, Cardinality
<1>5. Seqs!SetToSeq(S) \in [1 .. Cardinality(S) -> S]
    BY <1>3, <1>4 DEF Seqs!SetToSeq
<1>6. Seqs!SetToSeq(S) \in Seq(S)
    BY <1>1, <1>5
<1> QED
    BY <1>6, SeqMonotonic

(* The entry cache::save makes.                                            *)
LEMMA AutoEntryType ==
    ASSUME NEW pkg \in Names, NEW comms \in SUBSET (Names \cup {Empty}), IsFiniteSet(comms)
    PROVE  AutoEntry(pkg, comms) \in FileEntry /\ AutoEntry(pkg, comms).packages = <<pkg>>
<1> DEFINE high == {n \in comms : est_load(n) >= 8}
           mean == {n \in comms : est_load(n) \in 5 .. 7 /\ Mid # {}}
           bigs == [n \in high |-> [cpus |-> Big, name |-> n]]
           mids == [n \in mean |-> [cpus |-> Mid, name |-> n]]
           rules == Range(bigs) \cup Range(mids)
<1>1. IsFiniteSet(high) /\ IsFiniteSet(mean)
    BY FS_Subset
<1>2. bigs \in Surjection(high, Range(bigs)) /\ mids \in Surjection(mean, Range(mids))
    BY DEF Surjection, Range
<1>3. IsFiniteSet(Range(bigs)) /\ IsFiniteSet(Range(mids))
    BY <1>1, <1>2, FS_Surjection
<1>4. IsFiniteSet(rules)
    BY <1>3, FS_Union
<1>5. Big \in SUBSET Cpus /\ Mid \in SUBSET Cpus /\ Little \in SUBSET Cpus
    BY CacheFileAssumption
<1>6. rules \subseteq CommRule
  <2>1. \A n \in comms : /\ [cpus |-> Big, name |-> n] \in CommRule
                         /\ [cpus |-> Mid, name |-> n] \in CommRule
    BY <1>5 DEF CommRule
  <2> QED
    BY <2>1 DEF Range
<1>7. rules = {[cpus |-> Big, name |-> n] : n \in high} \cup {[cpus |-> Mid, name |-> n] : n \in mean}
    BY DEF Range
<1> HIDE DEF rules
<1>8. Seqs!SetToSeq(rules) \in Seq(CommRule)
    BY <1>4, <1>6, SetAsSeq
<1>9. AutoEntry(pkg, comms)
        = [packages |-> <<pkg>>, other |-> Little, comm |-> Seqs!SetToSeq(rules)]
    BY <1>7 DEF AutoEntry
<1>10. <<pkg>> \in Seq(Names)
    OBVIOUS
<1> QED
    BY <1>5, <1>8, <1>9, <1>10 DEF FileEntry

(* What save leaves of the cache file: the other packages' entries.        *)
LEMMA OthersLeft ==
    ASSUME NEW cached \in SUBSET Seq(FileEntry), AtMostOne(cached),
           \A f \in cached : DaemonWritten(f), NEW pkg
    PROVE  /\ OtherEntries(cached, pkg) \in Seq(FileEntry)
           /\ DaemonWritten(OtherEntries(cached, pkg))
           /\ \A i \in DOMAIN OtherEntries(cached, pkg) :
                 /\ OtherEntries(cached, pkg)[i].packages # <<pkg>>
                 /\ \E f \in cached : \E k \in DOMAIN f : OtherEntries(cached, pkg)[i] = f[k]
<1> DEFINE f == Contents(cached)
           kept == {k \in DOMAIN f : f[k].packages = <<>> \/ Head(f[k].packages) # pkg}
           S == kept \X {0}
           n == Cardinality(S)
           others == OtherEntries(cached, pkg)
<1>1. f \in Seq(FileEntry) /\ (\A g \in cached : f = g) /\ (cached = {} => f = <<>>)
    BY ContentsOf
<1>2. DaemonWritten(f)
  <2>1. CASE cached = {}
    BY <1>1, <2>1 DEF DaemonWritten
  <2>2. CASE cached # {}
    BY <1>1, <2>2
  <2> QED
    BY <2>1, <2>2
<1>3. kept \subseteq DOMAIN f /\ (\A k \in kept : k \in Nat) /\ IsFiniteSet(kept)
  <2>1. Len(f) \in Nat /\ DOMAIN f = 1 .. Len(f)
    BY <1>1, LenProperties
  <2>2. IsFiniteSet(DOMAIN f)
    BY <2>1, FS_Interval
  <2> QED
    BY <2>1, <2>2, FS_Subset
<1>4. S \in SUBSET (Nat \X Nat) /\ IsFiniteSet(S)
  <2>1. IsFiniteSet({0})
    BY FS_Singleton
  <2> QED
    BY <1>3, <2>1, FS_Product
<1>5. \A k \in kept : f[k] \in FileEntry /\ f[k].packages # <<pkg>>
  <2> SUFFICES ASSUME NEW k \in kept PROVE f[k] \in FileEntry /\ f[k].packages # <<pkg>>
    OBVIOUS
  <2>1. f[k] \in FileEntry
    BY <1>1, <1>3, EntryType
  <2>2. <<pkg>> # <<>> /\ Head(<<pkg>>) = pkg
    OBVIOUS
  <2> QED
    BY <2>1, <2>2
<1>6. \A k \in kept : \E g \in cached : g = f
  <2>1. f = <<>> => kept = {}
    OBVIOUS
  <2> QED
    BY <1>1, <2>1
<1>7. /\ n \in Nat /\ InOrder(S) \in [1 .. n -> S]
      /\ \A i, k \in 1 .. n : InOrder(S)[i] = InOrder(S)[k] => i = k
    BY <1>4, InOrderLists
<1>8. \A p \in S : p[1] \in kept /\ p = <<p[1], 0>>
    OBVIOUS
<1>9. others = [i \in 1 .. n |-> f[InOrder(S)[i][1]]]
    BY <1>7 DEF OtherEntries
<1> HIDE DEF others, n, S, kept, f
<1>10. \A i \in 1 .. n : InOrder(S)[i][1] \in kept /\ others[i] = f[InOrder(S)[i][1]]
    BY <1>7, <1>8, <1>9
<1>11. others \in Seq(FileEntry) /\ DOMAIN others = 1 .. n
    BY <1>5, <1>7, <1>9, <1>10
<1>12. \A i \in 1 .. n : /\ others[i].packages # <<pkg>>
                         /\ \E g \in cached : \E k \in DOMAIN g : others[i] = g[k]
  <2> SUFFICES ASSUME NEW i \in 1 .. n
               PROVE  /\ others[i].packages # <<pkg>>
                      /\ \E g \in cached : \E k \in DOMAIN g : others[i] = g[k]
    OBVIOUS
  <2>1. InOrder(S)[i][1] \in kept /\ others[i] = f[InOrder(S)[i][1]]
    BY <1>10
  <2>2. PICK g \in cached : g = f
    BY <1>6, <2>1
  <2> QED
    BY <1>3, <1>5, <2>1, <2>2
<1>13. ASSUME NEW i \in 1 .. n, NEW k \in 1 .. n, others[i].packages = others[k].packages
       PROVE  i = k
  <2>1. /\ InOrder(S)[i][1] \in DOMAIN f /\ others[i] = f[InOrder(S)[i][1]]
        /\ InOrder(S)[k][1] \in DOMAIN f /\ others[k] = f[InOrder(S)[k][1]]
    BY <1>3, <1>10
  <2>2. InOrder(S)[i][1] = InOrder(S)[k][1]
    BY <1>2, <1>13, <2>1 DEF DaemonWritten
  <2>3. InOrder(S)[i] = InOrder(S)[k]
    BY <1>7, <1>8, <2>2
  <2> QED
    BY <1>7, <2>3
<1>14. \A i \in 1 .. n : \E u \in UserApps : others[i].packages = <<u>>
    BY <1>2, <1>3, <1>10 DEF DaemonWritten
<1>15. DaemonWritten(others)
    BY <1>11, <1>13, <1>14 DEF DaemonWritten
<1> QED
    BY <1>11, <1>12, <1>15 DEF others

(* cache::save writes one file; its entries are those of the other         *)
(* packages, and the new one.                                              *)
LEMMA SavedWritten ==
    ASSUME NEW cached \in SUBSET Seq(FileEntry), AtMostOne(cached),
           \A f \in cached : DaemonWritten(f),
           NEW entry \in FileEntry, NEW pkg \in UserApps, entry.packages = <<pkg>>
    PROVE  /\ AtMostOne(Saved(cached, entry)) /\ Saved(cached, entry) \subseteq Seq(FileEntry)
           /\ \A f \in Saved(cached, entry) :
                 /\ DaemonWritten(f)
                 /\ \A k \in DOMAIN f :
                       f[k] = entry \/ \E g \in cached : \E i \in DOMAIN g : f[k] = g[i]
<1> DEFINE others == OtherEntries(cached, pkg)
           new == Append(others, entry)
<1>1. /\ others \in Seq(FileEntry) /\ DaemonWritten(others)
      /\ \A i \in DOMAIN others :
            /\ others[i].packages # <<pkg>>
            /\ \E f \in cached : \E k \in DOMAIN f : others[i] = f[k]
    BY OthersLeft
<1>2. Saved(cached, entry) = {new}
  <2>1. Head(<<pkg>>) = pkg
    OBVIOUS
  <2> QED
    BY <2>1 DEF Saved
<1> HIDE DEF others
<1>3. /\ new \in Seq(FileEntry) /\ Len(others) \in Nat /\ DOMAIN others = 1 .. Len(others)
      /\ DOMAIN new = 1 .. Len(others) + 1
      /\ \A k \in 1 .. Len(others) : new[k] = others[k]
      /\ new[Len(others) + 1] = entry
    BY <1>1
<1> HIDE DEF new
<1>4. \A k \in DOMAIN new : k \in DOMAIN others \/ k = Len(others) + 1
    BY <1>3
<1>5. \A k \in DOMAIN new : \E u \in UserApps : new[k].packages = <<u>>
    BY <1>1, <1>3, <1>4 DEF DaemonWritten
<1>6. ASSUME NEW i \in DOMAIN new, NEW k \in DOMAIN new, new[i].packages = new[k].packages
      PROVE  i = k
  <2>1. CASE i \in DOMAIN others /\ k \in DOMAIN others
    BY <1>1, <1>3, <1>6, <2>1 DEF DaemonWritten
  <2>2. CASE i \notin DOMAIN others
    BY <1>1, <1>3, <1>4, <1>6, <2>2
  <2>3. CASE k \notin DOMAIN others
    BY <1>1, <1>3, <1>4, <1>6, <2>3
  <2> QED
    BY <2>1, <2>2, <2>3
<1>7. DaemonWritten(new)
    BY <1>5, <1>6 DEF DaemonWritten
<1>8. \A k \in DOMAIN new : new[k] = entry \/ \E g \in cached : \E i \in DOMAIN g : new[k] = g[i]
    BY <1>1, <1>3, <1>4
<1> QED
    BY <1>2, <1>3, <1>7, <1>8 DEF AtMostOne

-----------------------------------------------------------------------------
(* The inductive invariant.                                                *)

(* The stages of the scan for unknown applications, and what they hold:    *)
(* applications the rules in force do not know, with finitely many names.  *)
Stages ==
    /\ pc # "comms" => unknown = {}
    /\ pc # "save" => unsaved = {} /\ writing = {}
    /\ \A u \in unknown : IsUnknown(u.pkg, cfg)
    /\ \A u \in unsaved : IsUnknown(u.pkg, cfg) /\ IsFiniteSet(u.comms)

(* Every entry of the cache file is in the rules, or is for an application *)
(* the rules do not know: merging it again changes no binding.             *)
CacheFileKnown ==
    \A f \in cacheFile \cup UNION writing :
        /\ DaemonWritten(f)
        /\ \A k \in DOMAIN f : Merged(f[k], cfg) \/ IsUnknown(Head(f[k].packages), cfg)

AtMostOneEach ==
    /\ AtMostOne(cacheFile) /\ AtMostOne(writing) /\ AtMostOne(cur)
    /\ \A new \in writing : AtMostOne(new)

PkgFollows(p) ==
    /\ pkgs[p].htr = pkg_has_thread_rules(pkgs[p].pkg, cfg)
    /\ ~ IsUnknown(pkgs[p].pkg, cfg)

TaskFollows(t) ==
    tasks[t].pid \in DOMAIN pkgs /\ FollowsRules(tasks[t], pkgs[tasks[t].pid].pkg, cfg)

VisitFollows(t) ==
    \E p \in cur : any /\ tasks[t].pid = p.pid /\ FollowsRules(tasks[t], p.pkg, cfg)

(* While a rescan runs, a bound thread's process may be the one it visits; *)
(* each process is visited once.                                           *)
ScanFollows ==
    /\ \A p \in DOMAIN pkgs : PkgFollows(p)
    /\ \A t \in DOMAIN tasks : TaskFollows(t) \/ VisitFollows(t)
    /\ \A p \in cur :
          /\ p.htr = pkg_has_thread_rules(p.pkg, cfg)
          /\ any => ~ IsUnknown(p.pkg, cfg)
          /\ p.pid \notin targets \cup DOMAIN pkgs
    /\ targets \cap DOMAIN pkgs = {}

(* No rescan is under way or bound to come, and none has been skipped.     *)
Settled == pc \notin {"list", "scan"} /\ (pc = "count" => ~ scan_all_proc) /\ inotify_fd

SettledFollows ==
    /\ \A p \in DOMAIN pkgs : PkgFollows(p)
    /\ \A t \in DOMAIN tasks : TaskFollows(t)

(* The rules and the cache file, and the cache and what it follows from.   *)
CacheSide == RulesListed(cfg) /\ Stages /\ CacheFileKnown /\ AtMostOneEach

BindSide ==
    /\ pc = "scan" => scan_cfg = cfg /\ ScanFollows
    /\ pc # "scan" => CacheOf(scan_cfg)
    /\ Settled => SettledFollows

IInv == TypeOK /\ WholeProcesses(task) /\ CacheSide /\ BindSide

-----------------------------------------------------------------------------

LEMMA AtMostOneCard ==
    ASSUME NEW S, AtMostOne(S)
    PROVE  Cardinality(S) <= 1
<1>1. CASE S = {}
    BY <1>1, FS_EmptySet
<1>2. CASE S # {}
  <2>1. PICK x \in S : S = {x}
    BY <1>2 DEF AtMostOne
  <2>2. Cardinality({x}) = 1
    BY FS_Singleton
  <2> QED
    BY <2>1, <2>2
<1> QED
    BY <1>1, <1>2

(* What the two sides depend on.                                           *)
LEMMA SidesKept ==
    /\ CacheSide /\ UNCHANGED <<cfg, cacheFile, pc, unknown, unsaved, writing, cur>> => CacheSide'
    /\ BindSide /\ UNCHANGED <<cfg, scan_cfg, inotify_fd, pkgs, tasks, pc, scan_all_proc,
                               targets, cur, any>>
         => BindSide'
<1>1. ASSUME CacheSide, UNCHANGED <<cfg, cacheFile, pc, unknown, unsaved, writing, cur>>
      PROVE  CacheSide'
    BY <1>1 DEF CacheSide, Stages, CacheFileKnown, AtMostOneEach
<1>2. ASSUME BindSide, UNCHANGED <<cfg, scan_cfg, inotify_fd, pkgs, tasks, pc, scan_all_proc,
                                   targets, cur, any>>
      PROVE  BindSide'
  <2>1. CacheOf(scan_cfg) => CacheOf(scan_cfg)'
    BY <1>2 DEF CacheOf, FollowsRules
  <2>2. ScanFollows => ScanFollows'
    BY <1>2 DEF ScanFollows, PkgFollows, TaskFollows, VisitFollows, FollowsRules
  <2>3. SettledFollows => SettledFollows'
    BY <1>2 DEF SettledFollows, PkgFollows, TaskFollows, FollowsRules
  <2> QED
    BY <1>2, <2>1, <2>2, <2>3 DEF BindSide, Settled
<1> QED
    BY <1>1, <1>2

-----------------------------------------------------------------------------

(* Initially nothing is cached.                                            *)
LEMMA InitIInv == Init => IInv
<1> SUFFICES ASSUME Init PROVE IInv
    OBVIOUS
<1>1. /\ cacheFile \in SUBSET Seq(FileEntry) /\ AtMostOne(cacheFile) /\ file \in Files
      /\ \A f \in cacheFile : DaemonWritten(f)
    BY PollingAssumption, StartAssumption DEF Init, AtMostOne
<1>2. /\ cfg \in AppConfig /\ scan_cfg \in AppConfig /\ RulesListed(cfg)
      /\ \A f \in cacheFile : \A k \in DOMAIN f : Merged(f[k], cfg)
    BY <1>1, LoadMerged DEF Init
<1>3. IsMap(task, Tids, Task) /\ WholeProcesses(task)
    BY StartAssumption DEF Init
<1>4. DOMAIN pkgs = {} /\ DOMAIN tasks = {}
    BY DEF Init, EmptyMap
<1>5. Cardinality({}) = 0 /\ Cardinality(cacheFile) <= 1
    BY <1>1, AtMostOneCard, FS_EmptySet
<1>6. TypeOK
  <2>1. IsMap(pkgs, Tids, PkgEntry) /\ IsMap(tasks, Tids, TaskEntry)
    BY <1>4 DEF IsMap
  <2>2. /\ tracked_pids = {} /\ targets = {} /\ cur = {} /\ todo = {} /\ dead = {}
        /\ unknown = {} /\ unsaved = {} /\ writing = {}
    BY DEF Init
  <2>3. {last_proc_count, last_proc_total, current_total} \subseteq Nat
    BY DEF Init
  <2>4. {inotify_fd, scan_all_proc, force_affinity, any} \subseteq BOOLEAN
    BY Zenon DEF Init
  <2>5. pc \in PC
    BY DEF Init, PC
  <2>6. 0 <= 1
    OBVIOUS
  <2> QED
    BY <1>1, <1>2, <1>3, <1>5, <2>1, <2>2, <2>3, <2>4, <2>5, <2>6 DEF TypeOK
<1>7. Stages /\ CacheFileKnown /\ AtMostOneEach
    BY <1>1, <1>2 DEF Init, Stages, CacheFileKnown, AtMostOneEach, AtMostOne
<1>8. SettledFollows /\ CacheOf(scan_cfg)
    BY <1>4 DEF SettledFollows, CacheOf
<1> QED
    BY <1>2, <1>3, <1>6, <1>7, <1>8 DEF IInv, CacheSide, BindSide, Init

-----------------------------------------------------------------------------
(* The system.                                                             *)

(* The system's threads stay typed, and in whole processes.                *)
LEMMA SystemThreads ==
    ASSUME IsMap(task, Tids, Task), WholeProcesses(task), SystemStep
    PROVE  IsMap(task', Tids, Task) /\ WholeProcesses(task)'
<1>1. ASSUME NEW t \in Tids, NEW c \in Tids, NEW newProcess \in BOOLEAN, Fork(t, c, newProcess)
      PROVE  IsMap(task', Tids, Task) /\ WholeProcesses(task)'
  <2>1. /\ t \in DOMAIN task /\ c \notin DOMAIN task
        /\ task[t] \in Task /\ task[t].tgid \in DOMAIN task /\ task[task[t].tgid] \in Task
    BY <1>1 DEF Fork, IsMap, WholeProcesses
  <2> DEFINE new == IF newProcess
                    THEN [task[t] EXCEPT !.tgid = c, !.cmd = task[task[t].tgid].cmd]
                    ELSE [task[t] EXCEPT !.cmd = Empty]
  <2>2. new \in Task /\ new.tgid = IF newProcess THEN c ELSE task[t].tgid
    BY <2>1 DEF Task
  <2>3. task' = Insert(task, c, new)
    BY <1>1 DEF Fork
  <2> HIDE DEF new
  <2>4. IsMap(task', Tids, Task)
    BY <2>2, <2>3, InsertType
  <2>5. /\ DOMAIN task' = DOMAIN task \cup {c} /\ task'[c] = new
        /\ \A x \in DOMAIN task : task'[x] = task[x]
    <3>1. /\ DOMAIN Insert(task, c, new) = DOMAIN task \cup {c} /\ Insert(task, c, new)[c] = new
          /\ \A x \in DOMAIN task \ {c} : Insert(task, c, new)[x] = task[x]
      BY DEF Insert
    <3> QED
      BY <2>1, <2>3, <3>1
  <2>6. WholeProcesses(task)'
    BY <2>1, <2>2, <2>5 DEF WholeProcesses
  <2> QED
    BY <2>4, <2>6
<1>2. ASSUME NEW t \in Tids, NEW name \in CmdNames, SetArgV0(t, name)
      PROVE  IsMap(task', Tids, Task) /\ WholeProcesses(task)'
  <2>1. name \in Names /\ task' = [task EXCEPT ![t].cmd = name, ![t].comm = name]
    BY <1>2, PollingAssumption DEF SetArgV0
  <2>2. IsMap(task', Tids, Task)
    BY <2>1 DEF IsMap, Task
  <2>3. /\ DOMAIN task' = DOMAIN task
        /\ \A x \in DOMAIN task : task'[x].tgid = task[x].tgid
    BY <2>1 DEF IsMap, Task
  <2>4. WholeProcesses(task)'
    BY <2>3 DEF WholeProcesses
  <2> QED
    BY <2>2, <2>4
<1>3. ASSUME NEW t \in Tids, NEW name \in CommNames, SetName(t, name)
      PROVE  IsMap(task', Tids, Task) /\ WholeProcesses(task)'
  <2>1. name \in Names /\ task' = [task EXCEPT ![t].comm = name]
    BY <1>3, PollingAssumption DEF SetName
  <2>2. IsMap(task', Tids, Task)
    BY <2>1 DEF IsMap, Task
  <2>3. /\ DOMAIN task' = DOMAIN task
        /\ \A x \in DOMAIN task : task'[x].tgid = task[x].tgid
    BY <2>1 DEF IsMap, Task
  <2>4. WholeProcesses(task)'
    BY <2>3 DEF WholeProcesses
  <2> QED
    BY <2>2, <2>4
<1>4. ASSUME NEW t \in Tids, Exit(t)
      PROVE  IsMap(task', Tids, Task) /\ WholeProcesses(task)'
  <2>1. t \in DOMAIN task /\ task' = Remove(task, ThreadsOf(t) \cup {t})
    BY <1>4 DEF Exit
  <2> DEFINE gone == ThreadsOf(t) \cup {t}
  <2>2. /\ DOMAIN task' = DOMAIN task \ (ThreadsOf(t) \cup {t})
        /\ \A x \in DOMAIN task' : task'[x] = task[x]
    <3>1. /\ DOMAIN Remove(task, gone) = DOMAIN task \ gone
          /\ \A x \in DOMAIN task \ gone : Remove(task, gone)[x] = task[x]
      BY RemoveProperties
    <3> QED
      BY <2>1, <3>1
  <2>3. IsMap(task', Tids, Task)
    BY <2>1, RemoveType
  <2>4. WholeProcesses(task)'
    <3> SUFFICES ASSUME NEW x \in DOMAIN task'
                 PROVE  /\ task'[x].tgid \in DOMAIN task'
                        /\ task'[task'[x].tgid].tgid = task'[x].tgid
      BY DEF WholeProcesses
    <3>1. /\ x \in DOMAIN task /\ task'[x] = task[x] /\ task[x].tgid # t
          /\ task[x].tgid \in DOMAIN task /\ task[task[x].tgid].tgid = task[x].tgid
      BY <2>2 DEF ThreadsOf, WholeProcesses
    <3>2. task[x].tgid \in DOMAIN task'
      BY <2>2, <3>1 DEF ThreadsOf
    <3> QED
      BY <2>2, <3>1, <3>2
  <2> QED
    BY <2>3, <2>4
<1>5. ASSUME NEW t \in Tids, MoveAway(t)
      PROVE  IsMap(task', Tids, Task) /\ WholeProcesses(task)'
  <2>1. Background \subseteq Cpus
    BY PollingAssumption, NamesAssumption
  <2>2. task' = [task EXCEPT ![t].dir = Background, ![t].aff = Background]
    BY <1>5 DEF MoveAway
  <2>3. IsMap(task', Tids, Task)
    BY <2>1, <2>2 DEF IsMap, Task
  <2>4. /\ DOMAIN task' = DOMAIN task
        /\ \A x \in DOMAIN task : task'[x].tgid = task[x].tgid
    BY <2>1, <2>2 DEF IsMap, Task
  <2>5. WholeProcesses(task)'
    BY <2>4 DEF WholeProcesses
  <2> QED
    BY <2>3, <2>5
<1> QED
    BY <1>1, <1>2, <1>3, <1>4, <1>5 DEF SystemStep

LEMMA SystemKeeps ==
    ASSUME IInv, SystemStep
    PROVE  IInv'
<1>1. IsMap(task', Tids, Task) /\ WholeProcesses(task)'
    BY SystemThreads DEF IInv, TypeOK
<1>2. UNCHANGED <<pkgs, tasks, file, cacheFile, cfg, scan_cfg, inotify_fd, procState, pc,
                  scanVars, todo, dead, autoVars>>
    BY DEF SystemStep, watchVars
<1>3. TypeOK'
    BY <1>1, <1>2 DEF IInv, TypeOK, procState, scanVars, autoVars
<1>4. CacheSide' /\ BindSide'
    BY <1>2, SidesKept DEF IInv, procState, scanVars, autoVars
<1> QED
    BY <1>1, <1>3, <1>4 DEF IInv

-----------------------------------------------------------------------------
(* What the two sides need of a step that leaves most of them alone.       *)

LEMMA CacheSideKept ==
    ASSUME CacheSide, pc \notin {"comms", "save"},
           UNCHANGED <<cfg, cacheFile, unknown, unsaved, writing>>, AtMostOne(cur')
    PROVE  CacheSide'
<1>1. unknown = {} /\ unsaved = {} /\ writing = {}
    BY DEF CacheSide, Stages
<1>2. RulesListed(cfg)' /\ Stages'
    BY <1>1 DEF CacheSide, Stages
<1>3. CacheFileKnown' /\ AtMostOneEach'
    BY <1>1 DEF CacheSide, CacheFileKnown, AtMostOneEach
<1> QED
    BY <1>2, <1>3 DEF CacheSide

LEMMA BindSideKept ==
    ASSUME BindSide, SettledFollows \/ ~ Settled', UNCHANGED <<cfg, scan_cfg, pkgs, tasks>>,
           pc # "scan", pc' # "scan"
    PROVE  BindSide'
<1>1. CacheOf(scan_cfg)'
    BY DEF BindSide, CacheOf, FollowsRules
<1>2. SettledFollows => SettledFollows'
    BY DEF SettledFollows, PkgFollows, TaskFollows, FollowsRules
<1> QED
    BY <1>1, <1>2 DEF BindSide

LEMMA SettledNow == BindSide /\ Settled => SettledFollows
    BY DEF BindSide

-----------------------------------------------------------------------------
(* The steps that only pass on.                                            *)

LEMMA PassOnKeeps ==
    ASSUME IInv, KeepConfig \/ TimerNotDue \/ affinity_sync_start \/ CacheNotDue
    PROVE  IInv'
<1>1. /\ UNCHANGED <<task, pkgs, tasks, file, cacheFile, cfg, scan_cfg, inotify_fd, procState,
                     scanVars, dead, autoVars>>
      /\ pc \in {"top", "timer", "cache"} /\ pc' \in {"count", "cache", "sync", "top"}
      /\ todo' \in {todo, DOMAIN tasks}
      /\ pc' = "count" => pc = "top"
    BY DEF KeepConfig, TimerNotDue, affinity_sync_start, CacheNotDue, Goto, watchVars
<1>2. TypeOK'
  <2>1. todo' \subseteq Tids /\ pc' \in PC
    BY <1>1 DEF IInv, TypeOK, IsMap, PC
  <2>2. dead = {} /\ targets = {} /\ cur = {}
    BY <1>1 DEF IInv, TypeOK
  <2> QED
    BY <1>1, <2>1, <2>2 DEF IInv, TypeOK, procState, scanVars, autoVars
<1>3. WholeProcesses(task)'
    BY <1>1 DEF IInv, WholeProcesses
<1>4. CacheSide'
  <2>1. AtMostOne(cur')
    BY <1>1 DEF IInv, CacheSide, AtMostOneEach, scanVars
  <2> QED
    BY <1>1, <2>1, CacheSideKept DEF IInv, autoVars
<1>5. BindSide'
  <2>1. SettledFollows \/ ~ Settled'
    BY <1>1, SettledNow DEF IInv, Settled
  <2> QED
    BY <1>1, <2>1, BindSideKept DEF IInv
<1> QED
    BY <1>2, <1>3, <1>4, <1>5 DEF IInv

LEMMA CheckCountKeeps ==
    ASSUME IInv, check_count
    PROVE  IInv'
<1>1. /\ UNCHANGED <<task, pkgs, tasks, file, cacheFile, cfg, scan_cfg, inotify_fd,
                     scan_all_proc, tracked_pids, last_proc_total, scanVars, todo, dead,
                     autoVars>>
      /\ pc = "count" /\ pc' \in {"list", "timer"}
      /\ scan_all_proc => pc' = "list"
      /\ last_proc_count' = Cardinality(DOMAIN task) /\ force_affinity' \in BOOLEAN
    BY DEF check_count, Goto, watchVars, NeedReload, procs, IInv, TypeOK
<1>2. TypeOK'
  <2>1. IsFiniteSet(DOMAIN task)
    BY CacheAssumption, FS_Subset DEF IInv, TypeOK, IsMap
  <2>2. last_proc_count' \in Nat
    BY <1>1, <2>1, FS_CardinalityType
  <2>3. pc' \in PC /\ pc' # "scan" /\ pc' # "sync"
    BY <1>1 DEF PC
  <2>4. dead = {} /\ targets = {} /\ cur = {}
    BY <1>1 DEF IInv, TypeOK
  <2> QED
    BY <1>1, <2>2, <2>3, <2>4 DEF IInv, TypeOK, scanVars, autoVars
<1>3. WholeProcesses(task)'
    BY <1>1 DEF IInv, WholeProcesses
<1>4. CacheSide'
  <2>1. AtMostOne(cur')
    BY <1>1 DEF IInv, CacheSide, AtMostOneEach, scanVars
  <2> QED
    BY <1>1, <2>1, CacheSideKept DEF IInv, autoVars
<1>5. BindSide'
  <2>1. SettledFollows \/ ~ Settled'
    BY <1>1, SettledNow DEF IInv, Settled
  <2> QED
    BY <1>1, <2>1, BindSideKept DEF IInv
<1> QED
    BY <1>2, <1>3, <1>4, <1>5 DEF IInv

-----------------------------------------------------------------------------
(* New rules.                                                              *)

(* The rules of a reload name what they watch, and know the cache file.    *)
LEMMA ReloadedCacheSide ==
    ASSUME IInv, file' \in Files, cfg' = merge(load(file'), cacheFile), UNCHANGED cacheFile,
           unknown' = {}, unsaved' = {}, writing' = {}, AtMostOne(cur')
    PROVE  CacheSide' /\ cfg' \in AppConfig
<1>1. /\ cacheFile \in SUBSET Seq(FileEntry) /\ AtMostOne(cacheFile)
      /\ \A f \in cacheFile : DaemonWritten(f)
    BY DEF IInv, TypeOK, CacheSide, AtMostOneEach, CacheFileKnown
<1>2. /\ merge(load(file'), cacheFile) \in AppConfig
      /\ RulesListed(merge(load(file'), cacheFile))
      /\ \A g \in cacheFile : \A k \in DOMAIN g : Merged(g[k], merge(load(file'), cacheFile))
    BY <1>1, LoadMerged
<1>3. cfg' \in AppConfig /\ RulesListed(cfg')
      /\ \A g \in cacheFile : \A k \in DOMAIN g : Merged(g[k], cfg')
    BY <1>2
<1>4. Stages'
    BY DEF Stages
<1>5. CacheFileKnown'
    BY <1>1, <1>3 DEF CacheFileKnown
<1>6. AtMostOneEach'
    BY <1>1 DEF AtMostOneEach, AtMostOne
<1> QED
    BY <1>3, <1>4, <1>5, <1>6 DEF CacheSide

(* What the two reloads have in common: the cache is still that of the     *)
(* last rescan.                                                            *)
LEMMA ReloadKeeps ==
    ASSUME IInv, pc = "top", pc' = "count", file' \in Files,
           scan_all_proc' \in BOOLEAN, inotify_fd' \in BOOLEAN, ~ Settled',
           CacheSide' /\ cfg' \in AppConfig,
           UNCHANGED <<task, pkgs, tasks, cacheFile, scan_cfg, last_proc_count, tracked_pids,
                       last_proc_total, force_affinity, scanVars, todo, dead, autoVars>>
    PROVE  IInv'
<1>1. TypeOK'
  <2>1. pc' \in PC /\ dead = {} /\ targets = {} /\ cur = {}
    BY DEF IInv, TypeOK, PC
  <2> QED
    BY <2>1 DEF IInv, TypeOK, scanVars, autoVars
<1>2. WholeProcesses(task)'
    BY DEF IInv, WholeProcesses
<1>3. CacheOf(scan_cfg)'
    BY DEF IInv, BindSide, CacheOf, FollowsRules
<1>4. BindSide'
    BY <1>3 DEF BindSide
<1> QED
    BY <1>1, <1>2, <1>4 DEF IInv

LEMMA HotReloadKeeps ==
    ASSUME IInv, hot_reload
    PROVE  IInv'
<1>1. /\ pc = "top" /\ pc' = "count" /\ file' \in Files
      /\ cfg' = merge(load(file'), cacheFile) /\ scan_all_proc' = TRUE
      /\ inotify_fd' \in {inotify_fd, FALSE}
      /\ UNCHANGED <<task, pkgs, tasks, cacheFile, scan_cfg, last_proc_count, tracked_pids,
                     last_proc_total, force_affinity, scanVars, todo, dead, autoVars>>
    BY DEF hot_reload, Goto
<1>2. CacheSide' /\ cfg' \in AppConfig
  <2>1. unknown' = {} /\ unsaved' = {} /\ writing' = {}
    BY <1>1 DEF IInv, CacheSide, Stages, autoVars
  <2>2. AtMostOne(cur')
    BY <1>1 DEF IInv, CacheSide, AtMostOneEach, scanVars
  <2> QED
    BY <1>1, <2>1, <2>2, ReloadedCacheSide
<1>3. ~ Settled'
    BY <1>1 DEF Settled
<1>4. scan_all_proc' \in BOOLEAN /\ inotify_fd' \in BOOLEAN
    BY <1>1 DEF IInv, TypeOK
<1> QED
    BY <1>1, <1>2, <1>3, <1>4, ReloadKeeps

LEMMA HotReloadUnscannedKeeps ==
    ASSUME IInv, hot_reload_unscanned
    PROVE  IInv'
<1>1. /\ pc = "top" /\ pc' = "count" /\ inotify_fd' = FALSE
      /\ \/ file' \in Files /\ cfg' = merge(load(file'), cacheFile)
         \/ UNCHANGED <<file, cfg>>
      /\ UNCHANGED <<task, pkgs, tasks, cacheFile, scan_cfg, scan_all_proc, last_proc_count,
                     tracked_pids, last_proc_total, force_affinity, scanVars, todo, dead,
                     autoVars>>
    BY DEF hot_reload_unscanned, Goto, procState
<1>2. AtMostOne(cur')
    BY <1>1 DEF IInv, CacheSide, AtMostOneEach, scanVars
<1>3. CacheSide' /\ cfg' \in AppConfig /\ file' \in Files
  <2>1. CASE file' \in Files /\ cfg' = merge(load(file'), cacheFile)
    <3>1. unknown' = {} /\ unsaved' = {} /\ writing' = {}
      BY <1>1 DEF IInv, CacheSide, Stages, autoVars
    <3> QED
      BY <1>1, <1>2, <2>1, <3>1, ReloadedCacheSide
  <2>2. CASE UNCHANGED <<file, cfg>>
    BY <1>1, <1>2, <2>2, CacheSideKept DEF IInv, TypeOK, autoVars
  <2> QED
    BY <1>1, <2>1, <2>2
<1>4. ~ Settled'
    BY <1>1 DEF Settled
<1>5. scan_all_proc' \in BOOLEAN /\ inotify_fd' \in BOOLEAN
    BY <1>1 DEF IInv, TypeOK
<1> QED
    BY <1>1, <1>3, <1>4, <1>5, ReloadKeeps

LEMMA RestartKeeps ==
    ASSUME IInv, Restart
    PROVE  IInv'
<1>1. /\ file' \in Files /\ cfg' = merge(load(file'), cacheFile)
      /\ scan_cfg' = cfg' /\ inotify_fd' \in BOOLEAN
      /\ DOMAIN pkgs' = {} /\ DOMAIN tasks' = {}
      /\ last_proc_count' = 0 /\ last_proc_total' = 0 /\ current_total' = 0
      /\ scan_all_proc' = TRUE /\ force_affinity' = FALSE /\ any' = FALSE
      /\ pc' = "start"
      /\ tracked_pids' = {} /\ targets' = {} /\ cur' = {} /\ todo' = {} /\ dead' = {}
      /\ unknown' = {} /\ unsaved' = {} /\ writing' = {}
      /\ UNCHANGED <<task, cacheFile>>
    BY DEF Restart, watchVars, EmptyMap, Goto
<1>2. CacheSide' /\ cfg' \in AppConfig
  <2>1. AtMostOne(cur')
    BY <1>1 DEF AtMostOne
  <2> QED
    BY <1>1, <2>1, ReloadedCacheSide
<1>3. TypeOK'
  <2>1. IsMap(pkgs', Tids, PkgEntry) /\ IsMap(tasks', Tids, TaskEntry)
    BY <1>1 DEF IsMap
  <2>2. {last_proc_count', last_proc_total', current_total'} \subseteq Nat
    BY <1>1
  <2>3. {inotify_fd', scan_all_proc', force_affinity', any'} \subseteq BOOLEAN
    BY <1>1, Zenon
  <2>4. pc' \in PC
    BY <1>1 DEF PC
  <2>5. Cardinality({}) <= 1
    BY FS_EmptySet
  <2> QED
    BY <1>1, <1>2, <2>1, <2>2, <2>3, <2>4, <2>5 DEF IInv, TypeOK
<1>4. WholeProcesses(task)'
    BY <1>1 DEF IInv, WholeProcesses
<1>5. BindSide'
    BY <1>1 DEF BindSide, SettledFollows, CacheOf
<1> QED
    BY <1>2, <1>3, <1>4, <1>5 DEF IInv

-----------------------------------------------------------------------------
(* The rescan.                                                             *)

LEMMA RescanListKeeps ==
    ASSUME IInv, rescan_list
    PROVE  IInv'
<1>1. /\ pc = "list" /\ pc' = "scan" /\ DOMAIN pkgs' = {} /\ DOMAIN tasks' = {}
      /\ current_total' = Cardinality(MainThreads) /\ targets' = ToVisit(MainThreads)
      /\ scan_cfg' = cfg
      /\ UNCHANGED <<task, file, cacheFile, cfg, inotify_fd, procState, cur, any, todo, dead,
                     autoVars>>
    BY DEF rescan_list, watchVars, EmptyMap, Goto
<1>2. cur = {} /\ dead = {}
    BY <1>1 DEF IInv, TypeOK
<1>3. TypeOK'
  <2>1. MainThreads \subseteq Tids /\ targets' \subseteq Tids
    BY <1>1 DEF IInv, TypeOK, IsMap, MainThreads, ToVisit
  <2>2. current_total' \in Nat
    <3>1. IsFiniteSet(MainThreads)
      BY <2>1, CacheAssumption, FS_Subset
    <3> QED
      BY <1>1, <3>1, FS_CardinalityType
  <2>3. IsMap(pkgs', Tids, PkgEntry) /\ IsMap(tasks', Tids, TaskEntry)
    BY <1>1 DEF IsMap
  <2>4. pc' \in PC /\ pc' # "sync"
    BY <1>1 DEF PC
  <2> QED
    BY <1>1, <1>2, <2>1, <2>2, <2>3, <2>4 DEF IInv, TypeOK, procState, autoVars
<1>4. WholeProcesses(task)'
    BY <1>1 DEF IInv, WholeProcesses
<1>5. CacheSide'
  <2>1. AtMostOne(cur')
    BY <1>1 DEF IInv, CacheSide, AtMostOneEach
  <2> QED
    BY <1>1, <2>1, CacheSideKept DEF IInv, autoVars
<1>6. BindSide'
    BY <1>1, <1>2 DEF BindSide, Settled, ScanFollows
<1> QED
    BY <1>3, <1>4, <1>5, <1>6 DEF IInv

LEMMA RescanProcessKeeps ==
    ASSUME IInv, rescan_process
    PROVE  IInv'
<1>1. PICK p \in targets :
          /\ targets' = targets \ {p}
          /\ cur' = {[pid |-> t, pkg |-> ProcessName(t),
                       htr |-> pkg_has_thread_rules(ProcessName(t), cfg)] :
                         t \in {t \in MainThreads \cap {p} : interested(ProcessName(t))}}
          /\ todo' = IF cur' = {} THEN {} ELSE ThreadsOf(p)
    BY DEF rescan_process, watchVars
<1>2. /\ pc = "scan" /\ cur = {} /\ any' = FALSE
      /\ UNCHANGED <<task, pkgs, tasks, file, cacheFile, cfg, scan_cfg, inotify_fd, procState,
                     pc, current_total, dead, autoVars>>
    BY DEF rescan_process, watchVars
<1>3. \A v \in cur' : /\ v.pid = p /\ v.pkg = ProcessName(p) /\ p \in MainThreads
                      /\ v = [pid |-> p, pkg |-> ProcessName(p),
                              htr |-> pkg_has_thread_rules(ProcessName(p), cfg)]
                      /\ v.htr = pkg_has_thread_rules(v.pkg, cfg)
    BY <1>1
<1>4. AtMostOne(cur')
    BY <1>3 DEF AtMostOne
<1>5. TypeOK'
  <2>1. Cardinality(cur') <= 1
    BY <1>4, AtMostOneCard
  <2>2. cur' \subseteq Visited
    <3> SUFFICES ASSUME NEW v \in cur' PROVE v \in Visited
      OBVIOUS
    <3>1. p \in MainThreads
      BY <1>3
    <3>2. task[p] \in Task /\ p \in Tids
      BY <3>1 DEF MainThreads, IInv, TypeOK, IsMap
    <3>3. ProcessName(p) \in Names
      BY <3>2 DEF ProcessName, Task
    <3>4. pkg_has_thread_rules(ProcessName(p), cfg) \in BOOLEAN
      BY DEF pkg_has_thread_rules
    <3>5. v = [pid |-> p, pkg |-> ProcessName(p),
               htr |-> pkg_has_thread_rules(ProcessName(p), cfg)]
      BY <1>3
    <3> QED
      BY <3>2, <3>3, <3>4, <3>5 DEF Visited
  <2>3. todo' \subseteq Tids /\ targets' \subseteq Tids
    BY <1>1 DEF IInv, TypeOK, IsMap, ThreadsOf
  <2>4. any' \in BOOLEAN
    BY <1>2
  <2>5. {inotify_fd', scan_all_proc', force_affinity', any'} \subseteq BOOLEAN
    BY <1>2, <2>4 DEF IInv, TypeOK, procState
  <2> QED
    BY <1>2, <2>1, <2>2, <2>3, <2>5 DEF IInv, TypeOK, procState, autoVars
<1>6. WholeProcesses(task)'
    BY <1>2 DEF IInv, WholeProcesses
<1>7. CacheSide'
    BY <1>2, <1>4, CacheSideKept DEF IInv, autoVars
<1>8. BindSide'
  <2>1. ScanFollows
    BY <1>2 DEF IInv, BindSide
  <2>2. /\ \A q \in DOMAIN pkgs : PkgFollows(q)
        /\ \A t \in DOMAIN tasks : TaskFollows(t)
        /\ p \notin DOMAIN pkgs /\ p \notin targets'
        /\ targets' \cap DOMAIN pkgs = {}
    BY <1>1, <1>2, <2>1 DEF ScanFollows, VisitFollows
  <2>3. ScanFollows'
    BY <1>2, <1>3, <2>2 DEF ScanFollows, PkgFollows, TaskFollows, VisitFollows, FollowsRules
  <2> QED
    BY <1>2, <2>3 DEF IInv, BindSide, Settled
<1> QED
    BY <1>5, <1>6, <1>7, <1>8 DEF IInv

(* What the visit of a thread stores follows from its process's rules, and *)
(* the process is then going to be cached.                                 *)
LEMMA RescanThreadKeeps ==
    ASSUME IInv, rescan_thread
    PROVE  IInv'
<1> DEFINE commOf(p, t) == IF p.htr /\ t \in DOMAIN task THEN task[t].comm ELSE Empty
           resultsFor(p, t) == ResultToApply(t, [pkg |-> p.pkg, htr |-> p.htr], commOf(p, t),
                                             TRUE, cfg)
           boundFor(p, t) == {EntryFor(p.pid, r) : r \in resultsFor(p, t)}
<1>1. PICK p \in cur, t \in todo :
          /\ todo' = todo \ {t}
          /\ any' = (any \/ thread_affinity(p.pkg, commOf(p, t), cfg) # {})
          /\ IF boundFor(p, t) = {} THEN UNCHANGED tasks
             ELSE \E e \in boundFor(p, t) : tasks' = Insert(tasks, t, e)
    BY DEF rescan_thread, watchVars
<1>2. /\ pc = "scan"
      /\ UNCHANGED <<task, pkgs, file, cacheFile, cfg, scan_cfg, inotify_fd, procState, pc,
                     targets, cur, current_total, dead, autoVars>>
    BY DEF rescan_thread, watchVars
<1> DEFINE comm == commOf(p, t)
<1>3. /\ p \in Visited /\ t \in Tids /\ cfg \in AppConfig /\ IsMap(task, Tids, Task)
      /\ IsMap(tasks, Tids, TaskEntry) /\ RulesListed(cfg) /\ ScanFollows
    BY <1>2 DEF IInv, TypeOK, CacheSide, BindSide
<1>4. p.pid \in Tids /\ p.pkg \in Names /\ p.htr \in BOOLEAN
    BY <1>3 DEF Visited
<1>5. comm \in Names \cup {Empty} /\ (~ p.htr => comm = Empty)
    BY <1>3 DEF IsMap, Task
<1> HIDE DEF comm
<1>6. resultsFor(p, t) \subseteq thread_affinity(p.pkg, comm, cfg)
  <2>1. (IF p.htr /\ TRUE THEN comm ELSE Empty) = comm
    BY <1>4, <1>5
  <2>2. /\ [pkg |-> p.pkg, htr |-> p.htr].pkg = p.pkg
        /\ [pkg |-> p.pkg, htr |-> p.htr].htr = p.htr
    OBVIOUS
  <2> QED
    BY <2>1, <2>2 DEF ResultToApply, comm
<1>7. any' = (any \/ thread_affinity(p.pkg, comm, cfg) # {}) /\ any' \in BOOLEAN
    BY <1>1 DEF comm
<1>8. CASE boundFor(p, t) = {}
  <2>1. UNCHANGED tasks
    BY <1>1, <1>8
  <2>2. TypeOK'
    <3>1. {inotify_fd', scan_all_proc', force_affinity', any'} \subseteq BOOLEAN
      BY <1>2, <1>7 DEF IInv, TypeOK, procState
    <3>2. todo' \subseteq Tids
      BY <1>1 DEF IInv, TypeOK
    <3> QED
      BY <1>2, <2>1, <3>1, <3>2 DEF IInv, TypeOK, procState, autoVars
  <2>3. ScanFollows'
    <3>1. any' => ~ IsUnknown(p.pkg, cfg)
      BY <1>3, <1>4, <1>5, <1>7, BoundIsKnown DEF ScanFollows
    <3>2. \A q \in cur : q = p
      BY DEF IInv, CacheSide, AtMostOneEach, AtMostOne
    <3>3. any => any'
      BY <1>7
    <3> QED
      BY <1>2, <1>3, <2>1, <3>1, <3>2, <3>3
      DEF ScanFollows, PkgFollows, TaskFollows, VisitFollows, FollowsRules
  <2> QED
    BY <1>2, <2>2, <2>3, CacheSideKept DEF IInv, CacheSide, AtMostOneEach, WholeProcesses,
       BindSide, Settled, autoVars
<1>9. CASE boundFor(p, t) # {}
  <2>1. PICK e \in boundFor(p, t) : tasks' = Insert(tasks, t, e)
    BY <1>1, <1>9
  <2>2. PICK r \in thread_affinity(p.pkg, comm, cfg) : e = EntryFor(p.pid, r)
    BY <1>6, <2>1
  <2>3. r \in AffinityResult
    BY <1>3, <2>2, ThreadAffinityType
  <2>4. /\ e \in TaskEntry /\ e.pid = p.pid /\ e.cpus = r.cpus
        /\ e.is_thread_rule = r.is_thread_rule
    BY <1>4, <2>2, <2>3 DEF EntryFor, TaskEntry, AffinityResult
  <2>5. any' = TRUE
    BY <1>7, <2>2
  <2>6. FollowsRules(e, p.pkg, cfg)
    BY <1>5, <2>2, <2>4 DEF FollowsRules
  <2>7. /\ DOMAIN tasks' = DOMAIN tasks \cup {t} /\ tasks'[t] = e
        /\ \A x \in DOMAIN tasks \ {t} : tasks'[x] = tasks[x]
    BY <2>1 DEF Insert
  <2>8. IsMap(tasks', Tids, TaskEntry)
    BY <1>3, <2>1, <2>4, InsertType
  <2>9. TypeOK'
    <3>1. {inotify_fd', scan_all_proc', force_affinity', any'} \subseteq BOOLEAN
      BY <1>2, <1>7 DEF IInv, TypeOK, procState
    <3>2. todo' \subseteq Tids
      BY <1>1 DEF IInv, TypeOK
    <3> QED
      BY <1>2, <2>8, <3>1, <3>2 DEF IInv, TypeOK, procState, autoVars
  <2>10. ScanFollows'
    <3>1. ~ IsUnknown(p.pkg, cfg)
      BY <1>3, <1>4, <1>5, <2>2, BoundIsKnown
    <3>2. \A q \in cur : q = p
      BY DEF IInv, CacheSide, AtMostOneEach, AtMostOne
    <3>3. ASSUME NEW x \in DOMAIN tasks'
          PROVE  TaskFollows(x)' \/ VisitFollows(x)'
      <4>1. CASE x = t
        BY <1>2, <2>4, <2>5, <2>6, <2>7, <4>1 DEF VisitFollows, FollowsRules
      <4>2. CASE x # t
        <5>1. x \in DOMAIN tasks /\ tasks'[x] = tasks[x]
          BY <2>7, <4>2
        <5>2. TaskFollows(x) \/ VisitFollows(x)
          BY <1>3, <5>1 DEF ScanFollows
        <5> QED
          BY <1>2, <2>5, <5>1, <5>2 DEF TaskFollows, VisitFollows, FollowsRules
      <4> QED
        BY <4>1, <4>2
    <3> QED
      BY <1>2, <1>3, <3>1, <3>2, <3>3 DEF ScanFollows, PkgFollows
  <2> QED
    BY <1>2, <2>9, <2>10, CacheSideKept DEF IInv, CacheSide, AtMostOneEach, WholeProcesses,
       BindSide, Settled, autoVars
<1> QED
    BY <1>8, <1>9

LEMMA RescanPackageKeeps ==
    ASSUME IInv, rescan_package
    PROVE  IInv'
<1>1. PICK p \in cur :
          pkgs' = IF any THEN Insert(pkgs, p.pid, [pkg |-> p.pkg, htr |-> p.htr]) ELSE pkgs
    BY DEF rescan_package, watchVars
<1>2. /\ pc = "scan" /\ cur' = {}
      /\ UNCHANGED <<task, tasks, file, cacheFile, cfg, scan_cfg, inotify_fd, procState, pc,
                     targets, any, current_total, todo, dead, autoVars>>
    BY DEF rescan_package, watchVars
<1>3. p \in Visited /\ IsMap(pkgs, Tids, PkgEntry) /\ ScanFollows /\ \A q \in cur : q = p
    BY <1>2 DEF IInv, TypeOK, BindSide, CacheSide, AtMostOneEach, AtMostOne
<1> DEFINE new == [pkg |-> p.pkg, htr |-> p.htr]
<1>4. new \in PkgEntry /\ p.pid \in Tids /\ new.pkg = p.pkg /\ new.htr = p.htr
    BY <1>3 DEF Visited, PkgEntry
<1>5. pkgs' = IF any THEN Insert(pkgs, p.pid, new) ELSE pkgs
    BY <1>1
<1> HIDE DEF new
<1>6. IsMap(pkgs', Tids, PkgEntry)
  <2>1. IsMap(Insert(pkgs, p.pid, new), Tids, PkgEntry)
    BY <1>3, <1>4, InsertType
  <2> QED
    BY <1>3, <1>5, <2>1
<1>7. TypeOK'
  <2>1. Cardinality({}) <= 1
    BY FS_EmptySet
  <2> QED
    BY <1>2, <1>6, <2>1 DEF IInv, TypeOK, procState, autoVars
<1>8. CacheSide'
  <2>1. AtMostOne(cur')
    BY <1>2 DEF AtMostOne
  <2> QED
    BY <1>2, <2>1, CacheSideKept DEF IInv, autoVars
<1>9. ScanFollows'
  <2>1. CASE any
    <3>1. /\ DOMAIN pkgs' = DOMAIN pkgs \cup {p.pid} /\ pkgs'[p.pid] = new
          /\ \A x \in DOMAIN pkgs \ {p.pid} : pkgs'[x] = pkgs[x]
      BY <1>5, <2>1 DEF Insert
    <3>2. p.pid \notin targets \cup DOMAIN pkgs
      BY <1>3 DEF ScanFollows
    <3>3. \A q \in DOMAIN pkgs' : PkgFollows(q)'
      BY <1>2, <1>3, <1>4, <2>1, <3>1 DEF ScanFollows, PkgFollows
    <3>4. \A t \in DOMAIN tasks' : TaskFollows(t)'
      <4> SUFFICES ASSUME NEW t \in DOMAIN tasks PROVE TaskFollows(t)'
        BY <1>2
      <4>1. CASE TaskFollows(t)
        BY <1>2, <3>1, <3>2, <4>1 DEF TaskFollows, FollowsRules
      <4>2. CASE VisitFollows(t)
        BY <1>2, <1>3, <1>4, <3>1, <4>2 DEF TaskFollows, VisitFollows, FollowsRules
      <4> QED
        BY <1>3, <4>1, <4>2 DEF ScanFollows
    <3> QED
      BY <1>2, <1>3, <3>1, <3>2, <3>3, <3>4 DEF ScanFollows
  <2>2. CASE ~ any
    <3>1. UNCHANGED pkgs
      BY <1>5, <2>2
    <3> QED
      BY <1>2, <1>3, <2>2, <3>1 DEF ScanFollows, PkgFollows, TaskFollows, VisitFollows, FollowsRules
  <2> QED
    BY <2>1, <2>2
<1> QED
    BY <1>2, <1>7, <1>8, <1>9 DEF IInv, WholeProcesses, BindSide, Settled

LEMMA RescanEndKeeps ==
    ASSUME IInv, rescan_end
    PROVE  IInv'
<1>1. /\ pc = "scan" /\ targets = {} /\ cur = {} /\ pc' = "timer"
      /\ scan_all_proc' \in BOOLEAN /\ last_proc_total' = current_total
      /\ tracked_pids' = DOMAIN pkgs /\ force_affinity' = TRUE
      /\ UNCHANGED <<task, pkgs, tasks, file, cacheFile, cfg, scan_cfg, inotify_fd,
                     last_proc_count, scanVars, todo, dead, autoVars>>
    BY DEF rescan_end, watchVars, Goto
<1>2. TypeOK'
  <2>1. pc' \in PC /\ pc' # "sync" /\ dead = {}
    BY <1>1 DEF IInv, TypeOK, PC
  <2>2. {inotify_fd', scan_all_proc', force_affinity', any'} \subseteq BOOLEAN
    BY <1>1 DEF IInv, TypeOK, scanVars
  <2> QED
    BY <1>1, <2>1, <2>2 DEF IInv, TypeOK, IsMap, scanVars, autoVars
<1>3. CacheSide'
  <2>1. AtMostOne(cur')
    BY <1>1 DEF AtMostOne, scanVars
  <2> QED
    BY <1>1, <2>1, CacheSideKept DEF IInv, autoVars
<1>4. BindSide'
  <2>1. SettledFollows /\ scan_cfg = cfg
    BY <1>1 DEF IInv, BindSide, ScanFollows, VisitFollows, SettledFollows
  <2>2. SettledFollows'
    BY <1>1, <2>1 DEF SettledFollows, PkgFollows, TaskFollows, FollowsRules
  <2>3. CacheOf(scan_cfg)'
    BY <1>1, <2>1, <2>2 DEF SettledFollows, PkgFollows, TaskFollows, CacheOf
  <2> QED
    BY <1>1, <2>2, <2>3 DEF BindSide
<1> QED
    BY <1>1, <1>2, <1>3, <1>4 DEF IInv, WholeProcesses

-----------------------------------------------------------------------------
(* The affinity timer.                                                     *)

LEMMA AffinitySetType ==
    ASSUME NEW thread \in Task, NEW cpus, NEW dir
    PROVE  /\ AffinitySet(thread, cpus, dir) \in Task
           /\ AffinitySet(thread, cpus, dir).tgid = thread.tgid
<1>1. Present \subseteq Cpus
    BY NamesAssumption
<1>2. MovedTo(thread, dir) \in Task /\ MovedTo(thread, dir).tgid = thread.tgid
  <2> DEFINE in == (IF dir = {} THEN Present ELSE dir) \cap Present
  <2>1. in \subseteq Cpus
    BY <1>1
  <2>2. MovedTo(thread, dir)
          = IF CpusetEnabled THEN [thread EXCEPT !.dir = in, !.aff = in] ELSE thread
    BY DEF MovedTo
  <2> HIDE DEF in
  <2> QED
    BY <2>1, <2>2 DEF Task
<1> DEFINE moved == MovedTo(thread, dir)
           left == cpus \cap moved.dir
<1>3. left \subseteq Cpus
    BY <1>2 DEF Task
<1>4. AffinitySet(thread, cpus, dir)
        \in {thread, moved, [moved EXCEPT !.aff = left]}
    BY DEF AffinitySet
<1> HIDE DEF moved, left
<1>5. moved \in Task /\ moved.tgid = thread.tgid
    BY <1>2 DEF moved
<1> QED
    BY <1>3, <1>4, <1>5 DEF Task

LEMMA AffinitySyncThreadKeeps ==
    ASSUME IInv, affinity_sync_thread
    PROVE  IInv'
<1>1. PICK t \in todo :
          /\ todo' = todo \ {t}
          /\ IF t \in DOMAIN task
             THEN /\ task' = [task EXCEPT ![t] =
                                AffinitySet(task[t], tasks[t].cpus, tasks[t].cpuset_dir)]
                  /\ UNCHANGED dead
             ELSE dead' = dead \cup {t} /\ UNCHANGED task
    BY DEF affinity_sync_thread, watchVars
<1>2. /\ pc = "sync"
      /\ UNCHANGED <<pkgs, tasks, file, cacheFile, cfg, scan_cfg, inotify_fd, procState, pc,
                     scanVars, autoVars>>
    BY DEF affinity_sync_thread, watchVars
<1>3. IsMap(task', Tids, Task) /\ WholeProcesses(task)' /\ dead' \subseteq Tids
  <2>1. CASE t \in DOMAIN task
    <3> DEFINE set == AffinitySet(task[t], tasks[t].cpus, tasks[t].cpuset_dir)
    <3>1. task[t] \in Task
      BY <2>1 DEF IInv, TypeOK, IsMap
    <3>2. set \in Task /\ set.tgid = task[t].tgid
      BY <3>1, AffinitySetType
    <3>3. task' = [task EXCEPT ![t] = set] /\ UNCHANGED dead
      BY <1>1, <2>1
    <3> HIDE DEF set
    <3> QED
      BY <3>2, <3>3 DEF IInv, TypeOK, IsMap, WholeProcesses
  <2>2. CASE t \notin DOMAIN task
    BY <1>1, <2>2 DEF IInv, TypeOK, WholeProcesses
  <2> QED
    BY <2>1, <2>2
<1>4. TypeOK'
  <2>1. todo' \subseteq Tids
    BY <1>1 DEF IInv, TypeOK
  <2> QED
    BY <1>2, <1>3, <2>1 DEF IInv, TypeOK, procState, scanVars, autoVars
<1>5. CacheSide' /\ BindSide'
    BY <1>2, SidesKept DEF IInv, procState, scanVars, autoVars
<1> QED
    BY <1>3, <1>4, <1>5 DEF IInv

(* The entries left behind by the dead ones' removal keep their process's. *)
LEMMA DeadRemoved ==
    ASSUME NEW D \in SUBSET Tids, tasks' = TasksWithout(D), pkgs' = PkgsWithout(pkgs, D)
    PROVE  /\ DOMAIN tasks' \subseteq DOMAIN tasks /\ DOMAIN pkgs' \subseteq DOMAIN pkgs
           /\ DOMAIN tasks' = DOMAIN tasks \ D
           /\ \A t \in DOMAIN tasks' : tasks'[t] = tasks[t]
           /\ \A p \in DOMAIN pkgs' : pkgs'[p] = pkgs[p]
           /\ \A t \in DOMAIN tasks' : tasks[t].pid \in DOMAIN pkgs => tasks[t].pid \in DOMAIN pkgs'
<1>1. /\ DOMAIN Remove(tasks, D) = DOMAIN tasks \ D
      /\ \A x \in DOMAIN tasks \ D : Remove(tasks, D)[x] = tasks[x]
    BY RemoveProperties
<1>2. /\ DOMAIN tasks' = DOMAIN tasks \ D
      /\ \A x \in DOMAIN tasks' : tasks'[x] = tasks[x]
    BY <1>1 DEF TasksWithout
<1> DEFINE gone == {p \in {tasks[t].pid : t \in D \cap DOMAIN tasks} :
                       \A t \in DOMAIN tasks' : tasks'[t].pid # p}
<1>3. pkgs' = Remove(pkgs, gone)
    BY DEF PkgsWithout, pkgs_purge
<1>4. /\ DOMAIN Remove(pkgs, gone) = DOMAIN pkgs \ gone
      /\ \A x \in DOMAIN pkgs \ gone : Remove(pkgs, gone)[x] = pkgs[x]
    BY RemoveProperties
<1>5. \A t \in DOMAIN tasks' : tasks[t].pid \notin gone
    BY <1>2
<1> HIDE DEF gone
<1> QED
    BY <1>2, <1>3, <1>4, <1>5

LEMMA AffinitySyncEndKeeps ==
    ASSUME IInv, affinity_sync_end
    PROVE  IInv'
<1>1. /\ pc = "sync" /\ pc' = "cache" /\ dead' = {} /\ force_affinity' = FALSE
      /\ tasks' = TasksWithout(dead) /\ pkgs' = PkgsWithout(pkgs, dead)
      /\ UNCHANGED <<task, file, cacheFile, cfg, scan_cfg, inotify_fd, last_proc_count,
                     scan_all_proc, tracked_pids, last_proc_total, scanVars, todo, autoVars>>
    BY DEF affinity_sync_end, watchVars, Goto
<1>2. dead \in SUBSET Tids
    BY DEF IInv, TypeOK
<1>3. /\ DOMAIN tasks' \subseteq DOMAIN tasks /\ DOMAIN pkgs' \subseteq DOMAIN pkgs
      /\ \A t \in DOMAIN tasks' : tasks'[t] = tasks[t]
      /\ \A p \in DOMAIN pkgs' : pkgs'[p] = pkgs[p]
      /\ \A t \in DOMAIN tasks' : tasks[t].pid \in DOMAIN pkgs => tasks[t].pid \in DOMAIN pkgs'
    BY <1>1, <1>2, DeadRemoved
<1>4. TypeOK'
  <2>1. IsMap(tasks', Tids, TaskEntry) /\ IsMap(pkgs', Tids, PkgEntry)
    BY <1>3 DEF IInv, TypeOK, IsMap
  <2>2. pc' \in PC /\ pc' # "scan" /\ targets = {} /\ cur = {}
    BY <1>1 DEF IInv, TypeOK, PC
  <2>3. {inotify_fd', scan_all_proc', force_affinity', any'} \subseteq BOOLEAN
    BY <1>1 DEF IInv, TypeOK, scanVars
  <2> QED
    BY <1>1, <2>1, <2>2, <2>3 DEF IInv, TypeOK, scanVars, autoVars
<1>5. CacheSide'
  <2>1. AtMostOne(cur')
    BY <1>1 DEF IInv, CacheSide, AtMostOneEach, scanVars
  <2> QED
    BY <1>1, <2>1, CacheSideKept DEF IInv, autoVars
<1>6. CacheOf(scan_cfg)'
  <2>1. CacheOf(scan_cfg) /\ scan_cfg' = scan_cfg
    BY <1>1 DEF IInv, BindSide
  <2>2. ASSUME NEW t \in DOMAIN tasks'
        PROVE  /\ tasks'[t].pid \in DOMAIN pkgs'
               /\ FollowsRules(tasks'[t], pkgs'[tasks'[t].pid].pkg, scan_cfg)
    <3>1. /\ tasks'[t] = tasks[t] /\ tasks[t].pid \in DOMAIN pkgs
          /\ FollowsRules(tasks[t], pkgs[tasks[t].pid].pkg, scan_cfg)
      BY <1>3, <2>1 DEF CacheOf
    <3>2. tasks[t].pid \in DOMAIN pkgs' /\ pkgs'[tasks[t].pid] = pkgs[tasks[t].pid]
      BY <1>3, <3>1
    <3> QED
      BY <3>1, <3>2
  <2> QED
    BY <1>3, <2>1, <2>2 DEF CacheOf, FollowsRules
<1>7. ASSUME Settled' PROVE SettledFollows'
  <2>1. SettledFollows
    BY <1>1, <1>7, SettledNow DEF IInv, Settled
  <2>2. \A p \in DOMAIN pkgs' : PkgFollows(p)'
    BY <1>1, <1>3, <2>1 DEF SettledFollows, PkgFollows
  <2>3. \A t \in DOMAIN tasks' : TaskFollows(t)'
    <3> SUFFICES ASSUME NEW t \in DOMAIN tasks' PROVE TaskFollows(t)'
      OBVIOUS
    <3>1. TaskFollows(t) /\ tasks'[t] = tasks[t]
      BY <1>3, <2>1 DEF SettledFollows
    <3>2. tasks[t].pid \in DOMAIN pkgs' /\ pkgs'[tasks[t].pid] = pkgs[tasks[t].pid]
      BY <1>3, <3>1 DEF TaskFollows
    <3> QED
      BY <1>1, <3>1, <3>2 DEF TaskFollows, FollowsRules
  <2> QED
    BY <2>2, <2>3 DEF SettledFollows
<1>8. BindSide'
    BY <1>1, <1>6, <1>7 DEF BindSide
<1> QED
    BY <1>1, <1>4, <1>5, <1>8 DEF IInv, WholeProcesses

-----------------------------------------------------------------------------
(* Unknown applications.                                                   *)

LEMMA ScanUnknownKeeps ==
    ASSUME IInv, scan_unknown
    PROVE  IInv'
<1>1. /\ pc \in {"start", "cache"} /\ pc' \in {"top", "comms"}
      /\ unknown' = {[pid |-> p, pkg |-> task[p].cmd, tids |-> ThreadsOf(p)] :
                        p \in {t \in MainThreads \cap UserPids : IsUnknown(task[t].cmd, cfg)}}
      /\ pc' # "comms" => unknown' = {}
      /\ UNCHANGED <<task, pkgs, tasks, file, cacheFile, cfg, scan_cfg, inotify_fd, procState,
                     scanVars, todo, dead, unsaved, writing>>
    BY DEF scan_unknown, watchVars, Goto
<1>2. \A u \in unknown' : IsUnknown(u.pkg, cfg)
    BY <1>1
<1>3. TypeOK'
  <2>1. unknown' \subseteq [pid : Tids, pkg : Names, tids : SUBSET Tids]
    <3> SUFFICES ASSUME NEW p \in MainThreads, IsUnknown(task[p].cmd, cfg)
                 PROVE  p \in Tids /\ task[p].cmd \in Names /\ ThreadsOf(p) \subseteq Tids
      BY <1>1
    <3> QED
      BY CacheFileAssumption DEF IInv, TypeOK, IsMap, MainThreads, ThreadsOf, IsUnknown
  <2>2. pc' \in PC /\ pc' # "sync" /\ targets = {} /\ cur = {} /\ dead = {}
    BY <1>1 DEF IInv, TypeOK, PC
  <2> QED
    BY <1>1, <2>1, <2>2 DEF IInv, TypeOK, procState, scanVars
<1>4. CacheSide'
  <2>1. Stages'
    BY <1>1, <1>2 DEF IInv, CacheSide, Stages
  <2>2. RulesListed(cfg)' /\ CacheFileKnown' /\ AtMostOneEach'
    BY <1>1 DEF IInv, CacheSide, CacheFileKnown, AtMostOneEach, AtMostOne, scanVars
  <2> QED
    BY <2>1, <2>2 DEF CacheSide
<1>5. BindSide'
  <2>1. SettledFollows \/ ~ Settled'
    BY <1>1, SettledNow DEF IInv, Settled
  <2> QED
    BY <1>1, <2>1, BindSideKept DEF IInv
<1> QED
    BY <1>1, <1>3, <1>4, <1>5 DEF IInv, WholeProcesses

LEMMA ScanUnknownCommsKeeps ==
    ASSUME IInv, scan_unknown_comms
    PROVE  IInv'
<1> DEFINE nameOf == [t \in Tids |-> IF t \in DOMAIN task THEN task[t].comm ELSE Empty]
           tidsOf(pkg) == UNION {v.tids : v \in {v \in unknown : v.pkg = pkg}}
           commsOf(pkg) == {IF t \in DOMAIN task THEN task[t].comm ELSE Empty : t \in tidsOf(pkg)}
<1>1. /\ pc = "comms" /\ pc' \in {"top", "save"} /\ unknown' = {}
      /\ unsaved' = {[pid |-> u.pid, pkg |-> u.pkg, comms |-> commsOf(u.pkg)] :
                        u \in {u \in unknown : u.pkg \notin Blacklist}}
      /\ pc' # "save" => unsaved' = {}
      /\ UNCHANGED <<task, pkgs, tasks, file, cacheFile, cfg, scan_cfg, inotify_fd, procState,
                     scanVars, todo, dead, writing>>
    BY DEF scan_unknown_comms, watchVars, Goto
<1>2. unknown \subseteq [pid : Tids, pkg : Names, tids : SUBSET Tids] /\ writing = {}
    BY <1>1 DEF IInv, TypeOK, CacheSide, Stages
<1>3. ASSUME NEW pkg
      PROVE  commsOf(pkg) \subseteq Names \cup {Empty} /\ IsFiniteSet(commsOf(pkg))
  <2>1. tidsOf(pkg) \subseteq Tids
    BY <1>2
  <2> HIDE DEF tidsOf
  <2>2. \A t \in Tids : nameOf[t] \in Names \cup {Empty}
    BY DEF IInv, TypeOK, IsMap, Task
  <2> DEFINE names == [t \in tidsOf(pkg) |-> nameOf[t]]
  <2>3. commsOf(pkg) = Range(names)
    BY <2>1 DEF Range
  <2>4. names \in Surjection(tidsOf(pkg), Range(names))
    BY DEF Surjection, Range
  <2>5. IsFiniteSet(tidsOf(pkg))
    BY <2>1, CacheAssumption, FS_Subset
  <2>6. IsFiniteSet(Range(names))
    BY <2>4, <2>5, FS_Surjection
  <2>7. Range(names) \subseteq Names \cup {Empty}
    BY <2>1, <2>2 DEF Range
  <2> QED
    BY <2>3, <2>6, <2>7
<1> HIDE DEF commsOf
<1>4. TypeOK'
  <2>1. unsaved' \subseteq [pid : Tids, pkg : Names, comms : SUBSET (Names \cup {Empty})]
    BY <1>1, <1>2, <1>3
  <2>2. pc' \in PC /\ pc' # "sync" /\ targets = {} /\ cur = {} /\ dead = {}
    BY <1>1 DEF IInv, TypeOK, PC
  <2> QED
    BY <1>1, <2>1, <2>2 DEF IInv, TypeOK, procState, scanVars
<1>5. CacheSide'
  <2>1. \A u \in unsaved' : IsUnknown(u.pkg, cfg) /\ IsFiniteSet(u.comms)
    BY <1>1, <1>3 DEF IInv, CacheSide, Stages
  <2>2. Stages'
    BY <1>1, <1>2, <2>1 DEF Stages
  <2>3. RulesListed(cfg)' /\ CacheFileKnown' /\ AtMostOneEach'
    BY <1>1 DEF IInv, CacheSide, CacheFileKnown, AtMostOneEach, AtMostOne, scanVars
  <2> QED
    BY <2>2, <2>3 DEF CacheSide
<1>6. BindSide'
  <2>1. SettledFollows \/ ~ Settled'
    BY <1>1, SettledNow DEF IInv, Settled
  <2> QED
    BY <1>1, <2>1, BindSideKept DEF IInv
<1> QED
    BY <1>1, <1>4, <1>5, <1>6 DEF IInv, WholeProcesses

(* cache::save replaces or adds the entry of an application that the rules *)
(* do not know.                                                            *)
LEMMA SaveTruncateKeeps ==
    ASSUME IInv, save_truncate
    PROVE  IInv'
<1>1. PICK u \in unsaved : /\ writing' = {Saved(cacheFile, AutoEntry(u.pkg, u.comms))}
                           /\ unsaved' = unsaved \ {u}
    BY DEF save_truncate, watchVars
<1>2. /\ pc = "save" /\ writing = {} /\ cacheFile' = {}
      /\ UNCHANGED <<task, pkgs, tasks, file, cfg, scan_cfg, inotify_fd, procState, pc,
                     scanVars, todo, dead, unknown>>
    BY DEF save_truncate, watchVars
<1> DEFINE entry == AutoEntry(u.pkg, u.comms)
           new == Saved(cacheFile, entry)
<1>3. /\ IsUnknown(u.pkg, cfg) /\ IsFiniteSet(u.comms)
      /\ u.pkg \in Names /\ u.comms \in SUBSET (Names \cup {Empty})
      /\ u.pkg \in UserApps
    BY DEF IInv, TypeOK, CacheSide, Stages, IsUnknown
<1>4. entry \in FileEntry /\ entry.packages = <<u.pkg>>
    BY <1>3, AutoEntryType
<1>5. /\ cacheFile \in SUBSET Seq(FileEntry) /\ AtMostOne(cacheFile)
      /\ \A f \in cacheFile : DaemonWritten(f)
    BY DEF IInv, TypeOK, CacheSide, AtMostOneEach, CacheFileKnown
<1> HIDE DEF entry
<1>6. /\ AtMostOne(new) /\ new \subseteq Seq(FileEntry)
      /\ \A f \in new :
            /\ DaemonWritten(f)
            /\ \A k \in DOMAIN f :
                  f[k] = entry \/ \E g \in cacheFile : \E i \in DOMAIN g : f[k] = g[i]
    BY <1>3, <1>4, <1>5, SavedWritten
<1>7. writing' = {new}
    BY <1>1 DEF entry
<1> HIDE DEF new
<1>8. TypeOK'
  <2>1. Cardinality(new) <= 1
    BY <1>6, AtMostOneCard
  <2>2. Cardinality({new}) <= 1
    BY FS_Singleton
  <2>3. Cardinality({}) <= 1
    BY FS_EmptySet
  <2>4. unsaved' \subseteq [pid : Tids, pkg : Names, comms : SUBSET (Names \cup {Empty})]
    BY <1>1 DEF IInv, TypeOK
  <2>5. \A n \in writing' : n \subseteq Seq(FileEntry) /\ Cardinality(n) <= 1
    BY <1>6, <1>7, <2>1
  <2> QED
    BY <1>2, <1>7, <2>2, <2>3, <2>4, <2>5 DEF IInv, TypeOK, procState, scanVars
<1>9. CacheSide'
  <2>1. Stages' /\ RulesListed(cfg)'
    BY <1>1, <1>2 DEF IInv, CacheSide, Stages
  <2>2. Head(entry.packages) = u.pkg
    <3>1. Head(<<u.pkg>>) = u.pkg
      OBVIOUS
    <3> QED
      BY <1>4, <3>1
  <2>3. ASSUME NEW f \in new, NEW k \in DOMAIN f
        PROVE  Merged(f[k], cfg) \/ IsUnknown(Head(f[k].packages), cfg)
    <3>1. CASE f[k] = entry
      BY <1>3, <2>2, <3>1
    <3>2. CASE f[k] # entry
      <4>1. PICK g \in cacheFile : \E i \in DOMAIN g : f[k] = g[i]
        BY <1>6, <3>2
      <4>2. PICK i \in DOMAIN g : f[k] = g[i]
        BY <4>1
      <4> QED
        BY <4>2 DEF IInv, CacheSide, CacheFileKnown
    <3> QED
      BY <3>1, <3>2
  <2>4. CacheFileKnown'
    BY <1>2, <1>6, <1>7, <2>3 DEF CacheFileKnown
  <2>5. AtMostOneEach'
    BY <1>2, <1>6, <1>7 DEF IInv, CacheSide, AtMostOneEach, AtMostOne, scanVars
  <2> QED
    BY <2>1, <2>4, <2>5 DEF CacheSide
<1>10. BindSide'
    BY <1>2, SidesKept DEF IInv, procState, scanVars
<1> QED
    BY <1>2, <1>8, <1>9, <1>10 DEF IInv, WholeProcesses

LEMMA SaveWriteKeeps ==
    ASSUME IInv, save_write
    PROVE  IInv'
<1>1. /\ pc = "save" /\ pc' \in {"merge", "save"} /\ cacheFile' \in writing /\ writing' = {}
      /\ pc' # "save" => unsaved = {}
      /\ UNCHANGED <<task, pkgs, tasks, file, cfg, scan_cfg, inotify_fd, procState, scanVars,
                     todo, dead, unknown, unsaved>>
    BY DEF save_write, watchVars, Goto
<1>2. TypeOK'
  <2>1. pc' \in PC /\ pc' # "sync" /\ targets = {} /\ cur = {} /\ dead = {}
    BY <1>1 DEF IInv, TypeOK, PC
  <2>2. Cardinality({}) <= 1
    BY FS_EmptySet
  <2> QED
    BY <1>1, <2>1, <2>2 DEF IInv, TypeOK, procState, scanVars
<1>3. CacheSide'
  <2>1. Stages' /\ RulesListed(cfg)'
    BY <1>1 DEF IInv, CacheSide, Stages
  <2>2. CacheFileKnown'
    BY <1>1 DEF IInv, CacheSide, CacheFileKnown
  <2>3. AtMostOneEach'
    BY <1>1 DEF IInv, CacheSide, AtMostOneEach, AtMostOne, scanVars
  <2> QED
    BY <2>1, <2>2, <2>3 DEF CacheSide
<1>4. BindSide'
  <2>1. SettledFollows \/ ~ Settled'
    BY <1>1, SettledNow DEF IInv, Settled
  <2> QED
    BY <1>1, <2>1, BindSideKept DEF IInv
<1> QED
    BY <1>1, <1>2, <1>3, <1>4 DEF IInv, WholeProcesses

(* The merge after a save: no rescan follows, and none is needed.          *)
LEMMA CacheMergeKeeps ==
    ASSUME IInv, cache_merge
    PROVE  IInv'
<1>1. /\ pc = "merge" /\ pc' = "top" /\ cfg' = merge(cfg, cacheFile)
      /\ UNCHANGED <<task, pkgs, tasks, file, cacheFile, scan_cfg, inotify_fd, procState,
                     scanVars, todo, dead, autoVars>>
    BY DEF cache_merge, watchVars, Goto
<1>2. /\ cfg \in AppConfig /\ RulesListed(cfg)
      /\ cacheFile \in SUBSET Seq(FileEntry) /\ AtMostOne(cacheFile)
      /\ \A f \in cacheFile : DaemonWritten(f)
      /\ \A f \in cacheFile : \A k \in DOMAIN f :
            Merged(f[k], cfg) \/ IsUnknown(Head(f[k].packages), cfg)
    BY DEF IInv, TypeOK, CacheSide, AtMostOneEach, CacheFileKnown
<1>3. /\ cfg' \in AppConfig /\ RulesListed(cfg') /\ Extends(cfg', cfg)
      /\ \A f \in cacheFile : \A k \in DOMAIN f : Merged(f[k], cfg')
  <2>1. /\ merge(cfg, cacheFile) \in AppConfig /\ RulesListed(merge(cfg, cacheFile))
        /\ Extends(merge(cfg, cacheFile), cfg)
        /\ \A f \in cacheFile : \A k \in DOMAIN f : Merged(f[k], merge(cfg, cacheFile))
    BY <1>2, MergeKnown
  <2> QED
    BY <1>1, <2>1
<1>4. cfg.pkg_set \subseteq cfg'.pkg_set /\ cfg'.wild = cfg.wild
  <2>1. /\ cfg.pkg_set \subseteq merge(cfg, cacheFile).pkg_set
        /\ merge(cfg, cacheFile).wild = cfg.wild
    BY <1>2, MergeAdds
  <2> QED
    BY <1>1, <2>1
<1>5. TypeOK'
  <2>1. pc' \in PC /\ pc' # "sync" /\ targets = {} /\ cur = {} /\ dead = {}
    BY <1>1 DEF IInv, TypeOK, PC
  <2> QED
    BY <1>1, <1>3, <2>1 DEF IInv, TypeOK, procState, scanVars, autoVars
<1>6. CacheSide'
  <2>1. unknown = {} /\ unsaved = {} /\ writing = {}
    BY <1>1 DEF IInv, CacheSide, Stages
  <2>2. Stages' /\ RulesListed(cfg)'
    BY <1>1, <1>3, <2>1 DEF Stages, autoVars
  <2>3. CacheFileKnown'
    BY <1>1, <1>2, <1>3, <2>1 DEF CacheFileKnown, autoVars
  <2>4. AtMostOneEach'
    BY <1>1 DEF IInv, CacheSide, AtMostOneEach, AtMostOne, scanVars, autoVars
  <2> QED
    BY <2>2, <2>3, <2>4 DEF CacheSide
<1>7. ASSUME Settled' PROVE SettledFollows'
  <2>1. SettledFollows
    BY <1>1, <1>7, SettledNow DEF IInv, Settled
  <2>2. \A pkg : ~ IsUnknown(pkg, cfg) => ~ IsUnknown(pkg, cfg')
    BY <1>4 DEF IsUnknown
  <2>3. ASSUME NEW p \in DOMAIN pkgs
        PROVE  PkgFollows(p)'
    <3>1. pkgs[p].pkg \in Names /\ PkgFollows(p)
      BY <2>1 DEF IInv, TypeOK, IsMap, PkgEntry, SettledFollows
    <3>2. pkg_has_thread_rules(pkgs[p].pkg, cfg') = pkg_has_thread_rules(pkgs[p].pkg, cfg)
      BY <1>2, <1>3, <3>1, ExtendedSame DEF PkgFollows
    <3>3. ~ IsUnknown(pkgs[p].pkg, cfg')
      BY <2>2, <3>1 DEF PkgFollows
    <3> QED
      BY <1>1, <3>1, <3>2, <3>3 DEF PkgFollows
  <2>4. ASSUME NEW t \in DOMAIN tasks
        PROVE  TaskFollows(t)'
    <3> DEFINE pkg == pkgs[tasks[t].pid].pkg
    <3>1. /\ tasks[t].pid \in DOMAIN pkgs /\ PkgFollows(tasks[t].pid)
          /\ FollowsRules(tasks[t], pkg, cfg)
      BY <2>1 DEF SettledFollows, TaskFollows
    <3>2. pkg \in Names /\ ~ IsUnknown(pkg, cfg)
      BY <3>1 DEF IInv, TypeOK, IsMap, PkgEntry, PkgFollows
    <3>3. PICK name \in Names \cup {Empty} : \E r \in thread_affinity(pkg, name, cfg) :
              tasks[t].cpus = r.cpus /\ tasks[t].is_thread_rule = r.is_thread_rule
      BY <3>1 DEF FollowsRules
    <3>4. PICK r \in thread_affinity(pkg, name, cfg) :
              tasks[t].cpus = r.cpus /\ tasks[t].is_thread_rule = r.is_thread_rule
      BY <3>3
    <3> HIDE DEF pkg
    <3>5. \E s \in thread_affinity(pkg, name, cfg') :
              s.cpus = r.cpus /\ s.is_thread_rule = r.is_thread_rule
      BY <1>2, <1>3, <3>2, ExtendedSame
    <3>6. PICK s \in thread_affinity(pkg, name, cfg') :
              s.cpus = r.cpus /\ s.is_thread_rule = r.is_thread_rule
      BY <3>5
    <3>7. tasks[t].cpus = s.cpus /\ tasks[t].is_thread_rule = s.is_thread_rule
      BY <3>4, <3>6
    <3> QED
      BY <1>1, <3>1, <3>7 DEF TaskFollows, FollowsRules, pkg
  <2> QED
    BY <1>1, <2>3, <2>4 DEF SettledFollows
<1>8. CacheOf(scan_cfg)'
    BY <1>1 DEF IInv, BindSide, CacheOf, FollowsRules
<1>9. BindSide'
    BY <1>1, <1>7, <1>8 DEF BindSide
<1> QED
    BY <1>1, <1>5, <1>6, <1>9 DEF IInv, WholeProcesses

-----------------------------------------------------------------------------
(* Safety.                                                                 *)

LEMMA NextIInv ==
    ASSUME IInv, [Next]_vars
    PROVE  IInv'
<1>1. CASE SystemStep
    BY <1>1, SystemKeeps
<1>2. CASE hot_reload \/ hot_reload_unscanned \/ Restart
    BY <1>2, HotReloadKeeps, HotReloadUnscannedKeeps, RestartKeeps
<1>3. CASE KeepConfig \/ TimerNotDue \/ affinity_sync_start \/ CacheNotDue
    BY <1>3, PassOnKeeps
<1>4. CASE check_count \/ rescan_list \/ rescan_process
    BY <1>4, CheckCountKeeps, RescanListKeeps, RescanProcessKeeps
<1>5. CASE rescan_thread \/ rescan_package \/ rescan_end
    BY <1>5, RescanThreadKeeps, RescanPackageKeeps, RescanEndKeeps
<1>6. CASE affinity_sync_thread \/ affinity_sync_end
    BY <1>6, AffinitySyncThreadKeeps, AffinitySyncEndKeeps
<1>7. CASE scan_unknown \/ scan_unknown_comms
    BY <1>7, ScanUnknownKeeps, ScanUnknownCommsKeeps
<1>8. CASE save_truncate \/ save_write \/ cache_merge
    BY <1>8, SaveTruncateKeeps, SaveWriteKeeps, CacheMergeKeeps
<1>9. CASE UNCHANGED vars
  <2>1. UNCHANGED <<task, pkgs, tasks, file, cacheFile, cfg, scan_cfg, inotify_fd, procState,
                    pc, scanVars, todo, dead, autoVars>>
    BY <1>9 DEF vars, watchVars
  <2>2. TypeOK' /\ WholeProcesses(task)'
    BY <2>1 DEF IInv, TypeOK, WholeProcesses, procState, scanVars, autoVars
  <2>3. CacheSide' /\ BindSide'
    BY <2>1, SidesKept DEF IInv, procState, scanVars, autoVars
  <2> QED
    BY <2>2, <2>3 DEF IInv
<1> QED
    BY <1>1, <1>2, <1>3, <1>4, <1>5, <1>6, <1>7, <1>8, <1>9
    DEF Next, MainStep, proc_cache_sync, affinity_sync, auto_assign

LEMMA Invariance == Spec => []IInv
<1>1. Init => IInv
    BY InitIInv
<1>2. IInv /\ [Next]_vars => IInv'
    BY NextIInv
<1> QED
    BY <1>1, <1>2, PTL DEF Spec

(* Every variable of the polling mode keeps its type: the scans' targets,  *)
(* the cached entries, the rules that merges of the cache file append, and *)
(* the file itself (main.rs:150, process.rs:117, config.rs:200).           *)
THEOREM PollingTypes == Spec => []TypeOK
<1>1. IInv => TypeOK
    BY DEF IInv
<1> QED
    BY <1>1, Invariance, PTL

(* Between two rescans the cache is that of the rules of the last one, and *)
(* of the rules in force, too, although a merge of the cache file is not   *)
(* followed by a rescan (main.rs:150, :388): unless the descriptor has     *)
(* been lost, when a reload may be left without one (main.rs:318).         *)
THEOREM CacheIsOfRules == Spec => []CacheFollowsRules
<1>1. IInv => CacheFollowsRules
  <2> SUFFICES ASSUME IInv, pc \notin {"count", "list", "scan"}
               PROVE  CacheOf(scan_cfg) /\ (inotify_fd => CacheOf(cfg))
    BY DEF CacheFollowsRules
  <2>1. CacheOf(scan_cfg)
    BY DEF IInv, BindSide
  <2>2. ASSUME inotify_fd PROVE SettledFollows
    BY <2>2, SettledNow DEF IInv, Settled
  <2> QED
    BY <2>1, <2>2 DEF SettledFollows, PkgFollows, TaskFollows, CacheOf
<1> QED
    BY <1>1, Invariance, PTL

(* cache::save never leaves two entries for one package, whichever         *)
(* applications are found together and wherever the daemon is killed       *)
(* (config.rs:200, main.rs:378).                                           *)
THEOREM OneEntryEach == Spec => []OneEntryPerPackage
<1>1. IInv => OneEntryPerPackage
    BY DEF IInv, CacheSide, CacheFileKnown, DaemonWritten, OneEntryPerPackage
<1> QED
    BY <1>1, Invariance, PTL

-----------------------------------------------------------------------------
(* The polling mode implements Bindings.                                   *)

Image(b) == [cpus |-> b.cpus, is_thread_rule |-> b.is_thread_rule]

MappedStep == Abstract!Next \/ UNCHANGED <<Bound, cfg, scan_cfg>>

LEMMA BoundImages ==
    /\ Bound = [t \in DOMAIN tasks |-> Image(tasks[t])]
    /\ Bound' = [t \in DOMAIN tasks' |-> Image(tasks'[t])]
    BY DEF Bound, Image

LEMMA SameAppConfig == Abstract!AppConfig = AppConfig
    BY DEF Abstract!AppConfig, AppConfig, Abstract!Rule, Rule

LEMMA AllowedByRules ==
    ASSUME NEW c
    PROVE  Abstract!Allowed(c) =
               {Image(r) : r \in UNION {thread_affinity(pkg, name, c) :
                                           pkg \in Names, name \in Names \cup {Empty}}}
    BY DEF Image, Abstract!Allowed, Abstract!thread_affinity, thread_affinity,
       Abstract!ThreadRules, ThreadRules, Abstract!PackageRules, PackageRules,
       Abstract!CpusOf, CpusOf, Abstract!FallbackDir, FallbackDir,
       Abstract!ensure_cpuset_dir, ensure_cpuset_dir,
       Abstract!pkg_has_thread_rules, pkg_has_thread_rules

LEMMA FollowsAllowed ==
    ASSUME NEW entry, NEW pkg \in Names, FollowsRules(entry, pkg, cfg)
    PROVE  Image(entry) \in Abstract!Allowed(cfg)
<1>1. PICK name \in Names \cup {Empty} : \E r \in thread_affinity(pkg, name, cfg) :
          entry.cpus = r.cpus /\ entry.is_thread_rule = r.is_thread_rule
    BY DEF FollowsRules
<1>2. PICK r \in thread_affinity(pkg, name, cfg) :
          entry.cpus = r.cpus /\ entry.is_thread_rule = r.is_thread_rule
    BY <1>1
<1>3. Image(entry) = Image(r)
    BY <1>2 DEF Image
<1> QED
    BY <1>3, AllowedByRules

(* A step that leaves the entries and the rules alone, one that removes    *)
(* entries, and one that brings new rules.                                 *)
LEMMA SameBound ==
    ASSUME tasks' = tasks, cfg' = cfg, scan_cfg' = scan_cfg
    PROVE  MappedStep
    BY DEF MappedStep, Bound

LEMMA FewerBound ==
    ASSUME cfg' = cfg, scan_cfg' = scan_cfg, DOMAIN tasks' \subseteq DOMAIN tasks,
           \A t \in DOMAIN tasks' : tasks'[t] = tasks[t]
    PROVE  MappedStep
<1> DEFINE T == DOMAIN tasks \ DOMAIN tasks'
<1>1. DOMAIN Bound = DOMAIN tasks /\ DOMAIN Bound \ T = DOMAIN tasks'
    BY DEF Bound
<1>2. Bound' = [t \in DOMAIN Bound \ T |-> Bound[t]]
    BY <1>1 DEF Bound
<1>3. Abstract!Release(T)
    BY <1>2 DEF Abstract!Release
<1>4. T \in SUBSET DOMAIN Bound
    BY <1>1
<1> QED
    BY <1>3, <1>4 DEF MappedStep, Abstract!Next

LEMMA NewRules ==
    ASSUME cfg' \in AppConfig, tasks' = tasks, scan_cfg' = scan_cfg
    PROVE  MappedStep
<1>1. Bound' = Bound
    BY DEF Bound
<1>2. Abstract!Reload
    BY <1>1, SameAppConfig DEF Abstract!Reload
<1> QED
    BY <1>2 DEF MappedStep, Abstract!Next

(* A step that forgets every binding, and takes up the rules in force.     *)
LEMMA NoneBound ==
    ASSUME DOMAIN tasks' = {}, cfg' \in AppConfig, scan_cfg' = cfg'
    PROVE  MappedStep
<1>1. Bound' = Abstract!NoBindings
    BY DEF Bound, Abstract!NoBindings
<1>2. Abstract!Restart
    BY <1>1, SameAppConfig DEF Abstract!Restart
<1> QED
    BY <1>2 DEF MappedStep, Abstract!Next

(* While a rescan runs, each binding is one the rules in force may give.   *)
LEMMA ScanCoherent ==
    ASSUME IInv, pc = "scan"
    PROVE  \A t \in DOMAIN tasks : Image(tasks[t]) \in Abstract!Allowed(cfg)
<1> SUFFICES ASSUME NEW t \in DOMAIN tasks PROVE Image(tasks[t]) \in Abstract!Allowed(cfg)
    OBVIOUS
<1>1. TaskFollows(t) \/ VisitFollows(t)
    BY DEF IInv, BindSide, ScanFollows
<1>2. PICK pkg \in Names : FollowsRules(tasks[t], pkg, cfg)
  <2>1. \A p \in DOMAIN pkgs : pkgs[p].pkg \in Names
    BY DEF IInv, TypeOK, IsMap, PkgEntry
  <2>2. \A p \in cur : p.pkg \in Names
    BY DEF IInv, TypeOK, Visited
  <2> QED
    BY <1>1, <2>1, <2>2 DEF TaskFollows, VisitFollows
<1> QED
    BY <1>2, FollowsAllowed

(* The visit of a thread binds it by the rules in force, unless that would *)
(* put a default in the place of a thread rule's binding.                  *)
LEMMA ThreadMaps ==
    ASSUME IInv, rescan_thread
    PROVE  MappedStep
<1> DEFINE commOf(p, t) == IF p.htr /\ t \in DOMAIN task THEN task[t].comm ELSE Empty
           resultsFor(p, t) == ResultToApply(t, [pkg |-> p.pkg, htr |-> p.htr], commOf(p, t),
                                             TRUE, cfg)
           boundFor(p, t) == {EntryFor(p.pid, r) : r \in resultsFor(p, t)}
<1>1. PICK p \in cur, t \in todo :
          IF boundFor(p, t) = {} THEN UNCHANGED tasks
          ELSE \E e \in boundFor(p, t) : tasks' = Insert(tasks, t, e)
    BY DEF rescan_thread, watchVars
<1>2. pc = "scan" /\ cfg' = cfg /\ scan_cfg' = scan_cfg
    BY DEF rescan_thread, watchVars
<1>3. CASE boundFor(p, t) = {}
    BY <1>1, <1>2, <1>3, SameBound
<1>4. CASE boundFor(p, t) # {}
  <2>1. PICK r \in resultsFor(p, t) : tasks' = Insert(tasks, t, EntryFor(p.pid, r))
    BY <1>1, <1>4
  <2>2. p.pkg \in Names /\ t \in Tids /\ commOf(p, t) \in Names \cup {Empty}
    BY DEF IInv, TypeOK, Visited, IsMap, Task
  <2>3. r \in thread_affinity(p.pkg, IF p.htr /\ TRUE THEN commOf(p, t) ELSE Empty, cfg)
    BY <2>1 DEF ResultToApply
  <2>4. t \notin DOMAIN tasks \/ ~ tasks[t].is_thread_rule \/ r.is_thread_rule
    BY <2>1 DEF ResultToApply
  <2> HIDE DEF commOf, resultsFor, boundFor
  <2> DEFINE b == Image(r)
  <2>5. b \in Abstract!Allowed(cfg)
    BY <2>2, <2>3, AllowedByRules
  <2>6. b = Image(EntryFor(p.pid, r)) /\ b.is_thread_rule = r.is_thread_rule
    BY DEF Image, EntryFor
  <2>7. /\ DOMAIN tasks' = DOMAIN tasks \cup {t} /\ tasks'[t] = EntryFor(p.pid, r)
        /\ \A u \in DOMAIN tasks \ {t} : tasks'[u] = tasks[u]
    BY <2>1 DEF Insert
  <2> HIDE DEF b
  <2>8. /\ DOMAIN Bound = DOMAIN tasks
        /\ \A u \in DOMAIN tasks : Bound[u].is_thread_rule = tasks[u].is_thread_rule
        /\ \A u \in DOMAIN Bound : Bound[u] \in Abstract!Allowed(cfg)
    BY <1>2, ScanCoherent, BoundImages DEF Image
  <2>9. Bound' = [u \in DOMAIN Bound \cup {t} |-> IF u = t THEN b ELSE Bound[u]]
    BY <2>6, <2>7, <2>8, BoundImages
  <2>10. t \in DOMAIN Bound /\ Bound[t].is_thread_rule => b.is_thread_rule
    BY <2>4, <2>6, <2>8
  <2>11. Abstract!Coherent
    BY <2>8 DEF Abstract!Coherent
  <2>12. Abstract!Bind(t, b)
    BY <1>2, <2>5, <2>9, <2>10, <2>11 DEF Abstract!Bind
  <2> QED
    BY <2>2, <2>5, <2>12 DEF MappedStep, Abstract!Next
<1> QED
    BY <1>3, <1>4

LEMMA StepMaps ==
    ASSUME IInv, IInv', [Next]_vars
    PROVE  MappedStep
<1>0. cfg' \in AppConfig
    BY DEF IInv, TypeOK
<1>1. CASE hot_reload \/ hot_reload_unscanned \/ cache_merge
  <2>1. tasks' = tasks /\ scan_cfg' = scan_cfg
    BY <1>1 DEF hot_reload, hot_reload_unscanned, cache_merge, watchVars
  <2> QED
    BY <1>0, <2>1, NewRules
<1>2. CASE rescan_thread
    BY <1>2, ThreadMaps
<1>3. CASE rescan_list \/ Restart
  <2>1. DOMAIN tasks' = {} /\ scan_cfg' = cfg'
    BY <1>3 DEF rescan_list, Restart, EmptyMap
  <2> QED
    BY <1>0, <2>1, NoneBound
<1>4. CASE affinity_sync_end
  <2>1. /\ cfg' = cfg /\ scan_cfg' = scan_cfg
        /\ tasks' = TasksWithout(dead) /\ pkgs' = PkgsWithout(pkgs, dead)
        /\ dead \in SUBSET Tids
    BY <1>4 DEF affinity_sync_end, watchVars, IInv, TypeOK
  <2> QED
    BY <2>1, DeadRemoved, FewerBound
<1>5. CASE SystemStep \/ UNCHANGED vars
    BY <1>5, SameBound DEF SystemStep, vars, watchVars
<1>6. CASE \/ KeepConfig \/ check_count \/ rescan_process \/ rescan_package \/ rescan_end
           \/ TimerNotDue \/ affinity_sync_start \/ affinity_sync_thread \/ CacheNotDue
    BY <1>6, SameBound DEF KeepConfig, check_count, rescan_process, rescan_package, rescan_end,
       TimerNotDue, affinity_sync_start, affinity_sync_thread, CacheNotDue, watchVars
<1>7. CASE scan_unknown \/ scan_unknown_comms \/ save_truncate \/ save_write
    BY <1>7, SameBound DEF scan_unknown, scan_unknown_comms, save_truncate, save_write, watchVars
<1> QED
    BY <1>1, <1>2, <1>3, <1>4, <1>5, <1>6, <1>7
    DEF Next, MainStep, proc_cache_sync, affinity_sync, auto_assign

LEMMA InitMaps ==
    ASSUME Init
    PROVE  Abstract!Init
<1>1. DOMAIN tasks = {}
    BY DEF Init, EmptyMap
<1>2. cfg \in Abstract!AppConfig /\ scan_cfg = cfg
    BY InitIInv, SameAppConfig DEF Init, IInv, TypeOK
<1> QED
    BY <1>1, <1>2, BoundImages DEF Abstract!Init, Abstract!NoBindings

(* The polling mode keeps the promises of Bindings: over rescans, reloads, *)
(* merges of the cache file and restarts it binds by the rules in force    *)
(* only, while no binding of older ones is left, and replaces no thread    *)
(* rule's binding by a default (main.rs:150, :306; proccache.rs:56).       *)
THEOREM Implementation == Spec => ImplementsBindings
<1>1. Init => Abstract!Init
    BY InitMaps
<1>2. IInv /\ IInv' /\ [Next]_vars => [Abstract!Next]_<<Bound, cfg, scan_cfg>>
    BY StepMaps DEF MappedStep
<1> QED
    BY <1>1, <1>2, Invariance, PTL DEF Spec, ImplementsBindings, Abstract!Spec
=============================================================================
