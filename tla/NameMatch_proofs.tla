-------------------------- MODULE NameMatch_proofs --------------------------
(***************************************************************************)
(* What NameMatch's run shows for names of a few bytes, for names, keys,   *)
(* comms and patterns of every length: the whitelist lets pass what the    *)
(* daemon would recognise, a package is recognised by what the kernel      *)
(* leaves of its name, and a pattern whose only wildcard is one star       *)
(* matches what it means.                                                  *)
(***************************************************************************)
EXTENDS MCAlgorithms, SequenceTheorems, TLAPS

(* A name has its prefix key in the whitelist, and its suffix key if it is *)
(* longer than a key.                                                      *)
LEMMA KeysListed ==
    ASSUME NEW listed \in SUBSET Name, NEW pkg \in listed, pkg # <<>>
    PROVE  /\ prefix_key(pkg) \in comm_keys_build(listed)
           /\ Len(pkg) > KeyLen => suffix_key(pkg) \in comm_keys_build(listed)
<1>1. prefix_key(pkg) \in comm_keys(pkg)
  BY DEF comm_keys
<1>2. Len(pkg) > KeyLen => suffix_key(pkg) \in comm_keys(pkg)
  BY DEF comm_keys
<1> QED BY <1>1, <1>2 DEF comm_keys_build

(* The first window of a comm is the prefix key of the name it is all of,  *)
(* or, if it has the length of a key, the start of.                        *)
LEMMA FirstWindow ==
    ASSUME NEW pkg \in Name, NEW shown \in Name, StartsWith(pkg, shown),
           shown = pkg \/ Len(shown) >= KeyLen
    PROVE  Window(shown, 0) = prefix_key(pkg)
<1>1. KeyLen \in Nat /\ Len(shown) \in Nat /\ Len(pkg) \in Nat /\ Len(shown) <= Len(pkg)
  BY NameAssumption DEF StartsWith, Name
<1>2. ASSUME NEW i \in 1 .. KeyLen
      PROVE  (IF 0 + i <= Len(shown) THEN shown[0 + i] ELSE Nul)
               = (IF i <= Len(pkg) THEN pkg[i] ELSE Nul)
  <2>1. i \in Nat /\ 0 + i = i
    BY <1>1
  <2>2. CASE shown = pkg
    BY <2>1, <2>2
  <2>3. CASE Len(shown) >= KeyLen
    <3>1. i \in 1 .. Len(shown) /\ i <= Len(pkg)
      BY <1>1, <2>1, <2>3
    <3>2. shown[i] = pkg[i]
      BY <3>1 DEF StartsWith
    <3> QED BY <2>1, <3>1, <3>2
  <2> QED BY <2>2, <2>3
<1> QED BY <1>2 DEF Window, prefix_key

(* The window at the end of a cut comm is the suffix key of a name that    *)
(* ends with it.                                                           *)
LEMMA LastWindow ==
    ASSUME NEW pkg \in Name, NEW shown \in Name, EndsWith(pkg, shown),
           Len(shown) = CommLen
    PROVE  Window(shown, KeyLen - 1) = suffix_key(pkg)
<1>1. /\ KeyLen \in Nat \ {0} /\ Len(pkg) \in Nat
      /\ Len(shown) = 2 * KeyLen - 1 /\ Len(shown) <= Len(pkg)
  BY NameAssumption DEF EndsWith, Name, CommLen
<1>2. ASSUME NEW i \in 1 .. KeyLen
      PROVE  (IF KeyLen - 1 + i <= Len(shown) THEN shown[KeyLen - 1 + i] ELSE Nul)
               = pkg[Len(pkg) - KeyLen + i]
  <2> DEFINE k == KeyLen - 1 + i
  <2>1. /\ k \in 1 .. Len(shown) /\ k <= Len(shown)
        /\ Len(pkg) - Len(shown) + k = Len(pkg) - KeyLen + i
    BY <1>1
  <2>2. shown[k] = pkg[Len(pkg) - Len(shown) + k]
    BY <2>1 DEF EndsWith
  <2> QED BY <2>1, <2>2
<1> QED BY <1>2 DEF Window, suffix_key

(* Whatever comm the daemon recognises as a configured package's           *)
(* (bpf.rs:365), a window of it hits one of the two keys of that package   *)
(* (ebpf/src/main.rs:72), so that the event which would be recognised is   *)
(* sent.  Two keys are enough at every place of the cut because a comm has *)
(* room for two keys but one byte.                                         *)
THEOREM RecognisedReported ==
    ASSUME NEW listed \in SUBSET Name, NEW shown \in Name,
           shown # <<>>, Len(shown) <= CommLen, comm_to_pkg(shown, listed) # {}
    PROVE  whitelist_matched(shown, comm_keys_build(listed))
<1>1. KeyLen \in Nat \ {0} /\ Len(shown) \in Nat \ {0} /\ CommLen = 2 * KeyLen - 1
  BY NameAssumption DEF Name, CommLen
<1>2. 0 \in 0 .. KeyLen /\ KeyLen - 1 \in 0 .. KeyLen
  BY <1>1
<1>3. CASE shown \in listed
  <2>1. StartsWith(shown, shown)
    BY <1>1 DEF StartsWith
  <2> QED BY <1>2, <1>3, <2>1, FirstWindow, KeysListed DEF whitelist_matched
<1>4. CASE shown \notin listed
  <2>1. Len(shown) = CommLen
    BY <1>1, <1>4 DEF comm_to_pkg, LooksCut
  <2>2. PICK pkg \in listed : StartsWith(pkg, shown) \/ EndsWith(pkg, shown)
    BY <1>4 DEF comm_to_pkg
  <2>3. pkg \in Name /\ Len(pkg) \in Nat /\ Len(pkg) >= Len(shown) /\ pkg # <<>>
    BY <1>1, <2>2 DEF StartsWith, EndsWith, Name
  <2>4. CASE StartsWith(pkg, shown)
    <3>1. Len(shown) >= KeyLen
      BY <1>1, <2>1
    <3> QED BY <1>2, <2>3, <2>4, <3>1, FirstWindow, KeysListed DEF whitelist_matched
  <2>5. CASE EndsWith(pkg, shown) /\ Len(pkg) > KeyLen
    BY <1>2, <2>1, <2>3, <2>5, LastWindow, KeysListed DEF whitelist_matched
  <2>6. CASE EndsWith(pkg, shown) /\ ~ (Len(pkg) > KeyLen)
    <3>1. Len(pkg) = Len(shown) /\ Len(shown) >= KeyLen
      BY <1>1, <2>1, <2>3, <2>6
    <3>2. ASSUME NEW i \in 1 .. Len(shown) PROVE pkg[i] = shown[i]
      <4>1. Len(pkg) - Len(shown) + i = i
        BY <3>1
      <4> QED BY <2>6, <4>1 DEF EndsWith
    <3>3. StartsWith(pkg, shown)
      BY <1>1, <3>1, <3>2 DEF StartsWith
    <3> QED BY <1>2, <2>3, <3>1, <3>3, FirstWindow, KeysListed DEF whitelist_matched
  <2> QED BY <2>2, <2>4, <2>5, <2>6
<1> QED BY <1>3, <1>4

-----------------------------------------------------------------------------
(* The two ends of a name.                                                 *)

FirstOf(n, k) == SubSeq(n, 1, k)

LastOf(n, k) == SubSeq(n, Len(n) - k + 1, Len(n))

LEMMA Ends ==
    ASSUME NEW word \in Name, NEW k \in Nat, k <= Len(word)
    PROVE  /\ FirstOf(word, k) \in Seq(Byte) /\ Len(FirstOf(word, k)) = k
           /\ \A i \in 1 .. k : FirstOf(word, k)[i] = word[i]
           /\ LastOf(word, k) \in Seq(Byte) /\ Len(LastOf(word, k)) = k
           /\ \A i \in 1 .. k : LastOf(word, k)[i] = word[Len(word) - k + i]
<1>1. Len(word) \in Nat /\ \A i \in 1 .. Len(word) : word[i] \in Byte
    BY DEF Name
<1>2. /\ FirstOf(word, k) \in Seq(Byte) /\ Len(FirstOf(word, k)) = k
      /\ \A i \in 1 .. k : FirstOf(word, k)[i] = word[i]
    BY <1>1, SubSeqProperties DEF FirstOf
<1> DEFINE m == Len(word) - k + 1
           n == Len(word)
<1>3. m \in Int /\ n \in Int /\ n - m + 1 = k /\ (m <= n \/ k = 0) /\ \A i \in m .. n : word[i] \in Byte
    BY <1>1
<1>4. \A i \in 1 .. k : m + i - 1 = Len(word) - k + i
    BY <1>1
<1>5. LastOf(word, k) = SubSeq(word, m, n)
    BY DEF LastOf
<1> HIDE DEF m, n
<1>6. /\ SubSeq(word, m, n) \in Seq(Byte)
      /\ Len(SubSeq(word, m, n)) = IF m <= n THEN n - m + 1 ELSE 0
      /\ \A i \in 1 .. n - m + 1 : SubSeq(word, m, n)[i] = word[m + i - 1]
    BY <1>3, SubSeqProperties
<1> QED
    BY <1>2, <1>3, <1>4, <1>5, <1>6

(* A comm of full length that is no name itself: any name that starts or   *)
(* ends with it is shown by it, and one is found if there is one.          *)
LEMMA CutFound ==
    ASSUME NEW listed \in SUBSET Name, NEW shown \in Seq(Byte), Len(shown) = CommLen,
           shown \notin listed, NEW own \in listed, Len(own) > CommLen,
           \/ \A i \in 1 .. CommLen : shown[i] = own[i]
           \/ \A i \in 1 .. CommLen : shown[i] = own[Len(own) - CommLen + i]
    PROVE  /\ comm_to_pkg(shown, listed) # {}
           /\ \A p \in comm_to_pkg(shown, listed) : shown \in Comms(p)
<1>1. CommLen \in Nat \ {0} /\ own \in Name /\ Len(own) \in Nat
    BY NameAssumption DEF CommLen, Name
<1> DEFINE starting == {p \in listed : StartsWith(p, shown)}
           ending == {p \in listed : EndsWith(p, shown)}
<1>2. comm_to_pkg(shown, listed) = IF starting # {} THEN starting ELSE ending
    BY <1>1 DEF comm_to_pkg, LooksCut
<1>3. (\A i \in 1 .. CommLen : shown[i] = own[i]) => StartsWith(own, shown)
    BY <1>1 DEF StartsWith
<1>4. (\A i \in 1 .. CommLen : shown[i] = own[Len(own) - CommLen + i]) => EndsWith(own, shown)
    BY <1>1 DEF EndsWith
<1>5. starting # {} \/ ending # {}
    BY <1>3, <1>4
<1>6. ASSUME NEW p \in listed, StartsWith(p, shown) \/ EndsWith(p, shown)
      PROVE  shown \in Comms(p)
  <2>1. p \in Seq(Byte) /\ Len(p) \in Nat /\ Len(p) >= CommLen
    BY <1>6 DEF StartsWith, EndsWith, Name
  <2>2. ASSUME Len(p) = CommLen PROVE FALSE
    <3>1. \A i \in 1 .. CommLen : p[i] = shown[i]
      BY <1>1, <1>6, <2>2 DEF StartsWith, EndsWith
    <3>2. p = shown
      BY <2>1, <2>2, <3>1, SeqEqual
    <3> QED
      BY <3>2
  <2>3. Len(p) > CommLen /\ ~ (Len(p) <= CommLen)
    BY <1>1, <2>1, <2>2
  <2>4. Comms(p) = {FirstOf(p, CommLen), LastOf(p, CommLen)}
    BY <2>3 DEF Comms, FirstOf, LastOf
  <2>5. /\ FirstOf(p, CommLen) \in Seq(Byte) /\ Len(FirstOf(p, CommLen)) = CommLen
        /\ \A i \in 1 .. CommLen : FirstOf(p, CommLen)[i] = p[i]
        /\ LastOf(p, CommLen) \in Seq(Byte) /\ Len(LastOf(p, CommLen)) = CommLen
        /\ \A i \in 1 .. CommLen : LastOf(p, CommLen)[i] = p[Len(p) - CommLen + i]
    BY <1>1, <2>1, Ends DEF Name
  <2>6. CASE StartsWith(p, shown)
    <3>1. \A i \in 1 .. CommLen : FirstOf(p, CommLen)[i] = shown[i]
      BY <2>5, <2>6 DEF StartsWith
    <3>2. FirstOf(p, CommLen) = shown
      BY <2>5, <3>1, SeqEqual
    <3> QED
      BY <2>4, <3>2
  <2>7. CASE EndsWith(p, shown)
    <3>1. \A i \in 1 .. CommLen : LastOf(p, CommLen)[i] = shown[i]
      BY <2>5, <2>7 DEF EndsWith
    <3>2. LastOf(p, CommLen) = shown
      BY <2>5, <3>1, SeqEqual
    <3> QED
      BY <2>4, <3>2
  <2> QED
    BY <1>6, <2>6, <2>7
<1> QED
  <2> HIDE DEF starting, ending
  <2> QED
    BY <1>2, <1>5, <1>6 DEF starting, ending

(* A name is recognised by its own comm, and only as a name that is shown  *)
(* by that comm, too: whichever end of it the kernel shows, comm_to_pkg    *)
(* (bpf.rs:365) finds a listed name that has the same comm.                *)
THEOREM OwnCommFound ==
    ASSUME NEW listed \in SUBSET Name, NEW own \in listed, NEW shown \in Comms(own)
    PROVE  /\ comm_to_pkg(shown, listed) # {}
           /\ \A p \in comm_to_pkg(shown, listed) : shown \in Comms(p)
<1>1. CommLen \in Nat \ {0} /\ own \in Name /\ Len(own) \in Nat
    BY NameAssumption DEF CommLen, Name
<1>2. \A p \in Name : ~ (Len(p) <= CommLen) =>
          Comms(p) = {FirstOf(p, CommLen), LastOf(p, CommLen)}
    BY DEF Comms, FirstOf, LastOf
<1>3. CASE shown \in listed /\ Len(shown) <= CommLen
    BY <1>3 DEF comm_to_pkg, Comms
<1>4. CASE Len(own) <= CommLen
    BY <1>3, <1>4 DEF Comms
<1>5. CASE Len(own) > CommLen
  <2>0. /\ \A i \in 1 .. CommLen : FirstOf(own, CommLen)[i] = own[i]
        /\ \A i \in 1 .. CommLen : LastOf(own, CommLen)[i] = own[Len(own) - CommLen + i]
        /\ FirstOf(own, CommLen) \in Seq(Byte) /\ Len(FirstOf(own, CommLen)) = CommLen
        /\ LastOf(own, CommLen) \in Seq(Byte) /\ Len(LastOf(own, CommLen)) = CommLen
    <3>1. own \in Name /\ CommLen \in Nat /\ CommLen <= Len(own)
      BY <1>1, <1>5
    <3> QED
      BY ONLY <3>1, Ends, ZenonT(60)
  <2>1. shown \in {FirstOf(own, CommLen), LastOf(own, CommLen)}
    BY <1>1, <1>2, <1>5
  <2>2. shown \in Seq(Byte) /\ Len(shown) = CommLen
    BY <2>0, <2>1
  <2>3. CASE shown \in listed
    BY <1>1, <1>3, <2>2, <2>3
  <2>4. CASE shown \notin listed
    <3>1. CASE shown = FirstOf(own, CommLen)
      <4>1. \A i \in 1 .. CommLen : shown[i] = own[i]
        BY <2>0, <3>1
      <4> QED
        BY <1>1, <1>5, <2>2, <2>4, <4>1, CutFound
    <3>2. CASE shown = LastOf(own, CommLen)
      <4>1. \A i \in 1 .. CommLen : shown[i] = own[Len(own) - CommLen + i]
        BY <2>0, <3>2
      <4> QED
        BY <1>1, <1>5, <2>2, <2>4, <4>1, CutFound
    <3> QED
      BY <2>1, <3>1, <3>2
  <2> QED
    BY <2>3, <2>4
<1> QED
    BY <1>1, <1>4, <1>5

-----------------------------------------------------------------------------
(* Patterns.                                                               *)

(* Theorems on well-founded orders and on finite sets. *)
Wf == INSTANCE WellFoundedInduction

Fs == INSTANCE FiniteSetTheorems

(* Cuts that go on one byte at a time; the first one not to do so would    *)
(* come after one that does.                                               *)
LEMMA StepByStep ==
    ASSUME NEW lo \in Nat, NEW hi \in Nat, NEW cut,
           cut[lo] \in Nat, \A i \in lo + 1 .. hi : cut[i] = cut[i - 1] + 1
    PROVE  \A i \in lo .. hi : cut[i] = cut[lo] + (i - lo)
<1> DEFINE T == {i \in lo .. hi : cut[i] # cut[lo] + (i - lo)}
<1> SUFFICES ASSUME T # {} PROVE FALSE
    OBVIOUS
<1>1. T \subseteq Nat
    OBVIOUS
<1> HIDE DEF T
<1>2. Wf!IsWellFoundedOn(Wf!OpToRel(<, Nat), Nat)
    BY Wf!NatLessThanWellFounded
<1> DEFINE R == Wf!OpToRel(<, Nat)
<1>r. \A x, y \in Nat : x < y => <<x, y>> \in R
    BY DEF Wf!OpToRel
<1> HIDE DEF R
<1>s. Wf!IsWellFoundedOn(R, Nat)
    BY <1>2 DEF R
<1>t. PICK x \in T : \A y \in T : ~ (<<y, x>> \in R)
    BY <1>1, <1>s, Wf!WFMin
<1>3. \A y \in T : ~ (y < x)
    BY <1>1, <1>r, <1>t
<1>4. x \in lo .. hi /\ cut[x] # cut[lo] + (x - lo)
    BY DEF T
<1>5. x # lo
    BY <1>4
<1>6. x - 1 \in lo .. hi /\ x - 1 < x /\ x \in lo + 1 .. hi
    BY <1>4, <1>5
<1>7. cut[x - 1] = cut[lo] + (x - 1 - lo)
    BY <1>3, <1>6 DEF T
<1> QED
    BY <1>4, <1>6, <1>7

(* The meaning of a pattern without a '?', whose bytes but for the stars   *)
(* are those of the name.                                                  *)
StarGlob(p, n) ==
    \E cut \in [0 .. Len(p) -> 0 .. Len(n)] :
        /\ cut[0] = 0 /\ cut[Len(p)] = Len(n)
        /\ \A i \in 1 .. Len(p) :
              IF p[i] = Star THEN cut[i - 1] <= cut[i]
              ELSE cut[i] = cut[i - 1] + 1 /\ n[cut[i]] = p[i]

LEMMA StarsOnly ==
    ASSUME NEW p \in Seq(Byte \cup {Star}), NEW n
    PROVE  Glob(p, n) <=> StarGlob(p, n)
<1>1. \A i \in 1 .. Len(p) : p[i] # AnyByte
    BY NameAssumption
<1> QED
    BY <1>1, Zenon DEF Glob, StarGlob

(* A pattern without a star means itself.                                  *)
LEMMA PlainPattern ==
    ASSUME NEW p \in Seq(Byte \cup {Star}), NEW n \in Name, p # <<>>, Stars(p) = {}
    PROVE  fnmatch(p, n) <=> StarGlob(p, n)
<1>1. /\ Len(p) \in Nat \ {0} /\ Len(n) \in Nat
      /\ \A i \in 1 .. Len(p) : p[i] # Star /\ p[i] \in Byte \cup {Star}
      /\ n \in Seq(Byte \cup {Star})
    BY DEF Name, Stars
<1>2. fnmatch(p, n) <=> p = n
    BY DEF fnmatch
<1>3. ASSUME p = n PROVE StarGlob(p, n)
  <2> DEFINE cut == [i \in 0 .. Len(p) |-> i]
  <2>1. cut \in [0 .. Len(p) -> 0 .. Len(n)]
    BY <1>1, <1>3
  <2>2. cut[0] = 0 /\ cut[Len(p)] = Len(n)
    BY <1>1, <1>3
  <2>3. \A i \in 1 .. Len(p) : cut[i] = cut[i - 1] + 1 /\ n[cut[i]] = p[i]
    BY <1>1, <1>3
  <2> HIDE DEF cut
  <2> QED
    BY <1>1, <2>1, <2>2, <2>3 DEF StarGlob
<1>4. ASSUME StarGlob(p, n) PROVE p = n
  <2>1. PICK cut \in [0 .. Len(p) -> 0 .. Len(n)] :
            /\ cut[0] = 0 /\ cut[Len(p)] = Len(n)
            /\ \A i \in 1 .. Len(p) : cut[i] = cut[i - 1] + 1 /\ n[cut[i]] = p[i]
    <3>1. PICK cut \in [0 .. Len(p) -> 0 .. Len(n)] :
              /\ cut[0] = 0 /\ cut[Len(p)] = Len(n)
              /\ \A i \in 1 .. Len(p) :
                    IF p[i] = Star THEN cut[i - 1] <= cut[i]
                    ELSE cut[i] = cut[i - 1] + 1 /\ n[cut[i]] = p[i]
      BY <1>4, Zenon DEF StarGlob
    <3>2. \A i \in 1 .. Len(p) : cut[i] = cut[i - 1] + 1 /\ n[cut[i]] = p[i]
      BY <1>1, <3>1, Zenon
    <3> QED
      BY <3>1, <3>2, Zenon
  <2>2. \A i \in 0 .. Len(p) : cut[i] = cut[0] + (i - 0)
    <3>1. 0 \in Nat /\ Len(p) \in Nat /\ cut[0] \in Nat
      BY <1>1, <2>1
    <3>2. \A i \in 0 + 1 .. Len(p) : cut[i] = cut[i - 1] + 1
      BY <1>1, <2>1
    <3> QED
      BY <3>1, <3>2, StepByStep
  <2>3. Len(n) = Len(p)
    <3>1. Len(p) \in 0 .. Len(p) /\ 0 + (Len(p) - 0) = Len(p)
      BY <1>1
    <3> QED
      BY <2>1, <2>2, <3>1
  <2>4. ASSUME NEW i \in 1 .. Len(p) PROVE n[i] = p[i]
    <3>1. i \in 0 .. Len(p) /\ 0 + (i - 0) = i
      BY <1>1
    <3>2. cut[i] = i
      BY <2>1, <2>2, <3>1
    <3>3. n[cut[i]] = p[i]
      BY <2>1
    <3> QED
      BY <3>2, <3>3
  <2> QED
    BY <1>1, <2>3, <2>4, SeqEqual
<1> QED
    BY <1>2, <1>3, <1>4

(* A pattern with one star means its two ends, which may not overlap.      *)
LEMMA StarPattern ==
    ASSUME NEW p \in Seq(Byte \cup {Star}), NEW n \in Name, NEW pos \in 1 .. Len(p),
           Stars(p) = {pos}
    PROVE  fnmatch(p, n) <=> StarGlob(p, n)
<1> DEFINE lp == Len(p)
           ln == Len(n)
           rest == lp - pos
<1>1. /\ lp \in Nat /\ ln \in Nat /\ pos \in 1 .. lp /\ rest \in Nat
      /\ \A i \in 1 .. lp : p[i] \in Byte \cup {Star}
      /\ \A i \in 1 .. ln : n[i] \in Byte
    BY DEF Name
<1>2. \A i \in 1 .. lp : p[i] = Star <=> i = pos
    BY DEF Stars
<1> DEFINE Matches == /\ pos - 1 + rest <= ln
                      /\ \A i \in 1 .. pos - 1 : n[i] = p[i]
                      /\ \A i \in 1 .. rest : n[ln - rest + i] = p[pos + i]
<1>3. fnmatch(p, n) <=> Matches
  <2> DEFINE pre == SubSeq(p, 1, pos - 1)
             post == SubSeq(p, pos + 1, lp)
             tail == SubSeq(n, pos, ln)
  <2>1. (CHOOSE i \in {pos} : \A k \in {pos} : i <= k) = pos
    BY <1>1
  <2>2. fnmatch(p, n) <=> StartsWith(n, pre) /\ EndsWith(tail, post)
    BY <2>1 DEF fnmatch
  <2>3. Len(pre) = pos - 1 /\ \A i \in 1 .. pos - 1 : pre[i] = p[i]
    <3>1. 1 \in Int /\ pos - 1 \in Int /\ \A i \in 1 .. pos - 1 : p[i] \in Byte \cup {Star}
      BY <1>1
    <3>2. /\ Len(pre) = IF 1 <= pos - 1 THEN pos - 1 - 1 + 1 ELSE 0
          /\ \A i \in 1 .. pos - 1 - 1 + 1 : pre[i] = p[1 + i - 1]
      BY <3>1, SubSeqProperties
    <3> HIDE DEF pre
    <3> QED
      BY <1>1, <3>2
  <2>4. Len(post) = rest /\ \A i \in 1 .. rest : post[i] = p[pos + i]
    <3>1. pos + 1 \in Int /\ lp \in Int /\ \A i \in pos + 1 .. lp : p[i] \in Byte \cup {Star}
      BY <1>1
    <3>2. /\ Len(post) = IF pos + 1 <= lp THEN lp - (pos + 1) + 1 ELSE 0
          /\ \A i \in 1 .. lp - (pos + 1) + 1 : post[i] = p[pos + 1 + i - 1]
      BY <3>1, SubSeqProperties
    <3> HIDE DEF post
    <3> QED
      BY <1>1, <3>2
  <2>5. /\ Len(tail) = IF pos <= ln THEN ln - pos + 1 ELSE 0
        /\ \A i \in 1 .. ln - pos + 1 : tail[i] = n[pos + i - 1]
    <3>1. pos \in Int /\ ln \in Int /\ \A i \in pos .. ln : n[i] \in Byte
      BY <1>1
    <3> QED
      BY <3>1, SubSeqProperties
  <2> HIDE DEF pre, post, tail, lp, ln, rest
  <2>6. StartsWith(n, pre) <=> pos - 1 <= ln /\ \A i \in 1 .. pos - 1 : n[i] = p[i]
    BY <2>3 DEF StartsWith, ln
  <2>7. ASSUME pos - 1 <= ln
        PROVE  EndsWith(tail, post) <=> /\ pos - 1 + rest <= ln
                                        /\ \A i \in 1 .. rest : n[ln - rest + i] = p[pos + i]
    <3>1. Len(tail) = ln - pos + 1
      BY <1>1, <2>5, <2>7
    <3>2. Len(post) <= Len(tail) <=> pos - 1 + rest <= ln
      BY <1>1, <2>4, <3>1
    <3>3. ASSUME pos - 1 + rest <= ln, NEW i \in 1 .. rest
          PROVE  tail[Len(tail) - Len(post) + i] = n[ln - rest + i]
      <4>1. Len(tail) - Len(post) + i \in 1 .. ln - pos + 1
        BY <1>1, <2>4, <3>1, <3>3
      <4>2. pos + (Len(tail) - Len(post) + i) - 1 = ln - rest + i
        BY <1>1, <2>4, <3>1
      <4> QED
        BY <2>5, <4>1, <4>2
    <3> QED
      BY <2>4, <3>2, <3>3 DEF EndsWith
  <2>8. pos - 1 + rest <= ln => pos - 1 <= ln
    BY <1>1
  <2> QED
    BY <2>2, <2>6, <2>7, <2>8
<1>4. ASSUME Matches PROVE StarGlob(p, n)
  <2> DEFINE cut == [i \in 0 .. lp |-> IF i < pos THEN i ELSE ln - rest + (i - pos)]
  <2>1. cut \in [0 .. lp -> 0 .. ln]
    BY <1>1, <1>4
  <2>2. cut[0] = 0 /\ cut[lp] = ln
    BY <1>1, <1>4
  <2>3. cut[pos - 1] <= cut[pos]
    BY <1>1, <1>4
  <2>4. ASSUME NEW i \in 1 .. lp, i < pos
        PROVE  cut[i] = cut[i - 1] + 1 /\ n[cut[i]] = p[i]
    BY <1>1, <1>4, <2>4
  <2>5. ASSUME NEW i \in 1 .. lp, i > pos
        PROVE  cut[i] = cut[i - 1] + 1 /\ n[cut[i]] = p[i]
    <3>1. i - pos \in 1 .. rest /\ pos + (i - pos) = i
      BY <1>1, <2>5
    <3>2. n[ln - rest + (i - pos)] = p[i]
      BY <1>4, <3>1
    <3>3. cut[i] = ln - rest + (i - pos) /\ cut[i - 1] = ln - rest + (i - 1 - pos)
      BY <1>1, <2>5
    <3> QED
      BY <1>1, <3>2, <3>3
  <2> HIDE DEF cut
  <2>6. \A i \in 1 .. lp : IF p[i] = Star THEN cut[i - 1] <= cut[i]
                           ELSE cut[i] = cut[i - 1] + 1 /\ n[cut[i]] = p[i]
    <3> SUFFICES ASSUME NEW i \in 1 .. lp
                 PROVE  IF p[i] = Star THEN cut[i - 1] <= cut[i]
                        ELSE cut[i] = cut[i - 1] + 1 /\ n[cut[i]] = p[i]
      OBVIOUS
    <3>1. i = pos \/ i < pos \/ i > pos
      BY <1>1
    <3> QED
      BY <1>2, <2>3, <2>4, <2>5, <3>1
  <2> QED
    BY <2>1, <2>2, <2>6 DEF StarGlob
<1>5. ASSUME StarGlob(p, n) PROVE Matches
  <2>1. PICK cut \in [0 .. lp -> 0 .. ln] :
            /\ cut[0] = 0 /\ cut[lp] = ln
            /\ \A i \in 1 .. lp : IF p[i] = Star THEN cut[i - 1] <= cut[i]
                                  ELSE cut[i] = cut[i - 1] + 1 /\ n[cut[i]] = p[i]
    BY <1>5 DEF StarGlob
  <2>2. \A i \in 0 .. pos - 1 : cut[i] = cut[0] + (i - 0)
    <3>1. 0 \in Nat /\ pos - 1 \in Nat /\ cut[0] \in Nat
      BY <1>1, <2>1
    <3>2. \A i \in 0 + 1 .. pos - 1 : cut[i] = cut[i - 1] + 1
      BY <1>1, <1>2, <2>1
    <3> QED
      BY <3>1, <3>2, StepByStep
  <2>3. \A i \in pos .. lp : cut[i] = cut[pos] + (i - pos)
    <3>1. pos \in Nat /\ lp \in Nat /\ cut[pos] \in Nat
      BY <1>1
    <3>2. \A i \in pos + 1 .. lp : cut[i] = cut[i - 1] + 1
      BY <1>1, <1>2, <2>1
    <3> QED
      BY <3>1, <3>2, StepByStep
  <2>4. cut[pos] \in 0 .. ln /\ cut[pos - 1] = pos - 1 /\ cut[pos - 1] <= cut[pos]
    BY <1>1, <1>2, <2>1, <2>2
  <2>5. ln = cut[pos] + rest
    <3>1. lp \in pos .. lp
      BY <1>1
    <3>2. cut[lp] = cut[pos] + (lp - pos)
      BY <2>3, <3>1
    <3> QED
      BY <2>1, <3>2
  <2>6. ASSUME NEW i \in 1 .. pos - 1
        PROVE  n[i] = p[i]
    <3>1. i \in 1 .. lp /\ i # pos /\ i \in 0 .. pos - 1
      BY <1>1
    <3>2. n[cut[i]] = p[i] /\ cut[i] = cut[0] + (i - 0)
      BY <1>2, <2>1, <2>2, <3>1
    <3>3. cut[i] = i
      BY <1>1, <2>1, <3>2
    <3> QED
      BY <3>2, <3>3
  <2>7. ASSUME NEW i \in 1 .. rest
        PROVE  n[ln - rest + i] = p[pos + i]
    <3>1. pos + i \in 1 .. lp /\ pos + i # pos /\ pos + i \in pos .. lp
      BY <1>1
    <3>2. n[cut[pos + i]] = p[pos + i] /\ cut[pos + i] = cut[pos] + (pos + i - pos)
      BY <1>2, <2>1, <2>3, <3>1
    <3>3. cut[pos] + (pos + i - pos) = ln - rest + i
      BY <1>1, <2>4, <2>5
    <3> QED
      BY <3>2, <3>3
  <2>8. pos - 1 + rest <= ln
    <3> HIDE DEF lp, ln, rest
    <3> QED
      BY <1>1, <2>4, <2>5
  <2> QED
    BY <2>6, <2>7, <2>8
<1> QED
    BY <1>3, <1>4, <1>5

(* fnmatch (config.rs:3) gives a pattern whose only wildcard is one star,  *)
(* and one without any, the documented meaning, for patterns and names of  *)
(* every length: the sides of the star may not overlap in the name, and    *)
(* all of the name is matched.  A '?' or '[' is not such a pattern: it is  *)
(* documented, too, and fnmatch takes it for a byte like any other.        *)
THEOREM OneStarIsGlob ==
    ASSUME NEW p \in Seq(Byte \cup {Star}), NEW n \in Name,
           p # <<>>, Cardinality(Stars(p)) <= 1
    PROVE  fnmatch(p, n) <=> Glob(p, n)
<1>1. CASE Stars(p) = {}
    BY <1>1, PlainPattern, StarsOnly
<1>2. CASE Stars(p) # {}
  <2>0. Fs!Cardinality(Stars(p)) <= 1
    BY DEF Cardinality, Fs!Cardinality, IsFiniteSet, Fs!IsFiniteSet
  <2>1. PICK pos \in Stars(p) : TRUE
    BY <1>2
  <2>2. Stars(p) \subseteq 1 .. Len(p) /\ Fs!IsFiniteSet(1 .. Len(p))
    BY Fs!FS_Interval, LenProperties DEF Stars
  <2>3. Fs!IsFiniteSet(Stars(p)) /\ Fs!Cardinality(Stars(p)) \in Nat
    BY <2>2, Fs!FS_Subset, Fs!FS_CardinalityType
  <2>4. ASSUME NEW k \in Stars(p), k # pos PROVE FALSE
    <3>1. Fs!IsFiniteSet({pos}) /\ Fs!Cardinality({pos}) = 1
      BY Fs!FS_Singleton
    <3>2. Fs!Cardinality({pos} \cup {k}) = Fs!Cardinality({pos}) + 1
      <4>1. k \notin {pos}
        BY <2>4
      <4> QED
        BY <3>1, <4>1, Fs!FS_AddElement
    <3>3. {pos} \cup {k} \subseteq Stars(p)
      OBVIOUS
    <3>4. Fs!Cardinality({pos} \cup {k}) <= Fs!Cardinality(Stars(p))
      BY <2>3, <3>3, Fs!FS_Subset
    <3> DEFINE all == Fs!Cardinality(Stars(p))
               two == Fs!Cardinality({pos} \cup {k})
               one == Fs!Cardinality({pos})
    <3>5. all \in Nat /\ all <= 1 /\ two <= all
      BY <2>0, <2>3, <3>4, Zenon
    <3>6. one = 1 /\ two = one + 1
      BY <3>1, <3>2, Zenon
    <3> HIDE DEF all, two, one
    <3> QED
      BY <3>5, <3>6
  <2>5. Stars(p) = {pos} /\ pos \in 1 .. Len(p)
    BY <2>2, <2>4
  <2> QED
    BY <2>5, StarPattern, StarsOnly
<1> QED
    BY <1>1, <1>2

-----------------------------------------------------------------------------
(* The runs' properties, for names, patterns and comms of every length.    *)

NamesOK ==
    /\ pkgs \in [1 .. 2 -> Name]
    /\ comm \in Name /\ Len(comm) <= CommLen
    /\ pat \in Seq(Byte \cup {Star, AnyByte})
    /\ name \in Name

LEMMA NamesInductive == Spec => []NamesOK
<1>1. CommLen \in Nat
    BY NameAssumption DEF CommLen
<1>2. ASSUME Init PROVE NamesOK
  <2>1. <<>> \in Seq(Byte) /\ <<>> \in Seq(Byte \cup {Star, AnyByte}) /\ Len(<<>>) = 0
    OBVIOUS
  <2>2. <<<<>>, <<>>>> \in [1 .. 2 -> Seq(Byte)]
    <3> DEFINE none == <<>>
    <3>1. none \in Seq(Byte)
      OBVIOUS
    <3> HIDE DEF none
    <3>2. <<none, none>> \in [1 .. 2 -> Seq(Byte)]
      BY <3>1
    <3> QED
      BY <3>2 DEF none
  <2> QED
    BY <1>1, <1>2, <2>1, <2>2 DEF Init, NamesOK, Name
<1>3. ASSUME NamesOK, [Next]_vars PROVE NamesOK'
  <2>1. ASSUME NextComm PROVE NamesOK'
    <3>1. PICK b \in Byte :
              \/ \E i \in 1 .. 2 : pkgs' = [pkgs EXCEPT ![i] = Append(@, b)] /\ UNCHANGED comm
              \/ Len(comm) < CommLen /\ comm' = Append(comm, b) /\ UNCHANGED pkgs
      BY <2>1 DEF NextComm
    <3>2. CASE \E i \in 1 .. 2 : pkgs' = [pkgs EXCEPT ![i] = Append(@, b)] /\ UNCHANGED comm
      <4>1. PICK i \in 1 .. 2 : pkgs' = [pkgs EXCEPT ![i] = Append(@, b)] /\ UNCHANGED comm
        BY <3>2
      <4>2. pkgs[i] \in Seq(Byte)
        BY <1>3 DEF NamesOK, Name
      <4>3. Append(pkgs[i], b) \in Seq(Byte)
        BY <4>2
      <4>4. pkgs' \in [1 .. 2 -> Name]
        BY <1>3, <4>1, <4>3 DEF NamesOK, Name
      <4> QED
        BY <1>3, <2>1, <4>1, <4>4 DEF NamesOK, NextComm
    <3>3. CASE Len(comm) < CommLen /\ comm' = Append(comm, b) /\ UNCHANGED pkgs
      <4>1. comm' \in Seq(Byte) /\ Len(comm') = Len(comm) + 1 /\ Len(comm) \in Nat
        BY <1>3, <3>3 DEF NamesOK, Name
      <4> QED
        BY <1>1, <1>3, <2>1, <3>3, <4>1 DEF NamesOK, Name, NextComm
    <3> QED
      BY <3>1, <3>2, <3>3
  <2>2. ASSUME NextPattern PROVE NamesOK'
    <3>1. ASSUME NEW b \in Byte \cup {Star, AnyByte}
          PROVE  Append(pat, b) \in Seq(Byte \cup {Star, AnyByte})
      BY <1>3 DEF NamesOK
    <3>2. ASSUME NEW b \in Byte PROVE Append(name, b) \in Seq(Byte)
      BY <1>3 DEF NamesOK, Name
    <3>3. pat' \in Seq(Byte \cup {Star, AnyByte}) /\ name' \in Seq(Byte)
      BY <1>3, <2>2, <3>1, <3>2 DEF NextPattern, NamesOK, Name
    <3> QED
      BY <1>3, <2>2, <3>3 DEF NextPattern, NamesOK, Name
  <2>3. ASSUME NextCpus \/ NextPolicies \/ UNCHANGED vars PROVE NamesOK'
    BY <1>3, <2>3 DEF NextCpus, NextPolicies, vars, NamesOK
  <2> QED
    BY <1>3, <2>1, <2>2, <2>3 DEF Next
<1> QED
    BY <1>2, <1>3, PTL DEF Spec

LEMMA PackagesAreNames ==
    NamesOK => ToSet(pkgs) \in SUBSET Name
BY DEF NamesOK, ToSet

(* No comm that the daemon would recognise is dropped by the programs in   *)
(* the kernel (bpf.rs:365, ebpf/src/main.rs:72), for names, keys and comms *)
(* of every length.                                                        *)
THEOREM NothingRecognisedIsDropped == Spec => []RecognisedIsReported
<1>1. NamesOK => RecognisedIsReported
  <2> SUFFICES ASSUME NamesOK, comm # <<>>, comm_to_pkg(comm, ToSet(pkgs)) # {}
               PROVE  whitelist_matched(comm, comm_keys_build(ToSet(pkgs)))
    BY DEF RecognisedIsReported
  <2>1. ToSet(pkgs) \in SUBSET Name /\ comm \in Name /\ Len(comm) <= CommLen
    BY PackagesAreNames DEF NamesOK
  <2> QED
    BY <2>1, RecognisedReported
<1> QED
    BY <1>1, NamesInductive, PTL

(* Whichever end of a package's name the kernel shows, comm_to_pkg         *)
(* (bpf.rs:365) finds a package, and one that the comm fits.               *)
THEOREM OwnCommIsRecognised == Spec => []OwnCommRecognised
<1>1. NamesOK => OwnCommRecognised
    BY PackagesAreNames, OwnCommFound DEF OwnCommRecognised
<1> QED
    BY <1>1, NamesInductive, PTL

(* fnmatch (config.rs:3) matches what a pattern means that has one star    *)
(* and no other wildcard, for patterns and names of every length.          *)
THEOREM OneStarAlwaysMatches == Spec => []OneStarMatches
<1>1. ASSUME NamesOK PROVE OneStarMatches
  <2> SUFFICES ASSUME pat # <<>>, AnyByte \notin ToSet(pat), Cardinality(Stars(pat)) <= 1
               PROVE  fnmatch(pat, name) <=> Glob(pat, name)
    BY DEF OneStarMatches
  <2>1. pat \in Seq(Byte \cup {Star, AnyByte}) /\ name \in Name
    BY <1>1 DEF NamesOK
  <2>2. \A i \in 1 .. Len(pat) : pat[i] \in Byte \cup {Star}
    BY <2>1 DEF ToSet
  <2>3. pat \in Seq(Byte \cup {Star})
    BY <2>1, <2>2, SeqDef
  <2> QED
    BY <2>1, <2>3, OneStarIsGlob
<1> QED
    BY <1>1, NamesInductive, PTL
=============================================================================
