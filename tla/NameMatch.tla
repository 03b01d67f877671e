----------------------------- MODULE NameMatch -----------------------------
(***************************************************************************)
(* How names are recognised.  A process shows the kernel no more than      *)
(* CommLen bytes of its name.  The daemon puts KeyLen bytes of each end of *)
(* a package's name into the whitelist (comm_keys_build of src/src/bpf.rs),*)
(* the tracepoint programs look up every window of KeyLen bytes of a comm  *)
(* (whitelist_matched of src/ebpf/src/main.rs), and the daemon finds the   *)
(* package of a reported comm again (comm_to_pkg of src/src/bpf.rs).       *)
(* Patterns are matched by fnmatch of src/src/config.rs.                   *)
(*                                                                         *)
(* Names are sequences of bytes; KeyLen is 8 in the code and CommLen 15.   *)
(***************************************************************************)
EXTENDS Naturals, Sequences

CONSTANTS
    Byte,    \* the bytes of names
    Nul,     \* the byte that ends and pads a comm
    Star,    \* '*', the one wildcard fnmatch knows
    AnyByte, \* '?', which stands for any one byte in the documentation only
    KeyLen   \* the bytes of a whitelist key

ASSUME NameAssumption ==
    /\ KeyLen \in Nat \ {0}
    /\ Nul \notin Byte
    /\ AnyByte \notin Byte \cup {Star}

Name == Seq(Byte)

(* TASK_COMM_LEN without the final NUL. *)
CommLen == 2 * KeyLen - 1

StartsWith(name, part) ==
    /\ Len(part) <= Len(name)
    /\ \A i \in 1 .. Len(part) : name[i] = part[i]

EndsWith(name, part) ==
    /\ Len(part) <= Len(name)
    /\ \A i \in 1 .. Len(part) : name[Len(name) - Len(part) + i] = part[i]

-----------------------------------------------------------------------------

prefix_key(pkg) == [i \in 1 .. KeyLen |-> IF i <= Len(pkg) THEN pkg[i] ELSE Nul]

suffix_key(pkg) == [i \in 1 .. KeyLen |-> pkg[Len(pkg) - KeyLen + i]]

(* Faulty variant of comm_keys: a name has no key for its end.             *)
prefix_keys(pkg) == IF pkg = <<>> THEN {} ELSE {prefix_key(pkg)}

comm_keys(pkg) ==
    (IF pkg = <<>> THEN {} ELSE {prefix_key(pkg)})
        \cup (IF Len(pkg) > KeyLen THEN {suffix_key(pkg)} ELSE {})

comm_keys_build(pkgs) == UNION {comm_keys(pkg) : pkg \in pkgs}

(* The window at pos of the zero-padded buffer that holds a comm. *)
Window(comm, pos) ==
    [i \in 1 .. KeyLen |-> IF pos + i <= Len(comm) THEN comm[pos + i] ELSE Nul]

whitelist_matched(comm, keys) == \E pos \in 0 .. KeyLen : Window(comm, pos) \in keys

(* Faulty variant of LooksCut: a comm of full length is taken for whole.   *)
LooksCutOverlong(comm) == Len(comm) > CommLen

(* Only a comm of full length may be part of a name. *)
LooksCut(comm) == Len(comm) >= CommLen

(* The packages that comm_to_pkg may return: the one of that very name, or *)
(* any that starts with comm, or else any that ends with it.               *)
comm_to_pkg(comm, pkgs) ==
    LET starting == {pkg \in pkgs : StartsWith(pkg, comm)}
        ending   == {pkg \in pkgs : EndsWith(pkg, comm)}
    IN  IF comm \in pkgs THEN {comm}
        ELSE IF ~ LooksCut(comm) THEN {}
        ELSE IF starting # {} THEN starting
        ELSE ending

(* What the kernel shows of a name (external): the first CommLen bytes of  *)
(* it, or the last ones, which Android chooses for an application.         *)
Comms(name) ==
    IF Len(name) <= CommLen THEN {name}
    ELSE {SubSeq(name, 1, CommLen), SubSeq(name, Len(name) - CommLen + 1, Len(name))}

-----------------------------------------------------------------------------

Stars(pat) == {i \in 1 .. Len(pat) : pat[i] = Star}

(* Faulty variant of fnmatch: the two ends may overlap.                    *)
fnmatch_overlapping(pat, name) ==
    IF Stars(pat) = {} THEN pat # <<>> /\ pat = name
    ELSE LET pos == CHOOSE i \in Stars(pat) : \A k \in Stars(pat) : i <= k
         IN  /\ StartsWith(name, SubSeq(pat, 1, pos - 1))
             /\ EndsWith(name, SubSeq(pat, pos + 1, Len(pat)))

(* The first star stands for any bytes; a '?', '[' or later star for       *)
(* itself.                                                                 *)
fnmatch(pat, name) ==
    IF Stars(pat) = {} THEN pat # <<>> /\ pat = name
    ELSE LET pos == CHOOSE i \in Stars(pat) : \A k \in Stars(pat) : i <= k
         IN  /\ StartsWith(name, SubSeq(pat, 1, pos - 1))
             /\ EndsWith(SubSeq(name, pos, Len(name)), SubSeq(pat, pos + 1, Len(pat)))
=============================================================================
