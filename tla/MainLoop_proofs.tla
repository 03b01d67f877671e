--------------------------- MODULE MainLoop_proofs ---------------------------
(***************************************************************************)
(* What MainLoop's runs show on a small instance, for every number of      *)
(* versions, times and events: the types, that the watch on the            *)
(* configuration file is never lost unnoticed, that a change made under    *)
(* the watch is never missed, and that every reload is scanned for.        *)
(***************************************************************************)
EXTENDS MainLoop, TLAPS

(* What the program counter says of why the configuration is loaded: until *)
(* the first turn the daemon is starting, and nothing is scanned or        *)
(* watched; the reasons inotify gives come while the watch is used.  A     *)
(* watch that has told of the end of its file tells nothing more.  What is *)
(* being loaded is no older than what is in force.                         *)
Phases ==
    /\ pc \in {"read", "stat"} => cause # "none"
    /\ pc \in {"probe", "init", "down"} => cause = "start"
    /\ pc \in {"top", "rewatch", "mtime", "turn", "recv"} => cause # "start"
    /\ pc \in {"read", "stat"} /\ cause \in {"write", "gone"} => inotify_fd
    /\ pc = "rewatch" => inotify_fd /\ cause = "gone"
    /\ cause = "start" => scanned = {} /\ ~ inotify_fd
    /\ cause = "mtime" => ~ inotify_fd
    /\ writing => latest < MaxVersion
    /\ "gone" \in pending => ~ watching /\ ~ held
    /\ pc \in {"read", "stat", "rewatch"} /\ cause = "gone" => ~ watching /\ ~ held /\ pending = {}
    /\ \A v \in loading : cfg.version <= v

(* MissedOnlyUnwatched, between any two steps: a change made under the     *)
(* watch is pending, or will be, or it is in force or being loaded.        *)
NothingMissed ==
    \A f \in file :
        f.valid /\ cfg.version # f.version /\ pending = {} /\ ~ held /\ ~ unwatched =>
            pc = "read" \/ (pc = "stat" /\ loading = {f.version})

(* ScanFollowsReload, between any two steps: what is in force is what the  *)
(* last scan used, or config_changed is on its way to the next one.        *)
ScannedOrChanged ==
    inotify_fd => \/ \A s \in scanned : s.version = cfg.version
                  \/ config_changed /\ pc \in {"rewatch", "mtime", "turn"}

IInv == TypeOK /\ Phases /\ NeverDeaf /\ NothingMissed /\ ScannedOrChanged

LEMMA InitInv == Init => IInv
<1> SUFFICES ASSUME Init PROVE IInv
  OBVIOUS
<1>1. PICK v \in BOOLEAN : file = {[version |-> 0, valid |-> v, mtime |-> 0]}
  BY DEF Init
<1>2. /\ ~ writing /\ latest = 0 /\ clock = 0 /\ loading = {} /\ scanned = {}
      /\ ~ watching /\ ~ held /\ held = FALSE /\ pending = {} /\ unwatched /\ ~ inotify_fd
      /\ unwatched \in BOOLEAN /\ writing = FALSE /\ watching = FALSE /\ inotify_fd = FALSE
      /\ cfg = [version |-> 0, mtime |-> 0] /\ config_changed = FALSE
      /\ cause = "start" /\ pc = "read"
      /\ ok = FALSE /\ reader = "none" /\ chan = 0
      /\ need_full_scan = TRUE /\ scan_all_proc = TRUE
  BY DEF Init
<1>3. 0 \in Versions /\ 0 \in Times /\ 0 \in 0 .. ChanBound
  BY MainLoopAssumption DEF Versions, Times
<1>4. FileOK
  <2> DEFINE f0 == [version |-> 0, valid |-> v, mtime |-> 0]
  <2>1. f0 \in File /\ f0.version = 0 /\ f0.mtime = 0 /\ 0 <= 0
    BY <1>3 DEF File
  <2>2. file = {f0}
    BY <1>1
  <2> HIDE DEF f0
  <2> QED BY <1>2, <1>3, <2>1, <2>2 DEF FileOK
<1>5. WatchOK
  BY <1>2 DEF WatchOK
<1>6. ConfigOK
  <2>1. cfg \in [version : Versions, mtime : Times] /\ cfg.version = 0 /\ 0 <= 0
    BY <1>2, <1>3
  <2>2. loading # {} <=> pc = "stat"
    BY <1>2
  <2> QED BY <1>2, <2>1, <2>2 DEF ConfigOK
<1>7. ModeOK
  BY <1>2, <1>3 DEF ModeOK, PC
<1>8. Phases /\ NeverDeaf /\ NothingMissed /\ ScannedOrChanged
  BY <1>2 DEF Phases, NeverDeaf, NothingMissed, ScannedOrChanged
<1> QED BY <1>4, <1>5, <1>6, <1>7, <1>8 DEF IInv, TypeOK

-----------------------------------------------------------------------------
(* One lemma per action.                                                   *)

USE DEF Goto, fileVars, watchVars, modeVars

LEMMA FileStepInv == ASSUME IInv, FileStep PROVE IInv'
<1> USE DEF IInv, TypeOK
<1> DEFINE Same == UNCHANGED <<cfg, config_changed, loading, cause, modeVars, pc>>
<1> USE MainLoopAssumption
<1>1. CASE WriteBegin /\ Same
  <2>1. FileOK'
    BY <1>1 DEF WriteBegin, FileOK, File, Versions, Times
  <2>2. WatchOK' /\ ConfigOK' /\ ModeOK'
    BY <1>1 DEF WriteBegin, FileOK, WatchOK, ConfigOK, ModeOK
  <2>3. Phases' /\ NeverDeaf' /\ NothingMissed' /\ ScannedOrChanged'
    BY <1>1 DEF WriteBegin, Phases, NeverDeaf, NothingMissed, ScannedOrChanged
  <2> QED BY <2>1, <2>2, <2>3
<1>2. CASE WriteEnd /\ Same
  <2>1. latest' \in Versions /\ latest <= latest' /\ clock' = clock
    BY <1>2 DEF WriteEnd, FileOK, Phases, Versions
  <2>2. PICK valid \in BOOLEAN : file' = {[version |-> latest', valid |-> valid, mtime |-> clock]}
    BY <1>2 DEF WriteEnd
  <2> DEFINE new == [version |-> latest', valid |-> valid, mtime |-> clock]
  <2>7. new \in File /\ new.version = latest' /\ new.mtime <= clock'
    BY <2>1 DEF FileOK, File, Times
  <2>3. FileOK'
    BY <1>2, <2>1, <2>2, <2>7 DEF WriteEnd, FileOK
  <2>4. WatchOK'
    BY <1>2, <2>2 DEF WriteEnd, WatchOK
  <2>5. ConfigOK' /\ ModeOK'
    BY <1>2, <2>1 DEF FileOK, ConfigOK, ModeOK, Versions
  <2>6. Phases' /\ NeverDeaf' /\ NothingMissed' /\ ScannedOrChanged'
    BY <1>2 DEF WriteEnd, Told, Phases, NeverDeaf, NothingMissed, ScannedOrChanged
  <2> QED BY <2>3, <2>4, <2>5, <2>6
<1>3. CASE Replace /\ Same
  <2>1. latest' \in Versions /\ latest <= latest' /\ clock' = clock
    BY <1>3 DEF Replace, FileOK, Phases, Versions
  <2>2. PICK mtime \in 0 .. clock : file' = {[version |-> latest', valid |-> TRUE, mtime |-> mtime]}
    BY <1>3 DEF Replace
  <2> DEFINE new == [version |-> latest', valid |-> TRUE, mtime |-> mtime]
  <2>7. new \in File /\ new.version = latest' /\ new.mtime <= clock'
    BY <2>1 DEF FileOK, File, Times
  <2>3. FileOK'
    BY <1>3, <2>1, <2>2, <2>7 DEF Replace, Unlinked, FileOK
  <2>4. WatchOK'
    BY <1>3, <2>2 DEF Replace, Unlinked, WatchOK
  <2>5. ConfigOK' /\ ModeOK'
    BY <1>3, <2>1 DEF FileOK, ConfigOK, ModeOK, Versions
  <2>6. Phases' /\ NeverDeaf' /\ NothingMissed' /\ ScannedOrChanged'
    BY <1>3 DEF Replace, Unlinked, Told, WatchOK, Phases, NeverDeaf, NothingMissed, ScannedOrChanged
  <2> QED BY <2>3, <2>4, <2>5, <2>6
<1>4. CASE Delete /\ Same
  <2>1. latest' \in Versions /\ latest <= latest' /\ clock' = clock
    BY <1>4 DEF Delete, FileOK, Phases, Versions
  <2>3. FileOK'
    BY <1>4, <2>1 DEF Delete, Unlinked, FileOK, File, Versions, Times
  <2>4. WatchOK'
    BY <1>4 DEF Delete, Unlinked, WatchOK
  <2>5. ConfigOK' /\ ModeOK'
    BY <1>4, <2>1 DEF FileOK, ConfigOK, ModeOK, Versions
  <2>6. Phases' /\ NeverDeaf' /\ NothingMissed' /\ ScannedOrChanged'
    BY <1>4 DEF Delete, Unlinked, Told, WatchOK, Phases, NeverDeaf, NothingMissed, ScannedOrChanged
  <2> QED BY <2>3, <2>4, <2>5, <2>6
<1>5. CASE Tick /\ Same
  <2>1. FileOK' /\ ConfigOK' /\ Times \subseteq Nat
    BY <1>5 DEF Tick, FileOK, File, ConfigOK, Versions, Times
  <2>2. WatchOK' /\ ModeOK'
    BY <1>5 DEF Tick, WatchOK, ModeOK
  <2>3. Phases' /\ NeverDeaf' /\ NothingMissed' /\ ScannedOrChanged'
    BY <1>5 DEF Tick, Phases, NeverDeaf, NothingMissed, ScannedOrChanged
  <2> QED BY <2>1, <2>2, <2>3
<1>6. CASE CloseUnlinked /\ Same
  <2>1. FileOK' /\ WatchOK' /\ ConfigOK' /\ ModeOK'
    BY <1>6 DEF CloseUnlinked, FileOK, WatchOK, ConfigOK, ModeOK
  <2>2. Phases' /\ NeverDeaf' /\ NothingMissed' /\ ScannedOrChanged'
    BY <1>6 DEF CloseUnlinked, WatchOK, Phases, NeverDeaf, NothingMissed, ScannedOrChanged
  <2> QED BY <2>1, <2>2
<1> QED BY <1>1, <1>2, <1>3, <1>4, <1>5, <1>6 DEF FileStep

LEMMA load_readInv == ASSUME IInv, load_read PROVE IInv'
<1> USE DEF IInv, TypeOK, load_read, Loaded
<1>1. FileOK' /\ WatchOK'
  BY DEF FileOK, WatchOK
<1>2. loading = {} /\ {f.version : f \in file} \subseteq Versions
      /\ \A v \in {f.version : f \in file} : v <= latest
  BY DEF FileOK, ConfigOK, File, Versions
<1>3. ConfigOK'
  <2>1. CASE \E f \in file : f.valid
    BY <1>2, <2>1 DEF ConfigOK
  <2>2. CASE ~ \E f \in file : f.valid
    BY <1>2, <2>2 DEF ConfigOK, Phases
  <2> QED BY <2>1, <2>2
<1>4. ModeOK'
  BY DEF ModeOK, ConfigOK, Phases, PC
<1>5. Phases' /\ NeverDeaf'
  BY <1>2 DEF FileOK, WatchOK, ConfigOK, Phases, NeverDeaf
<1>6. NothingMissed' /\ ScannedOrChanged'
  BY DEF FileOK, WatchOK, ConfigOK, Phases, NothingMissed, ScannedOrChanged
<1> QED BY <1>1, <1>3, <1>4, <1>5, <1>6

LEMMA load_statInv == ASSUME IInv, load_stat PROVE IInv'
<1> USE DEF IInv, TypeOK, load_stat, Loaded
<1>1. FileOK' /\ WatchOK'
  BY DEF FileOK, WatchOK
<1>2. pc = "stat" /\ cause \in {"start", "write", "gone", "mtime"}
  BY DEF ConfigOK, Phases
<1>3. ModeOK'
  BY <1>2 DEF ModeOK, PC
<1>4. Phases' /\ NeverDeaf'
  BY <1>2 DEF WatchOK, ConfigOK, Phases, NeverDeaf
<1>5. CASE file = {}
  <2>1. ConfigOK'
    BY <1>2, <1>5 DEF ConfigOK
  <2>2. NothingMissed' /\ ScannedOrChanged'
    BY <1>2, <1>5 DEF NothingMissed, ScannedOrChanged, Phases
  <2> QED BY <1>1, <1>3, <1>4, <2>1, <2>2
<1>6. CASE file # {}
  <2>1. PICK v \in loading, f \in file : cfg' = [version |-> v, mtime |-> f.mtime]
    BY <1>6
  <2>2. f \in File /\ v \in Versions /\ v <= latest /\ f.mtime \in Times
    BY DEF FileOK, ConfigOK, File
  <2>3. ConfigOK'
    BY <1>2, <1>6, <2>1, <2>2 DEF ConfigOK
  <2>6. f.version = latest /\ cfg.version <= v /\ cfg.version \in Versions
        /\ latest \in Versions /\ \A g \in file : g = f
    BY DEF FileOK, ConfigOK, Phases
  <2>7. NothingMissed'
    <3> SUFFICES ASSUME f.valid, pending = {}, ~ held, ~ unwatched PROVE v = f.version
      BY <2>1, <2>6 DEF NothingMissed
    <3>1. CASE cfg.version = latest
      BY <2>2, <2>6, <3>1 DEF Versions
    <3>2. CASE cfg.version # latest
      BY <1>2, <2>6, <3>2 DEF NothingMissed
    <3> QED BY <3>1, <3>2
  <2>5. ScannedOrChanged'
    BY <1>2, <1>6, <2>1 DEF ScannedOrChanged, Phases
  <2> QED BY <1>1, <1>3, <1>4, <2>3, <2>7, <2>5
<1> QED BY <1>5, <1>6

LEMMA StartInv == ASSUME IInv, Start PROVE IInv'
<1> USE DEF IInv, TypeOK, Start
<1>1. FileOK' /\ WatchOK'
  BY DEF FileOK, WatchOK
<1>2. ConfigOK' /\ ModeOK'
  BY MainLoopAssumption DEF FileOK, WatchOK, ConfigOK, ModeOK, Phases, PC, Versions
<1>3. Phases' /\ NeverDeaf'
  BY DEF WatchOK, ConfigOK, Phases, NeverDeaf
<1>4. NothingMissed' /\ ScannedOrChanged'
  BY DEF FileOK, WatchOK, ConfigOK, Phases, NothingMissed, ScannedOrChanged
<1> QED BY <1>1, <1>2, <1>3, <1>4

LEMMA probeInv == ASSUME IInv, probe PROVE IInv'
<1> USE DEF IInv, TypeOK, probe
<1>1. FileOK' /\ WatchOK'
  BY DEF FileOK, WatchOK
<1>2. ConfigOK' /\ ModeOK'
  BY MainLoopAssumption DEF FileOK, WatchOK, ConfigOK, ModeOK, Phases, PC, Versions
<1>3. Phases' /\ NeverDeaf'
  BY DEF WatchOK, ConfigOK, Phases, NeverDeaf
<1>4. NothingMissed' /\ ScannedOrChanged'
  BY DEF FileOK, WatchOK, ConfigOK, Phases, NothingMissed, ScannedOrChanged
<1> QED BY <1>1, <1>2, <1>3, <1>4

LEMMA init_inotifyInv == ASSUME IInv, init_inotify PROVE IInv'
<1> USE DEF IInv, TypeOK, init_inotify
<1>1. FileOK' /\ WatchOK'
  BY DEF FileOK, WatchOK, Phases
<1>2. ConfigOK' /\ ModeOK'
  BY MainLoopAssumption DEF FileOK, WatchOK, ConfigOK, ModeOK, Phases, PC, Versions
<1>3. Phases' /\ NeverDeaf'
  BY DEF WatchOK, ConfigOK, Phases, NeverDeaf
<1>4. NothingMissed' /\ ScannedOrChanged'
  BY DEF FileOK, WatchOK, ConfigOK, Phases, NothingMissed, ScannedOrChanged
<1> QED BY <1>1, <1>2, <1>3, <1>4

LEMMA read_inotifyInv == ASSUME IInv, read_inotify PROVE IInv'
<1> USE DEF IInv, TypeOK, read_inotify
<1>1. FileOK' /\ WatchOK'
  BY DEF FileOK, WatchOK
<1>2. ConfigOK' /\ ModeOK'
  BY MainLoopAssumption DEF FileOK, WatchOK, ConfigOK, ModeOK, Phases, PC, Versions
<1>3. Phases' /\ NeverDeaf'
  BY DEF WatchOK, ConfigOK, Phases, NeverDeaf
<1>4. NothingMissed' /\ ScannedOrChanged'
  BY DEF FileOK, WatchOK, ConfigOK, Phases, NothingMissed, ScannedOrChanged
<1> QED BY <1>1, <1>2, <1>3, <1>4

LEMMA rewatch_inotifyInv == ASSUME IInv, rewatch_inotify PROVE IInv'
<1> USE DEF IInv, TypeOK, rewatch_inotify
<1>1. FileOK' /\ WatchOK'
  BY DEF FileOK, WatchOK, Phases
<1>2. ConfigOK' /\ ModeOK'
  BY MainLoopAssumption DEF FileOK, WatchOK, ConfigOK, ModeOK, Phases, PC, Versions
<1>3. Phases' /\ NeverDeaf'
  BY DEF WatchOK, ConfigOK, Phases, NeverDeaf
<1>4. NothingMissed' /\ ScannedOrChanged'
  BY DEF FileOK, WatchOK, ConfigOK, Phases, NothingMissed, ScannedOrChanged
<1> QED BY <1>1, <1>2, <1>3, <1>4

LEMMA check_mtimeInv == ASSUME IInv, check_mtime PROVE IInv'
<1> USE DEF IInv, TypeOK, check_mtime, Newer
<1>1. FileOK' /\ WatchOK'
  BY DEF FileOK, WatchOK
<1>2. ConfigOK' /\ ModeOK'
  BY MainLoopAssumption DEF FileOK, WatchOK, ConfigOK, ModeOK, Phases, PC, Versions
<1>3. Phases' /\ NeverDeaf'
  BY DEF WatchOK, ConfigOK, Phases, NeverDeaf
<1>4. NothingMissed' /\ ScannedOrChanged'
  BY DEF FileOK, WatchOK, ConfigOK, Phases, NothingMissed, ScannedOrChanged
<1> QED BY <1>1, <1>2, <1>3, <1>4

LEMMA ebpf_scanInv == ASSUME IInv, ebpf_scan PROVE IInv'
<1> USE DEF IInv, TypeOK, ebpf_scan
<1>1. FileOK' /\ WatchOK'
  BY DEF FileOK, WatchOK
<1>2. [version |-> cfg.version, mode |-> "ebpf"] \in [version : Versions, mode : {"ebpf", "proc"}]
  BY DEF ConfigOK
<1>5. ConfigOK' /\ ModeOK'
  BY <1>2 DEF ConfigOK, ModeOK, PC
<1>3. Phases' /\ NeverDeaf'
  BY DEF WatchOK, ConfigOK, Phases, NeverDeaf
<1>4. NothingMissed' /\ ScannedOrChanged'
  BY DEF FileOK, WatchOK, ConfigOK, Phases, NothingMissed, ScannedOrChanged
<1> QED BY <1>1, <1>5, <1>3, <1>4

LEMMA recvInv == ASSUME IInv, recv PROVE IInv'
<1> USE DEF IInv, TypeOK, recv
<1>1. FileOK' /\ WatchOK'
  BY DEF FileOK, WatchOK
<1>2. ConfigOK' /\ ModeOK'
  BY MainLoopAssumption DEF FileOK, WatchOK, ConfigOK, ModeOK, Phases, PC, Versions
<1>3. Phases' /\ NeverDeaf'
  BY DEF WatchOK, ConfigOK, Phases, NeverDeaf
<1>4. NothingMissed' /\ ScannedOrChanged'
  BY DEF FileOK, WatchOK, ConfigOK, Phases, NothingMissed, ScannedOrChanged
<1> QED BY <1>1, <1>2, <1>3, <1>4

LEMMA disconnectedInv == ASSUME IInv, disconnected PROVE IInv'
<1> USE DEF IInv, TypeOK, disconnected
<1>1. FileOK' /\ WatchOK'
  BY DEF FileOK, WatchOK
<1>2. ConfigOK' /\ ModeOK'
  BY MainLoopAssumption DEF FileOK, WatchOK, ConfigOK, ModeOK, Phases, PC, Versions
<1>3. Phases' /\ NeverDeaf'
  BY DEF WatchOK, ConfigOK, Phases, NeverDeaf
<1>4. NothingMissed' /\ ScannedOrChanged'
  BY DEF FileOK, WatchOK, ConfigOK, Phases, NothingMissed, ScannedOrChanged
<1> QED BY <1>1, <1>2, <1>3, <1>4

LEMMA proc_turnInv == ASSUME IInv, proc_turn PROVE IInv'
<1> USE DEF IInv, TypeOK, proc_turn
<1>1. FileOK' /\ WatchOK'
  BY DEF FileOK, WatchOK
<1>2. [version |-> cfg.version, mode |-> "proc"] \in [version : Versions, mode : {"ebpf", "proc"}]
  BY DEF ConfigOK
<1>5. ConfigOK' /\ ModeOK'
  BY <1>2 DEF ConfigOK, ModeOK, PC
<1>3. Phases' /\ NeverDeaf'
  BY DEF WatchOK, ConfigOK, Phases, NeverDeaf
<1>4. NothingMissed' /\ ScannedOrChanged'
  BY DEF FileOK, WatchOK, ConfigOK, Phases, NothingMissed, ScannedOrChanged
<1> QED BY <1>1, <1>5, <1>3, <1>4

LEMMA ebpf_readerInv == ASSUME IInv, ebpf_reader PROVE IInv'
<1> USE DEF IInv, TypeOK, ebpf_reader
<1>1. FileOK' /\ WatchOK'
  BY DEF FileOK, WatchOK
<1>2. ConfigOK' /\ ModeOK'
  BY MainLoopAssumption DEF FileOK, WatchOK, ConfigOK, ModeOK, Phases, PC, Versions
<1>3. Phases' /\ NeverDeaf'
  BY DEF WatchOK, ConfigOK, Phases, NeverDeaf
<1>4. NothingMissed' /\ ScannedOrChanged'
  BY DEF FileOK, WatchOK, ConfigOK, Phases, NothingMissed, ScannedOrChanged
<1> QED BY <1>1, <1>2, <1>3, <1>4

LEMMA StutterInv == ASSUME IInv, UNCHANGED vars PROVE IInv'
  BY DEF vars, IInv, TypeOK, FileOK, WatchOK, ConfigOK, ModeOK, Phases, NeverDeaf,
         NothingMissed, ScannedOrChanged

-----------------------------------------------------------------------------
(* The theorems.                                                           *)

(* IInv, the strengthening of all four, is an invariant.                   *)
THEOREM Invariance == Spec => []IInv
<1>1. IInv /\ [Next]_vars => IInv'
  BY FileStepInv, load_readInv, load_statInv, StartInv, probeInv, init_inotifyInv,
     read_inotifyInv, rewatch_inotifyInv, check_mtimeInv, ebpf_scanInv, recvInv,
     disconnectedInv, proc_turnInv, ebpf_readerInv, StutterInv
     DEF Next, MainStep
<1> QED BY InitInv, <1>1, PTL DEF Spec

(* The types; in them, that a reader thread is left only in eBPF mode      *)
(* (bpf.rs:54) and that only an open descriptor has events.                *)
THEOREM TypeCorrect == Spec => []TypeOK
<1>1. IInv => TypeOK
  BY DEF IInv
<1> QED BY Invariance, <1>1, PTL

(* While inotify_fd is open the path is watched, or the loop is about to   *)
(* watch it again (main.rs:432), or will be when the programs that have    *)
(* the file open which was there before have closed it.                    *)
THEOREM WatchKept == Spec => []NeverDeaf
<1>1. IInv => NeverDeaf
  BY DEF IInv
<1> QED BY Invariance, <1>1, PTL

(* A configuration written under the watch is in force at the next turn or *)
(* its event is pending, or comes when the file it replaced is closed: the *)
(* gap in load between the contents and the mtime (config.rs:103) loses    *)
(* nothing while inotify works.                                            *)
THEOREM ChangesSeen == Spec => []MissedOnlyUnwatched
<1>1. IInv => MissedOnlyUnwatched
  BY DEF IInv, TypeOK, FileOK, ConfigOK, NothingMissed, MissedOnlyUnwatched, Valid
<1> QED BY Invariance, <1>1, PTL

(* While inotify works no reload takes back the scan an earlier one asked  *)
(* for: at the top of the loop the last scan used the rules in force.      *)
THEOREM ReloadsScanned == Spec => []ScanFollowsReload
<1>1. IInv => ScanFollowsReload
  BY DEF IInv, ScannedOrChanged, ScanFollowsReload
<1> QED BY Invariance, <1>1, PTL
=============================================================================
