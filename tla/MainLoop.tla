------------------------------ MODULE MainLoop ------------------------------
(***************************************************************************)
(* The frame of src/src/main.rs: loading the configuration, noticing its   *)
(* changes through inotify or, after the watch is lost, by the file's      *)
(* mtime, and the turn in either mode, with the fall back from eBPF to     *)
(* polling when the reader thread of src/src/bpf.rs has ended.             *)
(*                                                                         *)
(* The main thread is one process with a program counter; other programs   *)
(* change the configuration file between its system calls.  AppConfig::    *)
(* load is two steps, because it reads the contents first and the mtime    *)
(* last.                                                                   *)
(*                                                                         *)
(* Abstractions.  The contents of the file are a version number, and       *)
(* whether they can be parsed.  What a scan does and what becomes of the   *)
(* events is in EventLoop and ProcPolling: here a full scan only leaves    *)
(* the version whose rules it used, and the events a turn drains from the  *)
(* channel are gone in one step.  The cache file is left out.  A watch     *)
(* that has followed a file moved away is left out, too: it can only       *)
(* cause reloads nobody needs.  read_inotify reads the whole queue; in the *)
(* code what does not fit into 1024 bytes is left for the next turn.       *)
(***************************************************************************)
EXTENDS Naturals

CONSTANTS
    MaxVersion,  \* bound on the versions written to the configuration file
    MaxClock,    \* bound on the clock mtimes are taken from
    ChanBound    \* bound on the events in the channel; the code has none

ASSUME MainLoopAssumption ==
    /\ MaxVersion \in Nat /\ MaxClock \in Nat
    /\ ChanBound \in Nat \ {0}

VARIABLES
    file,            \* the configuration file, {} while there is none
    writing,         \* a program has it open for writing
    latest,          \* the version last written to it
    clock,
    watching,        \* the inotify watch is on the file the path names
    held,            \* it is on one the path no longer names, which a program has open
    pending,         \* the kinds of the events in the inotify queue
    unwatched,       \* the last change was made while there was no watch on the file
    inotify_fd,      \* inotify_fd >= 0
    cfg,             \* version and mtime of the AppConfig in force
    config_changed,
    loading,         \* AppConfig::load: the version read, before the mtime is
    cause,           \* why the configuration is being loaded
    ok,              \* bpf_state.ok
    reader,          \* the reader thread
    chan,            \* the number of events in the channel
    need_full_scan,
    scan_all_proc,
    scanned,         \* the version in force in the last full scan, and the mode
    pc               \* where the main thread is

fileVars == <<file, writing, latest, clock>>
watchVars == <<watching, held, pending, inotify_fd>>
modeVars == <<ok, reader, chan, need_full_scan, scan_all_proc, scanned>>
vars == <<fileVars, watchVars, unwatched, cfg, config_changed, loading, cause, modeVars, pc>>

Versions == 0 .. MaxVersion

Times == 0 .. MaxClock

File == [version : Versions, valid : BOOLEAN, mtime : Times]

PC == {"read", "stat", "probe", "init", "top", "rewatch", "mtime", "turn", "recv", "down"}

(* The file's last state: no version is newer than the last one written.   *)
FileOK ==
    /\ file \subseteq File /\ \A f, g \in file : f = g
    /\ latest \in Versions /\ \A f \in file : f.version = latest
    /\ clock \in Times /\ \A f \in file : f.mtime <= clock
    /\ writing \in BOOLEAN /\ (writing => \E f \in file : ~ f.valid)

(* A watch needs a file and a descriptor, an event a descriptor. *)
WatchOK ==
    /\ inotify_fd \in BOOLEAN
    /\ watching \in BOOLEAN /\ (watching => inotify_fd /\ file # {})
    /\ held \in BOOLEAN /\ (held => inotify_fd /\ ~ watching)
    /\ pending \subseteq {"write", "gone"} /\ (pending # {} => inotify_fd)
    /\ unwatched \in BOOLEAN

(* A version is in hand just between the two steps of load. *)
ConfigOK ==
    /\ cfg \in [version : Versions, mtime : Times] /\ cfg.version <= latest
    /\ loading \subseteq Versions /\ \A v \in loading : v <= latest
    /\ loading # {} <=> pc = "stat"
    /\ cause \in {"start", "write", "gone", "mtime", "none"}
    /\ config_changed \in BOOLEAN

(* There is a reader thread to join in eBPF mode only. *)
ModeOK ==
    /\ ok \in BOOLEAN
    /\ reader \in {"none", "running", "ended"} /\ (reader = "none" <=> ~ ok)
    /\ chan \in 0 .. ChanBound
    /\ need_full_scan \in BOOLEAN /\ scan_all_proc \in BOOLEAN
    /\ scanned \subseteq [version : Versions, mode : {"ebpf", "proc"}]
    /\ pc \in PC

TypeOK == FileOK /\ WatchOK /\ ConfigOK /\ ModeOK

Init ==
    /\ file \in {{[version |-> 0, valid |-> v, mtime |-> 0]} : v \in BOOLEAN}
    /\ writing = FALSE /\ latest = 0 /\ clock = 0
    /\ watching = FALSE /\ held = FALSE /\ pending = {} /\ unwatched = TRUE /\ inotify_fd = FALSE
    /\ cfg = [version |-> 0, mtime |-> 0]
    /\ config_changed = FALSE /\ loading = {} /\ cause = "start"
    /\ ok = FALSE /\ reader = "none"
    /\ chan = 0 /\ need_full_scan = TRUE /\ scan_all_proc = TRUE /\ scanned = {}
    /\ pc = "read"

Goto(label) == pc' = label

-----------------------------------------------------------------------------
(* Other programs change the configuration file.                           *)

(* inotify is told of a change at once, or when the file it still watches  *)
(* is closed.                                                              *)
Told == watching \/ held

(* A program opens the file, which truncates or creates it ... *)
WriteBegin ==
    /\ ~ writing /\ latest < MaxVersion
    /\ file' = {[version |-> latest, valid |-> FALSE, mtime |-> clock]}
    /\ writing' = TRUE
    /\ UNCHANGED <<latest, clock, watchVars, unwatched>>

(* ... and closes it, with contents that can be parsed or not. *)
WriteEnd ==
    /\ writing
    /\ latest' = latest + 1
    /\ \E valid \in BOOLEAN :
          file' = {[version |-> latest', valid |-> valid, mtime |-> clock]}
    /\ writing' = FALSE
    /\ pending' = (IF watching THEN pending \cup {"write"} ELSE pending)
    /\ unwatched' = ~ Told
    /\ UNCHANGED <<clock, watching, held, inotify_fd>>

(* The path no longer names the file.  IN_DELETE_SELF comes when no program*)
(* has it open any more: one that is writing it has.                       *)
Unlinked ==
    /\ writing' = FALSE /\ watching' = FALSE
    /\ held' \in (IF ~ watching THEN {held} ELSE IF writing THEN {TRUE} ELSE BOOLEAN)
    /\ pending' = (IF watching /\ ~ held' THEN pending \cup {"gone"} ELSE pending)
    /\ unwatched' = ~ Told

(* A file is renamed to the path and keeps its mtime. *)
Replace ==
    /\ latest < MaxVersion
    /\ latest' = latest + 1
    /\ \E mtime \in 0 .. clock :
          file' = {[version |-> latest', valid |-> TRUE, mtime |-> mtime]}
    /\ Unlinked
    /\ UNCHANGED <<clock, inotify_fd>>

Delete ==
    /\ latest < MaxVersion /\ file # {}
    /\ file' = {}
    /\ Unlinked
    /\ UNCHANGED <<latest, clock, inotify_fd>>

(* A program closes the file that the path no longer names, having written *)
(* to it or not, or the last one does.                                     *)
CloseUnlinked ==
    /\ held
    /\ \/ pending' = pending \cup {"write"} /\ UNCHANGED held
       \/ pending' = pending \cup {"gone"} /\ held' = FALSE
    /\ UNCHANGED <<fileVars, watching, inotify_fd, unwatched>>

Tick ==
    /\ clock < MaxClock
    /\ clock' = clock + 1
    /\ UNCHANGED <<file, writing, latest, watchVars, unwatched>>

FileStep ==
    /\ WriteBegin \/ WriteEnd \/ Replace \/ Delete \/ CloseUnlinked \/ Tick
    /\ UNCHANGED <<cfg, config_changed, loading, cause, modeVars, pc>>

-----------------------------------------------------------------------------
(* AppConfig::load, called by main and by hot_reload.                      *)

(* What follows the load, and what it is worth: main gives up without a    *)
(* configuration, a reload's result goes to config_changed.                *)
Loaded(result) ==
    /\ Goto(CASE cause = "start" -> IF result THEN "probe" ELSE "down"
              [] cause = "write" -> "mtime"
              [] cause = "gone"  -> "rewatch"
              [] cause = "mtime" -> "turn")
    /\ config_changed' = (cause # "start" /\ result)

load_read ==
    /\ pc = "read"
    /\ IF \E f \in file : f.valid
       THEN /\ loading' = {f.version : f \in file}
            /\ Goto("stat")
            /\ UNCHANGED config_changed
       ELSE /\ Loaded(FALSE)
            /\ UNCHANGED loading
    /\ UNCHANGED <<fileVars, watchVars, unwatched, cfg, cause, modeVars>>

(* The mtime, and with it the new AppConfig: none if the file has gone. *)
load_stat ==
    /\ pc = "stat"
    /\ IF file = {}
       THEN /\ Loaded(FALSE)
            /\ UNCHANGED cfg
       ELSE /\ Loaded(TRUE)
            /\ \E v \in loading, f \in file : cfg' = [version |-> v, mtime |-> f.mtime]
    /\ loading' = {}
    /\ UNCHANGED <<fileVars, watchVars, unwatched, cause, modeVars>>

(* bpf::probe succeeds, with a reader thread, or leaves polling. *)
probe ==
    /\ pc = "probe"
    /\ ok' \in BOOLEAN
    /\ reader' = (IF ok' THEN "running" ELSE "none")
    /\ Goto("init")
    /\ UNCHANGED <<fileVars, watchVars, unwatched, cfg, config_changed, loading, cause, chan,
                   need_full_scan, scan_all_proc, scanned>>

(* The service, or the user, starts the daemon again. *)
Start ==
    /\ pc = "down"
    /\ Goto("read")
    /\ UNCHANGED <<fileVars, watchVars, unwatched, cfg, config_changed, loading, cause,
                   modeVars>>

-----------------------------------------------------------------------------
(* The configuration watch.                                                *)

(* Without a file to watch there is no watch, for good. *)
init_inotify ==
    /\ pc = "init"
    /\ inotify_fd' = (file # {}) /\ watching' = (file # {})
    /\ cause' = "none"
    /\ Goto("top")
    /\ UNCHANGED <<fileVars, held, pending, unwatched, cfg, config_changed, loading, modeVars>>

(* Faulty variant of read_inotify: an event of the file's end is only a    *)
(* reason to load it again.                                                *)
read_inotify_write ==
    /\ pc = "top"
    /\ pending' = {}
    /\ cause' = (IF pending = {} THEN "none" ELSE "write")
    /\ config_changed' = FALSE
    /\ Goto(IF pending = {} THEN "mtime" ELSE "read")
    /\ UNCHANGED <<fileVars, watching, held, inotify_fd, unwatched, cfg, loading, modeVars>>

(* Faulty variant of read_inotify: only the file's end matters.            *)
read_inotify_gone ==
    /\ pc = "top"
    /\ pending' = {}
    /\ cause' = (IF "gone" \in pending THEN "gone" ELSE "none")
    /\ config_changed' = FALSE
    /\ Goto(IF "gone" \in pending THEN "read" ELSE "mtime")
    /\ UNCHANGED <<fileVars, watching, held, inotify_fd, unwatched, cfg, loading, modeVars>>

(* The top of the loop: read_inotify empties the queue. *)
read_inotify ==
    /\ pc = "top"
    /\ pending' = {}
    /\ cause' = (IF pending = {} THEN "none"
                 ELSE IF "gone" \in pending THEN "gone" ELSE "write")
    /\ config_changed' = FALSE
    /\ Goto(IF pending = {} THEN "mtime" ELSE "read")
    /\ UNCHANGED <<fileVars, watching, held, inotify_fd, unwatched, cfg, loading, modeVars>>

(* After the reload: the path may name no file by now. *)
rewatch_inotify ==
    /\ pc = "rewatch"
    /\ watching' = (file # {}) /\ inotify_fd' = (file # {})
    /\ Goto("mtime")
    /\ UNCHANGED <<fileVars, held, pending, unwatched, cfg, config_changed, loading, cause,
                   modeVars>>

Newer == \E f \in file : f.mtime > cfg.mtime

(* Faulty variant of check_mtime: nothing but inotify is relied on.        *)
check_mtime_never ==
    /\ pc = "mtime"
    /\ Goto("turn")
    /\ UNCHANGED <<fileVars, watchVars, unwatched, cfg, config_changed, loading, cause, modeVars>>

(* Without inotify the mtime decides; its reload overwrites the result of  *)
(* the one before.                                                         *)
check_mtime ==
    /\ pc = "mtime"
    /\ IF ~ inotify_fd /\ Newer
       THEN Goto("read") /\ cause' = "mtime"
       ELSE Goto("turn") /\ UNCHANGED cause
    /\ UNCHANGED <<fileVars, watchVars, unwatched, cfg, config_changed, loading, modeVars>>

-----------------------------------------------------------------------------
(* The turn.                                                               *)

(* Faulty variant of ebpf_scan: a reload is no reason for a scan.          *)
ebpf_scan_first ==
    /\ pc = "turn" /\ ok
    /\ IF need_full_scan
       THEN scanned' = {[version |-> cfg.version, mode |-> "ebpf"]} /\ need_full_scan' = FALSE
       ELSE UNCHANGED <<scanned, need_full_scan>>
    /\ Goto("recv")
    /\ UNCHANGED <<fileVars, watchVars, unwatched, cfg, config_changed, loading, cause, ok,
                   reader, chan, scan_all_proc>>

(* comm_map_init and full_scan. *)
ebpf_scan ==
    /\ pc = "turn" /\ ok
    /\ IF config_changed \/ need_full_scan
       THEN scanned' = {[version |-> cfg.version, mode |-> "ebpf"]} /\ need_full_scan' = FALSE
       ELSE UNCHANGED <<scanned, need_full_scan>>
    /\ Goto("recv")
    /\ UNCHANGED <<fileVars, watchVars, unwatched, cfg, config_changed, loading, cause, ok,
                   reader, chan, scan_all_proc>>

(* recv_timeout: the events there are, or one second without any. *)
recv ==
    /\ pc = "recv" /\ (chan > 0 \/ reader = "running")
    /\ chan' = 0
    /\ Goto("top")
    /\ UNCHANGED <<fileVars, watchVars, unwatched, cfg, config_changed, loading, cause, ok,
                   reader, need_full_scan, scan_all_proc, scanned>>

(* Faulty variant of disconnected: eBPF mode goes on without events.       *)
disconnected_ignored ==
    /\ pc = "recv" /\ chan = 0 /\ reader = "ended"
    /\ need_full_scan' = TRUE
    /\ Goto("top")
    /\ UNCHANGED <<fileVars, watchVars, unwatched, cfg, config_changed, loading, cause, ok,
                   reader, chan, scan_all_proc, scanned>>

(* Faulty variant of disconnected: the reader thread is not joined.        *)
disconnected_unjoined ==
    /\ pc = "recv" /\ chan = 0 /\ reader = "ended"
    /\ ok' = FALSE
    /\ need_full_scan' = TRUE
    /\ Goto("top")
    /\ UNCHANGED <<fileVars, watchVars, unwatched, cfg, config_changed, loading, cause, reader,
                   chan, scan_all_proc, scanned>>

(* The channel is empty and its sender gone: Drop joins the reader thread, *)
(* and polling takes over.                                                 *)
disconnected ==
    /\ pc = "recv" /\ chan = 0 /\ reader = "ended"
    /\ ok' = FALSE /\ reader' = "none"
    /\ need_full_scan' = TRUE
    /\ Goto("top")
    /\ UNCHANGED <<fileVars, watchVars, unwatched, cfg, config_changed, loading, cause, chan,
                   scan_all_proc, scanned>>

(* A turn of polling: whether the next scan is a full one again, and when  *)
(* it is made, depends on the processes there are.                         *)
proc_turn ==
    /\ pc = "turn" /\ ~ ok
    /\ IF config_changed \/ scan_all_proc
       THEN /\ scanned' = {[version |-> cfg.version, mode |-> "proc"]}
            /\ scan_all_proc' \in BOOLEAN
       ELSE UNCHANGED <<scanned, scan_all_proc>>
    /\ Goto("top")
    /\ UNCHANGED <<fileVars, watchVars, unwatched, cfg, config_changed, loading, cause, ok,
                   reader, chan, need_full_scan>>

-----------------------------------------------------------------------------
(* The reader thread: it sends an event, or ends, because epoll fails.     *)

ebpf_reader ==
    /\ reader = "running"
    /\ \/ chan < ChanBound /\ chan' = chan + 1 /\ UNCHANGED reader
       \/ reader' = "ended" /\ UNCHANGED chan
    /\ UNCHANGED <<fileVars, watchVars, unwatched, cfg, config_changed, loading, cause, ok,
                   need_full_scan, scan_all_proc, scanned, pc>>

MainStep ==
    \/ load_read \/ load_stat
    \/ probe \/ init_inotify \/ read_inotify \/ rewatch_inotify \/ check_mtime
    \/ ebpf_scan \/ recv \/ disconnected \/ proc_turn

Next == FileStep \/ ebpf_reader \/ Start \/ MainStep

Spec == Init /\ [][Next]_vars

(* The main thread runs; recv_timeout returns. *)
Fairness == WF_vars(MainStep)

FairSpec == Spec /\ Fairness

-----------------------------------------------------------------------------
(* Properties.                                                             *)

(* The watch is never lost unnoticed: while the descriptor is open, it is  *)
(* on the file the path names, or an event says that it is not (or is just *)
(* being handled), so that the path is watched again.  Or it is on a file  *)
(* that is no longer named but that some program has open: then the event  *)
(* comes when it is closed, and not before.                                *)
NeverDeaf ==
    inotify_fd => \/ watching
                  \/ held
                  \/ "gone" \in pending
                  \/ cause = "gone" /\ pc \in {"read", "stat", "rewatch"}

(* At the top of the loop a configuration that can be parsed is in force,  *)
(* or an event of it is pending, or will be when the file it replaced is   *)
(* closed, unless the last change was made while nothing watched a file:   *)
(* between load and init_inotify (main.rs:304), between the end of the     *)
(* file and rewatch_inotify (main.rs:312), or after inotify has been given *)
(* up.                                                                     *)
Valid(v) == \E f \in file : f.valid /\ f.version = v

MissedOnlyUnwatched ==
    \A v \in Versions :
        pc = "top" /\ Valid(v) /\ cfg.version # v => pending # {} \/ held \/ unwatched

(* A changed file that the loop can know of at the top of a turn, by an    *)
(* event or by its mtime, is loaded, or changes again.                     *)
Noticeable(v) == Valid(v) /\ (pending # {} \/ (~ inotify_fd /\ Newer))

ChangeLoaded ==
    \A v \in Versions :
        pc = "top" /\ Noticeable(v) /\ cfg.version # v ~> cfg.version = v \/ ~ Valid(v)

(* The rules a reload has put in force have been scanned for by the end of *)
(* the turn, in either mode, as long as inotify works.  (Without it the    *)
(* second reload of a turn may fail and take back the first one's scan:    *)
(* main.rs:318.)                                                           *)
ScanFollowsReload ==
    pc = "top" /\ inotify_fd => \A s \in scanned : s.version = cfg.version

(* When the reader thread has ended, polling starts with a full scan: what *)
(* happened to the processes since the last event is made up for.          *)
FallbackCovers == reader = "ended" ~> \E s \in scanned : s.mode = "proc"
=============================================================================
