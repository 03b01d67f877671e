# A verification project for Aether OptExt

Aether OptExt binds the threads of Android applications to CPUs. It is a daemon
(`src/src/*.rs`) with four eBPF tracepoint programs (`src/ebpf/src/main.rs`). A JSON file
says which package, and which thread of it by name, runs on which CPUs. The daemon finds
the packages' processes, sets the affinity of their threads, and keeps them bound while
processes and threads come, change their names and go. With eBPF it is driven by kernel
events; without, it polls `/proc`.

This directory holds TLA+ modules that model the daemon, the TLC configurations that check
them on small instances, and TLAPS proofs for all values of the constants. Paths below are
relative to the repository, lines are those of the modelled commit.

## The system

| Component | State | Operations | What makes it correct |
|---|---|---|---|
| Rule engine (`rule_match.rs`, `config.rs`) | none | `thread_affinity`, `pkg_has_thread_rules` | thread rules come before package rules; the cpuset directory fits the mask |
| Process cache (`proccache.rs`) | `pkgs`, `tasks` | `task_apply`, `task_del`, `pkg_lookup_comm`, `affinity_sync`, `clear` | every entry stands for a live thread and follows from the rules in force |
| eBPF programs (`ebpf/src/main.rs`) | `APPLIED_MAP`, `TARGET_COMM_MAP`, `EVENTS` | fork, exec, rename, exit | what happens to a bound thread or a watched name is reported |
| Reader (`bpf.rs`) | the channel | `ebpf_reader` | order is kept; its end is noticed |
| Main loop, eBPF mode (`main.rs`) | `cfg`, `need_full_scan` | reload, `comm_map_init`, `full_scan`, `event_dispatch`, timer | no running application is missed; nothing stale is kept |
| Main loop, polling mode (`main.rs`) | `ProcState` | `proc_cache_sync`, timer | a full scan misses nothing that runs; the dead go |
| Configuration (`config.rs`, `main.rs`) | the file, its mtime, the watch | `load`, inotify, mtime polling | a change the loop can know of is loaded, and scanned for |
| Auto-assignment (`config.rs`, `process.rs`) | `threads_cache`, `rules` | `scan_unknown`, `save`, `merge` | one entry per package; merged entries disturb nothing |
| Binding (`process.rs`, `cpuset.rs`) | kernel masks, cpusets | `affinity_set` | a bound thread runs on its CPUs |
| Names (`bpf.rs`, `ebpf/src/main.rs`, `config.rs`) | none | `comm_keys_build`, `whitelist_matched`, `comm_to_pkg`, `fnmatch` | what the daemon recognises the kernel reports |
| CPUs (`cpuset.rs`, `cpu.rs`) | topology | `CpuSet`, list printing and parsing, `detect`, `detect_core_types` | printing then parsing is the identity; clusters are disjoint |
| Start (`bpf.rs`) | mode | `probe` | a mode is chosen |

**Who talks to whom.** The tracepoint programs run in the context of whatever thread forks,
execs, renames or exits. They read the whitelist `TARGET_COMM_MAP` and the marks
`APPLIED_MAP`, which the main thread writes, and they mark the children of marked threads
themselves. They put events in `EVENTS`; the reader thread moves them to an unbounded mpsc
channel; the main thread takes them out, looks up the process's package and binds the
thread. It also reads `/proc` (in eBPF mode at start and after each reload, in polling mode
whenever it believes that something has changed) and calls `sched_setaffinity`. When the
reader ends, the main loop sees the channel disconnected and goes on in polling mode. Other
programs write, replace and delete the configuration file; in polling mode the daemon
itself rewrites the cache file and appends what it holds to the rules.

**What is hard.** There is no lock across these parties: each read of `/proc`, each map
operation and each system call of the daemon interleaves with the steps of all tasks and of
whoever edits the configuration. Events describe the past, so that the thread they speak of
may have died, exec'd or been renamed, and its tid may belong to a new one. `EVENTS` drops
when full; `APPLIED_MAP` evicts when full. The periodic `affinity_sync` is the only remedy
for both. A watch is lost with the file it is on, but the daemon hears of that only when the
last program has closed it; and a change made before there is a new watch is noticed by the
mtime or not at all. A turn may reload twice, and the second reload overwrites the result of
the first: new rules may be in force with nothing scanned for them. PROJECT.json lists each
hazard with its line and the properties about it.

## The modules

| Module | Models | Extends |
|---|---|---|
| `RuleMatch` | `rule_match.rs`, `pkg_has_thread_rules`, `ensure_cpuset_dir` | |
| `Bindings` | abstract: what the daemon promises of its bindings in either mode | `RuleMatch` |
| `ProcCache` | the cache's two maps and its operations, `comm_to_pkg` | `RuleMatch` |
| `Tracepoints` | the kernel's tasks, the four programs, the maps, `EVENTS` | `ProcCache` |
| `EventLoop` | the reader and the main thread in eBPF mode; composed with `Tracepoints` | `Tracepoints` |
| `AutoCache` | `load`'s rules, `merge`, `save`, `scan_unknown`'s choice, `est_load` | `RuleMatch` |
| `ProcPolling` | the polling mode with its system, the cache file and restarts | `ProcCache`, `AutoCache` |
| `MainLoop` | start, `load` against writers, the watch, the turn in both modes, the fallback | |
| `NameMatch` | keys, windows, `comm_to_pkg` and `fnmatch` over sequences of bytes | |
| `CpuTopology` | CPU sets and lists, the clusters | |
| `MCEventLoop`, `MCPolling`, `MCAlgorithms` | instances: names, files, initial tasks, bounds; all small inputs | `EventLoop`; `ProcPolling`; `NameMatch`, `CpuTopology` |
| `RuleMatch_proofs`, `Tracepoints_proofs`, `EventLoop_proofs`, `ProcPolling_proofs`, `MainLoop_proofs` | theorems and proofs | the module of the name |
| `NameMatch_proofs`, `CpuTopology_proofs` | theorems and proofs about names, about CPU lists and clusters | `MCAlgorithms` |
| `LiveBinding_proofs` | live threads of the eBPF mode: bindings are kept, processes are covered | `EventLoop_proofs` |

`EventLoop` and `ProcPolling` are the two modes in full; `MainLoop` is the frame around
them, in which a scan is a single step that leaves the version of the rules it used.
`Bindings` is what the two have in common: both are shown to implement it.

### How state and actions correspond to the code

*Data.* Package names, thread names and patterns are members of `Names`; what matches what
is the constant operator `fnmatch`. A CPU list is the set of CPUs it parses to, and a
cpuset directory, which the code names after the CPU list it prints, is that set (`{}` is
the empty name, which stands for the base directory). `CpuTopology` justifies this: printed
lists are canonical and parse to the set they were printed from. A Rust `HashMap` is a
function with a finite domain. A Rust `Option` is a set with at most one element. Whether a
comm, cut to 15 bytes, may belong to a package is the relation `CommPkgs`; the nine 8-byte
windows the kernel looks up are `Windows[comm]`, and the keys `comm_keys_build` makes are
`KeysOf[pkg]`. A window may match the key of a package the comm does not belong to:
`apphelper` does in the instances. `NameMatch` has the strings behind these relations.

*The main thread in eBPF mode* is a process with a program counter `pc` (`top`, `whitelist`,
`fill`, `clear`, `unmark`, `list`, `scan`, `recv`, `timer`, `sync`). Each action is what the
code does from one observable access to kernel state to the next: `full_scan_list` reads the
process list, `full_scan_process` one `/proc/<pid>/task`, `full_scan_thread` one comm and
one `sched_setaffinity`, `Commit` the `APPLIED_MAP` insert. `job` holds the arguments of a
`task_apply` between `sched_setaffinity` and `applied_set`; while it is not empty only
`Commit` continues the main thread. Loops over a collection read in one go (`todo`,
`targets`) visit its members in any order, as `read_dir` and `HashMap` do.

A turn begins with what the loop does about the file, at `top`: `KeepConfig` (nothing, or a
reload that failed), `hot_reload` (new rules, then `whitelist` and the scan), or
`hot_reload_unscanned` (`main.rs:310-318`): the file was replaced, the reload succeeded, the
new watch failed because the file is away again, and the second reload, which the mtime
asks for, fails and resets `config_changed`. Then `cfg` is new, and the whitelist, the cache
and the marks are those of the old rules. This can happen only with an inotify descriptor, and
costs it; `inotify_fd` says whether there is one. What a run cannot see, the file itself, is
in `MainLoop`, which has the same path in single steps.

*In polling mode* (`ProcPolling`) the counter runs `start`, `top`, `count`, `list`, `scan`,
`timer`, `sync`, `cache`, `comms`, `save`, `merge`. `check_count` is the decision of
`proc_cache_sync`: rescan, or only force the affinities, or neither. `rescan_list`,
`rescan_process`, `rescan_thread`, `rescan_package` and `rescan_end` are the rescan, and
`hot_reload_unscanned` is the reload without one; `affinity_sync_thread` is `affinity_set`
with its early return, the move to a cpuset and what the cpuset leaves of the mask.
`scan_unknown`, which looks at the pids from `MIN_USER_PID` on (`UserPids`) only,
`scan_unknown_comms`, `save_truncate`, `save_write` and `cache_merge` are the
auto-assignment; `fs::write` truncates before it writes, so it is two steps with a possible
`Restart` in between. `sysinfo` counts threads, not processes, and so does `procs`.

*The frame* (`MainLoop`) runs `read`, `stat`, `probe`, `init`, `top`, `rewatch`, `mtime`,
`turn`, `recv`, `down`. `load` is two steps, the contents and then the mtime; `cause` is the
caller it returns to. The file has a version, which counts its changes, and is valid or
not: `WriteBegin` truncates it, `WriteEnd` closes it, `Replace` renames another file to its
path (with any older mtime), `Delete` removes it. Of a file that is replaced or deleted
inotify tells when nobody has it open any more (`Unlinked`): until then `held` says that the
descriptor is on a file the path no longer names, and `CloseUnlinked` is a program closing it,
after which there may be another. A program that was writing has it open, and any other may.
`unwatched` is a history variable.

*Algorithms.* In `NameMatch` a name is a sequence of bytes, `KeyLen` is 8 in the code and a
comm has `2 * KeyLen - 1` bytes at most. In `CpuTopology` a word of a `CpuSet` is the set of
its bits, and a list is the sequence of its parts; `CPU_FILES` is the 128 of `cpu.rs:37`. A
loop whose order matters (`Printed`, `Listed`, `Grouped`) is a recursive function of the
number of its rounds; one that only sets bits is a union. `'*'` is the one wildcard of
`fnmatch`; `AnyByte` is a `?`, which the documentation has and `fnmatch` does not. In the
inputs of `detect` the CPUs of the policies and those of none (offline, or with a frequency
that cannot be read as a number) come in any order, so that a missing file may end the
search of `cpu.rs:40` before a CPU that is online. In `MCAlgorithms` a state is an input and
a step makes it longer, so that TLC visits each input up to the bounds.

*Coarser than the code.* Listing `/proc` with the command lines is one step, and so are the
removal of all old whitelist keys, the insertion of all new ones and the removal of the
listed marks. In `full_scan_thread` the comm is read in the step that binds; a rename
between the two is a rename after it. `affinity_sync` deletes the dead threads' entries and
marks in one step. The reader forwards one event at a time, and there is always room for it
in the channel of the code; `ChanBound` bounds it in the model, where a full channel delays
the reader only. `read_dir("/proc")` succeeds. In `ProcPolling` the command line and the
thread ids of a process are read together, `sysinfo` with all `kill(pid, 0)` is one step,
and so is `affinity_set`; of the clock and the turn counter it only matters that they may
have come to their limit. In `MainLoop` the events a turn drains go in one step, and
`read_inotify` takes the whole queue, where the code reads 1024 bytes (`main.rs:416`), some
64 events, and leaves the rest to the next turn. In `EventLoop`, `affinity_set` is the mask
alone: the move to a cpuset and what that leaves of a mask (`process.rs:206-217`) are in
`ProcPolling`, so that what is said of masks in eBPF mode is said of a system without
cpusets or with wide enough ones. The new comm of `task_rename` is taken as padded with
NULs, which the kernel does not promise of the bytes after the name's end; a whitelist key
shorter than 8 bytes, that is one of a name shorter than a key, may then miss its window.

*The kernel* (external) is modelled from what the programs read: a thread starts with its
parent's name and affinity, a tid is reused once nothing holds it, only a single-threaded
process execs, and exec renames the main thread before the exec tracepoint runs. The events
`SetArgV0` (an application process forked from the zygote takes its package name) and
`ResetAffinity` (something else resets a mask), or `MoveAway` (the framework moves a thread
to another cpuset), are there because the daemon exists for them. `QuickReuse = FALSE` keeps
a tid from coming round while the daemon is still busy with it, which is how the kernel's
cyclic allocation behaves; `TRUE` drops that restriction, and `ProcPolling` never makes it.
`LiveBindingKept` and `ProcessCovered` are stated for `FALSE`: with a tid that comes round
before its EXIT is handled (`main.rs:71`) the code does undo a new thread's binding.

*History variables.* `lost` is the set of tids of which no EXIT came: the mark was evicted,
the EXIT was dropped, or the mark was set when the thread was gone (`main.rs:43`). `dropped`
is the set of tids an event of which was lost, or spent on a package that gets no CPUs, and
no scan has made up for it. `scan_cfg` is the configuration the last full scan started from,
and `unwatched` says that the last change of the file was made while nothing watched it. No
action of the program reads them; properties use them to say precisely what is promised when
something is lost. A scan makes up for what was lost before it, with one exception that the
proof of `ProcessCovered` brought to light: an EXEC report of a name that is not a package's
(`Undoing`) may still be under way when the scan begins. If the process took a configured
name after that exec, and the kernel dropped or did not send the report of that (the
whitelist may just have been rewritten), the scan binds the process, and the old report,
handled afterwards, makes the daemon forget it (`main.rs:74`). So `full_scan_list` leaves in
`dropped` the tids of such reports, and only a later scan clears them.

## What the runs check

| Run | Properties | States | Bounds |
|---|---|---|---|
| `EbpfSafety` | `TypeOK`, `NoBlindBinding`, `ConfigCoherent`, `CpusetDirAgrees`, `ThreadBindingKept`, `ImplementsBindings` | 773 k | 2 tids, an application with a thread at start, 4 kernel steps and reloads, 1 of them a reload, `EVENTS` 2, `APPLIED_MAP` 1, whitelist 1, two configurations, quick reuse, cross-thread renames |
| `EbpfCoverage` | `ProcessCovered`, `LiveBindingKept` | 2.6 M | 3 tids, the zygote, the application or a service process of it at start, 3 kernel steps and reloads, 1 of them a reload, `EVENTS` 2, `APPLIED_MAP` 2, whitelist 3, two configurations, of which one gives the service process rules of its own |
| `EbpfLiveness` | `DeadPurged`, `AffinityRestored` | 200 k | 2 tids, 4 kernel steps, `EVENTS` 1, `APPLIED_MAP` 1, fairness |
| `Polling` | `TypeOK`, `CacheFollowsRules`, `OneEntryPerPackage`, `FullScanFinds`, `UnknownLearned`, `DeadForgotten`, `MaskRestored`, `ImplementsBindings` | 190 k | 2 tids, both with pids of users' processes (which two processes of one application need to be learned together), the zygote or the application with a thread at start, 3 system steps, 1 reload or restart, `Jump` 1 (11 in the code), two files, an unconfigured user application, fairness |
| `MainLoop` | `TypeOK`, `NeverDeaf`, `MissedOnlyUnwatched`, `ScanFollowsReload`, `ChangeLoaded`, `FallbackCovers` | 418 k | 3 changes of the file, 3 clock values, 1 event in the channel, fairness |
| `Algorithms` | `RecognisedIsReported`, `OwnCommRecognised`, `OneStarMatches`, `ListRoundTrip`, `ListCanonical`, `ClustersSound`, `TopologiesAgree` | 311 k | two bytes, keys of 2 and comms of 3 bytes, names of 5, patterns and names of 4, 4 words of 2 CPUs, 3 policies of up to 2 CPUs and 3 frequencies, 2 CPUs offline or without a frequency |
| `ScanRace` | `EveryThreadBound` (violated) | | 3 tids |
| `StalePackage` | `BoundByOwnPackage` (violated) | | 2 tids, 5 kernel steps, two applications |
| `ThreadName` | `NamedThreadBound` (violated) | | 2 tids, 2 kernel steps |
| `AppFound` | `AppFound` (violated) | | 2 tids, 2 system steps, fairness |
| `SecondPackage` | `EveryPackageBound` (violated) | | 2 tids, 2 system steps |
| `Patterns` | `QuestionMarkMatches` (violated) | | patterns of 2 bytes, names of 1 |

The eBPF mode:

* `NoBlindBinding`: the exit of each bound thread will reach the daemon, because the thread
  runs and is marked or its EXIT is under way. Only `affinity_sync` is left to find it in
  three cases, which `lost` records: eviction, a full `EVENTS`, and the exit between mask and
  mark. `DeadPurged` says that it does. An error in the order of mark and entry, or in who
  removes a mark, breaks `NoBlindBinding`.
* `ConfigCoherent`: once a scan has begun, what is cached and bound follows from the rules in
  force. Once the inotify descriptor is lost, and with it perhaps a scan, it may follow
  from those of the last scan instead, but from none older; what is being bound or still to be
  scanned follows from the rules in force even then.
* `CpusetDirAgrees`: the directory a thread is put in never has fewer CPUs than its mask.
* `ThreadBindingKept`: only a rescan, an EXIT or EXEC event or a failed binding ends a thread
  rule binding; a late FORK or a rename back never replaces it by a fallback.
* `LiveBindingKept`: no late exit, no purge of a dead thread and no event of another thread
  undoes the binding of a live one (while tids are not reused at once).
* `ProcessCovered`: when all events are handled, each process with the name of a configured
  package is bound, whether it took that name before, during or after the whitelist rewrite
  or the scan, and whatever was lost of other threads, unless its own tid is in `dropped`, or
  the rules are newer than the last scan.
* `DeadPurged`: entries of dead threads go away even if the mark was evicted or the EXIT
  dropped, or the thread ended before it was marked. `AffinityRestored`: a mask reset by
  something else is set again.

The polling mode:

* `CacheFollowsRules`: outside a rescan each entry has a cached process and follows from the
  rules of its package at the last rescan, all entries from the same rules; unless the inotify
  descriptor is lost, and with it perhaps a rescan, they follow from the rules in force, too,
  although `merge` appends rules without a rescan.
* `OneEntryPerPackage`: the cache file, complete or being written, names no package twice.
* `FullScanFinds`: a full scan binds every configured application that runs on meanwhile. When
  there is one is the subject of `AppFound`.
* `UnknownLearned`: an application without rules that keeps running gets some, if its pid is
  not below `MIN_USER_PID`, even if the daemon is killed between truncating and writing the
  cache file.
* `DeadForgotten`: entries of dead threads go away. `MaskRestored`: with cpusets, a thread
  moved to a cpuset without its CPUs gets them back. It says nothing of the cpuset the thread
  ends in: when the mask is right, `affinity_set` leaves it where it is.

The frame:

* `NeverDeaf`: an open inotify descriptor watches the file the path names, or an event tells
  that it does not, or it is on a replaced file that some program has open (`held`). In that
  case there is no event yet: the daemon is deaf to the new file until the old one is closed.
* `MissedOnlyUnwatched`: a valid configuration that is not in force has an event pending, or
  will when the file it replaced is closed, or was written while there was no watch.
* `ScanFollowsReload`: as long as inotify works, new rules are scanned for in the turn that
  loads them, in either mode.
* `ChangeLoaded`: a change with an event or a newer mtime is loaded. `FallbackCovers`: when
  the reader has ended, a full scan in polling mode follows.

Algorithms:

* `RecognisedIsReported`: the windows of a comm that `comm_to_pkg` recognises contain a key of
  the whitelist. `OwnCommRecognised`: either end of a package's name is recognised as a
  package with such an end.
* `OneStarMatches`: a pattern whose only wildcard is one star, or that has none, means what
  patterns mean; the two sides of the star may not overlap. Of other wildcards
  `QuestionMarkMatches` says what is documented and not kept.
* `ListRoundTrip`, `ListCanonical`: parsing undoes printing, and equal sets print alike, also
  across word boundaries.
* `ClustersSound`: clusters are not empty and disjoint, in whichever order policies are read
  and whichever CPUs are offline. They are ordered by frequency as well if the frequencies
  of all online CPUs are found (`AllFound`). They may not be when the policies cannot be
  read and a CPU is offline: its file is missing, the search ends there, and the CPUs behind
  it are taken for big ones, or are in no cluster, however slow or fast they are.
* `TopologiesAgree`: the two files that detect clusters agree.

The bounds are small because the interesting cases need few actors: one process with one
thread, or two processes in turn with one tid, and one step of each kind in the gap where it
hurts. With two tids, capacities of one or two make each map and buffer overflow in ordinary
behaviours; four kernel steps are enough for "appear, take a name, be reset, die", and in
`EbpfSafety` one of the four may be a reload, which may fall anywhere. The eBPF and polling
runs start with an inotify descriptor, since a daemon without one does nothing that one with
it may not do; in `Polling` it can be lost only by the one reload or restart. In `Polling` a
`Jump` of 1 makes all three cases of the thread count occur (no more threads, a few more, a
jump), and one restart can fall into every gap of a turn. Three changes of the file are
enough to lose a watch, to change the file in the gap, and to change it again under mtime
polling. A key of 2 bytes and names of 5 give names shorter than a key, of the length of a
comm and beyond it; what is said of names, patterns, lists and clusters is proved for all
sizes. Kernel and system steps, reloads, restarts and versions are bounded in the guards
(`MaxKernelSteps`, `MaxReloads`, `MaxSystemSteps`, `MaxBreaks`, `MaxVersion`, `MaxClock`);
the daemon itself is not bounded. Only `Algorithms` switches the deadlock check off: its
inputs stop growing at the bounds.

*Mutants.* Each property has a faulty variant of one definition (the operators called
"Faulty variant of ..."), the kind of mistake a change of the code could make; TLC finds the
property violated when the variant replaces the definition.

### Refinement

`Bindings` knows threads that are free or bound, the rules in force, and those in force at
the last renewal. A renewal releases every thread; new rules leave the bindings alone. It
binds a thread by the rules in force, never a default over a thread rule's binding, and only
while all bindings there are come from these rules or those of the last renewal: rules that
were in force before that have no influence any more. It may release threads at any time.
`EventLoop` maps to it with a thread bound from the moment its mask is set: `Bound` joins
the entries of `tasks` and the `job` that is not dead. `scan_cfg` is the rules of the last
renewal. Both reloads are `Reload`, `full_scan_clear` is `Renew`, exits and purges are
releases, `Apply` binds or releases, and `Commit` stutters. In `ProcPolling` the entries
alone are the bindings, because the mask is set from them later; the start of a rescan is
`Renew`, and `Restart` is a `Restart`.

### Fairness

*eBPF mode.* `Fairness` asks weak fairness of the reader and of the main thread, which
nothing blocks for ever (`recv_timeout` returns after a second). Two choices of the main
thread need strong fairness in the model: `recv_done`, since the drain loop ends when the
channel is empty, and `affinity_sync_start`, since the deadline passes again and again.
`FairSpec` adds `EventsPause`: there are always later moments without an event to handle. The
code does not ensure that; tasks must be created and renamed more slowly than the daemon
handles the events. In the runs it follows from the bound on kernel steps, and `MCFairSpec`
leaves it out.

*Polling mode.* Weak fairness of the main thread, which sleeps and never waits for anyone,
and strong fairness of `affinity_sync_start` and `scan_unknown`, whose deadline and turn
counter come to their limit again and again.

*The frame.* Weak fairness of the main thread. Nothing is asked of the reader, of `Start` or
of the programs that write the file: a daemon that gave up for want of a configuration stays
down unless it is started again.

## What the code does not keep

Six statements of the documentation are refuted, each by a run of its own; the
counterexamples are short and the `findings` of PROJECT.json tell them.

* `EveryThreadBound` (`README.md:65`): a thread cloned between the scan's list of the threads
  and the mark of its parent is neither scanned nor reported.
* `BoundByOwnPackage` (`README.md:65`): a RENAME dispatched after its process died caches a
  package for the pid, which the next process with that pid gets.
* `NamedThreadBound` (`README.md:66`): a rename between the scan's reading of a comm and the
  thread's mark is not reported.
* `AppFound` (comment at `main.rs:148`): up to eleven more threads are no reason to rescan,
  and a rescan visits only processes tracked before unless the one before it has seen more
  of them; an application that starts quietly is never visited.
* `EveryPackageBound` (`README.md:65`): the rules of an entry name its first package only.
* `QuestionMarkMatches` (`README.md:112`, `config.rs:71`): `fnmatch` knows no `?`. The same
  holds of `[a-z]` (`README.md:111`), of which the inputs have no example. Shipped
  configurations have both, as in `Thread-[0-5][0-9]`
  (`magisk_module/config/4+3+1.json:666`), and these rules match no thread.

Some holes are part of the properties instead, because nothing in the repository denies
them: `MissedOnlyUnwatched` allows the changes made between `load` and `init_inotify`
(`main.rs:304`) and between a reload and the new watch (`main.rs:312`); `ChangeLoaded` asks
nothing under mtime polling for a change whose mtime is not newer, as after a write between
the two steps of `load` (`config.rs:103`); `NeverDeaf` and `MissedOnlyUnwatched` allow what is
replaced while a program has the old file open, of which inotify tells only when that is
closed (`main.rs:408`). And four properties allow for the second reload of a turn, which may
fail after the loss of inotify and take the scan of the first one back (`main.rs:318`):
`ScanFollowsReload` stops there, `ProcessCovered` asks nothing until the next scan, and
`ConfigCoherent` and `CacheFollowsRules` accept the rules of the last scan as well.

Seen while reading, and not the subject of a run: `README.md` promises the match of highest
priority for each thread, while all matching thread rules add up (`rule_match.rs`) and only
dead code reads `prio`; it puts names without a class in the little cluster, while `save`
gives them the middle one if there is one; `features.auto-for-none` is never read; a comment
at `config.rs:128` says that the last of several cached entries is kept, and the code keeps
the first (which `OneEntryPerPackage` makes the same). Of four or more clusters `detect`
lists the fastest, the second and the slowest (`cpu.rs:70`), and the others are in none of
its lists, while `detect_core_types` counts all between the ends as p-cores; so
`TopologiesAgree` speaks of two or three. Three more are in the models, and the properties
allow for them. A FORK event of a new *process* carries the parent's tgid
(`ebpf/src/main.rs:93`), so that the entry of the child names a directory
`/proc/<parent>/task/<child>` that does not exist, against the comment at `proccache.rs:6`;
`ProcessCovered` says that the child is bound nevertheless. A thread that exits between
`affinity_set` and `applied_set` (`main.rs:43`) is marked when it is gone, against the comment at
`ebpf/src/main.rs:182`, until the timer finds it or a new thread gets its tid and the mark. And
`scan_unknown` skips pids below 1000 (`process.rs:122`), which an application can have once the
pids have wrapped around, while `README.md:87` makes no exception.

## What is proved

All constants are arbitrary within the named assumptions, which TLC evaluates on every run.

* `NamesAssumption`, `CacheAssumption`, `KernelAssumption`, `LoopAssumption` and
  `PollingAssumption` say that the sets are what their comments say, that tids are finitely
  many, that capacities are numbers, and that a loaded package rule's directory is the one of
  its CPUs or none (`config.rs:74-84`). `CacheFileAssumption` says the same of what the
  auto-assignment uses, `MainLoopAssumption` and `NameAssumption` that bounds and lengths are
  numbers and that a name has no NUL.
* `TopologyAssumption` says that the word width and the number of words are not zero, and
  `BoundsAssumption` that a device has no CPU beyond what the code looks at: `detect` reads
  128 frequency files (`cpu.rs:37`), and a `CpuSet` has 1024 bits. What either drops is not
  in any list.
* `PlainNameAssumption`: a pattern without a wildcard matches its own name only, and the
  names of user applications have no wildcard. The first half is what `PlainPattern` in
  `NameMatch_proofs` proves of `fnmatch` over bytes.
* `StartAssumption`: the threads that run at the start are those of whole processes, and the
  cache file holds what `save` writes: one user application in each entry, none twice.

* `ThreadAffinityDir` (`RuleMatch_proofs`): the directory `thread_affinity` returns is the
  base directory or the one of exactly the CPUs it returns, whatever the rules.
* `KernelSafe` (`Tracepoints_proofs`): each step of the kernel's half keeps types and
  capacities, leaves the whitelist alone, and never shrinks `Known`: the tids that are marked
  and run, have an EXIT in `EVENTS`, or are in `lost`.
* `TypeCorrect`, `BindingsWatched`, `ReloadComplete`, `CpusetDirsAgree`, `ThreadRulesWin`
  (`EventLoop_proofs`): `Spec => []P` for `TypeOK`, `NoBlindBinding`, `ConfigCoherent`,
  `CpusetDirAgrees`, and `Spec => ThreadBindingKept`.
* `Implementation` (`EventLoop_proofs`): `Spec => ImplementsBindings`.
* `LiveBindingsStay` (`LiveBinding_proofs`): `Spec => LiveBindingKept`, if `QuickReuse` is
  `FALSE`.
* `ProcessesCovered` (`LiveBinding_proofs`): `Spec => []ProcessCovered`, under
  `CoverageAssumption` (below).
* `PollingTypes`, `CacheIsOfRules`, `OneEntryEach`, `Implementation` (`ProcPolling_proofs`):
  `Spec => []P` for `TypeOK`, `CacheFollowsRules` and `OneEntryPerPackage` of the polling
  mode, and its `Spec => ImplementsBindings`.
* `TypeCorrect`, `WatchKept`, `ChangesSeen`, `ReloadsScanned` (`MainLoop_proofs`): `Spec =>
  []P` for `TypeOK`, `NeverDeaf`, `MissedOnlyUnwatched`, `ScanFollowsReload`.
* `RecognisedReported`, `OwnCommFound`, `OneStarIsGlob` (`NameMatch_proofs`), for names, keys,
  comms and patterns of every length and every set of packages: a recognised comm is
  reported; a name is recognised by either end of it, as a name with such an end; `fnmatch`
  gives a pattern whose only wildcard is one star its meaning. `NothingRecognisedIsDropped`,
  `OwnCommIsRecognised` and `OneStarAlwaysMatches` state them of the inputs of `MCAlgorithms`:
  `Spec => []P` for `RecognisedIsReported`, `OwnCommRecognised` and `OneStarMatches`.
* `ListsRoundTrip`, `ListsAreCanonical`, `ClustersAreSound`, `TopologiesAlwaysAgree`
  (`CpuTopology_proofs`): `Spec => []P` for `ListRoundTrip`, `ListCanonical`,
  `ClustersSound` and `TopologiesAgree`, for words of every width, sets of every number of
  words, lists of every length, and any number of policies, CPUs and frequencies, and of
  CPUs offline or without a frequency between them.

*The argument, eBPF mode.* None of the invariants is inductive alone, and `IInv` strengthens
them together. `JobPlace`: a `task_apply` is open only in the scan and while receiving, so
that no other phase meets a half-made binding. `JobUntracked`: the thread being bound has no
entry (`task_apply` removes it first), so that what `applied_clear` and the timer remove is
not about it. `ScanPlace`: targets, the current process and the dead list are empty outside
their phases. `NothingBound`: from `full_scan_clear` to the scan there is no entry, so that
the marks `applied_clear` removes blind no binding: this is why `pc.clear()` must come
before `applied_clear`. `KeysFit`: the fill phase is entered only when the keys fit.
`ScanUpToDate`: as long as there is a descriptor and no reload is under way, the last scan
was for the rules in force. There is one lemma per action, and the main theorem combines
them. `ThreadBindingKept` follows from the invariant and the guard in `ResultToApply`. The
refinement uses the same invariant: `JobUntracked` makes `Bound` well defined,
`ConfigCoherent` is what the abstract `Bind` demands, and each action is shown to renew,
release, bind, reload or stutter. For `LiveBindingKept`, `GoneIInv` adds that the threads of
EXIT reports and of the dead list are gone: the exit program reports a thread as it ends,
and its tid is not given away while the report is under way.

*The argument, coverage.* `CoverageAssumption` names what `ProcessesCovered` needs. No quick
reuse, and no renaming of one thread by another: with either, a report speaks of a thread
that is not the one it names. `RenameAttached`: without the optional rename program nobody
reports the name an application takes. `WhitelistSound`: the keys fit the whitelist (when
they do not, the one of the old rules stays, `bpf.rs:309`), and a recognised comm has a key
among its windows, which is `RecognisedReported`. `MatchesItself`: a pattern matches the
text that it is, since the two sides of its first star are the two ends of that text. The
constants of `EbpfCoverage` satisfy all of them. Nothing is assumed of the rules. The code
does not ensure that they give CPUs to all that the scan takes: with rules for `app` alone,
a process `app:sub` is scanned because of its base name, gets no CPUs, and its name stays
cached for its pid (`proccache.rs:44`); if it ends unreported and a new process with that
pid becomes `app`, `task_apply` finds the old name and leaves the process unbound. So
`dropped` also takes the tid of an event that was spent on a package without CPUs
(`event_apply`). `CoverIInv` adds to `IInv` and `GoneIInv`: `JobsOfDead`: a job that found
its thread dead is right; `Watched`: from the rewriting of the whitelist on it holds the
keys of the packages in force; `ScanUnderWay`: threads are left to visit only while a
process is being scanned; and `Coverage`: once a scan for the rules in force has made its
list, each process that should be bound and is not in `dropped` is either in hand (bound,
being bound, or listed under a package that gives CPUs and still to be scanned) with no
report under way that has it forgotten, or a report under way has it bound, and none after
that one has it forgotten. With no report under way and nothing left to do, this is
`ProcessCovered`. The scan establishes it for the processes that run, the programs' reports
keep it for those that take a name later, one by one: what the ring drops of one thread
leaves the others covered.

*The argument, polling mode.* `IInv` joins `TypeOK`, `WholeProcesses` (every thread has its
main thread), `CacheSide` and `BindSide`. `CacheSide`: the packages of the rules are watched
(`RulesListed`); what `scan_unknown` has found is unknown to the rules in force until it is
merged (`Stages`); each entry of the cache file, be it complete, being written or left by a
killed daemon, is in the rules already or for an application they do not know
(`CacheFileKnown`); and there is one file, one process being scanned, one file being written
at most (`AtMostOneEach`). `BindSide` says which rules bindings follow from: those in force
while a rescan is under way, when a binding may also be of the process just being visited
(`ScanFollows`); those of the last rescan at all other times (`CacheOf(scan_cfg)`), however
many reloads came since; and those in force when no rescan is under way or bound to come and
there is a descriptor, so that none was skipped (`SettledFollows`). The hard step is
`cache_merge`, the one change of the rules without a rescan: the appended rules name user
applications which no rule named before, so that no entry of `tasks` was bound by their
absence. That step keeps `SettledFollows`, and leaves `CacheOf(scan_cfg)` alone. The prover
can follow this because `AutoCache` defines what `load`, `merge` and `save` return by the
positions the entries are taken from, in their order, and not by folds.

*The argument, frame.* `IInv` joins `TypeOK`, `Phases` (what the counter says of `cause` and
of the mode), `NeverDeaf`, `NothingMissed` (a valid version that is not in force has an
event pending or still to come from a file that is held open, or was written unwatched, or
is just being read) and `ScannedOrChanged` (the version scanned last is the one in force, or
`config_changed` is on its way to a scan). Its core is that `load` reads after
`read_inotify` has emptied the queue: a change made since then is either what `load` reads
or has an event of its own.

*The argument, names.* A recognised comm is a whole name or has full length and is one end
of a name. In the first two cases its first window is the name's prefix key, padded alike;
in the third its last full window is the suffix key. A name's own comm is the name, or one
end of it of full length. Then `comm_to_pkg` finds that name, or others with such an end,
and nothing else. For `fnmatch`, `Glob` says what a pattern means without recursion:
positions of the name at which it can be cut, one byte for a byte and any number for a star.
Without a star the cuts are one by one (`StepByStep`); with one, they are so before it and
after it, and the two ends do not overlap.

*The argument, lists.* What a loop does is a function of its rounds, and the prover has no
induction to offer. `LeastNumber` takes its place: a set of numbers that is not empty has a
least one. So if some round did not keep what the loop keeps, there would be a first such
round, and the one before it did (`Rounds`). That the function is there at all, which a
recursive definition leaves open, is shown in the same way (`Unrolled`). With it,
`PrintedShown` says that after n bits the parts and the open range stand for the bits below
n that are one, and `PrintedBitGaps` that they ascend with gaps. `CpusOfPart` reads a part
back as its range, so that parsing gives the same bits. A word that is empty may close the
range early because all of its bits are zero, so that the next CPU cannot continue the
range.

*The argument, clusters.* `Faithful` says that clusters know each online CPU once, by its
own frequency. The policies are faithful, since each has CPUs of its own (`PoliciesOK`, the
inductive invariant, with the numbers of the CPUs that have no policy); the groups made of
the frequency files are, if no file is missing before that of an online CPU
(`FilesFaithful`, from `AllGrouped`: one group for each frequency, with all its CPUs); and
sorting only moves clusters (`Sorted`, by the ranks of their indices, which a pigeonhole
argument finds all to be taken). Of a faithful descending list the first is the fastest and
the last the slowest, and no two overlap. If there is only one, the CPUs that nobody knows
are the others: they are present, so that the list is not empty, and not in it, so that the
two are disjoint. For policies of different frequencies, `Grouped` changes nothing
(`GroupsAreClusters`), so that `detect_core_types` sorts the same clusters as `detect`.

*Only model-checked.* Every safety and action property of the passing runs is proved.
Liveness is out of the prover's reach: `DeadPurged`, `AffinityRestored`, `FullScanFinds`,
`UnknownLearned`, `DeadForgotten`, `MaskRestored`, `ChangeLoaded` and `FallbackCovers` are
TLC's, and so are the counterexamples of the refuted statements.

## Not modelled

* The scanner in `process.rs` (`scan`, `scan_one_pid`, `apply`, `ensure_cpuset`,
  `cpuset_add`): marked `dead_code`, without a caller.
* `tracepoint_parse` and `offsets_inject` (`bpf.rs`): they read a text file of the kernel
  once, before the programs are loaded; the offsets are taken as injected, and `probe` as a
  choice.
* The set-up of the base cpuset directory (`cpuset.rs`): directories and files made once at
  start. What it provides is the constants `Present`, `CpusetEnabled` and `CreatableDirs`.
* The syntax of the JSON files; `rule_prio`, whose result only dead code reads;
  `is_blacklisted`, a constant set.
* `log.rs`, the paths of `common.rs`, the packaging and build scripts.
* Waiting inside the reader: epoll, the eventfd and `Drop` are the states of `reader` in
  `MainLoop`, with the join as one step.
* Seven hazards have no property, because nothing says what the code owes there or a property
  would only restate a guard: PROJECT.json notes why (`proccache.rs:68`,
  `ebpf/src/main.rs:138`, `main.rs:70`, `config.rs:119`, `process.rs:203`, `cpuset.rs:166`,
  `process.rs:122`).
