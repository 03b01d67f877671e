------------------------------ MODULE MCPolling ------------------------------
(***************************************************************************)
(* Small instances of ProcPolling: the zygote, a configured application    *)
(* with a thread that has a rule of its own, a package listed second in    *)
(* the application's entry, and a user application nobody has configured.  *)
(***************************************************************************)
EXTENDS ProcPolling

CONSTANTS
    t1, t2, t3,
    MaxSystemSteps,   \* bound on the steps of the system's threads
    MaxBreaks         \* bound on new configuration files and restarts together

VARIABLES systemSteps, breaks

mcVars == <<vars, systemSteps, breaks>>

MCNames == {"zygote", "app", "app2", "worker", "tool"}

MCfnmatch(pat, name) == pat = name

MCCommPkgs == [n \in MCNames |-> {}]

MCBaseName == [n \in MCNames |-> n]

MCKeyWords == [n \in MCNames \cup {""} |-> IF n = "tool" THEN {"Main"} ELSE {}]

-----------------------------------------------------------------------------

AppEntry(c) ==
    [packages |-> <<"app", "app2">>, other |-> c, comm |-> <<[cpus |-> {1}, name |-> "worker"]>>]

PlainEntry(c) == [packages |-> <<"app">>, other |-> c, comm |-> <<>>]

AppFile == <<AppEntry({0})>>

PlainFile == <<PlainEntry({1})>>

OneFile == {AppFile}

TwoFiles == {AppFile, PlainFile}

NoCache == {{<<>>}}

-----------------------------------------------------------------------------

Main(t, name) ==
    [tgid |-> t, comm |-> name, cmd |-> name, aff |-> Present, dir |-> Present]

Thread(t, p, name) ==
    [tgid |-> p, comm |-> name, cmd |-> Empty, aff |-> Present, dir |-> Present]

ZygoteOnly == [t \in {t1} |-> Main(t1, "zygote")]

AppRunning ==
    [t \in {t1, t2} |-> IF t = t1 THEN Main(t1, "app") ELSE Thread(t2, t1, "worker")]

OtherAppRunning == [t \in {t1} |-> Main(t1, "app2")]

Starts == {AppRunning, ZygoteOnly}

ZygoteStarts == {ZygoteOnly}

OtherStarts == {OtherAppRunning}

-----------------------------------------------------------------------------

(* Inotify fails only in a reload that is not scanned for: with MaxBreaks  *)
(* of 1 at most, nothing after another failure of it could differ.         *)
MCInit == Init /\ file = AppFile /\ inotify_fd /\ systemSteps = 0 /\ breaks = 0

MCNext ==
    \/ /\ systemSteps < MaxSystemSteps
       /\ SystemStep
       /\ systemSteps' = systemSteps + 1
       /\ UNCHANGED breaks
    \/ /\ breaks < MaxBreaks
       /\ ((hot_reload \/ Restart) /\ inotify_fd') \/ hot_reload_unscanned
       /\ breaks' = breaks + 1
       /\ UNCHANGED systemSteps
    \/ /\ MainStep
       /\ UNCHANGED <<systemSteps, breaks>>

MCSpec == MCInit /\ [][MCNext]_mcVars

MCFairSpec == MCSpec /\ Fairness
=============================================================================
