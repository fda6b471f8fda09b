----------------------------- MODULE WatcherRun -----------------------------
(***************************************************************************)
(* `watcher-ctl run` and `stop` of one one-shot watcher (src/watcher.rs).  *)
(* A run holds the spawn lock for as long as its poller lives; the pid     *)
(* file, which the status reads, names the run first and its poller later. *)
(* Runs overlap, die at any step and leave the poller behind; a stop       *)
(* signals the pollers and clears the pid file without the lock.           *)
(***************************************************************************)
EXTENDS DaemonGates, FiniteSets

CONSTANTS Runs, NoRun

ASSUME NoRunAssumption == NoRun \notin Runs

VARIABLES
    step,    \* per run: "off", "probe", "clear", "claim", "spawn", "record", "wait"
    poller,  \* per run: its poller: "none", "live", "dying" (signalled), "exited", "killed"
    asked,   \* the runs that were sent SIGTERM or SIGINT and forward it
    record,  \* the pid file: whose process it names, in which role
    stopping,\* a stop is between its signals and its clearing
    cleared  \* history: the runs whose record a stop removed

wrVars == <<step, poller, asked, record, stopping, cleared>>

\* "none": no file; "dead": a process that is gone, or junk.
NoRecord == [role |-> "none", of |-> NoRun]
DeadRecord == [role |-> "dead", of |-> NoRun]
Names(role, r) == [role |-> role, of |-> r]

Running(r) == poller[r] \in {"live", "dying"}
\* WatcherLock: flock, released by the kernel when its run dies.
NeverLocked == FALSE
Locked == \E r \in Runs : step[r] # "off"

\* classify_pid_file: alive, with the command line of this watcher.
RecordLive == record.role = "poller" /\ Running(record.of)

-----------------------------------------------------------------------------
\* The run ends: when its process is gone, what named it names nothing.
Leaves(r, rec) ==
    /\ step' = [step EXCEPT ![r] = "off"]
    /\ asked' = asked \ {r} /\ cleared' = cleared \ {r}
    /\ record' = IF rec = Names("run", r) THEN DeadRecord ELSE rec

\* A run of the watcher: refused, with exit 0, while another holds the lock.
RunStarts(r) ==
    /\ step[r] = "off" /\ poller[r] = "none" /\ ~Locked
    /\ step' = [step EXCEPT ![r] = "probe"]
    /\ UNCHANGED <<poller, asked, record, stopping, cleared>>

\* run_guard_should_skip: a live record, or any live poller.
SkipRecorded == RecordLive
Skip == RecordLive \/ \E r \in Runs : Running(r)
Probe(r) ==
    /\ step[r] = "probe"
    /\ IF Skip THEN Leaves(r, record) /\ UNCHANGED <<poller, stopping>>
       ELSE /\ step' = [step EXCEPT ![r] = IF record = NoRecord THEN "claim" ELSE "clear"]
            /\ UNCHANGED <<poller, asked, record, stopping, cleared>>

\* The stale record goes, and on_restart_cmd runs.
ClearsStale(r) ==
    /\ step[r] = "clear"
    /\ step' = [step EXCEPT ![r] = "claim"] /\ record' = NoRecord
    /\ UNCHANGED <<poller, asked, stopping, cleared>>

\* try_claim_pid_file: O_EXCL.
Claim(r) ==
    /\ step[r] = "claim"
    /\ IF record # NoRecord THEN Leaves(r, record)
       ELSE /\ step' = [step EXCEPT ![r] = "spawn"] /\ record' = Names("run", r)
            /\ UNCHANGED <<asked, cleared>>
    /\ UNCHANGED <<poller, stopping>>

Spawn(r) ==
    /\ step[r] = "spawn"
    /\ \/ /\ step' = [step EXCEPT ![r] = "record"]
          /\ poller' = [poller EXCEPT ![r] = "live"]
          /\ UNCHANGED <<asked, record, cleared>>
       \/ Leaves(r, NoRecord) /\ UNCHANGED poller
    /\ UNCHANGED stopping

\* write_pid_file_atomic
Record(r) ==
    /\ step[r] = "record"
    /\ step' = [step EXCEPT ![r] = "wait"] /\ record' = Names("poller", r)
    /\ cleared' = cleared \ {r}
    /\ UNCHANGED <<poller, asked, stopping>>

\* The poller ends and its run takes its status: the record goes when the end was asked for
\* or came by a signal (remove_pid_file_if_matches), and stays, stale, when it exited.
Reap(r) ==
    /\ step[r] = "wait" /\ poller[r] \in {"exited", "killed"}
    /\ poller' = [poller EXCEPT ![r] = "none"]
    /\ Leaves(r, IF record # Names("poller", r) THEN record
                 ELSE IF r \in asked \/ poller[r] = "killed" THEN NoRecord ELSE DeadRecord)
    /\ UNCHANGED stopping

\* A signal to the run is forwarded to its poller.
RunSignalled(r) ==
    /\ step[r] = "wait"
    /\ asked' = asked \cup {r}
    /\ poller' = [poller EXCEPT ![r] = IF @ = "live" THEN "dying" ELSE @]
    /\ UNCHANGED <<step, record, stopping, cleared>>

\* The run is killed: the lock is free and a live poller goes on without it.
RunKilled(r) ==
    /\ step[r] # "off"
    /\ poller' = [poller EXCEPT ![r] = IF Running(r) THEN @ ELSE "none"]
    /\ Leaves(r, IF record = Names("poller", r) /\ ~Running(r) THEN DeadRecord ELSE record)
    /\ UNCHANGED stopping

PollerEnds(r) ==
    /\ Running(r)
    /\ IF step[r] = "off"
       THEN /\ poller' = [poller EXCEPT ![r] = "none"]
            /\ record' = IF record = Names("poller", r) THEN DeadRecord ELSE record
       ELSE /\ poller' \in {[poller EXCEPT ![r] = end] : end \in {"exited", "killed"}}
            /\ UNCHANGED record
    /\ UNCHANGED <<step, asked, stopping, cleared>>

-----------------------------------------------------------------------------
\* watcher_stop, and watcher_restart for each watcher: kill_entry_processes, then
\* clear_watcher_records.
StopSignals ==
    /\ ~stopping /\ stopping' = TRUE
    /\ poller' = [r \in Runs |-> IF poller[r] = "live" THEN "dying" ELSE poller[r]]
    /\ UNCHANGED <<step, asked, record, cleared>>

StopClears ==
    /\ stopping /\ stopping' = FALSE
    /\ record' = NoRecord
    /\ cleared' = IF record.of = NoRun THEN cleared ELSE cleared \cup {record.of}
    /\ UNCHANGED <<step, poller, asked>>

WrInit ==
    /\ step = [r \in Runs |-> "off"] /\ poller = [r \in Runs |-> "none"]
    /\ asked = {} /\ record \in {NoRecord, DeadRecord} /\ stopping = FALSE /\ cleared = {}

WrNext ==
    \/ \E r \in Runs : RunStarts(r) \/ Probe(r) \/ ClearsStale(r) \/ Claim(r) \/ Spawn(r)
                       \/ Record(r) \/ Reap(r) \/ RunSignalled(r) \/ RunKilled(r) \/ PollerEnds(r)
    \/ StopSignals \/ StopClears

WrSpec == WrInit /\ [][WrNext]_wrVars

-----------------------------------------------------------------------------
\* The types of the watcher's processes and record.
WrTypeOK ==
    /\ step \in [Runs -> {"off", "probe", "clear", "claim", "spawn", "record", "wait"}]
    /\ poller \in [Runs -> {"none", "live", "dying", "exited", "killed"}]
    /\ asked \subseteq Runs /\ cleared \subseteq Runs
    /\ record \in [role : {"none", "dead", "run", "poller"}, of : Runs \cup {NoRun}]
    /\ stopping \in BOOLEAN

\* No two pollers of a watcher run at a time (they would share out its events), whichever runs
\* overlap, die half way or leave a poller behind.
OnePoller == \A r, q \in Runs : Running(r) /\ Running(q) => r = q

\* The poller a run waits for is on record, so the status says it is up, unless a
\* stop took the record away.
SupervisedRecorded ==
    \A r \in Runs : step[r] = "wait" /\ r \notin cleared => record = Names("poller", r)

\* One poller, and the record knows it.
OnePollerOnRecord == WrTypeOK /\ OnePoller /\ SupervisedRecorded

\* watcher.rs:1850 "the pid record describes a process we just killed".
ClearsWhatItKilled ==
    [][stopping /\ ~stopping' /\ record.role = "poller" => poller[record.of] # "live"]_wrVars
=============================================================================
