---------------------------- MODULE WatcherStatus ----------------------------
(***************************************************************************)
(* What the status says of one watcher, and how it is switched             *)
(* (src/watcher.rs, src/status.rs).  Its pollers record themselves in one  *)
(* directory or another, as their own environment has it; they crash,      *)
(* their pids are used again, and a monitor is only asked for and comes up *)
(* later.  A reader with another environment looks at the processes first  *)
(* and at the records afterwards.                                          *)
(***************************************************************************)
EXTENDS DaemonGates, FiniteSets

CONSTANTS Pids, NoPid, Grace

VARIABLES
    running,  \* per pid: what runs under it, and for how long (0 .. Settled)
    names,    \* per record file: the pid it holds
    youngest, \* the age of the youngest record (OldAge: none, or too old to matter)
    intent,   \* the age of the instruction to arm the monitor (OldAge: none)
    came,     \* history: a monitor has come up since that instruction
    mode,     \* "oneshot" or "monitor"
    base,     \* `enabled` in the base file; "cut" while it is rewritten
    pin,      \* `enabled` in the override layer
    toggle,   \* the switch asked for and not yet written
    heeded,   \* history: the switch reported as done, while nobody edits a layer
    look,     \* what a reader has seen so far
    answer    \* what it says, when the last step was its answer

wsVars == <<running, names, youngest, intent, came, mode, base, pin, toggle, heeded, look, answer>>
live == <<running, names, youngest, intent, came>>
layers == <<base, pin, toggle, heeded>>

ASSUME StatusAssumption == Grace \in Nat \ {0} /\ IsFiniteSet(Pids) /\ NoPid \notin Pids

\* DUPLICATE_MIN_AGE_SECS, and the age from which nothing counts as fresh.
Settled == 1
OldAge == Grace

\* A bash watcher locks a file of its runtime directory, `watcher-ctl run` writes a pid file.
RecordFiles == {"uid.lock", "run.lock", "run.pid"}
FilesOf(dir) == IF dir = "uid" THEN {"uid.lock"} ELSE {"run.lock", "run.pid"}

\* "mention": another program whose command line names the watcher.
Process(what, age) == [what |-> what, age |-> age]
NoPoller == Process("none", 0)
Poller(p) == running[p].what = "poller"
Stamped(f, p) == [names EXCEPT ![f] = p]

-----------------------------------------------------------------------------
\* watcher_pid_dirs: the reader's own runtime directory, the user's, the fixed one.
OneDir(xdg) == IF xdg THEN {"uid"} ELSE {"run"}
PidDirs(xdg) == (IF xdg THEN {"uid"} ELSE {}) \cup {"uid", "run"}
OnRecord(xdg) == {names[f] : f \in UNION {FilesOf(d) : d \in PidDirs(xdg)}} \ {NoPid}

\* is_pid_genuinely_alive and cmdline_matches_watcher: any record will do.
AnyProcess(p) == running[p].what \in {"poller", "mention", "zombie"}
Matches(p) == running[p].what \in {"poller", "mention"}
Down(xdg) == ~\E p \in OnRecord(xdg) : Matches(p)

\* watcher_is_arming: an instruction, no older than the grace, that no record is younger than.
ArmingByGrace == mode = "monitor" /\ intent < Grace
Arming == mode = "monitor" /\ intent < Grace /\ youngest > intent

\* poller_pids: what pgrep finds, less what only mentions the watcher.
Candidates == {p \in Pids : running[p].what \in {"poller", "mention"}}
Listed == {p \in Candidates : Poller(p)}

\* stable_duplicate_pids: alive, and not just started (a fork on its way to exec).
AllListed(pids) == pids
StablePids(pids) == {p \in pids : Poller(p) /\ running[p].age >= Settled}

\* load_watchers_config: the override layer wins field by field.
Enabled == IF pin = "none" THEN base ELSE pin
Answer(pids, xdg) ==
    IF Down(xdg) THEN IF Arming THEN "ARMING" ELSE "DOWN"
    ELSE IF Cardinality(StablePids(pids)) > 1 THEN "DUPLICATE" ELSE "ok"

\* is_live, but for a monitor that is only asked for.
CountsAsRunning(status) == status \in {"ok", "DUPLICATE"}

-----------------------------------------------------------------------------
NotLooking == [at |-> "no", pids |-> {}, xdg |-> FALSE]
Quiet == answer' = "none"

\* A poller comes up: it locks the file of its runtime directory and records itself there;
\* `watcher-ctl run` records the one it spawned as well.
ComesUp(p, f) ==
    /\ running[p] = NoPoller /\ f \in {"uid.lock", "run.lock"}
    /\ names[f] # NoPid => ~Poller(names[f])
    /\ running' = [running EXCEPT ![p] = Process("poller", 0)]
    /\ IF mode = "oneshot" THEN \E both \in BOOLEAN :
            names' = [Stamped(f, p) EXCEPT !["run.pid"] = IF both THEN p ELSE @]
       ELSE names' = Stamped(f, p)
    /\ youngest' = 0 /\ came' = TRUE
    /\ Quiet /\ UNCHANGED <<intent, mode, layers, look>>

\* It dies: a crash leaves its records, a stop empties its own lock file.
PollerDies(p) ==
    /\ Poller(p)
    /\ \/ /\ \E end \in {"none", "zombie"} : running' = [running EXCEPT ![p] = Process(end, 0)]
          /\ UNCHANGED <<names, youngest>>
       \/ /\ running' = [running EXCEPT ![p] = NoPoller] /\ youngest' = 0
          /\ names' = [f \in RecordFiles |-> IF names[f] = p /\ f # "run.pid" THEN NoPid ELSE names[f]]
    /\ Quiet /\ UNCHANGED <<intent, came, mode, layers, look>>

\* The pid is free (or some other program has it, which no reader tells from free), or a
\* program has it whose command line names the watcher.
Recycled(p) ==
    /\ ~Poller(p)
    /\ \E what \in {"none", "mention"} : running' = [running EXCEPT ![p] = Process(what, 0)]
    /\ Quiet /\ UNCHANGED <<names, youngest, intent, came, mode, layers, look>>

\* monitor_arm: nothing is recorded for a monitor that is up.
MonitorArm ==
    /\ mode = "monitor"
    /\ \E xdg \in BOOLEAN : Down(xdg)
    /\ intent' = 0 /\ came' = FALSE
    /\ Quiet /\ UNCHANGED <<running, names, youngest, mode, layers, look>>

Tick ==
    /\ running' = [p \in Pids |-> IF Poller(p) THEN Process("poller", Older(running[p].age, Settled))
                                ELSE running[p]]
    /\ youngest' = Older(youngest, OldAge) /\ intent' = Older(intent, OldAge)
    /\ Quiet /\ UNCHANGED <<names, came, mode, layers, look>>

-----------------------------------------------------------------------------
\* watcher_toggle: refused where the override layer pins the field; the base file is emptied,
\* then written; a disabled watcher's pollers are killed.
NeverPinned == FALSE
Pinned == pin # "none"
Toggles(want) ==
    /\ toggle = "no" /\ ~Pinned /\ base # "cut"
    /\ toggle' = want /\ base' = "cut" /\ heeded' = "none"
    /\ Quiet /\ UNCHANGED <<live, mode, pin, look>>

WritesLayer ==
    /\ toggle # "no"
    /\ base' = toggle /\ toggle' = "no" /\ heeded' = toggle
    /\ \E signalled \in IF toggle = "false" THEN SUBSET Listed ELSE {{}} :
         running' = [p \in Pids |-> IF p \in signalled THEN NoPoller ELSE running[p]]
    /\ Quiet /\ UNCHANGED <<names, youngest, intent, came, mode, pin, look>>

\* The operator edits the override layer.
Edits ==
    /\ toggle = "no"
    /\ pin' \in {"none", "true", "false"} \ {pin} /\ heeded' = "none"
    /\ Quiet /\ UNCHANGED <<live, mode, base, toggle, look>>

-----------------------------------------------------------------------------
\* watcher_status: the layers and the processes first ...
LooksUp(xdg) ==
    /\ look.at = "no"
    /\ \/ /\ Enabled = "true" /\ Quiet
          /\ look' = [at |-> "processes", pids |-> Listed, xdg |-> xdg]
       \/ /\ Enabled # "true" /\ UNCHANGED look
          /\ answer' = IF Enabled = "false" THEN "off" ELSE "missing"
    /\ UNCHANGED <<live, mode, layers>>

\* ... then the records, and which of the processes have settled.
Answers ==
    /\ look.at = "processes" /\ look' = NotLooking
    /\ answer' = Answer(look.pids, look.xdg)
    /\ UNCHANGED <<live, mode, layers>>

WsInit ==
    /\ running = [p \in Pids |-> NoPoller] /\ names = [f \in RecordFiles |-> NoPid]
    /\ youngest = OldAge /\ intent = OldAge /\ came = FALSE
    /\ mode \in {"oneshot", "monitor"} /\ base = "true" /\ pin = "none"
    /\ toggle = "no" /\ heeded = "none" /\ look = NotLooking /\ answer = "none"

WsNext ==
    \/ \E p \in Pids : (\E f \in RecordFiles : ComesUp(p, f)) \/ PollerDies(p) \/ Recycled(p)
    \/ MonitorArm \/ Tick \/ (\E want \in {"true", "false"} : Toggles(want)) \/ WritesLayer \/ Edits
    \/ (\E xdg \in BOOLEAN : LooksUp(xdg)) \/ Answers

WsSpec == WsInit /\ [][WsNext]_wsVars

-----------------------------------------------------------------------------
\* The types of the watcher's processes, records and layers.
WsTypeOK ==
    /\ running \in [Pids -> [what : {"none", "poller", "zombie", "mention"}, age : 0 .. Settled]]
    /\ names \in [RecordFiles -> Pids \cup {NoPid}]
    /\ youngest \in 0 .. OldAge /\ intent \in 0 .. OldAge
    /\ came \in BOOLEAN /\ mode \in {"oneshot", "monitor"}
    /\ base \in {"true", "false", "cut"} /\ pin \in {"none", "true", "false"}
    /\ toggle \in {"no", "true", "false"} /\ heeded \in {"none", "true", "false"}
    /\ look.at \in {"no", "processes"} /\ look.pids \subseteq Pids
    /\ answer \in {"none", "off", "missing", "ARMING", "DOWN", "DUPLICATE", "ok"}

\* A watcher is never reported down while a poller of it runs, whatever directory the poller
\* recorded itself in, whatever stale record lies beside and whatever the reader's environment.
RunningIsUp ==
    answer \notin {"none", "off", "missing"} /\ Listed # {} => CountsAsRunning(answer)

\* One that is gone is not reported up, unless its pid went to a program that names it.
GoneIsDown ==
    CountsAsRunning(answer) => \E p \in Pids : Poller(p) \/ running[p].what = "mention"

\* Two pollers are reported only when two have settled: a restart or a fork is no duplicate.
DuplicatesAreReal ==
    answer = "DUPLICATE" => Cardinality({p \in Pids : Poller(p) /\ running[p].age = Settled}) > 1

\* A monitor is "arming" only after an instruction that nothing has come up on: one that came up
\* and died is down at once.
ArmingIsPending == answer = "ARMING" => ~came /\ intent < Grace

\* A switch that was reported as done decides what is reported, until somebody edits a layer.
SwitchHolds == heeded # "none" /\ toggle = "no" => Enabled = heeded

\* What the status says of a watcher is so, and what was switched stays switched.
StatusTrue ==
    /\ WsTypeOK /\ RunningIsUp /\ GoneIsDown /\ DuplicatesAreReal /\ ArmingIsPending /\ SwitchHolds
=============================================================================
