------------------------------ MODULE PaneChoice ------------------------------
(***************************************************************************)
(* Which pane the daemon types into and which version it believes to run   *)
(* there (src/status.rs, src/tmux.rs).  Panes are renumbered as others     *)
(* open and close, processes end and their pids are used again, and an     *)
(* update changes the program under the running ones.                      *)
(***************************************************************************)
EXTENDS Naturals, SequencesExt

CONSTANTS
    Panes,    \* tmux panes; an id is never used again
    Main,     \* the pane of the main loop
    Pids,     \* process ids, used again
    Versions, \* versions 1..Versions of the program
    Layouts,  \* how the program may be installed
    NoPane, NoPid

ASSUME PaneChoiceAssumption ==
    /\ Main \in Panes /\ NoPane \notin Panes /\ NoPid \notin Pids
    /\ Versions \in Nat \ {0} /\ Layouts \subseteq {"native", "npm"}

VARIABLES
    order,      \* the panes of the session, by index
    procs,      \* per pid: what runs, the version it loaded, its exe, its pane
    markers,    \* sessions/<pid>.json: the version that was started with that pid, or 0
    install,    \* the layout and the version of the installed program
    configured, \* [tmux] dashboard_session is set, the pane being the first one
    cycle       \* the cycle of the daemon: the pane it found, the version, what it typed in

pcVars == <<order, procs, markers, install, configured, cycle>>

FreePids == [what |-> "none", loaded |-> 0, exe |-> "none", pane |-> NoPane]
NoPass == [at |-> "off", pane |-> NoPane, running |-> 0, of |-> NoPid, typed |-> NoPane]
PidOf(pane) ==
    IF \E p \in Pids : procs[p].pane = pane THEN CHOOSE p \in Pids : procs[p].pane = pane ELSE NoPid
RunsIn(pane, what) == \E p \in Pids : procs[p].pane = pane /\ procs[p].what = what
FirstThat(ok(_)) == IF \E i \in DOMAIN order : ok(order[i]) THEN order[SelectInSeq(order, ok)] ELSE NoPane

-----------------------------------------------------------------------------
\* find_claude_pane: the first pane whose command is claude or a version.
FindClaudePane == FirstThat(LAMBDA pane : RunsIn(pane, "claude"))
\* find_dashboard_pane: what has the configured index now, by its id; when there is
\* none, the first pane with a shell.
FindDashboardPane ==
    IF order # <<>> THEN order[1] ELSE FirstThat(LAMBDA pane : RunsIn(pane, "shell"))
\* find_claude_pane_with_config.
FindPane ==
    IF configured /\ FindDashboardPane # NoPane THEN FindDashboardPane ELSE FindClaudePane

\* is_claude_tui_exe: an exe that npm has moved aside is not one of them.
TuiExe(exe) == exe \in {"versioned", "package"}
AnyExe(exe) == TRUE
\* resolve_running_version: the version in the path of the exe, or else, for an exe of
\* the program, that in the marker of the pid.
GuardedExe(exe) == TuiExe(exe)
ResolveRunningVersion(p) ==
    IF procs[p].exe = "versioned" THEN procs[p].loaded
    ELSE IF procs[p].what # "none" /\ ~GuardedExe(procs[p].exe) THEN 0
    ELSE markers[p]

\* scan_running_candidates, select_running_version: of those that resolve, the highest.
Candidates == {p \in Pids : procs[p].what # "none" /\ TuiExe(procs[p].exe)
                            /\ ResolveRunningVersion(p) # 0}
LowestVersion == IF Candidates = {} THEN 0 ELSE ResolveRunningVersion(CHOOSE p \in Candidates :
    \A q \in Candidates : ResolveRunningVersion(p) <= ResolveRunningVersion(q))
SelectRunningVersion ==
    IF Candidates = {} THEN 0 ELSE ResolveRunningVersion(CHOOSE p \in Candidates :
        \A q \in Candidates : ResolveRunningVersion(q) <= ResolveRunningVersion(p))

\* get_version_info_for_pane: the process of the pane, and the scan when that fails.
RunningVersion(pid) ==
    LET own == IF pid = NoPid THEN 0 ELSE ResolveRunningVersion(pid)
    IN IF own # 0 THEN own ELSE SelectRunningVersion

-----------------------------------------------------------------------------
\* get_claude_status_inner: the pane is found, the pid of it asked for (which may
\* fail), the version read; what the cycle decides is typed into that pane.
FindsPane ==
    /\ cycle.at = "off" /\ FindPane # NoPane
    /\ cycle' = [NoPass EXCEPT !.at = "found", !.pane = FindPane]
    /\ UNCHANGED <<order, procs, markers, install, configured>>
AsksPid(answers) ==
    /\ cycle.at = "found"
    /\ cycle' = [cycle EXCEPT !.at = "asked", !.of = IF answers THEN PidOf(cycle.pane) ELSE NoPid]
    /\ UNCHANGED <<order, procs, markers, install, configured>>
ReadsVersion ==
    /\ cycle.at = "asked"
    /\ cycle' = [cycle EXCEPT !.at = "read", !.running = RunningVersion(cycle.of)]
    /\ UNCHANGED <<order, procs, markers, install, configured>>
ByIndex(pane) == FindPane
TypedInto(pane) == IF pane \in ToSet(order) THEN pane ELSE NoPane
Types ==
    /\ cycle.at = "read"
    /\ cycle' = [cycle EXCEPT !.at = "typed", !.typed = TypedInto(cycle.pane)]
    /\ UNCHANGED <<order, procs, markers, install, configured>>
PassEnds ==
    /\ cycle.at = "typed" /\ cycle' = NoPass
    /\ UNCHANGED <<order, procs, markers, install, configured>>

-----------------------------------------------------------------------------
\* The panes and processes around the daemon.
StartedNow == [what |-> "claude", loaded |-> install.version,
            exe |-> IF install.layout = "native" THEN "versioned" ELSE "package", pane |-> NoPane]
\* A pane opens with the program, or with a shell, before or after the others.
PaneOpens(pane, p, what, first) ==
    /\ pane \notin ToSet(order) /\ procs[p] = FreePids
    /\ pane = Main => what = "claude" /\ first
    /\ order' = IF first THEN <<pane>> \o order ELSE Append(order, pane)
    /\ procs' = [procs EXCEPT ![p] = IF what = "claude" THEN [StartedNow EXCEPT !.pane = pane]
                                     ELSE [FreePids EXCEPT !.what = "shell", !.exe = "other", !.pane = pane]]
    /\ markers' = IF what = "claude" THEN [markers EXCEPT ![p] = install.version] ELSE markers
    /\ UNCHANGED <<install, configured, cycle>>
\* respawn-pane -k: the pane starts the program anew; the old process lingers on.
Respawns(pane, old, p) ==
    /\ procs[old].pane = pane /\ procs[p] = FreePids /\ procs[old].what = "claude"
    /\ procs' = [procs EXCEPT ![old].pane = NoPane, ![p] = [StartedNow EXCEPT !.pane = pane]]
    /\ markers' = [markers EXCEPT ![p] = install.version]
    /\ UNCHANGED <<order, install, configured, cycle>>
\* A process ends, and with it its pane; its marker is left.
Exits(p) ==
    /\ procs[p] # FreePids
    /\ procs' = [procs EXCEPT ![p] = FreePids]
    /\ \/ procs[p].pane = NoPane /\ order' = order
       \/ \E i \in DOMAIN order : order[i] = procs[p].pane /\ order' = RemoveAt(order, i)
    /\ UNCHANGED <<markers, install, configured, cycle>>
\* An update: native versions stand side by side, npm moves the running one aside.
Updates ==
    /\ install.version < Versions
    /\ install' = [install EXCEPT !.version = @ + 1]
    /\ procs' = [p \in Pids |-> IF procs[p].exe = "package" THEN [procs[p] EXCEPT !.exe = "aside"]
                                ELSE procs[p]]
    /\ UNCHANGED <<order, markers, configured, cycle>>

PcInit ==
    /\ order = <<>> /\ procs = [p \in Pids |-> FreePids] /\ markers = [p \in Pids |-> 0]
    /\ \E layout \in Layouts : install = [layout |-> layout, version |-> 1]
    /\ configured \in BOOLEAN /\ cycle = NoPass

PcNext ==
    \/ FindsPane \/ ReadsVersion \/ Types \/ PassEnds \/ Updates
    \/ \E answers \in BOOLEAN : AsksPid(answers)
    \/ \E pane \in Panes, p \in Pids, what \in {"claude", "shell"}, first \in BOOLEAN :
            PaneOpens(pane, p, what, first)
    \/ \E pane \in Panes, old, p \in Pids : Respawns(pane, old, p)
    \/ \E p \in Pids : Exits(p)

PcSpec == PcInit /\ [][PcNext]_pcVars

-----------------------------------------------------------------------------
\* The types of the panes and processes.
PcTypeOK ==
    /\ ToSet(order) \subseteq Panes /\ IsInjective(order)
    /\ procs \in [Pids -> [what : {"none", "claude", "shell"}, loaded : 0..Versions,
                           exe : {"none", "versioned", "package", "aside", "other"},
                           pane : Panes \cup {NoPane}]]
    /\ markers \in [Pids -> 0..Versions]
    /\ \A pane \in ToSet(order) : PidOf(pane) # NoPid

\* What a cycle types goes into the pane that it read, or nowhere: not into one that has
\* taken the index of it since.
TypedWhereRead == cycle.at = "typed" => cycle.typed \in {cycle.pane, NoPane}

\* The version read of a live process of the program is never below the one it loaded:
\* neither an old process that lingers nor a pid that was used before makes the daemon
\* update a session that is up to date.
NoFalseMismatch ==
    \A answers \in BOOLEAN : LET p == PidOf(Main) IN
        p # NoPid /\ TuiExe(procs[p].exe)
            => RunningVersion(IF answers THEN p ELSE NoPid) >= procs[p].loaded

\* A version that is read of a pane was loaded by a process of the program that lives:
\* a shell that has the pid of an ended session does not cycle for it.
VersionOfTheLiving ==
    \A pane \in ToSet(order) : LET v == RunningVersion(PidOf(pane)) IN
        v # 0 => \E p \in Pids : procs[p].what = "claude" /\ procs[p].loaded = v

\* The daemon acts on the pane it read and on the version that runs.
PaneTrue == PcTypeOK /\ TypedWhereRead /\ NoFalseMismatch /\ VersionOfTheLiving

\* What tmux.rs says of the pane id: it pins every send "to the SAME physical main-loop
\* pane regardless of layout churn".  The id is that of the pane at the index, each cycle.
MainPanePinned == configured /\ Main \in ToSet(order) => FindPane = Main

\* What status.rs says of an update by npm: the marker then gives "what THIS running PID
\* loaded".  The guard against used pids refuses the path that npm moved aside.
UpdateByNpmSeen ==
    \A p \in Pids : procs[p].what = "claude" => ResolveRunningVersion(p) = procs[p].loaded
=============================================================================
