------------------------------ MODULE TaskPanes ------------------------------
(***************************************************************************)
(* The panes of the tasks session (src/task_watch.rs): the daemon's loop   *)
(* opens a pane for every task that writes, closes it some time after the  *)
(* task is done, and at its start closes the panes it does not know.       *)
(* `workload run` opens panes in the same session and registers them       *)
(* afterwards; `task-watch init --recreate` destroys the session.          *)
(***************************************************************************)
EXTENDS DaemonGates, FiniteSets

CONSTANTS
    Tasks,         \* task ids with an output file
    Agents,        \* those whose output is a transcript
    Panes,         \* pane ids; tmux hands each out once while its server lives
    MaxPanes,      \* max_panes
    DoneAfter,     \* done_delay and agent_done_delay, in polls
    Gaps           \* whether the session may be lost and made anew between two looks

ASSUME PaneAssumption ==
    /\ Agents \subseteq Tasks /\ MaxPanes \in Nat /\ DoneAfter \in Nat /\ Gaps \in BOOLEAN
    /\ Panes \subseteq Nat \ {0} /\ Panes # {}
    /\ Tasks \cap {"workload", "stranger"} = {} \* ids of another form

VARIABLES
    active,    \* the tasks that write (scan_active_writers, agent_is_active)
    owner,     \* per open pane: the task it shows, or whose it is
    dealt,     \* the pane ids handed out by this tmux server
    tracked,   \* state.tracked: per task, its pane
    removal,   \* state.pending_removal: per task, polls since it was seen done
    registry,  \* the pane ids in the workload registry
    loop,      \* what the daemon does next: sync, list, sweep, poll, rest, wait
    todo,      \* the tasks it is about to open panes for
    listed,    \* the panes its sweep has listed
    struck     \* history: what the daemon closed that it should not have

tpVars == <<active, owner, dealt, tracked, removal, registry, loop, todo, listed, struck>>

NoPane == 0
Workload == "workload"
Stranger == "stranger"  \* a pane of the user, or of `task-watch add`

Open == DOMAIN owner
NoTracks == [t \in Tasks |-> NoPane]
NoRemovals == [t \in Tasks |-> None]

Lowest(ps) == CHOOSE p \in ps : \A q \in ps : p <= q

\* tmux split-window: the pane gets the lowest id not handed out yet.
Splits(whose) ==
    /\ Panes \ dealt # {}
    /\ LET p == Lowest(Panes \ dealt)
       IN  /\ owner' = [q \in Open \cup {p} |-> IF q = p THEN whose ELSE owner[q]]
           /\ dealt' = dealt \cup {p}
           /\ IF whose \in Tasks THEN tracked' = [tracked EXCEPT ![whose] = p]
              ELSE UNCHANGED tracked

FreshSession == [p \in {Lowest(Panes)} |-> Stranger]
Closed(ps) == [q \in Open \ ps |-> owner[q]]

-----------------------------------------------------------------------------
\* run_task_watch_loop, start: what writes gets a pane.
SyncStarts ==
    /\ loop = "start" /\ loop' = "sync" /\ todo' = active
    /\ UNCHANGED <<active, owner, dealt, tracked, removal, registry, listed, struck>>

\* add_pane, for each that is due one; a full session opens none.
AddPane(t) ==
    /\ loop \in {"sync", "open"} /\ t \in todo
    /\ todo' = todo \ {t}
    /\ IF tracked[t] \in Open \/ Cardinality(Open) >= MaxPanes
       THEN UNCHANGED <<owner, dealt, tracked>>
       ELSE Splits(t)
    /\ UNCHANGED <<active, removal, registry, loop, listed, struck>>

\* list_existing_panes, load_workload_pane_ids: first the panes, then the registry,
\* which a writer may just have truncated.
SweepLists ==
    /\ loop = "sync" /\ todo = {} /\ loop' = "sweep"
    /\ listed' = Open
    /\ UNCHANGED <<active, owner, dealt, tracked, removal, registry, todo, struck>>

\* Pane 0, what it tracks and what the registry names stays.
Spared(known) ==
    {p \in listed : p = Lowest(listed) \/ p \in known \/ \E t \in Tasks : tracked[t] = p}

Sweep(known) ==
    /\ loop = "sweep" /\ loop' = "rest"
    /\ LET orphans == listed \ Spared(known)
       IN  /\ owner' = Closed(orphans)
           /\ struck' = struck \cup {"workload" : p \in {q \in orphans \cap Open : owner[q] = Workload}}
    /\ listed' = {}
    /\ UNCHANGED <<active, dealt, tracked, removal, registry, todo>>

\* One poll: gc_dead_panes, what is done gets a date, what is new gets a pane.
GcTracked == [t \in Tasks |-> IF tracked[t] \in Open THEN tracked[t] ELSE NoPane]

Poll ==
    /\ loop = "rest" /\ loop' = "open"
    /\ tracked' = GcTracked
    /\ LET kept == [t \in Tasks |-> IF tracked[t] = NoPane \/ GcTracked[t] # NoPane
                                    THEN Older(removal[t], DoneAfter) ELSE None]
       IN  /\ removal' = [t \in Tasks |->
                  IF kept[t] = None /\ GcTracked[t] # NoPane /\ t \notin active
                  THEN 0 ELSE kept[t]]
           /\ todo' = {t \in active : GcTracked[t] = NoPane /\ kept[t] = None}
    /\ UNCHANGED <<active, owner, dealt, registry, listed, struck>>

\* The removals that are due; an agent that went on is kept.
RevivedUnseen == {}
Revived == active \cap Agents

RemovesDue ==
    /\ loop = "open" /\ todo = {} /\ loop' = "look"
    /\ LET due == {t \in Tasks : Since(removal[t], DoneAfter)}
           ps == {tracked[t] : t \in due \ Revived}
       IN  /\ removal' = [t \in Tasks |-> IF t \in due THEN None ELSE removal[t]]
           /\ tracked' = [t \in Tasks |-> IF t \in due \ Revived THEN NoPane ELSE tracked[t]]
           /\ owner' = Closed(ps)
           /\ struck' = struck
                  \cup {"foreign" : t \in {u \in due \ Revived : tracked[u] \in Open
                                                            /\ owner[tracked[u]] # u}}
                  \cup {"working" : t \in (due \ Revived) \cap active \cap Agents}
    /\ UNCHANGED <<active, dealt, registry, todo, listed>>

\* The session is looked for at the end of a poll; lost, everything is forgotten.
RememberedTracks == tracked
ForgottenTracks == NoTracks
LooksForSession ==
    /\ loop = "look"
    /\ IF Open # {} THEN loop' = "rest" /\ UNCHANGED <<tracked, removal>>
       ELSE loop' = "wait" /\ tracked' = ForgottenTracks /\ removal' = NoRemovals
    /\ UNCHANGED <<active, owner, dealt, registry, todo, listed, struck>>

\* It is back: what writes gets a pane again, but nothing is swept.
SessionBack ==
    /\ loop = "wait" /\ Open # {} /\ loop' = "open" /\ todo' = active
    /\ UNCHANGED <<active, owner, dealt, tracked, removal, registry, listed, struck>>

\* The daemon stops and starts: it remembers nothing.
DaemonRestarts ==
    /\ loop' = "start" /\ tracked' = NoTracks /\ removal' = NoRemovals
    /\ todo' = {} /\ listed' = {}
    /\ UNCHANGED <<active, owner, dealt, registry, struck>>

-----------------------------------------------------------------------------
\* A task starts or ends.
TaskTurns(t) ==
    /\ active' = IF t \in active THEN active \ {t} ELSE active \cup {t}
    /\ UNCHANGED <<owner, dealt, tracked, removal, registry, loop, todo, listed, struck>>

\* workload run: the pane, then the registry; the watchdog takes both away.
OtherOpens(whose) ==
    /\ Open # {} /\ Splits(whose)
    /\ UNCHANGED <<active, removal, registry, loop, todo, listed, struck>>
WorkloadRegisters(p) ==
    /\ p \in Open /\ owner[p] = Workload /\ registry' = registry \cup {p}
    /\ UNCHANGED <<active, owner, dealt, tracked, removal, loop, todo, listed, struck>>
PaneCloses(p) ==
    /\ p \in Open /\ Open # {p}
    /\ owner' = Closed({p}) /\ registry' = registry \ {p}
    /\ UNCHANGED <<active, dealt, tracked, removal, loop, todo, listed, struck>>

\* cmd_task_init without --force: refused while a registered workload runs.
Recreates ==
    /\ Gaps \/ loop \in {"wait", "start"}
    /\ \A p \in registry : p \notin Open
    /\ owner' = FreshSession /\ dealt' = Open'
    /\ registry' = {}
    /\ UNCHANGED <<active, tracked, removal, loop, todo, listed, struck>>

\* The session is gone, and with it the tmux server and its numbering.
SessionLost ==
    /\ Open # {} /\ loop = "look"
    /\ owner' = [p \in {} |-> Stranger] /\ dealt' = {} /\ registry' = {}
    /\ UNCHANGED <<active, tracked, removal, loop, todo, listed, struck>>

TpInit ==
    /\ active \in SUBSET Tasks
    /\ owner = FreshSession /\ dealt = DOMAIN FreshSession
    /\ tracked = NoTracks /\ removal = NoRemovals /\ registry = {}
    /\ loop = "start" /\ todo = {} /\ listed = {} /\ struck = {}

TpNext ==
    \/ SyncStarts \/ SweepLists \/ Sweep(registry) \/ Sweep({})
    \/ \E t \in Tasks : AddPane(t) \/ TaskTurns(t)
    \/ Poll \/ RemovesDue \/ LooksForSession \/ SessionBack \/ DaemonRestarts
    \/ \E whose \in {Workload, Stranger} : OtherOpens(whose)
    \/ \E p \in Panes : WorkloadRegisters(p) \/ PaneCloses(p)
    \/ Recreates \/ SessionLost

TpSpec == TpInit /\ [][TpNext]_tpVars

-----------------------------------------------------------------------------
\* The types of the session and of what the daemon keeps of it.
TpTypeOK ==
    /\ active \subseteq Tasks /\ todo \subseteq Tasks
    /\ Open \subseteq dealt /\ dealt \subseteq Panes
    /\ \A p \in Open : owner[p] \in Tasks \cup {Workload, Stranger}
    /\ tracked \in [Tasks -> Panes \cup {NoPane}] /\ removal \in [Tasks -> Ages(DoneAfter)]
    /\ registry \subseteq Panes /\ listed \subseteq Panes
    /\ loop \in {"start", "sync", "sweep", "rest", "open", "look", "wait"}
    /\ struck \subseteq {"workload", "foreign", "working"}

\* The poll closes only panes that it opened, for the task whose delay is over: not a
\* pane that got the same id in a session made after the one it remembers, as long as
\* it sees that the session is gone.
ClosesOwnPanes == "foreign" \notin struck

\* The pane of an agent that writes again by the time its delay is over stays.
WorkingAgentKept == "working" \notin struck

\* What the poll closes was its own and is over.
PanesClosedRight == TpTypeOK /\ ClosesOwnPanes /\ WorkingAgentKept

\* task_watch.rs:731 "Workload panes [...] must also be preserved": the sweep at the
\* start of the daemon closes no pane that a workload runs in.
WorkloadPaneKept == "workload" \notin struck
=============================================================================
