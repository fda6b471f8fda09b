------------------------------- MODULE AgentKill -------------------------------
(***************************************************************************)
(* `claude-watch agent list | kill | kill-all` (src/agent.rs).  Subagents run *)
(* inside the main process: what the system shows of them are the children *)
(* of their tool calls, and their logs, one per session.  A kill    *)
(* lists processes, signals tree after tree while others come and go,      *)
(* looks after half a second who is left, and kills those for good.        *)
(***************************************************************************)
EXTENDS Naturals

CONSTANTS
    Subagents, \* agents with a transcript
    Procs,  \* process ids, none given twice
    Window  \* age from which a transcript does not count as live

ASSUME AgentAssumption ==
    /\ Window \in Nat \ {0}
    /\ Procs \cap {"claude", "init", "none", "gone"} = {} \* ids are numbers

VARIABLES
    procs,   \* per process: its parent, what it is, whether it obeys SIGTERM
    logs,    \* per agent and session: the age of its file, and its spawn record
    session, \* the session in which agents write now
    kill,    \* the command: its step, the trees to signal, the processes hit so far,
             \* those of them it answers for (aimed), and those left
    said     \* what it printed at its end: "all dead", and the agents that survive

akVars == <<procs, logs, session, kill, said>>

Claude == "claude"
Reaper == "init"
Sessions == {"older", "newer"}
Kinds == {"tool", "sidechain", "watcher"}
Proc(parent, kind, obeys) == [parent |-> parent, kind |-> kind, obeys |-> obeys]
Unborn == Proc("none", "tool", TRUE)
Gone == Proc("gone", "tool", TRUE)
Alive == {p \in Procs : procs[p] \notin {Unborn, Gone}}
Off == [at |-> "off", todo |-> {}, hit |-> {}, aimed |-> {}, left |-> {}]
Silent == [dead |-> FALSE, survivors |-> {}]

-----------------------------------------------------------------------------
\* get_children, get_descendant_pids: what ps shows at that moment.
ChildrenOf(q) == {p \in Alive : procs[p].parent = q}
Descendants(p) == ChildrenOf(p) \cup UNION {ChildrenOf(c) : c \in ChildrenOf(p)}

\* is_watcher, is_own_command: the children that are tool calls of an agent.
AnyChildren == ChildrenOf(Claude)
AgentChildren == {p \in ChildrenOf(Claude) : procs[p].kind # "watcher"}

\* find_orphaned_agents: pgrep sidechain, less the children of the main process.
Orphaned == {p \in Alive : procs[p].kind = "sidechain"} \ ChildrenOf(Claude)

\* kill_process_tree: whom it signals, and answers for.
RootOnly(p) == {p}
Tree(p) == {p} \cup Descendants(p)

\* What dies leaves its children to init.
AfterDeath(dead) ==
    [p \in Procs |-> IF p \in dead THEN Gone
                     ELSE IF procs[p].parent \in dead THEN [procs[p] EXCEPT !.parent = Reaper]
                     ELSE procs[p]]

-----------------------------------------------------------------------------
NoFile == Window + 1
SessionsOf(a) == {s \in Sessions : logs[a][s].age # NoFile}

\* A merge that takes the newest directory whole.
MergedWhole(a) == logs[a][IF "newer" \in SessionsOf(a) THEN "newer" ELSE "older"]

\* load_agents_merged, merge_agent_info: field by field, the freshest transcript and
\* any spawn record.
Merged(a) ==
    [age |-> CHOOSE n \in 0..Window : /\ \E s \in SessionsOf(a) : logs[a][s].age = n
                                      /\ \A s \in SessionsOf(a) : n <= logs[a][s].age,
     known |-> \E s \in SessionsOf(a) : logs[a][s].known]

\* live_in_process_agents: with the spawn record, the queue item is shown as well.
LiveAgents == {a \in Subagents : SessionsOf(a) # {} /\ Merged(a).age < Window}
Shown == {[agent |-> a, known |-> Merged(a).known] : a \in LiveAgents}

-----------------------------------------------------------------------------
\* match_agent_to_pid: the children whose command line is the last one of the agent.
Matched(todo) == todo # {} /\ todo \subseteq AgentChildren

\* cmd_kill of an agent: the children that match.  cmd_kill_all: all of them, and the
\* orphans; with none, only the survivors are reported.
StartsKill(todo) ==
    /\ kill.at = "off" /\ Matched(todo)
    /\ kill' = [Off EXCEPT !.at = "signals", !.todo = todo]
    /\ said' = Silent
    /\ UNCHANGED <<procs, logs, session>>

StartsKillAll ==
    /\ kill.at = "off"
    /\ LET found == AgentChildren \cup Orphaned
       IN  IF found = {} THEN said' = [Silent EXCEPT !.survivors = Shown] /\ UNCHANGED kill
           ELSE kill' = [Off EXCEPT !.at = "signals", !.todo = found] /\ said' = Silent
    /\ UNCHANGED <<procs, logs, session>>

\* SIGTERM to a tree as it is now; one that is gone meanwhile is signalled in vain.
Signals(p) ==
    /\ kill.at = "signals" /\ p \in kill.todo
    /\ kill' = [kill EXCEPT !.todo = @ \ {p}, !.aimed = @ \cup Tree(p),
                           !.hit = @ \cup {p} \cup Descendants(p)]
    /\ procs' = AfterDeath({q \in {p} \cup Descendants(p) : q \in Alive /\ procs[q].obeys})
    /\ UNCHANGED <<logs, session, said>>

\* Half a second later: who is still there?
LooksAgain ==
    /\ kill.at = "signals" /\ kill.todo = {}
    /\ kill' = [kill EXCEPT !.at = "finishes", !.left = kill.aimed \cap Alive]
    /\ UNCHANGED <<procs, logs, session, said>>

\* SIGKILL for those, or the claim; then the agents that no kill reaches.
Finishes ==
    /\ kill.at = "finishes"
    /\ procs' = AfterDeath(kill.left \cap Alive)
    /\ said' = [dead |-> kill.left = {}, survivors |-> Shown]
    /\ kill' = [kill EXCEPT !.at = "done"]
    /\ UNCHANGED <<logs, session>>

RunEnds ==
    /\ kill.at = "done" /\ kill' = Off
    /\ UNCHANGED <<procs, logs, session, said>>

-----------------------------------------------------------------------------
\* The main process and its tools: only it starts watchers, under a supervisor that is
\* recognised; any of them may start a process.
Spawns(p, parent, kind, obeys) ==
    /\ procs[p] = Unborn /\ parent \in {Claude} \cup Alive
    /\ kind # "tool" => parent = Claude
    /\ procs' = [procs EXCEPT ![p] = Proc(parent, kind, obeys)]
    /\ UNCHANGED <<logs, session, kill, said>>

ProcessExits(p) ==
    /\ p \in Alive /\ procs' = AfterDeath({p})
    /\ UNCHANGED <<logs, session, kill, said>>

\* An agent writes to its transcript of this session; the spawn record stays in the
\* session where it was spawned.
AgentWrites(a) ==
    /\ logs' = [logs EXCEPT ![a][session] =
           [age |-> 0, known |-> @.known \/ SessionsOf(a) = {}]]
    /\ UNCHANGED <<procs, session, kill, said>>

ContextReset ==
    /\ session = "older" /\ session' = "newer"
    /\ UNCHANGED <<procs, logs, kill, said>>

TimePasses ==
    /\ logs' = [a \in Subagents |-> [s \in Sessions |->
           IF logs[a][s].age < Window THEN [logs[a][s] EXCEPT !.age = @ + 1]
           ELSE logs[a][s]]]
    /\ UNCHANGED <<procs, session, kill, said>>

AkInit ==
    /\ procs = [p \in Procs |-> Unborn] /\ session = "older"
    /\ logs = [a \in Subagents |-> [s \in Sessions |-> [age |-> NoFile, known |-> FALSE]]]
    /\ kill = Off /\ said = Silent

AkNext ==
    \/ \E todo \in SUBSET Procs : StartsKill(todo)
    \/ StartsKillAll \/ LooksAgain \/ Finishes \/ RunEnds \/ ContextReset \/ TimePasses
    \/ \E p \in Procs : Signals(p) \/ ProcessExits(p)
    \/ \E p \in Procs, parent \in Procs \cup {Claude}, kind \in Kinds, obeys \in BOOLEAN :
          Spawns(p, parent, kind, obeys)
    \/ \E a \in Subagents : AgentWrites(a)

AkSpec == AkInit /\ [][AkNext]_akVars

-----------------------------------------------------------------------------
\* The types of the processes and of the command.
AkTypeOK ==
    /\ procs \in [Procs -> [parent : Procs \cup {Claude, Reaper, "none", "gone"}, kind : Kinds,
                            obeys : BOOLEAN]]
    /\ kill \in [at : {"off", "signals", "finishes", "done"}, todo : SUBSET Procs,
                 hit : SUBSET Procs, aimed : SUBSET Procs, left : SUBSET Procs]

\* At its end no process of a tree it signalled is alive, those that ignore SIGTERM
\* included, whatever was started and exited meanwhile.
SignalledAreDead == kill.at = "done" => kill.hit \cap Alive = {}

\* A watcher is never among those it signals.
WatchersSpared == \A p \in kill.hit \cap Alive : procs[p].kind # "watcher"

\* An agent that writes is among the survivors it tells of, with the queue item from
\* the spawn record wherever that is, also when a context reset split its transcript.
SurvivorsTold ==
    kill.at = "done" => \A r \in said.survivors :
                            (\E s \in Sessions : logs[r.agent][s].known) => r.known

\* A kill ends those it aimed at, and tells whom it cannot reach.
KillAccounted == AkTypeOK /\ SignalledAreDead /\ WatchersSpared /\ SurvivorsTold
=============================================================================
