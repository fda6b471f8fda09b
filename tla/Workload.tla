------------------------------ MODULE Workload ------------------------------
(***************************************************************************)
(* Detached jobs (`workload run`, `workload kill`).  A run of a label is a *)
(* payload in a session of its own and a wrapper, which is the process of  *)
(* a tmux pane: it waits for the payload, writes the exit marker, and      *)
(* starts emit-done, which reports the completion and settles the queue    *)
(* item.  A command that kills or replaces a run does the same reporting,  *)
(* then kills the process tree and the pane.  They meet in the files of    *)
(* the label only; nothing is locked.                                      *)
(***************************************************************************)
EXTENDS Integers, FiniteSets

CONSTANTS
    Labels,
    Actors,      \* processes that run commands; one: one command at a time
    MaxRuns,     \* bound: runs that are ever started
    Uses,        \* of "kill", "run", "carry": run with the old --queue-id
    Faults       \* the failures of this instance

ASSUME WorkloadAssumption ==
    /\ Labels # {}
    /\ "wrapper" \notin Actors
    /\ MaxRuns \in Nat
    /\ Uses \subseteq {"kill", "run", "carry"}
    /\ Faults \subseteq {"crash", "interrupt", "pane", "queue", "register",
                         "survivor"}

Runs == 1 .. MaxRuns

VARIABLES
    registry,    \* state.json: the run of a label, 0: none
    exitFile,    \* <label>.exit is there
    sentinel,    \* <label>.kill-emitted is there
    pgid,        \* <label>.pgid: the run whose group it names, 0: none
    issued,      \* how many runs were bound
    label,       \* the label of a run
    bound,       \* its queue item, named by the run it was created for
    item,        \* the status of a queue item
    payload,     \* of a run: "absent", "new" (no .pgid yet), "up", "ok", "failed"
    wrapper,     \* of a run: what its wrapper is at
    cli,         \* what the command of a process is at
    events,      \* who reported the completion of which run
    raced,       \* history: the wrapper passed a killer about to report
    cut,         \* history: the wrapper was stopped before it had reported
    escaped      \* history: the payload outlived its wrapper, or a kill

files == <<registry, exitFile, sentinel, pgid>>
history == <<raced, cut, escaped>>
vars == <<files, issued, label, bound, item, payload, wrapper, cli, events,
          history>>

WrapperAt == {"absent", "waiting", "marked", "emitting", "emitted", "asleep",
              "gone"}

CliAt == {"idle", "pane", "exit", "mark", "sentinel", "emit", "settle",
          "signal", "closing", "drop", "clean", "bind", "start", "save"}

Running(r) == payload[r] \in {"new", "up"}

PaneAlive(r) == wrapper[r] \notin {"absent", "gone"}

(* emit-done runs, as a child of the wrapper. *)
Reporting(r) == wrapper[r] \in {"emitting", "emitted"}

(* A command: what it does, its step, the label, the registry as it read   *)
(* it, the run it tears down, the run it starts.                           *)
Commands ==
    [op : {"kill", "run", "carry"}, at : CliAt, label : Labels,
     view : [Labels -> 0 .. MaxRuns], victim : 0 .. MaxRuns,
     run : 0 .. MaxRuns, survived : BOOLEAN]

Idle == [op |-> "kill", at |-> "idle", label |-> CHOOSE l \in Labels : TRUE,
         view |-> [l \in Labels |-> 0], victim |-> 0, run |-> 0,
         survived |-> FALSE]

Init ==
    /\ registry = [l \in Labels |-> 0]
    /\ exitFile = [l \in Labels |-> FALSE]
    /\ sentinel = [l \in Labels |-> FALSE]
    /\ pgid = [l \in Labels |-> 0]
    /\ issued = 0
    /\ label = [r \in Runs |-> CHOOSE l \in Labels : TRUE]
    /\ bound = [r \in Runs |-> r]
    /\ item = [r \in Runs |-> "absent"]
    /\ payload = [r \in Runs |-> "absent"]
    /\ wrapper = [r \in Runs |-> "absent"]
    /\ cli = [a \in Actors |-> Idle]
    /\ events = {}
    /\ raced = {} /\ cut = {} /\ escaped = {}

(* The command of a moves on to w. *)
Goto(a, w) == cli' = [cli EXCEPT ![a].at = w]

(* session-task queue done, or queue abandon, which leaves a done item. *)
Settled(q, s) ==
    [item EXCEPT ![q] = IF @ = "done" THEN @ ELSE s]

-----------------------------------------------------------------------------
(* The payload and the wrapper of run r.                                   *)

(* The payload writes its process group, and execs the command. *)
RecordPgid(r) ==
    /\ payload[r] = "new"
    /\ payload' = [payload EXCEPT ![r] = "up"]
    /\ pgid' = [pgid EXCEPT ![label[r]] = r]
    /\ UNCHANGED <<registry, exitFile, sentinel, issued, label, bound, item,
                   wrapper, cli, events, history>>

PayloadExits(r, how) ==
    /\ payload[r] = "up"
    /\ payload' = [payload EXCEPT ![r] = how]
    /\ UNCHANGED <<files, issued, label, bound, item, wrapper, cli, events,
                   history>>

WriteExit(r) ==
    /\ wrapper[r] = "waiting" /\ ~Running(r)
    /\ exitFile' = [exitFile EXCEPT ![label[r]] = TRUE]
    /\ wrapper' = [wrapper EXCEPT ![r] = "marked"]
    /\ UNCHANGED <<registry, sentinel, pgid, issued, label, bound, item,
                   payload, cli, events, history>>

(* Mutant: the completion is reported whether or not a killer did. *)
TakeSentinelIgnored(r) ==
    /\ wrapper[r] = "marked"
    /\ wrapper' = [wrapper EXCEPT ![r] = "emitting"]
    /\ UNCHANGED <<files, issued, label, bound, item, payload, cli, events,
                   history>>

(* emit-done: the sentinel of a killer is consumed, and nothing reported. *)
TakeSentinel(r) ==
    /\ wrapper[r] = "marked"
    /\ LET l == label[r]
       IN  /\ wrapper' = [wrapper EXCEPT ![r] = IF sentinel[l] THEN "asleep"
                                                ELSE "emitting"]
           /\ sentinel' = [sentinel EXCEPT ![l] = FALSE]
           /\ raced' = IF ~sentinel[l] /\ \E a \in Actors :
                              /\ cli[a].victim = r
                              /\ cli[a].at \in {"mark", "sentinel"}
                       THEN raced \cup {r} ELSE raced
    /\ UNCHANGED <<registry, exitFile, pgid, issued, label, bound, item,
                   payload, cli, events, cut, escaped>>

EmitOwn(r) ==
    /\ wrapper[r] = "emitting"
    /\ events' = events \cup {<<r, "wrapper">>}
    /\ wrapper' = [wrapper EXCEPT ![r] = "emitted"]
    /\ UNCHANGED <<files, issued, label, bound, item, payload, cli, history>>

(* Mutant: the exit status is written where the queue status belongs. *)
SettleOwnRaw(r) ==
    /\ wrapper[r] = "emitted"
    /\ item' = Settled(bound[r], payload[r])
    /\ wrapper' = [wrapper EXCEPT ![r] = "asleep"]
    /\ UNCHANGED <<files, issued, label, bound, payload, cli, events, history>>

SettleOwn(r) ==
    /\ wrapper[r] = "emitted"
    /\ item' = Settled(bound[r], IF payload[r] = "ok" THEN "done"
                                 ELSE "abandoned")
    /\ wrapper' = [wrapper EXCEPT ![r] = "asleep"]
    /\ UNCHANGED <<files, issued, label, bound, payload, cli, events, history>>

(* The pane closes after its last sleep; the EXIT trap removes .pgid. *)
ClosePane(r) ==
    /\ wrapper[r] = "asleep"
    /\ wrapper' = [wrapper EXCEPT ![r] = "gone"]
    /\ pgid' = [pgid EXCEPT ![label[r]] = 0]
    /\ UNCHANGED <<registry, exitFile, sentinel, issued, label, bound, item,
                   payload, cli, events, history>>

(* The wrapper dies and the payload, in its own session, goes on. *)
Crash(r) ==
    /\ "crash" \in Faults
    /\ wrapper[r] \notin {"absent", "asleep", "gone"}
    /\ wrapper' = [wrapper EXCEPT ![r] = "gone"]
    /\ cut' = cut \cup {r}
    /\ escaped' = escaped \cup {q \in {r} : Running(q)}
    /\ UNCHANGED <<files, issued, label, bound, item, payload, cli, events,
                   raced>>

-----------------------------------------------------------------------------
(* The command of process a: kill, or run, which replaces a live run.      *)

(* load_state: the registry is read once, and written back at the end. *)
Invoke(a, op, l) ==
    /\ cli[a].at = "idle"
    /\ op \in Uses
    /\ IF op = "kill" THEN registry[l] # 0 ELSE issued < MaxRuns
    /\ cli' = [cli EXCEPT ![a] =
                 [Idle EXCEPT !.op = op, !.label = l, !.view = registry,
                    !.victim = registry[l],
                    !.at = IF registry[l] = 0 THEN "clean" ELSE "pane"]]
    /\ UNCHANGED <<files, issued, label, bound, item, payload, wrapper, events,
                   history>>

(* A dead pane has nothing to tear down; kill removes its .pgid. *)
CheckPane(a) ==
    LET l == cli[a].label
    IN  /\ cli[a].at = "pane"
        /\ Goto(a, IF PaneAlive(cli[a].victim) THEN "exit" ELSE "drop")
        /\ pgid' = IF ~PaneAlive(cli[a].victim) /\ cli[a].op = "kill"
                   THEN [pgid EXCEPT ![l] = 0] ELSE pgid
        /\ UNCHANGED <<registry, exitFile, sentinel, issued, label, bound,
                       item, payload, wrapper, events, history>>

(* ensure_kill_done_event: with an exit marker, the wrapper reports. *)
CheckExit(a) ==
    /\ cli[a].at = "exit"
    /\ Goto(a, IF exitFile[cli[a].label] THEN "signal" ELSE "mark")
    /\ UNCHANGED <<files, issued, label, bound, item, payload, wrapper, events,
                   history>>

MarkExit(a) ==
    /\ cli[a].at = "mark"
    /\ exitFile' = [exitFile EXCEPT ![cli[a].label] = TRUE]
    /\ Goto(a, "sentinel")
    /\ UNCHANGED <<registry, sentinel, pgid, issued, label, bound, item,
                   payload, wrapper, events, history>>

MarkSentinel(a) ==
    /\ cli[a].at = "sentinel"
    /\ sentinel' = [sentinel EXCEPT ![cli[a].label] = TRUE]
    /\ Goto(a, "emit")
    /\ UNCHANGED <<registry, exitFile, pgid, issued, label, bound, item,
                   payload, wrapper, events, history>>

EmitKilled(a) ==
    /\ cli[a].at = "emit"
    /\ events' = events \cup {<<cli[a].victim, a>>}
    /\ Goto(a, "settle")
    /\ UNCHANGED <<files, issued, label, bound, item, payload, wrapper,
                   history>>

(* Mutant: a killer leaves the queue item to the wrapper. *)
SettleKilledNot(a) ==
    /\ cli[a].at = "settle"
    /\ Goto(a, "signal")
    /\ UNCHANGED <<files, issued, label, bound, item, payload, wrapper, events,
                   history>>

(* queue abandon --confirmed-dead, unless the new run takes the item over. *)
SettleKilled(a) ==
    /\ cli[a].at = "settle"
    /\ item' = IF cli[a].op = "carry" THEN item
               ELSE Settled(bound[cli[a].victim], "abandoned")
    /\ Goto(a, "signal")
    /\ UNCHANGED <<files, issued, label, bound, payload, wrapper, events,
                   history>>

(* Mutant: only the children of the pane are killed. *)
SignalPaneOnly(a) ==
    LET v == cli[a].victim
    IN  /\ cli[a].at = "signal"
        /\ wrapper' = [wrapper EXCEPT ![v] = IF Reporting(v) THEN "asleep" ELSE @]
        /\ cut' = IF Reporting(v) /\ <<v, a>> \notin events THEN cut \cup {v}
                  ELSE cut
        /\ Goto(a, "closing")
        /\ UNCHANGED <<files, issued, label, bound, item, payload, events, raced,
                       escaped>>

(* kill_tree: the descendants of the pane, an emit-done among them, and    *)
(* the group of .pgid get SIGTERM and SIGKILL; the wrapper itself does not. *)
Signal(a) ==
    LET v == cli[a].victim
        hit == {r \in Runs : Running(r) /\ \/ r = pgid[cli[a].label]
                                           \/ r = v /\ PaneAlive(v)}
    IN  /\ cli[a].at = "signal"
        /\ \/ /\ \E how \in {"ok", "failed"} :
                    payload' = [r \in Runs |-> IF r \in hit THEN how
                                               ELSE payload[r]]
              /\ Goto(a, "closing")
              /\ UNCHANGED escaped
           \/ /\ "survivor" \in Faults /\ hit # {}
              /\ payload' = payload /\ escaped' = escaped \cup hit
              /\ cli' = [cli EXCEPT ![a].at = "closing", ![a].survived = TRUE]
        /\ wrapper' = [wrapper EXCEPT ![v] = IF Reporting(v) THEN "asleep" ELSE @]
        /\ cut' = IF Reporting(v) /\ <<v, a>> \notin events THEN cut \cup {v}
                  ELSE cut
        /\ UNCHANGED <<files, issued, label, bound, item, events, raced>>

(* tmux kill-pane, and .pgid is removed. *)
KillPane(a) ==
    LET v == cli[a].victim
    IN  /\ cli[a].at = "closing"
        /\ wrapper' = [wrapper EXCEPT ![v] = "gone"]
        /\ cut' = IF PaneAlive(v) /\ wrapper[v] # "asleep" /\ <<v, a>> \notin events
                  THEN cut \cup {v} ELSE cut
        /\ pgid' = [pgid EXCEPT ![cli[a].label] = 0]
        /\ Goto(a, "drop")
        /\ UNCHANGED <<registry, exitFile, sentinel, issued, label, bound,
                       item, payload, events, raced, escaped>>

(* save_state without the label: the registry as it was read, not as it is. *)
(* A survivor makes run refuse.                                            *)
Drop(a) ==
    LET v == [cli[a].view EXCEPT ![cli[a].label] = 0]
    IN  /\ cli[a].at = "drop"
        /\ registry' = v
        /\ cli' = [cli EXCEPT ![a] =
                     IF cli[a].op = "kill" \/ cli[a].survived THEN Idle
                     ELSE [@ EXCEPT !.view = v, !.at = "clean"]]
        /\ UNCHANGED <<exitFile, sentinel, pgid, issued, label, bound, item,
                       payload, wrapper, events, history>>

(* Mutant: a sentinel survives into the next run. *)
CleanNoSentinel(a) ==
    LET l == cli[a].label
    IN  /\ cli[a].at = "clean"
        /\ exitFile' = [exitFile EXCEPT ![l] = FALSE]
        /\ pgid' = [pgid EXCEPT ![l] = 0]
        /\ Goto(a, "bind")
        /\ UNCHANGED <<registry, sentinel, issued, label, bound, item, payload,
                       wrapper, events, history>>

(* The files that an earlier run left. *)
Clean(a) ==
    LET l == cli[a].label
    IN  /\ cli[a].at = "clean"
        /\ exitFile' = [exitFile EXCEPT ![l] = FALSE]
        /\ pgid' = [pgid EXCEPT ![l] = 0]
        /\ sentinel' = [sentinel EXCEPT ![l] = FALSE]
        /\ Goto(a, "bind")
        /\ UNCHANGED <<registry, issued, label, bound, item, payload, wrapper,
                       events, history>>

(* The queue item: the one of the replaced run, or a new one, which stays  *)
(* pending when only its registration fails.                               *)
Bind(a) ==
    /\ cli[a].at = "bind"
    /\ issued < MaxRuns
    /\ LET r == issued + 1
           v == cli[a].victim
       IN  /\ issued' = r
           /\ label' = [label EXCEPT ![r] = cli[a].label]
           /\ IF cli[a].op = "carry" /\ v # 0
              THEN /\ bound' = [bound EXCEPT ![r] = bound[v]]
                   /\ UNCHANGED item
              ELSE /\ \/ item' = [item EXCEPT ![r] = "running"]
                      \/ /\ "register" \in Faults
                         /\ item' = [item EXCEPT ![r] = "pending"]
                   /\ UNCHANGED bound
           /\ cli' = [cli EXCEPT ![a].at = "start", ![a].run = r]
    /\ UNCHANGED <<files, payload, wrapper, events, history>>

(* Without an item there is no run, although the old one was torn down. *)
BindRefused(a) ==
    /\ "queue" \in Faults
    /\ cli[a].at = "bind"
    /\ cli[a].op = "run"
    /\ cli' = [cli EXCEPT ![a] = Idle]
    /\ UNCHANGED <<files, issued, label, bound, item, payload, wrapper, events,
                   history>>

(* tmux split-window; when it fails, run returns and its item stays. *)
Start(a) ==
    LET r == cli[a].run
    IN  /\ cli[a].at = "start"
        /\ \/ /\ payload' = [payload EXCEPT ![r] = "new"]
              /\ wrapper' = [wrapper EXCEPT ![r] = "waiting"]
              /\ Goto(a, "save")
           \/ /\ "pane" \in Faults
              /\ cli' = [cli EXCEPT ![a] = Idle]
              /\ UNCHANGED <<payload, wrapper>>
        /\ UNCHANGED <<files, issued, label, bound, item, events, history>>

Save(a) ==
    /\ cli[a].at = "save"
    /\ registry' = [cli[a].view EXCEPT ![cli[a].label] = cli[a].run]
    /\ cli' = [cli EXCEPT ![a] = Idle]
    /\ UNCHANGED <<exitFile, sentinel, pgid, issued, label, bound, item,
                   payload, wrapper, events, history>>

(* The command is interrupted, before a run that it starts has its pane. *)
Interrupt(a) ==
    /\ "interrupt" \in Faults
    /\ cli[a].at \notin {"idle", "save"}
    /\ cut' = IF cli[a].at \in {"sentinel", "emit", "settle"}
              THEN cut \cup {cli[a].victim} ELSE cut
    /\ cli' = [cli EXCEPT ![a] = Idle]
    /\ UNCHANGED <<files, issued, label, bound, item, payload, wrapper, events,
                   raced, escaped>>

-----------------------------------------------------------------------------
WrapperStep(r) ==
    \/ RecordPgid(r) \/ WriteExit(r) \/ TakeSentinel(r) \/ EmitOwn(r)
    \/ SettleOwn(r) \/ ClosePane(r)

CommandStep(a) ==
    \/ CheckPane(a) \/ CheckExit(a) \/ MarkExit(a) \/ MarkSentinel(a)
    \/ EmitKilled(a) \/ SettleKilled(a) \/ Signal(a) \/ KillPane(a) \/ Drop(a)
    \/ Clean(a) \/ Bind(a) \/ BindRefused(a) \/ Start(a) \/ Save(a)

Next ==
    \/ \E r \in Runs : WrapperStep(r) \/ Crash(r)
    \/ \E r \in Runs, how \in {"ok", "failed"} : PayloadExits(r, how)
    \/ \E a \in Actors : CommandStep(a) \/ Interrupt(a)
    \/ \E a \in Actors, op \in {"kill", "run", "carry"}, l \in Labels :
          Invoke(a, op, l)

Spec == Init /\ [][Next]_vars

(* Wrappers and commands are processes that the system schedules; nobody   *)
(* says that a payload ends, or that a command is given.                   *)
Fairness ==
    /\ \A r \in Runs : WF_vars(WrapperStep(r))
    /\ \A a \in Actors : WF_vars(CommandStep(a))

FairSpec == Spec /\ Fairness

-----------------------------------------------------------------------------
TypeOK ==
    /\ registry \in [Labels -> 0 .. MaxRuns]
    /\ exitFile \in [Labels -> BOOLEAN] /\ sentinel \in [Labels -> BOOLEAN]
    /\ pgid \in [Labels -> 0 .. MaxRuns]
    /\ issued \in 0 .. MaxRuns
    /\ label \in [Runs -> Labels] /\ bound \in [Runs -> Runs]
    /\ item \in [Runs -> {"absent", "pending", "running", "done",
                          "abandoned"}]
    /\ payload \in [Runs -> {"absent", "new", "up", "ok", "failed"}]
    /\ wrapper \in [Runs -> WrapperAt]
    /\ cli \in [Actors -> Commands]
    /\ events \subseteq Runs \X ({"wrapper"} \cup Actors)
    /\ raced \subseteq Runs /\ cut \subseteq Runs /\ escaped \subseteq Runs

Reporters(r) == {w \in {"wrapper"} \cup Actors : <<r, w>> \in events}

(* A command that still has to report the completion of r, or tear r down. *)
Busy(r) == \E a \in Actors : cli[a].at # "idle" /\ cli[a].victim = r

(* Re-running a label replaces its run: two payloads of a label never run  *)
(* at once, for they would write one .output and one .pgid, unless one of  *)
(* them lost its wrapper, or survived a kill that said so.                 *)
OnePayload ==
    \A r, s \in Runs \ escaped :
        Running(r) /\ Running(s) /\ label[r] = label[s] => r = s

(* The sentinel keeps the completion of a run from being reported twice,   *)
(* by the killer and the wrapper, unless the wrapper looked for it after   *)
(* the killer had decided to report and before the sentinel was there.     *)
ReportedOnce == \A r \in Runs \ raced : Cardinality(Reporters(r)) <= 1

(* No completion is swallowed, by the sentinel of an earlier run or by two *)
(* reporters that leave it to each other: a run whose wrapper is through   *)
(* was reported, unless the wrapper was killed on its way to it.           *)
CompletionKept ==
    \A r \in Runs \ cut :
        wrapper[r] \in {"asleep", "gone"} /\ ~Busy(r) => Reporters(r) # {}

(* A queue item does not stay running for ever when its payload has ended: *)
(* the wrapper or the killer settles it.                                   *)
ItemsSettle ==
    \A r \in Runs :
        payload[r] \in {"ok", "failed"}
            ~> item[bound[r]] \in {"done", "abandoned"} \/ r \in cut

-----------------------------------------------------------------------------
(* The documents say more than the code does.                              *)

(* workload.rs: the killed event "is still emitted EXACTLY ONCE".          *)
AtMostOnce == \A r \in Runs : Cardinality(Reporters(r)) <= 1

(* workload.rs: "skipped here when the wrapper already wrote its .exit     *)
(* marker, because it emits its own".                                      *)
WrapperEmitsItsOwn ==
    \A r \in Runs :
        wrapper[r] \in {"asleep", "gone"} /\ ~Busy(r) => Reporters(r) # {}

(* workload.rs, of --confirmed-dead: "the process demonstrably terminated".*)
ConfirmedDeadIsDead ==
    \A r \in Runs : item[bound[r]] = "abandoned" => ~Running(r)

(* queue.md: the item that the new run was given is "carried over: left    *)
(* running" by the teardown of the old one.                                *)
CarriedItemLeftRunning ==
    [][\A a \in Actors :
          cli[a].op = "carry" /\ cli[a].victim # 0
                  /\ cli[a].at \in CliAt \ {"idle", "pane", "save"} =>
              LET q == bound[cli[a].victim]
              IN  item[q] = "running" => item'[q] = "running"]_vars

(* workload.rs: a leftover sentinel "can suppress at most the wrapper emit *)
(* of the run that was killed".                                            *)
SentinelSuppressesItsOwn ==
    [][\A r \in Runs :
          wrapper[r] = "marked" /\ wrapper'[r] = "asleep" =>
              \E a \in Actors : cli[a].victim = r \/ <<r, a>> \in events]_vars

(* workload.rs: "the registry tracks panes": what has a live pane can be  *)
(* killed, by `workload kill` or before the session is recreated.          *)
RegistryTracksPanes ==
    (\A a \in Actors : cli[a].at = "idle") =>
        \A r \in Runs : PaneAlive(r) => registry[label[r]] # 0
=============================================================================
