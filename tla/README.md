# claude-watch in TLA+

`claude-watch` keeps one long-running Claude Code session ("the main loop")
and the agents it spawns honest: a work queue with scope locks
(`tools/session-task/session-task queue`), a daemon that watches the session's
pane, files and processes and alerts, injects keystrokes or respawns
(`src/*.rs`), a runner for detached jobs (`workload`, `hostjob`), and a bus of
events that the main loop reads and acknowledges.

This directory models the parts of it that are protocols: several processes,
one shared file, a verdict that is acted on later. Paths below are relative to
the repository.

## 1. Inventory

| Component | State | Operations | Interacts with | What is hard | What makes it correct |
|---|---|---|---|---|---|
| **Work queue verbs** `tools/session-task/session-task` | `queue.json`: items (status, scope, `task:` dependencies, priority, `group_id`), `locked_scopes` | add, register, pop, done, abandon, release, resurrect, force-start (three forms), wedge, unwedge, block, unblock, update, update-scope, depend, promote, reprioritize, prune, lock, unlock | main loop, agents, operator, hostjob, daemon | every caller at any time; groups are stored, not derived; many doors in and out of "owner" | scopes have one owner; ready items may be spawned together; order; no cycle; every item gets its turn |
| **Queue store** same file, `_queue_open_locked` ... `_queue_write_and_unlock` | `queue.json`, `.json.lock`, `.json.bak`, quarantined corrupt copies | open, write and snapshot, recover | every verb | crash between two renames, lost updates where `flock` is incoherent, corrupt files | a verb is atomic; recovery returns a state the queue was in |
| **Live agents and the orphan check** `src/active_agents.rs`, `src/queue_check.rs`, `_live_agent_for_queue` | agent records, transcripts' mtimes, `active-agents.json`, sightings, ledger, hard gate | snapshot, check, notify, gate | abandon, release, resurrect, update; event bus | evidence of different ages; a check that dies half way | no live agent's scope is handed on; an orphan is told of until it is dealt with |
| **Hostjob reconciliation** `_reconcile_hostjob_rows`, `examples/compose/bin/hostjob` | `status.json` of a job, its queue row | start, exit, reap, sweep, clean | queue | fail-soft reaper races the sweep | a finished job's row ends; a live job's row does not |
| **Quarantine notices** `_emit_quarantine_notifications`, `renotify-quarantined` | stamps in the item | notify, renotify | event bus | one-shot notices get lost | a quarantine is announced until it ends |
| **Pre-agent queue gate hook** `tools/hooks/pre-agent-queue-gate-hook` | none (reads the queue) | spawn-check before an `Agent` call | queue | check, then act | no unregistered spawn |
| **Workload runner** `src/workload.rs` | `state.json`, `.exit`, `.pgid`, `.kill-emitted`, heartbeats per label | run, kill, replace, emit-done, babysit | queue, event bus, stall detector | kill against natural exit; a label used again | one terminal event per run; heartbeats of the living only |
| **Inject path** `src/inject_lock.rs`, `inject_dispatch.rs`, `tmux.rs` | lock file, the prompt line | inject in five ways, retract, submit | daemon, CLI, operator | several processes type into one line, some of them die | one typist at a time, a clean line after it |
| **Inject intents** `src/inject_intent.rs`, `inject_menu.rs` | intent file, the dialog's cursor | submit, watch, press, sweep | CLI, daemon | a dialog that opens minutes later; lost keys | an intent answers its own dialog, or lapses |
| **Daemon's detectors** `src/policy.rs`, `state.rs` | timers, counters and latches of each, in one state file | one pass every few seconds | everything | several suppressions of one action; what an earlier episode left | whoever waits is told within a bound; nobody is interrupted, cleared or resumed against the evidence |
| **Login, credits** `check_reauth`, `check_login_expiry`, `check_credit_exhaustion`, `src/credentials.rs` | attempts, latch, watchdog; the pane's dialogs | type, answer, take away | credential store, transcript | two halves of one pass over one pane | a proved failure is never silent; a budget is not given back |
| **Update, respawn** `check_auto_update`, `check_auto_respawn`, `src/respawn.rs` | update flag, hang signals, last respawn | stop, launch, resume; kill, launch | daemon's passes | a task next to the passes; a stop in the middle | a session that runs and was told to go on, once |
| **Daemon's loop** `src/main.rs`, `cadence.rs`, `idle_autocompact.rs` | signal timers, idle streak, time of the configuration | signal, reload, reset an idle session | event bus, operator | reloads and restarts between two signals | signals neither crowd nor cease; a reset only of the idle |
| **Alert gate** `src/obligation_arm.rs`, `tools/claude-watch-ack`, `tools/hooks/pre-tool-claude-watch-alert-gate-hook` | pending alerts in one JSON file | arm, acknowledge, gate | daemon, main loop | two writers, one temporary file | an alert nobody read stays |
| **Autoresolve** `src/autoresolve.rs` | candidate, limiter, trip | answer Yes, answer No, give up | the pane | the dialog changes between look and key | Yes only where a rule allows; no dialog left |
| **Event bus** `src/event_bus.rs`, `tools/claude-event`, `tools/event-must-act`, `tools/watchers/claude-event-watch` | directory of files, pending keys, page ledger | emit, surface, ack, page | everything | crashes between two of print, log, ingest, remove | every event is surfaced; every alarm is answered |
| **Watchers** `src/watcher.rs`, `src/status.rs` | processes, pid records, locks, two configuration layers | run, stop, arm, toggle, list | event bus, daemon | overlapping runs; readers in another environment | one poller of a watcher; the status is so |
| **Task panes** `src/task_watch.rs` | panes of a tmux session, tracked and pending lists | sync, sweep, poll, recreate | workloads, tmux | panes and sessions that come and go | only own panes are closed, and none at work |
| **Stale ready** `src/stale_ready.rs` | ledger of told items | tick | queue, event bus | a tick that dies half way | told once, recorded only when told |
| **Agent kill** `src/agent.rs` | none (reads processes and logs) | list, kill, kill-all | agents, watchers | processes fork and exit meanwhile | what was signalled is dead, who cannot be is named |
| **Meters** `src/token_usage.rs`, the desk streak of `src/metrics.rs` | cache of transcripts, sidecar | collect, save, print | Prometheus, transcripts | data that disappears | a counter never goes down or double; a run was witnessed |
| **Screen and panes** `src/tmux.rs`, `src/status.rs` | none (reads the screen and `/proc`) | activity, tokens, liveness, pane, version | all detectors | remains of earlier turns, reused indices and pids | what is read is so |
| Obligations `tools/obligations`, `hook_fire.rs`, `reminders.rs` | small marker files | scan, stamp | hooks, daemon | - | - |
| Configuration, metrics, logging, exporters, dashboards, minisite, container, examples | - | views and packaging | - | - | - |

## 2. Plan

Done:

1. **The work queue.** `WorkQueue` with every verb that changes an item,
   `ScopeLock` as what it promises; proofs of exclusion, of the refinement and
   of what the groups are for.
2. **The queue store.** `QueueStore`, the file protocol under the verbs (lock,
   read, rename, `.bak`, crash, recovery), and `DurableSet` as what it promises;
   proofs of both in one lock domain.
3. **The workload runner.** `Workload`: the wrapper of a run against the
   commands that kill or replace it; proofs of its safety properties for one
   command at a time. `Babysit`: the heartbeats of a run and who waits for it.
4. **The daemon.** One module for each detector that keeps state of its own, the
   loop around them, what they read off the screen and what `metrics` prints:
   section 3, `MCDaemon` and `MCSession`.
5. **The processes around it**: watchers, the alert file, the orphan check, task
   panes, stale items, the event queue, kills: `MCServices`. The safety
   properties of points 4 and 5 are proved for all values of the constants, in
   `DaemonProofs`, `SessionProofs` and `ServiceProofs`.

Left, in this order:

6. `QueueAgents`: agents that outlive the session, the liveness records read
   before the queue's lock, quarantine, resurrect's second check, renotify.
7. `Hostjob`: reaper, sweep and `clean`, composed with the queue rows.
8. `ScopeTokens`: `_tokens_overlap` on short token strings, against a reference
   definition, to discharge `OverlapAssumption`.
9. Compositions: `StuckAlert` and `Thinking` over the screen of `ScreenReading`
   instead of sights of their own; `InjectPath` under `Autoresolve`.
10. Proofs: what holds of two commands at one label (the runs of `Workload` with
    two actors).

## 3. Modules

| Module | What it is |
|---|---|
| `ScopeLock` | the promise: items hold tokens; a grant never clashes unless it is forced |
| `WorkQueue` | the verbs of `session-task queue` |
| `MCWorkQueue` | its TLC instances |
| `WorkQueueProofs` | type correctness, scope exclusion, and that `WorkQueue` implements `ScopeLock` |
| `WorkQueueGroupProofs` | what the serialization groups are for; dependencies stay acyclic and are all that blocks |
| `DurableSet` | the promise: a set of updates that keeps what was reported |
| `QueueStore` | `queue.json`, its lock and its snapshot |
| `MCQueueStore` | its TLC instances |
| `QueueStoreProofs` | type correctness; no reported update is lost; `QueueStore` implements `DurableSet`; what two lock domains cost |
| `Workload` | runs of detached jobs and the commands that end them |
| `WorkloadProofs` | type correctness, one payload of a label at a time, completions reported once and never swallowed |
| `DaemonGates` | ages, cooldowns, suppression runs and the interrupt gate that the detectors share |
| `WatcherDown`, `ContextClear`, `SessionRecovery`, `Thinking`, `StuckAlert`, `DaemonLoop` | the detectors of how the session gets on, and the loop |
| `WatcherStatus`, `TokenTally`, `DeskStreak` | what the status and the meters say |
| `MCDaemon` | the TLC instance of these nine |
| `Login`, `Credits`, `AutoUpdate`, `AutoRespawn`, `Prompts`, `Malformed` | the episodes in which the daemon types, answers or restarts |
| `InjectPath`, `InjectIntent`, `Autoresolve` | typing into the prompt line and answering dialogs |
| `ScreenReading`, `PaneChoice` | what is read off the screen and of which pane |
| `MCSession` | the TLC instance of these eleven |
| `WatcherRun`, `AlertGate`, `Orphans`, `TaskPanes`, `StaleReady`, `EventSpool`, `AgentKill`, `Babysit` | the processes around the daemon |
| `MCServices` | the TLC instance of these eight |
| `DaemonProofs` | the properties of the nine of `MCDaemon`, for all their settings |
| `SessionProofs` | the properties of the eleven of `MCSession` |
| `ServiceProofs` | the properties of the eight of `MCServices` |

### WorkQueue

Each verb runs under the exclusive lock of `_queue_open_locked` from its read
to its write, so a verb is one action. Its refusals are its guards. The state is
what the verbs decide on:

| Variable | Code |
|---|---|
| `status[i]` | `status`; `absent` before `add` and after `prune` |
| `scope[i]` | the serializing tokens of `scope` (`_serializing_scope`) |
| `deps[i]` | the targets of its `task:<id>` tokens (`_iter_dep_ids`) |
| `prio[i]`, item number | `priority`, `created_at`: `_sort_key` |
| `group[i]` | `group_id`; a label, of which only equality counts. The label of a component is the set of its members |
| `locked` | `locked_scopes` |
| `issued` | how many ids `_new_id` gave out |
| `unchecked` | a history variable: the owners that were let in, or whose scope was changed, by a verb that makes no conflict check (`force-start --no-interrupt`, `--new-scope`, `unblock --force`, `update-scope --add`, `update --scope`) |

`Regroup` is `_recompute_groups`: the connected components of the serializing
items under overlap; a blocked or finished item joins a component only when it
overlaps exactly one. `Commit` is `_recompute_group_heads` and the write: every
verb that calls it in the code uses it here, and `WidenScope`, `NarrowScope`,
`Prune` and the quiet half of `SetDeps` do not, as in the code. `Ready` is
`_item_is_ready`, `SpawnClear` `_spawn_check`, `Conflicts`
`_running_scope_conflicts`.

Abstractions:

- Tokens are a small set with a symmetric, reflexive `Overlaps`, for which `*`
  overlaps everything (`OverlapAssumption`); `_tokens_overlap` itself is not
  modelled yet. The instances use the overlap of a repository with two of its
  paths.
- Two items never share a `created_at`; ids are never used again.
- The refusals that depend on a live agent (`abandon --confirmed-dead`,
  `release`, `update`) may go either way: the verb is modelled with its effect,
  and refusing it is a step not taken.
- Verbs that only annotate an item (assign, heartbeat, set-summary,
  set-block-reason) and `list`'s reconciliation of hostjob rows are left out.
- `Verbs` is the set of verbs that the callers of an instance use. The theorems
  hold for any set, or name the verbs they exclude.

### ScopeLock

`held[i]` is the scope an item owns. `Grant` is a claim, perhaps after some
holders were made to give theirs up (force-start); `Force` is a claim or a
change that nobody checked; `Yield` gives tokens up.

### QueueStore and DurableSet

One level below `WorkQueue`: why a verb may be one action there. A verb takes
the lock and reads (`Open`: `_queue_open_locked`, `_read_queue_with_recovery`),
renames the new document over `queue.json` (`Replace`: `_atomic_write_text`),
then over `.bak` (`Snapshot`), and lets the lock go (`Unlock`), or lets it go
without writing (`Close`). A process may die at each of these points.

| Variable | Code |
|---|---|
| `kind`, `doc` | what is in `queue.json`: a whole document, one with a fragment behind it, no leading document, nothing; and the leading document |
| `bak` | `queue.json.bak` |
| `pc[p]`, `seen[p]` | where a verb is, and the document it holds |
| `written`, `acked` | updates written, and those whose verb reported success |
| `alarm` | history: the damage that the last reading alerted of |

A document is the set of the updates its writers had seen: what it says is the
business of `WorkQueue`. The lock is not a variable: it is held by whoever is
not idle, among the processes of one `Domain` (the host, or a container: their
`flock`s do not see each other). Temporary files are left out, since nothing
reads them, as are the quarantined copies of a damaged file.

`DurableSet` is a register of updates: applied one at a time, reported when
they are in; only one that was not reported may be lost, in a recovery from the
snapshot.

### Workload

A run is a payload in a session of its own and a wrapper, the process of a tmux
pane. The payload notes its process group (`RecordPgid`); when it has ended the
wrapper writes `.exit` (`WriteExit`) and starts `emit-done`, which consumes a
killer's sentinel and stops (`TakeSentinel`), or emits the event (`EmitOwn`) and
settles the queue item (`SettleOwn`). `workload kill` and a `run` of a label that
is alive share one teardown: `CheckPane` to `Drop`. `run` goes on with `Clean`,
`Bind` (a queue item: new, or with `carry` the one of the replaced run), `Start` and
`Save`.

| Variable | Code |
|---|---|
| `registry[l]` | the label's entry of `state.json`; a command reads it all when it starts (`view`) and writes it all back |
| `exitFile[l]`, `sentinel[l]`, `pgid[l]` | `<label>.exit`, `.kill-emitted`, `.pgid` |
| `payload[r]`, `wrapper[r]` | the processes of run `r`, at the steps between which another process can get in |
| `cli[a]` | the command of process `a`: its step, what it read, whom it kills |
| `item[q]`, `bound[r]` | the queue item, and which one a run has |
| `events` | who emitted the completion of which run |
| `raced`, `cut`, `escaped` | history: the wrapper passed a killer's window; a reporter was stopped before it had reported; a payload outlived its wrapper or a kill |

`Actors` with one member is one command at a time, the way an operator or the
main loop uses it; nothing in the code enforces it. `Faults` switches on a wrapper
that dies, an interrupted command, a pane that does not open, a queue that
refuses or registers only half, and a payload that survives SIGKILL's grace.

Abstractions: an `emit-done` that runs is a descendant of the pane and dies with
`kill_tree`, the wrapper's shell does not; the EXIT trap's removal of `.pgid` is
part of the step that ends the pane; a queue transition, once called, succeeds;
a command is not interrupted between opening a pane and saving the registry;
`task init --recreate`, which runs the same teardown for every label, is left
out.

### The daemon: time, passes and sights

A pass of the daemon (`check_cycle`) runs its detectors one after another. Each
module takes one of them: a pass is one action, in which the detector sees the
session (a *sight*: what its readers may return in this state, chosen by `\E`),
decides as the code decides, and stores what the code stores. Between two
passes the session, the agent, the operator and the detached processes move.

- The code keeps timestamps and compares `now - then` with a number of seconds.
  A timestamp is its age in passes, `None` when it is missing, and an age is not
  told apart beyond the largest number it is compared with (`DaemonGates`).
- What the other detectors do to shared state (the interrupt gate, the run of
  suppressions) is an action of the module that reads it: `OtherInterrupt`,
  `OtherSite`, `OtherSuppression`.
- A restart of the daemon keeps what `save_state` wrote and drops what
  `load_state` clears: `WdRestart`, `CcRestart`, `ThRestart`, `PpRestart`,
  `RsRestart`, `AuRestart`, `LoopRestarts`.
- The "in time" properties bound the passes of a wait by the constants of the
  configuration. They are invariants over a history counter, so they need no
  fairness but that passes happen, which is what they count.

| Module | State and code | Steps besides the pass | What is stated |
|---|---|---|---|
| `WatcherDown` | `missing`, event and prompt per watcher; suppressions; gate (policy.rs 9156-9965) | other prompts and interrupts, restart | `DownWatchersTold`: a watcher that is down was named, or the common cooldown runs; loud in time however busy the session is; the shared suppression run is capped |
| `ContextClear` | trigger, last clear, obligation, pid of the deferred process, wedge counter | deferred polls, self-clear, `/clear`, growth | `ContextKeptInBounds`: deferral is bounded, a wedged session is attended, one deferred clear at a time |
| `SessionRecovery` | dead checks, latch, pending resume, restart cooldown, token carry | the session starts, works, dies | part of `SilenceEnds`: no inject loop; a shell or fresh session waits a bounded time |
| `Thinking` | thinking start, growth, count, obligation; foreground; API retries | acks, other interrupts | `StallsInterrupted`: only silent turns, and all of them |
| `StuckAlert` | fast detections, tiers, failures, obligation | acks | part of `SilenceEnds`: a silent session at its prompt is told |
| `DaemonLoop` | signal timers, idle streak, what configuration is loaded | edits, acks, reload, restart | `TimersKept` |
| `WatcherStatus` | processes, record files in two directories, arming intent, two layers | pollers come, die, pids recycle; edits, toggles | `StatusTrue` |
| `TokenTally` | cache of files with `missing_since`, retired sums | transcripts are written, pruned; directory unreadable; cache lost | part of `MetersTrue` |
| `DeskStreak` | sidecar, Prometheus samples | minutes, loss of either | part of `MetersTrue` |
| `Login` | detection, alert, attempts, opened dialog; credential store | self-login opens, answers, tokens lapse | part of `AccountTroubleTold` |
| `Credits` | detection, attempts, pending confirmation; transcript | turns, the operator's `/model` | part of `AccountTroubleTold` |
| `AutoUpdate` | update flag, last clear, resume flag, in memory and on disk | the eight steps of the update task, restart | part of `RestartsSafe` |
| `AutoRespawn` | hang signals, unchanged pane, last respawn | abort, kill, launch, restart | part of `RestartsSafe` |
| `Prompts` | signature, since, alerted, denies; question | dialogs move; the confirming capture | part of `PromptsHandled` |
| `Malformed` | strikes, nudges, last fingerprint | blocks move | part of `PromptsHandled` |
| `InjectPath` | the line as the writers of its parts, the lock | five modes of injectors, crash, operator | `LineKept` |
| `InjectIntent` | queued command, cursor, intent file | key by key, lost keys, foreign dialogs, crash | `IntentServes` |
| `Autoresolve` | candidate, answered, limiter, trip | the screen changes before each key | `DialogsResolved` |
| `ScreenReading` | the lines of the screen as sets of marks; the readers are operators | turns, agents, background work, overlay | part of `SightTrue` |
| `PaneChoice` | panes by index, processes, session markers, installed version | panes open, close; pids recycle; updates by two installers | part of `SightTrue` |

### The processes around the daemon

| Module | State and code | Steps | What is stated |
|---|---|---|---|
| `WatcherRun` | steps of each run, its poller, the record, the lock | `watcher-ctl run` step by step, kill -9 of a run, SIGTERM, stop | `OnePollerOnRecord` |
| `AlertGate` | the alert file, its sibling, the two writers | read, open, fill, rename; acknowledge; crash | `AlertsKept` |
| `Orphans` | one item, its agents' transcripts, snapshot, sightings, ledger, gate | agents write, beat, die; check; failing check | `OrphansTold` |
| `TaskPanes` | panes and owners, tracked, pending removal, registry | sync, sweep, poll, removal, recreate; tmux restarts | `PanesClosedRight` |
| `StaleReady` | items, ledger, the tick | list, judge, send, record, fail; queue moves; ledger breaks | `LedgerTrue` |
| `EventSpool` | one file per event, watcher's step, pending key, page ledger | emit, rename, take, print, ingest, remove, ack, drain, page, crashes | `EventsServed` |
| `AgentKill` | process tree, logs per session | list, signal, look again, kill; fork, exit, context reset | `KillAccounted` |
| `Babysit` | run, marker, item's and output's heartbeat, waiter | pats, probes, beats, polls; run again | `HeartbeatsTrue` |

History variables (marked in the modules) record what a property speaks of and
no action reads. Texts, log lines and layouts are left out; a screen is the set
of marks that the readers look for.

### Compositions

`MCDaemon`, `MCSession` and `MCServices` each put several of these modules under
one specification. Their parts share no variable, so a behaviour runs one part, which
`focus` names in the initial state: the union of their state spaces is checked, not
the product. What one part sees of another is, as said, an action of its own.

## 4. Runs

The queue instances have three items: the smallest number for which one item bridges
two others, a dependency chain is longer than one edge, and an owner, its
replacement and a third party meet.

| Run | Question | Bounds |
|---|---|---|
| `wq_gate` | do the stored groups agree with the spawn gate? `TypeOK`, `ReadyIsClaimable`, `ReadyDisjoint`, `PeersInOrder` | two paths and their repository, two priorities, `promote` down to 0, no dependencies; all verbs of the life cycle, promote and prune |
| `wq_overrides` | do the overrides break the lock more than they say? `ScopeExclusion`, `ImplementsScopeLock` | two disjoint paths (clash is equality), one priority; force-start in its three forms, unblock --force, update-scope, update |
| `wq_depend` | can dependencies hold the queue back for good? `DepsAcyclic`, `NoHiddenBlocker` | one dependency per item, which suffices for chains and cycles of three; locks, prune, resurrect |
| `wq_live` | does every item get its turn? `EventuallyClaimed` | as `wq_gate`, with the verbs of a queue without an operator's override |
| `qs_recovery` | does a reported update survive? `TypeOK`, `AckedSurvive`, `ImplementsDurableSet` | three processes of one domain, two updates each, two damages of `queue.json`, crashes anywhere; no failed snapshot and no blank file, for which it is false |
| `qs_domains` | what does an incoherent `flock` cost? `LostOnlyAcross` | two processes in each of two domains, one update each: two are needed on one side to show that a domain is safe in itself |
| `wl_runs` | is every end of a run reported, once? `TypeOK`, `OnePayload`, `ReportedOnce`, `CompletionKept` | one label, one command at a time, two runs (a stale file needs a run before and one after), all faults |
| `wl_settle` | does the queue item of a run that ended leave the queue? `ItemsSettle` | the same without carry-over, where an item outlives its run on purpose |
| `wl_twice` | is the end of a killed run reported "EXACTLY ONCE"? `AtMostOnce`: no | one label, one command, two runs |
| `daemon` | does the daemon see to a session that is down, silent, stalled or full, and are its status and meters true? `DownWatchersTold`, `ContextKeptInBounds`, `StallsInterrupted`, `SilenceEnds`, `TimersKept`, `StatusTrue`, `MetersTrue` | below |
| `session` | does it type, answer and restart when it should, and only then? `RestartsSafe`, `PromptsHandled`, `LineKept`, `IntentServes`, `DialogsResolved`, `SightTrue`, `AccountTroubleTold` | below |
| `services` | do the processes around it survive each other's crashes? `OnePollerOnRecord`, `AlertsKept`, `OrphansTold`, `PanesClosedRight`, `LedgerTrue`, `EventsServed`, `KillAccounted`, `HeartbeatsTrue` | below |

Deadlock is not checked: a queue whose items are all finished and whose ids are
used up has nothing left to do, nor have stores whose updates are written,
workloads whose runs are used up, transcripts, minutes and panes that are, and an item
of the orphan check that is over.

**Bounds of `daemon`, `session`, `services`.** Intervals, cooldowns and counts are one
to five passes. They are chosen so that each pair of timers that the code compares
or chains occurs in both orders, or in the order that the defaults have and an
assumption of the module names (`ClearAssumption`, `RecoveryAssumption`,
`CreditAssumption`, `OrphanAssumption`); a larger value adds passes in
which nothing is decided. Ages are capped by the largest number they are compared
with, so no timer is cut short. Two watchers (one of them the consumer of events,
which is treated apart), two dialogs of each kind (one that replaces the other), three runs
of a watcher (one that left a poller behind, and two that race for its place), two
transcripts of three messages over two months, a week of three minutes and the start of the next, two agents of one
queue item, four pane ids for two tasks, three processes (a tool call, its child, and one that
is forked meanwhile), two alarms of one key and two overrides. The window
of the screen is 3 lines below and 7 above (10 and 15 in the code), with two rows of
agents and three lines of scroll, so that each of its parts can be pushed out.
`NeglectBound` is `FastCooldown + StuckDwell + 2 * LastTier + FastDetections *
(MaxHeld + 3)`, the bound that is proved for all settings: 18 passes in the instance, whose
worst behaviour is told after 10.

**Fairness** (`wq_live`). The main loop pops when it is told of a `queue done`,
and is woken by a keepalive otherwise: weak fairness of `PopNext`. An owner
finishes in the end, or is declared gone: strong fairness of `Done` per item,
for an item may be blocked and unblocked in between. Nothing is assumed of the
other verbs. Dependencies and locks are left out of this run, since an item may
wait for an operator for ever.

**Fairness** (`wl_settle`). Weak fairness of the steps of each wrapper and each
command: they are processes that the system schedules, and none of their steps
waits for another process but the wrapper's for its payload. Nothing says that
a payload ends, that a command is given, or that a fault happens.

The daemon's modules state no fairness. Their pass either happens or the daemon is
dead, and what must happen in the end must happen within so many passes:
stronger than liveness, and refuted by a finite behaviour.

**A sentence of the code that does not hold** (`wl_twice`): the killed event "is still
emitted EXACTLY ONCE". The killer looks for `.exit`, marks, and writes its
sentinel in three steps; a wrapper that gets in between reports too.
`ReportedOnce` says this window is the only one.

### Other statements that the models refute

They are stated in their modules as definitions and belong to no listed run. To
see one fail, check it alone: put it in place of the INVARIANTS (or as the PROPERTY,
where it is an action property) of the configuration named here, with the
constants of the last column.

Queue, store and workloads:

| Definition | Sentence | What happens | Configuration |
|---|---|---|---|
| `QuarantineExits` (property) | "Ending a quarantine - three ways" (docs/queue.md) | an edit of its dependencies makes the item blocked and frees its scope with no evidence of death | `wq_depend` with wedge and unwedge among the verbs |
| `OneRunningPerGroup` | "at most one running per group" | two disjoint owners and a pending item that overlaps both are one group; harmless for exclusion | `wq_gate` |
| `UnblockLikeRegister` (property) | "unblock re-acquires the scope exactly like a fresh register" | it asks no operator lock and no unmet dependency | `wq_depend` |
| `ResurrectNeverUnlocks` (property) | "new row carries the same scope - never unlocked in between" | the replacement is only pending; an older peer is ready before it | `wq_gate` |
| `BlockedOwnsScope` | blocked "still owns its scope so peers can't grab it" | the status sets say the opposite | `wq_gate` |
| `ResetIsNeverSilent` (property) | a reset is "NEVER silent" | a blank or missing `queue.json` is an empty queue with no alert, and `.bak` is not looked at | `qs_recovery` with blank files |
| `WrapperEmitsItsOwn` | skipped "because it emits its own" | the killer then kills the `emit-done` of the wrapper: nobody reports; `CompletionKept` says nothing else swallows one | `wl_runs` |
| `RegistryTracksPanes` | "the registry tracks panes" | two runs of two labels save their own copies; one is alive and not registered | `wl_runs` with two labels and two actors |
| `ConfirmedDeadIsDead` | "the process demonstrably terminated" | the item is abandoned as dead before the first signal | `wl_runs` |
| `CarriedItemLeftRunning` (property) | "left `running` for the new run" | the wrapper of the old run, just ended, settles it | `wl_runs` |
| `SentinelSuppressesItsOwn` (property) | "at most the wrapper emit of the run that was killed" | with two commands it suppresses another's | `wl_runs` with two actors |

The daemon (`daemon`):

| Definition | Sentence | What happens |
|---|---|---|
| `ClearForcedOnlyIfNotDone` | policy.rs:8808 "Auto-clear will be forced in {}s if you don't act." | the detached process looks only for a count below 30000: a context that was cleared and has loaded its preamble is cleared once more |
| `InterruptsApart` | config.toml:13 "After ANY interrupt fires ... suppress all new interrupts for this many seconds" | the interrupt of a blocked foreground command (policy.rs:2066) asks no gate |
| `NothingAckedBetween` | idle_autocompact.rs:33 "nothing acked in between (i.e. no real work happened)" | an ack between two keepalives leaves the streak, as long as it is not fresh when the next is due |
| `EditFollowed` | main.rs:1326 "the daemon picks it up within one loop interval" | a file written between the load and the sampling of its time is never newer |
| `NoStepDown` | token_usage.rs, head: "the counter simply continues from the current value - no downward step" | with the ledger lost, what was pruned is gone |
| `NoSpuriousBreak` | metrics.rs:1430 "never introduces spurious run breaks" | a look-back above 1,800,000 s makes the step wider than the gap; set `Step = 3` |

The session (`session`):

| Definition | Sentence | What happens |
|---|---|---|
| `HandedBack` | policy.rs:5264 "Hand the session back if an auto-fired login dialog was never consumed" | the same pass may type /login again (policy.rs:3428) |
| `ResumedOnce` | policy.rs:6049 "Sync the two fields to close that gap" | the daemon's next save writes its own copy over them; set `CleanRelaunch = TRUE` |
| `BlockedPromptTold` | policy.rs:7059 "it NAMES the state ... and, if still unanswered, it DECLINES the call" | with a fresh context the pass returns before the monitors (policy.rs:8282) |
| `HardBlockEveryCycle` | config.rs:1545 "re-injected every cycle until the malform clears" | a block that was nudged is not nudged again (policy.rs:9027) |
| `RetractsOwnOnly` | tmux.rs:2315 "this retracts our payload and nothing else" | the backspaces are counted, so they take what the operator typed behind it |
| `KeptUntilEvidence` | main.rs:2127 "Clear only on positive evidence the job is finished" | an inject that meets a foreign dialog clears the intent (inject_intent.rs:172) |
| `NeverLeftHanging` | autoresolve.rs:13 "A recognizable permission dialog is never left hanging" | a second dialog with the signature of an answered one is left (autoresolve.rs:1920) |
| `ThinkingFirst` | tmux.rs:2877 "Priority order: Thinking > ToolRunning > ..." | a completed answer above the widget is seen first |
| `IdleIsRest` | tmux.rs:185 "Prompt visible - waiting for input" | the prompt is visible while the session works; four detectors ask it |
| `OnlyTheBar` | status.rs:305 "ONLY on status bar lines" | with the bar out of the window the count of an agent's row or of the widget is taken |
| `MainPanePinned` | tmux.rs:3016 "the SAME physical main-loop pane regardless of layout churn" | the id is looked up by index each cycle: when the main pane closes it is another's |
| `UpdateByNpmSeen` | status.rs:733 "what THIS running PID loaded" | the guard against reused pids (status.rs:887) refuses the path that npm moved aside |

The services (`services`):

| Definition | Sentence | What happens |
|---|---|---|
| `ClearsWhatItKilled` (property) | watcher.rs:1850 "the pid record describes a process we just killed" | a run that started meanwhile has recorded its own poller (watcher.rs:1929) |
| `NeverHalf` | claude-watch-ack:41 "the gate hook never reads a half-written file" | both writers use one sibling (obligation_arm.rs:114): one empties what the other renames |
| `ClearedWasRead` | claude-watch-ack:308 "makes a reflexive `ack --all` that masks an unread alert impossible" | an alert that is armed between the print and the write is dropped |
| `CallNotGated` | queue_check.rs:928 "EVERY other case ... DEFAULT-OPENS" | of two agents of an item, the one whose call runs long is hidden (active_agents.rs:743) |
| `WorkloadPaneKept` | task_watch.rs:731 workload panes "must also be preserved" | a pane opened and not yet registered is swept |
| `ClosesOwnPanes` | - | with `Gaps = TRUE` a tmux server that restarts unseen reuses the ids of panes on record |
| `BypassNoted` (property) | main.rs:1387 "so it beats `claude-event-watch`'s debounce-then-delete" | a file that is drained before the pass pages nobody |
| `DoneIsTrue` | workload.rs:2382 "the wrapper died before writing its marker" | a run that writes its code between the two looks is told as a crash |

**Seen while modelling, kept by no property.** Each is in the code at the line given; the
last column says how far the models go.

| Line | What can happen | In the models |
|---|---|---|
| session-task:4307 | The reaper of a hostjob marks its row done or abandoned while the sweep of another process revives or retires the same row from status.json | In the plan as Hostjob |
| session-task:4579 | The notice of a quarantine is sent once, outside the lock; lost, it is only repeated by renotify, which stamps the row before it sends | In the plan with QueueAgents |
| workload.rs:2144 | tmux cannot open the pane: the queue item that was registered for it stays running with no run | The queue's orphan check finds it by its heartbeat; the model has the step, and ItemsSettle speaks of payloads only |
| policy.rs:2853 | A deferred self-clear that fails is not tried again while the context stays over the limit: the monitor believes it under way | SelfClear of the model may fail; DeferralBounded asks that a clear is started once per crossing of the limit, and the wedge check takes over when the session stops |
| policy.rs:7828 | After a session with many tokens the branch that repeats a lost inject is shut by last_known_tokens, until the session itself reports new ones | Unlatched has it so, on purpose (a live session whose count cannot be read looks the same); RecoveredInTime speaks of sessions that are not large |
| policy.rs:319 | The streak of global interrupts is reset exactly when the effective cooldown ends, so that it never exceeds one and the back-off of the gate has no effect | the streak is modelled as it is, so the back-off of the gate never shows |
| policy.rs:8493 | A missing ack file has no age, which counts as not stuck: the alert never fires in a session that never acknowledged anything | IsStuck of StuckAlert has it so; SilentResumed speaks of an ack that is stale |
| policy.rs:4576 | A confirmation that comes up later than the settle time allows is taken for an applied switch | The settle time is a guess of the code; ConfirmationTracked speaks of the dialogs a pass has seen |
| policy.rs:7176 | An unstable confirmation counts as an attempt: the attempts are used up with no Escape sent | The model has the count; DialogTold still holds, since the alert comes first |
| state.rs:881 | The state file is written in place: a daemon that stops in the middle starts with an empty state | load_state falls back to the defaults, which is the initial state of every module; a stop between two passes is an action of each |
| tmux.rs:1790 | interrupt_and_wait sends Escapes without the inject lock: it may cancel what another process has just typed | The interrupt is a key, not a text; the model has only what is left on the line |
| inject_dispatch.rs:329 | The self-clear in progress is looked at before the wait of up to 90 s for the lock | A self-clear is not a typist of the model |
| watcher.rs:1234 | A run right after a stop meets the poller that is still dying, and gives up | The poller is gone soon after; nothing starts it again but the next WatcherDown alert |
| watcher.rs:1244 | A pid directory that cannot be written lets a run go on without the lock | The model's lock works; the code degrades on purpose |
| watcher.rs:1682 | Two toggles at once read the same file, and the later write drops the other's switch | The model has one toggle at a time; two are the same race as the registry of workloads |
| autoresolve.rs:2005 | "survived both No keystrokes" is said also when no key was pressed | A matter of the report's wording; the give-up itself is in the model |
| queue_check.rs:1495 | The second event of an orphan cannot be written: the first is not stamped and is sent again | OrphanRetold only asks for too few |
| task_watch.rs:380 | A list of panes that times out is an empty list: every pane is forgotten, and opened a second time | The model's list never fails: it is what is open |
| stale_ready.rs:41 | The age counts from the creation of an item, not from when it became ready | An item that was blocked for long is told of at once; the model has it so |
| agent.rs:674 | A child that is forked after the tree was listed is not signalled and not reported | SignalledAreDead speaks of those signalled: the command does not look again for new ones |
| agent.rs:1031 | kill takes any pid and verifies nothing: it may be that of a watcher | The model's kill is given the pid of a tool call, as the help says |
| workload.rs:1999 | A replacing run is interrupted after the kill and before the bind: the item it carries over stays running with no run | The orphan check finds it by its heartbeat; ItemsSettle is checked without carry-over |
| workload.rs:2369 | The label is run again while somebody babysits its first run: the code of the second is told as that of the first | DoneIsTrue speaks of the run that was looked at; babysit knows a run by its label only |
| workload.rs:1661 | The EXIT trap of an old wrapper removes the heartbeat and process-group files of the run that replaced it | The model keeps one heartbeat file per label and lets its age speak |

## 5. Proofs

Checked by `tlapm`, for any number of items, any tokens and overlap relation
that satisfies `OverlapAssumption`, any priorities, and any set of verbs unless
the theorem says otherwise. The assumptions are `ConstantsAssumption` (the
constants have their types) and `OverlapAssumption`.

- `TypeCorrect`, `OwnersExclusive`. `ScopeExclusion` is not inductive: it
  says nothing of an id that was not issued yet or of a mark on an item that is
  no owner. `IInv` adds `UncheckedOwn` (only owners are marked: else a marked
  item could come back as an owner the invariant forgives) and `Fresh`
  (ids above `issued` have no item: else `add` would overwrite an owner).
  `CommitKeepsInv` is the heart: a commit keeps `IInv` if every owner it leaves
  is marked, owned the same scope before, or clashes with no other owner; each
  verb is then a matter of which of the three holds.
- `Refinement`: `Spec => ImplementsScopeLock`. Each verb changes what at most one
  item holds, or (force-start) takes from those the item overlaps.
  `OneItemStep`, `ClaimStep` and `NewItemHeld` map the three shapes to
  `Yield`/`Force`, `Grant` and a stutter.
- `ReadyItemsClaimable`, `ReadyItemsDisjoint`: if update-scope is not used, then
  `GroupsCurrent` is invariant: `OverlapJoins` shows that two overlapping items are in
  the same component (a closed set holds both or neither), so a recomputed
  group is closed under overlap, and the verbs that do not recompute the groups
  change no scope or status of a serializing item.
- `ClaimsInOrder`: under the same condition and without the force-start verbs,
  only register and pop make a pending item running, and both demand that it is
  the head of its group.
- `DependenciesAcyclic`: without update-scope and update, no loop ever closes. Either of the two
  sets the dependencies of an item without a look at them, and closes a loop at once, of an
  item on itself: TLC refutes the property with either among the verbs of `wq_depend`. `DInv` adds that
  nothing depends on an id that was not issued yet, else a new item could close a
  loop; `NoLoop` restates acyclicity by closed sets, so that no path is followed.
- `NothingElseBlocks`, for any verbs: where nothing is owned or parked, some pending item
  has all its dependencies met or the pending items wait in a circle, so of the smallest
  closed set of them the first is ready.

`QueueStoreProofs`, under `StoreAssumption` and `SafeStore` (one domain, no failed
snapshot, no blank file; `ResetIsNeverSilent` and `qs_domains` show why):

- `NoAckedLoss`, for any number of processes, updates, crashes and damages. The
  invariant adds to `AckedSurvive` that one process at most holds the lock
  (`OneHolder`), that `.bak` has what was reported and an undamaged `queue.json`
  what `.bak` has (`FilesAgree`: else a recovery could lose it), and that the
  holder's memory has both (`HolderAgrees`: else its write could).
- `StoreRefines`: each step applies one update, reports one, loses an unreported
  one, or stutters.

And of the store without `SafeStore`:

- `StoreTyped`, for any domains, damages and crashes.
- `LostOnlyAcrossEach`, under `TwoDomains`: two domains, and no damage that leaves the
  document unreadable or empty. `DomainInv` says that the holder of a domain's lock has read
  whatever its domain wrote (`OwnSeen`), and that what it read of the other domain is
  still in the document (`OthersKept`). The hypothesis is tight: TLC refutes the
  property with a third domain, which may undo what the second restored, and
  with a broken document, whose recovery is older than either domain's last write.

`WorkloadProofs`, under `WorkloadAssumption`. Type
correctness (`WorkloadTyped`) holds for any commands; the rest assumes
`OneCommand`, that `Actors` has one member, for any labels, runs and faults
(`SentinelSuppressesItsOwn` and `RegistryTracksPanes` show what two at once do):

- `OnePayloadEach`. The invariant says that a payload that did not escape has a
  wrapper that waits for it (`Guarded`), that the registry names its run, or the
  command that started it is about to (`Tracked`), and that what a command read
  at its start still holds, with the victim down before its pane is closed
  (`View`). Then a label that is free in the registry has no payload.
- `ReportedOnceEach`. A pane that is alive is the registered one (`OnePane`), so the
  files of a label speak of one run; a wrapper past its payload left the exit
  marker (`Marked`), so a killer that finds none is ahead of the wrapper; from there
  to its report either the wrapper got through the window or the sentinel stops
  it (`Deciding`), and it stops it afterwards (`KillerReported`).
- `CompletionKeptEach`. A sentinel that a run can find is one its own killer left
  (`SentinelMeant`), so a wrapper that is through was reported, will be by the killer
  at work, or had its reporter stopped (`Kept`).

`ServiceProofs`, each for any values of the module's constants and under the
assumption that the module makes of them (absent things are no things, thresholds
are numbers; `OrphanAssumption` orders three of them as the code's defaults do).
`services` checks the same formulas on the bounds above.

- `OnePollerEach`. That one poller runs is not inductive: a run between its claim and
  its record has none yet. `WrInv` adds that of the runs past the lock there is one
  (`OneRun`), and that while
  a run is between its check and its spawn no poller runs, and afterwards none but its
  own (`Alone`).
- `AlertsKeptEach`. `AgInv` adds that the two writers are not both at work unless
  `together` says so (`OneWriter`), and that what the one at work will save
  covers what is unread and what it adds, with its own sibling whole when it renames (`Saving`).
- `EventsServedEach`. `EsInv` adds that the event at hand was shown when the
  watcher is past its print, and an alarm is pending or answered when its file goes (`AtHand`), and that an override that is to be paged
  was not paged, and one that was paged was noted (`PagesApart`).
- `LedgerTrueEach`. `StInv` adds that what was told is on the ledger, archived, lost, or about
  to be recorded by the tick (`Remembered`), that what a tick's list dropped is
  archived or lost (`Dropped`), and that a tick sends only what is new (`OnlyNew`).
- `HeartbeatsTrueEach`. `BbInv` adds that what has aged and what is left of an interval
  add up: of the item, to the next pat (`PatInTime`) and the waiter's next beat
  (`BeatInTime`), of the silence of the log, to the next probe (`TouchEarned`).
- `KillAccountedEach`. `AkInv` adds that whoever is signalled has been alive, is no
  watcher and is answered for (`TargetsKnown`), that a watcher is a child of the program
  (`WatchersOfClaude`: else a tree could hold one), and that an agent told of as a survivor
  has a transcript, with what its spawn record says (`ToldOf`).
- `PanesClosedRightEach`, with `~Gaps`: the daemon sees that the session is gone before a
  new one is made. `ClosesOwnPanes` is refuted otherwise (section 4). `TpInv` adds that a tracked pane
  that is open is the task's own (`TracksOwn`), and was dealt by the tmux server that
  runs, or the daemon is about to find that server gone (`TracksDealt`).
- `OrphansToldEach`. `OrInv` adds that a transcript that reads dead is the liveliest of
  the item's, so that none is alive (`SnapshotTrue`), that what was sighted has been counted
  (`SightingsCounted`), and that a notice that stands is no younger than the silence since,
  beyond which one more run is missed at most (`SilenceMeasured`).

`SessionProofs`, under the assumptions of its modules. The theorems that speak of
several modules are of `Spec` of `MCSession`: by `Parts` a behaviour of it is one of
each module, for a module that has no focus only stutters.

- `LineKeptEach`. Unless somebody gave up on the lock, whoever works on the line
  holds it, what an injector without an excuse typed is at the end of the line, and
  who will submit has only its own there (`IpInv`).
- `IntentServesEach`. `IiInv` relates the record to the dialog: its age and attempts
  recount what was pressed, and a dialog is open only after its command ran.
- `DialogsResolvedEach`. `ArInv` bounds the wait of each stage that a dialog goes through
  (a candidate, a press, a trip) by what is left of the stage's own timer, so that the stages
  add up to `Bound`.
- `AccountTroubleToldEach`. `LgInv` and `CrInv` count the passes that kept silent against
  the age of the last alert.
- `RestartsSafeEach`. `RsInv`: the last respawn is stamped no earlier than its kill,
  unless it was left unfinished. `AuInv`: a pane that is not a shell had its session started.
- `PromptsHandledEach`. `MfInv` and `PpInv`: the record of a prompt is of the text that the
  monitors last saw, and no younger than the prompt allows.
- `SightTrueEach`. `RdInv`: a stale line is followed by the line it was completed with; from
  it the screen is described line by line, by index. `PcInv`: a process of the program has left
  the marker of its pid and runs what it loaded, and a pane is one that a process is in.

`DaemonProofs`, likewise:

- `DownWatchersToldEach` if `MaxSuppressions > 0`, `ContextKeptEach` if `MaxArmed > 0` or
  there is no dwell, `SilenceEndsEach` if `MaxHeld > 0`: 0 switches the limit off in the code,
  and with it the bound. `StallsInterruptedEach` if the back-off does not shrink (`Multiplier
  > 0`, `ThinkThreshold <= MaxBackoff`), else a turn is interrupted before its threshold.
- What makes them inductive is a measure: each pass that neglects somebody is a pass
  of a clock that runs out. `CcInv` accounts the overdue passes to the age of the
  hook and then of the obligation, and a deferred clear to the clear before it
  (`NotAfterClear`). `SrInv` has every clock that a session may wait for at least as old
  as the wait. `ThInv` has the timer of a turn never ahead of its silence. `SaInv` sums
  the clocks that run, those that start later, the steps that want a pass of their
  own and the detections before the next of these: a neglected pass lowers the sum.
- `TimersKeptEach`. `LoInv`: the last sign of life is no older than the keepalive's timer
  and the last ack say.
- `StatusTrueEach`. `WsInv`: a poller is on record in a lock file (`PollersOnRecord`), a monitor
  that came up left a record no older than the instruction, and nobody pins
  the field while the base file is rewritten.
- `MetersTrueEach`. `DsInv`: the run of a sidecar was witnessed by passes, and so by
  induction over the minutes is that of the fold of any samples; `shown` is what the sidecar
  holds while it is kept. `TtInv`: the ledger is backed (`Backs`), that is, there are days of each
  file that add up to the retired sums, and with what is still on the file's entry to what
  was read of it; only a file that is gone and has no entry has any. The lemmas
  on `SumFunction` (`SumNatural`, `SumAdds`, `SumGrows`) come from a table of the sums over
  all subsets.

**What proving changed.** `OnlySilentTurns`, `NoInjectLoop`, `NeglectBound`, `LostOnlyAcross` and
`ScreenRead` held in the instances and not for all constants: a back-off may shrink, a
limit may be off, the bound had been read off one instance, a third domain may write,
and a window may be too short for the box that it is to show. The first three got the
hypotheses or the formula above, the fourth `TwoDomains`, the fifth `ScreenAssumption` (the code has
windows of 10 and 15 lines; 1 and 7 suffice). Recursive sums and folds of the modules are
written as recursive functions or with `SumFunction`, which the provers can expand.

**Only model-checked.** Liveness under fairness is out of the prover's reach: `EventuallyClaimed`
(`wq_live`) and `ItemsSettle` (`wl_settle`); TLC checks them. Neither checked nor proved
is what still holds of two commands at one label of workloads, for which the definitions
of section 4 are refuted. Of the hypotheses, those are shown
to be needed of which section 4 or this section says that TLC refutes the property without them.

## 6. Not modelled

The plan says what is still to come: the agents behind the queue's liveness
tests, hostjobs, quarantine notices, the overlap of tokens. Left out for good:
configuration, exported gauges other than the two meters, logging, dashboards,
exporters, the minisite and packaging, which have no protocol. The text of a screen or
of a message is abstracted to what its readers look for: that a regular expression
matches what Claude Code prints is for the repository's tests. Within the modelled
parts: `task init --recreate` and the output stream of a workload, the layout of task panes, the
repetition of unanswered events every N, and the verbs of the queue that only annotate.
