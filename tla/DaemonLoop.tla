------------------------------ MODULE DaemonLoop ------------------------------
(***************************************************************************)
(* The loop of the daemon around its checks (src/main.rs, run_daemon):     *)
(* the configuration that is reloaded when a file is newer, the keepalive  *)
(* and memory reminder signals (src/cadence.rs) and the reset of an idle   *)
(* session after several keepalives (src/idle_autocompact.rs).             *)
(***************************************************************************)
EXTENDS DaemonGates, FiniteSets

CONSTANTS
    KeepaliveEvery, \* [cadence] keepalive_interval_secs
    MemoryEvery,    \* the values of memory_reminder_interval_secs that the file gets
    MemoryIdle,     \* memory_reminder_idle_interval_secs
    AfterKeepalives,\* [idle_autocompact] after_keepalives
    IdleCooldown   \* [idle_autocompact] cooldown_secs

ASSUME LoopAssumption ==
    /\ {KeepaliveEvery, MemoryIdle, AfterKeepalives, IdleCooldown} \subseteq Nat \ {0}
    /\ MemoryEvery \subseteq Nat \ {0} /\ IsFiniteSet(MemoryEvery)

VARIABLES
    config,    \* what the file says, what the daemon loaded, whether the file is newer
               \* than the time the daemon remembers
    loopStage, \* "seed" before that time is sampled, "runs", "check" after the signals
    timers,    \* CadenceTracker: age of the last keepalive and reminder
    lastAck,   \* age of the last acknowledgement
    idle,      \* idle_autocompact_streak, and the age of the last reset
    savedIdle, \* the same in the state file
    facts      \* history: ages of the last sign of life and reminder, the keepalives in a
               \* row that were idle, acks since the first of them, what went wrong

loVars == <<config, loopStage, timers, lastAck, idle, savedIdle, facts>>

MemoryCap == CHOOSE m \in MemoryEvery \cup {MemoryIdle} : \A n \in MemoryEvery : n <= m
Lowest(s) == CHOOSE m \in s : \A n \in s : m <= n
LifeCap == KeepaliveEvery + 2

-----------------------------------------------------------------------------
\* run_daemon: the configuration is loaded, then its time is sampled.
LoopSeeds ==
    /\ loopStage = "seed" /\ loopStage' = "runs"
    /\ config' = [config EXCEPT !.newer = FALSE]
    /\ UNCHANGED <<timers, lastAck, idle, savedIdle, facts>>

\* An operator saves a layer of the configuration.
ConfigEdited(m) ==
    /\ config' = [config EXCEPT !.file = m, !.newer = TRUE]
    /\ UNCHANGED <<loopStage, timers, lastAck, idle, savedIdle, facts>>

\* apply_intervals: the timers keep what they have measured.
RebuiltOnReload == IF config.newer THEN [keepalive |-> None, memory |-> None] ELSE timers
KeptOnReload == timers

\* effective_memory_interval_secs
MemoryInterval(base, away) == IF away /\ MemoryIdle > base THEN MemoryIdle ELSE base

\* CadenceTracker::due, and the keepalive that is only sent into silence.
TimerDue(age, every) == age = None \/ age >= every
Pokes(t) == TimerDue(t.keepalive, KeepaliveEvery) /\ (lastAck = None \/ lastAck >= KeepaliveEvery)

\* record_keepalive_emitted: a keepalive that was not sent does not count.
AdvancedWhenDue(t) == IF TimerDue(t.keepalive, KeepaliveEvery) THEN 0 ELSE t.keepalive
KeepaliveTimer(t) == IF Pokes(t) THEN 0 ELSE t.keepalive

\* idle_autocompact::decide
IdleVerdict(away, empty) ==
    IF ~(away /\ empty) THEN "not_idle"
    ELSE IF ~Within(idle.clear, IdleCooldown) /\ idle.streak + 1 >= AfterKeepalives
    THEN "fire" ELSE "accumulate"

StreakKept(verdict, cleared) ==
    IF verdict = "accumulate" THEN Least(idle.streak + 1, AfterKeepalives) ELSE idle.streak
StreakAfter(verdict, cleared) ==
    IF verdict = "not_idle" \/ cleared THEN 0
    ELSE IF verdict = "accumulate" THEN Least(idle.streak + 1, AfterKeepalives)
    ELSE idle.streak

\* The signals of one pass: `cleared` is whether fire_idle_autocompact got its self-clear
\* started.
Signals(away, empty, cleared) ==
    LET loaded == IF config.newer THEN config.file ELSE config.loaded
        t == KeptOnReload
        poked == Pokes(t)
        reminds == TimerDue(t.memory, MemoryInterval(loaded, away))
        verdict == IdleVerdict(away, empty)
        fires == poked /\ verdict = "fire" /\ cleared
        idleRun == IF ~poked THEN facts.idleRun
                   ELSE IF away /\ empty THEN Least(facts.idleRun + 1, AfterKeepalives) ELSE 0
    IN  /\ loopStage = "runs" /\ loopStage' = "check"
        /\ cleared => poked /\ verdict = "fire"
        /\ config' = [config EXCEPT !.loaded = loaded, !.newer = FALSE]
        /\ timers' = [keepalive |-> KeepaliveTimer(t), memory |-> IF reminds THEN 0 ELSE t.memory]
        /\ idle' = IF poked THEN [streak |-> StreakAfter(verdict, fires),
                                  clear |-> IF fires THEN 0 ELSE idle.clear]
                   ELSE idle
        /\ facts' = [life |-> IF poked THEN 0 ELSE facts.life,
                     reminder |-> IF reminds THEN 0 ELSE facts.reminder,
                     idleRun |-> IF fires THEN 0 ELSE idleRun,
                     acked |-> IF poked /\ idleRun <= 1 THEN FALSE ELSE facts.acked,
                     wrong |-> facts.wrong
                        \cup {"rushed" : x \in {1 : y \in {z \in {facts.reminder} :
                                  reminds /\ Within(z, Lowest(MemoryEvery))}}}
                        \cup {"hasty" : x \in {z \in {idleRun} : fires /\ z < AfterKeepalives}}
                        \cup {"worked" : x \in {z \in {facts.acked} : fires /\ z}}]
        /\ UNCHANGED <<lastAck, savedIdle>>

\* The checks end with save_state, and the loop sleeps.
ChecksDone ==
    /\ loopStage = "check" /\ loopStage' = "runs"
    /\ savedIdle' = [idle EXCEPT !.clear = Older(@, IdleCooldown)]
    /\ idle' = savedIdle'
    /\ timers' = [keepalive |-> Older(timers.keepalive, KeepaliveEvery),
                  memory |-> Older(timers.memory, MemoryCap)]
    /\ lastAck' = Older(lastAck, KeepaliveEvery)
    /\ facts' = [facts EXCEPT !.life = Least(@ + 1, LifeCap), !.reminder = Older(@, MemoryCap)]
    /\ UNCHANGED config

\* event-ack: the main loop handles something.
Acks ==
    /\ lastAck' = 0
    /\ facts' = [facts EXCEPT !.life = 0, !.acked = TRUE]
    /\ UNCHANGED <<config, loopStage, timers, idle, savedIdle>>

\* The daemon is killed and started: timers fire at once, and what was not saved is
\* forgotten, which the history does not hold against it.
LoopRestarts ==
    /\ loopStage' = "seed"
    /\ config' = [config EXCEPT !.loaded = config.file]
    /\ timers' = [keepalive |-> None, memory |-> None]
    /\ idle' = savedIdle
    /\ facts' = [facts EXCEPT !.life = 0, !.reminder = None, !.acked = FALSE,
                              !.idleRun = AfterKeepalives]
    /\ UNCHANGED <<lastAck, savedIdle>>

LoInit ==
    /\ \E m \in MemoryEvery : config = [file |-> m, loaded |-> m, newer |-> TRUE]
    /\ loopStage = "seed"
    /\ timers = [keepalive |-> None, memory |-> None]
    /\ lastAck = None
    /\ idle = [streak |-> 0, clear |-> None] /\ savedIdle = idle
    /\ facts = [life |-> 0, reminder |-> None, idleRun |-> 0, acked |-> FALSE, wrong |-> {}]

LoNext ==
    \/ LoopSeeds \/ ChecksDone \/ Acks \/ LoopRestarts
    \/ \E m \in MemoryEvery : ConfigEdited(m)
    \/ \E away, empty, cleared \in BOOLEAN : Signals(away, empty, cleared)

LoSpec == LoInit /\ [][LoNext]_loVars

-----------------------------------------------------------------------------
\* The types of the loop's own state.
LoTypeOK ==
    /\ config \in [file : MemoryEvery, loaded : MemoryEvery, newer : BOOLEAN]
    /\ loopStage \in {"seed", "runs", "check"}
    /\ timers \in [keepalive : Ages(KeepaliveEvery), memory : Ages(MemoryCap)]
    /\ lastAck \in Ages(KeepaliveEvery)
    /\ {idle, savedIdle} \subseteq [streak : 0..AfterKeepalives, clear : Ages(IdleCooldown)]

\* cadence.rs: a session that acknowledges nothing is poked every interval; a keepalive
\* withheld because an ack was fresh does not put off the next one.
QuietPoked == loopStage = "check" => facts.life < KeepaliveEvery

\* main.rs, of 2026-08-22: saving the configuration, or the operator coming and going,
\* never brings two memory reminders closer together than the shortest interval.
RemindersApart == "rushed" \notin facts.wrong

\* An idle session is reset only when its last keepalives in a row, as many as asked
\* for, found the operator away and the queue empty.
ResetOnlyIdle == "hasty" \notin facts.wrong

\* The timers of the loop through reloads, restarts and the comings of the operator.
TimersKept == LoTypeOK /\ QuietPoked /\ RemindersApart /\ ResetOnlyIdle

\* idle_autocompact.rs:36 "nothing acked in between (i.e. no real work happened)".
NothingAckedBetween == "worked" \notin facts.wrong

\* main.rs: "the daemon picks it up within one loop interval".
EditFollowed == loopStage = "check" => config.loaded = config.file \/ config.newer
=============================================================================
