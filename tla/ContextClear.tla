---------------------------- MODULE ContextClear ----------------------------
(***************************************************************************)
(* The context monitor (src/policy.rs, check_cycle) and the processes it   *)
(* leaves behind.  A session over the threshold is warned, then asked by   *)
(* an obligation, then cleared by a detached process that waits for a      *)
(* grace period; a wedged session is cleared at once.  The monitor sees    *)
(* the session once per pass, the waiting process once per poll, and the   *)
(* agent may clear the session itself between any two of these.            *)
(***************************************************************************)
EXTENDS DaemonGates

CONSTANTS
    GracePeriod,     \* grace_period of the deferred clear
    ResetCooldown,   \* cooldown after a clear
    FallbackMax,     \* context_fallback_max_secs, the ceiling of the hook
    ContextDwell,    \* obligation_dwell_secs
    MaxArmed,        \* max_armed_secs
    WedgedThreshold, \* wedged_consecutive
    WedgedCooldown   \* wedged_cooldown

ASSUME ClearAssumption ==
    /\ {GracePeriod, ResetCooldown, FallbackMax, ContextDwell, MaxArmed, WedgedThreshold,
        WedgedCooldown} \subseteq Nat
    /\ GracePeriod <= ResetCooldown

VARIABLES
    ctx,     \* the session's context: 0 below 30000 tokens, 1 loaded, 2 over the threshold
    marker,  \* a self-clear has left its handoff marker, not yet stamped
    deferred, \* the deferred processes in their grace period: age, and stale
             \* (history: the context was reset since the process was spawned)
    driver,  \* the self-clear that holds its lock: "none", "due", or "again"
             \* (history: started for a context that was reset already)
    mon,     \* the monitor: seen, triggered, lastClear, armed, firstSeen, pid
    wedge,   \* wedged_consecutive, last_wedged_clear
    overdue, \* history: passes over the threshold with nothing to wait for
    stuck    \* history: passes wedged with no process to clear the session

ccVars == <<ctx, marker, deferred, driver, mon, wedge, overdue, stuck>>

Procs == 1..2
NoProc == [age |-> None, stale |-> FALSE]
Waits(p) == deferred[p].age # None

\* clear_child_is_running
PidRunsZombie(pid, procs) == pid # 0
PidRuns(pid, procs) == pid # 0 /\ procs[pid].age # None

ContextFinds == [api : BOOLEAN, hook : BOOLEAN, agents : BOOLEAN, claim : BOOLEAN, wedged : BOOLEAN]

ClearAge == Older(mon.lastClear, ResetCooldown)
ContextArmedAge == Older(mon.armed, MaxArmed)
SeenAge == Older(mon.firstSeen, FallbackMax)
WedgedAge == Older(wedge.last, WedgedCooldown)

-----------------------------------------------------------------------------
\* context_reset_signal: a fresh sample, or one that lost half of the last.
IsReset == ctx = 0 \/ (mon.seen = 2 /\ ctx = 1)

\* maybe_reset_context_clear, then maybe_stamp_self_clear_handoff.
ContextSeen ==
    LET aged == [mon EXCEPT !.lastClear = ClearAge, !.armed = ContextArmedAge, !.firstSeen = SeenAge,
                            !.seen = ctx]
        rested == [aged EXCEPT !.armed = None, !.firstSeen = None]
        cleared == [rested EXCEPT !.triggered = FALSE, !.pid = 0, !.lastClear = 0]
    IN  IF marker \/ (IsReset /\ mon.triggered) THEN cleared
        ELSE IF IsReset /\ mon.seen > 0 THEN [rested EXCEPT !.lastClear = 0]
        ELSE IF IsReset THEN rested
        ELSE aged

\* The threshold was crossed and a fire is not ruled out.
OverNoCooldown(m, found) == ctx = 2 /\ ~m.triggered
Over(m, found) ==
    /\ ctx = 2 /\ ~m.triggered
    /\ m.lastClear = None \/ m.lastClear >= ResetCooldown

\* context_hook_defer_allowed and should_defer_to_hook
HookDefersAlways(m, found) == found.hook
HookDefers(m, found) == found.hook /\ (m.firstSeen = None \/ m.firstSeen < FallbackMax)

MonitorDecision(m, found) ==
    ContextDecision(m.armed, ContextDwell, found.agents, MaxArmed)

Fires(m, found) ==
    /\ Over(m, found) /\ ~found.api /\ ~HookDefers(m, found)
    /\ MonitorDecision(m, found) = "escalate" /\ found.claim

\* What the threshold block leaves of the monitor, but for the process.
Judged(m, found) ==
    LET crossed == [m EXCEPT !.firstSeen = IF @ = None THEN 0 ELSE @]
    IN  IF ~Over(m, found) THEN m
        ELSE IF found.api \/ HookDefers(crossed, found) THEN crossed
        ELSE IF Fires(crossed, found)
        THEN [crossed EXCEPT !.armed = None, !.triggered = TRUE, !.lastClear = 0]
        ELSE IF MonitorDecision(crossed, found) # "escalate" /\ m.armed = None
        THEN [crossed EXCEPT !.armed = 0]
        ELSE crossed

\* spawn_deferred_clear: no second process while the recorded one waits.
Deferred(pid, procs) ==
    IF PidRuns(pid, procs)
    THEN {[pid |-> pid, procs |-> procs]}
    ELSE LET p == CHOOSE q \in Procs : procs[q].age = None
         IN  {[pid |-> p, procs |-> [procs EXCEPT ![p].age = 0]],
              [pid |-> 0, procs |-> procs]}

\* self-clear starts, spawned by the daemon or at the end of a grace period:
\* it leaves when another one holds the lock.
Started(again) == IF driver # "none" THEN driver ELSE IF again THEN "again" ELSE "due"

\* handle_wedged_pane: the count, and whether a clear is due now.
WedgeCount(found) == IF found.wedged THEN Least(wedge.count + 1, WedgedThreshold) ELSE 0
WedgeDue(found) ==
    /\ found.wedged /\ WedgeCount(found) >= WedgedThreshold
    /\ ~found.api /\ ~Within(WedgedAge, WedgedCooldown)

-----------------------------------------------------------------------------
\* One pass of the daemon.
Pass(found) ==
    LET seen == ContextSeen
        judged == Judged(seen, found)
        fires == Fires([seen EXCEPT !.firstSeen = IF @ = None THEN 0 ELSE @], found)
        aged == [p \in Procs |-> [deferred[p] EXCEPT !.age = Older(@, GracePeriod)]]
    IN  /\ \A p \in Procs : deferred[p].age < GracePeriod
        /\ marker' = FALSE
        /\ \E d \in (IF fires THEN Deferred(judged.pid, aged)
                     ELSE {[pid |-> judged.pid, procs |-> aged]}) :
              /\ deferred' = d.procs
              /\ IF WedgeDue(found) /\ ~PidRuns(d.pid, d.procs)
                 THEN mon' = [judged EXCEPT !.pid = 0] /\ driver' \in {driver, Started(FALSE)}
                 ELSE mon' = [judged EXCEPT !.pid = d.pid] /\ UNCHANGED driver
        /\ wedge' = IF WedgeDue(found) THEN [count |-> 0, last |-> 0]
                    ELSE [count |-> WedgeCount(found), last |-> WedgedAge]
        /\ overdue' = IF fires \/ ~Over(seen, found) THEN 0
                      ELSE IF found.api \/ ~found.claim THEN overdue ELSE overdue + 1
        /\ stuck' = IF /\ found.wedged /\ ~found.api /\ driver = "none"
                       /\ \A p \in Procs : ~Waits(p)
                       /\ ~WedgeDue(found) \/ PidRuns(mon.pid, deferred)
                    THEN stuck + 1 ELSE 0
        /\ UNCHANGED ctx

\* The idle session is cleared (fire_idle_autocompact) unless the recorded
\* process still waits.
IdleClear ==
    /\ ctx > 0
    /\ ~PidRuns(mon.pid, deferred)
    /\ driver' = Started(FALSE) /\ mon' = [mon EXCEPT !.pid = 0]
    /\ UNCHANGED <<ctx, marker, deferred, wedge, overdue, stuck>>

\* The deferred process polls: a context below 30000 tokens ends it, and after
\* the grace period it runs self-clear.
DeferredPoll(p) ==
    /\ Waits(p)
    /\ ctx = 0 \/ deferred[p].age = GracePeriod
    /\ deferred' = [deferred EXCEPT ![p] = NoProc]
    /\ driver' = IF ctx = 0 THEN driver ELSE Started(deferred[p].stale /\ ctx < 2)
    /\ UNCHANGED <<ctx, marker, mon, wedge, overdue, stuck>>

\* The context is thrown away: what waits is stale now.
Reset ==
    /\ ctx' = 0
    /\ deferred' = [p \in Procs |-> [deferred[p] EXCEPT !.stale = Waits(p)]]
    /\ overdue' = 0

\* self-clear gets through and leaves its marker, or does not find the pane.
SelfClear ==
    /\ driver # "none" /\ driver' = "none"
    /\ \/ Reset /\ marker' = TRUE
       \/ UNCHANGED <<ctx, marker, deferred, overdue>>
    /\ UNCHANGED <<mon, wedge, stuck>>

\* The agent runs self-clear when it is told to, or the operator types /clear.
AgentClear ==
    /\ ctx > 0 /\ Reset /\ marker' \in BOOLEAN
    /\ UNCHANGED <<driver, mon, wedge, stuck>>

\* The session works: the preamble is loaded, the context fills up.
Grow ==
    /\ ctx < 2 /\ ctx' = ctx + 1
    /\ UNCHANGED <<marker, deferred, driver, mon, wedge, overdue, stuck>>

\* The daemon is started again; the detached processes live on.
CcRestart ==
    /\ mon' = [mon EXCEPT !.armed = None]
    /\ wedge' = [wedge EXCEPT !.count = 0]
    /\ overdue' = 0 /\ stuck' = 0
    /\ UNCHANGED <<ctx, marker, deferred, driver>>

CcInit ==
    /\ ctx = 0 /\ marker = FALSE
    /\ deferred = [p \in Procs |-> NoProc] /\ driver = "none"
    /\ mon = [seen |-> 0, triggered |-> FALSE, lastClear |-> None, armed |-> None,
              firstSeen |-> None, pid |-> 0]
    /\ wedge = [count |-> 0, last |-> None]
    /\ overdue = 0 /\ stuck = 0

CcNext ==
    \/ \E found \in ContextFinds : Pass(found)
    \/ \E p \in Procs : DeferredPoll(p)
    \/ SelfClear \/ IdleClear \/ AgentClear \/ Grow \/ CcRestart

CcSpec == CcInit /\ [][CcNext]_ccVars

-----------------------------------------------------------------------------
\* The types of the monitor's state and of the processes.
CcTypeOK ==
    /\ ctx \in 0..2 /\ marker \in BOOLEAN
    /\ deferred \in [Procs -> [age : Ages(GracePeriod), stale : BOOLEAN]]
    /\ driver \in {"none", "due", "again"}
    /\ mon \in [seen : 0..2, triggered : BOOLEAN, lastClear : Ages(ResetCooldown),
                armed : Ages(MaxArmed), firstSeen : Ages(FallbackMax), pid : {0} \cup Procs]
    /\ wedge \in [count : 0..WedgedThreshold, last : Ages(WedgedCooldown)]

\* A session that stays over the threshold is not put off for ever: neither
\* by the hook, nor by the obligation, nor by agents at work.
DeferralBounded == overdue <= FallbackMax + MaxArmed

\* A wedged session is cleared, or a clear of it is under way, when the
\* threshold and the cooldown of the last attempt are over.
WedgeAttended == stuck = 0 \/ stuck < WedgedThreshold \/ stuck < WedgedCooldown

\* Two deferred clears never wait at once, although a reset forgets the first.
OneDeferred == \A p, q \in Procs : Waits(p) /\ Waits(q) => p = q

\* A context that fills up is dealt with, by one clear at a time.
ContextKeptInBounds == CcTypeOK /\ DeferralBounded /\ WedgeAttended /\ OneDeferred

\* "Auto-clear will be forced if you don't act": the context that an agent
\* cleared in time is not cleared once more (policy.rs, context monitor).
ClearForcedOnlyIfNotDone == driver # "again"
=============================================================================
