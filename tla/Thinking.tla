------------------------------ MODULE Thinking ------------------------------
(***************************************************************************)
(* The foreground monitor (src/policy.rs, check_foreground_inner) and the  *)
(* detection of API retries before it.  A turn that thinks without any     *)
(* progress is asked by an obligation, then interrupted, at longer and     *)
(* longer intervals; a command that blocks the prompt is interrupted once. *)
(***************************************************************************)
EXTENDS DaemonGates

CONSTANTS
    ThinkThreshold, \* threshold_seconds
    Multiplier,     \* thinking_backoff_multiplier
    MaxBackoff,     \* max_thinking_backoff
    MinDelta,       \* min_tokens_delta
    AckFresh,       \* ack_fresh_secs
    ThinkDwell,     \* obligation_dwell_secs
    ThinkCooldown,  \* post_interrupt_cooldown_secs
    RetryThreshold, \* api_retry.consecutive
    RetryMax        \* api_retry.max_stuck_secs

ASSUME ThinkAssumption ==
    /\ ThinkThreshold \in Nat \ {0} /\ MinDelta \in Nat \ {0} /\ RetryMax \in Nat \ {0}
    /\ {Multiplier, MaxBackoff, AckFresh, ThinkDwell, ThinkCooldown, RetryThreshold} \subseteq Nat

VARIABLES
    think,    \* thinking_start, thinking_episode_start_tokens (as the growth
              \* since), thinking_interrupt_count, thinking_obligation_armed_at
    retry,    \* api_retry_consecutive, api_retry_first_seen
    foreground,    \* foreground_start, foreground_alerted
    globe,    \* last_interrupt_at, global_interrupt_streak
    ack,      \* age of the last event-ack
    silent,   \* history: passes of thinking without growth, up to MaxBackoff
    untouched,\* history: passes of a turn that shows no life at all, but for those
              \* in which an interrupt was ruled out
    last,     \* history: age of the last interrupt that was typed, of any kind
    rash      \* history: an interrupt was typed at a turn that had grown, and one
              \* within the cooldown of another

thVars == <<think, retry, foreground, globe, ack, silent, untouched, last, rash>>

NotThinking == [start |-> None, grown |-> None, count |-> 0, armed |-> None]
NoRetry == [count |-> 0, first |-> None]
NotBlocked == [start |-> None, alerted |-> FALSE]

\* What a pass finds.  tokens: the growth of the count since the last pass,
\* or a counter that was reset, or a count that is not read.
Unread == -2
Dropped == -1
Views == [thinking : BOOLEAN, busy : BOOLEAN, retrying : BOOLEAN, agents : BOOLEAN,
          workload : BOOLEAN, tokens : Unread..MinDelta]

-----------------------------------------------------------------------------
\* evaluate_api_retry_state
RetryNow(view) ==
    IF ~view.retrying THEN NoRetry
    ELSE [count |-> Least(retry.count + 1, RetryThreshold),
          first |-> IF retry.first = None THEN 0 ELSE Older(retry.first, RetryMax + 1)]
Retrying(view) ==
    /\ view.retrying /\ RetryNow(view).count >= RetryThreshold
    /\ RetryNow(view).first <= RetryMax

\* thinking_backoff_threshold_with_multiplier
BackoffUncapped(count) == ThinkThreshold * Multiplier^count
Backoff(count) ==
    LET widened[n \in 0..count] ==
            IF n = 0 THEN ThinkThreshold ELSE Least(widened[n - 1] * Multiplier, MaxBackoff)
    IN  Least(widened[count], MaxBackoff)

ProgressedIdly(view) ==
    [think EXCEPT !.start = Older(@, MaxBackoff), !.armed = Older(@, ThinkDwell)]
\* apply_thinking_token_progress: a turn whose count grew by the floor since
\* the baseline, or fell, starts anew.
Progressed(view) ==
    LET t == [think EXCEPT !.start = Older(@, MaxBackoff), !.armed = Older(@, ThinkDwell)]
    IN  IF view.tokens = Unread THEN t
        ELSE IF t.grown = None THEN [t EXCEPT !.grown = 0]
        ELSE IF view.tokens = Dropped \/ t.grown + view.tokens >= MinDelta
        THEN [t EXCEPT !.start = 0, !.grown = 0]
        ELSE [t EXCEPT !.grown = @ + view.tokens]

\* What a new start of the timer takes as its baseline.
Baseline(view) == IF view.tokens = Unread THEN None ELSE 0

\* What a pass asks for: of a session that does not think, or retries, not the count, the
\* agents and the workloads; of one that retries, not whether a command blocks it.
InView(view) ==
    /\ ~view.thinking \/ Retrying(view) => view.tokens = 0 /\ ~view.agents /\ ~view.workload
    /\ view.busy => ~Retrying(view)

AckAge == Older(ack, AckFresh)
GlobeNow == [globe EXCEPT !.last = Older(@, 2 * ThinkCooldown)]
LastNow == Older(last, ThinkCooldown)

\* The timer of the turn has run out, and the turn is not alive in another way.
Expired(t) == t.start # None /\ t.start >= Backoff(t.count)
AckedLately == AckFresh > 0 /\ Within(AckAge, AckFresh)
Stalled(view) == Expired(Progressed(view)) /\ ~view.workload /\ ~AckedLately
Claimed == ClaimGranted(GlobeNow, ThinkCooldown, 2, 2 * ThinkCooldown)
GlobeClaimed == GateAfterClaim(GlobeNow, ThinkCooldown, 2, 2 * ThinkCooldown)

Interrupts(view) ==
    /\ view.thinking /\ think.start # None /\ Stalled(view)
    /\ Decision(Progressed(view).armed, ThinkDwell, view.agents) = "escalate" /\ Claimed

-----------------------------------------------------------------------------
\* The foreground half: a command that blocks the prompt is interrupted once,
\* whatever the global gate says.
BlockAge == Older(foreground.start, ThinkThreshold)
ForegroundDue(view) == view.busy /\ ~foreground.alerted /\ Since(BlockAge, ThinkThreshold)
Foreground(view) ==
    foreground' = IF ~view.busy THEN NotBlocked
                  ELSE IF foreground.start = None THEN [NotBlocked EXCEPT !.start = 0]
                  ELSE [start |-> BlockAge, alerted |-> foreground.alerted \/ ForegroundDue(view)]

\* The turn moves on: it is over, the API is retried, its count grew by the floor or fell.
Grows(view) ==
    \/ ~view.thinking \/ Retrying(view)
    \/ think.grown # None /\ view.tokens \in {Dropped, MinDelta}
\* Signs of life, be they not of the turn itself: a workload, an ack since the last pass.
ShowsLife(view) == Grows(view) \/ view.workload \/ ack = 0

\* "reached" tells whether the pass gets to the foreground half.
SilenceSeen(view, thought, reached) ==
    LET typed == thought \/ (reached /\ ForegroundDue(view))
        silence == IF Grows(view) THEN 0 ELSE silent + 1
    IN  /\ last' = IF typed THEN 0 ELSE LastNow
        /\ silent' = Least(silence, MaxBackoff)
        /\ rash' = [turn |-> rash.turn \/ (thought /\ silence < ThinkThreshold),
                    apart |-> rash.apart \/ (typed /\ Within(LastNow, ThinkCooldown))
                                \/ (thought /\ ForegroundDue(view))]
        /\ untouched' = IF thought \/ ShowsLife(view) \/ view.tokens # 0 THEN 0
                        ELSE IF view.agents \/ AckedLately \/ ~Claimed THEN untouched
                        ELSE untouched + 1
        /\ ack' = AckAge
        /\ retry' = RetryNow(view)

\* The API is retried: both timers are dropped, and only they.
PassRetry(view) ==
    /\ Retrying(view)
    /\ think' = [think EXCEPT !.start = None, !.grown = None, !.armed = Older(@, ThinkDwell)]
    /\ foreground' = NotBlocked /\ globe' = GlobeNow
    /\ SilenceSeen(view, FALSE, FALSE)

\* The session does not think.
PassIdle(view) ==
    /\ ~Retrying(view) /\ ~view.thinking
    /\ think' = NotThinking /\ globe' = GlobeNow
    /\ Foreground(view) /\ SilenceSeen(view, FALSE, TRUE)

\* It begins to think, or goes on without running out of time.
PassThinks(view) ==
    /\ ~Retrying(view) /\ view.thinking
    /\ \/ /\ think.start = None
          /\ think' = [think EXCEPT !.start = 0, !.grown = Baseline(view),
                                    !.armed = Older(@, ThinkDwell)]
       \/ /\ think.start # None /\ ~Expired(Progressed(view))
          /\ think' = Progressed(view)
    /\ globe' = GlobeNow
    /\ Foreground(view) /\ SilenceSeen(view, FALSE, TRUE)

\* The time is over, but the session is alive in another way: nothing more
\* is looked at in this pass.
PassExcused(view) ==
    /\ ~Retrying(view) /\ view.thinking /\ think.start # None
    /\ Expired(Progressed(view)) /\ (view.workload \/ AckedLately)
    /\ think' = IF view.workload THEN Progressed(view)
                ELSE [Progressed(view) EXCEPT !.start = 0, !.grown = Baseline(view)]
    /\ globe' = GlobeNow
    /\ UNCHANGED foreground /\ SilenceSeen(view, FALSE, FALSE)

\* The obligation is armed or held, or the global gate denies the claim.
PassArms(view) ==
    /\ ~Retrying(view) /\ view.thinking /\ think.start # None
    /\ Stalled(view) /\ ~Interrupts(view)
    /\ think' = IF think.armed = None /\ ThinkDwell > 0
                THEN [Progressed(view) EXCEPT !.armed = 0] ELSE Progressed(view)
    /\ globe' = IF Decision(Progressed(view).armed, ThinkDwell, view.agents) = "escalate"
                THEN GlobeClaimed ELSE GlobeNow
    /\ UNCHANGED foreground /\ SilenceSeen(view, FALSE, FALSE)

\* The turn is interrupted; a command that blocks may be interrupted as well.
PassInterrupts(view) ==
    /\ ~Retrying(view) /\ Interrupts(view)
    /\ think' = [start |-> 0, grown |-> Baseline(view), armed |-> None,
                 count |-> Least(think.count + 1, 2)]
    /\ globe' = GlobeClaimed
    /\ Foreground(view) /\ SilenceSeen(view, TRUE, TRUE)

\* The agent acknowledges its events.
Ack == /\ ack # 0 /\ ack' = 0
       /\ UNCHANGED <<think, retry, foreground, globe, silent, untouched, last, rash>>

\* The daemon is started again.
ThRestart ==
    /\ think' = NotThinking /\ retry' = NoRetry /\ foreground' = NotBlocked
    /\ globe' = [last |-> 0, streak |-> 0]
    /\ silent' = 0 /\ untouched' = 0
    /\ UNCHANGED <<ack, last, rash>>

ThInit ==
    /\ think = NotThinking /\ retry = NoRetry /\ foreground = NotBlocked
    /\ globe = [last |-> 0, streak |-> 0] /\ ack = None
    /\ silent = 0 /\ untouched = 0 /\ last = None
    /\ rash = [turn |-> FALSE, apart |-> FALSE]

ThPass(view) ==
    \/ PassRetry(view) \/ PassIdle(view) \/ PassThinks(view)
    \/ PassExcused(view) \/ PassArms(view) \/ PassInterrupts(view)

ThNext == (\E view \in {v \in Views : InView(v)} : ThPass(view)) \/ Ack \/ ThRestart

ThSpec == ThInit /\ [][ThNext]_thVars

-----------------------------------------------------------------------------
\* The types of the foreground monitor's state.
ThTypeOK ==
    /\ think \in [start : Ages(MaxBackoff), grown : None..(MinDelta - 1), count : 0..2,
                  armed : Ages(ThinkDwell)]
    /\ retry \in [count : 0..RetryThreshold, first : Ages(RetryMax + 1)]
    /\ foreground \in [start : Ages(ThinkThreshold), alerted : BOOLEAN]
    /\ globe \in [last : Ages(2 * ThinkCooldown), streak : 0..2]

\* Only a turn that made no progress for the whole threshold is interrupted: no
\* growth of its count by the floor in one pass, no reset of it, no retry of the
\* API, whatever restarts and keeps the timer in between.
OnlySilentTurns == ~rash.turn

\* A turn that makes no progress is interrupted in the end: the timers that
\* are started anew, the obligation and the gate do not keep each other busy.
StallInterrupted == untouched <= MaxBackoff + ThinkDwell

\* The turns that are interrupted are those that stall.
StallsInterrupted == ThTypeOK /\ OnlySilentTurns /\ StallInterrupted

\* "After ANY interrupt fires, suppress all new interrupts for this many
\* seconds" (config.toml, post_interrupt_cooldown_secs).
InterruptsApart == ~rash.apart
=============================================================================
