----------------------------- MODULE StuckAlert -----------------------------
(***************************************************************************)
(* A session that acknowledges nothing (src/policy.rs, check_cycle): the   *)
(* fresh-clear check, which resumes a session that sits at its prompt with *)
(* a small context, and behind it the heartbeat alert, which tells first   *)
(* and injects later, at growing intervals.  A pass that the fresh-clear   *)
(* check ends never reaches the alert; the two share the time of the last  *)
(* alert and the count of failures.                                        *)
(***************************************************************************)
EXTENDS DaemonGates, Sequences

CONSTANTS
    FastDetections,  \* fresh_clear.detections_required
    FastCooldown,    \* fresh_clear.cooldown
    Tiers,           \* alerts.escalation_tiers, as a sequence
    StuckDwell,      \* general.obligation_dwell_secs
    MaxHeld,         \* suppression.max_consecutive_suppressions
    HeldWindow       \* suppression.max_suppression_window_secs

ASSUME StuckAssumption ==
    /\ FastDetections \in Nat \ {0} /\ {FastCooldown, StuckDwell, MaxHeld, HeldWindow} \subseteq Nat
    /\ Tiers \in Seq(Nat) /\ Len(Tiers) > 0
    /\ \A i \in 1..Len(Tiers) : Tiers[i] <= Tiers[Len(Tiers)]

VARIABLES
    fast,       \* consecutive_fast_detections
    fastAlert,  \* last_fast_path_alert
    alerted,    \* last_alert
    failures,   \* consecutive_failures, up to 2
    tier,       \* alert_count, up to the last tier
    hbArmed,    \* heartbeat_obligation_armed_at
    heldBack,       \* consecutive_suppressions, first_suppression_at
    neglected   \* history: passes in a row that a silent session was not told

saVars == <<fast, fastAlert, alerted, failures, tier, hbArmed, heldBack, neglected>>

LastTier == Tiers[Len(Tiers)]
AlertCap == LastTier
HeldCap == HeldWindow + 1

\* A pass finds: the context in the fresh range and no shells; the pane idle, in
\* a dialog or teardown, or working; the last ack; a turn in the activity window;
\* subagents, workloads or a turn that thinks, "late" if the second count of
\* subagents is the first to see one; a wedged pane; the watcher-down detector,
\* which counts its suppressions in the same place, holding back or prompting.
StuckSights ==
    [fresh : BOOLEAN, screen : {"idle", "modal", "busy"}, ack : {"fresh", "stale", "missing"},
     active : BOOLEAN, work : {"none", "some", "late"}, wedged : BOOLEAN,
     watcher : {"calm", "hold", "prompt"}]
\* What a pass does not ask: a dialog when the context is not in the range, a wedged pane
\* when the ack is not fresh.
AskedFor(sight) ==
    (sight.screen = "modal" => sight.fresh) /\ (sight.wedged => sight.ack = "fresh")

\* heartbeat_stale_liveness_reason: a stale ack that something explains.
Excused(sight) == sight.work = "some" \/ sight.active
IsStuck(sight) == sight.ack = "stale" /\ ~Excused(sight)

\* ack_liveness_suppresses_clear_inject
AckSuppresses(sight) == sight.ack = "fresh" /\ ~sight.wedged

-----------------------------------------------------------------------------
\* What the fresh-clear check makes of a pass: it goes on, or the pass ends.
FastCooling == Within(Older(fastAlert, FastCooldown), FastCooldown)
HeldOut == SuppressionCapped([heldBack EXCEPT !.since = Older(@, HeldCap)], MaxHeld, HeldWindow)
HeldForever(sight) == sight.active
HeldBack(sight) == sight.active /\ ~HeldOut
FastOutcome(sight) ==
    IF ~sight.fresh THEN "reset"
    ELSE IF sight.screen = "modal" THEN "skip"
    ELSE IF sight.screen = "busy" THEN "pass"
    ELSE IF fast + 1 < FastDetections THEN "count"
    ELSE IF FastCooling THEN "cooling"
    ELSE IF AckSuppresses(sight) THEN "alive"
    ELSE IF HeldBack(sight) THEN "hold"
    ELSE "inject"

\* The tier's cooldown since the last alert of either kind.
TierOf(n) == IF n < Len(Tiers) THEN Tiers[n + 1] ELSE LastTier
TierOver == LET a == Older(alerted, AlertCap) IN a = None \/ a >= TierOf(tier)

\* The heartbeat alert of a pass that gets there: silent, or what it does.
StuckOutcome(sight) ==
    IF ~IsStuck(sight) THEN "calm"
    ELSE IF failures < 1 THEN "first"
    ELSE IF ~TierOver THEN "cooling"
    ELSE IF Decision(Older(hbArmed, StuckDwell), StuckDwell, sight.work # "none") = "escalate"
    THEN "inject" ELSE "tell"

\* What a detector that only waits leaves of the obligation's age.
ArmedAfter(outcome) ==
    CASE outcome \in {"calm", "inject"} -> None
      [] outcome = "tell" /\ hbArmed = None -> 0
      [] OTHER -> Older(hbArmed, StuckDwell)

-----------------------------------------------------------------------------
\* The pass ends in the fresh-clear check.
FastEnds(sight, outcome) ==
    /\ fast' = IF outcome \in {"count", "cooling"} THEN Least(fast + 1, FastDetections) ELSE 0
    /\ fastAlert' = IF outcome = "inject" THEN 0 ELSE Older(fastAlert, FastCooldown)
    /\ alerted' = IF outcome = "inject" THEN 0 ELSE Older(alerted, AlertCap)
    /\ failures' = IF outcome = "inject" THEN 0 ELSE failures
    /\ heldBack' = CASE outcome = "hold" -> Recorded([heldBack EXCEPT !.since = Older(@, HeldCap)])
                 [] outcome = "inject" -> NoSuppression
                 [] OTHER -> [heldBack EXCEPT !.since = Older(@, HeldCap)]
    /\ hbArmed' = Older(hbArmed, StuckDwell)
    /\ UNCHANGED tier

\* The pass goes on to the heartbeat alert.
StuckEnds(sight, outcome) ==
    /\ fast' = IF sight.fresh THEN fast ELSE 0
    /\ fastAlert' = Older(fastAlert, FastCooldown)
    /\ heldBack' = LET h == [heldBack EXCEPT !.since = Older(@, HeldCap)]
               IN  CASE sight.watcher = "hold" /\ ~HeldOut -> Recorded(h)
                     [] sight.watcher = "prompt" -> NoSuppression
                     [] OTHER -> h
    /\ failures' = IF outcome = "calm" THEN 0 ELSE Least(failures + 1, 2)
    /\ tier' = CASE outcome = "calm" -> 0
                 [] outcome \in {"tell", "inject"} -> Least(tier + 1, Len(Tiers))
                 [] OTHER -> tier
    /\ alerted' = IF outcome \in {"tell", "inject"} THEN 0 ELSE Older(alerted, AlertCap)
    /\ hbArmed' = ArmedAfter(outcome)

\* A silent session: nothing explains that its last ack is stale.
SaPass(sight) ==
    LET fo == FastOutcome(sight)
        goesOn == fo \in {"reset", "pass"}
        told == IF goesOn THEN StuckOutcome(sight) = "inject" \/ sight.watcher = "prompt"
                ELSE fo = "inject"
    IN  /\ IF goesOn THEN StuckEnds(sight, StuckOutcome(sight)) ELSE FastEnds(sight, fo)
        /\ neglected' = IF /\ sight.ack = "stale" /\ sight.work = "none"
                           /\ (sight.active => sight.fresh) /\ sight.screen = "idle" /\ ~told
                        THEN neglected + 1 ELSE 0

SaInit ==
    /\ fast = 0 /\ fastAlert = None /\ alerted = None /\ failures = 0 /\ tier = 0
    /\ hbArmed = None /\ heldBack = NoSuppression /\ neglected = 0

SaNext == \E sight \in {s \in StuckSights : AskedFor(s)} : SaPass(sight)

SaSpec == SaInit /\ [][SaNext]_saVars

-----------------------------------------------------------------------------
\* The types of the two detectors' part of the daemon's state.
SaTypeOK ==
    /\ fast \in 0..FastDetections /\ fastAlert \in Ages(FastCooldown)
    /\ alerted \in Ages(AlertCap) /\ failures \in 0..2 /\ tier \in 0..Len(Tiers)
    /\ hbArmed \in Ages(StuckDwell)
    /\ heldBack \in [run : 0..MaxHeld, since : Ages(HeldCap)]

\* The longest that each part holds the other up: the cooldown of the fast check, the
\* dwell of the obligation between two of the alert's cooldowns, and detections before
\* each hold, each step of the alert and the prompt.
NeglectBound ==
    FastCooldown + StuckDwell + 2 * LastTier + FastDetections * (MaxHeld + 3)

\* A session that sits at its prompt with a stale ack is told to resume within
\* a bounded number of passes, in whatever order its context, the activity
\* window and the two detectors' cooldowns take turns.
SilentResumed == neglected < NeglectBound
=============================================================================
