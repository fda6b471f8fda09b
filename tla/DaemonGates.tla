---------------------------- MODULE DaemonGates ----------------------------
(***************************************************************************)
(* The decisions that the detectors of the daemon share (src/policy.rs).   *)
(*                                                                         *)
(* The daemon keeps timestamps and compares what has elapsed since with a  *)
(* configured number of seconds.  A timestamp is modelled by its age, in   *)
(* passes of the daemon's loop; None is a missing one.  An age is not told *)
(* apart beyond the largest number it is compared with, its cap.           *)
(***************************************************************************)
EXTENDS Integers

None == -1
Ages(cap) == None..cap

Least(a, b) == IF a < b THEN a ELSE b
Greatest(a, b) == IF a < b THEN b ELSE a

\* One pass later.
Older(a, cap) == IF a = None THEN None ELSE Least(a + 1, cap)

\* elapsed_since(ts) with is_some_and(>= d), and with is_some_and(< d).
Since(a, d) == a # None /\ a >= d
Within(a, d) == a # None /\ a < d

-----------------------------------------------------------------------------
(* Two-phase escalation: an obligation is armed first; the session is       *)
(* interrupted when that did not help.                                      *)

\* obligation_escalation_decision: what a detector may do now.
Decision(armedAt, dwell, subagents) ==
    IF dwell = 0 THEN "escalate"
    ELSE IF armedAt = None THEN "arm"
    ELSE IF armedAt >= dwell /\ ~subagents THEN "escalate"
    ELSE "hold"

\* context_escalation_decision: the same with a limit on how long armed lasts.
ContextDecision(armedAt, dwell, subagents, maxArmed) ==
    IF /\ Decision(armedAt, dwell, subagents) = "hold"
       /\ maxArmed > 0
       /\ Since(armedAt, maxArmed)
    THEN "escalate"
    ELSE Decision(armedAt, dwell, subagents)

-----------------------------------------------------------------------------
(* The global interrupt gate: [last: age of the last interrupt, streak].    *)

\* effective_global_cooldown_secs
EffectiveCooldown(base, factor, max, streak) ==
    LET widened[n \in 0..streak] ==
            IF n = 0 THEN base
            ELSE IF widened[n - 1] * factor >= max THEN max
            ELSE widened[n - 1] * factor
    IN  IF factor <= 1 \/ streak = 0 THEN base ELSE Least(widened[streak], max)

\* interrupt_in_global_cooldown
InCooldown(gate, secs) == secs > 0 /\ Within(gate.last, secs)

\* try_claim_global_interrupt: granted, and the gate it leaves.
ClaimGranted(gate, base, factor, max) ==
    ~InCooldown(gate, EffectiveCooldown(base, factor, max, gate.streak))

GateAfterClaim(gate, base, factor, max) ==
    LET effective == EffectiveCooldown(base, factor, max, gate.streak)
        streak == IF Since(gate.last, effective) THEN 0 ELSE gate.streak
    IN  IF InCooldown(gate, effective)
        THEN [gate EXCEPT !.streak = streak]
        ELSE [last |-> 0, streak |-> streak + 1]

-----------------------------------------------------------------------------
(* The run of suppressed injects, shared by three detectors:                *)
(* [run: how many in a row, since: age of the first].                       *)

NoSuppression == [run |-> 0, since |-> None]

\* record_suppression
Recorded(sup) ==
    [run |-> sup.run + 1, since |-> IF sup.run = 0 THEN 0 ELSE sup.since]

\* should_escalate_suppression
SuppressionCapped(sup, maxRun, window) ==
    /\ sup.run > 0
    /\ \/ maxRun > 0 /\ sup.run >= maxRun
       \/ window > 0 /\ sup.since > window
=============================================================================
