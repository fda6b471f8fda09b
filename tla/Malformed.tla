------------------------------ MODULE Malformed ------------------------------
(***************************************************************************)
(* The guard against malformed tool calls (src/policy.rs, check_cycle): a  *)
(* block that stays on the pane is nudged, a model that goes on producing  *)
(* blocks gets the hard block.                                             *)
(***************************************************************************)
EXTENDS DaemonGates

CONSTANTS
    Blocks,         \* fingerprints of malformed blocks
    NudgeAfter,     \* malformed_tool_call.consecutive
    NudgeCooldown,  \* malformed_tool_call.cooldown
    HardAfter       \* malformed_tool_call.escalate_after

NoBlock == "none"

ASSUME BlockAssumption ==
    /\ NoBlock \notin Blocks
    /\ {NudgeAfter, NudgeCooldown, HardAfter} \subseteq Nat

VARIABLES
    malformed,      \* the last malformed block in the pane's history
    strikes,    \* malformed_tool_call_consecutive
    nudges,     \* malformed_tool_call_episode_nudges
    nudged,     \* last_malformed_fingerprint
    nudgeAge,   \* last_malformed_nudge
    spent,      \* history: nudges this episode, by block, up to 2
    unnudged,    \* history: passes in a row that saw a block and did not nudge it
    unpunished  \* history: of these, the ones in the hard-block phase

mfVars == <<malformed, strikes, nudges, nudged, nudgeAge, spent, unnudged, unpunished>>

\* A pass finds: a fresh or recently cleared context; api_retrying.
BlockSights == [cleared : BOOLEAN, retrying : BOOLEAN]

Seen(sight) == IF sight.cleared THEN NoBlock ELSE malformed
HardBlock == nudges >= HardAfter
Cooling == ~HardBlock /\ Within(Older(nudgeAge, NudgeCooldown), NudgeCooldown)
AlreadyNudgedIfSoft(b) == ~HardBlock /\ nudged = b
AlreadyNudged(b) == nudged = b
NudgesSoftly(sight) ==
    strikes + 1 >= NudgeAfter /\ ~sight.retrying /\ ~AlreadyNudged(Seen(sight)) /\ ~HardBlock /\ ~Cooling
Nudges(sight) ==
    /\ strikes + 1 >= NudgeAfter /\ ~sight.retrying /\ ~AlreadyNudged(Seen(sight)) /\ ~Cooling

MfPass(sight) ==
    LET b == Seen(sight)
        fires == b # NoBlock /\ Nudges(sight)
        soft == fires /\ ~HardBlock
    IN  /\ strikes' = IF b = NoBlock \/ soft THEN 0 ELSE Least(strikes + 1, NudgeAfter)
        /\ nudges' = IF b = NoBlock THEN 0 ELSE IF soft THEN nudges + 1 ELSE nudges
        /\ nudged' = IF b = NoBlock THEN NoBlock ELSE IF fires THEN b ELSE nudged
        /\ nudgeAge' = IF fires THEN 0 ELSE Older(nudgeAge, NudgeCooldown)
        /\ spent' = IF b = NoBlock THEN [x \in Blocks |-> 0]
                    ELSE [x \in Blocks |-> IF x # b THEN 0 ELSE
                            IF fires THEN Least(spent[x] + 1, 2) ELSE spent[x]]
        /\ unnudged' = IF b = NoBlock \/ sight.retrying \/ fires \/ nudged = b THEN 0
                      ELSE Least(unnudged + 1, NudgeAfter + NudgeCooldown + 1)
        /\ unpunished' = IF b # NoBlock /\ HardBlock /\ strikes + 1 >= NudgeAfter
                            /\ ~sight.retrying /\ ~fires
                         THEN Least(unpunished + 1, 2) ELSE 0
        /\ UNCHANGED malformed

\* The model produces another block, or the block scrolls off the pane.
BlockMoves ==
    /\ malformed' \in (Blocks \cup {NoBlock}) \ {malformed}
    /\ unnudged' = 0 /\ unpunished' = 0
    /\ UNCHANGED <<strikes, nudges, nudged, nudgeAge, spent>>

MfInit ==
    /\ malformed = NoBlock /\ strikes = 0 /\ nudges = 0 /\ nudged = NoBlock /\ nudgeAge = None
    /\ spent = [x \in Blocks |-> 0] /\ unnudged = 0 /\ unpunished = 0

MfNext == (\E sight \in BlockSights : MfPass(sight)) \/ BlockMoves

MfSpec == MfInit /\ [][MfNext]_mfVars

-----------------------------------------------------------------------------
\* The types of the guard's part of the daemon's state.
MfTypeOK ==
    /\ malformed \in Blocks \cup {NoBlock} /\ nudged \in Blocks \cup {NoBlock}
    /\ strikes \in 0..NudgeAfter /\ nudges \in 0..HardAfter
    /\ nudgeAge \in Ages(NudgeCooldown)

\* A block that stays in the pane's history is answered with one nudge, soft or
\* hard, however long it stays: a second one would interrupt the model at work.
NudgedOnce == \A b \in Blocks : spent[b] <= 1

\* A new block is nudged as soon as it was seen in the required passes and the cooldown
\* has gone by: what is left over from other blocks does not shield it.
NewBlockNudged == unnudged = 0 \/ unnudged < NudgeAfter \/ unnudged < NudgeCooldown

\* "Firmer, and re-injected every cycle until the malform clears."
HardBlockEveryCycle == unpunished < 2
=============================================================================
