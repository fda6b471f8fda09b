---------------------------- MODULE WatcherDown ----------------------------
(***************************************************************************)
(* The watcher monitor of the daemon's pass (src/policy.rs, check_cycle):  *)
(* a watcher that stays down is announced by an event first, by a prompt   *)
(* typed into the session later.  The prompt is held back while the        *)
(* session works, while the API is retried and after another prompt, and   *)
(* each of these must come to an end.                                      *)
(***************************************************************************)
EXTENDS DaemonGates

CONSTANTS
    Watchers,          \* the enabled watchers
    Consumer,          \* event_consumer_watcher_name: reads the events
    EventThreshold,    \* misses before the event
    InjectThreshold,   \* misses before the prompt
    EventGrace,        \* event_grace_secs
    InjectCooldown,    \* inject_cooldown
    MaxDown,           \* max_suppress_secs
    MaxSuppressions,   \* max_consecutive_suppressions
    SuppressionWindow, \* max_suppression_window_secs
    DownDwell,         \* obligation_dwell_secs
    GateCooldown,      \* post_interrupt_cooldown_secs
    Exempt             \* global_cooldown_exempt_watcher_down

ASSUME DownAssumption ==
    /\ {EventThreshold, InjectThreshold, EventGrace, InjectCooldown, MaxDown, MaxSuppressions,
        SuppressionWindow, DownDwell, GateCooldown} \subseteq Nat
    /\ Exempt \in BOOLEAN

VARIABLES
    health,      \* per watcher: missing, emitted, downSince
    lastPrompt,  \* last_watcher_inject
    downArmed,   \* watcher_down_obligation_armed_at
    sup,         \* consecutive_suppressions, first_suppression_at
    gate,        \* last_interrupt_at, global_interrupt_streak
    told,        \* history: who was named since it went down
    heard        \* history: the pass had no reason to hold a prompt back

wdVars == <<health, lastPrompt, downArmed, sup, gate, told, heard>>

Healthy == [missing |-> 0, emitted |-> None, downSince |-> None]
NoInterrupt == [last |-> None, streak |-> 0]

\* What a pass finds: each watcher running, in one of the grace windows, or
\* down; what the session does (busy: the loop is turning or did so within
\* active_window_secs; busy with frozen counters is as good as quiet).
Sessions == {"gone", "retrying", "quiet", "agents", "busy"}
Finds == [watcher : [Watchers -> {"up", "grace", "down"}], session : Sessions]

-----------------------------------------------------------------------------
\* One watcher in one pass: the record after the poll.
Aged(h) == [h EXCEPT !.emitted = Older(@, EventGrace), !.downSince = Older(@, MaxDown)]
Missed(h) == [h EXCEPT !.missing = Least(@ + 1, InjectThreshold),
                       !.downSince = IF @ = None THEN 0 ELSE @]
Polled(found) ==
    [w \in Watchers |->
        CASE found.watcher[w] = "up" -> Healthy
          [] found.watcher[w] = "grace" -> Aged(health[w])
          [] found.watcher[w] = "down" -> Missed(Aged(health[w]))]

\* evaluate_watcher_down_action
WantsEvent(w, h) ==
    w # Consumer /\ h.emitted = None /\ h.missing \in EventThreshold..(InjectThreshold - 1)
WantsPrompt(w, h) ==
    /\ h.missing >= InjectThreshold
    /\ w = Consumer \/ h.emitted = None \/ h.emitted >= EventGrace

Emitting(found, polled) ==
    {w \in Watchers : found.watcher[w] = "down" /\ WantsEvent(w, polled[w])}
MissingIn(found, polled) ==
    {w \in Watchers : found.watcher[w] = "down" /\ WantsPrompt(w, polled[w])}

\* watcher_down_suppression_capped
DownCapped(missing, polled) ==
    MaxDown > 0 /\ \E w \in missing : Since(polled[w].downSince, MaxDown)

Suppressed == [sup EXCEPT !.since = Older(@, SuppressionWindow + 1)]
Escalated == SuppressionCapped(Suppressed, MaxSuppressions, SuppressionWindow)

\* The cooldown of the loud path, and the global gate it may be exempt from.
PromptAge == Older(lastPrompt, InjectCooldown)
ArmedAge == Older(downArmed, DownDwell)
GateNow == [gate EXCEPT !.last = Older(@, 2 * GateCooldown)]
Claims == Exempt \/ ClaimGranted(GateNow, GateCooldown, 2, 2 * GateCooldown)
GateClaimed ==
    IF Exempt THEN GateNow ELSE GateAfterClaim(GateNow, GateCooldown, 2, 2 * GateCooldown)

\* watcher_down_obligation_decision
DownDecision(found, missing, polled) ==
    IF Escalated \/ Consumer \in missing \/ DownCapped(missing, polled)
    THEN "escalate"
    ELSE Decision(ArmedAge, DownDwell, found.session = "agents")

\* watcher_down_actively_turning, and what overrides it.
HeldByConsumerToo(found, missing, polled) ==
    found.session = "busy" /\ ~Escalated /\ ~DownCapped(missing, polled)
HeldUncapped(found, missing, polled) ==
    found.session = "busy" /\ Consumer \notin missing /\ ~DownCapped(missing, polled)
HeldByActivity(found, missing, polled) ==
    /\ found.session = "busy" /\ Consumer \notin missing
    /\ ~Escalated /\ ~DownCapped(missing, polled)

MaySpeak(found, missing) ==
    /\ missing # {} /\ found.session \notin {"gone", "retrying"}
    /\ lastPrompt = None \/ PromptAge >= InjectCooldown

-----------------------------------------------------------------------------
\* What every outcome shares: the poll, the events for which the claude-event
\* command succeeds, the passage of time.  "named" are the watchers the outcome
\* announces.
Poll(found, polled, named, free) ==
    /\ \E sent \in SUBSET Emitting(found, polled) :
          /\ health' = [w \in Watchers |->
                          IF w \in sent THEN [polled[w] EXCEPT !.emitted = 0] ELSE polled[w]]
          /\ told' = {w \in told \cup named \cup sent : found.watcher[w] # "up"}
    /\ heard' = IF free THEN MissingIn(found, polled) ELSE {}

\* Nothing to say, or no pane to say it in: the obligation is dropped.
Calm(found, polled, missing) ==
    /\ missing = {} \/ found.session = "gone"
    /\ Poll(found, polled, {}, found.session # "gone")
    /\ downArmed' = None /\ lastPrompt' = PromptAge
    /\ sup' = Suppressed /\ gate' = GateNow

\* The cooldown of the last prompt, or a retry of the API, holds it back.
Wait(found, polled, missing) ==
    /\ missing # {} /\ found.session # "gone" /\ ~MaySpeak(found, missing)
    /\ Poll(found, polled, {}, found.session # "retrying")
    /\ downArmed' = ArmedAge /\ lastPrompt' = PromptAge
    /\ sup' = Suppressed /\ gate' = GateNow

\* The session works: an event instead of the prompt.
Suppress(found, polled, missing) ==
    /\ MaySpeak(found, missing) /\ HeldByActivity(found, missing, polled)
    /\ Poll(found, polled, missing \ {Consumer}, TRUE)
    /\ sup' = Recorded(Suppressed)
    /\ downArmed' = ArmedAge /\ lastPrompt' = PromptAge /\ gate' = GateNow

\* Another detector interrupted the session not long ago.
Deny(found, polled, missing) ==
    /\ MaySpeak(found, missing) /\ ~HeldByActivity(found, missing, polled) /\ ~Claims
    /\ Poll(found, polled, {}, FALSE)
    /\ gate' = GateClaimed
    /\ downArmed' = ArmedAge /\ lastPrompt' = PromptAge /\ sup' = Suppressed

HoldSilent(found, polled, missing) ==
    /\ MaySpeak(found, missing) /\ ~HeldByActivity(found, missing, polled)
    /\ Claims /\ DownDecision(found, missing, polled) # "escalate"
    /\ Poll(found, polled, {}, TRUE)
    /\ gate' = GateClaimed
    /\ downArmed' = IF downArmed = None THEN 0 ELSE ArmedAge
    /\ lastPrompt' = PromptAge /\ sup' = Suppressed

\* The obligation is armed, or held until the dwell is over and no agent works.
Hold(found, polled, missing) ==
    /\ MaySpeak(found, missing) /\ ~HeldByActivity(found, missing, polled)
    /\ Claims /\ DownDecision(found, missing, polled) # "escalate"
    /\ Poll(found, polled, missing \ {Consumer}, TRUE)
    /\ gate' = GateClaimed
    /\ downArmed' = IF downArmed = None THEN 0 ELSE ArmedAge
    /\ lastPrompt' = PromptAge /\ sup' = Suppressed

\* The prompt is typed.
Prompt(found, polled, missing) ==
    /\ MaySpeak(found, missing) /\ ~HeldByActivity(found, missing, polled)
    /\ Claims /\ DownDecision(found, missing, polled) = "escalate"
    /\ Poll(found, polled, missing, TRUE)
    /\ gate' = [GateClaimed EXCEPT !.last = 0]
    /\ downArmed' = None /\ lastPrompt' = 0 /\ sup' = NoSuppression

\* The other two detectors that share the run of suppressions.
OtherSite ==
    /\ \/ /\ ~SuppressionCapped(sup, MaxSuppressions, SuppressionWindow)
          /\ sup' = Recorded(sup)
       \/ sup' = NoSuppression
    /\ UNCHANGED <<health, lastPrompt, downArmed, gate, told, heard>>

\* Another detector interrupts the session through the global gate.
OtherInterrupt ==
    /\ ~Exempt /\ ClaimGranted(gate, GateCooldown, 2, 2 * GateCooldown)
    /\ gate' = GateAfterClaim(gate, GateCooldown, 2, 2 * GateCooldown)
    /\ UNCHANGED <<health, lastPrompt, downArmed, sup, told, heard>>

\* The daemon is started again: load_state drops what is transient.
WdRestart ==
    /\ downArmed' = None /\ sup' = NoSuppression
    /\ gate' = [last |-> IF Exempt THEN None ELSE 0, streak |-> 0]
    /\ UNCHANGED <<health, lastPrompt, told, heard>>

WdInit ==
    /\ health = [w \in Watchers |-> Healthy]
    /\ lastPrompt = None /\ downArmed = None /\ sup = NoSuppression
    /\ gate = NoInterrupt /\ told = {} /\ heard = {}

WdPass(found) ==
    LET polled == Polled(found)
        missing == MissingIn(found, polled)
    IN  \/ Calm(found, polled, missing) \/ Wait(found, polled, missing)
        \/ Suppress(found, polled, missing) \/ Deny(found, polled, missing)
        \/ Hold(found, polled, missing) \/ Prompt(found, polled, missing)

WdNext == (\E found \in Finds : WdPass(found)) \/ OtherSite \/ OtherInterrupt \/ WdRestart

WdSpec == WdInit /\ [][WdNext]_wdVars

-----------------------------------------------------------------------------
\* The types of the watcher monitor's part of the daemon's state.
WdTypeOK ==
    /\ health \in [Watchers -> [missing : 0..InjectThreshold, emitted : Ages(EventGrace),
                                downSince : Ages(MaxDown)]]
    /\ lastPrompt \in Ages(InjectCooldown) /\ downArmed \in Ages(DownDwell)
    /\ sup \in [run : 0..MaxSuppressions, since : Ages(SuppressionWindow + 1)]
    /\ gate \in [last : Ages(2 * GateCooldown), streak : 0..2]
    /\ told \subseteq Watchers /\ heard \subseteq Watchers

\* The prompt of this pass, or the cooldown after an earlier one.
Cooling == lastPrompt = 0 \/ Within(lastPrompt, InjectCooldown)

\* A watcher past the loud threshold was named, by an event or in a prompt,
\* since it went down, unless the cooldown of a prompt is running: the
\* cooldown is shared, the prompt may have named another watcher only.
AnnouncedOrCooling == \A w \in heard : w \in told \/ Cooling

\* However busy the session is, the prompt is typed for a watcher that was
\* down for longer than max_suppress_secs, and for the event consumer, whose
\* events nobody reads.
LoudInTime ==
    \A w \in heard :
        w = Consumer \/ (MaxDown > 0 /\ Since(health[w].downSince, MaxDown))
        => Cooling

\* Three detectors suppress their injects in one shared run: none of them
\* lets it grow past the cap.
SuppressionBounded == sup.run <= MaxSuppressions

\* What the three say of the watchers that are down and of the holding back of prompts.
DownWatchersTold == WdTypeOK /\ AnnouncedOrCooling /\ LoudInTime /\ SuppressionBounded
=============================================================================
