-------------------------- MODULE SessionRecovery --------------------------
(***************************************************************************)
(* The dead-process branch of the daemon's pass (src/policy.rs,            *)
(* check_cycle and restart_claude): a session whose status line reads no   *)
(* tokens and no shells is dead, fresh, or not read well.  A shell prompt  *)
(* is restarted, a fresh session is told to resume, a misread one is left  *)
(* alone; and a session that was restarted is told to resume as well.      *)
(***************************************************************************)
EXTENDS DaemonGates

CONSTANTS
    ChecksRequired,    \* dead_process.checks_required
    FreshChecks,       \* dead_process.fresh_inject_checks
    RestartCooldown,   \* dead_process.restart_cooldown
    InjectExpiry,      \* the 300 s after which an inject counts as lost
    CarryMax,          \* MISPARSE_CARRY_MAX
    RecoveryWindow,    \* dead_process.active_window_secs
    RecoverySuppressions \* max_consecutive_suppressions

ASSUME RecoveryAssumption ==
    /\ {FreshChecks, RestartCooldown, InjectExpiry, CarryMax, RecoveryWindow,
        RecoverySuppressions} \subseteq Nat
    /\ ChecksRequired \in 0..FreshChecks

VARIABLES
    session,  \* what runs in the pane: "none", "shell", "fresh", "busy", "idle"
    large,    \* last_known_tokens is at least fresh_clear.max_tokens
    carry,    \* token_carry_count
    dead,     \* consecutive_dead_checks
    pending,  \* pending_resume_inject
    latch,    \* fresh_session_injected, was_alive_since_inject, last_fresh_inject
    restart,  \* last_restart
    lastTurn, \* last_active_at
    held,     \* consecutive_suppressions
    kicked,   \* history: age of the prompt this session got while it was fresh, until
              \* it reads alive
    looped,   \* history: it got another one before that one expired
    waits     \* history: passes in a row in which the session waited for the daemon

srVars == <<session, large, carry, dead, pending, latch, restart, lastTurn, held, kicked, looped, waits>>

\* What a pass reads of the session that runs: no tokens at all (a misread
\* one), background shells, a menu in front of the prompt, the markers of
\* active work, a self-clear under way; status finds the same pane, another
\* one, or none.
Sights == [blank : BOOLEAN, shells : BOOLEAN, menu : BOOLEAN, markers : BOOLEAN, handoff : BOOLEAN]

Reads(sight) ==
    /\ session \in {"shell", "fresh"} => sight.blank /\ ~sight.markers
    /\ session = "shell" => ~sight.shells /\ ~sight.menu /\ ~sight.handoff
    /\ session = "busy" => ~sight.menu
    /\ ~sight.blank => ~sight.handoff

IsIdle == session \in {"fresh", "idle"}

\* carry_forward_token_misparse
Carried(sight) == sight.blank /\ large /\ carry < CarryMax
Blank(sight) == sight.blank /\ ~Carried(sight)
Carry(sight) == IF ~sight.blank THEN 0 ELSE IF Carried(sight) THEN carry + 1 ELSE carry

LatchAge == Older(latch.age, InjectExpiry)
LatchAged == [latch EXCEPT !.age = LatchAge]
RestartAge == Older(restart, RestartCooldown)
TurnAge(sight) == IF sight.shells THEN 0 ELSE Older(lastTurn, RecoveryWindow)

\* The latch is lifted for a session that was alive, or whose inject is lost.
UnlatchedAlways == [LatchAged EXCEPT !.on = FALSE]
UnlatchedIfAlive ==
    IF latch.on /\ latch.alive THEN [LatchAged EXCEPT !.on = FALSE, !.alive = FALSE] ELSE LatchAged
Unlatched ==
    IF latch.on /\ (latch.alive \/ (Since(LatchAge, InjectExpiry) /\ ~large))
    THEN [LatchAged EXCEPT !.on = FALSE, !.alive = FALSE]
    ELSE LatchAged

Alive == IF latch.on THEN [LatchAged EXCEPT !.on = FALSE, !.alive = TRUE] ELSE LatchAged

\* The session waits for the daemon: a shell to be restarted, a fresh prompt
\* that nothing else explains to be told to go on.
Awaits(sight) ==
    \/ session = "shell"
    \/ session = "fresh" /\ ~sight.shells /\ ~sight.menu /\ ~sight.handoff /\ ~large

-----------------------------------------------------------------------------
\* What every pass does to the history.
Watch(sight, prompted) ==
    /\ kicked' = IF prompted THEN 0 ELSE IF ~sight.blank \/ sight.shells THEN None
                  ELSE Older(kicked, InjectExpiry)
    /\ looped' = (looped \/ (prompted /\ Within(Older(kicked, InjectExpiry), InjectExpiry)))
    /\ waits' = IF prompted \/ ~Awaits(sight) THEN 0 ELSE waits + 1

\* No pane and no status: the latch of a session that was alive is lifted.
PassNoSession ==
    /\ session = "none"
    /\ latch' = IF latch.on /\ (latch.alive \/ Since(LatchAge, InjectExpiry))
                THEN [LatchAged EXCEPT !.on = FALSE, !.alive = FALSE] ELSE LatchAged
    /\ restart' = RestartAge /\ lastTurn' = Older(lastTurn, RecoveryWindow)
    /\ waits' = 0 /\ kicked' = None
    /\ UNCHANGED <<session, large, carry, dead, pending, held, looped>>

\* A restarted session is told to resume as soon as it is idle; until then
\* every pass ends here.
PassPending(sight) ==
    /\ session # "none" /\ pending /\ ~sight.blank
    /\ pending' = (sight.menu \/ ~IsIdle)
    /\ session' = IF pending' THEN session ELSE "busy"
    /\ latch' = LatchAged /\ restart' = RestartAge /\ lastTurn' = Older(lastTurn, RecoveryWindow)
    /\ Watch(sight, FALSE)
    /\ UNCHANGED <<large, carry, dead, held>>

\* A session that reads alive, be it on a carried count.
PassAlive(sight) ==
    /\ session # "none" /\ ~(pending /\ ~sight.blank)
    /\ ~Blank(sight) \/ sight.shells
    /\ large' \in (IF sight.blank THEN {large} ELSE BOOLEAN)
    /\ carry' = Carry(sight) /\ dead' = 0
    /\ latch' = Alive /\ restart' = RestartAge /\ lastTurn' = TurnAge(sight)
    /\ Watch(sight, FALSE)
    /\ UNCHANGED <<session, pending, held>>

\* The dead branch.
Dead(sight) == session # "none" /\ Blank(sight) /\ ~sight.shells
Settle(sight) ==
    /\ carry' = Carry(sight) /\ lastTurn' = TurnAge(sight) /\ UNCHANGED <<session, large>>

\* A Rewind picker is cancelled first (stray_rewind_picker_should_be_cancelled).
PassPicker(sight) ==
    /\ Dead(sight) /\ session # "shell" /\ sight.menu /\ ~sight.handoff
    /\ dead' = 0 /\ latch' = LatchAged /\ restart' = RestartAge
    /\ Settle(sight) /\ Watch(sight, FALSE)
    /\ UNCHANGED <<pending, held>>

\* The second look reads tokens or shells (should_self_heal).
PassHeals(sight) ==
    /\ Dead(sight) /\ session \in {"busy", "idle"} /\ dead + 1 >= ChecksRequired
    /\ dead' = 0 /\ restart' = RestartAge
    /\ latch' = Alive
    /\ carry' = Carry(sight) /\ lastTurn' = TurnAge(sight) /\ large' \in BOOLEAN
    /\ kicked' = None /\ waits' = 0
    /\ UNCHANGED <<session, pending, held, looped>>

\* Too few checks, the cooldown of a restart, or no reason to act.
InRestartCooldown == Within(RestartAge, RestartCooldown)
Restarts == session = "shell" /\ (~Within(TurnAge([shells |-> FALSE]), RecoveryWindow)
                                  \/ held >= RecoverySuppressions)
Injects(sight) ==
    /\ session \in {"fresh", "idle"} /\ ~sight.menu
    /\ ~sight.markers /\ ~sight.handoff
    /\ dead + 1 >= FreshChecks /\ ~Unlatched.on

Due(sight) == Dead(sight) /\ dead + 1 >= ChecksRequired

PassWaits(sight) ==
    /\ Dead(sight)
    /\ dead + 1 < ChecksRequired \/ InRestartCooldown \/ (session # "shell" /\ ~Injects(sight))
    /\ dead' = Least(dead + 1, FreshChecks)
    /\ latch' = IF Due(sight) THEN Unlatched ELSE LatchAged
    /\ restart' = RestartAge
    /\ Settle(sight) /\ Watch(sight, FALSE)
    /\ UNCHANGED <<pending, held>>

\* The session was at work a moment ago: the restart is put off.
PassSuppressed(sight) ==
    /\ Due(sight) /\ ~InRestartCooldown /\ session = "shell" /\ ~Restarts
    /\ dead' = 0 /\ held' = held + 1
    /\ latch' = Unlatched /\ restart' = RestartAge
    /\ Settle(sight) /\ Watch(sight, FALSE)
    /\ UNCHANGED pending

\* restart_claude: the command is typed into the shell, or the relaunch script
\* cannot be written and nothing is recorded.
PassRestarts(sight) ==
    /\ Due(sight) /\ ~InRestartCooldown /\ Restarts
    /\ dead' = 0 /\ held' = 0 /\ latch' = Unlatched
    /\ carry' = Carry(sight) /\ lastTurn' = TurnAge(sight) /\ large' = large
    /\ \/ restart' = 0 /\ pending' = TRUE /\ session' \in {"shell", "fresh", "busy", "idle"}
       \/ restart' = RestartAge /\ UNCHANGED <<pending, session>>
    /\ waits' = 0 /\ kicked' = None /\ UNCHANGED looped

\* The fresh session is told to run its resume checklist; the prompt may get
\* lost.
PassInjects(sight) ==
    /\ Due(sight) /\ ~InRestartCooldown /\ Injects(sight)
    /\ dead' = 0 /\ restart' = RestartAge
    /\ latch' = [on |-> TRUE, alive |-> FALSE, age |-> 0]
    /\ carry' = Carry(sight) /\ lastTurn' = TurnAge(sight) /\ large' = large
    /\ session' \in {session, "busy"}
    /\ Watch(sight, TRUE)
    /\ UNCHANGED <<pending, held>>

\* The session goes on, exits, is cleared, or is closed and started again (in
\* the same pane, or in another one: then the pass that finds it resets).
Moves ==
    /\ session' \in (CASE session = "none" -> {"shell", "fresh"}
                       [] session = "shell" -> {"fresh", "none"}
                       [] session = "fresh" -> {"busy", "shell", "none"}
                       [] session = "busy" -> {"idle", "shell", "none"}
                       [] session = "idle" -> {"busy", "fresh", "shell", "none"})
    /\ kicked' = (IF session' \in {"busy", "idle"} THEN kicked ELSE None)
    /\ waits' = 0
    /\ \/ UNCHANGED <<latch, dead>>
       \/ session' \in {"fresh", "shell"} /\ dead' = 0 /\ latch' = [latch EXCEPT !.on = FALSE, !.alive = FALSE]
    /\ UNCHANGED <<large, carry, pending, restart, lastTurn, held, looped>>

\* Another detector counts a suppression, or ends the run of them.
OtherSuppression ==
    /\ held' \in {0, Least(held + 1, RecoverySuppressions)}
    /\ UNCHANGED <<session, large, carry, dead, pending, latch, restart, lastTurn, kicked, looped, waits>>

SrInit ==
    /\ session \in {"none", "shell", "fresh", "busy", "idle"}
    /\ large = FALSE /\ carry = 0 /\ dead = 0 /\ pending = FALSE
    /\ latch = [on |-> FALSE, alive |-> FALSE, age |-> None]
    /\ restart = None /\ lastTurn = None /\ held = 0
    /\ kicked = None /\ looped = FALSE /\ waits = 0

SrPass(sight) ==
    /\ Reads(sight)
    /\ \/ PassPending(sight) \/ PassAlive(sight) \/ PassPicker(sight) \/ PassHeals(sight)
       \/ PassWaits(sight) \/ PassSuppressed(sight) \/ PassRestarts(sight) \/ PassInjects(sight)

SrNext ==
    \/ PassNoSession \/ Moves \/ OtherSuppression
    \/ \E sight \in Sights : SrPass(sight)

SrSpec == SrInit /\ [][SrNext]_srVars

-----------------------------------------------------------------------------
\* The types of the recovery's part of the daemon's state.
SrTypeOK ==
    /\ session \in {"none", "shell", "fresh", "busy", "idle"}
    /\ large \in BOOLEAN /\ carry \in 0..CarryMax /\ dead \in 0..FreshChecks
    /\ pending \in BOOLEAN /\ restart \in Ages(RestartCooldown) /\ lastTurn \in Ages(RecoveryWindow)
    /\ latch \in [on : BOOLEAN, alive : BOOLEAN, age : Ages(InjectExpiry)]
    /\ held \in 0..RecoverySuppressions

\* A fresh session is told to resume once: not again while it starts up
\* ("inject, startup, looks dead, reset flag, re-inject, repeat").
NoInjectLoop == ~looped

\* A shell prompt is restarted, and a fresh session is told to resume, in a
\* bounded number of passes, whatever latch, cooldown and suppression are left
\* over from the session before.
RecoveredInTime ==
    /\ session = "shell" =>
           waits <= CarryMax + Greatest(RestartCooldown, RecoveryWindow) + ChecksRequired
    /\ session = "fresh" => waits <= Greatest(Greatest(RestartCooldown, InjectExpiry), FreshChecks)
=============================================================================
