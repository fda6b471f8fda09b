----------------------------- MODULE AutoRespawn -----------------------------
(***************************************************************************)
(* The respawn of a hung session (src/policy.rs, check_auto_respawn;       *)
(* src/respawn.rs).  Passes collect hang signals; two different ones of a  *)
(* recent window have the session killed and launched again.  The pass     *)
(* waits for the whole respawn and only then writes the state, so a daemon *)
(* that stops in between starts again with the state of the pass before.   *)
(***************************************************************************)
EXTENDS DaemonGates, FiniteSets

CONSTANTS
    NonPane,          \* the signals of the daemon's own detectors
    SignalsRequired,  \* signals_required
    SignalWindow,     \* signal_window_secs
    RespawnCooldown,  \* cooldown_secs
    UnchangedFor      \* pane_unchanged_secs

ASSUME RespawnAssumption ==
    /\ "heartbeat" \in NonPane /\ IsFiniteSet(NonPane)
    /\ {SignalsRequired, SignalWindow, RespawnCooldown, UnchangedFor} \subseteq Nat

VARIABLES
    host,      \* the session: "well", "hung", "gone"
    hang,      \* hang_signal_history: signal |-> age
    still,     \* pane_content_unchanged_since; None while there is no hash
    respawned, \* last_respawn_at
    stage,     \* "watch", or what the respawn does next
    found,     \* the claude pid the respawn has found is there
    killed,    \* history: the age of the last kill of a session
    halted,    \* history: a respawn since the last kill was never finished
    ignored    \* history: passes in which a hung session was left alone

rsVars == <<host, hang, still, respawned, stage, found, killed, halted, ignored>>

HangSignal == NonPane \cup {"pane"}

\* What a pass finds: heartbeat_stuck, a watcher down past its threshold and
\* told so lately, two thinking interrupts, two wedged clears and a late one
\* (collect_non_pane_signals); the capture of the pane; live subagents, by their
\* processes or transcripts (count_alive_subagents); the global claim.
RespawnSights ==
    [raised : SUBSET NonPane, capture : {"none", "same", "other"},
     subagents : BOOLEAN, claim : BOOLEAN]

-----------------------------------------------------------------------------
\* evaluate_pane_unchanged: the age of the content, restarted when it changed.
\* What is never kept is what a pass could compare with.
StillSinceForgotten(sight, age) ==
    IF sight.capture = "none" THEN age ELSE 0
StillSince(sight, age) ==
    IF sight.capture = "none" \/ (sight.capture = "same" /\ age # None) THEN age ELSE 0
PaneFires(sight, age) == sight.capture = "same" /\ age # None /\ age >= UnchangedFor

\* HangSignalHistory: observe, then prune_window.
Observed(sight) ==
    LET aged == [s \in HangSignal |-> Older(hang[s], SignalWindow + 1)]
        raised == sight.raised
                  \cup (IF PaneFires(sight, Older(still, UnchangedFor)) THEN {"pane"} ELSE {})
    IN  [s \in HangSignal |->
            IF s \in raised THEN 0 ELSE IF aged[s] > SignalWindow THEN None ELSE aged[s]]

DistinctActive(history) == {s \in HangSignal : history[s] # None}

ShouldRespawn(sight, history, last) ==
    /\ ~sight.subagents
    /\ Cardinality(DistinctActive(history)) >= SignalsRequired
    /\ last # None => last >= RespawnCooldown

\* What a finished respawn leaves, whatever its outcome.
StampOnSuccess(success, last) == IF success THEN 0 ELSE last
Stamp(success, last) == 0
Forgotten == [s \in HangSignal |-> None]

-----------------------------------------------------------------------------
\* A pass of the daemon.  One that respawns has changed nothing on disk yet.
RsPass(sight) ==
    LET history == Observed(sight)
        last == Older(respawned, RespawnCooldown)
        goes == ShouldRespawn(sight, history, last) /\ sight.claim
    IN  /\ stage = "watch"
        /\ sight.capture # "none" => host # "gone"
        /\ stage' = IF goes THEN "kill" ELSE "watch"
        /\ hang' = IF goes THEN hang ELSE history
        /\ still' = IF goes THEN still ELSE StillSince(sight, Older(still, UnchangedFor))
        /\ respawned' = last
        /\ found' = (goes /\ host # "gone")
        /\ killed' = Older(killed, RespawnCooldown)
        /\ ignored' = IF /\ host = "hung" /\ sight.capture = "same" /\ "heartbeat" \in sight.raised
                         /\ ~sight.subagents /\ sight.claim /\ ~goes
                         /\ last # None => last >= RespawnCooldown
                      THEN ignored + 1 ELSE 0
        /\ UNCHANGED <<host, halted>>

\* execute_respawn: no pid, no kill; else TERM, the grace, KILL, and the end of
\* the tmux session.
RespawnAborts ==
    /\ stage = "kill" /\ ~found
    /\ stage' = "watch" /\ hang' = Forgotten /\ still' = None /\ respawned' = Stamp(FALSE, respawned)
    /\ UNCHANGED <<host, found, killed, halted, ignored>>

RespawnKills ==
    /\ stage = "kill" /\ found
    /\ host' = "gone" /\ killed' = 0 /\ halted' = FALSE /\ stage' = "launch"
    /\ UNCHANGED <<hang, still, respawned, found, ignored>>

\* The command is spawned, or not; a new pid shows up before the deadline, or not.
RespawnLaunches(up) ==
    /\ stage = "launch"
    /\ host' = (IF up THEN "well" ELSE host)
    /\ stage' = "watch" /\ found' = FALSE
    /\ hang' = Forgotten /\ still' = None /\ respawned' = Stamp(up, respawned)
    /\ UNCHANGED <<killed, halted, ignored>>

\* The daemon is stopped in the middle of a respawn and started again.
RsRestart ==
    /\ stage # "watch"
    /\ stage' = "watch" /\ found' = FALSE /\ halted' = TRUE
    /\ UNCHANGED <<host, hang, still, respawned, killed, ignored>>

\* The session hangs, recovers, goes, or is brought back by somebody else.
HostMoves ==
    /\ host' \in {"well", "hung", "gone"} \ {host}
    /\ host = "gone" => host' = "well"
    /\ ignored' = 0
    /\ UNCHANGED <<hang, still, respawned, stage, found, killed, halted>>

RsInit ==
    /\ host = "well" /\ hang = Forgotten /\ still = None /\ respawned = None
    /\ stage = "watch" /\ found = FALSE /\ killed = None /\ halted = FALSE /\ ignored = 0

RsNext ==
    \/ \E sight \in RespawnSights : RsPass(sight)
    \/ RespawnAborts
    \/ RespawnKills
    \/ \E up \in BOOLEAN : RespawnLaunches(up)
    \/ RsRestart
    \/ HostMoves

RsSpec == RsInit /\ [][RsNext]_rsVars

-----------------------------------------------------------------------------
\* The types of the respawn's part of the daemon's state.
RsTypeOK ==
    /\ host \in {"well", "hung", "gone"}
    /\ hang \in [HangSignal -> Ages(SignalWindow)] /\ still \in Ages(UnchangedFor)
    /\ respawned \in Ages(RespawnCooldown)
    /\ stage \in {"watch", "kill", "launch"} /\ found \in BOOLEAN

\* Sessions are killed a cooldown apart, whether or not the launch in between
\* worked, as long as the daemon was not stopped in the middle of a respawn.
RespawnsApart == stage = "kill" /\ found /\ ~halted => killed = None \/ killed >= RespawnCooldown

\* Where two signals are enough, a session that hangs with an unchanged pane and a stale
\* heartbeat is killed as soon as its pane has been unchanged for long enough.
HungRespawned == SignalsRequired <= 2 => ignored <= UnchangedFor + 1
=============================================================================
