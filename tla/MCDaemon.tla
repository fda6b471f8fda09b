------------------------------ MODULE MCDaemon ------------------------------
(***************************************************************************)
(* The detectors of the daemon that watch how the session gets on, and the *)
(* collectors of what it shows, one at a time: a behaviour runs the one that*)
(* "focus" names.  They share no variable; what one of them sees of the    *)
(* others (the interrupt gate, the run of suppressions) is an action of its*)
(* own module.                                                             *)
(***************************************************************************)
EXTENDS WatcherDown, ContextClear, SessionRecovery, Thinking, StuckAlert,
         DaemonLoop, WatcherStatus, TokenTally, DeskStreak

VARIABLE focus \* the part that runs in this behaviour

Tiers12 == <<1, 2>>

Init ==
    /\ focus \in {"watchers", "context", "recovery", "thinking", "stuck",
                 "loop", "status", "tokens", "desk"}
    /\ WdInit /\ CcInit /\ SrInit /\ ThInit /\ SaInit /\ LoInit /\ WsInit
    /\ TtInit /\ DsInit
    /\ focus # "recovery" => session = "idle"
    /\ focus # "loop" => config.file = Lowest(MemoryEvery)
    /\ focus # "status" => mode = "oneshot"
    /\ focus # "desk" => present

Next ==
    \/ /\ focus = "watchers"
       /\ UNCHANGED <<focus, ccVars, srVars, thVars, saVars, loVars, wsVars,
                      ttVars, dsVars>>
       /\ WdNext
    \/ /\ focus = "context"
       /\ UNCHANGED <<focus, wdVars, srVars, thVars, saVars, loVars, wsVars,
                      ttVars, dsVars>>
       /\ CcNext
    \/ /\ focus = "recovery"
       /\ UNCHANGED <<focus, wdVars, ccVars, thVars, saVars, loVars, wsVars,
                      ttVars, dsVars>>
       /\ SrNext
    \/ /\ focus = "thinking"
       /\ UNCHANGED <<focus, wdVars, ccVars, srVars, saVars, loVars, wsVars,
                      ttVars, dsVars>>
       /\ ThNext
    \/ /\ focus = "stuck"
       /\ UNCHANGED <<focus, wdVars, ccVars, srVars, thVars, loVars, wsVars,
                      ttVars, dsVars>>
       /\ SaNext
    \/ /\ focus = "loop"
       /\ UNCHANGED <<focus, wdVars, ccVars, srVars, thVars, saVars, wsVars,
                      ttVars, dsVars>>
       /\ LoNext
    \/ /\ focus = "status"
       /\ UNCHANGED <<focus, wdVars, ccVars, srVars, thVars, saVars, loVars,
                      ttVars, dsVars>>
       /\ WsNext
    \/ /\ focus = "tokens"
       /\ UNCHANGED <<focus, wdVars, ccVars, srVars, thVars, saVars, loVars,
                      wsVars, dsVars>>
       /\ TtNext
    \/ /\ focus = "desk"
       /\ UNCHANGED <<focus, wdVars, ccVars, srVars, thVars, saVars, loVars,
                      wsVars, ttVars>>
       /\ DsNext

Spec == Init /\ [][Next]_<<focus, wdVars, ccVars, srVars, thVars, saVars,
                           loVars, wsVars, ttVars, dsVars>>

-----------------------------------------------------------------------------
\* A session that falls silent is resumed, once: by the recovery of a session that
\* was restarted or cleared, and by the two checks of a session that acks nothing.
SilenceEnds ==
    SrTypeOK /\ SaTypeOK /\ NoInjectLoop /\ RecoveredInTime /\ SilentResumed

\* The gauges and the counter that `claude-watch metrics` prints are of what was seen.
MetersTrue == (focus = "tokens" => TallyTrue) /\ (focus = "desk" => StreakTrue)
=============================================================================
