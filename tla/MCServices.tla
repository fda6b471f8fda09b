----------------------------- MODULE MCServices -----------------------------
(***************************************************************************)
(* The processes around the daemon, one protocol at a time: a behaviour    *)
(* runs the one that "focus" names.                                        *)
(***************************************************************************)
EXTENDS WatcherRun, AlertGate, Orphans, TaskPanes, StaleReady, EventSpool,
         AgentKill, Babysit

VARIABLE focus \* the part that runs in this behaviour

Init ==
    /\ focus \in {"runs", "gate", "orphans", "panes", "stale", "events",
                 "kill", "beats"}
    /\ WrInit /\ AgInit /\ OrInit /\ TpInit /\ StInit /\ EsInit /\ AkInit
    /\ BbInit
    /\ focus # "runs" => record = NoRecord
    /\ focus # "panes" => active = {}
    /\ focus # "beats" => held.sidecar

Next ==
    \/ /\ focus = "runs"
       /\ UNCHANGED <<focus, agVars, orVars, tpVars, stVars, esVars, akVars,
                      bbVars>>
       /\ WrNext
    \/ /\ focus = "gate"
       /\ UNCHANGED <<focus, wrVars, orVars, tpVars, stVars, esVars, akVars,
                      bbVars>>
       /\ AgNext
    \/ /\ focus = "orphans"
       /\ UNCHANGED <<focus, wrVars, agVars, tpVars, stVars, esVars, akVars,
                      bbVars>>
       /\ OrNext
    \/ /\ focus = "panes"
       /\ UNCHANGED <<focus, wrVars, agVars, orVars, stVars, esVars, akVars,
                      bbVars>>
       /\ TpNext
    \/ /\ focus = "stale"
       /\ UNCHANGED <<focus, wrVars, agVars, orVars, tpVars, esVars, akVars,
                      bbVars>>
       /\ StNext
    \/ /\ focus = "events"
       /\ UNCHANGED <<focus, wrVars, agVars, orVars, tpVars, stVars, akVars,
                      bbVars>>
       /\ EsNext
    \/ /\ focus = "kill"
       /\ UNCHANGED <<focus, wrVars, agVars, orVars, tpVars, stVars, esVars,
                      bbVars>>
       /\ AkNext
    \/ /\ focus = "beats"
       /\ UNCHANGED <<focus, wrVars, agVars, orVars, tpVars, stVars, esVars,
                      akVars>>
       /\ BbNext

Spec == Init /\ [][Next]_<<focus, wrVars, agVars, orVars, tpVars, stVars,
                           esVars, akVars, bbVars>>

=============================================================================
