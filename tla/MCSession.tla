----------------------------- MODULE MCSession ------------------------------
(***************************************************************************)
(* What is read off the session and typed into it: the episodes of the daemon*)
(* that type a command or a key, the choice of the pane and the inject path,*)
(* one at a time: a behaviour runs the one that "focus" names.             *)
(***************************************************************************)
EXTENDS Login, Credits, AutoUpdate, AutoRespawn, Prompts, Malformed,
         InjectPath, InjectIntent, Autoresolve, ScreenReading, PaneChoice

VARIABLE focus \* the part that runs in this behaviour

Init ==
    /\ focus \in {"login", "credits", "update", "respawn", "prompts",
                 "malformed", "path", "intent", "dialogs", "screen", "pane"}
    /\ LgInit /\ CrInit /\ AuInit /\ RsInit /\ PpInit /\ MfInit /\ IpInit
    /\ IiInit /\ ArInit /\ RdInit /\ PcInit
    /\ focus # "screen" => total /\ verbs
    /\ focus # "pane" => configured /\ install.layout = "npm"
    /\ ~configured => install.layout = "npm"

Next ==
    \/ /\ focus = "login"
       /\ UNCHANGED <<focus, crVars, auVars, rsVars, ppVars, mfVars, ipVars,
                      iiVars, arVars, rdVars, pcVars>>
       /\ LgNext
    \/ /\ focus = "credits"
       /\ UNCHANGED <<focus, lgVars, auVars, rsVars, ppVars, mfVars, ipVars,
                      iiVars, arVars, rdVars, pcVars>>
       /\ CrNext
    \/ /\ focus = "update"
       /\ UNCHANGED <<focus, lgVars, crVars, rsVars, ppVars, mfVars, ipVars,
                      iiVars, arVars, rdVars, pcVars>>
       /\ AuNext
    \/ /\ focus = "respawn"
       /\ UNCHANGED <<focus, lgVars, crVars, auVars, ppVars, mfVars, ipVars,
                      iiVars, arVars, rdVars, pcVars>>
       /\ RsNext
    \/ /\ focus = "prompts"
       /\ UNCHANGED <<focus, lgVars, crVars, auVars, rsVars, mfVars, ipVars,
                      iiVars, arVars, rdVars, pcVars>>
       /\ PpNext
    \/ /\ focus = "malformed"
       /\ UNCHANGED <<focus, lgVars, crVars, auVars, rsVars, ppVars, ipVars,
                      iiVars, arVars, rdVars, pcVars>>
       /\ MfNext
    \/ /\ focus = "path"
       /\ UNCHANGED <<focus, lgVars, crVars, auVars, rsVars, ppVars, mfVars,
                      iiVars, arVars, rdVars, pcVars>>
       /\ IpNext
    \/ /\ focus = "intent"
       /\ UNCHANGED <<focus, lgVars, crVars, auVars, rsVars, ppVars, mfVars,
                      ipVars, arVars, rdVars, pcVars>>
       /\ IiNext
    \/ /\ focus = "dialogs"
       /\ UNCHANGED <<focus, lgVars, crVars, auVars, rsVars, ppVars, mfVars,
                      ipVars, iiVars, rdVars, pcVars>>
       /\ ArNext
    \/ /\ focus = "screen"
       /\ UNCHANGED <<focus, lgVars, crVars, auVars, rsVars, ppVars, mfVars,
                      ipVars, iiVars, arVars, pcVars>>
       /\ RdNext
    \/ /\ focus = "pane"
       /\ UNCHANGED <<focus, lgVars, crVars, auVars, rsVars, ppVars, mfVars,
                      ipVars, iiVars, arVars, rdVars>>
       /\ PcNext

Spec == Init /\ [][Next]_<<focus, lgVars, crVars, auVars, rsVars, ppVars,
                           mfVars, ipVars, iiVars, arVars, rdVars, pcVars>>

-----------------------------------------------------------------------------
\* What ails the account (a login that is refused or expires, credits that are used up)
\* is told in time, and what the daemon tries against it is accounted for.
AccountTroubleTold ==
    /\ [](LgTypeOK /\ CrTypeOK /\ ProvedFailureTold /\ ExhaustionTold)
    /\ BudgetHeldInDialog /\ ConfirmationTracked

\* An update or a respawn ends with a session that runs and was told to go on, is not
\* repeated too soon, and types nothing into a shell.
RestartsSafe ==
    AuTypeOK /\ RsTypeOK /\ NotIntoShell /\ StrandedResumed /\ RespawnsApart /\ HungRespawned

\* A prompt that blocks the session and a malformed call are told once, in time, and a
\* key is pressed only on what is known to be stale.
PromptsHandled ==
    /\ PpTypeOK /\ MfTypeOK /\ EscapeOnStale /\ OnePagePerDialog /\ DialogTold
    /\ NudgedOnce /\ NewBlockNudged

\* What the daemon reads off the screen is so, of the pane it types into and the program
\* that runs there.
SightTrue == (focus = "screen" => ScreenRead) /\ (focus = "pane" => PaneTrue)
=============================================================================
