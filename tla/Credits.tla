------------------------------ MODULE Credits ------------------------------
(***************************************************************************)
(* A main loop that is out of usage credits for its model                  *)
(* (src/policy.rs, check_credit_exhaustion).  The message on the pane is   *)
(* believed when the transcript agrees (src/token_usage.rs); then /model   *)
(* is typed, and the confirmation that Claude Code may ask for is          *)
(* answered, at once or in a later pass.                                   *)
(***************************************************************************)
EXTENDS DaemonGates

CONSTANTS
    MinFailures,   \* min_failures
    RecentWindow,  \* recent_window_seconds
    DemoteSpacing, \* retry_seconds
    SettleTime,        \* settle_seconds
    MaxDemotes,    \* max_attempts
    CreditAlert,   \* alert_interval_seconds
    ConfirmMax     \* SWITCH_CONFIRM_PENDING_MAX_SECS

ASSUME CreditAssumption ==
    /\ {MinFailures, RecentWindow, DemoteSpacing, SettleTime, MaxDemotes, CreditAlert,
        ConfirmMax} \subseteq Nat
    /\ MinFailures > 0 /\ SettleTime <= DemoteSpacing

VARIABLES
    model,    \* the main loop's model: "out" of credits, or the "target"
    failed,   \* the transcript: failures on record, age of the last
    message,  \* the sentence is on the pane
    prompt,   \* the switch confirmation: "none", "left" (a pass saw it and left
              \* it unanswered), "late" (it came up after the pass), "hand"
    credit,   \* the daemon's record: credit_exhaustion_detected,
              \* last_credit_exhaustion_alert, last_credit_demote_attempt,
              \* credit_demote_injected_at, attempts, credit_switch_confirm_pending
    untold    \* history: passes with a proved exhaustion about which nothing was done

crVars == <<model, failed, message, prompt, credit, untold>>

\* What a pass reads: the transcript or not, whether the message is visible,
\* names the target as the model that ran out, and the cursor of a dialog.
CreditSights == [transcript : BOOLEAN, banner : BOOLEAN, names : BOOLEAN, cursor : BOOLEAN,
                 login : BOOLEAN]

CreditAged ==
    [credit EXCEPT !.alert = Older(@, CreditAlert), !.attempt = Older(@, DemoteSpacing),
                   !.injected = Older(@, SettleTime), !.pending = Older(@, ConfirmMax + 1)]
FailedAged ==
    IF Since(failed.age, RecentWindow) THEN [count |-> 0, age |-> None]
    ELSE [failed EXCEPT !.age = Older(@, RecentWindow)]

-----------------------------------------------------------------------------
\* retry_pending_switch_confirmation: the record, and whether it answers.
Answers(c, sight) ==
    c.pending # None /\ c.pending <= ConfirmMax /\ prompt # "none" /\ sight.cursor
Pending(c) ==
    IF c.pending # None /\ (c.pending > ConfirmMax \/ prompt = "none")
    THEN [c EXCEPT !.pending = None] ELSE c

\* close_credit_window keeps the pending confirmation.
ClosedWithPending(c) ==
    IF c.detected
    THEN [detected |-> FALSE, alert |-> None, attempt |-> None, injected |-> None,
          attempts |-> 0, pending |-> None]
    ELSE c
Closed(c) ==
    IF c.detected
    THEN [detected |-> FALSE, alert |-> None, attempt |-> None, injected |-> None,
          attempts |-> 0, pending |-> c.pending]
    ELSE c

\* decide_credit_action
Held(c, sight, shown) ==
    \/ sight.names \/ sight.login \/ shown # "none" \/ Within(c.injected, SettleTime)
    \/ c.attempts >= MaxDemotes \/ Within(c.attempt, DemoteSpacing)
CreditActionDeaf(c, sight, shown) ==
    IF ~sight.transcript THEN "alert"
    ELSE IF FailedAged.count = 0 THEN "ignore"
    ELSE IF FailedAged.count < MinFailures \/ Held(c, sight, shown) THEN "wait" ELSE "demote"
CreditAction(c, sight, shown) ==
    IF ~sight.transcript THEN "alert"
    ELSE IF FailedAged.count = 0 THEN "ignore"
    ELSE IF FailedAged.count < MinFailures THEN "wait"
    ELSE IF Held(c, sight, shown) THEN "alert"
    ELSE "demote"

\* credit_should_notify, for what is not a demotion: those are always told.
ShouldNotify(c, action) == action = "alert" /\ ~Within(c.alert, CreditAlert)

\* fire_model_demote books the attempt first; what becomes of the command and
\* of its confirmation (settle_model_switch_dialog): [model, prompt, pending].
Outcomes ==
    {[model |-> "target", prompt |-> "none", pending |-> None],  \* applied, or confirmed
     [model |-> model, prompt |-> "none", pending |-> None],     \* lost
     [model |-> model, prompt |-> "late", pending |-> None],     \* taken for applied
     [model |-> model, prompt |-> "left", pending |-> 0]}        \* unanswered
Switched(o, before) == IF o.model = "target" THEN "target" ELSE before
Demoted(c) ==
    [c EXCEPT !.detected = TRUE, !.attempt = 0, !.injected = 0, !.attempts = @ + 1, !.alert = 0]

-----------------------------------------------------------------------------
\* One pass.
CrPass(sight) ==
    LET aged == CreditAged
        tried == Pending(aged)
    IN  /\ sight.banner => message
        /\ \E gone \in (IF Answers(aged, sight) THEN BOOLEAN ELSE {FALSE}) :
              LET c == IF gone THEN [tried EXCEPT !.pending = None] ELSE tried
                  shown == IF gone THEN "none" ELSE prompt
                  action == CreditAction(c, sight, shown)
                  switched == IF gone THEN "target" ELSE model
              IN  \/ /\ ~sight.banner \/ action = "ignore"
                     /\ credit' = IF sight.banner THEN Closed([c EXCEPT !.detected = TRUE])
                                  ELSE Closed(c)
                     /\ model' = switched /\ prompt' = shown /\ untold' = 0
                  \/ /\ sight.banner /\ action \in {"wait", "alert"}
                     /\ LET due == ShouldNotify(c, action)
                        IN  /\ credit' = [c EXCEPT !.detected = TRUE,
                                                   !.alert = IF due THEN 0 ELSE @]
                            /\ untold' = IF due \/ FailedAged.count < MinFailures
                                         THEN 0 ELSE untold + 1
                     /\ model' = switched /\ prompt' = shown
                  \/ /\ sight.banner /\ action = "demote"
                     /\ \E o \in Outcomes :
                           /\ model' = Switched(o, switched)
                           /\ prompt' = o.prompt
                           /\ credit' = [Demoted(c) EXCEPT !.pending = o.pending]
                     /\ untold' = 0
        /\ failed' = FailedAged
        /\ UNCHANGED message

\* A turn: it fails on the record and on the pane, or it goes through and the
\* message may scroll away.
Turn ==
    /\ prompt = "none"
    /\ \/ /\ model = "out" /\ message' = TRUE
          /\ failed' = [count |-> Least(failed.count + 1, MinFailures), age |-> 0]
       \/ model = "target" /\ message /\ message' = FALSE /\ UNCHANGED failed
    /\ UNCHANGED <<model, prompt, credit, untold>>

\* The operator switches the model, or leaves the question open, or answers
\* the one that is there; the text of the message comes up in the session.
Operator ==
    /\ \/ /\ prompt = "none"
          /\ \/ model' \in {"out", "target"} \ {model} /\ UNCHANGED prompt
             \/ prompt' = "hand" /\ UNCHANGED model
       \/ /\ prompt # "none" /\ prompt' = "none"
          /\ model' \in {model, "target"}
    /\ message' \in {message, TRUE}
    /\ UNCHANGED <<failed, credit, untold>>

CrInit ==
    /\ model = "out" /\ failed = [count |-> 0, age |-> None] /\ message = FALSE
    /\ prompt = "none"
    /\ credit = [detected |-> FALSE, alert |-> None, attempt |-> None, injected |-> None,
                 attempts |-> 0, pending |-> None]
    /\ untold = 0

CrNext == (\E sight \in CreditSights : CrPass(sight)) \/ Turn \/ Operator

CrSpec == CrInit /\ [][CrNext]_crVars

-----------------------------------------------------------------------------
\* The types of the credit monitor's part of the daemon's state.
CrTypeOK ==
    /\ model \in {"out", "target"} /\ message \in BOOLEAN
    /\ failed \in [count : 0..MinFailures, age : Ages(RecentWindow)]
    /\ prompt \in {"none", "left", "late", "hand"}
    /\ credit \in [detected : BOOLEAN, alert : Ages(CreditAlert), attempt : Ages(DemoteSpacing),
                   injected : Ages(SettleTime), attempts : 0..MaxDemotes,
                   pending : Ages(ConfirmMax + 1)]

\* An exhaustion that the transcript proves, and whose message stays on the
\* pane, is acted on or announced once per alert interval, whatever dialog,
\* budget or spacing holds the demotion back.
ExhaustionTold == untold <= CreditAlert

\* A confirmation that a pass left unanswered is not forgotten while it is
\* younger than the limit: the window of the exhaustion, which a dialog over
\* the pane seems to end, does not take the record of it along.
ConfirmationTracked ==
    [][prompt = "left" /\ prompt' = "left" /\ credit.pending \in 0..(ConfirmMax - 1)
       => credit'.pending # None]_crVars
=============================================================================
