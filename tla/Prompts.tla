------------------------------- MODULE Prompts -------------------------------
(***************************************************************************)
(* The monitors of dialogs that wait for an answer (src/policy.rs,         *)
(* check_permission_prompt, check_ask_question_stale): a permission prompt *)
(* is told of, then declined with Escape; a question is told of.  A dialog *)
(* is answered, or replaced by another, at any time, also while the daemon *)
(* sleeps between the two captures that confirm the Escape.                *)
(***************************************************************************)
EXTENDS DaemonGates

CONSTANTS
    Prompts,          \* permission dialogs, told apart by their signature
    AlertAfter,       \* alert_seconds
    DenyAfter,        \* auto_deny_seconds
    MaxDenies,        \* max_deny_attempts
    AskStale,         \* stale_seconds of the question monitor
    FreshContext      \* the context may be in the fresh range, without shells

NoDialog == "none"

ASSUME PromptAssumption ==
    /\ {"ask", NoDialog} \cap Prompts = {}
    /\ {AlertAfter, DenyAfter, MaxDenies, AskStale} \subseteq Nat

Dialogs == Prompts \cup {"ask", NoDialog}

VARIABLES
    dialog,   \* what is on the pane
    perm,     \* permission_prompt_*: signature, since, alerted, denies
    ask,      \* ask_question_*: since, alerted
    judged,   \* the prompt whose Escape is being confirmed, or NoDialog
    sample,   \* history: the text the monitors last saw, and since how many passes
    seen,     \* history: passes in a row in which the monitors saw this dialog
    up,       \* history: passes since this dialog came up
    pages,    \* history: the monitors that told of the dialog they last saw
    struck    \* history: an Escape hit something else than a stale dialog

ppVars == <<dialog, perm, ask, judged, sample, seen, up, pages, struck>>

\* A pass finds: the context in the fresh range, no capture, a self-clear.
PromptSights == [fresh : BOOLEAN, blind : BOOLEAN, busy : BOOLEAN]

NoPrompt == [sig |-> NoDialog, since |-> None, alerted |-> FALSE, denies |-> 0]
NoAsk == [since |-> None, alerted |-> FALSE]
Cap == IF AlertAfter < DenyAfter THEN DenyAfter ELSE AlertAfter
InTime == AskStale + AlertAfter + 1  \* passes in which a dialog is told of

-----------------------------------------------------------------------------
\* permission_prompt_timer_step: what it leaves, before a decision.
Tracked(p, sig) ==
    IF sig = NoDialog THEN NoPrompt
    ELSE IF p.sig # sig THEN [NoPrompt EXCEPT !.sig = sig, !.since = 0]
    ELSE p

DialogAlertDueOnTheDot(p, sig) == sig # NoDialog /\ p.sig = sig /\ ~p.alerted /\ p.since = AlertAfter
DialogAlertDue(p, sig) == sig # NoDialog /\ p.sig = sig /\ ~p.alerted /\ p.since >= AlertAfter
DenyDue(p, sig, busy) ==
    /\ sig # NoDialog /\ p.sig = sig /\ ~DialogAlertDue(p, sig)
    /\ ~busy /\ p.since >= DenyAfter /\ p.denies < MaxDenies

\* ask_question_timer_step: what it leaves, and whether it tells.
AskStep(a, question) ==
    IF ~question THEN NoAsk
    ELSE [since |-> IF a.since = None THEN 0 ELSE a.since,
          alerted |-> a.alerted \/ Since(a.since, AskStale)]
AskFires(a, question) == question /\ ~a.alerted /\ Since(a.since, AskStale)

\* is_blocking_question sees every dialog; a permission prompt stands it down.
IsQuestionAny(d, active) == d # NoDialog
IsQuestion(d, active) == d # NoDialog /\ ~active

-----------------------------------------------------------------------------
\* A pass as far as the fresh-clear check, which leaves a session in the fresh
\* range alone while a dialog is on its pane.
Skipped(sight) == sight.fresh /\ dialog # NoDialog /\ ~sight.blind

PpPass(sight) ==
    LET p == [perm EXCEPT !.since = Older(@, Cap)]
        a == [ask EXCEPT !.since = Older(@, AskStale)]
        sig == IF sight.blind \/ dialog = "ask" THEN NoDialog ELSE dialog
        tracked == Tracked(p, sig)
        alert == DialogAlertDue(p, sig)
        deny == DenyDue(p, sig, sight.busy)
        view == IF sight.blind THEN NoDialog ELSE dialog
        question == ~sight.blind /\ IsQuestion(dialog, sig # NoDialog)
    IN  /\ judged = NoDialog
        /\ sight.fresh => FreshContext
        /\ up' = IF dialog = NoDialog \/ sight.blind THEN 0 ELSE Least(up + 1, InTime + 1)
        /\ IF Skipped(sight)
           THEN /\ perm' = p /\ ask' = a /\ seen' = 0
                /\ sample' = [sample EXCEPT !.age = Older(@, Cap)]
                /\ UNCHANGED <<judged, pages>>
           ELSE /\ perm' = (IF alert THEN [tracked EXCEPT !.alerted = TRUE]
                            ELSE IF deny THEN [tracked EXCEPT !.denies = @ + 1] ELSE tracked)
                /\ judged' = IF deny THEN sig ELSE NoDialog
                /\ ask' = IF deny THEN a ELSE AskStep(a, question)
                /\ pages' = (IF sample.text = view THEN pages ELSE {}) \cup (IF alert THEN {"perm"} ELSE {})
                                  \cup (IF ~deny /\ AskFires(a, question) THEN {"ask"} ELSE {})
                /\ sample' = IF sample.text = view THEN [sample EXCEPT !.age = Older(@, Cap)]
                              ELSE [text |-> view, age |-> 0]
                /\ seen' = IF dialog = NoDialog \/ sight.blind THEN 0 ELSE Least(seen + 1, InTime + 1)
        /\ UNCHANGED <<dialog, struck>>

\* The second capture; then Escape, unless something changed.  The dialog is
\* declined, survives, or makes room for another one.
StableLoose(j) == dialog \in Prompts
Stable(j) == dialog = j
ConfirmDeny ==
    /\ judged # NoDialog
    /\ judged' = NoDialog
    /\ IF Stable(judged)
       THEN /\ dialog' \in {dialog, NoDialog} \cup Prompts
            /\ perm' = IF dialog' \in Prompts THEN perm ELSE NoPrompt
            /\ struck' = (struck \/ sample.text # dialog \/ sample.age < DenyAfter)
            /\ seen' = (IF dialog' = dialog THEN seen ELSE 0)
            /\ up' = (IF dialog' = dialog THEN up ELSE 0)
            /\ UNCHANGED pages
       ELSE UNCHANGED <<dialog, perm, struck, seen, up, pages>>
    /\ ask' = NoAsk
    /\ UNCHANGED sample

\* The dialog is answered, or one comes up.
DialogMoves ==
    /\ dialog' \in Dialogs \ {dialog}
    /\ seen' = 0 /\ up' = 0
    /\ UNCHANGED <<pages, perm, ask, judged, sample, struck>>

\* The daemon is started again: the timers are in the state file, the sleep is not.
PpRestart ==
    /\ judged # NoDialog /\ judged' = NoDialog
    /\ perm' = [perm EXCEPT !.denies = @ - 1]
    /\ UNCHANGED <<dialog, ask, sample, seen, up, pages, struck>>

PpInit ==
    /\ dialog = NoDialog /\ perm = NoPrompt /\ ask = NoAsk /\ judged = NoDialog
    /\ sample = [text |-> NoDialog, age |-> 0]
    /\ seen = 0 /\ up = 0 /\ pages = {} /\ struck = FALSE

PpNext == (\E sight \in PromptSights : PpPass(sight)) \/ ConfirmDeny \/ DialogMoves \/ PpRestart

PpSpec == PpInit /\ [][PpNext]_ppVars

-----------------------------------------------------------------------------
\* The types of the monitors' part of the daemon's state.
PpTypeOK ==
    /\ dialog \in Dialogs /\ judged \in Prompts \cup {NoDialog}
    /\ perm \in [sig : Prompts \cup {NoDialog}, since : Ages(Cap), alerted : BOOLEAN,
                 denies : 0..MaxDenies]
    /\ ask \in [since : Ages(AskStale), alerted : BOOLEAN]

\* "The dialog must persist UNCHANGED across the whole auto_deny_seconds window":
\* Escape only hits the text that every capture of that window has shown.
EscapeOnStale == ~struck

\* One dialog is never told of by both monitors.
OnePagePerDialog == pages # {"perm", "ask"}

\* A dialog that stays on a pane that the monitors look at is told of in time.
DialogTold == seen > InTime => pages # {}

\* "it NAMES the state ... and, if still unanswered, it DECLINES the call": a
\* dialog that stays is told of, whatever the size of the session's context.
BlockedPromptTold == up > InTime => pages # {}
=============================================================================
