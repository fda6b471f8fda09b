---------------------------- MODULE InjectIntent ----------------------------
(***************************************************************************)
(* The confirmation of `/model` (src/inject_intent.rs, src/inject_menu.rs, *)
(* run_inject and service_inject_intents in src/main.rs).  The inject that *)
(* submits the command answers the dialog while it lives, key by key, and  *)
(* leaves an intent file for the daemon, because a busy session runs the   *)
(* command, and opens the dialog, later.  Both hold the inject lock, and   *)
(* `cursor` is read and a key is sent to it in one step.                     *)
(***************************************************************************)
EXTENDS DaemonGates

CONSTANTS
    Options,      \* the options of the dialog are 1..Options
    Target,       \* "Yes, switch to ..."
    MaxAttempts,  \* MAX_ATTEMPTS
    IntentTtl     \* INTENT_TTL_SECS, in passes of the daemon

ASSUME IntentAssumption ==
    Options \in Nat /\ Target \in 1..Options /\ MaxAttempts \in Nat /\ IntentTtl \in Nat

VARIABLES
    queued,   \* the submitted command has not run yet
    cursor,     \* the option under the cursor of the dialog, None: no dialog, or
              \* Foreign: a dialog that the command did not open
    inject,   \* the inject: "none", "submit", "watch", or "press" while it answers
    aimed,    \* what the inject's last key should have selected
    intent,   \* the intent file: its age, or None, and its attempts
    answers,  \* history: answers the daemon sent for this intent
    wrong,    \* history: another option than the target was entered
    recorded, \* history: passes since the intent was recorded
    foreignSeen \* history: the inject met a dialog that is not the command's

iiVars == <<queued, cursor, inject, aimed, intent, answers, wrong, recorded, foreignSeen>>

Foreign == -2
Intents == [age : Ages(IntentTtl), attempts : 0..MaxAttempts]
NoIntent == [age |-> None, attempts |-> 0]
LockHeld == inject # "none"
IsDialog(p) == p \in 1..Options

-----------------------------------------------------------------------------
\* run_inject: the intent is recorded before the command is typed.
InjectStarts ==
    /\ inject = "none" /\ ~queued /\ cursor = None
    /\ inject' = "submit" /\ intent' = [age |-> 0, attempts |-> 0]
    /\ answers' = 0 /\ recorded' = 0 /\ foreignSeen' = FALSE
    /\ UNCHANGED <<queued, cursor, aimed, wrong>>

\* keep_after_inject: the file stays while the dialog may still come.
KeepNever(noMenu, failed, applied) == FALSE
Keep(noMenu, failed, applied) == failed \/ (noMenu /\ ~applied)
InjectEnds(noMenu, failed, applied) ==
    /\ inject' = "none"
    /\ intent' = IF Keep(noMenu, failed, applied) THEN intent ELSE NoIntent

\* The command is submitted, or the line was dirty and nothing is expected.
InjectSubmits ==
    /\ inject = "submit"
    /\ \/ inject' = "watch" /\ queued' = TRUE /\ UNCHANGED intent
       \/ inject' = "none" /\ intent' = NoIntent /\ UNCHANGED queued
    /\ UNCHANGED <<cursor, aimed, answers, wrong, recorded, foreignSeen>>

\* settle_menu: nothing comes up in the window, or the switch went through.
InjectGivesUp ==
    /\ inject = "watch" /\ cursor = None
    /\ \E applied \in BOOLEAN : (applied => ~queued) /\ InjectEnds(TRUE, FALSE, applied)
    /\ UNCHANGED <<queued, cursor, aimed, answers, wrong, recorded, foreignSeen>>

\* auto_answer: a dialog that is not the model switch is left, MenuOutcome::Unanswered.
InjectLeavesOther ==
    /\ inject = "watch" /\ cursor = Foreign
    /\ InjectEnds(FALSE, FALSE, FALSE) /\ foreignSeen' = TRUE
    /\ UNCHANGED <<queued, cursor, aimed, answers, wrong, recorded>>

\* next_key: one step towards the target, or Enter on it; the key may be lost.
NextKey(selected) ==
    IF selected < Target THEN selected + 1
    ELSE IF selected > Target THEN selected - 1 ELSE selected
Presses(selected) ==
    IF selected = Target
    THEN \/ /\ cursor' = None /\ wrong' = (wrong \/ cursor # Target)
            /\ InjectEnds(FALSE, FALSE, FALSE) /\ UNCHANGED aimed
         \/ InjectEnds(FALSE, TRUE, FALSE) /\ UNCHANGED <<cursor, wrong, aimed>>
    ELSE /\ aimed' = NextKey(selected) /\ inject' = "press"
         /\ cursor' \in {NextKey(cursor), cursor}
         /\ UNCHANGED <<intent, wrong>>

InjectAnswers ==
    /\ inject = "watch" /\ IsDialog(cursor)
    /\ Presses(cursor)
    /\ UNCHANGED <<queued, answers, recorded, foreignSeen>>

\* The step is confirmed on a new frame: the same options, the cursor moved as
\* expected within STEP_SETTLE; else nothing more is pressed.
ConfirmedBlindly == IsDialog(cursor)
Confirmed == cursor = aimed
InjectConfirms ==
    /\ inject = "press"
    /\ IF Confirmed THEN Presses(aimed)
       ELSE InjectEnds(FALSE, TRUE, FALSE) /\ UNCHANGED <<cursor, wrong, aimed>>
    /\ UNCHANGED <<queued, answers, recorded, foreignSeen>>

\* The inject dies; while it submits, the command may have gone through.
InjectDies ==
    /\ inject # "none" /\ inject' = "none"
    /\ queued' \in (IF inject = "submit" THEN BOOLEAN ELSE {queued})
    /\ UNCHANGED <<cursor, aimed, intent, answers, wrong, recorded, foreignSeen>>

-----------------------------------------------------------------------------
\* live_intents: an expired file is removed.
Aged == IF intent.age = None \/ intent.age + 1 >= IntentTtl THEN NoIntent
        ELSE [intent EXCEPT !.age = @ + 1]

\* sweep: the attempt is counted before the keys go out, from the fresh frame.
AttemptsOnSuccess(gone) == IF gone THEN Aged.attempts + 1 ELSE Aged.attempts
Attempts(gone) == Aged.attempts + 1
DaemonAnswers ==
    /\ Aged.attempts < MaxAttempts
    /\ answers' = answers + 1
    /\ \E gone, stopped \in BOOLEAN :
         /\ cursor' = IF gone THEN None ELSE cursor
         /\ intent' = IF gone /\ ~stopped THEN NoIntent
                      ELSE [Aged EXCEPT !.attempts = Attempts(gone)]

\* service_inject_intents, once a pass: skipped while an injector has the lock.
\* A cursor the daemon cannot read is not answered.
SweepPass(readable) ==
    /\ recorded' = Older(recorded, IntentTtl)
    /\ IF LockHeld
       THEN /\ intent.age + 1 < IntentTtl
            /\ intent' = Aged /\ UNCHANGED <<cursor, answers>>
       ELSE \/ /\ Aged.age = None /\ intent' = NoIntent /\ UNCHANGED <<cursor, answers>>
            \/ /\ Aged.age # None /\ ~IsDialog(cursor)
               /\ intent' \in (IF Aged.attempts > 0 THEN {NoIntent}
                              ELSE IF queued THEN {Aged} ELSE {NoIntent, Aged})
               /\ UNCHANGED <<cursor, answers>>
            \/ /\ Aged.age # None /\ IsDialog(cursor) /\ ~readable
               /\ intent' = Aged /\ UNCHANGED <<cursor, answers>>
            \/ /\ Aged.age # None /\ IsDialog(cursor) /\ readable
               /\ \/ DaemonAnswers
                  \/ Aged.attempts >= MaxAttempts /\ intent' = NoIntent
                     /\ UNCHANGED <<cursor, answers>>
    /\ UNCHANGED <<queued, inject, aimed, wrong, foreignSeen>>

\* The session runs the command: no dialog when nothing is at stake.
CommandRuns ==
    /\ queued /\ cursor = None /\ queued' = FALSE
    /\ cursor' \in {None} \cup 1..Options
    /\ UNCHANGED <<inject, aimed, intent, answers, wrong, recorded, foreignSeen>>

\* Another dialog takes the pane, or is gone again; the operator answers.
PaneChanges ==
    /\ cursor' \in (IF cursor = None THEN {Foreign} ELSE IF cursor = Foreign THEN {None} ELSE {None, Foreign})
    /\ UNCHANGED <<queued, inject, aimed, intent, answers, wrong, recorded, foreignSeen>>

IiInit ==
    /\ queued = FALSE /\ cursor = None /\ inject = "none" /\ aimed = 1
    /\ intent = NoIntent /\ answers = 0 /\ recorded = None
    /\ wrong = FALSE /\ foreignSeen = FALSE

IiNext ==
    \/ InjectStarts \/ InjectSubmits \/ InjectGivesUp \/ InjectLeavesOther
    \/ InjectAnswers \/ InjectConfirms \/ InjectDies
    \/ (\E readable \in BOOLEAN : SweepPass(readable))
    \/ CommandRuns \/ PaneChanges

IiSpec == IiInit /\ [][IiNext]_iiVars

-----------------------------------------------------------------------------
\* The types of the confirmation's state.
IiTypeOK ==
    /\ queued \in BOOLEAN /\ wrong \in BOOLEAN /\ foreignSeen \in BOOLEAN
    /\ cursor \in {None, Foreign} \cup 1..Options /\ aimed \in 1..Options
    /\ inject \in {"none", "submit", "watch", "press"}
    /\ intent \in Intents
    /\ answers \in 0..MaxAttempts /\ recorded \in Ages(IntentTtl)

\* "Bounded attempts per intent": however often the dialog stays or the daemon is
\* stopped between the keys and its second look at the pane.
AttemptsBounded == answers <= MaxAttempts

\* Enter only ever falls on the option that was asked for, though keys get lost
\* and dialogs come and go under the cursor.
EnterOnTarget == ~wrong

\* A submitted command that waits when its inject has ended, or died, is expected by the
\* daemon until the intent lapses: its dialog will be answered.
Expects == queued /\ inject = "none" /\ Within(recorded, IntentTtl - 1) => intent.age # None
DialogExpected == ~foreignSeen => Expects

\* The intent is used for its own dialog, not too often and not too late.
IntentServes == IiTypeOK /\ AttemptsBounded /\ EnterOnTarget /\ DialogExpected

\* main.rs:2127 "Clear only on positive evidence the job is finished: the menu was
\* answered here, the pane shows this command's own line, or nothing was submitted."
KeptUntilEvidence == Expects
=============================================================================
