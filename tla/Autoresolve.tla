----------------------------- MODULE Autoresolve -----------------------------
(***************************************************************************)
(* Answers to permission dialogs by rules (src/autoresolve.rs, step): a    *)
(* dialog that was the same in two captures is answered Yes when a rule    *)
(* allows its command, and No otherwise; the screen is captured once more  *)
(* before the key and once after it.  The mode is enforce.                 *)
(***************************************************************************)
EXTENDS DaemonGates, FiniteSets

CONSTANTS
    Allowed, Refused, \* the dialogs, by signature: a rule allows the command, or none does
    Settle,        \* settle_secs: dialogs are a candidate for that long
    NoAfter,       \* no_after_secs
    MaxAnswers,    \* max_per_minute
    Minute,        \* the window of the rate limit, in passes
    TripCooldown   \* trip_cooldown_secs

ASSUME DialogAssumption ==
    /\ Allowed \cap Refused = {} /\ {"none", "unread"} \cap (Allowed \cup Refused) = {}
    /\ {Settle, NoAfter, Minute, TripCooldown} \subseteq Nat /\ MaxAnswers \in Nat \ {0}

VARIABLES
    question,    \* on the screen: a signature, or "none", or "unread": not yet readable
    arStep,    \* of a pass: "look", "press" or "after", with the dialog it decided on
    candidate, \* the dialog seen last and for how long
    answered,  \* last_answered, last_refused
    tries,     \* no_attempts
    admitted,  \* the limiter: ages of the answers in the window
    tripped,   \* age of the trip, or None
    waits,     \* history: passes the dialog on the screen has been left without a key,
               \* counted while the audit log can be written
    repeat,    \* history: the dialog has the signature of one that was answered or given
               \* up since the screen was last seen without a dialog
    yesTo      \* history: dialogs that took an Enter

arVars == <<question, arStep, candidate, answered, tries, admitted, tripped, waits, repeat, yesTo>>

Questions == Allowed \cup Refused
NoCandidate == [sig |-> "none", age |-> 0]
NoTries == [sig |-> "none", n |-> 0]
Looks == [at |-> "look", sig |-> "none"]
AgeCap == IF Settle < NoAfter THEN NoAfter ELSE Settle  \* of the candidate's age
Bound == NoAfter + Settle + TripCooldown + Minute + 3   \* of the history `waits`

-----------------------------------------------------------------------------
\* classify_screen: nothing there forgets everything but the rate limit.
SeesNothing ==
    /\ question = "none"
    /\ candidate' = NoCandidate /\ answered' = {} /\ tries' = NoTries
    /\ UNCHANGED <<arStep, tripped>>

SeesUndecided ==
    /\ question = "unread" /\ candidate' = NoCandidate
    /\ UNCHANGED <<arStep, answered, tries, tripped>>

\* The same dialog twice, settle_secs apart; a No waits for no_after_secs.
SettledOnTheDot == candidate.sig = question /\ candidate.age + 1 = Settle
Settled == candidate.sig = question /\ candidate.age + 1 >= Settle
Ripe == question \in Allowed \/ candidate.age + 1 >= NoAfter
Blocked == Within(tripped, TripCooldown - 1) \/ question \in answered

SeesDialog ==
    /\ question \in Questions
    /\ tripped' = IF Within(tripped, TripCooldown - 1) THEN tripped + 1 ELSE None
    /\ IF Blocked THEN UNCHANGED <<candidate, arStep, answered, tries>>
       ELSE IF ~Settled
       THEN /\ candidate' = IF candidate.sig = question THEN [candidate EXCEPT !.age = @ + 1]
                            ELSE [sig |-> question, age |-> 0]
            /\ UNCHANGED <<arStep, answered, tries>>
       ELSE /\ candidate' = [candidate EXCEPT !.age = Least(@ + 1, AgeCap)]
            /\ arStep' = IF Ripe THEN [at |-> "press", sig |-> question] ELSE Looks
            /\ UNCHANGED <<answered, tries>>

\* A pass, with its first capture; time goes by with it.
Capture ==
    /\ arStep = Looks
    /\ SeesNothing \/ SeesUndecided \/ SeesDialog
    /\ admitted' = {a + 1 : a \in {b \in admitted : b < Minute}}
    /\ waits' = IF question \in Questions THEN Least(waits + 1, Bound) ELSE 0
    /\ repeat' = (repeat /\ question # "none")
    /\ UNCHANGED <<question, yesTo>>

-----------------------------------------------------------------------------
\* The third capture, just before the key.
UnchangedUnread == TRUE
SameScreen == question = arStep.sig

\* RateLimiter::admit: one answer in a pass, so ages tell the answers apart.
Admits == Cardinality(admitted) < MaxAnswers

\* answer_yes: admitted, the audit line written, the screen unchanged, then Enter.
PressYes(written) ==
    /\ arStep.at = "press" /\ arStep.sig \in Allowed
    /\ IF Admits THEN admitted' = admitted \cup {0} /\ UNCHANGED tripped
       ELSE tripped' = 0 /\ UNCHANGED admitted
    /\ IF Admits /\ written /\ SameScreen
       THEN /\ arStep' = [arStep EXCEPT !.at = "after"]
            /\ yesTo' = yesTo \cup ({question} \cap Questions)
            /\ question' \in {"none", question}
            /\ waits' = 0
       ELSE arStep' = Looks /\ waits' = (IF written THEN waits ELSE 0) /\ UNCHANGED <<yesTo, question>>
    /\ UNCHANGED <<candidate, answered, tries, repeat>>

\* answer_no: the digit first, Escape second, then it gives up.
PressNo(written) ==
    LET n == IF tries.sig = arStep.sig THEN tries.n ELSE 0
    IN  /\ arStep.at = "press" /\ arStep.sig \in Refused
        /\ IF n >= 2
           THEN /\ answered' = answered \cup {arStep.sig} /\ arStep' = Looks
                /\ repeat' = (repeat \/ question = arStep.sig)
                /\ UNCHANGED <<tries, question, waits>>
           ELSE /\ tries' = [sig |-> arStep.sig, n |-> n + 1]
                /\ IF written /\ SameScreen
                   THEN /\ arStep' = [arStep EXCEPT !.at = "after"]
                        /\ question' \in {"none", question} /\ waits' = 0
                   ELSE arStep' = Looks /\ waits' = (IF written THEN waits ELSE 0) /\ UNCHANGED question
                /\ UNCHANGED <<answered, repeat>>
        /\ UNCHANGED <<candidate, admitted, tripped, yesTo>>

\* The capture after the key: a Yes is remembered whether or not the dialog went, a No
\* only when it did; a capture that fails counts as gone.
After(captured) ==
    /\ arStep.at = "after" /\ arStep' = Looks
    /\ IF arStep.sig \in Allowed \/ ~captured \/ question # arStep.sig
       THEN /\ candidate' = NoCandidate
            /\ answered' = answered \cup {arStep.sig}
            /\ repeat' = (repeat \/ question = arStep.sig)
       ELSE UNCHANGED <<candidate, answered, repeat>>
    /\ UNCHANGED <<question, tries, admitted, tripped, waits, yesTo>>

-----------------------------------------------------------------------------
\* The session opens a dialog, draws it, or closes it: agents open several in a row.
ScreenChanges(d) ==
    /\ d # question /\ question' = d
    /\ waits' = 0 /\ repeat' = (d \in answered \cup ({arStep.sig} \ {"none"}))
    /\ UNCHANGED <<arStep, candidate, answered, tries, admitted, tripped, yesTo>>

ArInit ==
    /\ question = "none" /\ arStep = Looks /\ candidate = NoCandidate /\ answered = {}
    /\ tries = NoTries /\ admitted = {} /\ tripped = None
    /\ waits = 0 /\ repeat = FALSE /\ yesTo = {}

ArNext ==
    \/ Capture
    \/ (\E written \in BOOLEAN : PressYes(written) \/ PressNo(written))
    \/ (\E captured \in BOOLEAN : After(captured))
    \/ (\E d \in Questions \cup {"none", "unread"} : ScreenChanges(d))

ArSpec == ArInit /\ [][ArNext]_arVars

-----------------------------------------------------------------------------
\* The types of the resolver's state.
ArTypeOK ==
    /\ question \in Questions \cup {"none", "unread"}
    /\ arStep \in [at : {"look", "press", "after"}, sig : Questions \cup {"none"}]
    /\ candidate \in [sig : Questions \cup {"none"}, age : 0..AgeCap]
    /\ answered \subseteq Questions /\ tries \in [sig : Questions \cup {"none"}, n : 0..2]
    /\ admitted \subseteq 0..Minute /\ tripped \in Ages(TripCooldown)
    /\ waits \in 0..Bound /\ repeat \in BOOLEAN /\ yesTo \subseteq Questions

\* Enter never falls on a dialog whose command no rule allows, though dialogs replace
\* each other between the decision and the key.
YesOnlyAllowed == yesTo \subseteq Allowed

\* A dialog that stays readable gets a key in bounded time, even through a pause of the
\* rate limit, unless one with the same signature was dealt with just before.
DialogDecided == ~repeat => waits < Bound

\* Every dialog is decided in time, and decided right.
DialogsResolved == ArTypeOK /\ YesOnlyAllowed /\ DialogDecided

\* autoresolve.rs:18 "A recognizable permission dialog is never left hanging".
NeverLeftHanging == waits < Bound
=============================================================================
