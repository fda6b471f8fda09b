------------------------------ MODULE AlertGate ------------------------------
(***************************************************************************)
(* The pending alerts (src/obligation_arm.rs), the rung between an event   *)
(* and an interrupt: the daemon appends an alert, a hook denies tool calls *)
(* while one is pending, `claude-watch-ack` shows and removes them.  Both  *)
(* write the file by read, modify, write to the same sibling, rename; no   *)
(* lock orders them, and either may die between two steps.                 *)
(***************************************************************************)
EXTENDS Naturals

CONSTANTS Sources   \* what the daemon arms for: thinking, context, watcher, stuck

VARIABLES
    alerts,  \* pending-alerts.json
    sibling, \* pending-alerts.json.tmp, one for both
    writer,  \* per writer: its step, what it saves and adds, and where the file it
             \* has open is by now
    unread,  \* history: armed, and not printed by an acknowledgement since
    together \* history: both writers were under way at one time

agVars == <<alerts, sibling, writer, unread, together>>

Writers == {"daemon", "ack"}
File(state, s) == [state |-> state, holds |-> s]   \* "none", "half" or "whole"
At(step, s, new) == [at |-> step, saves |-> s, adds |-> new, file |-> "sibling"]

\* load_alerts, _load_state: a missing or broken file is an empty list.
Loaded == IF alerts.state = "whole" THEN alerts.holds ELSE {}

Begins(w, s, new) ==
    /\ writer[w].at = "off"
    /\ writer' = [writer EXCEPT ![w] = At("opens", s, new)]
    /\ together' = (together \/ \E v \in Writers : writer[v].at # "off")
Goes(w, step) == writer' = [writer EXCEPT ![w].at = step]

-----------------------------------------------------------------------------
\* arm_alert_obligation_in: one alert of a source at a time.
Arm(source) ==
    /\ source \notin Loaded
    /\ Begins("daemon", Loaded \cup {source}, {source})
    /\ UNCHANGED <<alerts, sibling, unread>>

\* cmd_ack, by id or --all --confirm-read: what it removes it has printed in full.
Acknowledge(shown) ==
    /\ shown \subseteq Loaded
    /\ Begins("ack", Loaded \ shown, {})
    /\ unread' = unread \ shown
    /\ UNCHANGED <<alerts, sibling>>

\* save_alerts, _save_state: the sibling is truncated, filled and renamed.  A file that
\* the other writer renames meanwhile is filled where it went, and the rename fails
\* when there is no sibling any more.
OpensInPlace(w) ==
    /\ writer[w].at = "opens" /\ Goes(w, "fills")
    /\ sibling' = File("half", {}) /\ alerts' = File("half", {})
    /\ UNCHANGED <<unread, together>>
Opens(w) ==
    /\ writer[w].at = "opens" /\ Goes(w, "fills")
    /\ sibling' = File("half", {})
    /\ UNCHANGED <<alerts, unread, together>>

Fills(w) ==
    /\ writer[w].at = "fills" /\ Goes(w, "renames")
    /\ LET filled == File("whole", writer[w].saves)
       IN  /\ sibling' = IF writer[w].file = "sibling" THEN filled ELSE sibling
           /\ alerts' = IF writer[w].file = "alerts" THEN filled ELSE alerts
    /\ UNCHANGED <<unread, together>>

Renames(w) ==
    /\ writer[w].at = "renames"
    /\ IF sibling.state = "none" THEN Goes(w, "off") /\ UNCHANGED <<alerts, sibling, unread>>
       ELSE /\ writer' = [v \in Writers |->
                  IF v = w THEN [writer[w] EXCEPT !.at = "off"]
                  ELSE IF writer[v].at # "fills" THEN writer[v]
                  ELSE [writer[v] EXCEPT !.file = IF @ = "sibling" THEN "alerts" ELSE "gone"]]
            /\ alerts' = sibling /\ sibling' = File("none", {})
            /\ unread' = unread \cup writer[w].adds
    /\ UNCHANGED together

Dies(w) ==
    /\ writer[w].at # "off" /\ Goes(w, "off")
    /\ UNCHANGED <<alerts, sibling, unread, together>>

AgInit ==
    /\ alerts = File("whole", {}) /\ sibling = File("none", {})
    /\ writer = [w \in Writers |-> At("off", {}, {})]
    /\ unread = {} /\ together = FALSE

AgNext ==
    \/ \E source \in Sources : Arm(source)
    \/ \E shown \in SUBSET Sources : Acknowledge(shown)
    \/ \E w \in Writers : Opens(w) \/ Fills(w) \/ Renames(w) \/ Dies(w)

AgSpec == AgInit /\ [][AgNext]_agVars

-----------------------------------------------------------------------------
\* The types of the alert file and its writers.
AgTypeOK ==
    /\ {alerts, sibling} \subseteq [state : {"none", "half", "whole"}, holds : SUBSET Sources]
    /\ writer \in [Writers -> [at : {"off", "opens", "fills", "renames"},
                               saves : SUBSET Sources, adds : SUBSET Sources,
                               file : {"sibling", "alerts", "gone"}]]
    /\ unread \subseteq Sources /\ together \in BOOLEAN

\* A writer that dies at any step loses no alert that nobody has read, as long as
\* the two writers do not meet.
UnreadKept == ~together => unread \subseteq Loaded

\* An alert that nobody has read survives its writers, one at a time.
AlertsKept == AgTypeOK /\ UnreadKept

\* claude-watch-ack:41 "Concurrent writes are serialised via a temp-file + atomic rename
\* so the gate hook never reads a half-written file."
NeverHalf == alerts.state = "whole"

\* claude-watch-ack:308 "This makes a reflexive `ack --all` that masks an unread alert
\* impossible": an alert stays until it was printed.
ClearedWasRead == unread \subseteq Loaded
=============================================================================
