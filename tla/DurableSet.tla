----------------------------- MODULE DurableSet -----------------------------
(***************************************************************************)
(* What the file under the work queue promises its verbs: the updates that *)
(* were reported as done are in every later reading.  An update that was   *)
(* not reported may be there, or get lost.                                 *)
(***************************************************************************)
VARIABLES
    val,     \* the updates that a reader finds
    kept     \* the updates that were reported as done

setVars == <<val, kept>>

SetInit == val = {} /\ kept = {}

Apply == val \subseteq val' /\ UNCHANGED kept

Report(u) == u \in val /\ kept' = kept \cup {u} /\ UNCHANGED val

Lose == kept \subseteq val' /\ val' \subseteq val /\ UNCHANGED kept

SetNext == Apply \/ Lose \/ \E u \in val : Report(u)

SetSpec == SetInit /\ [][SetNext]_setVars
=============================================================================
