----------------------------- MODULE ScopeLock -----------------------------
(***************************************************************************)
(* What the work queue promises about scopes, with the queue left out: an  *)
(* item holds a set of scope tokens from the moment it is granted them to  *)
(* the moment it gives them up, and no two items hold overlapping tokens   *)
(* unless one of them was let in without the conflict check.               *)
(***************************************************************************)
CONSTANTS Ids, Tokens, Overlaps(_, _)

VARIABLES
    held,     \* held[i]: the scope tokens item i holds ({}: it holds none)
    forced    \* the holders that were let in without the conflict check

lockVars == <<held, forced>>

Clash(S, T) == \E a \in S, b \in T : Overlaps(a, b)

LockTypeOK ==
    /\ held \in [Ids -> SUBSET Tokens]
    /\ forced \in SUBSET Ids

LockInit ==
    /\ held = [i \in Ids |-> {}]
    /\ forced = {}

(* i is granted S after every holder in R has given its tokens up, and     *)
(* only if S clashes with none of those that remain.                       *)
Grant(i, S, R) ==
    /\ i \notin R
    /\ held[i] = {}
    /\ \A j \in Ids \ (R \cup {i}) : ~Clash(S, held[j])
    /\ held' = [j \in Ids |-> IF j = i THEN S
                              ELSE IF j \in R THEN {} ELSE held[j]]
    /\ forced' = forced \ (R \cup {i})

(* i comes to hold S, whatever the others hold, and is marked as forced. *)
Force(i, S) ==
    /\ held' = [held EXCEPT ![i] = S]
    /\ forced' = forced \cup {i}

(* i gives up some or all of its tokens. *)
Yield(i, S) ==
    /\ S \subseteq held[i]
    /\ held' = [held EXCEPT ![i] = S]
    /\ forced' \in {forced, forced \ {i}}
    /\ i \in forced \ forced' => S = {}

LockNext ==
    \/ \E i \in Ids, S \in SUBSET Tokens, R \in SUBSET Ids : Grant(i, S, R)
    \/ \E i \in Ids, S \in SUBSET Tokens : Force(i, S)
    \/ \E i \in Ids, S \in SUBSET Tokens : Yield(i, S)

LockSpec == LockInit /\ [][LockNext]_lockVars

(* Mutual exclusion: overlapping tokens have one holder, forced ones aside. *)
Exclusive ==
    \A i, j \in Ids :
        i # j /\ Clash(held[i], held[j]) => i \in forced \/ j \in forced
=============================================================================
