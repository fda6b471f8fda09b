----------------------------- MODULE WorkQueue -----------------------------
(***************************************************************************)
(* The work queue of tools/session-task/session-task: the items of         *)
(* queue.json, the serialization groups recomputed from their scopes, the  *)
(* spawn gate, and every verb of `session-task queue` that changes an item *)
(* status, scope, dependencies, priority or group.  Each verb holds the    *)
(* queue lock from its read to its write, so each is one action.           *)
(***************************************************************************)
EXTENDS Integers, FiniteSets

CONSTANTS
    MaxItems,         \* bound: items ever added
    Tokens,           \* serializing scope tokens (repo:, path:, file:, ...)
    Star,             \* the token `*`
    Overlaps(_, _),   \* _tokens_overlap on Tokens
    ScopeChoices,     \* the scopes callers ask for
    Priorities,       \* the priorities callers ask for
    PriorityFloor,    \* bound: how low `promote` may push a priority
    MaxDeps,          \* bound: dependencies per item
    Verbs             \* the verbs the callers of this instance use

AllVerbs ==
    {"add", "register", "pop", "done", "abandon", "release", "resurrect",
     "force-start", "co-run", "new-scope", "wedge", "unwedge", "block",
     "unblock", "unblock --force", "update-scope", "update", "depend",
     "promote", "reprioritize", "prune", "lock", "unlock"}

ASSUME ConstantsAssumption ==
    /\ MaxItems \in Nat
    /\ ScopeChoices \subseteq SUBSET Tokens
    /\ Priorities \subseteq Int
    /\ PriorityFloor \in Int
    /\ MaxDeps \in Nat
    /\ Verbs \subseteq AllVerbs

ASSUME OverlapAssumption ==
    \A a, b \in Tokens : /\ Overlaps(a, b) \in BOOLEAN
                         /\ Overlaps(a, a)
                         /\ Overlaps(a, b) => Overlaps(b, a)
                         /\ Star \in Tokens => Overlaps(Star, a)

(* Items are numbered in the order of their created_at stamps. *)
Ids == 1 .. MaxItems

VARIABLES
    status,     \* status[i]; "absent" before `add` and after `prune`
    scope,      \* the serializing tokens of i's scope
    deps,       \* the targets of i's task:<id> tokens
    prio,       \* 1 is the highest priority; lower numbers go first
    group,      \* group_id: only whether two ids are equal matters
    locked,     \* locked_scopes: tokens parked by the operator
    issued,     \* how many items were ever added
    unchecked   \* history: owners let in, or widened, with no conflict check

vars == <<status, scope, deps, prio, group, locked, issued, unchecked>>

Serializing == {"pending", "running", "wedged", "quarantined"}
Owning      == {"running", "wedged", "quarantined"}   \* RUNNING_STATUSES
Terminal    == {"done", "abandoned"}
Active      == Serializing \cup {"blocked"}
Status      == Active \cup Terminal \cup {"absent"}

Clash(S, T) == \E a \in S, b \in T : Overlaps(a, b)

Existing == {i \in Ids : status[i] # "absent"}

-----------------------------------------------------------------------------
(* Groups: the connected components of the serializing items, two of which *)
(* are joined when their scopes overlap.  A group id is the component it   *)
(* was minted for.                                                         *)

(* Mutant: only direct overlaps join a group. *)
ComponentNotTransitive(st, sc, i) ==
    {j \in Ids : st[j] \in Serializing /\ Clash(sc[i], sc[j])}

Component(st, sc, i) ==
    LET S == {k \in Ids : st[k] \in Serializing}
        Closed(C) == \A a \in C, b \in S : Clash(sc[a], sc[b]) => b \in C
    IN  {j \in S : \A C \in SUBSET S : i \in C /\ Closed(C) => j \in C}

(* A blocked or terminal item joins a component only when it overlaps just *)
(* that one; otherwise it stands alone, so that it never bridges two.      *)
Regroup(st, sc) ==
    [i \in Ids |->
        IF st[i] = "absent" THEN {}
        ELSE IF st[i] \in Serializing THEN Component(st, sc, i)
        ELSE LET near == {Component(st, sc, j) : j \in
                            {k \in Ids : /\ st[k] \in Serializing
                                         /\ Clash(sc[i], sc[k])}}
             IN  IF \E C \in near : near = {C} THEN UNION near ELSE {i}]

Members(i) == {j \in Existing : group[j] = group[i]}

Before(i, j) == prio[i] < prio[j] \/ (prio[i] = prio[j] /\ i < j)

-----------------------------------------------------------------------------
(* Readiness and the spawn gate. *)

LockBlocked(i) ==
    \/ Clash(scope[i], locked)
    \/ deps[i] # {} /\ Star \in locked

(* What i depends on, directly or not, under the edges D; i included. *)
Reach(D, i) ==
    {j \in Ids : \A C \in SUBSET Ids :
        i \in C /\ (\A a \in C : D[a] \subseteq C) => j \in C}

HasCycle(D, i) == \E j \in Reach(D, i) : \E k \in D[j] : j \in Reach(D, k)

Unmet(D) == {d \in D : status[d] # "done"}

(* Mutant: the head is the oldest pending member. *)
HeadIsOldest(i) ==
    \A j \in Members(i) :
        /\ status[j] \notin Owning
        /\ status[j] = "pending" /\ j # i => i < j

(* Mutant: a blocked member counts as in flight and pins its group. *)
HeadMayBeBlocked(i) ==
    \A j \in Members(i) :
        /\ status[j] \notin Owning \cup {"blocked"}
        /\ status[j] = "pending" /\ j # i => Before(i, j)

(* The owner of i's group, or else its first pending member, is its head. *)
HeadOfGroup(i) ==
    \A j \in Members(i) :
        /\ status[j] \notin Owning
        /\ status[j] = "pending" /\ j # i => Before(i, j)

Ready(i) ==
    /\ status[i] = "pending"
    /\ ~LockBlocked(i)
    /\ HeadOfGroup(i)
    /\ deps[i] # {} => ~HasCycle(deps, i) /\ Unmet(deps[i]) = {}

Conflicts(i, sc) ==
    {j \in Ids \ {i} : status[j] \in Owning /\ Clash(scope[j], sc)}

(* _spawn_check for a pending item: no peer in any group owns its scope. *)
SpawnClear(i) == Ready(i) /\ Conflicts(i, scope[i]) = {}

-----------------------------------------------------------------------------
Init ==
    /\ status = [i \in Ids |-> "absent"]
    /\ scope = [i \in Ids |-> {}]
    /\ deps = [i \in Ids |-> {}]
    /\ prio = [i \in Ids |-> 0]
    /\ group = [i \in Ids |-> {}]
    /\ locked = {}
    /\ issued = 0
    /\ unchecked = {}

(* The statuses and scopes become st and sc, and the groups are recomputed. *)
(* The items of W are owners now without a conflict check.                  *)
Commit(st, sc, W) ==
    /\ status' = st
    /\ scope' = sc
    /\ group' = Regroup(st, sc)
    /\ unchecked' = {k \in unchecked \cup W : st[k] \in Owning}

SetStatus(i, s) ==
    /\ Commit([status EXCEPT ![i] = s], scope, {})
    /\ UNCHANGED <<deps, prio, locked, issued>>

Existent(i) == i \in Existing

(* queue add: S are the serializing tokens asked for and D the task:<id>   *)
(* tokens, from --scope or --depends-on; an unknown target is refused.     *)
Add(S, D, p) ==
    /\ "add" \in Verbs
    /\ issued < MaxItems
    /\ S # {} \/ D # {}
    /\ D \subseteq Existing /\ Cardinality(D) <= MaxDeps
    /\ LET i == issued + 1
       IN  /\ Commit([status EXCEPT ![i] = "pending"],
                     [scope EXCEPT ![i] = S], {})
           /\ deps' = [deps EXCEPT ![i] = D]
           /\ prio' = [prio EXCEPT ![i] = p]
           /\ issued' = i
    /\ UNCHANGED locked

(* queue register, and queue pop --id, which asks for the same. *)
Register(i) ==
    /\ "register" \in Verbs
    /\ SpawnClear(i)
    /\ SetStatus(i, "running")

(* queue pop: the first of the ready items in the whole queue, or nothing. *)
PopNext(i) ==
    /\ "pop" \in Verbs
    /\ Ready(i)
    /\ \A j \in Ids \ {i} : Ready(j) => Before(i, j)
    /\ SpawnClear(i)
    /\ SetStatus(i, "running")

(* queue done refuses only what is done already. *)
Done(i) ==
    /\ "done" \in Verbs
    /\ Existent(i) /\ status[i] # "done"
    /\ SetStatus(i, "done")

(* queue abandon without --confirmed-dead: an owner is only quarantined. *)
Abandon(i) ==
    /\ "abandon" \in Verbs
    /\ Existent(i) /\ status[i] \notin Terminal \cup {"quarantined"}
    /\ SetStatus(i, IF status[i] \in Owning THEN "quarantined"
                                            ELSE "abandoned")

(* queue abandon --confirmed-dead. *)
AbandonConfirmed(i) ==
    /\ "abandon" \in Verbs
    /\ Existent(i) /\ status[i] \notin Terminal
    /\ SetStatus(i, "abandoned")

(* queue release: the operator asserts that the quarantined agent is gone. *)
Release(i) ==
    /\ "release" \in Verbs
    /\ status[i] = "quarantined"
    /\ SetStatus(i, "abandoned")

(* queue resurrect: a pending replacement with the scope, priority and     *)
(* dependencies (known ones) of i, which is abandoned unless --keep-old.   *)
Resurrect(i, keepOld) ==
    /\ "resurrect" \in Verbs
    /\ issued < MaxItems
    /\ status[i] \in Owning
    /\ LET n == issued + 1
       IN  /\ Commit([status EXCEPT ![n] = "pending",
                                    ![i] = IF keepOld THEN @
                                                      ELSE "abandoned"],
                     [scope EXCEPT ![n] = scope[i]], {})
           /\ deps' = [deps EXCEPT ![n] = deps[i] \cap Existing]
           /\ prio' = [prio EXCEPT ![n] = prio[i]]
           /\ issued' = n
    /\ UNCHANGED locked

(* Mutant: the owners it overlaps are left running. *)
ForceStartNoAutostop(i) ==
    /\ "force-start" \in Verbs
    /\ status[i] = "pending"
    /\ SetStatus(i, "running")

(* queue force-start: locks, dependencies and queue order are ignored; the *)
(* owners it overlaps are abandoned, quarantined ones included.            *)
ForceStart(i) ==
    /\ "force-start" \in Verbs
    /\ status[i] = "pending"
    /\ Commit([k \in Ids |->
                  IF k = i THEN "running"
                  ELSE IF k \in Conflicts(i, scope[i]) THEN "abandoned"
                  ELSE status[k]], scope, {})
    /\ UNCHANGED <<deps, prio, locked, issued>>

(* queue force-start --no-interrupt: it runs alongside the owners. *)
CoRun(i) ==
    /\ "co-run" \in Verbs
    /\ status[i] = "pending"
    /\ Commit([status EXCEPT ![i] = "running"], scope, {i})
    /\ UNCHANGED <<deps, prio, locked, issued>>

(* queue force-start --new-scope: it is given the scope S and co-runs; the *)
(* dependencies are kept only by the derived form, not by a typed scope.   *)
ForceStartRescoped(i, S, keepDeps) ==
    /\ "new-scope" \in Verbs
    /\ status[i] = "pending"
    /\ Commit([status EXCEPT ![i] = "running"], [scope EXCEPT ![i] = S], {i})
    /\ deps' = [deps EXCEPT ![i] = IF keepDeps THEN @ ELSE {}]
    /\ UNCHANGED <<prio, locked, issued>>

(* Mutant: a status that no status set knows. *)
WedgeUnknownStatus(i) ==
    /\ "wedge" \in Verbs
    /\ status[i] = "running"
    /\ SetStatus(i, "stuck")

(* queue wedge and queue unwedge: the agent is stuck, and recovers. *)
Wedge(i) ==
    /\ "wedge" \in Verbs
    /\ status[i] = "running"
    /\ SetStatus(i, "wedged")

Unwedge(i) ==
    /\ "unwedge" \in Verbs
    /\ status[i] = "wedged"
    /\ SetStatus(i, "running")

(* queue block: parked on an external party; the scope is given up. *)
Block(i) ==
    /\ "block" \in Verbs
    /\ status[i] \in {"pending", "running"}
    /\ SetStatus(i, "blocked")

(* Mutant: back to running without a look at who owns the scope now. *)
UnblockUnchecked(i) ==
    /\ "unblock" \in Verbs
    /\ status[i] = "blocked"
    /\ SetStatus(i, "running")

(* Mutant: the groups are not recomputed. *)
UnblockStaleGroups(i) ==
    /\ "unblock" \in Verbs
    /\ status[i] = "blocked"
    /\ status' = [status EXCEPT ![i] =
                     IF Conflicts(i, scope[i]) = {} THEN "running"
                                                    ELSE "pending"]
    /\ UNCHANGED <<scope, deps, prio, group, locked, issued, unchecked>>

(* queue unblock: running again, or pending behind the owners of its scope. *)
Unblock(i) ==
    /\ "unblock" \in Verbs
    /\ status[i] = "blocked"
    /\ SetStatus(i, IF Conflicts(i, scope[i]) = {} THEN "running"
                                                   ELSE "pending")

UnblockForced(i) ==
    /\ "unblock --force" \in Verbs
    /\ status[i] = "blocked"
    /\ Commit([status EXCEPT ![i] = "running"], scope, {i})
    /\ UNCHANGED <<deps, prio, locked, issued>>

(* queue update-scope: tokens S and task:<id> tokens D are added to any    *)
(* item, or removed from it.  Neither the conflicts, nor the targets, nor  *)
(* the groups are looked at.                                               *)
WidenScope(i, S, D) ==
    /\ "update-scope" \in Verbs
    /\ Existent(i)
    /\ ~(S \subseteq scope[i] /\ D \subseteq deps[i])
    /\ Cardinality(deps[i] \cup D) <= MaxDeps
    /\ scope' = [scope EXCEPT ![i] = @ \cup S]
    /\ deps' = [deps EXCEPT ![i] = @ \cup D]
    /\ unchecked' = IF status[i] \in Owning THEN unchecked \cup {i}
                                            ELSE unchecked
    /\ UNCHANGED <<status, prio, group, locked, issued>>

NarrowScope(i, S, D) ==
    /\ "update-scope" \in Verbs
    /\ Existent(i)
    /\ S \cap scope[i] # {} \/ D \cap deps[i] # {}
    /\ scope' = [scope EXCEPT ![i] = @ \ S]
    /\ deps' = [deps EXCEPT ![i] = @ \ D]
    /\ UNCHANGED <<status, prio, group, locked, issued, unchecked>>

(* queue update --scope: the whole scope is replaced, task tokens included. *)
UpdateScope(i, S, D) ==
    /\ "update" \in Verbs
    /\ status[i] \in Active
    /\ S # {} \/ D # {}
    /\ Cardinality(D) <= MaxDeps
    /\ S # scope[i] \/ D # deps[i]
    /\ Commit(status, [scope EXCEPT ![i] = S], {i})
    /\ deps' = [deps EXCEPT ![i] = D]
    /\ UNCHANGED <<prio, locked, issued>>

(* The dependencies of i become D: an owner left with an unmet one is       *)
(* blocked; in every other case the groups are not recomputed.             *)
SetDeps(i, D) ==
    /\ deps' = [deps EXCEPT ![i] = D]
    /\ IF status[i] \in Owning /\ Unmet(D) # {}
       THEN Commit([status EXCEPT ![i] = "blocked"], scope, {})
       ELSE UNCHANGED <<status, scope, group, unchecked>>
    /\ UNCHANGED <<prio, locked, issued>>

DependTargets(i, D) ==
    /\ status[i] \in Active
    /\ D \ deps[i] \subseteq Existing \ {i}
    /\ Cardinality(D) <= MaxDeps

(* Mutant: only the dependency of an item on itself is refused. *)
DependSelfLoopOnly(i, D) ==
    /\ "depend" \in Verbs
    /\ DependTargets(i, D)
    /\ SetDeps(i, D)

(* queue depend --add/--remove/--clear (with --force where it is needed):  *)
(* an edit that closes a cycle is refused.                                 *)
Depend(i, D) ==
    /\ "depend" \in Verbs
    /\ DependTargets(i, D)
    /\ HasCycle([deps EXCEPT ![i] = D], i) => HasCycle(deps, i)
    /\ SetDeps(i, D)

(* queue promote: ahead of every member of its group, finished ones too. *)
Promote(i) ==
    /\ "promote" \in Verbs
    /\ status[i] = "pending"
    /\ \E j \in Members(i) :
          /\ \A k \in Members(i) : prio[j] <= prio[k]
          /\ prio[j] - 1 >= PriorityFloor
          /\ prio' = [prio EXCEPT ![i] = prio[j] - 1]
    /\ Commit(status, scope, {})
    /\ UNCHANGED <<deps, locked, issued>>

Reprioritize(i, p) ==
    /\ "reprioritize" \in Verbs
    /\ status[i] = "pending"
    /\ prio' = [prio EXCEPT ![i] = p]
    /\ Commit(status, scope, {})
    /\ UNCHANGED <<deps, locked, issued>>

(* queue prune: finished items (those older than the cutoff) are dropped;  *)
(* what depended on them now depends on a missing item.                    *)
Prune(P) ==
    /\ "prune" \in Verbs
    /\ P # {} /\ \A i \in P : status[i] \in Terminal
    /\ status' = [i \in Ids |-> IF i \in P THEN "absent" ELSE status[i]]
    /\ scope' = [i \in Ids |-> IF i \in P THEN {} ELSE scope[i]]
    /\ deps' = [i \in Ids |-> IF i \in P THEN {} ELSE deps[i]]
    /\ prio' = [i \in Ids |-> IF i \in P THEN 0 ELSE prio[i]]
    /\ group' = [i \in Ids |-> IF i \in P THEN {} ELSE group[i]]
    /\ UNCHANGED <<locked, issued, unchecked>>

(* queue lock and queue unlock: the operator parks a token. *)
Lock(t) ==
    /\ "lock" \in Verbs
    /\ locked' = locked \cup {t}
    /\ UNCHANGED <<status, scope, deps, prio, group, issued, unchecked>>

Unlock(t) ==
    /\ "unlock" \in Verbs
    /\ locked' = locked \ {t}
    /\ UNCHANGED <<status, scope, deps, prio, group, issued, unchecked>>

Next ==
    \/ \E S \in ScopeChoices \cup {{}}, D \in SUBSET Ids, p \in Priorities :
          Add(S, D, p)
    \/ \E i \in Ids :
          \/ Register(i) \/ PopNext(i) \/ Done(i) \/ Abandon(i)
          \/ AbandonConfirmed(i) \/ Release(i)
          \/ \E keepOld \in BOOLEAN : Resurrect(i, keepOld)
          \/ ForceStart(i) \/ CoRun(i)
          \/ \E S \in ScopeChoices, k \in BOOLEAN : ForceStartRescoped(i, S, k)
          \/ Wedge(i) \/ Unwedge(i) \/ Block(i) \/ Unblock(i)
          \/ UnblockForced(i)
          \/ \E S \in ScopeChoices \cup {{}}, D \in SUBSET Ids :
                WidenScope(i, S, D) \/ NarrowScope(i, S, D)
                \/ UpdateScope(i, S, D)
          \/ \E D \in SUBSET Ids : Depend(i, D)
          \/ Promote(i)
          \/ \E p \in Priorities : Reprioritize(i, p)
    \/ \E P \in SUBSET Ids : Prune(P)
    \/ \E t \in Tokens : Lock(t) \/ Unlock(t)

Spec == Init /\ [][Next]_vars

-----------------------------------------------------------------------------
(* The callers of a live queue: the main loop pops whatever is ready when  *)
(* it is told of a `queue done`, and an agent that owns a scope, however   *)
(* often it is parked, finishes in the end or is declared gone.            *)
Finish(i) == status[i] \in Owning /\ Done(i)

FairSpec ==
    /\ Spec
    /\ WF_vars(\E i \in Ids : PopNext(i))
    /\ \A i \in Ids : SF_vars(Finish(i))

-----------------------------------------------------------------------------
TypeOK ==
    /\ status \in [Ids -> Status]
    /\ scope \in [Ids -> SUBSET Tokens]
    /\ deps \in [Ids -> SUBSET Ids]
    /\ prio \in [Ids -> Int]
    /\ group \in [Ids -> SUBSET Ids]
    /\ locked \in SUBSET Tokens
    /\ issued \in 0 .. MaxItems
    /\ unchecked \in SUBSET Ids

(* Two items never own overlapping scopes, unless one of them was let in   *)
(* (or widened) by a verb that makes no conflict check: the spawn gate of  *)
(* register/pop, unblock, force-start's autostop, quarantine and resurrect *)
(* together keep the promise a scope lock makes.                           *)
ScopeExclusion ==
    \A i, j \in Ids :
        /\ i # j /\ status[i] \in Owning /\ status[j] \in Owning
        /\ Clash(scope[i], scope[j])
        => i \in unchecked \/ j \in unchecked

(* "Overlapping items end up in the same group": every verb that changes   *)
(* what serializes leaves the recorded groups closed under overlap.        *)
GroupsCurrent ==
    \A i, j \in Ids :
        /\ status[i] \in Serializing /\ status[j] \in Serializing
        /\ Clash(scope[i], scope[j])
        => group[i] = group[j]

(* Whatever `queue ready` lists, the spawn gate lets in: no caller that    *)
(* trusts ready_now is turned back by _spawn_check.                        *)
ReadyIsClaimable == \A i \in Ids : Ready(i) => SpawnClear(i)

(* Items listed as ready at the same time may be spawned in parallel.      *)
ReadyDisjoint ==
    \A i, j \in Ids :
        i # j /\ Ready(i) /\ Ready(j) => ~Clash(scope[i], scope[j])

(* An item is claimed before every pending item it overlaps: no later or   *)
(* less urgent item of the same scope overtakes it.                        *)
PeersInOrder ==
    [][\A i, j \in Ids :
         /\ i # j
         /\ status[i] = "pending" /\ status'[i] = "running"
         /\ status[j] = "pending" /\ Clash(scope[i], scope[j])
         => Before(i, j)]_vars

(* The dependency graph never closes a loop that would hold every item on  *)
(* it for good, unless `update` or `update-scope` put a task token of its  *)
(* own into a scope: they set the edges without a look at them.            *)
DepsAcyclic == \A i \in Ids : ~HasCycle(deps, i)

(* j has to move before i can be claimed. *)
WaitsFor(i, j) ==
    /\ i # j
    /\ \/ j \in deps[i]
       \/ j \in Members(i) /\ status[j] \in Owning
       \/ j \in Members(i) /\ status[j] = "pending" /\ Before(j, i)

(* If nothing owns a scope, nothing is parked and every dependency can     *)
(* still be met, then a pending item is ready unless pending items wait    *)
(* for one another in a circle: readiness has no other blocker.            *)
NoHiddenBlocker ==
    LET P == {i \in Ids : status[i] = "pending"}
        Stuck(C) == C # {} /\ \A i \in C : \E j \in C : WaitsFor(i, j)
    IN  /\ P # {} /\ locked = {}
        /\ \A i \in Ids : status[i] \notin Owning
        /\ \A i \in P : Unmet(deps[i]) \subseteq P /\ ~HasCycle(deps, i)
        /\ \A C \in SUBSET P : ~Stuck(C)
        => \E i \in P : Ready(i)

(* The queue implements a scope lock: what an item holds is the scope it   *)
(* owns.                                                                   *)
Held == [i \in Ids |-> IF status[i] \in Owning THEN scope[i] ELSE {}]

SL == INSTANCE ScopeLock WITH held <- Held, forced <- unchecked

ImplementsScopeLock == SL!LockSpec

(* A pending item is claimed, parked or finished in the end: its turn in   *)
(* its group comes, however often items are abandoned and resurrected.     *)
EventuallyClaimed ==
    \A i \in Ids : status[i] = "pending" ~> status[i] # "pending"

-----------------------------------------------------------------------------
(* What comments and documents say of the queue and the code does not do. *)

(* _recompute_group_heads: "Ensure invariant: at most one running per      *)
(* group"; docs/queue.md: "within a group they run one-at-a-time".         *)
OneRunningPerGroup ==
    \A i, j \in Ids :
        /\ i # j /\ status[i] \in Owning /\ status[j] \in Owning
        => group[i] # group[j]

(* docs/queue.md, "Ending a quarantine": the item ends done or abandoned.  *)
QuarantineExits ==
    [][\A i \in Ids : status[i] = "quarantined" =>
            status'[i] \in {"quarantined", "done", "abandoned"}]_vars

(* The header on `blocked`: "Still owns its scope so peers can't grab it." *)
BlockedOwnsScope ==
    \A i, j \in Ids :
        /\ status[i] = "blocked" /\ status[j] \in Owning
        => ~Clash(scope[i], scope[j])

(* cmd_queue_block: "unblock re-acquires the scope exactly like a fresh    *)
(* register": not while the scope is locked or a dependency is unmet.      *)
UnblockLikeRegister ==
    [][\A i \in Ids : status[i] = "blocked" /\ status'[i] = "running" =>
            ~LockBlocked(i) /\ Unmet(deps[i]) = {}]_vars

(* docs/queue.md on resurrect: the "new row carries the same scope - never *)
(* unlocked in between": once the old owner is abandoned, nothing but the  *)
(* replacement is ready on its scope.                                      *)
ResurrectNeverUnlocks ==
    [][\A i, n \in Ids :
         /\ status[i] \in Owning /\ status'[i] = "abandoned"
         /\ status[n] = "absent" /\ status'[n] = "pending"
         => \A k \in Ids \ {n} : Clash(scope[i], scope[k]) => ~Ready(k)']_vars
=============================================================================
