------------------------ MODULE WorkQueueGroupProofs ------------------------
(***************************************************************************)
(* What the serialization groups are for: as long as no caller uses        *)
(* update-scope, the one verb that changes a scope and leaves the groups   *)
(* as they are, the items listed as ready are those the spawn gate lets    *)
(* in, and they overlap neither each other nor an owner.  And what the     *)
(* dependencies are: no loop of them closes, and with the groups they are  *)
(* all that a pending item waits for.                                      *)
(***************************************************************************)
EXTENDS WorkQueueProofs

GInv == IInv /\ GroupsCurrent

-----------------------------------------------------------------------------
(* Two overlapping serializing items are in the same component: a set that *)
(* is closed under overlap holds both or neither.                          *)
LEMMA OverlapJoins ==
    ASSUME NEW st, NEW sc, NEW i \in Ids, NEW j \in Ids,
           st[i] \in Serializing, st[j] \in Serializing,
           Clash(sc[i], sc[j])
    PROVE  Component(st, sc, j) \subseteq Component(st, sc, i)
  <1> DEFINE S == {k \in Ids : st[k] \in Serializing}
             Closed(C) == \A a \in C, b \in S : Clash(sc[a], sc[b]) => b \in C
  <1>1. i \in S /\ j \in S
    OBVIOUS
  <1>2. \A C \in SUBSET S : i \in C /\ Closed(C) => j \in C
    BY <1>1
  <1>3. ASSUME NEW k \in S,
               \A C \in SUBSET S : j \in C /\ Closed(C) => k \in C
        PROVE  \A C \in SUBSET S : i \in C /\ Closed(C) => k \in C
    BY <1>2, <1>3
  <1>4. /\ Component(st, sc, i) =
             {k \in S : \A C \in SUBSET S : i \in C /\ Closed(C) => k \in C}
        /\ Component(st, sc, j) =
             {k \in S : \A C \in SUBSET S : j \in C /\ Closed(C) => k \in C}
    BY DEF Component
  <1> HIDE DEF S, Closed
  <1> QED BY <1>3, <1>4

LEMMA RegroupCurrent ==
    ASSUME NEW st, NEW sc \in [Ids -> SUBSET Tokens],
           NEW i \in Ids, NEW j \in Ids,
           st[i] \in Serializing, st[j] \in Serializing,
           Clash(sc[i], sc[j])
    PROVE  Regroup(st, sc)[i] = Regroup(st, sc)[j]
  <1>1. Clash(sc[j], sc[i])
    <2>1. sc[i] \in SUBSET Tokens /\ sc[j] \in SUBSET Tokens
      OBVIOUS
    <2> QED BY <2>1, ClashSymmetric
  <1>2. Component(st, sc, i) = Component(st, sc, j)
    <2>1. Component(st, sc, j) \subseteq Component(st, sc, i)
      BY OverlapJoins
    <2>2. Component(st, sc, i) \subseteq Component(st, sc, j)
      BY <1>1, OverlapJoins
    <2> QED BY <2>1, <2>2
  <1>3. \A k \in Ids : st[k] \in Serializing =>
            Regroup(st, sc)[k] = Component(st, sc, k)
    BY DEF Regroup, Serializing
  <1> QED BY <1>2, <1>3

LEMMA CommitCurrent ==
    ASSUME NEW st, NEW sc \in [Ids -> SUBSET Tokens], NEW W,
           Commit(st, sc, W)
    PROVE  GroupsCurrent'
  <1>1. status' = st /\ scope' = sc /\ group' = Regroup(st, sc)
    BY DEF Commit
  <1> QED BY <1>1, RegroupCurrent DEF GroupsCurrent

-----------------------------------------------------------------------------
(* Every verb but update-scope recomputes the groups, or leaves the scopes *)
(* and statuses of the serializing items alone.                            *)
LEMMA GroupsStayCurrent ==
    ASSUME "update-scope" \notin Verbs, GInv, [Next]_vars
    PROVE  GroupsCurrent'
  <1>1. scope \in [Ids -> SUBSET Tokens] /\ issued \in Nat
    BY DEF GInv, IInv, TypeOK
  <1>2. CASE \/ UNCHANGED vars
             \/ \E t \in Tokens : Lock(t) \/ Unlock(t)
    BY <1>2 DEF vars, Lock, Unlock, GInv, GroupsCurrent
  <1>3. ASSUME NEW S \in ScopeChoices \cup {{}}, NEW D, NEW p, Add(S, D, p)
        PROVE  GroupsCurrent'
    <2>1. S \in SUBSET Tokens
      BY ConstantsAssumption
    <2>2. [scope EXCEPT ![issued + 1] = S] \in [Ids -> SUBSET Tokens]
      BY <1>1, <2>1
    <2> QED BY <1>3, <2>2, CommitCurrent DEF Add
  <1>4. ASSUME NEW i \in Ids,
               \/ Register(i) \/ PopNext(i) \/ Done(i) \/ Abandon(i)
               \/ AbandonConfirmed(i) \/ Release(i) \/ Wedge(i)
               \/ Unwedge(i) \/ Block(i) \/ Unblock(i)
        PROVE  GroupsCurrent'
    <2>1. PICK s : SetStatus(i, s)
      BY <1>4 DEF Register, PopNext, Done, Abandon, AbandonConfirmed, Release,
                  Wedge, Unwedge, Block, Unblock
    <2> QED BY <1>1, <2>1, CommitCurrent DEF SetStatus
  <1>5. ASSUME NEW i \in Ids, NEW keepOld \in BOOLEAN, Resurrect(i, keepOld)
        PROVE  GroupsCurrent'
    <2>1. [scope EXCEPT ![issued + 1] = scope[i]] \in [Ids -> SUBSET Tokens]
      BY <1>1
    <2> QED BY <1>5, <2>1, CommitCurrent DEF Resurrect
  <1>6. ASSUME NEW i \in Ids,
               \/ ForceStart(i) \/ CoRun(i) \/ UnblockForced(i) \/ Promote(i)
               \/ \E p \in Priorities : Reprioritize(i, p)
        PROVE  GroupsCurrent'
    <2>1. PICK st, W : Commit(st, scope, W)
      BY <1>6 DEF ForceStart, CoRun, UnblockForced, Promote, Reprioritize
    <2> QED BY <1>1, <2>1, CommitCurrent
  <1>7. ASSUME NEW i \in Ids, NEW S \in ScopeChoices \cup {{}}, NEW D, NEW k,
               ForceStartRescoped(i, S, k) \/ UpdateScope(i, S, D)
        PROVE  GroupsCurrent'
    <2>1. S \in SUBSET Tokens
      BY ConstantsAssumption
    <2>2. [scope EXCEPT ![i] = S] \in [Ids -> SUBSET Tokens]
      BY <1>1, <2>1
    <2>3. PICK st, W : Commit(st, [scope EXCEPT ![i] = S], W)
      BY <1>7 DEF ForceStartRescoped, UpdateScope
    <2> QED BY <2>2, <2>3, CommitCurrent
  <1>8. ASSUME NEW i \in Ids, NEW D, Depend(i, D)
        PROVE  GroupsCurrent'
    <2>1. CASE UNCHANGED <<status, scope, group, unchecked>>
      BY <2>1 DEF GInv, GroupsCurrent
    <2>2. CASE Commit([status EXCEPT ![i] = "blocked"], scope, {})
      BY <1>1, <2>2, CommitCurrent
    <2> QED BY <1>8, <2>1, <2>2 DEF Depend, SetDeps
  <1>9. ASSUME NEW P \in SUBSET Ids, Prune(P)
        PROVE  GroupsCurrent'
    <2>1. \A k \in Ids : status'[k] \in Serializing =>
              /\ status[k] \in Serializing
              /\ scope'[k] = scope[k] /\ group'[k] = group[k]
      BY <1>9 DEF Prune, Serializing
    <2> QED BY <2>1 DEF GInv, GroupsCurrent
  <1>10. ASSUME NEW i \in Ids, NEW S, NEW D,
                WidenScope(i, S, D) \/ NarrowScope(i, S, D)
         PROVE  FALSE
    BY <1>10 DEF WidenScope, NarrowScope
  <1> QED BY <1>2, <1>3, <1>4, <1>5, <1>6, <1>7, <1>8, <1>9, <1>10 DEF Next

LEMMA GInvariance ==
    ASSUME "update-scope" \notin Verbs
    PROVE  Spec => []GInv
  <1>1. Init => GInv
    <2>1. Init => GroupsCurrent
      BY DEF Init, GroupsCurrent, Serializing
    <2> QED BY <2>1, InitInv DEF GInv
  <1>2. GInv /\ [Next]_vars => GInv'
    BY NextInv, GroupsStayCurrent DEF GInv
  <1> QED BY <1>1, <1>2, PTL DEF Spec

-----------------------------------------------------------------------------
(* The head of a group has no owner in its group, hence none in its way.   *)
LEMMA HeadsAreClear ==
    ASSUME GInv, NEW i \in Ids, Ready(i)
    PROVE  SpawnClear(i)
  <1> SUFFICES ASSUME NEW j \in Ids \ {i}, status[j] \in Owning,
                      Clash(scope[j], scope[i])
               PROVE  FALSE
    BY DEF SpawnClear, Conflicts
  <1>1. status[i] \in Serializing /\ status[j] \in Serializing
    BY DEF Ready, Owning, Serializing
  <1>2. group[j] = group[i]
    BY <1>1 DEF GInv, GroupsCurrent
  <1>3. j \in Members(i)
    BY <1>2 DEF Members, Existing, Owning
  <1> QED BY <1>3 DEF Ready, HeadOfGroup

(* A ready item goes before every pending item it overlaps.                *)
LEMMA HeadsAreFirst ==
    ASSUME GInv, NEW i \in Ids, NEW j \in Ids, i # j, Ready(i),
           status[j] = "pending", Clash(scope[i], scope[j])
    PROVE  Before(i, j)
  <1>1. status[i] \in Serializing /\ status[j] \in Serializing
    BY DEF Ready, Serializing
  <1>2. group[i] = group[j]
    BY <1>1 DEF GInv, GroupsCurrent
  <1>3. j \in Members(i)
    BY <1>2 DEF Members, Existing
  <1> QED BY <1>3 DEF Ready, HeadOfGroup

(* The spawn gate never turns back an item that `queue ready` lists, if no *)
(* scope is edited with update-scope.                                      *)
THEOREM ReadyItemsClaimable ==
    ASSUME "update-scope" \notin Verbs
    PROVE  Spec => []ReadyIsClaimable
  <1>1. GInv => ReadyIsClaimable
    BY HeadsAreClear DEF ReadyIsClaimable
  <1> QED BY <1>1, GInvariance, PTL

(* All the items that are ready at one time may be spawned in parallel, if *)
(* no scope is edited with update-scope.                                   *)
THEOREM ReadyItemsDisjoint ==
    ASSUME "update-scope" \notin Verbs
    PROVE  Spec => []ReadyDisjoint
  <1>1. GInv => ReadyDisjoint
    <2> SUFFICES ASSUME GInv, NEW i \in Ids, NEW j \in Ids, i # j,
                        Ready(i), Ready(j), Clash(scope[i], scope[j])
                 PROVE  FALSE
      BY DEF ReadyDisjoint
    <2>1. /\ scope[i] \in SUBSET Tokens /\ scope[j] \in SUBSET Tokens
          /\ prio[i] \in Int /\ prio[j] \in Int /\ i \in Int /\ j \in Int
      BY DEF GInv, IInv, TypeOK, Ids
    <2>2. Clash(scope[j], scope[i])
      BY <2>1, ClashSymmetric
    <2>3. Before(i, j) /\ Before(j, i)
      BY <2>2, HeadsAreFirst DEF Ready
    <2> QED BY <2>1, <2>3 DEF Before
  <1> QED BY <1>1, GInvariance, PTL

(* Only register and pop turn a pending item into a running one.           *)
LEMMA ClaimsAreReady ==
    ASSUME Verbs \cap {"update-scope", "force-start", "co-run", "new-scope"}
             = {},
           TypeOK, Next,
           NEW i \in Ids, status[i] = "pending", status'[i] = "running"
    PROVE  Ready(i)
  <1>1. status \in [Ids -> Status]
    BY DEF TypeOK
  <1>2. ASSUME NEW k \in Ids, Register(k) \/ PopNext(k)
        PROVE  Ready(i)
    <2>1. status' = [status EXCEPT ![k] = "running"] /\ Ready(k)
      BY <1>2 DEF Register, PopNext, SpawnClear, SetStatus, Commit
    <2> QED BY <1>1, <2>1
  <1>3. ASSUME NEW k \in Ids,
               \/ Done(k) \/ Abandon(k) \/ AbandonConfirmed(k) \/ Release(k)
               \/ Wedge(k) \/ Unwedge(k) \/ Block(k) \/ Unblock(k)
               \/ UnblockForced(k)
        PROVE  FALSE
    <2>1. \/ status' = [status EXCEPT ![k] = "running"]
             /\ status[k] \in {"wedged", "blocked"}
          \/ \E s \in Status \ {"running"} :
                status' = [status EXCEPT ![k] = s]
      BY <1>3 DEF Done, Abandon, AbandonConfirmed, Release, Wedge, Unwedge,
                  Block, Unblock, UnblockForced, SetStatus, Commit,
                  Status, Active, Serializing, Terminal
    <2> QED BY <1>1, <2>1
  <1>4. ASSUME NEW k \in Ids,
               \/ \E S \in ScopeChoices \cup {{}}, D \in SUBSET Ids :
                     UpdateScope(k, S, D)
               \/ Promote(k)
               \/ \E p \in Priorities : Reprioritize(k, p)
        PROVE  FALSE
    <2>1. status' = status
      BY <1>4 DEF UpdateScope, Promote, Reprioritize, Commit
    <2> QED BY <2>1
  <1>5. ASSUME NEW k \in Ids, NEW D, Depend(k, D)
        PROVE  FALSE
    <2>1. \/ status' = status
          \/ status' = [status EXCEPT ![k] = "blocked"]
      BY <1>5 DEF Depend, SetDeps, Commit
    <2> QED BY <1>1, <2>1
  <1>6. ASSUME NEW S, NEW D, NEW p, Add(S, D, p)
        PROVE  FALSE
    <2>1. status' = [status EXCEPT ![issued + 1] = "pending"]
      BY <1>6 DEF Add, Commit
    <2> QED BY <1>1, <2>1
  <1>7. ASSUME NEW k \in Ids, NEW keepOld \in BOOLEAN, Resurrect(k, keepOld)
        PROVE  FALSE
    <2>1. /\ status' = [status EXCEPT ![issued + 1] = "pending",
                        ![k] = IF keepOld THEN @ ELSE "abandoned"]
          /\ status[k] \in Owning
      BY <1>7 DEF Resurrect, Commit
    <2> QED BY <1>1, <2>1 DEF Owning
  <1>8. ASSUME \/ \E P \in SUBSET Ids : Prune(P)
               \/ \E t \in Tokens : Lock(t) \/ Unlock(t)
        PROVE  FALSE
    <2>1. status'[i] \in {"absent", status[i]}
      BY <1>8 DEF Prune, Lock, Unlock
    <2> QED BY <2>1
  <1>9. ASSUME NEW k \in Ids, NEW S, NEW D, NEW keep,
               \/ ForceStart(k) \/ CoRun(k) \/ ForceStartRescoped(k, S, keep)
               \/ WidenScope(k, S, D) \/ NarrowScope(k, S, D)
        PROVE  FALSE
    BY <1>9 DEF ForceStart, CoRun, ForceStartRescoped, WidenScope, NarrowScope
  <1> QED BY <1>2, <1>3, <1>4, <1>5, <1>6, <1>7, <1>8, <1>9 DEF Next

(* No item is claimed ahead of a pending item that it overlaps and that    *)
(* comes before it, if no scope is edited with update-scope and no item is *)
(* forced to start.                                                        *)
THEOREM ClaimsInOrder ==
    ASSUME Verbs \cap {"update-scope", "force-start", "co-run", "new-scope"}
             = {}
    PROVE  Spec => PeersInOrder
  <1> DEFINE A == \A i, j \in Ids :
                     /\ i # j
                     /\ status[i] = "pending" /\ status'[i] = "running"
                     /\ status[j] = "pending" /\ Clash(scope[i], scope[j])
                     => Before(i, j)
  <1>1. GInv /\ [Next]_vars => [A]_vars
    <2> SUFFICES ASSUME GInv, Next,
                        NEW i \in Ids, NEW j \in Ids, i # j,
                        status[i] = "pending", status'[i] = "running",
                        status[j] = "pending", Clash(scope[i], scope[j])
                 PROVE  Before(i, j)
      OBVIOUS
    <2>1. Ready(i)
      BY ClaimsAreReady DEF GInv, IInv
    <2> QED BY <2>1, HeadsAreFirst
  <1>2. "update-scope" \notin Verbs
    OBVIOUS
  <1> QED BY <1>1, <1>2, GInvariance, PTL DEF Spec, PeersInOrder

-----------------------------------------------------------------------------
(* Dependencies.  A set of items is closed under the edges D when it holds *)
(* the targets of its members; what is not reached from i is outside of a  *)
(* closed set that holds i.                                                *)
ClosedUnder(D, C) == \A a \in C : D[a] \subseteq C

LEMMA ReachByClosure ==
    ASSUME NEW D, NEW i \in Ids, NEW j \in Ids
    PROVE  j \in Reach(D, i) <=>
             \A C \in SUBSET Ids : i \in C /\ ClosedUnder(D, C) => j \in C
  BY DEF Reach, ClosedUnder

(* No loop: an item is not reached from what it depends on.                *)
NoLoop(D) == \A j \in Ids : \A k \in D[j] : j \notin Reach(D, k)

LEMMA NoLoopNoCycle ==
    ASSUME NEW D
    PROVE  (\A i \in Ids : ~HasCycle(D, i)) <=> NoLoop(D)
  <1>1. ASSUME \A i \in Ids : ~HasCycle(D, i)
        PROVE  NoLoop(D)
    <2>1. \A j \in Ids : j \in Reach(D, j)
      BY DEF Reach
    <2> QED BY <1>1, <2>1 DEF NoLoop, HasCycle
  <1>2. ASSUME NoLoop(D)
        PROVE  \A i \in Ids : ~HasCycle(D, i)
    BY <1>2 DEF NoLoop, HasCycle, Reach
  <1> QED BY <1>1, <1>2

(* An edit that only takes edges away closes no loop.                      *)
LEMMA FewerEdges ==
    ASSUME NEW D \in [Ids -> SUBSET Ids], NEW E \in [Ids -> SUBSET Ids],
           \A a \in Ids : E[a] \subseteq D[a], NoLoop(D)
    PROVE  NoLoop(E)
  <1> SUFFICES ASSUME NEW j \in Ids, NEW k \in E[j], j \in Reach(E, k)
               PROVE  FALSE
    BY DEF NoLoop
  <1>1. k \in D[j] /\ k \in Ids
    OBVIOUS
  <1>2. PICK C \in SUBSET Ids : k \in C /\ ClosedUnder(D, C) /\ j \notin C
    BY <1>1, ReachByClosure DEF NoLoop
  <1>3. ClosedUnder(E, C)
    BY <1>2 DEF ClosedUnder
  <1> QED BY <1>1, <1>2, <1>3, ReachByClosure

(* An edit of the edges of one item closes no loop when it closes none     *)
(* that this item reaches: any loop it closes runs through the item.       *)
LEMMA OneItemsEdges ==
    ASSUME NEW D \in [Ids -> SUBSET Ids], NEW E \in [Ids -> SUBSET Ids],
           NEW i \in Ids, \A a \in Ids \ {i} : E[a] = D[a],
           NoLoop(D), ~HasCycle(E, i)
    PROVE  NoLoop(E)
  <1> SUFFICES ASSUME NEW j \in Ids, NEW k \in E[j], j \in Reach(E, k)
               PROVE  FALSE
    BY DEF NoLoop
  <1>1. k \in Ids
    OBVIOUS
  <1>2. j \notin Reach(E, i)
    BY DEF HasCycle
  <1>3. PICK F \in SUBSET Ids : i \in F /\ ClosedUnder(E, F) /\ j \notin F
    BY <1>2, ReachByClosure
  <1>4. j # i /\ k \in D[j]
    BY <1>3
  <1>5. PICK C \in SUBSET Ids : k \in C /\ ClosedUnder(D, C) /\ j \notin C
    BY <1>1, <1>4, ReachByClosure DEF NoLoop
  <1>6. ClosedUnder(E, C \cup F)
    BY <1>3, <1>5 DEF ClosedUnder
  <1>7. C \cup F \in SUBSET Ids /\ k \in C \cup F /\ j \notin C \cup F
    BY <1>3, <1>5
  <1> QED BY <1>1, <1>6, <1>7, ReachByClosure

(* A new item, which nothing depends on yet, closes no loop.               *)
LEMMA NewItemsEdges ==
    ASSUME NEW D \in [Ids -> SUBSET Ids], NEW E \in [Ids -> SUBSET Ids],
           NEW n \in Ids, \A a \in Ids \ {n} : E[a] = D[a],
           \A a \in Ids : n \notin E[a], NoLoop(D)
    PROVE  NoLoop(E)
  <1> SUFFICES ASSUME NEW j \in Ids, NEW k \in E[j], j \in Reach(E, k)
               PROVE  FALSE
    BY DEF NoLoop
  <1>1. k \in Ids /\ k # n
    OBVIOUS
  <1>2. CASE j = n
    <2>1. ClosedUnder(E, Ids \ {n})
      BY DEF ClosedUnder
    <2> QED BY <1>1, <1>2, <2>1, ReachByClosure
  <1>3. CASE j # n
    <2>1. PICK C \in SUBSET Ids : k \in C /\ ClosedUnder(D, C) /\ j \notin C
      BY <1>1, <1>3, ReachByClosure DEF NoLoop
    <2>2. ClosedUnder(E, C \ {n})
      BY <2>1 DEF ClosedUnder
    <2>3. C \ {n} \in SUBSET Ids /\ k \in C \ {n} /\ j \notin C \ {n}
      BY <1>1, <2>1
    <2> QED BY <1>1, <2>2, <2>3, ReachByClosure
  <1> QED BY <1>2, <1>3

(* Nothing depends on an item that was not issued yet.                     *)
DInv == IInv /\ (\A i \in Ids : \A d \in deps[i] : d <= issued) /\ NoLoop(deps)

LEMMA DepsStayAcyclic ==
    ASSUME Verbs \cap {"update-scope", "update"} = {}, DInv, [Next]_vars
    PROVE  (\A i \in Ids : \A d \in deps'[i] : d <= issued') /\ NoLoop(deps')
  <1> DEFINE Issued == \A i \in Ids : \A d \in deps'[i] : d <= issued'
  <1>1. /\ deps \in [Ids -> SUBSET Ids] /\ issued \in Nat
        /\ \A i \in Ids : \A d \in deps[i] : d <= issued
        /\ NoLoop(deps)
        /\ \A i \in Existing : i <= issued
    BY DEF DInv, IInv, TypeOK, Fresh, Existing, Ids
  <1>2. ASSUME issued' = issued, deps' \in [Ids -> SUBSET Ids],
               \A a \in Ids : deps'[a] \subseteq deps[a]
        PROVE  Issued /\ NoLoop(deps')
    BY <1>1, <1>2, FewerEdges
  <1>3. ASSUME NEW D \in SUBSET Ids, \A d \in D : d <= issued,
               issued' = issued + 1, issued + 1 \in Ids,
               deps' = [deps EXCEPT ![issued + 1] = D]
        PROVE  Issued /\ NoLoop(deps')
    <2>1. deps' \in [Ids -> SUBSET Ids] /\ \A a \in Ids \ {issued + 1} : deps'[a] = deps[a]
      BY <1>1, <1>3
    <2>2. \A a \in Ids : \A d \in deps'[a] : d <= issued
      BY <1>1, <1>3
    <2>3. \A a \in Ids : \A d \in deps'[a] : d \in Nat
      BY <2>1 DEF Ids
    <2>4. \A a \in Ids : issued + 1 \notin deps'[a]
      BY <1>1, <2>2
    <2>5. Issued
      BY <1>1, <1>3, <2>2, <2>3
    <2>6. NoLoop(deps')
      <3> DEFINE n == issued + 1
                 E == deps'
      <3>1. /\ n \in Ids /\ E \in [Ids -> SUBSET Ids]
            /\ \A a \in Ids \ {n} : E[a] = deps[a]
            /\ \A a \in Ids : n \notin E[a]
        BY <1>3, <2>1, <2>4
      <3> HIDE DEF n, E
      <3>2. NoLoop(E)
        BY <1>1, <3>1, NewItemsEdges
      <3> QED BY <3>2 DEF E
    <2> QED BY <2>5, <2>6
  <1>4. ASSUME UNCHANGED vars \/ \E t \in Tokens : Lock(t) \/ Unlock(t)
        PROVE  Issued /\ NoLoop(deps')
    <2>1. issued' = issued /\ deps' = deps
      BY <1>4 DEF vars, Lock, Unlock
    <2> QED BY <1>1, <1>2, <2>1
  <1>5. ASSUME NEW S, NEW D \in SUBSET Ids, NEW p, Add(S, D, p)
        PROVE  Issued /\ NoLoop(deps')
    <2>1. /\ D \subseteq Existing /\ issued' = issued + 1 /\ issued < MaxItems
          /\ deps' = [deps EXCEPT ![issued + 1] = D]
      BY <1>5 DEF Add
    <2>2. issued + 1 \in Ids
      BY <1>1, <2>1, ConstantsAssumption DEF Ids
    <2> QED BY <1>1, <1>3, <2>1, <2>2
  <1>6. ASSUME NEW i \in Ids,
               \/ Register(i) \/ PopNext(i) \/ Done(i) \/ Abandon(i)
               \/ AbandonConfirmed(i) \/ Release(i) \/ ForceStart(i) \/ CoRun(i)
               \/ Wedge(i) \/ Unwedge(i) \/ Block(i) \/ Unblock(i)
               \/ UnblockForced(i) \/ Promote(i)
               \/ \E p \in Priorities : Reprioritize(i, p)
        PROVE  Issued /\ NoLoop(deps')
    <2>1. issued' = issued /\ deps' = deps
      BY <1>6 DEF Register, PopNext, Done, Abandon, AbandonConfirmed, Release, ForceStart,
                  CoRun, Wedge, Unwedge, Block, Unblock, UnblockForced, Promote,
                  Reprioritize, SetStatus
    <2> QED BY <1>1, <1>2, <2>1
  <1>7. ASSUME NEW i \in Ids, NEW keepOld \in BOOLEAN, Resurrect(i, keepOld)
        PROVE  Issued /\ NoLoop(deps')
    <2>1. /\ issued' = issued + 1 /\ issued < MaxItems
          /\ deps' = [deps EXCEPT ![issued + 1] = deps[i] \cap Existing]
      BY <1>7 DEF Resurrect
    <2>2. issued + 1 \in Ids
      BY <1>1, <2>1, ConstantsAssumption DEF Ids
    <2>3. deps[i] \cap Existing \in SUBSET Ids /\ \A d \in deps[i] \cap Existing : d <= issued
      BY <1>1
    <2> QED BY <1>3, <2>1, <2>2, <2>3
  <1>8. ASSUME NEW i \in Ids, NEW S, NEW keepDeps \in BOOLEAN, ForceStartRescoped(i, S, keepDeps)
        PROVE  Issued /\ NoLoop(deps')
    <2>1. issued' = issued /\ deps' = [deps EXCEPT ![i] = IF keepDeps THEN @ ELSE {}]
      BY <1>8 DEF ForceStartRescoped
    <2> QED BY <1>1, <1>2, <2>1
  <1>9. ASSUME NEW i \in Ids, NEW D \in SUBSET Ids, Depend(i, D)
        PROVE  Issued /\ NoLoop(deps')
    <2>1. /\ deps' = [deps EXCEPT ![i] = D] /\ issued' = issued
          /\ D \ deps[i] \subseteq Existing
          /\ HasCycle(deps', i) => HasCycle(deps, i)
      BY <1>9 DEF Depend, DependTargets, SetDeps
    <2>2. \A d \in D : d <= issued
      BY <1>1, <2>1
    <2>3. deps' \in [Ids -> SUBSET Ids] /\ \A a \in Ids \ {i} : deps'[a] = deps[a]
      BY <1>1, <2>1
    <2>4. ~HasCycle(deps', i)
      BY <1>1, <2>1, NoLoopNoCycle
    <2>5. NoLoop(deps')
      BY <1>1, <2>3, <2>4, OneItemsEdges
    <2> QED BY <1>1, <2>1, <2>2, <2>5
  <1>10. ASSUME NEW P \in SUBSET Ids, Prune(P)
         PROVE  Issued /\ NoLoop(deps')
    <2>1. issued' = issued /\ deps' = [i \in Ids |-> IF i \in P THEN {} ELSE deps[i]]
      BY <1>10 DEF Prune
    <2> QED BY <1>1, <1>2, <2>1
  <1>11. ASSUME NEW i \in Ids, NEW S, NEW D,
                WidenScope(i, S, D) \/ NarrowScope(i, S, D) \/ UpdateScope(i, S, D)
         PROVE  FALSE
    BY <1>11 DEF WidenScope, NarrowScope, UpdateScope
  <1> DEFINE Goal == Issued /\ NoLoop(deps')
  <1> HIDE DEF Issued, Goal
  <1>12. Goal
    <2>1. CASE UNCHANGED vars
      BY <1>4, <2>1 DEF Goal
    <2>2. CASE Next
      <3>1. ASSUME NEW S, NEW D \in SUBSET Ids, NEW p, Add(S, D, p) PROVE Goal
        BY <1>5, <3>1 DEF Goal
      <3>2. ASSUME NEW i \in Ids,
                   \/ Register(i) \/ PopNext(i) \/ Done(i) \/ Abandon(i)
                   \/ AbandonConfirmed(i) \/ Release(i) \/ ForceStart(i) \/ CoRun(i)
                   \/ Wedge(i) \/ Unwedge(i) \/ Block(i) \/ Unblock(i)
                   \/ UnblockForced(i) \/ Promote(i)
                   \/ \E p \in Priorities : Reprioritize(i, p)
            PROVE  Goal
        BY <1>6, <3>2 DEF Goal
      <3>3. ASSUME NEW i \in Ids, NEW k \in BOOLEAN, NEW S,
                   Resurrect(i, k) \/ ForceStartRescoped(i, S, k)
            PROVE  Goal
        BY <1>7, <1>8, <3>3 DEF Goal
      <3>4. ASSUME NEW i \in Ids, NEW D \in SUBSET Ids, Depend(i, D) PROVE Goal
        BY <1>9, <3>4 DEF Goal
      <3>5. ASSUME NEW P \in SUBSET Ids, Prune(P) PROVE Goal
        BY <1>10, <3>5 DEF Goal
      <3>6. ASSUME NEW t \in Tokens, Lock(t) \/ Unlock(t) PROVE Goal
        BY <1>4, <3>6 DEF Goal
      <3> QED BY <2>2, <1>11, <3>1, <3>2, <3>3, <3>4, <3>5, <3>6 DEF Next
    <2> QED BY <2>1, <2>2
  <1> QED BY <1>12 DEF Goal, Issued

(* No loop of dependencies ever closes, if none comes in by an edit of a    *)
(* whole scope: `add`, `resurrect` and `depend` let none in.                *)
THEOREM DependenciesAcyclic ==
    ASSUME Verbs \cap {"update-scope", "update"} = {}
    PROVE  Spec => []DepsAcyclic
  <1>1. Init => DInv
    <2> SUFFICES ASSUME Init PROVE DInv
      OBVIOUS
    <2>1. deps = [i \in Ids |-> {}]
      BY DEF Init
    <2>2. NoLoop(deps) /\ \A i \in Ids : \A d \in deps[i] : d <= issued
      BY <2>1 DEF NoLoop
    <2> QED BY <2>2, InitInv DEF DInv
  <1>2. DInv /\ [Next]_vars => DInv'
    BY NextInv, DepsStayAcyclic DEF DInv
  <1>3. DInv => DepsAcyclic
    BY NoLoopNoCycle DEF DInv, DepsAcyclic
  <1> QED BY <1>1, <1>2, <1>3, PTL DEF Spec

-----------------------------------------------------------------------------
(* Readiness has no other blocker than what it says: with nothing owned,    *)
(* nothing parked and every dependency still to be met, some pending item   *)
(* is ready unless pending items wait for one another in a circle.          *)
THEOREM NothingElseBlocks == Spec => []NoHiddenBlocker
  <1>1. IInv => NoHiddenBlocker
    <2> DEFINE P == {i \in Ids : status[i] = "pending"}
               Stuck(C) == C # {} /\ \A i \in C : \E j \in C : WaitsFor(i, j)
    <2> SUFFICES ASSUME IInv, P # {}, locked = {},
                        \A i \in Ids : status[i] \notin Owning,
                        \A i \in P : Unmet(deps[i]) \subseteq P /\ ~HasCycle(deps, i),
                        \A C \in SUBSET P : ~Stuck(C)
                 PROVE  \E i \in P : Ready(i)
      BY DEF NoHiddenBlocker
    <2>1. ~Stuck(P)
      OBVIOUS
    <2>2. PICK i \in P : \A j \in P : ~WaitsFor(i, j)
      BY <2>1
    <2>3. /\ deps \in [Ids -> SUBSET Ids] /\ prio \in [Ids -> Int] /\ Ids \subseteq Int
      BY DEF IInv, TypeOK, Ids
    <2>4. ~LockBlocked(i)
      BY DEF LockBlocked, Clash
    <2>5. HeadOfGroup(i)
      <3> SUFFICES ASSUME NEW j \in Members(i), status[j] = "pending", j # i
                   PROVE  Before(i, j)
        BY DEF HeadOfGroup, Members, Existing
      <3>1. j \in P
        BY DEF Members, Existing
      <3>2. ~Before(j, i)
        BY <2>2, <3>1 DEF WaitsFor
      <3>3. prio[i] \in Int /\ prio[j] \in Int /\ i \in Int /\ j \in Int
        BY <2>3, <3>1
      <3> QED BY <3>2, <3>3 DEF Before
    <2>6. i \notin deps[i]
      <3>1. i \in Reach(deps, i)
        BY DEF Reach
      <3> QED BY <3>1 DEF HasCycle
    <2>7. Unmet(deps[i]) = {}
      BY <2>2, <2>6 DEF WaitsFor, Unmet
    <2> QED BY <2>4, <2>5, <2>7 DEF Ready
  <1>2. Spec => []IInv
    BY InitInv, NextInv, PTL DEF Spec
  <1> QED BY <1>1, <1>2, PTL
=============================================================================
