-------------------------- MODULE WorkQueueProofs --------------------------
(***************************************************************************)
(* Type correctness and scope exclusion of the work queue, and that it     *)
(* implements ScopeLock, for any number of items, any tokens with any      *)
(* overlap relation that satisfies OverlapAssumption, and any set of verbs.*)
(***************************************************************************)
EXTENDS WorkQueue, TLAPS

(* Only owners carry the mark of a missing conflict check, and an id that  *)
(* was not issued yet has no item.                                         *)
UncheckedOwn == \A i \in unchecked : status[i] \in Owning
Fresh == \A i \in Ids : i > issued => status[i] = "absent"

IInv == TypeOK /\ UncheckedOwn /\ Fresh /\ ScopeExclusion

-----------------------------------------------------------------------------
(* Two sets of tokens clash in both directions or in none: the overlap of  *)
(* tokens is symmetric.                                                    *)
LEMMA ClashSymmetric ==
    ASSUME NEW S \in SUBSET Tokens, NEW T \in SUBSET Tokens, Clash(S, T)
    PROVE  Clash(T, S)
  <1>1. PICK a \in S, b \in T : Overlaps(a, b)
    BY DEF Clash
  <1>2. a \in Tokens /\ b \in Tokens
    OBVIOUS
  <1>3. Overlaps(b, a)
    BY <1>1, <1>2, OverlapAssumption
  <1> QED BY <1>3 DEF Clash

(* Recomputing the groups assigns a set of items to every item.            *)
LEMMA RegroupType ==
    ASSUME NEW st, NEW sc
    PROVE  Regroup(st, sc) \in [Ids -> SUBSET Ids]
  <1>1. \A i \in Ids : Component(st, sc, i) \in SUBSET Ids
    BY DEF Component
  <1>2. ASSUME NEW i \in Ids
        PROVE  Regroup(st, sc)[i] \in SUBSET Ids
    <2> DEFINE near == {Component(st, sc, j) : j \in
                          {k \in Ids : /\ st[k] \in Serializing
                                       /\ Clash(sc[i], sc[k])}}
               alone == IF \E C \in near : near = {C} THEN UNION near ELSE {i}
    <2>1. Regroup(st, sc)[i] = IF st[i] = "absent" THEN {}
                               ELSE IF st[i] \in Serializing
                                    THEN Component(st, sc, i) ELSE alone
      BY DEF Regroup
    <2>2. near \in SUBSET (SUBSET Ids)
      BY <1>1
    <2> HIDE DEF near
    <2>3. alone \in SUBSET Ids
      BY <2>2
    <2> HIDE DEF alone
    <2> QED BY <2>1, <2>3, <1>1
  <1>3. Regroup(st, sc) = [i \in Ids |-> Regroup(st, sc)[i]]
    BY DEF Regroup
  <1> QED BY <1>2, <1>3

(* A commit keeps the invariant when every owner it leaves is marked as    *)
(* unchecked, owned the same scope before, or clashes with no other owner. *)
LEMMA CommitKeepsInv ==
    ASSUME IInv,
           NEW st \in [Ids -> Status], NEW sc \in [Ids -> SUBSET Tokens],
           NEW W \in SUBSET Ids,
           Commit(st, sc, W),
           deps' \in [Ids -> SUBSET Ids], prio' \in [Ids -> Int],
           locked' \in SUBSET Tokens, issued' \in 0 .. MaxItems,
           \A k \in Ids : k > issued' => st[k] = "absent",
           \A k \in Ids : st[k] \in Owning =>
              \/ k \in W
              \/ status[k] \in Owning /\ sc[k] = scope[k]
              \/ \A j \in Ids \ {k} :
                    st[j] \in Owning => ~Clash(sc[j], sc[k])
    PROVE  IInv'
  <1>1. /\ status' = st /\ scope' = sc /\ group' = Regroup(st, sc)
        /\ unchecked' = {k \in unchecked \cup W : st[k] \in Owning}
    BY DEF Commit
  <1>2. TypeOK'
    BY <1>1, RegroupType DEF IInv, TypeOK
  <1>3. UncheckedOwn'
    BY <1>1 DEF UncheckedOwn
  <1>4. Fresh'
    BY <1>1 DEF Fresh
  <1>5. ScopeExclusion'
    <2> SUFFICES ASSUME NEW i \in Ids, NEW j \in Ids, i # j,
                        st[i] \in Owning, st[j] \in Owning,
                        Clash(sc[i], sc[j]), i \notin unchecked',
                        j \notin unchecked'
                 PROVE  FALSE
      BY <1>1 DEF ScopeExclusion
    <2>1. sc[i] \in SUBSET Tokens /\ sc[j] \in SUBSET Tokens
      OBVIOUS
    <2>2. Clash(sc[j], sc[i])
      BY <2>1, ClashSymmetric
    <2>3. /\ i \notin unchecked /\ i \notin W
          /\ j \notin unchecked /\ j \notin W
      BY <1>1
    <2>4. status[i] \in Owning /\ sc[i] = scope[i]
      BY <2>2, <2>3
    <2>5. status[j] \in Owning /\ sc[j] = scope[j]
      BY <2>3
    <2> QED BY <2>3, <2>4, <2>5 DEF IInv, ScopeExclusion
  <1> QED BY <1>2, <1>3, <1>4, <1>5 DEF IInv

(* Conflicts finds every owner a scope clashes with. *)
LEMMA NoConflicts ==
    ASSUME NEW i \in Ids, NEW S, Conflicts(i, S) = {},
           NEW j \in Ids \ {i}, status[j] \in Owning
    PROVE  ~Clash(scope[j], S)
  BY DEF Conflicts

(* The verbs that only change one status. *)
LEMMA SetStatusKeepsInv ==
    ASSUME IInv, NEW i \in Ids, NEW s \in Status, SetStatus(i, s),
           status[i] # "absent",
           s \in Owning => \/ status[i] \in Owning
                           \/ Conflicts(i, scope[i]) = {}
    PROVE  IInv'
  <1> DEFINE st == [status EXCEPT ![i] = s]
  <1>1. st \in [Ids -> Status] /\ scope \in [Ids -> SUBSET Tokens]
    BY DEF IInv, TypeOK
  <1>2. /\ deps' \in [Ids -> SUBSET Ids] /\ prio' \in [Ids -> Int]
        /\ locked' \in SUBSET Tokens /\ issued' \in 0 .. MaxItems
        /\ issued' = issued /\ Commit(st, scope, {})
    BY DEF IInv, TypeOK, SetStatus
  <1>3. \A k \in Ids : k > issued' => st[k] = "absent"
    BY <1>1, <1>2 DEF IInv, TypeOK, Fresh
  <1>4. ASSUME NEW k \in Ids, st[k] \in Owning
        PROVE  \/ status[k] \in Owning /\ scope[k] = scope[k]
               \/ \A j \in Ids \ {k} :
                     st[j] \in Owning => ~Clash(scope[j], scope[k])
    <2>1. CASE k # i
      BY <2>1, <1>4, <1>1 DEF IInv, TypeOK
    <2>2. CASE k = i /\ status[i] \in Owning
      BY <2>2
    <2>3. CASE k = i /\ status[i] \notin Owning
      <3>1. s \in Owning
        BY <2>3, <1>4, <1>1 DEF IInv, TypeOK
      <3>2. Conflicts(i, scope[i]) = {}
        BY <3>1, <2>3
      <3>3. \A j \in Ids \ {i} : st[j] = status[j]
        BY DEF IInv, TypeOK
      <3> QED BY <3>2, <3>3, <2>3, NoConflicts
    <2> QED BY <2>1, <2>2, <2>3
  <1> HIDE DEF st
  <1> QED BY <1>1, <1>2, <1>3, <1>4, CommitKeepsInv

-----------------------------------------------------------------------------
LEMMA InitInv == Init => IInv
  <1> SUFFICES ASSUME Init PROVE IInv
    OBVIOUS
  <1>1. TypeOK
    BY ConstantsAssumption DEF Init, TypeOK, Status
  <1>2. UncheckedOwn /\ Fresh
    BY DEF Init, UncheckedOwn, Fresh
  <1>3. ScopeExclusion
    BY DEF Init, ScopeExclusion, Owning
  <1> QED BY <1>1, <1>2, <1>3 DEF IInv

(* add and resurrect give the next id to a pending item; it owns nothing.  *)
LEMMA NewItemKeepsInv ==
    ASSUME IInv, issued < MaxItems,
           NEW st0 \in [Ids -> Status], NEW S \in SUBSET Tokens,
           NEW D \in SUBSET Ids, NEW p \in Int,
           \A k \in Ids : st0[k] \in Owning => status[k] \in Owning,
           \A k \in Ids : status[k] = "absent" => st0[k] = "absent",
           Commit([st0 EXCEPT ![issued + 1] = "pending"],
                  [scope EXCEPT ![issued + 1] = S], {}),
           deps' = [deps EXCEPT ![issued + 1] = D],
           prio' = [prio EXCEPT ![issued + 1] = p],
           issued' = issued + 1, locked' = locked
    PROVE  IInv'
  <1> DEFINE n == issued + 1
             st == [st0 EXCEPT ![n] = "pending"]
             sc == [scope EXCEPT ![n] = S]
  <1>1. /\ issued \in Nat /\ MaxItems \in Nat /\ n \in Ids
        /\ issued' \in 0 .. MaxItems
    BY ConstantsAssumption DEF IInv, TypeOK, Ids
  <1>2. st \in [Ids -> Status] /\ sc \in [Ids -> SUBSET Tokens]
    BY <1>1 DEF IInv, TypeOK, Status, Active, Serializing
  <1>3. /\ deps' \in [Ids -> SUBSET Ids] /\ prio' \in [Ids -> Int]
        /\ locked' \in SUBSET Tokens
    BY <1>1 DEF IInv, TypeOK
  <1>4. \A k \in Ids : k > issued' => st[k] = "absent"
    <2> SUFFICES ASSUME NEW k \in Ids, k > issued' PROVE st[k] = "absent"
      OBVIOUS
    <2>1. k > issued /\ k # n
      BY <1>1 DEF Ids
    <2> QED BY <2>1 DEF IInv, Fresh
  <1>5. \A k \in Ids : st[k] \in Owning =>
            status[k] \in Owning /\ sc[k] = scope[k]
    <2>1. st[n] = "pending" /\ "pending" \notin Owning
      BY <1>1 DEF Owning
    <2>2. \A k \in Ids : k # n => st[k] = st0[k] /\ sc[k] = scope[k]
      BY <1>2 DEF IInv, TypeOK
    <2> QED BY <2>1, <2>2
  <1>6. Commit(st, sc, {})
    OBVIOUS
  <1> HIDE DEF st, sc
  <1> QED BY <1>1, <1>2, <1>3, <1>4, <1>5, <1>6, CommitKeepsInv

LEMMA AddInv ==
    ASSUME IInv, NEW S \in ScopeChoices \cup {{}}, NEW D \in SUBSET Ids,
           NEW p \in Priorities, Add(S, D, p)
    PROVE  IInv'
  <1>1. S \in SUBSET Tokens /\ p \in Int
    BY ConstantsAssumption
  <1>2. status \in [Ids -> Status]
    BY DEF IInv, TypeOK
  <1> QED BY <1>1, <1>2, NewItemKeepsInv DEF Add

LEMMA ResurrectInv ==
    ASSUME IInv, NEW i \in Ids, NEW keepOld \in BOOLEAN,
           Resurrect(i, keepOld)
    PROVE  IInv'
  <1> DEFINE n == issued + 1
             st0 == [status EXCEPT ![i] = IF keepOld THEN @ ELSE "abandoned"]
  <1>1. issued < MaxItems /\ status[i] \in Owning /\ issued \in Nat
    BY DEF Resurrect, IInv, TypeOK
  <1>2. i # n
    BY <1>1 DEF IInv, Fresh, Owning
  <1>3. /\ st0 \in [Ids -> Status]
        /\ \A k \in Ids : st0[k] \in Owning => status[k] \in Owning
        /\ \A k \in Ids : status[k] = "absent" => st0[k] = "absent"
    BY <1>1 DEF IInv, TypeOK, Status, Terminal, Owning
  <1>4. [status EXCEPT ![n] = "pending",
                       ![i] = IF keepOld THEN @ ELSE "abandoned"]
          = [st0 EXCEPT ![n] = "pending"]
    BY <1>2, <1>3 DEF IInv, TypeOK
  <1>5. /\ scope[i] \in SUBSET Tokens
        /\ deps[i] \cap Existing \in SUBSET Ids /\ prio[i] \in Int
    BY DEF IInv, TypeOK
  <1> HIDE DEF st0
  <1> QED BY <1>1, <1>3, <1>4, <1>5, NewItemKeepsInv DEF Resurrect

(* The verbs that change one status and nothing else an owner relies on.   *)
LEMMA SimpleVerbsInv ==
    ASSUME IInv, NEW i \in Ids,
           \/ Register(i) \/ PopNext(i) \/ Done(i) \/ Abandon(i)
           \/ AbandonConfirmed(i) \/ Release(i) \/ Wedge(i) \/ Unwedge(i)
           \/ Block(i) \/ Unblock(i)
    PROVE  IInv'
  <1> USE DEF Status, Active, Serializing, Terminal, Owning
  <1>1. CASE Register(i) \/ PopNext(i)
    <2>1. /\ status[i] = "pending" /\ Conflicts(i, scope[i]) = {}
          /\ SetStatus(i, "running")
      BY <1>1 DEF Register, PopNext, SpawnClear, Ready
    <2> QED BY <2>1, SetStatusKeepsInv
  <1>2. CASE Done(i)
    BY <1>2, SetStatusKeepsInv DEF Done, Existent, Existing
  <1>3. CASE Abandon(i) /\ status[i] \in Owning
    BY <1>3, SetStatusKeepsInv DEF Abandon
  <1>4. CASE Abandon(i) /\ status[i] \notin Owning
    BY <1>4, SetStatusKeepsInv DEF Abandon, Existent, Existing
  <1>5. CASE AbandonConfirmed(i)
    BY <1>5, SetStatusKeepsInv DEF AbandonConfirmed, Existent, Existing
  <1>6. CASE Release(i)
    BY <1>6, SetStatusKeepsInv DEF Release
  <1>7. CASE Wedge(i) \/ Unwedge(i)
    BY <1>7, SetStatusKeepsInv DEF Wedge, Unwedge
  <1>8. CASE Block(i)
    BY <1>8, SetStatusKeepsInv DEF Block
  <1>9. CASE Unblock(i) /\ Conflicts(i, scope[i]) = {}
    BY <1>9, SetStatusKeepsInv DEF Unblock
  <1>10. CASE Unblock(i) /\ Conflicts(i, scope[i]) # {}
    BY <1>10, SetStatusKeepsInv DEF Unblock
  <1> QED BY <1>1, <1>2, <1>3, <1>4, <1>5, <1>6, <1>7, <1>8, <1>9, <1>10

(* force-start leaves no owner that the started item overlaps.             *)
LEMMA ForceStartInv ==
    ASSUME IInv, NEW i \in Ids, ForceStart(i)
    PROVE  IInv'
  <1> DEFINE st == [k \in Ids |->
                      IF k = i THEN "running"
                      ELSE IF k \in Conflicts(i, scope[i]) THEN "abandoned"
                      ELSE status[k]]
  <1>1. st \in [Ids -> Status]
    BY DEF IInv, TypeOK, Status, Active, Serializing, Terminal
  <1>2. /\ deps' \in [Ids -> SUBSET Ids] /\ prio' \in [Ids -> Int]
        /\ locked' \in SUBSET Tokens /\ issued' \in 0 .. MaxItems
        /\ issued' = issued /\ Commit(st, scope, {})
        /\ scope \in [Ids -> SUBSET Tokens] /\ status[i] = "pending"
    BY DEF IInv, TypeOK, ForceStart
  <1>3. \A k \in Ids : k > issued' => st[k] = "absent"
    <2> SUFFICES ASSUME NEW k \in Ids, k > issued PROVE st[k] = "absent"
      BY <1>2
    <2>1. status[k] = "absent"
      BY DEF IInv, Fresh
    <2> QED BY <2>1, <1>2 DEF Conflicts, Owning
  <1>4. ASSUME NEW k \in Ids, st[k] \in Owning
        PROVE  \/ status[k] \in Owning /\ scope[k] = scope[k]
               \/ \A j \in Ids \ {k} :
                     st[j] \in Owning => ~Clash(scope[j], scope[k])
    <2>1. CASE k # i
      <3>1. st[k] = status[k]
        BY <2>1, <1>4 DEF Owning
      <3> QED BY <3>1, <1>4
    <2>2. CASE k = i
      <3> SUFFICES ASSUME NEW j \in Ids \ {i}, st[j] \in Owning
                   PROVE  ~Clash(scope[j], scope[i])
        BY <2>2
      <3>1. st[j] = status[j] /\ j \notin Conflicts(i, scope[i])
        BY DEF Owning
      <3> QED BY <3>1 DEF Conflicts
    <2> QED BY <2>1, <2>2
  <1> HIDE DEF st
  <1> QED BY <1>1, <1>2, <1>3, <1>4, CommitKeepsInv

(* The verbs that make i an owner, or change what it owns, unchecked: it   *)
(* is marked, and no other item changes.                                   *)
LEMMA MarkedKeepsInv ==
    ASSUME IInv, NEW i \in Ids, status[i] # "absent",
           NEW s \in Status, NEW S \in SUBSET Tokens, NEW W \in SUBSET {i},
           s \in Owning => i \in W \/ (status[i] \in Owning /\ S = scope[i]),
           Commit([status EXCEPT ![i] = s], [scope EXCEPT ![i] = S], W),
           deps' \in [Ids -> SUBSET Ids], prio' \in [Ids -> Int],
           locked' = locked, issued' = issued
    PROVE  IInv'
  <1> DEFINE st == [status EXCEPT ![i] = s]
             sc == [scope EXCEPT ![i] = S]
  <1>1. st \in [Ids -> Status] /\ sc \in [Ids -> SUBSET Tokens]
    BY DEF IInv, TypeOK
  <1>2. /\ locked' \in SUBSET Tokens /\ issued' \in 0 .. MaxItems
        /\ Commit(st, sc, W) /\ W \in SUBSET Ids
    BY DEF IInv, TypeOK
  <1>3. \A k \in Ids : k > issued' => st[k] = "absent"
    BY <1>1 DEF IInv, TypeOK, Fresh
  <1>4. \A k \in Ids : st[k] \in Owning =>
            k \in W \/ (status[k] \in Owning /\ sc[k] = scope[k])
    BY <1>1 DEF IInv, TypeOK
  <1> HIDE DEF st, sc
  <1> QED BY <1>1, <1>2, <1>3, <1>4, CommitKeepsInv

LEMMA OverrideVerbsInv ==
    ASSUME IInv, NEW i \in Ids,
           NEW S \in ScopeChoices \cup {{}}, NEW D \in SUBSET Ids,
           NEW keepDeps \in BOOLEAN,
           \/ CoRun(i) \/ ForceStartRescoped(i, S, keepDeps)
           \/ UnblockForced(i) \/ UpdateScope(i, S, D)
    PROVE  IInv'
  <1> USE DEF Status, Active, Serializing, Terminal, Owning
  <1>1. /\ S \in SUBSET Tokens /\ scope[i] \in SUBSET Tokens
        /\ scope = [scope EXCEPT ![i] = scope[i]]
        /\ status = [status EXCEPT ![i] = status[i]]
    BY ConstantsAssumption DEF IInv, TypeOK
  <1>2. deps \in [Ids -> SUBSET Ids] /\ prio \in [Ids -> Int]
    BY DEF IInv, TypeOK
  <1>3. CASE CoRun(i)
    <2>1. /\ status[i] = "pending"
          /\ Commit([status EXCEPT ![i] = "running"],
                    [scope EXCEPT ![i] = scope[i]], {i})
      BY <1>1, <1>3 DEF CoRun
    <2> QED BY <1>1, <1>2, <1>3, <2>1, MarkedKeepsInv DEF CoRun
  <1>4. CASE UnblockForced(i)
    <2>1. /\ status[i] = "blocked"
          /\ Commit([status EXCEPT ![i] = "running"],
                    [scope EXCEPT ![i] = scope[i]], {i})
      BY <1>1, <1>4 DEF UnblockForced
    <2> QED BY <1>1, <1>2, <1>4, <2>1, MarkedKeepsInv DEF UnblockForced
  <1>5. CASE ForceStartRescoped(i, S, keepDeps)
    <2>1. deps' \in [Ids -> SUBSET Ids]
      BY <1>2, <1>5 DEF ForceStartRescoped
    <2> QED BY <1>1, <1>2, <1>5, <2>1, MarkedKeepsInv DEF ForceStartRescoped
  <1>6. CASE UpdateScope(i, S, D)
    <2>1. /\ status[i] \in Status /\ status[i] # "absent"
          /\ Commit([status EXCEPT ![i] = status[i]],
                    [scope EXCEPT ![i] = S], {i})
      BY <1>1, <1>6 DEF UpdateScope
    <2>2. deps' \in [Ids -> SUBSET Ids]
      BY <1>2, <1>6 DEF UpdateScope
    <2> QED BY <1>1, <1>2, <1>6, <2>1, <2>2, MarkedKeepsInv DEF UpdateScope
  <1> QED BY <1>3, <1>4, <1>5, <1>6

(* update-scope: a wider owner is marked, a narrower scope clashes less.   *)
LEMMA WidenInv ==
    ASSUME IInv, NEW i \in Ids, NEW S \in ScopeChoices \cup {{}},
           NEW D \in SUBSET Ids, WidenScope(i, S, D)
    PROVE  IInv'
  <1>1. /\ status' = status /\ group' = group /\ locked' = locked
        /\ prio' = prio /\ issued' = issued
        /\ scope' = [scope EXCEPT ![i] = @ \cup S]
        /\ deps' = [deps EXCEPT ![i] = @ \cup D]
        /\ unchecked' = IF status[i] \in Owning THEN unchecked \cup {i}
                                                ELSE unchecked
    BY DEF WidenScope
  <1>2. TypeOK'
    <2>1. S \in SUBSET Tokens
      BY ConstantsAssumption
    <2> QED BY <1>1, <2>1 DEF IInv, TypeOK
  <1>3. UncheckedOwn' /\ Fresh'
    BY <1>1 DEF IInv, UncheckedOwn, Fresh
  <1>4. ScopeExclusion'
    <2>1. \A k \in Ids : k # i => scope'[k] = scope[k]
      BY <1>1 DEF IInv, TypeOK
    <2> QED BY <1>1, <2>1 DEF IInv, ScopeExclusion
  <1> QED BY <1>2, <1>3, <1>4 DEF IInv

LEMMA NarrowInv ==
    ASSUME IInv, NEW i \in Ids, NEW S \in ScopeChoices \cup {{}},
           NEW D \in SUBSET Ids, NarrowScope(i, S, D)
    PROVE  IInv'
  <1>1. /\ status' = status /\ group' = group /\ locked' = locked
        /\ prio' = prio /\ issued' = issued /\ unchecked' = unchecked
        /\ scope' = [scope EXCEPT ![i] = @ \ S]
        /\ deps' = [deps EXCEPT ![i] = @ \ D]
    BY DEF NarrowScope
  <1>2. TypeOK'
    BY <1>1 DEF IInv, TypeOK
  <1>3. UncheckedOwn' /\ Fresh'
    BY <1>1 DEF IInv, UncheckedOwn, Fresh
  <1>4. ScopeExclusion'
    <2>1. \A k \in Ids : scope'[k] \subseteq scope[k]
      BY <1>1 DEF IInv, TypeOK
    <2> QED BY <1>1, <2>1 DEF IInv, ScopeExclusion, Clash
  <1> QED BY <1>2, <1>3, <1>4 DEF IInv

(* depend: an owner with an unmet dependency becomes blocked.              *)
LEMMA DependInv ==
    ASSUME IInv, NEW i \in Ids, NEW D \in SUBSET Ids, Depend(i, D)
    PROVE  IInv'
  <1>1. /\ deps' \in [Ids -> SUBSET Ids] /\ prio' = prio
        /\ prio' \in [Ids -> Int] /\ locked' = locked /\ issued' = issued
        /\ status[i] # "absent"
    BY DEF IInv, TypeOK, Depend, DependTargets, SetDeps, Active, Serializing
  <1>2. CASE status[i] \in Owning /\ Unmet(D) # {}
    <2>1. Commit([status EXCEPT ![i] = "blocked"],
                 [scope EXCEPT ![i] = scope[i]], {})
      BY <1>2 DEF IInv, TypeOK, Depend, SetDeps
    <2>2. "blocked" \in Status /\ "blocked" \notin Owning
          /\ scope[i] \in SUBSET Tokens
      BY DEF IInv, TypeOK, Status, Active, Owning
    <2>3. {} \in SUBSET {i} /\ prio' \in [Ids -> Int]
      BY <1>1
    <2>4. /\ deps' \in [Ids -> SUBSET Ids] /\ locked' = locked
          /\ issued' = issued /\ status[i] # "absent"
      BY <1>1
    <2> QED BY <2>1, <2>2, <2>3, <2>4, MarkedKeepsInv
  <1>3. CASE ~(status[i] \in Owning /\ Unmet(D) # {})
    <2>1. UNCHANGED <<status, scope, group, unchecked>>
      BY <1>3 DEF Depend, SetDeps
    <2> QED BY <1>1, <2>1 DEF IInv, TypeOK, UncheckedOwn, Fresh, ScopeExclusion
  <1> QED BY <1>2, <1>3

LEMMA OrderVerbsInv ==
    ASSUME IInv, NEW i \in Ids,
           Promote(i) \/ \E p \in Priorities : Reprioritize(i, p)
    PROVE  IInv'
  <1>1. prio' \in [Ids -> Int]
    BY ConstantsAssumption DEF IInv, TypeOK, Promote, Reprioritize, Members, Existing
  <1>2. /\ Commit([status EXCEPT ![i] = status[i]],
                  [scope EXCEPT ![i] = scope[i]], {})
        /\ deps' = deps /\ locked' = locked /\ issued' = issued
        /\ status[i] = "pending"
    BY DEF IInv, TypeOK, Promote, Reprioritize
  <1>3. /\ deps' \in [Ids -> SUBSET Ids] /\ status[i] \in Status
        /\ scope[i] \in SUBSET Tokens
    BY <1>2 DEF IInv, TypeOK
  <1>4. status[i] \notin Owning /\ status[i] # "absent" /\ {} \in SUBSET {i}
    BY <1>2 DEF Owning
  <1>5. /\ Commit([status EXCEPT ![i] = status[i]],
                  [scope EXCEPT ![i] = scope[i]], {})
        /\ locked' = locked /\ issued' = issued
    BY <1>2
  <1> QED BY <1>1, <1>3, <1>4, <1>5, MarkedKeepsInv

LEMMA PruneInv ==
    ASSUME IInv, NEW P \in SUBSET Ids, Prune(P)
    PROVE  IInv'
  <1>1. TypeOK'
    BY DEF IInv, TypeOK, Prune, Status
  <1>2. \A k \in Ids : status'[k] \in Owning =>
            status[k] \in Owning /\ scope'[k] = scope[k]
    BY DEF Prune, Owning
  <1>3. UncheckedOwn'
    BY DEF IInv, TypeOK, UncheckedOwn, Prune, Owning, Terminal
  <1>4. Fresh'
    BY DEF IInv, Fresh, Prune
  <1>5. ScopeExclusion'
    <2>1. unchecked' = unchecked
      BY DEF Prune
    <2> QED BY <1>2, <2>1 DEF IInv, ScopeExclusion
  <1> QED BY <1>1, <1>3, <1>4, <1>5 DEF IInv

LEMMA LockInv ==
    ASSUME IInv, NEW t \in Tokens, Lock(t) \/ Unlock(t)
    PROVE  IInv'
  <1>1. /\ UNCHANGED <<status, scope, deps, prio, group, issued, unchecked>>
        /\ locked' \in SUBSET Tokens
    BY DEF IInv, TypeOK, Lock, Unlock
  <1> QED BY <1>1 DEF IInv, TypeOK, UncheckedOwn, Fresh, ScopeExclusion

-----------------------------------------------------------------------------
LEMMA NextInv == IInv /\ [Next]_vars => IInv'
  <1> SUFFICES ASSUME IInv, [Next]_vars PROVE IInv'
    OBVIOUS
  <1>1. CASE UNCHANGED vars
    BY <1>1 DEF vars, IInv, TypeOK, UncheckedOwn, Fresh, ScopeExclusion
  <1>2. ASSUME NEW S \in ScopeChoices \cup {{}}, NEW D \in SUBSET Ids,
               NEW p \in Priorities, Add(S, D, p)
        PROVE  IInv'
    BY <1>2, AddInv
  <1>3. ASSUME NEW i \in Ids,
               \/ Register(i) \/ PopNext(i) \/ Done(i) \/ Abandon(i)
               \/ AbandonConfirmed(i) \/ Release(i) \/ Wedge(i)
               \/ Unwedge(i) \/ Block(i) \/ Unblock(i)
        PROVE  IInv'
    BY <1>3, SimpleVerbsInv
  <1>4. ASSUME NEW i \in Ids, NEW keepOld \in BOOLEAN, Resurrect(i, keepOld)
        PROVE  IInv'
    BY <1>4, ResurrectInv
  <1>5. ASSUME NEW i \in Ids, ForceStart(i)
        PROVE  IInv'
    BY <1>5, ForceStartInv
  <1>6. ASSUME NEW i \in Ids, CoRun(i) \/ UnblockForced(i)
        PROVE  IInv'
    BY <1>6, OverrideVerbsInv
  <1>7. ASSUME NEW i \in Ids, NEW S \in ScopeChoices, NEW k \in BOOLEAN,
               ForceStartRescoped(i, S, k)
        PROVE  IInv'
    BY <1>7, OverrideVerbsInv
  <1>8. ASSUME NEW i \in Ids, NEW S \in ScopeChoices \cup {{}},
               NEW D \in SUBSET Ids,
               \/ WidenScope(i, S, D) \/ NarrowScope(i, S, D)
               \/ UpdateScope(i, S, D)
        PROVE  IInv'
    BY <1>8, WidenInv, NarrowInv, OverrideVerbsInv
  <1>9. ASSUME NEW i \in Ids, NEW D \in SUBSET Ids, Depend(i, D)
        PROVE  IInv'
    BY <1>9, DependInv
  <1>10. ASSUME NEW i \in Ids,
                Promote(i) \/ \E p \in Priorities : Reprioritize(i, p)
         PROVE  IInv'
    BY <1>10, OrderVerbsInv
  <1>11. ASSUME NEW P \in SUBSET Ids, Prune(P)
         PROVE  IInv'
    BY <1>11, PruneInv
  <1>12. ASSUME NEW t \in Tokens, Lock(t) \/ Unlock(t)
         PROVE  IInv'
    BY <1>12, LockInv
  <1> QED BY <1>1, <1>2, <1>3, <1>4, <1>5, <1>6, <1>7, <1>8, <1>9, <1>10,
             <1>11, <1>12 DEF Next

(* Every reachable state of the queue is well typed and satisfies the      *)
(* strengthened invariant.                                                 *)
THEOREM Invariance == Spec => []IInv
  <1> QED BY InitInv, NextInv, PTL DEF Spec

(* Every reachable state of the queue is well typed.                       *)
THEOREM TypeCorrect == Spec => []TypeOK
  <1>1. IInv => TypeOK
    BY DEF IInv
  <1> QED BY <1>1, Invariance, PTL

(* In every reachable state, whatever verbs its callers use, two items own *)
(* overlapping scopes only if one of them was let in or widened unchecked. *)
THEOREM OwnersExclusive == Spec => []ScopeExclusion
  <1>1. IInv => ScopeExclusion
    BY DEF IInv
  <1> QED BY <1>1, Invariance, PTL
-----------------------------------------------------------------------------
(* The work queue implements ScopeLock: every verb grants the scope of one *)
(* item, gives one up, forces one, or leaves every owner what it has.      *)
LockStep == [SL!LockNext]_(SL!lockVars)

-----------------------------------------------------------------------------
(* What each kind of change to one item is for the lock.                   *)
LEMMA HeldType == ASSUME TypeOK PROVE Held \in [Ids -> SUBSET Tokens]
  BY DEF TypeOK, Held

LEMMA NothingHeld ==
    ASSUME Held' = Held, unchecked' = unchecked
    PROVE  LockStep
  BY DEF LockStep, SL!lockVars

LEMMA YieldStep ==
    ASSUME TypeOK, NEW i \in Ids, NEW S \in SUBSET Tokens, S \subseteq Held[i],
           Held' = [Held EXCEPT ![i] = S],
           \/ unchecked' = unchecked
           \/ unchecked' = unchecked \ {i} /\ S = {}
    PROVE  LockStep
  <1>1. SL!Yield(i, S)
    BY DEF SL!Yield
  <1> QED BY <1>1 DEF LockStep, SL!LockNext

LEMMA ForceStep ==
    ASSUME TypeOK, NEW i \in Ids, NEW S \in SUBSET Tokens,
           Held' = [Held EXCEPT ![i] = S],
           unchecked' = unchecked \cup {i}
    PROVE  LockStep
  <1>1. SL!Force(i, S)
    BY DEF SL!Force
  <1> QED BY <1>1 DEF LockStep, SL!LockNext

(* A grant: the owners in R are stopped, the others do not clash.          *)
LEMMA GrantStep ==
    ASSUME TypeOK, NEW i \in Ids, NEW R \in SUBSET Ids,
           i \notin R, Held[i] = {}, i \notin unchecked,
           \A j \in Ids \ (R \cup {i}) :
              status[j] \in Owning => ~Clash(scope[j], scope[i]),
           Held' = [j \in Ids |-> IF j = i THEN scope[i]
                                  ELSE IF j \in R THEN {} ELSE Held[j]],
           unchecked' = unchecked \ R
    PROVE  LockStep
  <1>1. scope[i] \in SUBSET Tokens
    BY DEF TypeOK
  <1>2. ASSUME NEW j \in Ids \ (R \cup {i})
        PROVE  ~SL!Clash(scope[i], Held[j])
    <2>1. CASE status[j] \in Owning
      <3>1. Held[j] = scope[j] /\ scope[j] \in SUBSET Tokens
        BY <2>1 DEF Held, TypeOK
      <3>2. ~Clash(scope[j], scope[i])
        BY <2>1
      <3> QED BY <3>1, <3>2, <1>1, ClashSymmetric DEF Clash, SL!Clash
    <2>2. CASE status[j] \notin Owning
      BY <2>2 DEF Held, SL!Clash
    <2> QED BY <2>1, <2>2
  <1>3. SL!Grant(i, scope[i], R)
    BY <1>2 DEF SL!Grant
  <1> QED BY <1>1, <1>3 DEF LockStep, SL!LockNext

-----------------------------------------------------------------------------
(* A commit that changes item i alone and makes it no owner that the spawn *)
(* check should have looked at.                                            *)
LEMMA OneItemStep ==
    ASSUME IInv, NEW i \in Ids, NEW s \in Status, NEW S \in SUBSET Tokens,
           NEW W \in SUBSET {i},
           s \in Owning => i \in W \/ (status[i] \in Owning /\ S = scope[i]),
           Commit([status EXCEPT ![i] = s], [scope EXCEPT ![i] = S], W)
    PROVE  LockStep
  <1>1. /\ TypeOK /\ status \in [Ids -> Status]
        /\ scope \in [Ids -> SUBSET Tokens]
        /\ unchecked \in SUBSET Ids
        /\ \A k \in unchecked : status[k] \in Owning
    BY DEF IInv, TypeOK, UncheckedOwn
  <1>2. /\ status' = [status EXCEPT ![i] = s]
        /\ scope' = [scope EXCEPT ![i] = S]
        /\ unchecked' = {k \in unchecked \cup W : status'[k] \in Owning}
    BY DEF Commit
  <1>3. /\ Held \in [Ids -> SUBSET Tokens]
        /\ Held' = [Held EXCEPT ![i] = IF s \in Owning THEN S ELSE {}]
    BY <1>1, <1>2 DEF Held
  <1>4. CASE s \notin Owning
    <2>1. unchecked' = unchecked \ {i}
      BY <1>1, <1>2, <1>4
    <2>2. Held' = [Held EXCEPT ![i] = {}]
      BY <1>3, <1>4
    <2>3. {} \in SUBSET Tokens /\ {} \subseteq Held[i]
      OBVIOUS
    <2> QED BY <1>1, <2>1, <2>2, <2>3, YieldStep
  <1>5. CASE s \in Owning /\ i \in W
    <2>1. unchecked' = unchecked \cup {i}
      BY <1>1, <1>2, <1>5
    <2>2. Held' = [Held EXCEPT ![i] = S]
      BY <1>3, <1>5
    <2> QED BY <1>1, <2>1, <2>2, ForceStep
  <1>6. CASE s \in Owning /\ i \notin W
    <2>1. unchecked' = unchecked
      BY <1>1, <1>2, <1>6
    <2>2. Held' = Held
      BY <1>1, <1>3, <1>6 DEF Held
    <2> QED BY <2>1, <2>2, NothingHeld
  <1> QED BY <1>4, <1>5, <1>6

(* A pending or blocked item becomes the owner of its scope when no owner  *)
(* that is left overlaps it: those of R are abandoned in the same commit.  *)
LEMMA ClaimStep ==
    ASSUME IInv, NEW i \in Ids, NEW R \in SUBSET Ids,
           status[i] \notin Owning, i \notin R,
           \A j \in Ids \ (R \cup {i}) :
              status[j] \in Owning => ~Clash(scope[j], scope[i]),
           Commit([k \in Ids |-> IF k = i THEN "running"
                                 ELSE IF k \in R THEN "abandoned"
                                 ELSE status[k]], scope, {})
    PROVE  LockStep
  <1>1. /\ TypeOK /\ unchecked \in SUBSET Ids
        /\ \A k \in unchecked : status[k] \in Owning
    BY DEF IInv, TypeOK, UncheckedOwn
  <1>2. /\ status' = [k \in Ids |-> IF k = i THEN "running"
                                    ELSE IF k \in R THEN "abandoned"
                                    ELSE status[k]]
        /\ scope' = scope
        /\ unchecked' = {k \in unchecked : status'[k] \in Owning}
    BY DEF Commit
  <1>3. "running" \in Owning /\ "abandoned" \notin Owning
    BY DEF Owning
  <1>4. Held' = [j \in Ids |-> IF j = i THEN scope[i]
                               ELSE IF j \in R THEN {} ELSE Held[j]]
    BY <1>2, <1>3 DEF Held
  <1>5. Held[i] = {} /\ i \notin unchecked /\ unchecked' = unchecked \ R
    BY <1>1, <1>2, <1>3 DEF Held
  <1> QED BY <1>1, <1>4, <1>5, GrantStep

-----------------------------------------------------------------------------
(* The verbs, one group at a time.                                         *)
LEMMA SetStatusStep ==
    ASSUME IInv, NEW i \in Ids, NEW s \in Status, SetStatus(i, s),
           s \in Owning => status[i] \in Owning
    PROVE  LockStep
  <1>1. /\ Commit([status EXCEPT ![i] = s],
                  [scope EXCEPT ![i] = scope[i]], {})
        /\ scope[i] \in SUBSET Tokens
    BY DEF IInv, TypeOK, SetStatus
  <1>2. {} \in SUBSET {i}
    OBVIOUS
  <1> QED BY <1>1, <1>2, OneItemStep

LEMMA ClaimOneStep ==
    ASSUME IInv, NEW i \in Ids, status[i] \notin Owning,
           Conflicts(i, scope[i]) = {}, SetStatus(i, "running")
    PROVE  LockStep
  <1>1. Commit([k \in Ids |-> IF k = i THEN "running"
                              ELSE IF k \in {} THEN "abandoned"
                              ELSE status[k]], scope, {})
    <2>1. [k \in Ids |-> IF k = i THEN "running"
                         ELSE IF k \in {} THEN "abandoned" ELSE status[k]]
            = [status EXCEPT ![i] = "running"]
      BY DEF IInv, TypeOK
    <2> QED BY <2>1 DEF SetStatus
  <1>2. \A j \in Ids \ ({} \cup {i}) :
            status[j] \in Owning => ~Clash(scope[j], scope[i])
    BY NoConflicts
  <1>3. {} \in SUBSET Ids /\ i \notin {}
    OBVIOUS
  <1> QED BY <1>1, <1>2, <1>3, ClaimStep

LEMMA SimpleVerbsStep ==
    ASSUME IInv, NEW i \in Ids,
           \/ Register(i) \/ PopNext(i) \/ Done(i) \/ Abandon(i)
           \/ AbandonConfirmed(i) \/ Release(i) \/ Wedge(i) \/ Unwedge(i)
           \/ Block(i) \/ Unblock(i)
    PROVE  LockStep
  <1> USE DEF Status, Active, Serializing, Terminal, Owning
  <1>1. CASE Register(i) \/ PopNext(i)
    <2>1. /\ status[i] = "pending" /\ Conflicts(i, scope[i]) = {}
          /\ SetStatus(i, "running")
      BY <1>1 DEF Register, PopNext, SpawnClear, Ready
    <2> QED BY <2>1, ClaimOneStep
  <1>2. CASE Done(i)
    BY <1>2, SetStatusStep DEF Done
  <1>3. CASE Abandon(i) /\ status[i] \in Owning
    BY <1>3, SetStatusStep DEF Abandon
  <1>4. CASE Abandon(i) /\ status[i] \notin Owning
    BY <1>4, SetStatusStep DEF Abandon
  <1>5. CASE AbandonConfirmed(i) \/ Release(i)
    BY <1>5, SetStatusStep DEF AbandonConfirmed, Release
  <1>6. CASE Wedge(i) \/ Unwedge(i)
    BY <1>6, SetStatusStep DEF Wedge, Unwedge
  <1>7. CASE Block(i)
    BY <1>7, SetStatusStep DEF Block
  <1>8. CASE Unblock(i) /\ Conflicts(i, scope[i]) = {}
    BY <1>8, ClaimOneStep DEF Unblock
  <1>9. CASE Unblock(i) /\ Conflicts(i, scope[i]) # {}
    BY <1>9, SetStatusStep DEF Unblock
  <1> QED BY <1>1, <1>2, <1>3, <1>4, <1>5, <1>6, <1>7, <1>8, <1>9

LEMMA ForceStartStep ==
    ASSUME IInv, NEW i \in Ids, ForceStart(i)
    PROVE  LockStep
  <1> DEFINE R == Conflicts(i, scope[i])
  <1>1. /\ status[i] \notin Owning /\ R \in SUBSET Ids /\ i \notin R
        /\ Commit([k \in Ids |-> IF k = i THEN "running"
                                 ELSE IF k \in R THEN "abandoned"
                                 ELSE status[k]], scope, {})
    BY DEF ForceStart, Owning, Conflicts
  <1>2. \A j \in Ids \ (R \cup {i}) :
            status[j] \in Owning => ~Clash(scope[j], scope[i])
    BY DEF Conflicts
  <1> HIDE DEF R
  <1> QED BY <1>1, <1>2, ClaimStep
(* The new item of add and resurrect is pending: it holds nothing yet.     *)
LEMMA NewItemHeld ==
    ASSUME IInv, issued < MaxItems, NEW S,
           NEW st0 \in [Ids -> Status],
           Commit([st0 EXCEPT ![issued + 1] = "pending"],
                  [scope EXCEPT ![issued + 1] = S], {})
    PROVE  /\ issued + 1 \in Ids /\ status[issued + 1] \notin Owning
           /\ \A k \in Ids : Held'[k] = IF k # issued + 1 /\ st0[k] \in Owning
                                       THEN scope[k] ELSE {}
           /\ unchecked' = {k \in unchecked : st0[k] \in Owning}
           /\ DOMAIN Held' = Ids
  <1> DEFINE n == issued + 1
  <1>1. /\ issued \in Nat /\ MaxItems \in Nat /\ n \in Ids
    BY ConstantsAssumption DEF IInv, TypeOK, Ids
  <1>2. status[n] = "absent" /\ n \notin unchecked /\ unchecked \in SUBSET Ids
    <2>1. n > issued
      BY <1>1
    <2>2. status[n] = "absent"
      BY <1>1, <2>1 DEF IInv, Fresh
    <2> QED BY <2>2 DEF IInv, TypeOK, UncheckedOwn, Owning
  <1>3. "absent" \notin Owning /\ "pending" \notin Owning
    BY DEF Owning
  <1>4. /\ status' = [st0 EXCEPT ![n] = "pending"]
        /\ scope' = [scope EXCEPT ![n] = S]
        /\ unchecked' = {k \in unchecked : status'[k] \in Owning}
    BY DEF Commit
  <1>5. scope \in [Ids -> SUBSET Tokens]
    BY DEF IInv, TypeOK
  <1>6. \A k \in Ids : Held'[k] = IF k # n /\ st0[k] \in Owning
                                  THEN scope[k] ELSE {}
    BY <1>1, <1>3, <1>4, <1>5 DEF Held
  <1>7. unchecked' = {k \in unchecked : st0[k] \in Owning}
    BY <1>2, <1>4
  <1>8. DOMAIN Held' = Ids
    BY DEF Held
  <1> QED BY <1>1, <1>2, <1>3, <1>6, <1>7, <1>8

LEMMA AddStep ==
    ASSUME IInv, NEW S, NEW D, NEW p, Add(S, D, p)
    PROVE  LockStep
  <1>1. /\ issued < MaxItems /\ status \in [Ids -> Status]
        /\ Commit([status EXCEPT ![issued + 1] = "pending"],
                  [scope EXCEPT ![issued + 1] = S], {})
    BY DEF Add, IInv, TypeOK
  <1>2. /\ issued + 1 \in Ids /\ status[issued + 1] \notin Owning
        /\ \A k \in Ids : Held'[k] = IF k # issued + 1 /\ status[k] \in Owning
                                    THEN scope[k] ELSE {}
        /\ unchecked' = {k \in unchecked : status[k] \in Owning}
        /\ DOMAIN Held' = Ids
    BY <1>1, NewItemHeld
  <1>3. unchecked' = unchecked
    BY <1>2 DEF IInv, UncheckedOwn
  <1>4. Held' = Held
    BY <1>2 DEF Held
  <1> QED BY <1>3, <1>4, NothingHeld

LEMMA ResurrectStep ==
    ASSUME IInv, NEW i \in Ids, NEW keepOld \in BOOLEAN,
           Resurrect(i, keepOld)
    PROVE  LockStep
  <1> DEFINE n == issued + 1
             st0 == [status EXCEPT ![i] = IF keepOld THEN @ ELSE "abandoned"]
  <1>1. /\ TypeOK /\ issued < MaxItems /\ status[i] \in Owning
        /\ issued \in Nat /\ status \in [Ids -> Status]
        /\ \A k \in unchecked : k \in Ids /\ status[k] \in Owning
    BY DEF Resurrect, IInv, TypeOK, UncheckedOwn
  <1>2. i # n
    BY <1>1 DEF IInv, Fresh, Owning
  <1>3. st0 \in [Ids -> Status]
    BY <1>1 DEF Status, Terminal
  <1>4. [status EXCEPT ![n] = "pending",
                       ![i] = IF keepOld THEN @ ELSE "abandoned"]
          = [st0 EXCEPT ![n] = "pending"]
    BY <1>1, <1>2
  <1>5. Commit([st0 EXCEPT ![n] = "pending"],
               [scope EXCEPT ![n] = scope[i]], {})
    BY <1>4 DEF Resurrect
  <1>6. st0 = [status EXCEPT ![i] = IF keepOld THEN @ ELSE "abandoned"]
    OBVIOUS
  <1> HIDE DEF st0
  <1>7. /\ n \in Ids /\ status[n] \notin Owning
        /\ \A k \in Ids : Held'[k] = IF k # n /\ st0[k] \in Owning
                                    THEN scope[k] ELSE {}
        /\ unchecked' = {k \in unchecked : st0[k] \in Owning}
        /\ DOMAIN Held' = Ids
    BY <1>1, <1>3, <1>5, NewItemHeld
  <1>8. CASE keepOld
    <2>1. st0 = status
      BY <1>1, <1>6, <1>8
    <2>2. unchecked' = unchecked /\ Held' = Held
      BY <1>1, <1>7, <2>1 DEF Held
    <2> QED BY <2>2, NothingHeld
  <1>9. CASE ~keepOld
    <2>1. \A k \in Ids : st0[k] = IF k = i THEN "abandoned" ELSE status[k]
      BY <1>1, <1>6, <1>9
    <2>2. "abandoned" \notin Owning
      BY DEF Owning
    <2>3. unchecked' = unchecked \ {i}
      BY <1>1, <1>7, <2>1, <2>2
    <2>4. Held' = [Held EXCEPT ![i] = {}]
      BY <1>7, <2>1, <2>2 DEF Held
    <2>5. {} \in SUBSET Tokens /\ {} \subseteq Held[i]
      OBVIOUS
    <2> QED BY <1>1, <2>3, <2>4, <2>5, YieldStep
  <1> QED BY <1>8, <1>9
(* The verbs that skip the conflict check force their scope.               *)
LEMMA OverrideVerbsStep ==
    ASSUME IInv, NEW i \in Ids,
           NEW S \in ScopeChoices \cup {{}}, NEW D \in SUBSET Ids,
           NEW keepDeps \in BOOLEAN,
           \/ CoRun(i) \/ UnblockForced(i)
           \/ ForceStartRescoped(i, S, keepDeps) \/ UpdateScope(i, S, D)
    PROVE  LockStep
  <1>1. /\ status \in [Ids -> Status] /\ scope \in [Ids -> SUBSET Tokens]
        /\ S \in SUBSET Tokens /\ scope[i] \in SUBSET Tokens
        /\ "running" \in Status
        /\ {i} \in SUBSET {i} /\ i \in {i}
    BY ConstantsAssumption DEF IInv, TypeOK, Status, Active, Serializing
  <1>2. CASE CoRun(i) \/ UnblockForced(i)
    <2>1. Commit([status EXCEPT ![i] = "running"],
                 [scope EXCEPT ![i] = scope[i]], {i})
      BY <1>1, <1>2 DEF CoRun, UnblockForced
    <2> QED BY <1>1, <2>1, OneItemStep
  <1>3. CASE ForceStartRescoped(i, S, keepDeps)
    <2>1. Commit([status EXCEPT ![i] = "running"],
                 [scope EXCEPT ![i] = S], {i})
      BY <1>3 DEF ForceStartRescoped
    <2> QED BY <1>1, <2>1, OneItemStep
  <1>4. CASE UpdateScope(i, S, D)
    <2>1. /\ status[i] \in Status
          /\ Commit([status EXCEPT ![i] = status[i]],
                    [scope EXCEPT ![i] = S], {i})
      BY <1>1, <1>4 DEF UpdateScope
    <2> QED BY <1>1, <2>1, OneItemStep
  <1> QED BY <1>2, <1>3, <1>4

(* update-scope: an owner is forced to more or yields some of what it has. *)
LEMMA UpdateScopeStep ==
    ASSUME IInv, NEW i \in Ids, NEW S \in ScopeChoices \cup {{}},
           NEW D \in SUBSET Ids, WidenScope(i, S, D) \/ NarrowScope(i, S, D)
    PROVE  LockStep
  <1>1. /\ TypeOK /\ scope \in [Ids -> SUBSET Tokens] /\ S \in SUBSET Tokens
        /\ scope[i] \in SUBSET Tokens
    BY ConstantsAssumption DEF IInv, TypeOK
  <1>2. CASE status[i] \notin Owning
    <2>1. /\ status' = status /\ unchecked' = unchecked
          /\ \A k \in Ids \ {i} : scope'[k] = scope[k]
      BY <1>1, <1>2 DEF WidenScope, NarrowScope
    <2>2. Held' = Held
      BY <1>2, <2>1 DEF Held
    <2> QED BY <2>1, <2>2, NothingHeld
  <1>3. CASE status[i] \in Owning /\ WidenScope(i, S, D)
    <2>1. /\ status' = status /\ unchecked' = unchecked \cup {i}
          /\ scope' = [scope EXCEPT ![i] = scope[i] \cup S]
      BY <1>3 DEF WidenScope
    <2>2. Held' = [Held EXCEPT ![i] = scope[i] \cup S]
      BY <1>1, <1>3, <2>1 DEF Held
    <2>3. scope[i] \cup S \in SUBSET Tokens
      BY <1>1
    <2> QED BY <1>1, <2>1, <2>2, <2>3, ForceStep
  <1>4. CASE status[i] \in Owning /\ NarrowScope(i, S, D)
    <2>1. /\ status' = status /\ unchecked' = unchecked
          /\ scope' = [scope EXCEPT ![i] = scope[i] \ S]
      BY <1>4 DEF NarrowScope
    <2>2. Held' = [Held EXCEPT ![i] = scope[i] \ S]
      BY <1>1, <1>4, <2>1 DEF Held
    <2>3. scope[i] \ S \in SUBSET Tokens /\ scope[i] \ S \subseteq Held[i]
      BY <1>1, <1>4 DEF Held
    <2> QED BY <1>1, <2>1, <2>2, <2>3, YieldStep
  <1> QED BY <1>2, <1>3, <1>4

(* depend: an owner left with an unmet dependency yields its scope.        *)
LEMMA DependStep ==
    ASSUME IInv, NEW i \in Ids, NEW D \in SUBSET Ids, Depend(i, D)
    PROVE  LockStep
  <1>1. CASE status[i] \in Owning /\ Unmet(D) # {}
    <2>1. /\ Commit([status EXCEPT ![i] = "blocked"],
                    [scope EXCEPT ![i] = scope[i]], {})
          /\ scope[i] \in SUBSET Tokens
      BY <1>1 DEF IInv, TypeOK, Depend, SetDeps
    <2>2. "blocked" \in Status /\ "blocked" \notin Owning
          /\ {} \in SUBSET {i}
      BY DEF Status, Active, Owning
    <2> QED BY <2>1, <2>2, OneItemStep
  <1>2. CASE ~(status[i] \in Owning /\ Unmet(D) # {})
    <2>1. UNCHANGED <<status, scope, unchecked>>
      BY <1>2 DEF Depend, SetDeps
    <2>2. Held' = Held
      BY <2>1 DEF Held
    <2> QED BY <2>1, <2>2, NothingHeld
  <1> QED BY <1>1, <1>2

(* The verbs that no owner notices.                                        *)
LEMMA QuietVerbsStep ==
    ASSUME IInv,
           \/ \E i \in Ids : Promote(i) \/ \E p \in Priorities : Reprioritize(i, p)
           \/ \E P \in SUBSET Ids : Prune(P)
           \/ \E t \in Tokens : Lock(t) \/ Unlock(t)
           \/ UNCHANGED vars
    PROVE  LockStep
  <1>1. CASE \E i \in Ids : Promote(i) \/ \E p \in Priorities : Reprioritize(i, p)
    <2>1. /\ status' = status /\ scope' = scope
          /\ unchecked' = {k \in unchecked : status[k] \in Owning}
      BY <1>1 DEF Promote, Reprioritize, Commit
    <2>2. unchecked' = unchecked /\ Held' = Held
      BY <2>1 DEF IInv, UncheckedOwn, Held
    <2> QED BY <2>2, NothingHeld
  <1>2. CASE \E P \in SUBSET Ids : Prune(P)
    <2>1. PICK P \in SUBSET Ids : Prune(P)
      BY <1>2
    <2>2. /\ unchecked' = unchecked
          /\ \A k \in Ids : IF k \in P THEN /\ status[k] \notin Owning
                                            /\ status'[k] \notin Owning
                              ELSE status'[k] = status[k] /\ scope'[k] = scope[k]
      BY <2>1 DEF Prune, Owning, Terminal
    <2>3. Held' = Held
      BY <2>2 DEF Held
    <2> QED BY <2>2, <2>3, NothingHeld
  <1>3. CASE \/ \E t \in Tokens : Lock(t) \/ Unlock(t)
             \/ UNCHANGED vars
    <2>1. UNCHANGED <<status, scope, unchecked>>
      BY <1>3 DEF Lock, Unlock, vars
    <2>2. Held' = Held
      BY <2>1 DEF Held
    <2> QED BY <2>1, <2>2, NothingHeld
  <1> QED BY <1>1, <1>2, <1>3

-----------------------------------------------------------------------------
LEMMA NextIsLockStep == IInv /\ [Next]_vars => LockStep
  <1> SUFFICES ASSUME IInv, [Next]_vars PROVE LockStep
    OBVIOUS
  <1>1. CASE \/ \E i \in Ids : Promote(i) \/ \E p \in Priorities : Reprioritize(i, p)
             \/ \E P \in SUBSET Ids : Prune(P)
             \/ \E t \in Tokens : Lock(t) \/ Unlock(t)
             \/ UNCHANGED vars
    BY <1>1, QuietVerbsStep
  <1>2. ASSUME NEW S, NEW D, NEW p, Add(S, D, p)
        PROVE  LockStep
    BY <1>2, AddStep
  <1>3. ASSUME NEW i \in Ids,
               \/ Register(i) \/ PopNext(i) \/ Done(i) \/ Abandon(i)
               \/ AbandonConfirmed(i) \/ Release(i) \/ Wedge(i)
               \/ Unwedge(i) \/ Block(i) \/ Unblock(i)
        PROVE  LockStep
    BY <1>3, SimpleVerbsStep
  <1>4. ASSUME NEW i \in Ids, NEW keepOld \in BOOLEAN, Resurrect(i, keepOld)
        PROVE  LockStep
    BY <1>4, ResurrectStep
  <1>5. ASSUME NEW i \in Ids, ForceStart(i)
        PROVE  LockStep
    BY <1>5, ForceStartStep
  <1>6. ASSUME NEW i \in Ids, CoRun(i) \/ UnblockForced(i)
        PROVE  LockStep
    BY <1>6, OverrideVerbsStep
  <1>7. ASSUME NEW i \in Ids, NEW S \in ScopeChoices, NEW k \in BOOLEAN,
               ForceStartRescoped(i, S, k)
        PROVE  LockStep
    BY <1>7, OverrideVerbsStep
  <1>8. ASSUME NEW i \in Ids, NEW S \in ScopeChoices \cup {{}},
               NEW D \in SUBSET Ids,
               \/ WidenScope(i, S, D) \/ NarrowScope(i, S, D)
               \/ UpdateScope(i, S, D)
        PROVE  LockStep
    BY <1>8, UpdateScopeStep, OverrideVerbsStep
  <1>9. ASSUME NEW i \in Ids, NEW D \in SUBSET Ids, Depend(i, D)
        PROVE  LockStep
    BY <1>9, DependStep
  <1> QED BY <1>1, <1>2, <1>3, <1>4, <1>5, <1>6, <1>7, <1>8, <1>9 DEF Next

(* The work queue implements the scope lock, whatever verbs its callers    *)
(* use: the initial queue holds nothing, and every step of a verb is a     *)
(* grant, a forced grant, a yield or no step of the lock.                  *)
THEOREM Refinement == Spec => ImplementsScopeLock
  <1>1. Init => SL!LockInit
    BY DEF Init, SL!LockInit, Held, Owning
  <1>2. IInv /\ [Next]_vars => [SL!LockNext]_(SL!lockVars)
    BY NextIsLockStep DEF LockStep
  <1> QED BY <1>1, <1>2, Invariance, PTL
          DEF Spec, ImplementsScopeLock, SL!LockSpec
=============================================================================
