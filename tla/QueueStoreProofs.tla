------------------------- MODULE QueueStoreProofs -------------------------
(***************************************************************************)
(* Type correctness of QueueStore.  With one domain and a snapshot that is *)
(* written whenever queue.json is, no damage that leaves something in the  *)
(* file loses an update that was reported as done: the store implements    *)
(* DurableSet.  With two domains, and no damage, a verb drops updates of   *)
(* the other domain only.  For any number of processes, updates, crashes   *)
(* and damages.                                                            *)
(***************************************************************************)
EXTENDS QueueStore, TLAPS

SafeStore ==
    /\ \A p, q \in Procs : Domain[p] = Domain[q]
    /\ "blank" \notin Faults /\ "snapshot" \notin Faults

OneHolder ==
    \A p, q \in Procs : pc[p] # "idle" /\ pc[q] # "idle" => p = q

(* .bak has what was reported as done, and queue.json what .bak has. *)
FilesAgree ==
    /\ acked \subseteq bak
    /\ kind \in {"whole", "tail"} => bak \subseteq doc
    /\ kind = "blank" => bak = {}

(* The holder of the lock has all of it in memory. *)
HolderAgrees(p) ==
    /\ pc[p] # "idle" => bak \subseteq seen[p]
    /\ pc[p] = "open" /\ kind \in {"whole", "tail"} => doc \subseteq seen[p]
    /\ pc[p] \in {"replaced", "saved"} =>
          /\ kind # "blank"
          /\ kind \in {"whole", "tail"} => doc = seen[p]
          /\ <<p, written[p]>> \in seen[p]
    /\ pc[p] = "saved" => bak = seen[p]

IInv == TypeOK /\ OneHolder /\ FilesAgree /\ \A p \in Procs : HolderAgrees(p)

LEMMA StoreInit == Init => IInv
  <1> SUFFICES ASSUME Init PROVE IInv
    OBVIOUS
  <1>1. TypeOK
    BY StoreAssumption DEF Init, TypeOK, Kinds, Places
  <1>2. OneHolder /\ FilesAgree /\ \A p \in Procs : HolderAgrees(p)
    BY DEF Init, OneHolder, FilesAgree, HolderAgrees
  <1> QED BY <1>1, <1>2 DEF IInv

LEMMA StoreType == IInv /\ Next => TypeOK'
  <1> SUFFICES ASSUME IInv, Next PROVE TypeOK'
    OBVIOUS
  <1> USE StoreAssumption DEF TypeOK, Kinds, Places
  <1>1. TypeOK
    BY DEF IInv
  <1>2. ASSUME NEW p \in Procs, Open(p)
        PROVE  TypeOK'
    BY <1>1, <1>2 DEF Open, Reading, Recovered
  <1>3. ASSUME NEW p \in Procs, Close(p) \/ Crash(p)
        PROVE  TypeOK'
    BY <1>1, <1>3 DEF Close, Crash
  <1>4. ASSUME NEW p \in Procs, Replace(p)
        PROVE  TypeOK'
    <2>1. written[p] + 1 \in 1 .. MaxUpdates
      BY <1>1, <1>4 DEF Replace
    <2>2. <<p, written[p] + 1>> \in Updates
      BY <2>1 DEF Updates
    <2> QED BY <1>1, <1>4, <2>1, <2>2 DEF Replace
  <1>5. ASSUME NEW p \in Procs, Snapshot(p)
        PROVE  TypeOK'
    BY <1>1, <1>5 DEF Snapshot
  <1>6. ASSUME NEW p \in Procs, Unlock(p)
        PROVE  TypeOK'
    <2>1. <<p, written[p]>> \in Updates
      BY <1>1, <1>6 DEF IInv, HolderAgrees, Unlock
    <2> QED BY <1>1, <1>6, <2>1 DEF Unlock
  <1>7. ASSUME NEW k \in {"tail", "broken", "blank"}, Damage(k)
        PROVE  TypeOK'
    BY <1>1, <1>7 DEF Damage
  <1> QED BY <1>2, <1>3, <1>4, <1>5, <1>6, <1>7 DEF Next

(* In one domain the lock has one holder.                                  *)
LEMMA StoreOneHolder ==
    ASSUME SafeStore, IInv, Next
    PROVE  OneHolder'
  <1>1. pc \in [Procs -> Places] /\ OneHolder
    BY DEF IInv, TypeOK
  <1>2. ASSUME NEW p \in Procs, Open(p)
        PROVE  OneHolder'
    <2>1. \A q \in Procs : pc[q] = "idle"
      BY <1>2 DEF Open, Holders, SafeStore
    <2> QED BY <1>1, <1>2, <2>1 DEF Open, OneHolder
  <1>3. ASSUME NEW p \in Procs,
               \/ Close(p) \/ Replace(p) \/ Snapshot(p) \/ Unlock(p) \/ Crash(p)
        PROVE  OneHolder'
    <2>1. pc[p] # "idle"
      BY <1>3 DEF Close, Replace, Snapshot, Unlock, Crash
    <2>2. \A q \in Procs : q # p => pc'[q] = "idle"
      BY <1>1, <1>3, <2>1
         DEF OneHolder, Close, Replace, Snapshot, Unlock, Crash
    <2> QED BY <2>2 DEF OneHolder
  <1>4. ASSUME NEW k \in {"tail", "broken", "blank"}, Damage(k)
        PROVE  OneHolder'
    BY <1>1, <1>4 DEF Damage, OneHolder
  <1> QED BY <1>2, <1>3, <1>4 DEF Next

LEMMA StoreFiles ==
    ASSUME SafeStore, IInv, Next
    PROVE  FilesAgree' /\ \A p \in Procs : HolderAgrees(p)'
  <1>1. /\ TypeOK /\ OneHolder /\ FilesAgree
        /\ \A p \in Procs : HolderAgrees(p)
    BY DEF IInv
  <1>2. ASSUME NEW p \in Procs, Open(p)
        PROVE  FilesAgree' /\ \A q \in Procs : HolderAgrees(q)'
    <2>1. FilesAgree'
      BY <1>1, <1>2 DEF Open, FilesAgree
    <2>2. \A q \in Procs \ {p} : HolderAgrees(q)'
      BY <1>1, <1>2 DEF Open, HolderAgrees, TypeOK
    <2>3. HolderAgrees(p)'
      BY <1>1, <1>2 DEF Open, HolderAgrees, FilesAgree, TypeOK, Kinds, Reading,
                        Recovered
    <2> QED BY <2>1, <2>2, <2>3
  <1>3. ASSUME NEW p \in Procs,
               \/ Close(p) \/ Replace(p) \/ Snapshot(p) \/ Unlock(p) \/ Crash(p)
        PROVE  FilesAgree' /\ \A q \in Procs : HolderAgrees(q)'
    <2>1. /\ pc[p] # "idle" /\ \A q \in Procs : q # p => pc[q] = "idle"
          /\ pc \in [Procs -> Places]
      BY <1>1, <1>3 DEF Close, Replace, Snapshot, Unlock, Crash, OneHolder,
                        TypeOK
    <2>2. \A q \in Procs \ {p} : HolderAgrees(q)'
      <3>1. \A q \in Procs \ {p} : pc'[q] = "idle"
        BY <2>1, <1>3 DEF Close, Replace, Snapshot, Unlock, Crash
      <3> QED BY <3>1 DEF HolderAgrees
    <2>3. CASE Close(p) \/ Crash(p)
      BY <1>1, <2>1, <2>2, <2>3
         DEF Close, Crash, FilesAgree, HolderAgrees
    <2>4. CASE Replace(p)
      <3>1. /\ doc' = seen[p] \cup {<<p, written[p] + 1>>} /\ seen'[p] = doc'
            /\ kind' = "whole" /\ written'[p] = written[p] + 1
            /\ pc'[p] = "replaced" /\ bak' = bak /\ acked' = acked
            /\ pc[p] = "open"
        BY <1>1, <2>4 DEF Replace, TypeOK
      <3>2. HolderAgrees(p)'
        BY <1>1, <3>1 DEF HolderAgrees
      <3>3. FilesAgree'
        BY <1>1, <3>1 DEF FilesAgree, HolderAgrees
      <3> QED BY <2>2, <3>2, <3>3
    <2>5. CASE Snapshot(p)
      <3>1. bak' = seen[p] /\ bak \subseteq seen[p] /\ pc'[p] = "saved"
        BY <1>1, <2>1, <2>5 DEF Snapshot, SafeStore, HolderAgrees
      <3>2. HolderAgrees(p)'
        BY <1>1, <2>5, <3>1 DEF Snapshot, HolderAgrees
      <3>3. FilesAgree'
        BY <1>1, <2>5, <3>1 DEF Snapshot, FilesAgree, HolderAgrees
      <3> QED BY <2>2, <3>2, <3>3
    <2>6. CASE Unlock(p)
      <3>1. HolderAgrees(p)'
        BY <2>1, <2>6 DEF Unlock, HolderAgrees
      <3>2. FilesAgree'
        BY <1>1, <2>6 DEF Unlock, FilesAgree, HolderAgrees
      <3> QED BY <2>2, <3>1, <3>2
    <2> QED BY <1>3, <2>3, <2>4, <2>5, <2>6
  <1>4. ASSUME NEW k \in {"tail", "broken", "blank"}, Damage(k)
        PROVE  FilesAgree' /\ \A q \in Procs : HolderAgrees(q)'
    <2>1. /\ k \in {"tail", "broken"} /\ kind = "whole" /\ kind' = k
          /\ k = "tail" => doc' = doc
          /\ UNCHANGED <<bak, pc, seen, written, acked>>
      BY <1>4 DEF Damage, SafeStore
    <2>2. FilesAgree'
      BY <1>1, <2>1 DEF FilesAgree
    <2>3. \A q \in Procs : HolderAgrees(q)'
      BY <1>1, <2>1 DEF HolderAgrees
    <2> QED BY <2>2, <2>3
  <1> QED BY <1>2, <1>3, <1>4 DEF Next

LEMMA StoreInvariance == ASSUME SafeStore PROVE Spec => []IInv
  <1>1. IInv /\ [Next]_vars => IInv'
    <2>1. CASE UNCHANGED vars
      BY <2>1 DEF vars, IInv, TypeOK, OneHolder, FilesAgree, HolderAgrees
    <2> QED BY <2>1, StoreType, StoreOneHolder, StoreFiles DEF IInv
  <1> QED BY <1>1, StoreInit, PTL DEF Spec

(* No update whose verb reported success is missing from what the next     *)
(* verb reads.                                                             *)
THEOREM NoAckedLoss == ASSUME SafeStore PROVE Spec => []AckedSurvive
  <1>1. IInv => AckedSurvive
    BY DEF IInv, TypeOK, Kinds, FilesAgree, AckedSurvive, Reading, Recovered
  <1> QED BY <1>1, StoreInvariance, PTL

(* The store keeps the promise of DurableSet.                              *)
THEOREM StoreRefines == ASSUME SafeStore PROVE Spec => ImplementsDurableSet
  <1>1. Init => DS!SetInit
    BY DEF Init, DS!SetInit, Reading, Recovered
  <1>2. ASSUME IInv, [Next]_vars
        PROVE  [DS!SetNext]_(DS!setVars)
    <2> USE DEF DS!SetNext, DS!setVars
    <2>0. /\ TypeOK /\ OneHolder /\ FilesAgree
          /\ \A p \in Procs : HolderAgrees(p)
      BY <1>2 DEF IInv
    <2>1. CASE UNCHANGED vars
      BY <2>1 DEF vars, Reading
    <2>2. ASSUME NEW p \in Procs, Open(p) \/ Close(p) \/ Crash(p)
          PROVE  [DS!SetNext]_(DS!setVars)
      BY <2>2 DEF Open, Close, Crash, Reading
    <2>3. ASSUME NEW p \in Procs, Replace(p)
          PROVE  [DS!SetNext]_(DS!setVars)
      <3>1. Reading \subseteq seen[p]
        BY <2>0, <2>3 DEF Replace, Reading, Recovered, HolderAgrees, FilesAgree,
                          TypeOK, Kinds
      <3>2. Reading' = seen[p] \cup {<<p, written[p] + 1>>}
        BY <2>3 DEF Replace, Reading, Recovered
      <3>3. DS!Apply
        BY <2>3, <3>1, <3>2 DEF DS!Apply, Replace
      <3> QED BY <3>3
    <2>4. ASSUME NEW p \in Procs, Snapshot(p)
          PROVE  [DS!SetNext]_(DS!setVars)
      <3>1. Reading \subseteq Reading'
        BY <2>0, <2>4 DEF Snapshot, Reading, Recovered, HolderAgrees, TypeOK,
                          Kinds
      <3>2. DS!Apply
        BY <2>4, <3>1 DEF DS!Apply, Snapshot
      <3> QED BY <3>2
    <2>5. ASSUME NEW p \in Procs, Unlock(p)
          PROVE  [DS!SetNext]_(DS!setVars)
      <3>1. <<p, written[p]>> \in Reading
        BY <2>0, <2>5 DEF Unlock, Reading, Recovered, HolderAgrees, TypeOK,
                          Kinds
      <3>2. DS!Report(<<p, written[p]>>)
        BY <2>5, <3>1 DEF DS!Report, Unlock, Reading
      <3> QED BY <3>1, <3>2
    <2>6. ASSUME NEW k \in {"tail", "broken", "blank"}, Damage(k)
          PROVE  [DS!SetNext]_(DS!setVars)
      <3>1. acked \subseteq Reading' /\ Reading' \subseteq Reading
        BY <2>0, <2>6 DEF Damage, SafeStore, Reading, Recovered, FilesAgree
      <3>2. DS!Lose
        BY <2>6, <3>1 DEF DS!Lose, Damage
      <3> QED BY <3>2
    <2> QED BY <1>2, <2>1, <2>2, <2>3, <2>4, <2>5, <2>6 DEF Next
  <1> QED BY <1>1, <1>2, StoreInvariance, PTL
          DEF Spec, ImplementsDurableSet, DS!SetSpec

-----------------------------------------------------------------------------
(* Types, for any domains and faults: a verb reports the update that it       *)
(* wrote, since it has written one by then.                                   *)
Numbered == \A p \in Procs : pc[p] \in {"replaced", "saved"} => <<p, written[p]>> \in Updates

LEMMA StoreSteps == ASSUME TypeOK, Numbered, [Next]_vars PROVE TypeOK' /\ Numbered'
  <1> USE StoreAssumption DEF Kinds, Places
  <1>1. /\ kind \in Kinds /\ doc \in SUBSET Updates /\ bak \in SUBSET Updates /\ pc \in [Procs -> Places]
        /\ seen \in [Procs -> SUBSET Updates] /\ written \in [Procs -> 0 .. MaxUpdates]
        /\ acked \in SUBSET Updates /\ alarm \in SUBSET {"tail", "broken"} /\ damages \in 0 .. MaxCorruptions
    BY DEF TypeOK
  <1>2. ASSUME NEW p \in Procs, Open(p) PROVE TypeOK' /\ Numbered'
    BY <1>1, <1>2 DEF Open, Reading, Recovered, TypeOK, Numbered
  <1>3. ASSUME NEW p \in Procs, Close(p) \/ Crash(p) PROVE TypeOK' /\ Numbered'
    BY <1>1, <1>3 DEF Close, Crash, TypeOK, Numbered
  <1>4. ASSUME NEW p \in Procs, Replace(p) PROVE TypeOK' /\ Numbered'
    <2>1. written[p] + 1 \in 1 .. MaxUpdates
      BY <1>1, <1>4 DEF Replace
    <2>2. <<p, written[p] + 1>> \in Updates
      BY <2>1 DEF Updates
    <2>3. TypeOK'
      BY <1>1, <1>4, <2>1, <2>2 DEF Replace, TypeOK
    <2>4. ASSUME NEW q \in Procs, pc'[q] \in {"replaced", "saved"} PROVE <<q, written'[q]>> \in Updates
      BY <1>1, <1>4, <2>2, <2>4 DEF Replace, Numbered
    <2> QED BY <2>3, <2>4 DEF Numbered
  <1>5. ASSUME NEW p \in Procs, Snapshot(p) PROVE TypeOK' /\ Numbered'
    BY <1>1, <1>5 DEF Snapshot, TypeOK, Numbered
  <1>6. ASSUME NEW p \in Procs, Unlock(p) PROVE TypeOK' /\ Numbered'
    <2>1. <<p, written[p]>> \in Updates
      BY <1>6 DEF Unlock, Numbered
    <2> QED BY <1>1, <1>6, <2>1 DEF Unlock, TypeOK, Numbered
  <1>7. ASSUME NEW k \in {"tail", "broken", "blank"}, Damage(k) PROVE TypeOK' /\ Numbered'
    BY <1>1, <1>7 DEF Damage, TypeOK, Numbered
  <1>8. CASE UNCHANGED vars
    BY <1>8 DEF vars, TypeOK, Numbered
  <1> QED BY <1>2, <1>3, <1>4, <1>5, <1>6, <1>7, <1>8 DEF Next

(* Every variable keeps its type.                                             *)
THEOREM StoreTyped == Spec => []TypeOK
  <1>1. Init => TypeOK /\ Numbered
    <2> SUFFICES ASSUME Init PROVE TypeOK /\ Numbered
      OBVIOUS
    <2>1. TypeOK
      BY StoreAssumption DEF Init, TypeOK, Kinds, Places
    <2> QED BY <2>1 DEF Init, Numbered
  <1>2. TypeOK /\ Numbered /\ [Next]_vars => (TypeOK /\ Numbered)'
    BY StoreSteps
  <1> QED BY <1>1, <1>2, PTL DEF Spec

-----------------------------------------------------------------------------
(* Two domains whose locks do not see each other, say a host and a container, *)
(* and a document that nobody damages but at its end.                         *)
TwoDomains ==
    /\ \A p, q, r \in Procs : Domain[p] = Domain[q] \/ Domain[p] = Domain[r] \/ Domain[q] = Domain[r]
    /\ "broken" \notin Faults /\ "blank" \notin Faults

LockHeld == \A p, q \in Procs : pc[p] # "idle" /\ pc[q] # "idle" /\ Domain[p] = Domain[q] => p = q

(* What the writers of a domain wrote, its holder has read, wherever it is;   *)
(* and what a holder read of the other domain is still in the document.       *)
OwnSeen ==
    \A p \in Procs : pc[p] = "open" =>
        /\ \A u \in doc : Domain[u[1]] = Domain[p] => u \in seen[p]
        /\ \A q \in Procs : pc[q] = "open" => \A u \in seen[q] : Domain[u[1]] = Domain[p] => u \in seen[p]
OthersKept ==
    \A p \in Procs : pc[p] = "open" => \A u \in seen[p] : Domain[u[1]] # Domain[p] => u \in doc

DomainInv ==
    /\ TypeOK /\ LockHeld /\ OwnSeen /\ OthersKept
    /\ kind \in {"whole", "tail", "blank"} /\ (kind = "blank" => doc = {})

LEMMA ReadingIsDoc == ASSUME DomainInv PROVE Reading = doc
  BY DEF DomainInv, Reading, Recovered

LEMMA LockSteps == ASSUME DomainInv, Next PROVE LockHeld'
  <1>1. pc \in [Procs -> Places] /\ LockHeld
    BY DEF DomainInv, TypeOK
  <1>2. ASSUME NEW p \in Procs, Open(p) PROVE LockHeld'
    <2>1. \A q \in Procs : Domain[q] = Domain[p] => pc[q] = "idle"
      BY <1>2 DEF Open, Holders
    <2> QED BY <1>1, <1>2, <2>1 DEF Open, LockHeld
  <1>3. ASSUME NEW p \in Procs, Close(p) \/ Replace(p) \/ Snapshot(p) \/ Unlock(p) \/ Crash(p)
        PROVE  LockHeld'
    BY <1>1, <1>3 DEF LockHeld, Close, Replace, Snapshot, Unlock, Crash
  <1>4. ASSUME NEW k \in {"tail", "broken", "blank"}, Damage(k) PROVE LockHeld'
    BY <1>1, <1>4 DEF Damage, LockHeld
  <1> QED BY <1>2, <1>3, <1>4 DEF Next

LEMMA DomainSteps ==
    ASSUME TwoDomains, DomainInv, Next, TypeOK'
    PROVE  DomainInv'
  <1>1. /\ TypeOK /\ LockHeld /\ OwnSeen /\ OthersKept
        /\ kind \in {"whole", "tail", "blank"} /\ (kind = "blank" => doc = {})
        /\ pc \in [Procs -> Places] /\ seen \in [Procs -> SUBSET Updates]
    BY DEF DomainInv, TypeOK
  <1>2. LockHeld'
    BY LockSteps
  <1>3. ASSUME NEW p \in Procs, Open(p) PROVE DomainInv'
    <2>1. /\ pc[p] = "idle" /\ pc' = [pc EXCEPT ![p] = "open"] /\ seen' = [seen EXCEPT ![p] = doc]
          /\ UNCHANGED <<kind, doc>>
      BY <1>3, ReadingIsDoc DEF Open
    <2>2. seen'[p] = doc /\ \A q \in Procs : q # p => pc'[q] = pc[q] /\ seen'[q] = seen[q]
      BY <1>1, <2>1
    <2>3. ASSUME NEW q \in Procs, q # p, pc'[q] = "open" PROVE Domain[q] # Domain[p]
      BY <1>1, <1>2, <2>1, <2>2, <2>3 DEF LockHeld, Places
    <2>4. OthersKept'
      BY <1>1, <2>1, <2>2 DEF OthersKept
    <2>5. ASSUME NEW q \in Procs, pc'[q] = "open"
          PROVE  /\ \A u \in doc' : Domain[u[1]] = Domain[q] => u \in seen'[q]
                 /\ \A r \in Procs : pc'[r] = "open" =>
                       \A u \in seen'[r] : Domain[u[1]] = Domain[q] => u \in seen'[q]
      <3>1. \A u \in doc' : Domain[u[1]] = Domain[q] => u \in seen'[q]
        BY <1>1, <2>1, <2>2, <2>5 DEF OwnSeen
      <3>2. ASSUME NEW r \in Procs, pc'[r] = "open", NEW u \in seen'[r], Domain[u[1]] = Domain[q]
            PROVE  u \in seen'[q]
        <4>1. CASE q = p /\ r # p
          <5>1. Domain[r] # Domain[p] /\ pc[r] = "open" /\ u \in seen[r]
            BY <2>2, <2>3, <3>2, <4>1
          <5>2. u \in doc
            BY <1>1, <3>2, <4>1, <5>1 DEF OthersKept
          <5> QED BY <2>2, <4>1, <5>2
        <4>2. CASE r = p
          BY <2>1, <2>2, <3>1, <3>2, <4>2
        <4>3. CASE q # p /\ r # p
          BY <1>1, <2>2, <2>5, <3>2, <4>3 DEF OwnSeen
        <4> QED BY <4>1, <4>2, <4>3
      <3> QED BY <3>1, <3>2
    <2> QED BY <1>1, <1>2, <2>1, <2>4, <2>5 DEF DomainInv, OwnSeen
  <1>4. ASSUME NEW p \in Procs, Replace(p) PROVE DomainInv'
    <2> DEFINE new == <<p, written[p] + 1>>
    <2>1. /\ pc[p] = "open" /\ pc' = [pc EXCEPT ![p] = "replaced"] /\ seen' = [seen EXCEPT ![p] = @ \cup {new}]
          /\ doc' = seen[p] \cup {new} /\ kind' = "whole"
      BY <1>4 DEF Replace
    <2>2. pc'[p] = "replaced" /\ \A q \in Procs : q # p => pc'[q] = pc[q] /\ seen'[q] = seen[q]
      BY <1>1, <2>1
    <2>3. ASSUME NEW q \in Procs, pc'[q] = "open" PROVE q # p /\ pc[q] = "open" /\ Domain[q] # Domain[p]
      BY <1>1, <2>1, <2>2, <2>3 DEF LockHeld
    <2>4. ASSUME NEW q \in Procs, pc'[q] = "open", NEW u \in seen'[q], Domain[u[1]] # Domain[q]
          PROVE  u \in doc'
      <3>1. q # p /\ pc[q] = "open" /\ Domain[q] # Domain[p] /\ u \in seen[q]
        BY <2>2, <2>3, <2>4
      <3>2. u[1] \in Procs
        BY <1>1, <3>1 DEF Updates
      <3>3. Domain[u[1]] = Domain[p]
        BY <2>4, <3>1, <3>2 DEF TwoDomains
      <3> QED BY <1>1, <2>1, <3>1, <3>3 DEF OwnSeen
    <2>5. ASSUME NEW q \in Procs, pc'[q] = "open", NEW u \in doc', Domain[u[1]] = Domain[q]
          PROVE  u \in seen'[q]
      <3>1. q # p /\ pc[q] = "open" /\ Domain[q] # Domain[p] /\ seen'[q] = seen[q]
        BY <2>2, <2>3, <2>5
      <3>2. u # new
        BY <2>5, <3>1
      <3> QED BY <1>1, <2>1, <2>5, <3>1, <3>2 DEF OwnSeen
    <2>6. ASSUME NEW q \in Procs, pc'[q] = "open", NEW r \in Procs, pc'[r] = "open", NEW u \in seen'[r],
                 Domain[u[1]] = Domain[q]
          PROVE  u \in seen'[q]
      BY <1>1, <2>2, <2>3, <2>6 DEF OwnSeen
    <2>7. OwnSeen' /\ OthersKept'
      BY <2>4, <2>5, <2>6 DEF OwnSeen, OthersKept
    <2> QED BY <1>2, <2>1, <2>7 DEF DomainInv
  <1>5. ASSUME NEW p \in Procs, Close(p) \/ Snapshot(p) \/ Unlock(p) \/ Crash(p) PROVE DomainInv'
    <2>1. /\ UNCHANGED <<kind, doc>>
          /\ \A q \in Procs : pc'[q] = "open" => pc[q] = "open" /\ seen'[q] = seen[q]
      BY <1>1, <1>5 DEF Close, Snapshot, Unlock, Crash
    <2>2. OwnSeen' /\ OthersKept'
      BY <1>1, <2>1 DEF OwnSeen, OthersKept
    <2> QED BY <1>1, <1>2, <2>1, <2>2 DEF DomainInv
  <1>6. ASSUME NEW k \in {"tail", "broken", "blank"}, Damage(k) PROVE DomainInv'
    <2>1. kind' = "tail" /\ UNCHANGED <<doc, pc, seen>>
      BY <1>6 DEF Damage, TwoDomains
    <2>2. OwnSeen' /\ OthersKept'
      BY <1>1, <2>1 DEF OwnSeen, OthersKept
    <2> QED BY <1>2, <2>1, <2>2 DEF DomainInv
  <1> QED BY <1>3, <1>4, <1>5, <1>6 DEF Next

(* "lost updates among same-domain writers" do not happen: what a verb drops  *)
(* was written by the other domain.                                           *)
THEOREM LostOnlyAcrossEach == ASSUME TwoDomains PROVE Spec => LostOnlyAcross
  <1>1. Init => DomainInv
    <2> SUFFICES ASSUME Init PROVE DomainInv
      OBVIOUS
    <2>1. TypeOK
      BY StoreAssumption DEF Init, TypeOK, Kinds, Places
    <2> QED BY <2>1 DEF Init, DomainInv, LockHeld, OwnSeen, OthersKept
  <1>2. DomainInv /\ TypeOK' /\ [Next]_vars => DomainInv'
    <2>1. CASE UNCHANGED vars
      BY <2>1 DEF vars, DomainInv, TypeOK, LockHeld, OwnSeen, OthersKept
    <2> QED BY <2>1, DomainSteps
  <1>3. ASSUME DomainInv, DomainInv', [Next]_vars
        PROVE  [\A p \in Procs : pc[p] = "open" /\ pc'[p] = "replaced" =>
                   \A u \in Reading \ Reading' : Domain[u[1]] # Domain[p]]_vars
    <2> SUFFICES ASSUME Next, NEW p \in Procs, pc[p] = "open", pc'[p] = "replaced",
                        NEW u \in Reading \ Reading'
                 PROVE  Domain[u[1]] # Domain[p]
      BY <1>3
    <2>1. Reading = doc /\ Reading' = doc'
      <3>1. Reading = doc
        BY <1>3, ReadingIsDoc
      <3>2. Reading' = doc'
        BY <1>3 DEF DomainInv, Reading, Recovered
      <3> QED BY <3>1, <3>2
    <2>2. Replace(p)
      <3>1. pc \in [Procs -> Places]
        BY <1>3 DEF DomainInv, TypeOK
      <3> QED BY <3>1 DEF Next, Open, Close, Replace, Snapshot, Unlock, Crash, Damage
    <2>3. seen[p] \subseteq doc'
      BY <2>2 DEF Replace
    <2> QED BY <1>3, <2>1, <2>3 DEF DomainInv, OwnSeen
  <1> QED BY <1>1, <1>2, <1>3, StoreTyped, PTL DEF Spec, LostOnlyAcross
=============================================================================
