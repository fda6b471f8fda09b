----------------------------- MODULE QueueStore -----------------------------
(***************************************************************************)
(* The file under the work queue: queue.json, its lock file and its .bak   *)
(* snapshot.  A verb takes the lock, reads the document (with recovery),   *)
(* replaces queue.json by a rename, then the snapshot, and lets the lock   *)
(* go.  A document is the set of the updates that its writers had seen.    *)
(* The lock excludes processes of one domain (the host, or the container)  *)
(* only.                                                                   *)
(***************************************************************************)
EXTENDS Integers, FiniteSets

CONSTANTS
    Procs,             \* processes that run verbs of the queue
    Domain,            \* Domain[p]: where p's flock is honoured
    MaxUpdates,        \* bound: updates per process
    MaxCorruptions,    \* bound: how often queue.json is damaged
    Faults             \* the faults of this instance

AllFaults == {"crash", "snapshot", "tail", "broken", "blank"}

ASSUME StoreAssumption ==
    /\ MaxUpdates \in Nat /\ MaxCorruptions \in Nat
    /\ Domain \in [Procs -> {Domain[p] : p \in Procs}]
    /\ Faults \subseteq AllFaults

Updates == Procs \X (1 .. MaxUpdates)

VARIABLES
    kind,      \* what is in queue.json: "whole", "tail": a document and a
               \* fragment behind it, "broken": no leading document,
               \* "blank": nothing, or no file
    doc,       \* its (leading) document
    bak,       \* the document of .bak, {} while there is none
    pc,        \* what p is at
    seen,      \* the document p holds in memory
    written,   \* how many updates p wrote
    acked,     \* the updates whose verb reported success
    alarm,     \* history: the damage that the last reading alerted of
    damages    \* how often queue.json was damaged

vars == <<kind, doc, bak, pc, seen, written, acked, alarm, damages>>

Places == {"idle", "open", "replaced", "saved"}

Kinds == {"whole", "tail", "broken", "blank"}

(* _read_queue_with_recovery: the leading document, else the snapshot. *)
Recovered(k, d, b) ==
    CASE k \in {"whole", "tail"} -> d
      [] k = "broken" -> b
      [] k = "blank" -> {}

Reading == Recovered(kind, doc, bak)

Init ==
    /\ kind = "blank" /\ doc = {} /\ bak = {}
    /\ pc = [p \in Procs |-> "idle"]
    /\ seen = [p \in Procs |-> {}]
    /\ written = [p \in Procs |-> 0]
    /\ acked = {}
    /\ alarm = {}
    /\ damages = 0

Holders(d) == {p \in Procs : Domain[p] = d /\ pc[p] # "idle"}

-----------------------------------------------------------------------------
(* Mutant: the document is read without waiting for the lock. *)
OpenUnlocked(p) ==
    /\ pc[p] = "idle"
    /\ pc' = [pc EXCEPT ![p] = "open"]
    /\ seen' = [seen EXCEPT ![p] = Reading]
    /\ alarm' = {kind} \cap {"tail", "broken"}
    /\ UNCHANGED <<kind, doc, bak, written, acked, damages>>

(* _queue_open_locked: the lock, and then the document under it. *)
Open(p) ==
    /\ pc[p] = "idle"
    /\ Holders(Domain[p]) = {}
    /\ pc' = [pc EXCEPT ![p] = "open"]
    /\ seen' = [seen EXCEPT ![p] = Reading]
    /\ alarm' = {kind} \cap {"tail", "broken"}
    /\ UNCHANGED <<kind, doc, bak, written, acked, damages>>

(* Mutant: a verb that fails forgets the lock. *)
CloseForgotten(p) ==
    /\ pc[p] = "open"
    /\ pc' = [pc EXCEPT ![p] = "failed"]
    /\ seen' = [seen EXCEPT ![p] = {}]
    /\ UNCHANGED <<kind, doc, bak, written, acked, alarm, damages>>

(* A verb that only reads, refuses or fails lets the lock go. *)
Close(p) ==
    /\ pc[p] = "open"
    /\ pc' = [pc EXCEPT ![p] = "idle"]
    /\ seen' = [seen EXCEPT ![p] = {}]
    /\ UNCHANGED <<kind, doc, bak, written, acked, alarm, damages>>

(* _queue_write_and_unlock: the rename of queue.json (until then only a    *)
(* temporary file was written) ...                                         *)
Replace(p) ==
    /\ pc[p] = "open"
    /\ written[p] < MaxUpdates
    /\ LET new == seen[p] \cup {<<p, written[p] + 1>>}
       IN  /\ seen' = [seen EXCEPT ![p] = new]
           /\ doc' = new
    /\ kind' = "whole"
    /\ written' = [written EXCEPT ![p] = @ + 1]
    /\ pc' = [pc EXCEPT ![p] = "replaced"]
    /\ UNCHANGED <<bak, acked, alarm, damages>>

(* ... then that of .bak, whose failure is only reported ... *)
Snapshot(p) ==
    /\ pc[p] = "replaced"
    /\ \/ bak' = seen[p]
       \/ "snapshot" \in Faults /\ bak' = bak
    /\ pc' = [pc EXCEPT ![p] = "saved"]
    /\ UNCHANGED <<kind, doc, seen, written, acked, alarm, damages>>

(* Mutant: the verb is over before the snapshot is written. *)
UnlockEarly(p) ==
    /\ pc[p] \in {"replaced", "saved"}
    /\ acked' = acked \cup {<<p, written[p]>>}
    /\ pc' = [pc EXCEPT ![p] = "idle"]
    /\ seen' = [seen EXCEPT ![p] = {}]
    /\ UNCHANGED <<kind, doc, bak, written, alarm, damages>>

(* ... and the lock goes, and the verb reports success. *)
Unlock(p) ==
    /\ pc[p] = "saved"
    /\ acked' = acked \cup {<<p, written[p]>>}
    /\ pc' = [pc EXCEPT ![p] = "idle"]
    /\ seen' = [seen EXCEPT ![p] = {}]
    /\ UNCHANGED <<kind, doc, bak, written, alarm, damages>>

(* The process dies; the kernel lets its lock go. *)
Crash(p) ==
    /\ "crash" \in Faults
    /\ pc[p] # "idle"
    /\ pc' = [pc EXCEPT ![p] = "idle"]
    /\ seen' = [seen EXCEPT ![p] = {}]
    /\ UNCHANGED <<kind, doc, bak, written, acked, alarm, damages>>

(* queue.json is damaged from outside: a fragment behind the document, its *)
(* beginning lost, or all of it.                                           *)
Damage(k) ==
    /\ k \in Faults
    /\ damages < MaxCorruptions
    /\ kind = "whole"
    /\ kind' = k
    /\ doc' = IF k = "tail" THEN doc ELSE {}
    /\ damages' = damages + 1
    /\ UNCHANGED <<bak, pc, seen, written, acked, alarm>>

Next ==
    \/ \E p \in Procs : \/ Open(p) \/ Close(p) \/ Replace(p) \/ Snapshot(p)
                        \/ Unlock(p) \/ Crash(p)
    \/ \E k \in {"tail", "broken", "blank"} : Damage(k)

Spec == Init /\ [][Next]_vars

-----------------------------------------------------------------------------
TypeOK ==
    /\ kind \in Kinds
    /\ doc \in SUBSET Updates /\ bak \in SUBSET Updates
    /\ pc \in [Procs -> Places]
    /\ seen \in [Procs -> SUBSET Updates]
    /\ written \in [Procs -> 0 .. MaxUpdates]
    /\ acked \in SUBSET Updates
    /\ alarm \in SUBSET {"tail", "broken"}
    /\ damages \in 0 .. MaxCorruptions

(* An update whose verb reported success is in what the next verb reads,   *)
(* whoever crashed in between and however queue.json was torn: the order   *)
(* of the two renames and of the unlock is what the .bak relies on.        *)
AckedSurvive == acked \subseteq Reading

(* A verb that drops another's update from queue.json, having read it too  *)
(* early, runs in another domain than the one whose update it drops:       *)
(* "lost updates among same-domain writers" do not happen.                 *)
LostOnlyAcross ==
    [][\A p \in Procs : pc[p] = "open" /\ pc'[p] = "replaced" =>
          \A u \in Reading \ Reading' : Domain[u[1]] # Domain[p]]_vars

DS == INSTANCE DurableSet WITH val <- Reading, kept <- acked

ImplementsDurableSet == DS!SetSpec

-----------------------------------------------------------------------------
(* _alert_queue_recovery: "Emit a LOUD alert whenever queue.json corruption *)
(* triggered a recovery/reset. NEVER silent": a verb that reads a document *)
(* without the updates that were reported as done says so.                 *)
ResetIsNeverSilent ==
    [][\A p \in Procs : pc[p] = "idle" /\ pc'[p] = "open" =>
          acked \subseteq seen'[p] \/ alarm' # {}]_vars
=============================================================================
