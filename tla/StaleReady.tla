------------------------------ MODULE StaleReady ------------------------------
(***************************************************************************)
(* The five-minute job that tells the session of queue items nobody takes  *)
(* up (src/stale_ready.rs).  A tick lists the queue, then the ready items, *)
(* sends one event for those older than a threshold and only then saves    *)
(* their ids in its ledger, which keeps it from telling them again.  It    *)
(* may die, or fail, between any two of these steps.                       *)
(***************************************************************************)
EXTENDS Naturals

CONSTANTS
    Items,     \* ids of queue items; an id is never given twice
    Threshold  \* ticks of age from which an item is stale

ASSUME StaleAssumption == Threshold \in Nat

VARIABLES
    items, \* per item: its status in the queue and its age, capped
    tells, \* stale-ready-state.json: the ids told, broken or not
    tick,  \* the job: its step, the ids it listed, those it found stale
    told,  \* history: the items an event named
    lost,  \* history: the items whose record failed or was lost since they were told
    again  \* history: the items told again though their record stood

stVars == <<items, tells, tick, told, lost, again>>

\* QueueItem.
Item == [status : {"unborn", "blocked", "pending", "done", "archived"}, age : 0..Threshold]
NoTick == [at |-> "off", listed |-> {}, stale |-> {}]

\* queue list --all, queue ready: what session-task prints.
ListedItems == {i \in Items : items[i].status \notin {"unborn", "archived"}}
ReadyItems == {i \in Items : items[i].status = "pending"}

\* load_state: a ledger that is missing or broken is an empty one.
Emitted == IF tells.whole THEN tells.ids ELSE {}

\* Another pruning: what is not ready now is forgotten.
PrunedByReady == Emitted \cap ReadyItems

\* prune_state: what has left the queue is forgotten.
Pruned == Emitted \cap tick.listed

\* compute_qualifying: the age counts from the creation of the item.
Qualifying == {i \in ReadyItems : items[i].age >= Threshold} \ Pruned

\* save_state: a sibling is written and renamed, so the ledger is the old or the new.
SavesLedger(ids) == tells' = [whole |-> TRUE, ids |-> ids]

-----------------------------------------------------------------------------
\* cmd_stale_ready_check: a list that prints nothing passes for an empty queue.
Lists(printed) ==
    /\ tick.at = "off"
    /\ printed \in {ListedItems, {}}
    /\ tick' = [at |-> "listed", listed |-> printed, stale |-> {}]
    /\ UNCHANGED <<items, tells, told, lost, again>>

\* The second list, the ledger and the verdict; when nothing is stale the tick ends
\* with the pruned ledger saved.
Judges ==
    /\ tick.at = "listed"
    /\ IF Qualifying = {}
       THEN /\ tick' = NoTick
            /\ IF Pruned # Emitted THEN SavesLedger(Pruned) ELSE UNCHANGED tells
       ELSE tick' = [tick EXCEPT !.at = "sends", !.stale = Qualifying] /\ UNCHANGED tells
    /\ lost' = lost \cup {i \in Emitted \ tick.listed : items[i].status # "archived"}
    /\ UNCHANGED <<items, told, again>>

\* write_event_file: one event that names them all.
SendsEvent ==
    /\ tick.at = "sends"
    /\ tick' = [tick EXCEPT !.at = "records"]
    /\ told' = told \cup tick.stale
    /\ again' = again \cup ((tick.stale \cap told) \ lost)
    /\ UNCHANGED <<items, tells, lost>>

\* The ids are recorded once the event is out.
Records ==
    /\ tick.at = "records"
    /\ tick' = NoTick
    /\ SavesLedger(Pruned \cup tick.stale)
    /\ lost' = lost \ tick.stale
    /\ UNCHANGED <<items, told, again>>

\* A list, the event or the ledger fails, or the job is killed: the next tick retries.
Fails ==
    /\ tick.at # "off"
    /\ tick' = NoTick
    /\ lost' = IF tick.at = "records" THEN lost \cup tick.stale ELSE lost
    /\ UNCHANGED <<items, tells, told, again>>

-----------------------------------------------------------------------------
\* The queue while the job runs: items arrive, wait for others, are done, come back,
\* are archived.
Follow == [unborn |-> {"blocked", "pending"}, blocked |-> {"pending", "done"},
           pending |-> {"blocked", "done"}, done |-> {"pending", "archived"}, archived |-> {}]
QueueMoves(i, next) ==
    /\ next \in Follow[items[i].status]
    /\ items' = [items EXCEPT ![i].status = next]
    /\ UNCHANGED <<tells, tick, told, lost, again>>

Minutes ==
    /\ tick.at = "off"
    /\ items' = [i \in Items |-> IF items[i].status = "unborn" \/ items[i].age = Threshold
                                 THEN items[i] ELSE [items[i] EXCEPT !.age = @ + 1]]
    /\ UNCHANGED <<tells, tick, told, lost, again>>

\* What a tick has loaded it writes back, so that a break meanwhile comes to nothing.
LedgerBreaks ==
    /\ tells.whole /\ tick.at \in {"off", "listed"}
    /\ tells' = [whole |-> FALSE, ids |-> {}]
    /\ lost' = lost \cup tells.ids
    /\ UNCHANGED <<items, tick, told, again>>

StInit ==
    /\ items = [i \in Items |-> [status |-> "unborn", age |-> 0]]
    /\ tells = [whole |-> TRUE, ids |-> {}] /\ tick = NoTick
    /\ told = {} /\ lost = {} /\ again = {}

StNext ==
    \/ \E printed \in SUBSET Items : Lists(printed)
    \/ Judges \/ SendsEvent \/ Records \/ Fails \/ Minutes \/ LedgerBreaks
    \/ \E i \in Items, next \in {"blocked", "pending", "done", "archived"} : QueueMoves(i, next)

StSpec == StInit /\ [][StNext]_stVars

-----------------------------------------------------------------------------
\* The types of the queue, the ledger and the tick.
StTypeOK ==
    /\ items \in [Items -> Item]
    /\ tells \in [whole : BOOLEAN, ids : SUBSET Items]
    /\ tick \in [at : {"off", "listed", "sends", "records"}, listed : SUBSET Items,
                 stale : SUBSET Items]
    /\ {told, lost, again} \subseteq SUBSET Items

\* An item is told a second time only when its record failed, broke, or was pruned by
\* a list that came back empty: not because it was blocked for a while, or came back.
ToldOnce == again = {}

\* An item on the ledger was told: a tick that dies leaves none recorded and untold.
RecordedWasTold == Emitted \subseteq told

\* The ledger of the job says what was told.
LedgerTrue == StTypeOK /\ ToldOnce /\ RecordedWasTold
=============================================================================
