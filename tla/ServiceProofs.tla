--------------------------- MODULE ServiceProofs ---------------------------
(***************************************************************************)
(* The safety properties of the services around the daemon, for any number *)
(* of runs, alerts, events, items, agents and panes: one poller of a       *)
(* watcher, which is on record; no unread alert is lost to a crash; what   *)
(* goes through the event queue is shown, answered for and paged once; the *)
(* ledger of the stale-ready job says what was told; heartbeats say who is *)
(* alive; a kill ends those it aimed at; task panes are closed by whom they *)
(* belong to; whoever lost its agent is told of.                           *)
(***************************************************************************)
EXTENDS WatcherRun, AlertGate, EventSpool, StaleReady, Babysit, AgentKill, TaskPanes, Orphans,
        WellFoundedInduction, TLAPS

-----------------------------------------------------------------------------
(* WatcherRun.  The spawn lock is held from the probe to the end, so that   *)
(* one run is under way; past the probe no poller runs but its own.         *)
OneRun == \A r, q \in Runs : step[r] # "off" /\ step[q] # "off" => r = q
Alone ==
    \A r \in Runs :
        /\ step[r] \in {"clear", "claim", "spawn"} => \A q \in Runs : ~Running(q)
        /\ step[r] \in {"record", "wait"} => \A q \in Runs : Running(q) => q = r
WrInv == OnePollerOnRecord /\ OneRun /\ Alone

LEMMA WrInitInv == WrInit => WrInv
  <1> SUFFICES ASSUME WrInit PROVE WrInv
    OBVIOUS
  <1>1. record \in [role : {"none", "dead", "run", "poller"}, of : Runs \cup {NoRun}]
    BY DEF WrInit, NoRecord, DeadRecord
  <1>2. WrTypeOK
    BY <1>1 DEF WrInit, WrTypeOK
  <1>3. OnePoller /\ SupervisedRecorded /\ OneRun /\ Alone
    BY DEF WrInit, OnePoller, SupervisedRecorded, OneRun, Alone, Running
  <1> QED BY <1>2, <1>3 DEF WrInv, OnePollerOnRecord

(* A step of a run. *)
LEMMA WrRunInv ==
    ASSUME WrInv, NEW r \in Runs,
           RunStarts(r) \/ Probe(r) \/ ClearsStale(r) \/ Claim(r) \/ Spawn(r) \/ Record(r)
           \/ Reap(r) \/ RunSignalled(r) \/ RunKilled(r) \/ PollerEnds(r)
    PROVE  WrInv'
  <1> USE NoRunAssumption DEF WrInv, OnePollerOnRecord, WrTypeOK, OnePoller, SupervisedRecorded,
             OneRun, Alone, Running, NoRecord, DeadRecord, Names
  <1>1. CASE RunStarts(r)
    BY <1>1 DEF RunStarts, Locked
  <1>2. CASE Probe(r)
    BY <1>2 DEF Probe, Skip, RecordLive, Leaves
  <1>3. CASE ClearsStale(r)
    BY <1>3 DEF ClearsStale
  <1>4. CASE Claim(r)
    BY <1>4 DEF Claim, Leaves
  <1>5. CASE Spawn(r)
    BY <1>5 DEF Spawn, Leaves
  <1>6. CASE Record(r)
    BY <1>6 DEF Record
  <1>7. CASE Reap(r)
    BY <1>7 DEF Reap, Leaves
  <1>8. CASE RunSignalled(r)
    BY <1>8 DEF RunSignalled
  <1>9. CASE RunKilled(r)
    BY <1>9 DEF RunKilled, Leaves
  <1>10. CASE PollerEnds(r)
    BY <1>10 DEF PollerEnds
  <1> QED BY <1>1, <1>2, <1>3, <1>4, <1>5, <1>6, <1>7, <1>8, <1>9, <1>10

LEMMA WrStopInv ==
    ASSUME WrInv, StopSignals \/ StopClears
    PROVE  WrInv'
  <1> USE NoRunAssumption DEF WrInv, OnePollerOnRecord, WrTypeOK, OnePoller, SupervisedRecorded,
             OneRun, Alone, Running, NoRecord, Names
  <1>1. CASE StopSignals
    BY <1>1 DEF StopSignals
  <1>2. CASE StopClears
    <2>1. record' \in [role : {"none", "dead", "run", "poller"}, of : Runs \cup {NoRun}]
      BY <1>2 DEF StopClears
    <2>2. cleared \subseteq cleared' /\ cleared' \subseteq Runs
      BY <1>2 DEF StopClears
    <2>3. \A r \in Runs : step[r] = "wait" => r \in cleared'
      BY <1>2 DEF StopClears
    <2>4. WrTypeOK' /\ SupervisedRecorded'
      BY <1>2, <2>1, <2>2, <2>3 DEF StopClears
    <2>5. OnePoller' /\ OneRun' /\ Alone'
      BY <1>2 DEF StopClears
    <2> QED BY <2>4, <2>5
  <1> QED BY <1>1, <1>2

(* However runs overlap, die half way or leave pollers behind, and whenever *)
(* a stop comes in between: one poller of a watcher runs, and a run that    *)
(* waits for its poller has it on record unless a stop took the record.     *)
THEOREM OnePollerEach == WrSpec => []OnePollerOnRecord
  <1>1. WrInv /\ [WrNext]_wrVars => WrInv'
    <2> SUFFICES ASSUME WrInv, [WrNext]_wrVars PROVE WrInv'
      OBVIOUS
    <2>1. CASE UNCHANGED wrVars
      BY <2>1 DEF wrVars, WrInv, OnePollerOnRecord, WrTypeOK, OnePoller, SupervisedRecorded,
                  OneRun, Alone, Running, Names
    <2> QED BY <2>1, WrRunInv, WrStopInv DEF WrNext
  <1>2. WrInv => OnePollerOnRecord
    BY DEF WrInv
  <1> QED BY WrInitInv, <1>1, <1>2, PTL DEF WrSpec

-----------------------------------------------------------------------------
(* AlertGate.  Writers that have not met work one at a time, and what a     *)
(* writer saves holds all that nobody has read.                             *)
OneWriter == \A w, v \in Writers : writer[w].at # "off" /\ writer[v].at # "off" => w = v
Saving ==
    \A w \in Writers :
        writer[w].at # "off" =>
            /\ unread \cup writer[w].adds \subseteq writer[w].saves
            /\ writer[w].file = "sibling"
            /\ writer[w].at = "renames" => sibling = File("whole", writer[w].saves)
AgInv == AgTypeOK /\ (~together => unread \subseteq Loaded /\ OneWriter /\ Saving)

LEMMA AgInitInv == AgInit => AgInv
  <1> SUFFICES ASSUME AgInit PROVE AgInv
    OBVIOUS
  <1>1. /\ alerts = [state |-> "whole", holds |-> {}] /\ sibling = [state |-> "none", holds |-> {}]
        /\ unread = {} /\ together = FALSE
    BY DEF AgInit, File
  <1>2. /\ writer = [w \in Writers |-> [at |-> "off", saves |-> {}, adds |-> {}, file |-> "sibling"]]
        /\ \A w \in Writers : writer[w].at = "off"
    BY DEF AgInit, At
  <1>3. AgTypeOK
    <2>1. /\ alerts \in [state : {"none", "half", "whole"}, holds : SUBSET Sources]
          /\ sibling \in [state : {"none", "half", "whole"}, holds : SUBSET Sources]
      BY <1>1
    <2>2. writer \in [Writers -> [at : {"off", "opens", "fills", "renames"},
                                 saves : SUBSET Sources, adds : SUBSET Sources,
                                 file : {"sibling", "alerts", "gone"}]]
      BY <1>2
    <2> QED BY <1>1, <2>1, <2>2 DEF AgTypeOK
  <1>4. unread \subseteq Loaded /\ OneWriter /\ Saving
    BY <1>1, <1>2 DEF Loaded, OneWriter, Saving
  <1> QED BY <1>3, <1>4 DEF AgInv

LEMMA AgTyped == ASSUME AgTypeOK, [AgNext]_agVars PROVE AgTypeOK'
  <1> USE DEF AgTypeOK, File, At, Goes
  <1>1. Loaded \subseteq Sources
    BY DEF Loaded
  <1>2. ASSUME NEW source \in Sources, Arm(source) PROVE AgTypeOK'
    BY <1>1, <1>2 DEF Arm, Begins
  <1>3. ASSUME NEW shown \in SUBSET Sources, Acknowledge(shown) PROVE AgTypeOK'
    BY <1>1, <1>3 DEF Acknowledge, Begins
  <1>4. ASSUME NEW w \in Writers, Opens(w) \/ Fills(w) \/ Dies(w) PROVE AgTypeOK'
    BY <1>4 DEF Opens, Fills, Dies
  <1>5. ASSUME NEW w \in Writers, Renames(w) PROVE AgTypeOK'
    BY <1>5 DEF Renames
  <1>6. CASE UNCHANGED agVars
    BY <1>6 DEF agVars
  <1> QED BY <1>2, <1>3, <1>4, <1>5, <1>6 DEF AgNext

LEMMA AgStepInv == ASSUME AgInv, [AgNext]_agVars PROVE AgInv'
  <1> USE DEF AgInv, OneWriter, Saving, File, At, Goes, Loaded
  <1>0. AgTypeOK'
    BY AgTyped
  <1>1. ASSUME NEW source \in Sources, Arm(source) PROVE AgInv'
    <2> SUFFICES ASSUME ~together' PROVE (unread \subseteq Loaded /\ OneWriter /\ Saving)'
      BY <1>0
    <2>1. unread \subseteq Loaded /\ \A v \in Writers : writer[v].at = "off"
      BY <1>1 DEF Arm, Begins
    <2>2. /\ writer' = [writer EXCEPT !["daemon"] = At("opens", Loaded \cup {source}, {source})]
          /\ UNCHANGED <<alerts, sibling, unread>>
      BY <1>1 DEF Arm, Begins
    <2>3. \A v \in Writers : writer'[v].at # "off" =>
              /\ v = "daemon"
              /\ writer'[v] = [at |-> "opens", saves |-> Loaded \cup {source}, adds |-> {source},
                              file |-> "sibling"]
      BY <2>1, <2>2 DEF AgTypeOK, Writers
    <2> QED BY <2>1, <2>2, <2>3
  <1>2. ASSUME NEW shown \in SUBSET Sources, Acknowledge(shown) PROVE AgInv'
    <2> SUFFICES ASSUME ~together' PROVE (unread \subseteq Loaded /\ OneWriter /\ Saving)'
      BY <1>0
    <2>1. unread \subseteq Loaded /\ \A v \in Writers : writer[v].at = "off"
      BY <1>2 DEF Acknowledge, Begins
    <2>2. /\ writer' = [writer EXCEPT !["ack"] = At("opens", Loaded \ shown, {})]
          /\ unread' = unread \ shown /\ UNCHANGED <<alerts, sibling>>
      BY <1>2 DEF Acknowledge, Begins
    <2>3. \A v \in Writers : writer'[v].at # "off" =>
              /\ v = "ack"
              /\ writer'[v] = [at |-> "opens", saves |-> Loaded \ shown, adds |-> {},
                              file |-> "sibling"]
      BY <2>1, <2>2 DEF AgTypeOK, Writers
    <2> QED BY <2>1, <2>2, <2>3
  <1>3. ASSUME NEW w \in Writers, Opens(w) PROVE AgInv'
    BY <1>0, <1>3 DEF Opens, AgTypeOK
  <1>4. ASSUME NEW w \in Writers, Fills(w) PROVE AgInv'
    BY <1>0, <1>4 DEF Fills, AgTypeOK
  <1>5. ASSUME NEW w \in Writers, Renames(w) PROVE AgInv'
    BY <1>0, <1>5 DEF Renames, AgTypeOK
  <1>6. ASSUME NEW w \in Writers, Dies(w) PROVE AgInv'
    BY <1>0, <1>6 DEF Dies, AgTypeOK
  <1>7. CASE UNCHANGED agVars
    BY <1>7 DEF agVars, AgTypeOK
  <1> QED BY <1>1, <1>2, <1>3, <1>4, <1>5, <1>6, <1>7 DEF AgNext

(* Whatever dies at whatever step, an alert that nobody has read is in the  *)
(* file, as long as the daemon and `claude-watch-ack` have not written at   *)
(* one time.                                                                *)
THEOREM AlertsKeptEach == AgSpec => []AlertsKept
  <1>1. AgInv => AlertsKept
    BY DEF AgInv, AlertsKept, UnreadKept
  <1> QED BY AgInitInv, AgStepInv, <1>1, PTL DEF AgSpec

-----------------------------------------------------------------------------
(* EventSpool.  The event that is at hand was shown, and an alarm whose     *)
(* file is about to go is pending or answered; the overrides that are paged *)
(* are on the ledger and those to be paged are not among them.              *)
AtHand ==
    /\ watcher.at \in {"ingests", "removes"} => watcher.now \in displayed
    /\ watcher.at = "removes" /\ watcher.now \in Alarms => pending \/ watcher.now \in answered
PagesApart == paged \subseteq noted /\ drain \cap paged = {}
EsInv == EventsServed /\ AtHand /\ PagesApart

LEMMA EsInitInv == EsInit => EsInv
  <1> SUFFICES ASSUME EsInit PROVE EsInv
    OBVIOUS
  <1>1. watcher = [at |-> "waits", now |-> "none", batch |-> {}]
    BY DEF EsInit, Waiting, NoEvent
  <1>2. \A e \in Events : file[e] = "none"
    BY DEF EsInit
  <1>3. watcher \in [at : {"waits", "prints", "ingests", "removes"},
                    now : Events \cup {NoEvent}, batch : SUBSET Events]
    BY <1>1 DEF NoEvent
  <1>4. EsTypeOK
    BY <1>3 DEF EsInit, EsTypeOK
  <1>5. SurfacedBeforeGone /\ AlarmAnswered /\ PagedOnce
    BY <1>2 DEF EsInit, SurfacedBeforeGone, AlarmAnswered, PagedOnce, Events
  <1>6. AtHand /\ PagesApart
    BY <1>1 DEF EsInit, AtHand, PagesApart
  <1> QED BY <1>4, <1>5, <1>6 DEF EsInv, EventsServed

(* A step of an emitter or of the watcher, or an acknowledgement. *)
LEMMA EsWatcherInv ==
    ASSUME EsInv,
           \/ \E e \in Events : WritesEvent(e) \/ RenamesEvent(e) \/ Swallowed(e) \/ PrintsBatch(e)
           \/ TakesBatch \/ (\E worked \in BOOLEAN : Ingests(worked)) \/ Removes \/ WatcherDies
           \/ Acks
    PROVE  EsInv'
  <1> USE DEF EsInv, EventsServed, EsTypeOK, SurfacedBeforeGone, AlarmAnswered, PagedOnce,
              AtHand, PagesApart
  <1>1. ASSUME NEW e \in Events, WritesEvent(e) \/ RenamesEvent(e) \/ Swallowed(e) PROVE EsInv'
    BY <1>1 DEF WritesEvent, RenamesEvent, Swallowed, Events
  <1>2. ASSUME NEW e \in Events, PrintsBatch(e) PROVE EsInv'
    BY <1>2 DEF PrintsBatch
  <1>3. CASE TakesBatch
    BY <1>3 DEF TakesBatch, There, NoEvent
  <1>4. ASSUME NEW worked \in BOOLEAN, Ingests(worked) PROVE EsInv'
    BY <1>4 DEF Ingests, Armed, Events
  <1>5. CASE Removes
    BY <1>5 DEF Removes, Waiting, NoEvent, Events
  <1>6. CASE WatcherDies
    BY <1>6 DEF WatcherDies, Waiting, NoEvent
  <1>7. CASE Acks
    BY <1>7 DEF Acks, Events
  <1> QED BY <1>1, <1>2, <1>3, <1>4, <1>5, <1>6, <1>7

(* A step of the daemon. *)
LEMMA EsDaemonInv ==
    ASSUME EsInv,
           \/ DaemonDies \/ DayGoesBy
           \/ \E outcome \in {"written", "failed", "cut"} : Drains(outcome)
           \/ \E b \in Bypass : Pages(b)
    PROVE  EsInv'
  <1> USE DEF EsInv, EventsServed, EsTypeOK, SurfacedBeforeGone, AlarmAnswered, PagedOnce,
              AtHand, PagesApart
  <1>1. CASE DaemonDies \/ DayGoesBy
    BY <1>1 DEF DaemonDies, DayGoesBy
  <1>2. ASSUME NEW outcome \in {"written", "failed", "cut"}, Drains(outcome) PROVE EsInv'
    BY <1>2 DEF Drains, Fresh, LedgerNow
  <1>3. ASSUME NEW b \in Bypass, Pages(b) PROVE EsInv'
    BY <1>3 DEF Pages
  <1> QED BY <1>1, <1>2, <1>3

(* Whoever dies between two steps: an event whose file is gone was shown,   *)
(* an alarm among them is pending or was acknowledged after it was shown,   *)
(* and no override is paged twice on one record.                            *)
THEOREM EventsServedEach == EsSpec => []EventsServed
  <1>1. EsInv /\ [EsNext]_esVars => EsInv'
    <2> SUFFICES ASSUME EsInv, [EsNext]_esVars PROVE EsInv'
      OBVIOUS
    <2>1. CASE UNCHANGED esVars
      BY <2>1 DEF esVars, EsInv, EventsServed, EsTypeOK, SurfacedBeforeGone, AlarmAnswered,
                  PagedOnce, AtHand, PagesApart
    <2> QED BY <2>1, EsWatcherInv, EsDaemonInv DEF EsNext
  <1>2. EsInv => EventsServed
    BY DEF EsInv
  <1> QED BY EsInitInv, <1>1, <1>2, PTL DEF EsSpec

-----------------------------------------------------------------------------
(* StaleReady.  An item that was told is on the ledger, was archived, or    *)
(* its record was lost, unless the tick is about to record it.              *)
Remembered ==
    \A i \in told : \/ i \in Emitted \cup lost \/ items[i].status = "archived"
                    \/ tick.at = "records" /\ i \in tick.stale
Dropped ==
    tick.at \in {"sends", "records"} =>
        \A i \in Emitted \ tick.listed : i \in lost \/ items[i].status = "archived"
OnlyNew ==
    /\ tick.at = "sends" => tick.stale \cap told \subseteq lost
    /\ tick.at = "records" => tick.stale \subseteq told
StInv == LedgerTrue /\ Remembered /\ Dropped /\ OnlyNew

LEMMA StInitInv == StInit => StInv
  BY StaleAssumption DEF StInit, StInv, LedgerTrue, StTypeOK, ToldOnce, RecordedWasTold,
         Remembered, Dropped, OnlyNew, Emitted, NoTick, Item

(* A step of the tick. *)
LEMMA StTickInv ==
    ASSUME StInv, (\E printed \in SUBSET Items : Lists(printed)) \/ Judges \/ SendsEvent
                  \/ Records \/ Fails
    PROVE  StInv'
  <1> USE DEF StInv, LedgerTrue, StTypeOK, ToldOnce, RecordedWasTold, Remembered, Dropped,
              OnlyNew, Emitted, NoTick
  <1>1. ASSUME NEW printed \in SUBSET Items, Lists(printed) PROVE StInv'
    BY <1>1 DEF Lists
  <1>2. CASE Judges
    <2>1. /\ tick.at = "listed" /\ UNCHANGED <<items, told, again>>
          /\ lost' = lost \cup {i \in Emitted \ tick.listed : items[i].status # "archived"}
      BY <1>2 DEF Judges
    <2>2. Pruned \subseteq Emitted /\ Emitted \subseteq Items
      BY DEF Pruned
    <2>3. \A i \in Emitted \ Pruned : i \in lost' \/ items[i].status = "archived"
      BY <2>1 DEF Pruned
    <2>4. CASE Qualifying = {}
      <3>1. tick' = NoTick /\ (Emitted' = Pruned \/ Emitted' = Emitted)
        BY <1>2, <2>4 DEF Judges, SavesLedger
      <3>2. tells' \in [whole : BOOLEAN, ids : SUBSET Items]
        <4>1. tells' = tells \/ tells' = [whole |-> TRUE, ids |-> Pruned]
          BY <1>2, <2>4 DEF Judges, SavesLedger
        <4>2. [whole |-> TRUE, ids |-> Pruned] \in [whole : BOOLEAN, ids : SUBSET Items]
          BY <2>2
        <4>3. tells \in [whole : BOOLEAN, ids : SUBSET Items]
          BY DEF StTypeOK
        <4> QED BY <4>1, <4>2, <4>3, Zenon
      <3> QED BY <2>1, <2>2, <2>3, <3>1, <3>2
    <2>5. CASE Qualifying # {}
      <3>1. tick' = [tick EXCEPT !.at = "sends", !.stale = Qualifying] /\ tells' = tells
        BY <1>2, <2>5 DEF Judges
      <3>2. Qualifying \subseteq Items /\ Qualifying \cap told \subseteq lost'
        BY <2>1, <2>3 DEF Qualifying, ReadyItems
      <3> QED BY <2>1, <2>2, <2>3, <3>1, <3>2 DEF Pruned
    <2> QED BY <2>4, <2>5
  <1>3. CASE SendsEvent
    BY <1>3 DEF SendsEvent
  <1>4. CASE Records
    BY <1>4 DEF Records, SavesLedger, Pruned
  <1>5. CASE Fails
    BY <1>5 DEF Fails
  <1> QED BY <1>1, <1>2, <1>3, <1>4, <1>5

(* A step of the queue, or a ledger that breaks. *)
LEMMA StQueueInv ==
    ASSUME StInv, \/ Minutes \/ LedgerBreaks
                  \/ \E i \in Items, next \in {"blocked", "pending", "done", "archived"} :
                        QueueMoves(i, next)
    PROVE  StInv'
  <1> USE DEF StInv, LedgerTrue, StTypeOK, ToldOnce, RecordedWasTold, Remembered, Dropped,
              OnlyNew, Emitted
  <1>1. CASE Minutes
    <2>1. \A i \in Items : /\ items'[i] \in Item
                            /\ items'[i].status = items[i].status
      <3> SUFFICES ASSUME NEW i \in Items
                   PROVE  items'[i] \in Item /\ items'[i].status = items[i].status
        OBVIOUS
      <3>1. items[i] \in Item /\ items[i].age \in 0..Threshold
        BY DEF Item
      <3>2. CASE items'[i] = items[i]
        BY <3>1, <3>2
      <3>3. CASE items[i].age # Threshold /\ items'[i] = [items[i] EXCEPT !.age = @ + 1]
        <4>1. items[i].age + 1 \in 0..Threshold
          BY <3>1, <3>3, StaleAssumption
        <4> QED BY <3>1, <3>3, <4>1 DEF Item
      <3> QED BY <1>1, <3>2, <3>3 DEF Minutes
    <2>2. items' \in [Items -> Item]
      BY <1>1, <2>1 DEF Minutes
    <2>3. told \subseteq Items
      OBVIOUS
    <2> QED BY <1>1, <2>1, <2>2, <2>3 DEF Minutes
  <1>2. CASE LedgerBreaks
    BY <1>2 DEF LedgerBreaks
  <1>3. ASSUME NEW i \in Items, NEW next \in {"blocked", "pending", "done", "archived"},
               QueueMoves(i, next)
        PROVE  StInv'
    BY <1>3 DEF QueueMoves, Follow, Item
  <1> QED BY <1>1, <1>2, <1>3

(* An item is told a second time only if its record failed or was lost, and *)
(* what is on the ledger was told, for any number of items, any threshold   *)
(* and ticks that die at any step.                                          *)
THEOREM LedgerTrueEach == StSpec => []LedgerTrue
  <1>1. StInv /\ [StNext]_stVars => StInv'
    <2> SUFFICES ASSUME StInv, [StNext]_stVars PROVE StInv'
      OBVIOUS
    <2>1. CASE UNCHANGED stVars
      BY <2>1 DEF stVars, StInv, LedgerTrue, StTypeOK, ToldOnce, RecordedWasTold, Remembered,
                  Dropped, OnlyNew, Emitted
    <2> QED BY <2>1, StTickInv, StQueueInv DEF StNext
  <1>2. StInv => LedgerTrue
    BY DEF StInv
  <1> QED BY StInitInv, <1>1, <1>2, PTL DEF StSpec

-----------------------------------------------------------------------------
(* Babysit.  What has aged and what is left of an interval add up: the age *)
(* of the item and the time to the next pat; its age and how far the waiter *)
(* is from the next beat; the silence of the log and the time to the probe. *)
PatInTime == held.sidecar /\ Up => held.age + held.pat <= PatEvery
BeatInTime ==
    waiter.at # "off" =>
        /\ held.age + waiter.next <= waiter.elapsed + BeatEvery
        /\ held.age + waiter.nap <= BeatEvery + PollEvery
        /\ waiter.elapsed + waiter.nap <= MaxBlock + PollEvery
        /\ waiter.at = "naps" => waiter.nap > 0
        /\ waiter.at # "naps" => waiter.nap = 0
TouchEarned ==
    /\ ~Up => ~SeemsBusy
    /\ Up /\ output.grew => output.quiet + touched.probe <= ProbeEvery
    /\ Up /\ ~output.grew =>
          ~SeemsBusy \/ output.quiet <= ProbeEvery + touched.age
BbInv == HeartbeatsTrue /\ PatInTime /\ BeatInTime /\ TouchEarned

LEMMA Intervals ==
    /\ PatEvery \in Nat /\ ProbeEvery \in Nat /\ MaxAge \in Nat
    /\ BeatEvery \in Nat /\ MaxBlock \in Nat /\ PollEvery \in Nat
    /\ PatEvery > 0 /\ ProbeEvery > 0 /\ MaxAge > 0
    /\ BeatEvery > 0 /\ MaxBlock > 0 /\ PollEvery > 0
  BY BabysitAssumption

LEMMA BbInitInv == BbInit => BbInv
  BY Intervals
     DEF BbInit, BbInv, HeartbeatsTrue, BbTypeOK, ItemKeptAlive, HungIsSeen, SeemsBusy, PatInTime,
         BeatInTime, TouchEarned, Up, NoWait, NoVerdict, NoMarker, MostItem, MostQuiet

(* What the run and its wrapper do. *)
LEMMA BbRunInv ==
    ASSUME BbInv,
           \/ \E rc \in {0, 1} : PayloadEnds(rc)
           \/ \E sidecar \in BOOLEAN : RunsAgain(sidecar)
           \/ PaneGoes \/ PrintsVerdict
    PROVE  BbInv'
  <1> USE Intervals
          DEF BbInv, HeartbeatsTrue, BbTypeOK, ItemKeptAlive, HungIsSeen, SeemsBusy, PatInTime,
              BeatInTime, TouchEarned, Up, NoMarker, MostItem, MostQuiet
  <1>1. ASSUME NEW rc \in {0, 1}, PayloadEnds(rc) PROVE BbInv'
    BY <1>1 DEF PayloadEnds
  <1>2. ASSUME NEW sidecar \in BOOLEAN, RunsAgain(sidecar) PROVE BbInv'
    BY <1>2 DEF RunsAgain
  <1>3. CASE PaneGoes
    <2>1. run' \in [number : {1, 2}, at : {"up", "wrote", "gone"}, rc : {0, 1}] /\ run'.at = "gone"
      BY <1>3 DEF PaneGoes
    <2>2. /\ touched' \in [age : 0..(MaxAge + 1), probe : 1..ProbeEvery]
          /\ touched'.age = MaxAge + 1
      BY <1>3 DEF PaneGoes
    <2>3. UNCHANGED <<marker, held, output, waiter>>
      BY <1>3 DEF PaneGoes
    <2> QED BY <2>1, <2>2, <2>3
  <1>4. CASE PrintsVerdict
    BY <1>4 DEF PrintsVerdict
  <1> QED BY <1>1, <1>2, <1>3, <1>4

(* What the waiter does between two naps. *)
LEMMA BbWaitInv ==
    ASSUME BbInv, Babysits \/ ReadsMarker \/ LooksAtPane \/ ReadMarker
    PROVE  BbInv'
  <1> USE Intervals
          DEF BbInv, HeartbeatsTrue, BbTypeOK, ItemKeptAlive, HungIsSeen, SeemsBusy, PatInTime,
              BeatInTime, TouchEarned, Up, NoMarker, MostItem, MostQuiet, NoWait
  <1>1. CASE Babysits
    BY <1>1 DEF Babysits, FirstBeat
  <1>2. CASE ReadsMarker
    BY <1>2 DEF ReadsMarker, Returns
  <1>3. CASE LooksAtPane
    <2>1. UNCHANGED <<run, marker, output, touched>>
      BY <1>3 DEF LooksAtPane
    <2>2. CASE waiter' = NoWait /\ held' = held
      BY <2>1, <2>2
    <2>3. CASE /\ waiter.elapsed < MaxBlock /\ BeatsDue
               /\ held' = [held EXCEPT !.age = 0]
               /\ waiter' = [waiter EXCEPT !.at = "naps", !.nap = PollEvery, !.next = @ + BeatEvery]
      <3>1. waiter' = [at |-> "naps", of |-> waiter.of, elapsed |-> waiter.elapsed,
                       next |-> waiter.next + BeatEvery, nap |-> PollEvery]
        BY <2>3
      <3>2. /\ waiter.next + BeatEvery \in 0..(MaxBlock + BeatEvery + PollEvery)
            /\ PollEvery \in 0..PollEvery
        BY <2>3 DEF BeatsDue
      <3>3. waiter' \in [at : {"off", "marker", "pane", "naps"}, of : {1, 2},
                         elapsed : 0..(MaxBlock + PollEvery),
                         next : 0..(MaxBlock + BeatEvery + PollEvery), nap : 0..PollEvery]
        BY <3>1, <3>2
      <3>4. held' = [age |-> 0, sidecar |-> held.sidecar, pat |-> held.pat] /\ 0 \in 0..MostItem
        BY <2>3
      <3>5. held' \in [age : 0..MostItem, sidecar : BOOLEAN, pat : 1..PatEvery]
        BY <3>4
      <3>6. ItemKeptAlive' /\ PatInTime' /\ BeatInTime'
        BY <2>1, <2>3, <3>1, <3>4 DEF BeatsDue
      <3> QED BY <2>1, <3>3, <3>5, <3>6
    <2>4. CASE /\ waiter.elapsed < MaxBlock /\ ~BeatsDue /\ held' = held
               /\ waiter.at = "pane"
               /\ waiter' = [waiter EXCEPT !.at = "naps", !.nap = PollEvery, !.next = @]
      <3>1. waiter' = [at |-> "naps", of |-> waiter.of, elapsed |-> waiter.elapsed,
                       next |-> waiter.next, nap |-> PollEvery]
        BY <2>4
      <3>2. PollEvery \in 0..PollEvery
        OBVIOUS
      <3>3. waiter' \in [at : {"off", "marker", "pane", "naps"}, of : {1, 2},
                         elapsed : 0..(MaxBlock + PollEvery),
                         next : 0..(MaxBlock + BeatEvery + PollEvery), nap : 0..PollEvery]
        BY <3>1, <3>2
      <3>4. ItemKeptAlive' /\ BeatInTime'
        BY <2>1, <2>4, <3>1 DEF BeatsDue
      <3> QED BY <2>1, <2>4, <3>3, <3>4
    <2>5. waiter.at = "pane" /\ (~(waiter.elapsed >= MaxBlock) => waiter.elapsed < MaxBlock)
      BY <1>3 DEF LooksAtPane
    <2> HIDE DEF BbInv
    <2> QED BY <1>3, <2>2, <2>3, <2>4, <2>5 DEF LooksAtPane, Returns
  <1>4. CASE ReadMarker
    BY <1>4 DEF ReadMarker
  <1> QED BY <1>1, <1>2, <1>3, <1>4

(* A second passes: every age grows by one, unless a pat, a beat or a touch *)
(* is due, and every rest shrinks by one.                                   *)
LEMMA BbSecondInv == ASSUME BbInv, Second PROVE BbInv'
  <1> USE Intervals
          DEF BbInv, HeartbeatsTrue, BbTypeOK, ItemKeptAlive, HungIsSeen, SeemsBusy, PatInTime,
              BeatInTime, TouchEarned, Up, NoMarker, MostItem, MostQuiet
  <1>0. UNCHANGED <<run, marker, verdict>>
    BY DEF Second
  <1>1. /\ held' \in [age : 0..MostItem, sidecar : BOOLEAN, pat : 1..PatEvery]
        /\ PatInTime' /\ held'.age <= held.age + 1
    <2>1. CASE held.sidecar /\ Up /\ held.pat = 1
      <3>1. held' = [age |-> 0, sidecar |-> held.sidecar, pat |-> PatEvery]
        BY <2>1 DEF Second
      <3>2. 0 \in 0..MostItem /\ PatEvery \in 1..PatEvery
        OBVIOUS
      <3>3. held' \in [age : 0..MostItem, sidecar : BOOLEAN, pat : 1..PatEvery]
        BY <3>1, <3>2
      <3> QED BY <3>1, <3>3
    <2>2. CASE ~(held.sidecar /\ Up /\ held.pat = 1)
      <3>1. held' = [age |-> Smaller(held.age + 1, MostItem), sidecar |-> held.sidecar,
                     pat |-> IF Up /\ held.pat > 1 THEN held.pat - 1 ELSE held.pat]
        BY <2>2 DEF Second
      <3>2. /\ held'.age \in 0..MostItem /\ held'.age <= held.age + 1
            /\ held'.pat \in 1..PatEvery
        BY <3>1 DEF Smaller
      <3>3. held' \in [age : 0..MostItem, sidecar : BOOLEAN, pat : 1..PatEvery]
        BY <3>1, <3>2
      <3>4. PatInTime'
        BY <1>0, <2>2, <3>1, <3>2
      <3> QED BY <3>2, <3>3, <3>4
    <2> QED BY <2>1, <2>2
  <1>2. /\ output' \in [quiet : 0..MostQuiet, grew : BOOLEAN]
        /\ touched' \in [age : 0..(MaxAge + 1), probe : 1..ProbeEvery]
        /\ TouchEarned'
    <2>1. CASE Up /\ touched.probe = 1 /\ output.grew
      BY <1>0, <2>1 DEF Second, Smaller, Probed
    <2>2. CASE Up /\ touched.probe = 1 /\ ~output.grew
      BY <1>0, <2>2 DEF Second, Smaller, Probed
    <2>3. CASE ~(Up /\ touched.probe = 1)
      <3>1. /\ touched' = [age |-> Smaller(touched.age + 1, MaxAge + 1),
                           probe |-> IF Up THEN touched.probe - 1 ELSE touched.probe]
            /\ output' = [quiet |-> Smaller(output.quiet + 1, MostQuiet), grew |-> output.grew]
        BY <2>3 DEF Second
      <3>2. /\ touched'.age \in 0..(MaxAge + 1) /\ touched'.probe \in 1..ProbeEvery
            /\ output'.quiet \in 0..MostQuiet
        BY <2>3, <3>1 DEF Smaller
      <3>3. /\ output' \in [quiet : 0..MostQuiet, grew : BOOLEAN]
            /\ touched' \in [age : 0..(MaxAge + 1), probe : 1..ProbeEvery]
        BY <3>1, <3>2
      <3>4. TouchEarned'
        BY <1>0, <2>3, <3>1 DEF Smaller
      <3> QED BY <3>3, <3>4
    <2> QED BY <2>1, <2>2, <2>3
  <1>3. /\ waiter' \in [at : {"off", "marker", "pane", "naps"}, of : {1, 2},
                   elapsed : 0..(MaxBlock + PollEvery), next : 0..(MaxBlock + BeatEvery + PollEvery),
                   nap : 0..PollEvery]
        /\ BeatInTime'
    <2>1. CASE waiter.at = "off"
      BY <2>1 DEF Second
    <2>2. CASE waiter.at = "naps"
      <3>1. waiter' = [at |-> IF waiter.nap = 1 THEN "marker" ELSE "naps", of |-> waiter.of,
                       elapsed |-> waiter.elapsed + 1, next |-> waiter.next, nap |-> waiter.nap - 1]
        BY <2>2 DEF Second
      <3>2. /\ waiter'.elapsed \in 0..(MaxBlock + PollEvery) /\ waiter'.nap \in 0..PollEvery
            /\ waiter'.at \in {"off", "marker", "pane", "naps"}
        BY <2>2, <3>1
      <3>3. waiter' \in [at : {"off", "marker", "pane", "naps"}, of : {1, 2},
                         elapsed : 0..(MaxBlock + PollEvery),
                         next : 0..(MaxBlock + BeatEvery + PollEvery), nap : 0..PollEvery]
        BY <3>1, <3>2
      <3>4. BeatInTime'
        BY <1>1, <2>2, <3>1
      <3> QED BY <3>3, <3>4
    <2> QED BY <2>1, <2>2 DEF Second
  <1> QED BY <1>0, <1>1, <1>2, <1>3

(* While its wrapper lives, or somebody waits for it, the heartbeat of a    *)
(* run's item is never older than the interval allows, and a run that no    *)
(* longer prints seems stuck in time: for all intervals.                    *)
THEOREM HeartbeatsTrueEach == BbSpec => []HeartbeatsTrue
  <1>1. BbInv /\ [BbNext]_bbVars => BbInv'
    <2> SUFFICES ASSUME BbInv, [BbNext]_bbVars PROVE BbInv'
      OBVIOUS
    <2>1. CASE UNCHANGED bbVars
      BY <2>1 DEF bbVars, BbInv, HeartbeatsTrue, BbTypeOK, ItemKeptAlive, HungIsSeen, SeemsBusy,
                  PatInTime, BeatInTime, TouchEarned, Up
    <2> QED BY <2>1, BbRunInv, BbWaitInv, BbSecondInv DEF BbNext
  <1>2. BbInv => HeartbeatsTrue
    BY DEF BbInv
  <1> QED BY BbInitInv, <1>1, <1>2, PTL DEF BbSpec

-----------------------------------------------------------------------------
(* AgentKill.  Whoever is signalled has been alive, is answered for and is  *)
(* no watcher: those hang off the main process alone.  A spawn record is of *)
(* a session that has a transcript, and a second session adds none.         *)
Targets == kill.todo \cup kill.hit
TargetsKnown ==
    /\ kill.hit = kill.aimed
    /\ \A p \in Targets : procs[p] # Unborn /\ procs[p].kind # "watcher"
    /\ kill.at = "finishes" => kill.hit \cap Alive \subseteq kill.left
WatchersOfClaude ==
    \A p \in Procs : procs[p].kind = "watcher" => procs[p].parent = Claude
LogsTrue ==
    /\ session \in Sessions
    /\ logs \in [Subagents -> [Sessions -> [age : 0..NoFile, known : BOOLEAN]]]
    /\ \A a \in Subagents, s \in Sessions : logs[a][s].known => s \in SessionsOf(a)
ToldOf ==
    \A r \in said.survivors :
        /\ r.agent \in Subagents /\ SessionsOf(r.agent) # {}
        /\ (\E s \in Sessions : logs[r.agent][s].known) => r.known
AkInv == KillAccounted /\ TargetsKnown /\ WatchersOfClaude /\ LogsTrue /\ ToldOf

\* What dies is gone and its children are orphans; nothing else changes.
LEMMA Deaths ==
    ASSUME AkTypeOK, WatchersOfClaude, NEW dead \in SUBSET Procs, procs' = AfterDeath(dead)
    PROVE  /\ procs' \in [Procs -> [parent : Procs \cup {Claude, Reaper, "none", "gone"},
                                    kind : Kinds, obeys : BOOLEAN]]
           /\ \A p \in Procs : procs[p] # Unborn \/ p \in dead => procs'[p] # Unborn
           /\ \A p \in Procs : procs'[p].kind = "watcher" => procs[p].kind = "watcher"
           /\ Alive' = Alive \ dead
           /\ WatchersOfClaude'
  <1>1. /\ Gone \in [parent : Procs \cup {Claude, Reaper, "none", "gone"}, kind : Kinds,
                     obeys : BOOLEAN]
        /\ Gone # Unborn /\ Gone.kind = "tool"
    BY DEF Gone, Unborn, Proc, Kinds
  <1>2. ASSUME NEW p \in Procs
        PROVE  /\ procs'[p] = Gone
                    \/ (p \notin dead /\ procs'[p] = procs[p])
                    \/ /\ p \notin dead /\ procs[p].parent \in Procs
                       /\ procs'[p] = [procs[p] EXCEPT !.parent = Reaper]
               /\ p \in dead => procs'[p] = Gone
               /\ p \notin dead /\ procs'[p] = Gone => procs[p] = Gone
    <2>1. CASE p \in dead
      BY <2>1 DEF AfterDeath
    <2>2. CASE p \notin dead /\ procs[p].parent \in dead
      <3>1. procs'[p] = [procs[p] EXCEPT !.parent = Reaper]
        BY <2>2 DEF AfterDeath
      <3>2. procs'[p].parent = Reaper
        BY <3>1 DEF AkTypeOK
      <3>3. procs'[p] # Gone
        BY <3>2 DEF Gone, Proc, Reaper
      <3> QED BY <2>2, <3>1, <3>3
    <2>3. CASE p \notin dead /\ procs[p].parent \notin dead
      BY <2>3 DEF AfterDeath
    <2> QED BY <2>1, <2>2, <2>3
  <1>3. ASSUME NEW p \in Procs
        PROVE  /\ procs'[p] \in [parent : Procs \cup {Claude, Reaper, "none", "gone"},
                                 kind : Kinds, obeys : BOOLEAN]
               /\ procs'[p] = Unborn <=> (procs[p] = Unborn /\ p \notin dead)
               /\ procs[p] = Gone => procs'[p] = Gone
               /\ procs'[p].kind = "watcher" => procs[p].kind = "watcher"
               /\ procs'[p].kind = "watcher" => procs'[p].parent = Claude
    <2>1. procs[p] \in [parent : Procs \cup {Claude, Reaper, "none", "gone"},
                        kind : Kinds, obeys : BOOLEAN]
      BY DEF AkTypeOK
    <2>2. CASE procs'[p] = Gone
      BY <1>1, <1>2, <2>2
    <2>3. CASE p \notin dead /\ procs'[p] = procs[p]
      BY <2>1, <2>3 DEF WatchersOfClaude
    <2>4. CASE /\ p \notin dead /\ procs[p].parent \in Procs
               /\ procs'[p] = [procs[p] EXCEPT !.parent = Reaper]
      <3>1. procs[p] # Unborn /\ procs[p] # Gone /\ procs[p].kind # "watcher"
        BY <2>4, AgentAssumption DEF Unborn, Gone, Proc, WatchersOfClaude, Claude
      <3>2. procs'[p].parent = Reaper /\ procs'[p].kind = procs[p].kind
        BY <2>1, <2>4
      <3>3. procs'[p] # Unborn
        BY <3>2 DEF Unborn, Proc, Reaper
      <3>4. procs'[p] \in [parent : Procs \cup {Claude, Reaper, "none", "gone"},
                           kind : Kinds, obeys : BOOLEAN]
        BY <2>1, <2>4
      <3> QED BY <3>1, <3>2, <3>3, <3>4
    <2> QED BY <1>2, <2>2, <2>3, <2>4
  <1>4. Alive' = Alive \ dead
    BY <1>2, <1>3 DEF Alive
  <1>5. procs' = [p \in Procs |-> procs'[p]]
    BY DEF AfterDeath
  <1> QED BY <1>3, <1>4, <1>5 DEF WatchersOfClaude

LEMMA AkInitInv == AkInit => AkInv
  <1> SUFFICES ASSUME AkInit PROVE AkInv
    OBVIOUS
  <1>1. /\ procs = [p \in Procs |-> [parent |-> "none", kind |-> "tool", obeys |-> TRUE]]
        /\ kill = [at |-> "off", todo |-> {}, hit |-> {}, aimed |-> {}, left |-> {}]
        /\ said.survivors = {}
    BY DEF AkInit, Unborn, Proc, Off, Silent
  <1>2. AkTypeOK
    BY <1>1 DEF AkTypeOK, Kinds
  <1>3. LogsTrue
    <2>1. /\ Window + 1 \in 0..(Window + 1) /\ session \in Sessions
          /\ logs = [a \in Subagents |-> [s \in Sessions |-> [age |-> Window + 1, known |-> FALSE]]]
      BY AgentAssumption DEF AkInit, NoFile, Sessions
    <2>2. logs \in [Subagents -> [Sessions -> [age : 0..(Window + 1), known : BOOLEAN]]]
      BY <2>1
    <2> QED BY <2>1, <2>2 DEF LogsTrue, NoFile
  <1> QED BY <1>1, <1>2, <1>3
       DEF AkInv, KillAccounted, SignalledAreDead, WatchersSpared, SurvivorsTold, TargetsKnown,
           Targets, WatchersOfClaude, ToldOf

\* The agents told of: those with a transcript, with what any of their records says.
LEMMA ShownTrue ==
    ASSUME LogsTrue, NEW r \in Shown
    PROVE  /\ r.agent \in Subagents /\ SessionsOf(r.agent) # {}
           /\ (\E s \in Sessions : logs[r.agent][s].known) => r.known
  <1>1. PICK a \in LiveAgents : r = [agent |-> a, known |-> Merged(a).known]
    BY DEF Shown
  <1>2. r.agent = a /\ r.known = (\E s \in SessionsOf(a) : logs[a][s].known)
    BY <1>1 DEF Merged
  <1> QED BY <1>2 DEF LiveAgents, LogsTrue

(* The steps of the command. *)
LEMMA AkKillInv ==
    ASSUME AkInv,
           \/ \E trees \in SUBSET Procs : StartsKill(trees)
           \/ StartsKillAll \/ LooksAgain \/ Finishes \/ RunEnds
           \/ \E p \in Procs : Signals(p)
    PROVE  AkInv'
  <1> USE DEF AkInv, KillAccounted, SignalledAreDead, WatchersSpared, SurvivorsTold, TargetsKnown,
              Targets, ToldOf
  <1>1. ASSUME NEW trees \in SUBSET Procs, StartsKill(trees) PROVE AkInv'
    <2>1. /\ kill' = [at |-> "signals", todo |-> trees, hit |-> {}, aimed |-> {}, left |-> {}]
          /\ trees \subseteq AgentChildren /\ said'.survivors = {} /\ UNCHANGED <<procs, logs, session>>
      BY <1>1 DEF StartsKill, Matched, Off, Silent
    <2>2. \A p \in trees : procs[p] # Unborn /\ procs[p].kind # "watcher"
      BY <2>1 DEF AgentChildren, ChildrenOf, Alive
    <2>3. AkTypeOK' /\ TargetsKnown' /\ WatchersOfClaude'
      BY <2>1, <2>2 DEF AkTypeOK, WatchersOfClaude
    <2> QED BY <2>1, <2>3 DEF LogsTrue, SessionsOf
  <1>2. CASE StartsKillAll
    <2> DEFINE found == AgentChildren \cup Orphaned
    <2>1. CASE /\ said'.survivors = Shown /\ UNCHANGED <<procs, kill, logs, session>>
      <3>1. ToldOf'
        BY <2>1, ShownTrue DEF SessionsOf
      <3>2. LogsTrue' /\ AkTypeOK' /\ WatchersOfClaude'
        BY <2>1 DEF LogsTrue, SessionsOf, AkTypeOK, WatchersOfClaude
      <3> QED BY <1>2, <2>1, <3>1, <3>2 DEF StartsKillAll, Alive
    <2>2. CASE /\ kill' = [at |-> "signals", todo |-> found, hit |-> {}, aimed |-> {}, left |-> {}]
               /\ said'.survivors = {} /\ UNCHANGED <<procs, logs, session>>
      <3>1. \A p \in found : p \in Procs /\ procs[p] # Unborn /\ procs[p].kind # "watcher"
        BY DEF AgentChildren, Orphaned, ChildrenOf, Alive
      <3> HIDE DEF found
      <3>2. AkTypeOK' /\ TargetsKnown' /\ WatchersOfClaude'
        BY <2>2, <3>1 DEF AkTypeOK, WatchersOfClaude
      <3> QED BY <2>2, <3>2 DEF LogsTrue, SessionsOf
    <2>3. UNCHANGED <<procs, logs, session>>
      BY <1>2 DEF StartsKillAll
    <2>4. \/ said' = [Silent EXCEPT !.survivors = Shown] /\ UNCHANGED kill
          \/ kill' = [Off EXCEPT !.at = "signals", !.todo = found] /\ said' = Silent
      BY <1>2 DEF StartsKillAll
    <2> HIDE DEF found
    <2>5. ASSUME kill' = [Off EXCEPT !.at = "signals", !.todo = found]
          PROVE  kill' = [at |-> "signals", todo |-> found, hit |-> {}, aimed |-> {}, left |-> {}]
      BY <2>5 DEF Off
    <2>6. [Silent EXCEPT !.survivors = Shown].survivors = Shown /\ Silent.survivors = {}
      BY DEF Silent
    <2> QED BY <2>1, <2>2, <2>3, <2>4, <2>5, <2>6
  <1>3. CASE LooksAgain
    <2>1. /\ kill' = [kill EXCEPT !.at = "finishes", !.left = kill.aimed \cap Alive]
          /\ UNCHANGED <<procs, logs, session, said>> /\ Alive \subseteq Procs
      BY <1>3 DEF LooksAgain, Alive
    <2>2. /\ kill'.at = "finishes" /\ kill'.left = kill.aimed \cap Alive
          /\ kill'.todo = kill.todo /\ kill'.hit = kill.hit /\ kill'.aimed = kill.aimed
      BY <2>1 DEF AkTypeOK
    <2>3. AkTypeOK'
      BY <2>1 DEF AkTypeOK
    <2>4. TargetsKnown' /\ WatchersOfClaude'
      BY <2>1, <2>2 DEF WatchersOfClaude, Alive
    <2> QED BY <2>1, <2>2, <2>3, <2>4 DEF Alive, LogsTrue, SessionsOf
  <1>4. CASE Finishes
    <2>1. kill.left \cap Alive \in SUBSET Procs
      BY DEF Alive
    <2>2. /\ procs' = AfterDeath(kill.left \cap Alive) /\ kill' = [kill EXCEPT !.at = "done"]
          /\ said'.survivors = Shown /\ UNCHANGED <<logs, session>>
      BY <1>4 DEF Finishes
    <2>3. AkTypeOK' /\ WatchersOfClaude'
      BY <2>1, <2>2, Deaths DEF AkTypeOK
    <2>4. SignalledAreDead' /\ WatchersSpared' /\ TargetsKnown'
      BY <1>4, <2>1, <2>2, Deaths DEF AkTypeOK, Finishes
    <2>5. LogsTrue'
      BY <2>2 DEF LogsTrue, SessionsOf
    <2>6. ToldOf' /\ SurvivorsTold'
      BY <2>2, ShownTrue DEF SessionsOf
    <2> QED BY <2>3, <2>4, <2>5, <2>6
  <1>5. CASE RunEnds
    BY <1>5 DEF RunEnds, Off, Alive, AkTypeOK, LogsTrue, WatchersOfClaude, SessionsOf
  <1>6. ASSUME NEW p \in Procs, Signals(p) PROVE AkInv'
    <2> DEFINE dead == {q \in {p} \cup Descendants(p) : q \in Alive /\ procs[q].obeys}
    <2>1. /\ Descendants(p) \subseteq Alive /\ Alive \subseteq Procs
          /\ \A q \in Descendants(p) : procs[q].parent \in Procs
      BY DEF Descendants, ChildrenOf, Alive
    <2>2. /\ procs' = AfterDeath(dead) /\ dead \in SUBSET Procs
          /\ UNCHANGED <<logs, session, said>> /\ p \in kill.todo
          /\ kill' = [kill EXCEPT !.todo = @ \ {p}, !.aimed = @ \cup Tree(p),
                                  !.hit = @ \cup {p} \cup Descendants(p)]
          /\ kill.at = "signals"
      BY <1>6, <2>1 DEF Signals
    <2>3. \A q \in Descendants(p) : procs[q] # Unborn /\ procs[q].kind # "watcher"
      BY <2>1, AgentAssumption DEF Alive, WatchersOfClaude, Claude
    <2>4. AkTypeOK' /\ WatchersOfClaude'
      BY <2>1, <2>2, Deaths DEF AkTypeOK, Tree
    <2>5. /\ kill'.todo \subseteq kill.todo /\ kill'.hit = kill.hit \cup {p} \cup Descendants(p)
          /\ kill'.hit = kill'.aimed /\ kill'.at = "signals"
      BY <2>2 DEF AkTypeOK, Tree
    <2>6. \A q \in Targets' : procs[q] # Unborn /\ procs[q].kind # "watcher" /\ q \in Procs
      BY <2>1, <2>2, <2>3, <2>5 DEF AkTypeOK
    <2>7. TargetsKnown' /\ SignalledAreDead' /\ WatchersSpared'
      <3> HIDE DEF dead
      <3> QED BY <2>2, <2>5, <2>6, Deaths
    <2>8. LogsTrue' /\ ToldOf' /\ SurvivorsTold'
      BY <2>2, <2>5 DEF LogsTrue, SessionsOf
    <2> QED BY <2>4, <2>7, <2>8
  <1> QED BY <1>1, <1>2, <1>3, <1>4, <1>5, <1>6

(* The processes and the agents go on meanwhile. *)
LEMMA AkWorldInv ==
    ASSUME AkInv,
           \/ ContextReset \/ TimePasses
           \/ \E p \in Procs : ProcessExits(p)
           \/ \E p \in Procs, parent \in Procs \cup {Claude}, kind \in Kinds, obeys \in BOOLEAN :
                 Spawns(p, parent, kind, obeys)
           \/ \E a \in Subagents : AgentWrites(a)
           \/ UNCHANGED akVars
    PROVE  AkInv'
  <1> USE DEF AkInv, KillAccounted, SignalledAreDead, WatchersSpared, SurvivorsTold, TargetsKnown,
              Targets, ToldOf
  <1>1. CASE ContextReset
    BY <1>1 DEF ContextReset, Alive, AkTypeOK, LogsTrue, WatchersOfClaude, SessionsOf, Sessions
  <1>2. CASE TimePasses
    <2>1. UNCHANGED <<procs, kill, session, said>>
      BY <1>2 DEF TimePasses
    <2>2. \A a \in Subagents, s \in Sessions :
             /\ logs'[a][s] \in [age : 0..NoFile, known : BOOLEAN]
             /\ logs'[a][s].known = logs[a][s].known
             /\ logs'[a][s].age = NoFile <=> logs[a][s].age = NoFile
      BY <1>2, AgentAssumption DEF TimePasses, LogsTrue, NoFile
    <2>3. \A a \in Subagents : SessionsOf(a)' = SessionsOf(a)
      BY <2>2 DEF SessionsOf, NoFile
    <2>4. logs' = [a \in Subagents |-> [s \in Sessions |-> logs'[a][s]]]
      BY <1>2 DEF TimePasses
    <2>5. LogsTrue'
      BY <2>1, <2>2, <2>3, <2>4 DEF LogsTrue, NoFile
    <2> QED BY <2>1, <2>2, <2>3, <2>5 DEF Alive, AkTypeOK, WatchersOfClaude
  <1>3. ASSUME NEW p \in Procs, ProcessExits(p) PROVE AkInv'
    <2>1. {p} \in SUBSET Procs /\ procs' = AfterDeath({p}) /\ UNCHANGED <<logs, session, kill, said>>
      BY <1>3 DEF ProcessExits
    <2>2. AkTypeOK' /\ WatchersOfClaude'
      BY <2>1, Deaths DEF AkTypeOK
    <2>3. \A q \in Targets : q \in Procs
      BY DEF AkTypeOK
    <2>4. TargetsKnown' /\ SignalledAreDead' /\ WatchersSpared'
      BY <2>1, <2>3, Deaths
    <2>5. LogsTrue' /\ ToldOf' /\ SurvivorsTold'
      BY <2>1 DEF LogsTrue, SessionsOf
    <2> QED BY <2>2, <2>4, <2>5
  <1>4. ASSUME NEW p \in Procs, NEW parent \in Procs \cup {Claude}, NEW kind \in Kinds,
               NEW obeys \in BOOLEAN, Spawns(p, parent, kind, obeys)
        PROVE  AkInv'
    <2>1. /\ procs[p] = Unborn /\ procs' = [procs EXCEPT ![p] = Proc(parent, kind, obeys)]
          /\ UNCHANGED <<logs, session, kill, said>> /\ (kind # "tool" => parent = Claude)
      BY <1>4 DEF Spawns
    <2>2. AkTypeOK'
      BY <2>1 DEF AkTypeOK, Proc
    <2>3. p \notin Targets
      BY <2>1
    <2>4. \A q \in Targets : q \in Procs /\ procs'[q] = procs[q]
      BY <2>1, <2>3 DEF AkTypeOK
    <2>5. TargetsKnown' /\ SignalledAreDead' /\ WatchersSpared'
      BY <2>1, <2>4 DEF Alive
    <2>6. WatchersOfClaude'
      BY <2>1 DEF WatchersOfClaude, Proc, AkTypeOK
    <2> QED BY <2>1, <2>2, <2>5, <2>6 DEF LogsTrue, SessionsOf
  <1>5. ASSUME NEW a \in Subagents, AgentWrites(a) PROVE AkInv'
    <2>1. UNCHANGED <<procs, session, kill, said>>
      BY <1>5 DEF AgentWrites
    <2>2. /\ logs' = [logs EXCEPT ![a][session] = [age |-> 0, known |-> @.known \/ SessionsOf(a) = {}]]
          /\ session \in Sessions
      BY <1>5 DEF AgentWrites, LogsTrue
    <2>3. /\ logs' \in [Subagents -> [Sessions -> [age : 0..NoFile, known : BOOLEAN]]]
          /\ \A b \in Subagents, s \in Sessions :
                 \/ logs'[b][s] = logs[b][s]
                 \/ /\ b = a /\ s = session /\ logs'[b][s].age = 0
                    /\ logs'[b][s].known => logs[b][s].known \/ SessionsOf(b) = {}
      BY <2>2, AgentAssumption DEF LogsTrue, NoFile
    <2>4. \A b \in Subagents : SessionsOf(b) \subseteq SessionsOf(b)'
      <3> SUFFICES ASSUME NEW b \in Subagents, NEW s \in SessionsOf(b) PROVE s \in SessionsOf(b)'
        OBVIOUS
      <3>1. s \in Sessions /\ logs[b][s].age # NoFile
        BY DEF SessionsOf
      <3>2. logs'[b][s].age # NoFile
        BY <2>3, <3>1, AgentAssumption DEF NoFile
      <3> QED BY <3>1, <3>2 DEF SessionsOf, NoFile
    <2>5. \A s \in Sessions : s = session => s \in SessionsOf(a)'
      BY <2>2, AgentAssumption DEF SessionsOf, NoFile, LogsTrue
    <2>6. LogsTrue'
      BY <2>1, <2>3, <2>4, <2>5 DEF LogsTrue
    <2>7. ToldOf'
      <3> SUFFICES ASSUME NEW r \in said.survivors
                   PROVE  /\ r.agent \in Subagents /\ SessionsOf(r.agent)' # {}
                          /\ (\E s \in Sessions : logs'[r.agent][s].known) => r.known
        BY <2>1
      <3>1. r.agent \in Subagents /\ SessionsOf(r.agent) # {}
        OBVIOUS
      <3>2. SessionsOf(r.agent)' # {}
        BY <2>4, <3>1
      <3>3. \A s \in Sessions : logs'[r.agent][s].known => logs[r.agent][s].known
        BY <2>3, <3>1
      <3> QED BY <3>1, <3>2, <3>3
    <2> QED BY <2>1, <2>6, <2>7 DEF Alive, AkTypeOK, WatchersOfClaude
  <1>6. CASE UNCHANGED akVars
    BY <1>6 DEF akVars, Alive, AkTypeOK, LogsTrue, WatchersOfClaude, SessionsOf
  <1> QED BY <1>1, <1>2, <1>3, <1>4, <1>5, <1>6

(* A kill, of one agent or of all, leaves nothing alive of the trees that it *)
(* signalled, spares the watchers, and tells of the agents no signal reaches *)
(* with what their spawn records say: for any processes and agents, whatever *)
(* is started, exits or is written meanwhile.                                *)
THEOREM KillAccountedEach == AkSpec => []KillAccounted
  <1>1. AkInv /\ [AkNext]_akVars => AkInv'
    BY AkKillInv, AkWorldInv DEF AkNext
  <1>2. AkInv => KillAccounted
    BY DEF AkInv
  <1> QED BY AkInitInv, <1>1, <1>2, PTL DEF AkSpec

-----------------------------------------------------------------------------
(* The least number of a set of naturals. *)
LEMMA LeastNat ==
    ASSUME NEW S, S \subseteq Nat, S # {} PROVE \E x \in S : \A y \in S : x <= y
  <1> DEFINE R == OpToRel(<, Nat)
  <1>1. IsWellFoundedOn(R, Nat)
    BY NatLessThanWellFounded, Zenon
  <1>2. PICK x \in S : \A y \in S : ~(<<y, x>> \in R)
    <2> HIDE DEF R
    <2> QED BY <1>1, WFMin
  <1>3. \A y \in S : ~(y < x)
    BY <1>2 DEF OpToRel
  <1> QED BY <1>3

-----------------------------------------------------------------------------
(* TaskPanes.  As long as the daemon sees that the session is gone, a pane  *)
(* that it tracks and that is open shows the task it is tracked for; an id  *)
(* it tracks has been handed out by the tmux server that runs.              *)
TracksOwn == \A t \in Tasks : tracked[t] \in Open => owner[tracked[t]] = t
TracksDealt ==
    \A t \in Tasks : tracked[t] # NoPane => tracked[t] \in dealt \/ (loop = "look" /\ Open = {})
ForgottenWithoutSession == loop \in {"wait", "start"} => tracked = NoTracks
TpInv == PanesClosedRight /\ TracksOwn /\ TracksDealt /\ ForgottenWithoutSession

LEMMA LowestOf == ASSUME NEW S, S \subseteq Nat, S # {} PROVE Lowest(S) \in S
  BY LeastNat DEF Lowest

LEMMA OlderAge == ASSUME NEW cap \in Nat, NEW a \in Ages(cap) PROVE Older(a, cap) \in Ages(cap)
  BY DEF Older, Ages, None, Least

\* The session that is made anew has one pane, of nobody's.
LEMMA OneStranger ==
    /\ DOMAIN FreshSession \subseteq Panes
    /\ \A p \in DOMAIN FreshSession : FreshSession[p] = Stranger
  BY LowestOf, PaneAssumption DEF FreshSession

\* A new pane has an id that nothing of the daemon's refers to.
LEMMA SplitsKeeps ==
    ASSUME TpInv, NEW whose \in Tasks \cup {Workload, Stranger}, Splits(whose),
           loop # "look" \/ Open # {},
           loop \in {"wait", "start"} => whose \notin Tasks,
           UNCHANGED loop, ~Gaps
    PROVE  /\ Open' \subseteq dealt' /\ dealt' \subseteq Panes
           /\ \A p \in Open' : owner'[p] \in Tasks \cup {Workload, Stranger}
           /\ tracked' \in [Tasks -> Panes \cup {NoPane}]
           /\ TracksOwn' /\ TracksDealt' /\ ForgottenWithoutSession'
  <1> USE DEF TpInv, PanesClosedRight, TpTypeOK
  <1> DEFINE p == Lowest(Panes \ dealt)
  <1>1. p \in Panes /\ p \notin dealt
    <2>1. Panes \ dealt \subseteq Nat /\ Panes \ dealt # {}
      BY PaneAssumption DEF Splits
    <2> QED BY <2>1, LowestOf
  <1>2. /\ owner' = [q \in Open \cup {p} |-> IF q = p THEN whose ELSE owner[q]]
        /\ dealt' = dealt \cup {p}
        /\ tracked' = IF whose \in Tasks THEN [tracked EXCEPT ![whose] = p] ELSE tracked
    BY DEF Splits
  <1> HIDE DEF p
  <1>3. /\ Open' = Open \cup {p} /\ p \notin Open /\ p # NoPane
        /\ \A q \in Open' : owner'[q] = IF q = p THEN whose ELSE owner[q]
    BY <1>1, <1>2, PaneAssumption DEF Open, NoPane
  <1>4. \A t \in Tasks : tracked[t] # p
    BY <1>1, <1>3 DEF TracksDealt
  <1>5. \A t \in Tasks : tracked'[t] = IF t = whose THEN p ELSE tracked[t]
    BY <1>2
  <1>6. TracksOwn'
    BY <1>3, <1>4, <1>5 DEF TracksOwn
  <1>7. TracksDealt' /\ ForgottenWithoutSession'
    BY <1>1, <1>2, <1>3, <1>5 DEF TracksDealt, ForgottenWithoutSession
  <1> QED BY <1>1, <1>2, <1>3, <1>6, <1>7

LEMMA TpInitInv == TpInit => TpInv
  <1> SUFFICES ASSUME TpInit PROVE TpInv
    OBVIOUS
  <1>1. tracked = [t \in Tasks |-> NoPane] /\ removal = [t \in Tasks |-> None]
    BY DEF TpInit, NoTracks, NoRemovals
  <1>2. removal \in [Tasks -> Ages(DoneAfter)]
    BY <1>1, PaneAssumption DEF Ages, None
  <1>3. TpTypeOK
    BY <1>1, <1>2, OneStranger DEF TpInit, TpTypeOK, Open
  <1>4. TracksOwn
    BY <1>1, OneStranger, PaneAssumption DEF TpInit, TracksOwn, Open, NoPane
  <1> QED BY <1>1, <1>3, <1>4
       DEF TpInit, TpInv, PanesClosedRight, ClosesOwnPanes, WorkingAgentKept, TracksDealt,
           ForgottenWithoutSession, NoTracks

(* The daemon opens panes, sweeps, polls and removes. *)
LEMMA TpDaemonInv ==
    ASSUME TpInv, ~Gaps,
           \/ SyncStarts \/ SweepLists \/ Sweep(registry) \/ Sweep({})
           \/ \E t \in Tasks : AddPane(t)
           \/ Poll \/ RemovesDue \/ LooksForSession \/ SessionBack \/ DaemonRestarts
    PROVE  TpInv'
  <1> USE PaneAssumption
          DEF TpInv, PanesClosedRight, TpTypeOK, ClosesOwnPanes, WorkingAgentKept
  <1>1. CASE SyncStarts \/ SweepLists \/ SessionBack
    BY <1>1 DEF SyncStarts, SweepLists, SessionBack, Open, TracksOwn, TracksDealt,
                ForgottenWithoutSession
  <1>2. ASSUME NEW known, Sweep(known) PROVE TpInv'
    <2> DEFINE orphans == listed \ Spared(known)
    <2>1. /\ loop = "sweep" /\ loop' = "rest" /\ listed' = {}
          /\ owner' = [q \in Open \ orphans |-> owner[q]]
          /\ struck' \subseteq struck \cup {"workload"}
          /\ UNCHANGED <<active, dealt, tracked, removal, registry, todo>>
      BY <1>2 DEF Sweep, Closed
    <2> HIDE DEF orphans
    <2>2. Open' \subseteq Open /\ \A p \in Open' : owner'[p] = owner[p]
      BY <2>1 DEF Open
    <2>3. TracksOwn'
      BY <2>1, <2>2 DEF TracksOwn
    <2>4. TracksDealt' /\ ForgottenWithoutSession'
      BY <2>1, <2>2 DEF TracksDealt, ForgottenWithoutSession
    <2> QED BY <2>1, <2>2, <2>3, <2>4
  <1>3. ASSUME NEW t \in Tasks, AddPane(t) PROVE TpInv'
    <2>1. /\ loop \in {"sync", "open"} /\ todo' \subseteq Tasks
          /\ UNCHANGED <<active, removal, registry, loop, listed, struck>>
      BY <1>3 DEF AddPane
    <2>2. CASE UNCHANGED <<owner, dealt, tracked>>
      BY <2>1, <2>2 DEF Open, TracksOwn, TracksDealt, ForgottenWithoutSession
    <2>3. CASE Splits(t)
      <3>1. /\ Open' \subseteq dealt' /\ dealt' \subseteq Panes
            /\ \A p \in Open' : owner'[p] \in Tasks \cup {Workload, Stranger}
            /\ tracked' \in [Tasks -> Panes \cup {NoPane}]
            /\ TracksOwn' /\ TracksDealt' /\ ForgottenWithoutSession'
        BY <2>1, <2>3, SplitsKeeps
      <3> QED BY <2>1, <3>1
    <2> QED BY <1>3, <2>2, <2>3 DEF AddPane
  <1>4. CASE Poll
    <2>1. /\ loop' = "open" /\ todo' \subseteq active /\ tracked' = GcTracked
          /\ UNCHANGED <<active, owner, dealt, registry, listed, struck>>
      BY <1>4 DEF Poll
    <2>2. \A t \in Tasks : tracked'[t] = NoPane \/ tracked'[t] = tracked[t]
      BY <2>1 DEF GcTracked
    <2>3. tracked' \in [Tasks -> Panes \cup {NoPane}]
      BY <2>1 DEF GcTracked
    <2>4. removal' \in [Tasks -> Ages(DoneAfter)]
      <3>1. 0 \in Ages(DoneAfter) /\ None \in Ages(DoneAfter)
        BY DEF Ages, None
      <3> DEFINE kept == [t \in Tasks |-> IF tracked[t] = NoPane \/ GcTracked[t] # NoPane
                                          THEN Older(removal[t], DoneAfter) ELSE None]
      <3>2. kept \in [Tasks -> Ages(DoneAfter)]
        BY <3>1, OlderAge
      <3>3. removal' = [t \in Tasks |-> IF kept[t] = None /\ GcTracked[t] # NoPane /\ t \notin active
                                        THEN 0 ELSE kept[t]]
        BY <1>4 DEF Poll
      <3> HIDE DEF kept
      <3> QED BY <3>1, <3>2, <3>3
    <2>5. NoPane \notin Open
      BY DEF NoPane
    <2>6. TracksOwn' /\ TracksDealt' /\ ForgottenWithoutSession'
      BY <1>4, <2>1, <2>2, <2>5 DEF Poll, Open, TracksOwn, TracksDealt, ForgottenWithoutSession
    <2> QED BY <2>1, <2>3, <2>4, <2>6 DEF Open
  <1>5. CASE RemovesDue
    <2> DEFINE due == {t \in Tasks : Since(removal[t], DoneAfter)}
               ps == {tracked[t] : t \in due \ Revived}
    <2>1. /\ loop = "open" /\ loop' = "look"
          /\ removal' = [t \in Tasks |-> IF t \in due THEN None ELSE removal[t]]
          /\ tracked' = [t \in Tasks |-> IF t \in due \ Revived THEN NoPane ELSE tracked[t]]
          /\ owner' = [q \in Open \ ps |-> owner[q]]
          /\ UNCHANGED <<active, dealt, registry, todo, listed>>
      BY <1>5 DEF RemovesDue, Closed
    <2>2. struck' = struck
      <3>1. {"foreign" : t \in {u \in due \ Revived : tracked[u] \in Open /\ owner[tracked[u]] # u}} = {}
        BY DEF TracksOwn
      <3>2. {"working" : t \in (due \ Revived) \cap active \cap Agents} = {}
        BY DEF Revived
      <3> QED BY <1>5, <3>1, <3>2 DEF RemovesDue
    <2>3. NoPane \notin Open /\ None \in Ages(DoneAfter)
      BY DEF NoPane, Ages, None
    <2> HIDE DEF due, ps
    <2>4. Open' \subseteq Open /\ \A p \in Open' : owner'[p] = owner[p]
      BY <2>1 DEF Open
    <2>5. \A t \in Tasks : tracked'[t] = NoPane \/ tracked'[t] = tracked[t]
      BY <2>1
    <2>6. TracksOwn' /\ TracksDealt' /\ ForgottenWithoutSession'
      BY <2>1, <2>3, <2>4, <2>5 DEF TracksOwn, TracksDealt, ForgottenWithoutSession
    <2>7. tracked' \in [Tasks -> Panes \cup {NoPane}] /\ removal' \in [Tasks -> Ages(DoneAfter)]
      BY <2>1, <2>3
    <2> QED BY <2>1, <2>2, <2>4, <2>6, <2>7
  <1>6. CASE LooksForSession \/ DaemonRestarts
    <2>1. /\ NoTracks \in [Tasks -> Panes \cup {NoPane}] /\ NoRemovals \in [Tasks -> Ages(DoneAfter)]
          /\ \A t \in Tasks : NoTracks[t] = NoPane
      BY DEF NoTracks, NoRemovals, Ages, None
    <2>2. UNCHANGED <<active, owner, dealt, registry, struck>>
      BY <1>6 DEF LooksForSession, DaemonRestarts
    <2>3. CASE tracked' = NoTracks /\ removal' = NoRemovals
      <3>1. TracksOwn' /\ TracksDealt' /\ ForgottenWithoutSession'
        BY <2>1, <2>2, <2>3 DEF Open, NoPane, TracksOwn, TracksDealt, ForgottenWithoutSession
      <3> QED BY <1>6, <2>1, <2>2, <2>3, <3>1 DEF LooksForSession, DaemonRestarts, Open
    <2>4. CASE LooksForSession /\ Open # {} /\ loop' = "rest" /\ UNCHANGED <<tracked, removal>>
      BY <2>2, <2>4 DEF LooksForSession, Open, TracksOwn, TracksDealt, ForgottenWithoutSession
    <2> QED BY <1>6, <2>3, <2>4 DEF LooksForSession, DaemonRestarts, ForgottenTracks
  <1> QED BY <1>1, <1>2, <1>3, <1>4, <1>5, <1>6

(* Tasks, workloads, the user and tmux go on meanwhile. *)
LEMMA TpWorldInv ==
    ASSUME TpInv, ~Gaps,
           \/ \E t \in Tasks : TaskTurns(t)
           \/ \E whose \in {Workload, Stranger} : OtherOpens(whose)
           \/ \E p \in Panes : WorkloadRegisters(p) \/ PaneCloses(p)
           \/ Recreates \/ SessionLost
           \/ UNCHANGED tpVars
    PROVE  TpInv'
  <1> USE PaneAssumption
          DEF TpInv, PanesClosedRight, TpTypeOK, ClosesOwnPanes, WorkingAgentKept
  <1>1. ASSUME NEW t \in Tasks, TaskTurns(t) PROVE TpInv'
    BY <1>1 DEF TaskTurns, Open, TracksOwn, TracksDealt, ForgottenWithoutSession
  <1>2. ASSUME NEW whose \in {Workload, Stranger}, OtherOpens(whose) PROVE TpInv'
    <2>1. /\ Splits(whose) /\ Open # {}
          /\ UNCHANGED <<active, removal, registry, loop, todo, listed, struck>>
      BY <1>2 DEF OtherOpens
    <2>2. CASE loop \in {"wait", "start"} => whose \notin Tasks
      <3>1. /\ Open' \subseteq dealt' /\ dealt' \subseteq Panes
            /\ \A p \in Open' : owner'[p] \in Tasks \cup {Workload, Stranger}
            /\ tracked' \in [Tasks -> Panes \cup {NoPane}]
            /\ TracksOwn' /\ TracksDealt' /\ ForgottenWithoutSession'
        BY <2>1, <2>2, SplitsKeeps
      <3> QED BY <2>1, <3>1
    <2> QED BY <2>2 DEF Workload, Stranger
  <1>3. ASSUME NEW p \in Panes, WorkloadRegisters(p) PROVE TpInv'
    BY <1>3 DEF WorkloadRegisters, Open, TracksOwn, TracksDealt, ForgottenWithoutSession
  <1>4. ASSUME NEW p \in Panes, PaneCloses(p) PROVE TpInv'
    <2>1. /\ owner' = [q \in Open \ {p} |-> owner[q]] /\ registry' = registry \ {p}
          /\ UNCHANGED <<active, dealt, tracked, removal, loop, todo, listed, struck>>
          /\ p \in Open /\ Open # {p}
      BY <1>4 DEF PaneCloses, Closed
    <2>2. Open' \subseteq Open /\ \A q \in Open' : owner'[q] = owner[q]
      BY <2>1 DEF Open
    <2>3. TracksOwn' /\ TracksDealt' /\ ForgottenWithoutSession'
      BY <2>1, <2>2 DEF TracksOwn, TracksDealt, ForgottenWithoutSession
    <2> QED BY <2>1, <2>2, <2>3
  <1>5. CASE Recreates
    <2>1. /\ loop \in {"wait", "start"} /\ owner' = FreshSession /\ dealt' = Open' /\ registry' = {}
          /\ UNCHANGED <<active, tracked, removal, loop, todo, listed, struck>>
      BY <1>5 DEF Recreates
    <2>2. \A t \in Tasks : tracked[t] = NoPane
      BY <2>1 DEF ForgottenWithoutSession, NoTracks
    <2>3. Open' \subseteq Panes /\ \A p \in Open' : owner'[p] = Stranger
      BY <2>1, OneStranger DEF Open
    <2>4. TracksOwn' /\ TracksDealt' /\ ForgottenWithoutSession'
      BY <2>1, <2>2, <2>3 DEF TracksOwn, TracksDealt, ForgottenWithoutSession, NoPane
    <2> QED BY <2>1, <2>3, <2>4
  <1>6. CASE SessionLost
    <2>1. /\ Open' = {} /\ dealt' = {} /\ registry' = {} /\ loop = "look"
          /\ UNCHANGED <<active, tracked, removal, loop, todo, listed, struck>>
      BY <1>6 DEF SessionLost, Open
    <2> QED BY <2>1 DEF TracksOwn, TracksDealt, ForgottenWithoutSession
  <1>7. CASE UNCHANGED tpVars
    BY <1>7 DEF tpVars, Open, TracksOwn, TracksDealt, ForgottenWithoutSession
  <1> QED BY <1>1, <1>2, <1>3, <1>4, <1>5, <1>6, <1>7

(* As long as it sees that a session is gone, the daemon closes only panes   *)
(* that it opened, for tasks that are over, and never that of an agent that  *)
(* went on: for any tasks and panes, however often either side starts anew.  *)
THEOREM PanesClosedRightEach == ~Gaps => (TpSpec => []PanesClosedRight)
  <1> SUFFICES ASSUME ~Gaps PROVE TpSpec => []PanesClosedRight
    OBVIOUS
  <1>1. TpInv /\ [TpNext]_tpVars => TpInv'
    BY TpDaemonInv, TpWorldInv DEF TpNext
  <1>2. TpInv => PanesClosedRight
    BY DEF TpInv
  <1> QED BY TpInitInv, <1>1, <1>2, PTL DEF TpSpec

-----------------------------------------------------------------------------
(* Orphans.  A transcript that reads dead is the liveliest of all, so none  *)
(* is alive; what was sighted has been counted; a notice that stands is as  *)
(* old as the silence since, and past it one more run is missed at most.    *)
SnapshotTrue ==
    /\ snapshot.is = "dead" => CallMax \notin snapshot.lives
    /\ snapshot.is \in {"alive", "dead"} => \E a \in Bindings : transcript[a].age # None
SightingsCounted ==
    /\ heard.stale \in 0..2 /\ heard.quiet \in Nat
    /\ sighted => heard.stale >= 1
SilenceMeasured ==
    IF NoticeStands THEN heard.quiet < ledger.orphaned
    ELSE \/ heard.quiet < EscalateEvery
         \/ /\ heard.quiet = EscalateEvery /\ (sighted \/ item.ownerDead)
            /\ snapshot.is # "none" /\ \E a \in Bindings : transcript[a].age # None
OrInv == OrphansTold /\ SnapshotTrue /\ SightingsCounted /\ SilenceMeasured

LEMMA OrNumbers ==
    /\ QuietMax \in Nat /\ CallMax \in Nat /\ SoftCap \in Nat /\ BindGrace \in Nat
    /\ BeatStale \in Nat /\ HardGrace \in Nat /\ AbandonAfter \in Nat
    /\ EscalateEvery \in Nat /\ EscalateEvery > 0
    /\ QuietMax <= CallMax /\ CallMax < SoftCap /\ Bindings \subseteq Nat
  BY OrphanAssumption

\* Among the agents with a transcript there is a representative: of the alive ones if
\* there are any, the one that wrote last, the first of these.
LEMMA RepresentativeExists ==
    ASSUME transcript \in [Bindings -> [age : Ages(TranscriptCap), tool : BOOLEAN]],
           NEW b0 \in Bindings, transcript[b0].age # None
    PROVE  /\ Representative \in Bindings /\ transcript[Representative].age # None
           /\ \A b \in Bindings \ {Representative} :
                 IF b < Representative THEN Livelier(transcript[b], transcript[Representative])
                 ELSE ~Livelier(transcript[Representative], transcript[b])
  <1> USE OrNumbers
  <1> DEFINE Written == {a \in Bindings : transcript[a].age # None}
             Best == IF \E a \in Written : TranscriptAlive(transcript[a])
                     THEN {a \in Written : TranscriptAlive(transcript[a])} ELSE Written
             Freshest(n) == {a \in Best : transcript[a].age = n}
             SomeAge == {transcript[a].age : a \in Best}
  <1>1. /\ Best \subseteq Written /\ Best # {}
        /\ \A a \in Best, b \in Written : TranscriptAlive(transcript[b]) => TranscriptAlive(transcript[a])
        /\ \A a \in Best, b \in Written \ Best :
              TranscriptAlive(transcript[a]) /\ ~TranscriptAlive(transcript[b])
    OBVIOUS
  <1> HIDE DEF Best
  <1>2. SomeAge \subseteq Nat /\ SomeAge # {}
    <2>1. \A a \in Written : transcript[a].age \in Nat
      BY DEF Ages, None, TranscriptCap
    <2> HIDE DEF Written
    <2> QED BY <1>1, <2>1
  <1> HIDE DEF SomeAge
  <1>3. PICK n \in SomeAge : \A m \in SomeAge : n <= m
    BY <1>2, LeastNat
  <1>4. Freshest(n) \subseteq Nat /\ Freshest(n) # {}
    BY <1>1, <1>3 DEF SomeAge
  <1>5. PICK a \in Freshest(n) : \A b \in Freshest(n) : a <= b
    <2> HIDE DEF Freshest
    <2> QED BY <1>4, LeastNat
  <1>6. a \in Best /\ a \in Bindings /\ transcript[a].age = n /\ n # None /\ n \in Nat
    BY <1>1, <1>2, <1>3, <1>5
  <1>7. ASSUME NEW b \in Bindings \ {a}
        PROVE  IF b < a THEN Livelier(transcript[b], transcript[a])
               ELSE ~Livelier(transcript[a], transcript[b])
    <2>0. /\ transcript[b].age \in Int /\ (transcript[b].age # None => transcript[b].age \in Nat)
          /\ b \in Nat /\ a \in Nat
      BY <1>6 DEF Ages, None, TranscriptCap
    <2>1. CASE transcript[b].age = None
      BY <1>6, <2>1 DEF Livelier, TranscriptAlive
    <2>2. CASE transcript[b].age # None /\ b \notin Best
      <3>1. TranscriptAlive(transcript[a]) /\ ~TranscriptAlive(transcript[b])
        BY <1>1, <1>6, <2>2
      <3> QED BY <3>1 DEF Livelier
    <2>3. CASE b \in Best
      <3>1. /\ TranscriptAlive(transcript[a]) <=> TranscriptAlive(transcript[b])
            /\ transcript[b].age # None /\ n <= transcript[b].age
        <4>1. b \in Written /\ a \in Written
          BY <1>1, <1>6, <2>3
        <4>2. TranscriptAlive(transcript[a]) <=> TranscriptAlive(transcript[b])
          BY <1>1, <1>6, <2>3, <4>1
        <4>3. transcript[b].age \in SomeAge
          BY <2>3 DEF SomeAge
        <4> QED BY <1>3, <4>1, <4>2, <4>3
      <3>2. transcript[b].age = n => a <= b
        BY <1>5, <2>3
      <3>3. Livelier(transcript[b], transcript[a])
               <=> transcript[a].age # None /\ (transcript[b].age = None
                                                \/ transcript[a].age < transcript[b].age)
        BY <3>1 DEF Livelier, TranscriptAlive
      <3>4. Livelier(transcript[a], transcript[b])
               <=> transcript[b].age # None /\ (transcript[a].age = None
                                                \/ transcript[b].age < transcript[a].age)
        BY <3>1 DEF Livelier, TranscriptAlive
      <3>5. b # a /\ transcript[a].age = n
        BY <1>6
      <3> QED BY <1>6, <2>0, <3>1, <3>2, <3>3, <3>4, <3>5
    <2> QED BY <2>1, <2>2, <2>3
  <1> QED BY <1>6, <1>7 DEF Representative

\* A verdict of "dead" is of agents none of which is alive.
LEMMA VerdictTrue ==
    ASSUME transcript \in [Bindings -> [age : Ages(TranscriptCap), tool : BOOLEAN]]
    PROVE  /\ Verdict \in [is : {"unknown", "none", "alive", "dead"}, age : Ages(TranscriptCap),
                           call : BOOLEAN, lives : SUBSET {CallMax, TranscriptCap}]
           /\ Verdict.is = "dead" => CallMax \notin Verdict.lives
           /\ Verdict.is = "none" <=> \A a \in Bindings : transcript[a].age = None
           /\ Verdict.is # "unknown"
  <1> USE OrNumbers
  <1>1. CASE \A a \in Bindings : transcript[a].age = None
    <2>1. Verdict = [is |-> "none", age |-> None, call |-> FALSE, lives |-> {}]
      BY <1>1 DEF Verdict, NoSnapshot
    <2>2. None \in Ages(TranscriptCap)
      BY DEF Ages, None, TranscriptCap
    <2> QED BY <1>1, <2>1, <2>2
  <1>2. ASSUME NEW b0 \in Bindings, transcript[b0].age # None
        PROVE  /\ Verdict \in [is : {"unknown", "none", "alive", "dead"}, age : Ages(TranscriptCap),
                               call : BOOLEAN, lives : SUBSET {CallMax, TranscriptCap}]
               /\ Verdict.is = "dead" => CallMax \notin Verdict.lives
               /\ Verdict.is \in {"alive", "dead"}
    <2> DEFINE a == Representative
    <2>1. /\ a \in Bindings /\ transcript[a].age # None
          /\ \A b \in Bindings \ {a} :
                 IF b < a THEN Livelier(transcript[b], transcript[a])
                 ELSE ~Livelier(transcript[a], transcript[b])
      BY <1>2, RepresentativeExists
    <2> HIDE DEF a
    <2>2. Verdict = [is |-> IF TranscriptAlive(transcript[a]) THEN "alive" ELSE "dead",
                     age |-> transcript[a].age, call |-> CallPending(transcript[a]),
                     lives |-> {limit \in {CallMax, TranscriptCap} : Living(limit) # {}}]
      BY <1>2 DEF Verdict, a
    <2>3. CallPending(transcript[a]) \in BOOLEAN
      BY DEF CallPending
    <2>4. \A b \in Bindings : TranscriptAlive(transcript[b]) => TranscriptAlive(transcript[a])
      BY <2>1 DEF Livelier, TranscriptAlive
    <2>5. \A b \in Living(CallMax) : b \in Bindings /\ TranscriptAlive(transcript[b])
      BY DEF Living, TranscriptAlive, Ages, None, TranscriptCap
    <2>6. ~TranscriptAlive(transcript[a]) => Living(CallMax) = {}
      BY <2>4, <2>5
    <2>7. Verdict.is = "dead" => CallMax \notin Verdict.lives
      BY <2>2, <2>6
    <2>8. /\ transcript[a].age \in Ages(TranscriptCap)
          /\ {limit \in {CallMax, TranscriptCap} : Living(limit) # {}} \subseteq {CallMax, TranscriptCap}
      BY <2>1
    <2> QED BY <2>2, <2>3, <2>7, <2>8
  <1> QED BY <1>1, <1>2

LEMMA OrInitInv == OrInit => OrInv
  <1> SUFFICES ASSUME OrInit PROVE OrInv
    OBVIOUS
  <1> USE OrNumbers
  <1>1. None \in Ages(TranscriptCap) /\ None \in Ages(BeatStale) /\ None \in Ages(AgeCap)
    BY DEF Ages, None, TranscriptCap, AgeCap
  <1>2. OrTypeOK
    <2>1. /\ item = [status |-> "running", registered |-> 0, heartbeat |-> None, ownerDead |-> FALSE]
          /\ snapshot = [is |-> "unknown", age |-> None, call |-> FALSE, lives |-> {}]
      BY DEF OrInit, NoSnapshot
    <2>2. item \in [status : Statuses, registered : 0..BindGrace,
                    heartbeat : Ages(BeatStale), ownerDead : BOOLEAN]
      BY <1>1, <2>1 DEF Statuses
    <2>3. snapshot \in [is : {"unknown", "none", "alive", "dead"}, age : Ages(TranscriptCap),
                        call : BOOLEAN, lives : SUBSET {CallMax, TranscriptCap}]
      BY <1>1, <2>1
    <2> QED BY <1>1, <2>2, <2>3 DEF OrInit, OrTypeOK
  <1>3. ~NoticeStands
    BY DEF OrInit, NoticeStands, Within
  <1> QED BY <1>2, <1>3
       DEF OrInit, OrInv, OrphansTold, SoftSeenTwice, OrphanRetold, LiveNotGated, SnapshotTrue,
           SightingsCounted, SilenceMeasured, NoSnapshot

\* What a pass does to the ages.
LEMMA AgesPass ==
    ASSUME OrTypeOK
    PROVE  /\ ItemAges(item) \in [status : Statuses, registered : 0..BindGrace,
                                  heartbeat : Ages(BeatStale), ownerDead : BOOLEAN]
           /\ ItemAges([item EXCEPT !.status = "abandoned"]) \in
                 [status : Statuses, registered : 0..BindGrace, heartbeat : Ages(BeatStale),
                  ownerDead : BOOLEAN]
           /\ ItemAges(item).ownerDead = item.ownerDead
           /\ ItemAges([item EXCEPT !.status = "abandoned"]).ownerDead = item.ownerDead
           /\ TranscriptsAge(transcript) \in [Bindings -> [age : Ages(TranscriptCap), tool : BOOLEAN]]
           /\ \A a \in Bindings : TranscriptsAge(transcript)[a].age = None <=> transcript[a].age = None
           /\ Older(ledger.orphaned, AgeCap) \in Ages(AgeCap)
  <1> USE OrNumbers
  <1>1. /\ Older(item.registered, BindGrace) \in 0..BindGrace
        /\ Older(item.heartbeat, BeatStale) \in Ages(BeatStale)
        /\ Older(ledger.orphaned, AgeCap) \in Ages(AgeCap)
    BY DEF OrTypeOK, Older, Ages, None, Least, AgeCap
  <1>2. ASSUME NEW i, i = item \/ i = [item EXCEPT !.status = "abandoned"]
        PROVE  /\ ItemAges(i) \in [status : Statuses, registered : 0..BindGrace,
                                    heartbeat : Ages(BeatStale), ownerDead : BOOLEAN]
               /\ ItemAges(i).ownerDead = item.ownerDead
    <2>1. /\ i \in [status : Statuses, registered : 0..BindGrace, heartbeat : Ages(BeatStale),
                     ownerDead : BOOLEAN]
          /\ i.registered = item.registered /\ i.heartbeat = item.heartbeat
          /\ i.ownerDead = item.ownerDead
      BY <1>2 DEF OrTypeOK, Statuses
    <2> DEFINE j == Aged1(i, "registered", BindGrace)
    <2>2. /\ j \in [status : Statuses, registered : 0..BindGrace, heartbeat : Ages(BeatStale),
                     ownerDead : BOOLEAN]
          /\ j.heartbeat = item.heartbeat /\ j.ownerDead = item.ownerDead
      BY <1>1, <2>1 DEF Aged1
    <2> HIDE DEF j
    <2>3. /\ Aged1(j, "heartbeat", BeatStale)
               \in [status : Statuses, registered : 0..BindGrace, heartbeat : Ages(BeatStale),
                    ownerDead : BOOLEAN]
          /\ Aged1(j, "heartbeat", BeatStale).ownerDead = item.ownerDead
      BY <1>1, <2>2 DEF Aged1
    <2> QED BY <2>3 DEF ItemAges, j
  <1>4. \A a \in Bindings :
           /\ Aged1(transcript[a], "age", TranscriptCap) \in [age : Ages(TranscriptCap), tool : BOOLEAN]
           /\ Aged1(transcript[a], "age", TranscriptCap).age = None <=> transcript[a].age = None
    <2> SUFFICES ASSUME NEW a \in Bindings
                 PROVE  /\ Aged1(transcript[a], "age", TranscriptCap)
                               \in [age : Ages(TranscriptCap), tool : BOOLEAN]
                        /\ Aged1(transcript[a], "age", TranscriptCap).age = None
                             <=> transcript[a].age = None
      OBVIOUS
    <2>1. /\ transcript[a] \in [age : Ages(TranscriptCap), tool : BOOLEAN]
          /\ TranscriptCap \in Nat
      BY DEF OrTypeOK, TranscriptCap
    <2>2. /\ Older(transcript[a].age, TranscriptCap) \in Ages(TranscriptCap)
          /\ Older(transcript[a].age, TranscriptCap) = None <=> transcript[a].age = None
      BY <2>1 DEF Older, Ages, None, Least
    <2> QED BY <2>1, <2>2 DEF Aged1
  <1>5. TranscriptsAge(transcript) \in [Bindings -> [age : Ages(TranscriptCap), tool : BOOLEAN]]
    BY <1>4 DEF TranscriptsAge
  <1>6. \A a \in Bindings : TranscriptsAge(transcript)[a].age = None <=> transcript[a].age = None
    BY <1>4 DEF TranscriptsAge
  <1> QED BY <1>1, <1>2, <1>5, <1>6

LEMMA Conditions ==
    /\ Condition \in {"stuck", "fine", "certain", "soft"}
    /\ Condition = "soft" => snapshot.is = "dead" /\ ~item.ownerDead
    /\ Condition = "certain" => item.ownerDead \/ snapshot.is = "none"
  BY Zenon DEF Condition

(* A run of the check, as far as it gets. *)
LEMMA OrCheckInv ==
    ASSUME OrInv, NEW upTo \in {"gate", "sightings", "events", "ledger"}, NEW abandons \in BOOLEAN,
           CheckRuns(upTo, abandons)
    PROVE  OrInv'
  <1> DEFINE orphan == Condition \in {"soft", "certain"}
             sent == Sends /\ upTo \in {"events", "ledger"}
             stamped == upTo = "ledger" /\ Sends /\ Condition # "stuck"
             aged == Older(ledger.orphaned, AgeCap)
  <1>1. OrTypeOK /\ SoftSeenTwice /\ SnapshotTrue /\ SightingsCounted /\ SilenceMeasured
    BY DEF OrInv, OrphansTold
  <1>2. /\ UNCHANGED snapshot /\ hardGate' = Gated
        /\ transcript' = TranscriptsAge(transcript)
        /\ item' = ItemAges(item) \/ item' = ItemAges([item EXCEPT !.status = "abandoned"])
    BY DEF CheckRuns
  <1>3. /\ transcript' \in [Bindings -> [age : Ages(TranscriptCap), tool : BOOLEAN]]
        /\ \A a \in Bindings : transcript'[a].age = None <=> transcript[a].age = None
        /\ item'.ownerDead = item.ownerDead
        /\ item' \in [status : Statuses, registered : 0..BindGrace,
                      heartbeat : Ages(BeatStale), ownerDead : BOOLEAN]
    BY <1>1, <1>2, AgesPass
  <1>4. /\ sighted' = IF upTo = "gate" THEN sighted ELSE Sighted
        /\ sighted' \in BOOLEAN /\ Gated \in BOOLEAN
    BY <1>1 DEF CheckRuns, OrTypeOK, Sighted, Gated
  <1>5. /\ ledger' \in [orphaned : Ages(AgeCap), stuck : BOOLEAN]
        /\ stamped => ledger'.orphaned = 1
        /\ ~stamped => ledger'.orphaned = aged
        /\ aged \in Ages(AgeCap)
    <2>1. aged \in Ages(AgeCap) /\ 1 \in Ages(AgeCap)
      BY <1>1, AgesPass, OrNumbers DEF Ages, None, AgeCap
    <2>2. ledger' = IF upTo # "ledger" \/ ~Sends THEN [ledger EXCEPT !.orphaned = aged]
                    ELSE IF Condition = "stuck" THEN [orphaned |-> aged, stuck |-> TRUE]
                    ELSE [ledger EXCEPT !.orphaned = 1]
      BY DEF CheckRuns
    <2> HIDE DEF aged
    <2> QED BY <1>1, <2>1, <2>2 DEF OrTypeOK
  <1>6. /\ heard'.event = IF sent THEN Condition ELSE "fine"
        /\ heard'.stale = IF upTo = "gate" THEN heard.stale
                          ELSE IF Condition = "soft" THEN Least(heard.stale + 1, 2) ELSE 0
        /\ heard'.quiet = IF sent \/ ~orphan THEN 0
                          ELSE IF upTo \in {"events", "ledger"} THEN Least(heard.quiet + 1, AgeCap + 2)
                          ELSE heard.quiet
        /\ heard'.over = IF Gated THEN snapshot.lives ELSE {}
    BY DEF CheckRuns, Hears
  <1>7. OrTypeOK'
    BY <1>1, <1>2, <1>3, <1>4, <1>5 DEF OrTypeOK
  <1>8. SoftSeenTwice'
    BY <1>1, <1>6, Conditions DEF SoftSeenTwice, SightingsCounted, Sends, Least
  <1>9. LiveNotGated'
    BY <1>1, <1>6 DEF LiveNotGated, SnapshotTrue, Gated
  <1>10. SnapshotTrue'
    BY <1>1, <1>2, <1>3 DEF SnapshotTrue
  <1>11. SightingsCounted'
    <2>1. heard'.stale \in 0..2 /\ (sighted' => heard'.stale >= 1)
      BY <1>1, <1>4, <1>6 DEF SightingsCounted, Sighted, Least
    <2>2. heard'.quiet \in Nat
      BY <1>1, <1>6, OrNumbers DEF SightingsCounted, Least, AgeCap
    <2> QED BY <2>1, <2>2 DEF SightingsCounted
  <1>12. /\ ledger.orphaned \in Int /\ (ledger.orphaned # None => ledger.orphaned \in Nat)
         /\ aged = IF ledger.orphaned = None THEN None
                   ELSE IF ledger.orphaned + 1 < EscalateEvery THEN ledger.orphaned + 1 ELSE EscalateEvery
         /\ NoticeStands <=> ledger.orphaned # None /\ ledger.orphaned < EscalateEvery
         /\ NoticeStands' <=> ledger'.orphaned # None /\ ledger'.orphaned < EscalateEvery
         /\ ledger'.orphaned \in Int
    <2>1. ledger.orphaned \in Ages(AgeCap) /\ ledger'.orphaned \in Ages(AgeCap)
      BY <1>1, <1>5 DEF OrTypeOK
    <2> QED BY <2>1, OrNumbers DEF Ages, None, AgeCap, Older, Least, NoticeStands, Within
  <1> HIDE DEF aged, stamped, sent, orphan
  <1>13. SilenceMeasured'
    <2>0. heard.quiet \in Nat /\ EscalateEvery \in Nat /\ EscalateEvery > 0 /\ None = -1
      BY <1>1, OrNumbers DEF SightingsCounted, None
    <2>1. CASE heard'.quiet = 0
      BY <1>5, <1>12, <2>0, <2>1 DEF SilenceMeasured
    <2>2. CASE ~sent /\ orphan
      <3>1. ledger'.orphaned = aged
        BY <1>5, <2>2, Conditions DEF stamped, sent
      <3>2. CASE NoticeStands
        <4>1. heard'.quiet <= heard.quiet + 1 /\ heard'.quiet \in Nat
          BY <1>6, <1>11, <2>0, <2>2 DEF Least, AgeCap, SightingsCounted
        <4>2. heard.quiet < ledger.orphaned
          BY <1>1, <3>2 DEF SilenceMeasured
        <4>3. IF NoticeStands' THEN heard'.quiet < ledger'.orphaned ELSE heard'.quiet < EscalateEvery
          BY <1>12, <2>0, <3>1, <3>2, <4>1, <4>2
        <4> QED BY <4>3 DEF SilenceMeasured
      <3>3. CASE ~NoticeStands
        <4>1. ~NoticeStands'
          BY <1>12, <2>0, <3>1, <3>3
        <4>2. Unannounced
          BY <2>2, <3>3 DEF Unannounced, orphan
        <4>3. CASE upTo \in {"events", "ledger"}
          <5>1. Condition = "soft" /\ ~sighted
            BY <2>2, <4>2, <4>3 DEF sent, Sends
          <5>2. snapshot.is = "dead" /\ ~item.ownerDead /\ sighted'
            BY <1>4, <4>2, <4>3, <5>1, Conditions DEF Sighted
          <5>3. heard.quiet < EscalateEvery
            BY <1>1, <3>3, <5>1, <5>2 DEF SilenceMeasured
          <5>4. heard'.quiet = heard.quiet + 1
            BY <1>6, <2>0, <2>2, <4>3, <5>3 DEF Least, AgeCap
          <5>5. \E a \in Bindings : transcript'[a].age # None
            BY <1>1, <1>3, <5>2 DEF SnapshotTrue
          <5>6. heard'.quiet < EscalateEvery \/ heard'.quiet = EscalateEvery
            BY <2>0, <5>3, <5>4
          <5> QED BY <1>2, <4>1, <5>2, <5>5, <5>6 DEF SilenceMeasured
        <4>4. CASE upTo \notin {"events", "ledger"}
          <5>1. heard'.quiet = heard.quiet
            BY <1>6, <2>2, <4>4
          <5>2. CASE heard.quiet < EscalateEvery
            BY <4>1, <5>1, <5>2 DEF SilenceMeasured
          <5>3. CASE /\ heard.quiet = EscalateEvery /\ (sighted \/ item.ownerDead)
                     /\ snapshot.is # "none" /\ \E a \in Bindings : transcript[a].age # None
            <6>1. sighted' \/ item'.ownerDead
              BY <1>3, <1>4, <2>2, <4>2, <5>3, Conditions DEF Sighted, orphan
            <6> QED BY <1>2, <1>3, <4>1, <5>1, <5>3, <6>1 DEF SilenceMeasured
          <5> QED BY <1>1, <3>3, <5>2, <5>3 DEF SilenceMeasured
        <4> QED BY <4>3, <4>4
      <3> QED BY <3>2, <3>3
    <2> QED BY <1>6, <2>1, <2>2
  <1>14. OrphanRetold'
    BY <1>11, <1>13, <1>12, <1>5, OrNumbers DEF SilenceMeasured, OrphanRetold, SightingsCounted
  <1> QED BY <1>7, <1>8, <1>9, <1>10, <1>11, <1>13, <1>14 DEF OrInv, OrphansTold

(* What the check does not do. *)
LEMMA OrWorldInv ==
    ASSUME OrInv,
           \/ CheckFails \/ SnapshotTaken
           \/ \E a \in Bindings, tool \in BOOLEAN : Writes(a, tool)
           \/ Beats \/ OwnerDies
           \/ Moves({"running"}, "wedged") \/ Moves({"wedged"}, "running")
           \/ Moves({"running", "wedged"}, "done")
           \/ UNCHANGED orVars
    PROVE  OrInv'
  <1> USE OrNumbers
  <1>0. /\ OrTypeOK /\ SoftSeenTwice /\ OrphanRetold /\ LiveNotGated
        /\ SnapshotTrue /\ SightingsCounted /\ SilenceMeasured
    BY DEF OrInv, OrphansTold
  <1>1. CASE CheckFails
    <2>1. /\ UNCHANGED <<snapshot, sighted, hardGate>>
          /\ item' = ItemAges(item) /\ transcript' = TranscriptsAge(transcript)
          /\ ledger' = [ledger EXCEPT !.orphaned = Older(@, AgeCap)]
          /\ heard' = [heard EXCEPT !.event = "fine"]
      BY <1>1 DEF CheckFails
    <2>2. OrTypeOK'
      BY <1>0, <2>1, AgesPass DEF OrTypeOK
    <2>3. /\ heard'.event = "fine" \/ heard'.event = heard.event
          /\ heard'.stale = heard.stale /\ heard'.quiet = heard.quiet /\ heard'.over = heard.over
      BY <2>1
    <2>4. /\ item'.ownerDead = item.ownerDead
          /\ \A a \in Bindings : transcript'[a].age = None <=> transcript[a].age = None
      BY <1>0, <2>1, AgesPass
    <2>5. SilenceMeasured'
      <3>1. ledger.orphaned \in Ages(AgeCap) /\ ledger'.orphaned = Older(ledger.orphaned, AgeCap)
        BY <1>0, <2>1 DEF OrTypeOK
      <3>2. CASE NoticeStands
        BY <1>0, <2>3, <3>1, <3>2
           DEF SilenceMeasured, NoticeStands, Within, Ages, None, AgeCap, Older, Least, SightingsCounted
      <3>3. CASE ~NoticeStands
        <4>1. ~NoticeStands'
          BY <3>1, <3>3 DEF NoticeStands, Within, Ages, None, AgeCap, Older, Least
        <4> QED BY <1>0, <2>1, <2>3, <2>4, <3>3, <4>1 DEF SilenceMeasured
      <3> QED BY <3>2, <3>3
    <2> QED BY <1>0, <2>1, <2>2, <2>3, <2>4, <2>5
         DEF OrInv, OrphansTold, SoftSeenTwice, OrphanRetold, LiveNotGated, SnapshotTrue, SightingsCounted
  <1>2. CASE SnapshotTaken
    <2>1. snapshot' = Verdict /\ UNCHANGED <<item, transcript, ledger, sighted, hardGate, heard>>
      BY <1>2 DEF SnapshotTaken
    <2>2. /\ Verdict \in [is : {"unknown", "none", "alive", "dead"}, age : Ages(TranscriptCap),
                           call : BOOLEAN, lives : SUBSET {CallMax, TranscriptCap}]
          /\ Verdict.is = "dead" => CallMax \notin Verdict.lives
          /\ Verdict.is = "none" <=> \A a \in Bindings : transcript[a].age = None
          /\ Verdict.is # "unknown"
      BY <1>0, VerdictTrue DEF OrTypeOK
    <2>3. OrTypeOK' /\ SnapshotTrue'
      BY <1>0, <2>1, <2>2 DEF OrTypeOK, SnapshotTrue
    <2>4. SilenceMeasured'
      BY <1>0, <2>1, <2>2 DEF SilenceMeasured, NoticeStands
    <2> QED BY <1>0, <2>1, <2>3, <2>4
         DEF OrInv, OrphansTold, SoftSeenTwice, OrphanRetold, LiveNotGated, SightingsCounted
  <1>3. ASSUME NEW a \in Bindings, NEW tool \in BOOLEAN, Writes(a, tool) PROVE OrInv'
    <2>1. /\ transcript' = [transcript EXCEPT ![a] = [age |-> 0, tool |-> tool]]
          /\ UNCHANGED <<item, snapshot, ledger, sighted, hardGate, heard>>
      BY <1>3 DEF Writes
    <2>2. 0 \in Ages(TranscriptCap) /\ 0 # None
      BY DEF Ages, None, TranscriptCap
    <2>3. OrTypeOK'
      BY <1>0, <2>1, <2>2 DEF OrTypeOK
    <2>4. \E b \in Bindings : transcript'[b].age # None
      BY <1>0, <2>1, <2>2 DEF OrTypeOK
    <2> QED BY <1>0, <2>1, <2>3, <2>4
         DEF OrInv, OrphansTold, SoftSeenTwice, OrphanRetold, LiveNotGated, SnapshotTrue, SightingsCounted,
             SilenceMeasured, NoticeStands
  <1>4. CASE \/ Beats \/ OwnerDies
             \/ Moves({"running"}, "wedged") \/ Moves({"wedged"}, "running")
             \/ Moves({"running", "wedged"}, "done")
    <2>1. UNCHANGED <<transcript, snapshot, ledger, sighted, hardGate, heard>>
      BY <1>4 DEF Beats, OwnerDies, Moves
    <2>2. /\ item' \in [status : Statuses, registered : 0..BindGrace,
                        heartbeat : Ages(BeatStale), ownerDead : BOOLEAN]
          /\ item.ownerDead => item'.ownerDead
      <3>1. 0 \in Ages(BeatStale) /\ {"wedged", "running", "done"} \subseteq Statuses
        BY DEF Ages, None, Statuses
      <3>2. \/ item' = [item EXCEPT !.heartbeat = 0]
            \/ item' = [item EXCEPT !.ownerDead = TRUE]
            \/ \E to \in {"wedged", "running", "done"} : item' = [item EXCEPT !.status = to]
        BY <1>4 DEF Beats, OwnerDies, Moves
      <3>3. item \in [status : Statuses, registered : 0..BindGrace,
                      heartbeat : Ages(BeatStale), ownerDead : BOOLEAN]
        BY <1>0 DEF OrTypeOK
      <3>4. CASE item' = [item EXCEPT !.heartbeat = 0]
        BY <3>1, <3>3, <3>4
      <3>5. CASE item' = [item EXCEPT !.ownerDead = TRUE]
        BY <3>3, <3>5
      <3>6. ASSUME NEW to \in {"wedged", "running", "done"}, item' = [item EXCEPT !.status = to]
            PROVE  /\ item' \in [status : Statuses, registered : 0..BindGrace,
                                  heartbeat : Ages(BeatStale), ownerDead : BOOLEAN]
                   /\ item.ownerDead => item'.ownerDead
        BY <3>1, <3>3, <3>6
      <3> QED BY <3>2, <3>4, <3>5, <3>6
    <2> QED BY <1>0, <2>1, <2>2
         DEF OrInv, OrphansTold, OrTypeOK, SoftSeenTwice, OrphanRetold, LiveNotGated, SnapshotTrue,
             SightingsCounted, SilenceMeasured, NoticeStands
  <1>5. CASE UNCHANGED orVars
    BY <1>0, <1>5
       DEF orVars, OrInv, OrphansTold, OrTypeOK, SoftSeenTwice, OrphanRetold, LiveNotGated, SnapshotTrue,
           SightingsCounted, SilenceMeasured, NoticeStands
  <1> QED BY <1>1, <1>2, <1>3, <1>4, <1>5

(* An agent reads dead to the check in two runs in a row before an event     *)
(* says so; an orphan is told of again within the renotify time and the runs *)
(* that soft evidence takes; and the hard gate holds no item one of whose    *)
(* agents was alive: for all ages, any agents, and runs that end anywhere.   *)
THEOREM OrphansToldEach == OrSpec => []OrphansTold
  <1>1. OrInv /\ [OrNext]_orVars => OrInv'
    BY OrCheckInv, OrWorldInv DEF OrNext
  <1>2. OrInv => OrphansTold
    BY DEF OrInv
  <1> QED BY OrInitInv, <1>1, <1>2, PTL DEF OrSpec
=============================================================================
