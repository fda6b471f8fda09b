------------------------------ MODULE EventSpool ------------------------------
(***************************************************************************)
(* The event queue, a directory of files (src/event_bus.rs): every emitter *)
(* writes a dotfile and renames it in; claude-event-watch prints, logs and *)
(* ingests each file of a batch and then removes it; `event-ack` keeps the *)
(* keys that wait for an acknowledgement.  The daemon reads the same files *)
(* to page the operator of an override, once by its own ledger.  Every one *)
(* of them may die between two steps, and then starts over.                *)
(***************************************************************************)
EXTENDS Naturals

CONSTANTS
    Alarms, \* actionable events with one and the same key, tag:message
    Bypass  \* obligations-bypass events, each of an override of its own

VARIABLES
    file,      \* per event: none, half, there, gone
    watcher,   \* claude-event-watch: its step, the event at hand, what is left of the batch
    pending,   \* whether the key of the alarms is in pending-actions.json
    noted,     \* obligations-bypass-pushover.json: the overrides noted
    old,       \* those of them noted for longer than LEDGER_TTL_SECS
    drain,     \* the daemon: the overrides it still has to page
    displayed, \* history: events the session was shown
    answered,  \* history: alarms acknowledged after they were shown, or not ingested
    paged,     \* history: overrides the operator was paged of, record intact
    repaged    \* history: overrides paged twice on one record

esVars == <<file, watcher, pending, noted, old, drain, displayed, answered, paged, repaged>>

Events == Alarms \cup Bypass
There == {e \in Events : file[e] = "there"}
NoEvent == "none"
Waiting == [at |-> "waits", now |-> NoEvent, batch |-> {}]

-----------------------------------------------------------------------------
\* emit, emit_cadence, emit_workload_done: a dotfile, then a rename.
WritesEvent(e) ==
    /\ file[e] = "none" /\ file' = [file EXCEPT ![e] = "half"]
    /\ UNCHANGED <<watcher, pending, noted, old, drain, displayed, answered, paged, repaged>>

RenamesEvent(e) ==
    /\ file[e] = "half" /\ file' = [file EXCEPT ![e] = "there"]
    /\ UNCHANGED <<watcher, pending, noted, old, drain, displayed, answered, paged, repaged>>

\* A write or a rename that fails is logged and swallowed, and the dotfile removed.
Swallowed(e) ==
    /\ file[e] = "half" /\ file' = [file EXCEPT ![e] = "none"]
    /\ UNCHANGED <<watcher, pending, noted, old, drain, displayed, answered, paged, repaged>>

-----------------------------------------------------------------------------
\* print_pending: the files there are listed once, then taken one by one; what arrives
\* meanwhile stays for the next batch.
TakesBatch ==
    /\ watcher = Waiting /\ There # {}
    /\ watcher' = [at |-> "prints", now |-> NoEvent, batch |-> There]
    /\ UNCHANGED <<file, pending, noted, old, drain, displayed, answered, paged, repaged>>

\* process_event: the line is displayed and logged,
PrintsBatch(e) ==
    /\ watcher.at = "prints" /\ e \in watcher.batch
    /\ watcher' = [at |-> "ingests", now |-> e, batch |-> watcher.batch \ {e}]
    /\ displayed' = displayed \cup {e}
    /\ UNCHANGED <<file, pending, noted, old, drain, answered, paged, repaged>>

\* add_pending: a key that is pending is not added twice; one that was acked is repaged.
ArmedOnce(e) == pending \/ (e \in Alarms /\ answered = {})
Armed(e) == pending \/ e \in Alarms

\* then ingested: a failure does not stop the delivery,
Ingests(worked) ==
    /\ watcher.at = "ingests"
    /\ watcher' = [watcher EXCEPT !.at = "removes"]
    /\ pending' = IF worked THEN Armed(watcher.now) ELSE pending
    /\ answered' = IF worked THEN answered ELSE answered \cup ({watcher.now} \cap Alarms)
    /\ UNCHANGED <<file, noted, old, drain, displayed, paged, repaged>>

\* and only then is its file removed.
Removes ==
    /\ watcher.at = "removes"
    /\ file' = [file EXCEPT ![watcher.now] = "gone"]
    /\ watcher' = IF watcher.batch = {} THEN Waiting
                  ELSE [at |-> "prints", now |-> NoEvent, batch |-> watcher.batch]
    /\ UNCHANGED <<pending, noted, old, drain, displayed, answered, paged, repaged>>

\* Stopped at any step; the next one lists anew, so an event may be shown twice.
WatcherDies ==
    /\ watcher # Waiting /\ watcher' = Waiting
    /\ UNCHANGED <<file, pending, noted, old, drain, displayed, answered, paged, repaged>>

\* ack_pending, by key: it answers every alarm shown so far.
Acks ==
    /\ pending /\ pending' = FALSE
    /\ answered' = answered \cup (displayed \cap Alarms)
    /\ UNCHANGED <<file, watcher, noted, old, drain, displayed, paged, repaged>>

-----------------------------------------------------------------------------
\* drain_obligations_bypass: the files of overrides that the ledger does not know.
Fresh == (There \cap Bypass) \ noted

\* The ledger that is written, when there is something fresh: entries past their time
\* are pruned.
LedgerFreshOnly == Fresh
LedgerNow == (noted \cup Fresh) \ old

\* The ledger is written before the first page; a write that fails, or is cut short,
\* leaves the old one or none.
Drains(outcome) ==
    /\ drain = {} /\ Fresh # {}
    /\ drain' = IF outcome = "cut" THEN {} ELSE Fresh
    /\ noted' = CASE outcome = "written" -> LedgerNow
                   [] outcome = "failed" -> noted
                   [] outcome = "cut" -> {}
    /\ old' = IF outcome = "failed" THEN old ELSE {}
    /\ paged' = CASE outcome = "written" -> paged \ old
                  [] outcome = "failed" -> paged \ Fresh
                  [] outcome = "cut" -> {}
    /\ UNCHANGED <<file, watcher, pending, displayed, answered, repaged>>

\* send_pingme_with_priority, one override after the other.
Pages(b) ==
    /\ b \in drain /\ drain' = drain \ {b}
    /\ paged' = paged \cup ({b} \cap noted)
    /\ repaged' = repaged \cup ({b} \cap paged)
    /\ UNCHANGED <<file, watcher, pending, noted, old, displayed, answered>>

DaemonDies ==
    /\ drain # {} /\ drain' = {}
    /\ UNCHANGED <<file, watcher, pending, noted, old, displayed, answered, paged, repaged>>

DayGoesBy ==
    /\ old # noted /\ drain = {} /\ old' = noted
    /\ UNCHANGED <<file, watcher, pending, noted, drain, displayed, answered, paged, repaged>>

EsInit ==
    /\ file = [e \in Events |-> "none"] /\ watcher = Waiting
    /\ pending = FALSE /\ noted = {} /\ old = {} /\ drain = {}
    /\ displayed = {} /\ answered = {} /\ paged = {} /\ repaged = {}

EsNext ==
    \/ \E e \in Events : WritesEvent(e) \/ RenamesEvent(e) \/ Swallowed(e) \/ PrintsBatch(e)
    \/ TakesBatch \/ (\E worked \in BOOLEAN : Ingests(worked)) \/ Removes \/ WatcherDies
    \/ Acks \/ DaemonDies \/ DayGoesBy
    \/ \E outcome \in {"written", "failed", "cut"} : Drains(outcome)
    \/ \E b \in Bypass : Pages(b)

EsSpec == EsInit /\ [][EsNext]_esVars

-----------------------------------------------------------------------------
\* The types of the queue and its readers.
EsTypeOK ==
    /\ file \in [Events -> {"none", "half", "there", "gone"}]
    /\ watcher \in [at : {"waits", "prints", "ingests", "removes"},
                    now : Events \cup {NoEvent}, batch : SUBSET Events]
    /\ pending \in BOOLEAN
    /\ {noted, old, drain, paged, repaged} \subseteq SUBSET Bypass
    /\ displayed \subseteq Events /\ answered \subseteq Alarms

\* An event whose file is gone was shown to the session, whoever died meanwhile.
SurfacedBeforeGone == \A e \in Events : file[e] = "gone" => e \in displayed

\* An alarm that was delivered waits for an acknowledgement given after it was shown:
\* the ack of an earlier one with the same key does not answer it.
AlarmAnswered == \A e \in Alarms : file[e] = "gone" => pending \/ e \in answered

\* The operator is paged of an override once for as long as the ledger holds it.
PagedOnce == repaged = {}

\* What goes through the event queue is shown, asks for an ack, and is paged once.
EventsServed == EsTypeOK /\ SurfacedBeforeGone /\ AlarmAnswered /\ PagedOnce

\* main.rs:1387 "Runs every loop pass (a cheap dir scan) so it beats
\* `claude-event-watch`'s debounce-then-delete on the same queue".
BypassNoted ==
    [][\A b \in Bypass : file[b] = "there" /\ file'[b] = "gone" => b \in noted]_esVars
=============================================================================
