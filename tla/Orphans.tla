------------------------------- MODULE Orphans -------------------------------
(***************************************************************************)
(* The check for items nobody works on (src/queue_check.rs), from the      *)
(* snapshot of the agents' transcripts (src/active_agents.rs).             *)
(*                                                                         *)
(* A cron job runs the check once a pass.  It reads the queue and the      *)
(* snapshot, writes the hard gate, remembers which items read stale, sends *)
(* the events and then stamps its ledger; it may die between two of these. *)
(* Items are judged apart, so the module follows one, and the agents whose *)
(* transcripts name it: the first, and the one that took over.             *)
(***************************************************************************)
EXTENDS DaemonGates

CONSTANTS
    Bindings,     \* the agents whose transcripts name the item, a set of numbers
    Tracked,      \* the scope is a workload or a host job, which need no agent
    QuietMax,     \* agent_alive_max_age_secs
    CallMax,      \* agent_tool_call_max_age_secs
    SoftCap,      \* IN_FLIGHT_SOFT_ORPHAN_SECS
    BindGrace,    \* no_binding_grace_secs
    BeatStale,    \* stale_heartbeat_min
    HardGrace,    \* hard_gate_grace_secs
    EscalateEvery,\* orphan_escalate_cooldown_secs, of the notice too
    AbandonAfter  \* orphan_auto_abandon_secs, 0 for never

ASSUME OrphanAssumption ==
    /\ Bindings \subseteq Nat /\ Tracked \in BOOLEAN
    /\ {QuietMax, CallMax, SoftCap, BindGrace, BeatStale, HardGrace, AbandonAfter} \subseteq Nat
    /\ EscalateEvery \in Nat \ {0}
    /\ QuietMax <= CallMax /\ CallMax < SoftCap
    /\ HardGrace <= SoftCap /\ AbandonAfter <= SoftCap

VARIABLES
    item,        \* its status, the ages of its registration and heartbeat, whether the
                 \* process that owns it has died
    transcript,  \* per agent: age of its last line, and whether that is a tool call
    snapshot,    \* active-agents.json: what it says of the item
    ledger,      \* queue-check-state.json: age of the orphan notice, the stuck notice
    sighted,     \* queue-check-orphan-sightings.json
    hardGate,    \* queue-hard-gate-pending.json
    heard        \* history: the last event, in how many runs in a row the item read
                 \* stale, and was orphaned with no event; what the gate overlooked

orVars == <<item, transcript, snapshot, ledger, sighted, hardGate, heard>>

Statuses == {"running", "wedged", "done", "abandoned"}
TranscriptCap == SoftCap
AgeCap == EscalateEvery

-----------------------------------------------------------------------------
(* active_agents.rs: the verdict on one transcript, and on the item.        *)

CallPending(t) == t.age > QuietMax /\ t.tool                    \* in_flight_tool_use
TranscriptAlive(t) ==                                           \* agent_alive_with_in_flight
    t.age # None /\ (t.age <= QuietMax \/ (t.tool /\ t.age <= CallMax))

Livelier(t, u) ==                                               \* livelier
    IF TranscriptAlive(t) # TranscriptAlive(u) THEN TranscriptAlive(u)
    ELSE u.age # None /\ (t.age = None \/ u.age < t.age)

\* agents_by_queue_id: agents in order, a later one only when it is livelier.
RepresentativeFirst ==
    CHOOSE a \in Bindings : transcript[a].age # None
        /\ \A b \in Bindings : transcript[b].age # None => a <= b
Representative ==
    CHOOSE a \in Bindings : transcript[a].age # None /\ \A b \in Bindings \ {a} :
        IF b < a THEN Livelier(transcript[b], transcript[a])
                 ELSE ~Livelier(transcript[a], transcript[b])

NoSnapshot == [is |-> "unknown", age |-> None, call |-> FALSE, lives |-> {}]
Living(limit) ==
    {a \in Bindings : transcript[a].age # None /\ transcript[a].age
                          <= IF transcript[a].tool THEN limit ELSE QuietMax}

\* collect_agent_records and agent_liveness_for; `lives` is what is true then.
Verdict ==
    IF \A a \in Bindings : transcript[a].age = None
    THEN [NoSnapshot EXCEPT !.is = "none"]
    ELSE LET t == transcript[Representative]
         IN  [is |-> IF TranscriptAlive(t) THEN "alive" ELSE "dead", age |-> t.age,
              call |-> CallPending(t),
              lives |-> {limit \in {CallMax, TranscriptCap} : Living(limit) # {}}]

-----------------------------------------------------------------------------
(* queue_check.rs: what one run finds.                                      *)

PastGrace == Since(item.registered, BindGrace)
BeatIsStale == Since(item.heartbeat, BeatStale)

\* compute_qualifying: a dead owner or no agent at all is certain, a quiet transcript
\* is soft evidence.
Condition ==
    IF item.status = "wedged" THEN "stuck"
    ELSE IF item.status # "running" THEN "fine"
    ELSE IF item.ownerDead THEN "certain"
    ELSE IF snapshot.is = "alive" THEN "fine"
    ELSE IF snapshot.is = "dead" /\ snapshot.call /\ snapshot.age < SoftCap THEN "fine"
    ELSE IF snapshot.is = "dead" /\ PastGrace THEN "soft"
    ELSE IF snapshot.is = "none" /\ ~Tracked /\ PastGrace THEN "certain"
    ELSE IF BeatIsStale THEN "stuck" ELSE "fine"

\* expire_orphan_dedup and push_unique: an orphan notice counts for a while, a stuck
\* notice as long as the item is listed.
NoticeStandsForever == ledger.orphaned # None
NoticeStands == Within(ledger.orphaned, EscalateEvery)
Unannounced ==
    \/ Condition \in {"soft", "certain"} /\ ~NoticeStands
    \/ Condition = "stuck" /\ ~ledger.stuck

\* compute_hard_gate_orphans
Gated ==
    /\ item.status = "running" /\ snapshot.is = "dead" /\ ~snapshot.call
    /\ PastGrace /\ snapshot.age >= HardGrace

\* corroborate_soft_orphans: soft evidence has to be seen in two runs in a row.
SightedEver == sighted \/ (Condition = "soft" /\ Unannounced)
Sighted == Condition = "soft" /\ Unannounced
Sends == Unannounced /\ (Condition = "soft" => sighted)

-----------------------------------------------------------------------------
\* A pass goes by.
Aged1(rec, field, cap) == [rec EXCEPT ![field] = Older(@, cap)]
TranscriptsAge(t) == [a \in Bindings |-> Aged1(t[a], "age", TranscriptCap)]
ItemAgesRaw(i) == [i EXCEPT !.registered = @ + 1, !.heartbeat = @ + 1]
ItemAges(i) == Aged1(Aged1(i, "registered", BindGrace), "heartbeat", BeatStale)

\* What the run leaves in the history; one that died before it saved what it saw does
\* not count as having seen it.
Hears(sent, saw, complete) ==
    LET orphan == Condition \in {"soft", "certain"}
    IN  heard' = [event |-> IF sent THEN Condition ELSE "fine",
                  stale |-> IF ~saw THEN heard.stale
                            ELSE IF Condition = "soft" THEN Least(heard.stale + 1, 2) ELSE 0,
                  quiet |-> IF sent \/ ~orphan THEN 0
                            ELSE IF complete THEN Least(heard.quiet + 1, AgeCap + 2)
                            ELSE heard.quiet,
                  over |-> IF Gated THEN snapshot.lives ELSE {}]

\* cmd_queue_check with its run_hard_gate, as far as `upTo`; `abandons` is whether the
\* verb it calls succeeded.
CheckRuns(upTo, abandons) ==
    LET doomed == Gated /\ AbandonAfter > 0 /\ snapshot.age >= AbandonAfter
        sent == Sends /\ upTo \in {"events", "ledger"}
        aged == Older(ledger.orphaned, AgeCap)
    IN  /\ item.status \in {"running", "wedged"}
        /\ abandons => doomed
        /\ upTo = "events" => Sends
        /\ hardGate' = Gated   \* and a page, which run_hard_gate repeats
        /\ item' = ItemAges(IF doomed /\ abandons
                            THEN [item EXCEPT !.status = "abandoned"] ELSE item)
        /\ sighted' = IF upTo = "gate" THEN sighted ELSE Sighted
        /\ ledger' = IF upTo # "ledger" \/ ~Sends THEN [ledger EXCEPT !.orphaned = aged]
                     ELSE IF Condition = "stuck" THEN [orphaned |-> aged, stuck |-> TRUE]
                     ELSE [ledger EXCEPT !.orphaned = 1]
        /\ Hears(sent, upTo # "gate", upTo \in {"events", "ledger"})
        /\ transcript' = TranscriptsAge(transcript)
        /\ UNCHANGED snapshot

\* The queue cannot be read, or cron starts nothing.
CheckFails ==
    /\ item.status \in {"running", "wedged"}
    /\ item' = ItemAges(item) /\ transcript' = TranscriptsAge(transcript)
    /\ ledger' = [ledger EXCEPT !.orphaned = Older(@, AgeCap)]
    /\ heard' = [heard EXCEPT !.event = "fine"]
    /\ UNCHANGED <<snapshot, sighted, hardGate>>

\* cmd_active_agents --write-state, from a job of its own.
SnapshotTaken ==
    /\ item.status \in {"running", "wedged"} /\ snapshot' = Verdict
    /\ UNCHANGED <<item, transcript, ledger, sighted, hardGate, heard>>

-----------------------------------------------------------------------------
\* The agents and the main loop, as the check sees them; nothing is of interest when
\* the item is over.
Writes(a, tool) ==
    /\ item.status \in {"running", "wedged"}
    /\ transcript' = [transcript EXCEPT ![a] = [age |-> 0, tool |-> tool]]
    /\ UNCHANGED <<item, snapshot, ledger, sighted, hardGate, heard>>

Beats ==
    /\ item.status = "running"
    /\ item' = [item EXCEPT !.heartbeat = 0]
    /\ UNCHANGED <<transcript, snapshot, ledger, sighted, hardGate, heard>>

OwnerDies ==
    /\ item.status = "running" /\ item' = [item EXCEPT !.ownerDead = TRUE]
    /\ UNCHANGED <<transcript, snapshot, ledger, sighted, hardGate, heard>>

Moves(from, to) ==
    /\ item.status \in from /\ item' = [item EXCEPT !.status = to]
    /\ UNCHANGED <<transcript, snapshot, ledger, sighted, hardGate, heard>>

OrInit ==
    /\ item = [status |-> "running", registered |-> 0, heartbeat |-> None, ownerDead |-> FALSE]
    /\ transcript = [a \in Bindings |-> [age |-> None, tool |-> FALSE]]
    /\ snapshot = NoSnapshot
    /\ ledger = [orphaned |-> None, stuck |-> FALSE]
    /\ sighted = FALSE /\ hardGate = FALSE
    /\ heard = [event |-> "fine", stale |-> 0, quiet |-> 0, over |-> {}]

OrNext ==
    \/ \E upTo \in {"gate", "sightings", "events", "ledger"}, abandons \in BOOLEAN :
           CheckRuns(upTo, abandons)
    \/ CheckFails \/ SnapshotTaken
    \/ \E a \in Bindings, tool \in BOOLEAN : Writes(a, tool)
    \/ Beats \/ OwnerDies
    \/ Moves({"running"}, "wedged") \/ Moves({"wedged"}, "running")
    \/ Moves({"running", "wedged"}, "done")

OrSpec == OrInit /\ [][OrNext]_orVars

-----------------------------------------------------------------------------
\* The types of the item, the snapshot and the files of the check.
OrTypeOK ==
    /\ item \in [status : Statuses, registered : 0..BindGrace,
                 heartbeat : Ages(BeatStale), ownerDead : BOOLEAN]
    /\ transcript \in [Bindings -> [age : Ages(TranscriptCap), tool : BOOLEAN]]
    /\ snapshot \in [is : {"unknown", "none", "alive", "dead"}, age : Ages(TranscriptCap),
                     call : BOOLEAN, lives : SUBSET {CallMax, TranscriptCap}]
    /\ ledger \in [orphaned : Ages(AgeCap), stuck : BOOLEAN]
    /\ {sighted, hardGate} \subseteq BOOLEAN

\* queue_check.rs: the same item has to read stale in two runs in a row before an event
\* says that its agent died, whatever run failed between.
SoftSeenTwice == heard.event = "soft" => heard.stale = 2

\* "Acking does NOT resolve an orphan; this re-fires until the item leaves running": an
\* orphaned item is not left without an event for longer than the renotify time and the
\* two runs that soft evidence takes.
OrphanRetold == heard.quiet <= EscalateEvery + 1

\* The hard gate never holds an item one of whose agents wrote lately or was in a tool
\* call of ordinary length when the snapshot was taken, whoever else is bound to it.
LiveNotGated == CallMax \notin heard.over

\* Whoever lost its agent is told of, and nobody else is.
OrphansTold == OrTypeOK /\ SoftSeenTwice /\ OrphanRetold /\ LiveNotGated

\* queue_check.rs:930: an item whose agent is in a tool call, of whatever length, is
\* never a hard orphan.
CallNotGated == TranscriptCap \notin heard.over
=============================================================================
