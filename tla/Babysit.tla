-------------------------------- MODULE Babysit --------------------------------
(***************************************************************************)
(* The heartbeats of a workload (src/workload.rs): the wrapper's sidecar   *)
(* that pats the bound queue item, the one that touches a file when the    *)
(* output grows, and `workload babysit`, which waits for the run in one    *)
(* call and pats the item meanwhile.  A label may be run again as soon as  *)
(* its run is over, while somebody still waits for the first.              *)
(***************************************************************************)
EXTENDS Naturals

CONSTANTS
    PatEvery,   \* QUEUE_HEARTBEAT_INTERVAL_SECS
    ProbeEvery, \* WORKLOAD_RUNTIME_HEARTBEAT_INTERVAL_SECS
    MaxAge,     \* workload_heartbeat_max_age_secs
    BeatEvery, MaxBlock, PollEvery \* --heartbeat, --max-block, --poll

ASSUME BabysitAssumption ==
    {PatEvery, ProbeEvery, MaxAge, BeatEvery, MaxBlock, PollEvery} \subseteq Nat \ {0}

VARIABLES
    run,     \* the label's run, 1 or 2, how far it is, and its exit code
    marker,  \* <label>.exit
    held,    \* the queue item: the age of last_heartbeat_at, whether the wrapper has a
             \* sidecar that pats it, and the time to the next pat
    output,  \* the log: how long it has not grown, whether it has since the last probe
    touched, \* the runtime heartbeat file: its age, and time to the next probe
    waiter,  \* babysit: its step, the run it waits for, elapsed, next beat, rest of its nap
    verdict  \* what it returned, and whether it looked at the run it was started for

bbVars == <<run, marker, held, output, touched, waiter, verdict>>

NoMarker == 9
Smaller(a, b) == IF a < b THEN a ELSE b
\* The ages are capped where nothing depends on them any more (bounds).
MostItem == 1 + PatEvery + BeatEvery + PollEvery
MostQuiet == 1 + ProbeEvery + MaxAge
Up == run.at \in {"up", "wrote"}
NoWait == [at |-> "off", of |-> 1, elapsed |-> 0, next |-> 0, nap |-> 0]
NoVerdict == [kind |-> "none", rc |-> 0, true |-> 0]

-----------------------------------------------------------------------------
\* build_wrapper_script: the payload ends, its code is written to <label>.exit, and the
\* pane goes; the EXIT trap ends the sidecars and removes the heartbeat file.
PayloadEnds(rc) ==
    /\ run.at = "up" /\ run' = [run EXCEPT !.at = "wrote", !.rc = rc]
    /\ marker' = rc
    /\ UNCHANGED <<held, output, touched, waiter, verdict>>

PaneGoes ==
    /\ Up /\ run' = [run EXCEPT !.at = "gone", !.rc = IF run.at = "up" THEN 1 ELSE @]
    /\ touched' = [touched EXCEPT !.age = MaxAge + 1]
    /\ UNCHANGED <<marker, held, output, waiter, verdict>>

\* cmd_run of the same label: the marker of the last run is removed.
RunsAgain(sidecar) ==
    /\ run.at = "gone" /\ run.number = 1
    /\ run' = [number |-> 2, at |-> "up", rc |-> 0]
    /\ marker' = NoMarker
    /\ held' = [age |-> 0, sidecar |-> sidecar, pat |-> PatEvery]
    /\ output' = [quiet |-> 0, grew |-> FALSE]
    /\ touched' = [age |-> 0, probe |-> ProbeEvery]
    /\ UNCHANGED <<waiter, verdict>>

PrintsVerdict ==
    /\ run.at = "up" /\ output' = [quiet |-> 0, grew |-> TRUE]
    /\ UNCHANGED <<run, marker, held, touched, waiter, verdict>>

\* A plain timer would touch the file whatever the output does.
TouchesAnyway == [age |-> 0, probe |-> ProbeEvery]

\* The sidecar's probe: a touch when the size of the log has changed since the last.
Probed == [age |-> IF output.grew THEN 0 ELSE Smaller(touched.age + 1, MaxAge + 1),
           probe |-> ProbeEvery]

\* workload_heartbeat_fresh: what the daemon takes for progress; it then says nothing of a
\* session that seems stuck.
SeemsBusy == touched.age <= MaxAge

-----------------------------------------------------------------------------
\* babysit_loop: a heartbeat up front.
FirstBeatLate == held
FirstBeat == [held EXCEPT !.age = 0]
Babysits ==
    /\ waiter.at = "off" /\ verdict = NoVerdict
    /\ run.at # "gone" \/ marker # NoMarker
    /\ waiter' = [at |-> "marker", of |-> run.number, elapsed |-> 0, next |-> BeatEvery, nap |-> 0]
    /\ held' = FirstBeat
    /\ UNCHANGED <<run, marker, output, touched, verdict>>

Returns(kind, rc) ==
    /\ waiter' = NoWait
    /\ verdict' = [kind |-> kind, rc |-> rc,
                   true |-> IF run.number # waiter.of \/ run.at = "up" THEN NoMarker ELSE run.rc]

\* babysit_is_done: the marker first,
ReadsMarker ==
    /\ waiter.at = "marker"
    /\ IF marker # NoMarker THEN Returns("done", marker)
       ELSE waiter' = [waiter EXCEPT !.at = "pane"] /\ UNCHANGED verdict
    /\ UNCHANGED <<run, marker, held, output, touched>>

\* then the pane: one that is gone passes for a crash.  Next the end of the block, then
\* a heartbeat that is due, then a nap.
BeatsDue == waiter.elapsed >= waiter.next
LooksAtPane ==
    /\ waiter.at = "pane"
    /\ IF run.number # waiter.of \/ run.at = "gone" THEN Returns("done", 1) /\ UNCHANGED held
       ELSE IF waiter.elapsed >= MaxBlock THEN Returns("rerun", 0) /\ UNCHANGED held
       ELSE /\ held' = IF BeatsDue THEN [held EXCEPT !.age = 0] ELSE held
            /\ waiter' = [waiter EXCEPT !.at = "naps", !.nap = PollEvery,
                                        !.next = IF BeatsDue THEN @ + BeatEvery ELSE @]
            /\ UNCHANGED verdict
    /\ UNCHANGED <<run, marker, output, touched>>

\* The caller reads the verdict, and may come back.
ReadMarker ==
    /\ verdict # NoVerdict /\ verdict' = NoVerdict
    /\ UNCHANGED <<run, marker, held, output, touched, waiter>>

\* A second (of the model): the steps of the waiter between two naps take none.
Second ==
    /\ waiter.at \in {"off", "naps"}
    /\ held' = IF held.sidecar /\ Up /\ held.pat = 1
               THEN [held EXCEPT !.age = 0, !.pat = PatEvery]
               ELSE [held EXCEPT !.age = Smaller(@ + 1, MostItem),
                                 !.pat = IF Up /\ @ > 1 THEN @ - 1 ELSE @]
    /\ LET probes == Up /\ touched.probe = 1
       IN  /\ touched' = IF probes THEN Probed
                         ELSE [age |-> Smaller(touched.age + 1, MaxAge + 1),
                               probe |-> IF Up THEN touched.probe - 1 ELSE touched.probe]
           /\ output' = [quiet |-> Smaller(output.quiet + 1, MostQuiet),
                         grew |-> IF probes THEN FALSE ELSE output.grew]
    /\ waiter' = IF waiter.at = "off" THEN waiter
                 ELSE [waiter EXCEPT !.elapsed = @ + 1, !.nap = @ - 1,
                                     !.at = IF waiter.nap = 1 THEN "marker" ELSE "naps"]
    /\ UNCHANGED <<run, marker, verdict>>

BbInit ==
    /\ run = [number |-> 1, at |-> "up", rc |-> 0] /\ marker = NoMarker
    /\ held \in [age : {0}, sidecar : BOOLEAN, pat : {PatEvery}] /\ output = [quiet |-> 0, grew |-> FALSE]
    /\ touched = [age |-> 0, probe |-> ProbeEvery] /\ waiter = NoWait /\ verdict = NoVerdict

BbNext ==
    \/ \E rc \in {0, 1} : PayloadEnds(rc)
    \/ \E sidecar \in BOOLEAN : RunsAgain(sidecar)
    \/ PaneGoes \/ PrintsVerdict
    \/ Babysits \/ ReadsMarker \/ LooksAtPane \/ ReadMarker \/ Second

BbSpec == BbInit /\ [][BbNext]_bbVars

-----------------------------------------------------------------------------
\* The types of the run, its files and the waiter.
BbTypeOK ==
    /\ run \in [number : {1, 2}, at : {"up", "wrote", "gone"}, rc : {0, 1}]
    /\ marker \in {0, 1, NoMarker}
    /\ held \in [age : 0..MostItem, sidecar : BOOLEAN, pat : 1..PatEvery]
    /\ output \in [quiet : 0..MostQuiet, grew : BOOLEAN]
    /\ touched \in [age : 0..(MaxAge + 1), probe : 1..ProbeEvery]
    /\ waiter \in [at : {"off", "marker", "pane", "naps"}, of : {1, 2},
                   elapsed : 0..(MaxBlock + PollEvery), next : 0..(MaxBlock + BeatEvery + PollEvery),
                   nap : 0..PollEvery]

\* While the wrapper lives the item's heartbeat is never older than the interval of the
\* sidecar, babysat or not; without the sidecar a babysitter keeps it as young as its
\* own interval and one poll allow.
ItemKeptAlive ==
    /\ held.sidecar /\ Up => held.age <= PatEvery
    /\ waiter.at \notin {"off", "marker"} => held.age <= BeatEvery + PollEvery

\* A workload that prints nothing is seen as stuck at the latest when the last touch it
\* earned has aged: a probe interval and the maximal age after its last line.
HungIsSeen == output.quiet > ProbeEvery + MaxAge => ~SeemsBusy

\* The heartbeats say who is alive and who gets on.
HeartbeatsTrue == BbTypeOK /\ ItemKeptAlive /\ HungIsSeen

\* workload.rs:2382 "Pane gone but no exit file — the wrapper died before writing its
\* marker": a run that wrote its code between the two looks is told as a crash.
DoneIsTrue == verdict.kind = "done" => verdict.rc = verdict.true
=============================================================================
