------------------------------ MODULE DeskStreak ------------------------------
(***************************************************************************)
(* The desk-streak gauges of `claude-watch metrics` (src/metrics.rs): how  *)
(* long the operator has been at the desk, the longest run of the week and *)
(* of all time.  A pass folds the presence samples that Prometheus kept,   *)
(* or, when it does not answer, goes on from its own sidecar file.         *)
(***************************************************************************)
EXTENDS Naturals

CONSTANTS
    Horizon,  \* bound: minutes 1..Horizon of the behaviour
    WeekEnd,  \* the last minute of the first week
    MaxGap,   \* desk_streak_max_gap_secs: the widest hole that is bridged
    Lookback, \* desk_streak_lookback_secs: what Prometheus is asked for
    Step      \* effective_step_secs: the spacing of its answer

ASSUME StreakAssumption ==
    {Horizon, WeekEnd, MaxGap, Lookback, Step} \subseteq Nat \ {0}

VARIABLES
    now,      \* the minute
    present,  \* the presence carrier is fresh
    scraped,  \* what Prometheus holds: minutes it has a sample of, those at the desk
    sidecar,  \* desk_streak.json
    shown,    \* the last gauges, and the minute they are of
    passes,   \* history: the minutes of passes that found the operator at the desk
    forgotten \* history: the sidecar was lost or could not be written

dsVars == <<now, present, scraped, sidecar, shown, passes, forgotten>>

Never == 0
Larger(a, b) == IF a >= b THEN a ELSE b

\* sunday_week_key.
WeekOf(t) == IF t <= WeekEnd THEN 1 ELSE 2

\* StreakState; a run that starts at Never is no run.
NoStreak == [runStart |-> Never, weeklyMax |-> 0, weekStart |-> Never, alltimeMax |-> 0,
             lastSample |-> Never, lastPresent |-> FALSE]

\* advance_streak: a run goes on unless the hole since the last sample is too wide; the
\* maximum of a week ends with it.
RunStart(prev, t) ==
    IF /\ prev.runStart # Never /\ prev.lastPresent
       /\ t - prev.lastSample <= MaxGap
    THEN prev.runStart ELSE t
Current(s, t) == IF s.runStart = Never THEN 0 ELSE t - s.runStart
WeeklySoFar(prev, t) == IF prev.weekStart = WeekOf(t) THEN prev.weeklyMax ELSE 0
Advance(prev, here, t, start) ==
    LET current == IF here THEN t - start ELSE 0 IN
    [runStart |-> IF here THEN start ELSE Never,
     weeklyMax |-> Larger(WeeklySoFar(prev, t), current), weekStart |-> WeekOf(t),
     alltimeMax |-> Larger(prev.alltimeMax, current),
     lastSample |-> t, lastPresent |-> here]
\* Another advance: whatever the hole.
AdvanceBridging(prev, here, t) ==
    Advance(prev, here, t, IF prev.runStart # Never THEN prev.runStart ELSE t)
AdvanceStreak(prev, here, t) == Advance(prev, here, t, RunStart(prev, t))

\* parse_prom_presence: the samples of the window, at the spacing asked.
Samples == {t \in scraped.minutes : t < now /\ t + Lookback >= now /\ (now - t) % Step = 0}

\* compute_streak_from_samples: their fold, oldest first, and then the live sample.
Folded[t \in 0..Horizon] ==
    IF t = 0 THEN NoStreak
    ELSE IF t \in Samples THEN AdvanceStreak(Folded[t - 1], t \in scraped.atDesk, t)
    ELSE Folded[t - 1]
ComputeStreak == AdvanceStreak(Folded[now - 1], present, now)

\* merge_persisted_maxes: the sidecar is a floor, of the week only for the same week.
NoFloor(computed, persisted) == computed
MergePersistedMaxes(computed, persisted) ==
    [computed EXCEPT
        !.alltimeMax = Larger(@, persisted.alltimeMax),
        !.weeklyMax = IF computed.weekStart = persisted.weekStart
                      THEN Larger(@, persisted.weeklyMax) ELSE @]

\* desk_streak_block: Prometheus when it answers, the sidecar when it does not.
NextStreak(answers) ==
    IF answers THEN MergePersistedMaxes(ComputeStreak, sidecar)
    ELSE AdvanceStreak(sidecar, present, now)

-----------------------------------------------------------------------------
\* cmd_metrics: a pass shows the gauges and saves the sidecar (a failure is ignored);
\* the scrape of what it wrote may be missed.
Passes(answers, scrapes, saves) ==
    LET next == NextStreak(answers) IN
    /\ shown.at # now
    /\ shown' = [at |-> now, current |-> Current(next, now), weeklyMax |-> next.weeklyMax,
                 alltimeMax |-> next.alltimeMax]
    /\ sidecar' = IF saves THEN next ELSE sidecar
    /\ forgotten' = (forgotten \/ ~saves)
    /\ passes' = IF present THEN passes \cup {now} ELSE passes
    /\ scraped' = IF scrapes
                  THEN [minutes |-> scraped.minutes \cup {now},
                        atDesk |-> IF present THEN scraped.atDesk \cup {now} ELSE scraped.atDesk]
                  ELSE scraped
    /\ UNCHANGED <<now, present>>

\* A minute passes, with or without a pass in it: the machine may have slept.
Minute(here) ==
    /\ now < Horizon
    /\ now' = now + 1 /\ present' = here
    /\ UNCHANGED <<scraped, sidecar, shown, passes, forgotten>>

\* The sidecar is lost; load_streak_state then starts from nothing.
SidecarLost ==
    /\ sidecar # NoStreak
    /\ sidecar' = NoStreak /\ forgotten' = TRUE
    /\ UNCHANGED <<now, present, scraped, shown, passes>>

\* Prometheus forgets: a new one, or one whose data is gone.
PrometheusLost ==
    /\ scraped.minutes # {}
    /\ scraped' = [minutes |-> {}, atDesk |-> {}]
    /\ UNCHANGED <<now, present, sidecar, shown, passes, forgotten>>

DsInit ==
    /\ now = 1 /\ present \in BOOLEAN
    /\ scraped = [minutes |-> {}, atDesk |-> {}] /\ sidecar = NoStreak
    /\ shown = [at |-> 0, current |-> 0, weeklyMax |-> 0, alltimeMax |-> 0]
    /\ passes = {} /\ forgotten = FALSE

DsNext ==
    \/ \E answers, scrapes, saves \in BOOLEAN : Passes(answers, scrapes, saves)
    \/ \E here \in BOOLEAN : Minute(here)
    \/ SidecarLost \/ PrometheusLost

DsSpec == DsInit /\ [][DsNext]_dsVars

-----------------------------------------------------------------------------
\* The types of the clock and of the gauges.
DsTypeOK ==
    /\ now \in 1..Horizon /\ present \in BOOLEAN /\ forgotten \in BOOLEAN
    /\ shown \in [at : 0..Horizon, current : 0..Horizon, weeklyMax : 0..Horizon,
                  alltimeMax : 0..Horizon]

\* A run that is shown was witnessed: from its start to now no stretch wider than the
\* gap is without a pass that found the operator at the desk, whichever source the
\* passes in between went by.
RunWitnessed ==
    shown.current > 0 =>
        LET start == shown.at - shown.current IN
        /\ {start, shown.at} \subseteq passes
        /\ \A t \in start..shown.at - 1 : \E u \in t + 1..t + MaxGap : u \in passes

\* The longest runs hold the run that is shown, and the one of the week is not longer
\* than that of all time.
MaximaHold == shown.current <= shown.weeklyMax /\ shown.weeklyMax <= shown.alltimeMax

\* With the sidecar kept, no pass takes back a longest run, and none of the week within
\* its week: neither a Prometheus that lost its data nor one that does not answer.
MaximaStand ==
    ~forgotten => \A answers \in BOOLEAN :
        LET next == NextStreak(answers) IN
        /\ shown.alltimeMax <= next.alltimeMax
        /\ shown.at # 0 /\ WeekOf(shown.at) = WeekOf(now) => shown.weeklyMax <= next.weeklyMax

\* The streak gauges say what was seen.
StreakTrue == DsTypeOK /\ RunWitnessed /\ MaximaHold /\ MaximaStand

\* A run that goes on is not cut, while Prometheus answers with every sample: what
\* metrics.rs says of a step that is made coarser ("it never introduces spurious run
\* breaks"), which holds only for a step within the gap.
NoSpuriousBreak ==
    (\A t \in 1..now - 1 : t \in scraped.atDesk) /\ present /\ now <= Lookback
        => Current(ComputeStreak, now) >= now - Step
=============================================================================
