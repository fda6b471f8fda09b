------------------------------ MODULE TokenTally ------------------------------
(***************************************************************************)
(* The token counter of `claude-watch metrics` (src/token_usage.rs).  Each *)
(* minute a pass sums the messages of all transcripts.  Transcripts are    *)
(* pruned by their owner, and a pass may fail to read one, or all of them; *)
(* a counter must not go down for that.  The cache of the pass is the      *)
(* ledger that keeps what a vanished transcript counted.                   *)
(***************************************************************************)
EXTENDS Naturals, FiniteSets, Functions

CONSTANTS
    Files,     \* transcripts; the path of one is never used again
    Months,    \* months 1..Months that the behaviour sees
    Messages,  \* bound: messages of all transcripts
    Retire     \* RETIRE_AFTER_SECS, in days

ASSUME TallyAssumption ==
    Months \in Nat \ {0} /\ Messages \in Nat /\ Retire \in Nat /\ IsFiniteSet(Files)

VARIABLES
    transcripts, \* per file: whether it is there, its messages by month, its lines
    rootUp,      \* the projects directory can be listed
    month,       \* the present month
    cache,       \* token-usage-cache.json: the entries of files, the retired sums
    pass,        \* the collector: its step, the new cache, the sums to print
    printed,     \* the last sums printed
    seen,        \* history: per file, the messages by month of its last read
    excused      \* history: the ledger was lost, or could not be saved

ttVars == <<transcripts, rootUp, month, cache, pass, printed, seen, excused>>

MonthIds == 1..Months
\* TokenCounts by local day: here, messages by month.
Days == [MonthIds -> Nat]
NoDays == [m \in MonthIds |-> 0]
\* merge_days.
MergeDays(a, b) == [m \in MonthIds |-> a[m] + b[m]]
MergedDays(of) == [m \in MonthIds |-> SumFunction([f \in Files |-> of[f][m]])]
Total(days) == SumFunction(days)

\* CacheEntry: the size it was read at, its sums, and missing_since: 0 while the file is
\* there, n + 1 when it has been missing for n days.
Present == 0
Unknown == [size |-> 0, days |-> NoDays, missing |-> Present]
NoCache == [files |-> [f \in Files |-> Unknown], retired |-> NoDays]
Known(c, f) == c.files[f] # Unknown
\* summarize.
NoSums == [cumulative |-> 0, monthToDate |-> 0]
Summarize(days) == [cumulative |-> Total(days), monthToDate |-> days[month]]

\* parse_transcript_days: a message is written more than once, and counts once.
DaysByLine(f) == [transcripts[f].days EXCEPT ![month] = @ + transcripts[f].lines - Total(transcripts[f].days)]
ParseTranscriptDays(f) == transcripts[f].days

\* collect_transcript_files.
CollectTranscriptFiles == {f \in Files : rootUp /\ transcripts[f].there}

\* The entry of a listed file: kept while its size is the same, read again when it
\* changed, and kept with its old size when it cannot be read.
Entry(f, unreadable) ==
    LET prev == cache.files[f] IN
    IF Known(cache, f) /\ prev.size = transcripts[f].lines THEN [prev EXCEPT !.missing = Present]
    ELSE IF f \in unreadable THEN prev
    ELSE [size |-> transcripts[f].lines, days |-> ParseTranscriptDays(f), missing |-> Present]

\* The absence of a file starts with the first pass that does not list it.
Missing(f) == LET e == cache.files[f] IN IF e.missing = Present THEN [e EXCEPT !.missing = 1] ELSE e
AnyScan(files) == FALSE
BrokenScan(files) == files = {}
Retires(f, files) == ~BrokenScan(files) /\ Missing(f).missing > Retire

\* load_cache: a cache that is not there, or broken, is an empty one.
NextFiles(files, unreadable) ==
    [f \in Files |-> IF f \in files THEN Entry(f, unreadable)
                     ELSE IF ~Known(cache, f) \/ Retires(f, files) THEN Unknown
                     ELSE Missing(f)]
DroppedDays(files) == cache.retired
RetiredDays(files) ==
    MergeDays(cache.retired,
              MergedDays([f \in Files |->
                  IF f \notin files /\ Known(cache, f) /\ Retires(f, files) THEN cache.files[f].days
                  ELSE NoDays]))
NewCache(files, unreadable) ==
    [files |-> NextFiles(files, unreadable), retired |-> RetiredDays(files)]
AllDays(c) == MergeDays(c.retired, MergedDays([f \in Files |-> c.files[f].days]))

-----------------------------------------------------------------------------
\* collect_token_usage_at, up to the save.
Collects(unreadable) ==
    LET files == CollectTranscriptFiles
        new == NewCache(files, unreadable)
    IN /\ pass.at = "off"
       /\ unreadable \subseteq files
       /\ pass' = [at |-> "saves", cache |-> new, sums |-> Summarize(AllDays(new))]
       /\ seen' = [f \in Files |-> IF f \in files \ unreadable THEN transcripts[f].days ELSE seen[f]]
       /\ UNCHANGED <<transcripts, rootUp, month, cache, printed, excused>>

\* save_cache: a sibling is written and renamed; a failure is ignored.
SavesCache(ok) ==
    /\ pass.at = "saves"
    /\ pass' = [pass EXCEPT !.at = "prints", !.cache = NoCache]
    /\ cache' = IF ok THEN pass.cache ELSE cache
    /\ excused' = (excused \/ ~ok)
    /\ UNCHANGED <<transcripts, rootUp, month, printed, seen>>

\* The lines of the counter and the gauge.
PrintsSums ==
    /\ pass.at = "prints"
    /\ pass' = [pass EXCEPT !.at = "off"]
    /\ printed' = pass.sums
    /\ UNCHANGED <<transcripts, rootUp, month, cache, seen, excused>>

-----------------------------------------------------------------------------
\* What happens between two passes: a session writes a message, or writes one again; a
\* transcript is pruned; the directory goes and comes; days and months pass; the
\* ledger is lost.
WithLine(t, again) ==
    [there |-> TRUE, lines |-> t.lines + 1,
     days |-> IF again THEN t.days ELSE [t.days EXCEPT ![month] = @ + 1]]
SessionWrites(f, again) ==
    LET t == transcripts[f] IN
    /\ pass.at = "off"
    /\ SumFunction([g \in Files |-> transcripts[g].lines]) < Messages
    /\ t.there \/ t.lines = 0
    /\ again => t.there /\ t.lines > 0
    /\ transcripts' = [transcripts EXCEPT ![f] = WithLine(t, again)]
    /\ UNCHANGED <<rootUp, month, cache, pass, printed, seen, excused>>
PrunedAway(f) ==
    /\ transcripts[f].there
    /\ transcripts' = [transcripts EXCEPT ![f].there = FALSE]
    /\ UNCHANGED <<rootUp, month, cache, pass, printed, seen, excused>>
RootFlips ==
    /\ pass.at = "off"
    /\ rootUp' = ~rootUp
    /\ UNCHANGED <<transcripts, month, cache, pass, printed, seen, excused>>
ADayLater(e) == IF e.missing \in {Present, Retire + 1} THEN e ELSE [e EXCEPT !.missing = @ + 1]
DayPasses ==
    /\ pass.at = "off"
    /\ cache' = [cache EXCEPT !.files = [f \in Files |-> ADayLater(cache.files[f])]]
    /\ UNCHANGED <<transcripts, rootUp, month, pass, printed, seen, excused>>
MonthTurns ==
    /\ pass.at = "off" /\ month < Months
    /\ month' = month + 1
    /\ UNCHANGED <<transcripts, rootUp, cache, pass, printed, seen, excused>>
CacheLost ==
    /\ pass.at = "off" /\ cache # NoCache
    /\ cache' = NoCache /\ excused' = TRUE
    /\ UNCHANGED <<transcripts, rootUp, month, pass, printed, seen>>

TtInit ==
    /\ transcripts = [f \in Files |-> [there |-> FALSE, days |-> NoDays, lines |-> 0]]
    /\ rootUp = TRUE /\ month = 1 /\ cache = NoCache
    /\ pass = [at |-> "off", cache |-> NoCache, sums |-> NoSums] /\ printed = NoSums
    /\ seen = [f \in Files |-> NoDays] /\ excused = FALSE

TtNext ==
    \/ \E unreadable \in SUBSET Files : Collects(unreadable)
    \/ \E ok \in BOOLEAN : SavesCache(ok)
    \/ PrintsSums \/ RootFlips \/ DayPasses \/ MonthTurns \/ CacheLost
    \/ \E f \in Files : PrunedAway(f) \/ \E again \in BOOLEAN : SessionWrites(f, again)

TtSpec == TtInit /\ [][TtNext]_ttVars

-----------------------------------------------------------------------------
\* The types of the transcripts, the ledger and the pass.
TtTypeOK ==
    /\ rootUp \in BOOLEAN /\ month \in MonthIds /\ excused \in BOOLEAN
    /\ \A f \in Files : cache.files[f].missing \in 0..Retire + 1
    /\ pass.at \in {"off", "saves", "prints"}

\* What every read found, of the transcripts that are there and of those that are gone.
SeenDays == MergedDays(seen)

\* The sums of a pass hold each message that was ever read, once: neither pruning, nor a
\* transcript or a directory that cannot be read, nor the retirement of an entry takes
\* one away or counts it twice.
SumsAreWhatWasSeen == pass.at # "off" /\ ~excused => pass.sums = Summarize(SeenDays)

\* Nothing is counted twice, even when the ledger was lost.
NothingTwice == pass.at # "off" => pass.sums.cumulative <= Total(SeenDays)

\* The counter that is printed never goes down while the ledger stands.
CounterRises == pass.at # "off" /\ ~excused => printed.cumulative <= pass.sums.cumulative

\* The counter is the tokens that were used.
TallyTrue == TtTypeOK /\ SumsAreWhatWasSeen /\ NothingTwice /\ CounterRises

\* What token_usage.rs says of a ledger that is lost: "the counter simply continues from
\* the current value - no downward step".  It does step down, by what was pruned.
NoStepDown == pass.at # "off" => printed.cumulative <= pass.sums.cumulative
=============================================================================
