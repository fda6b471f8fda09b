----------------------------- MODULE AutoUpdate -----------------------------
(***************************************************************************)
(* The update of Claude Code (src/policy.rs, check_update_trigger,         *)
(* check_auto_update, run_auto_update) and the resume prompt after a clear *)
(* (check_cycle).  The update is a task of its own: while it takes the     *)
(* session down and brings it up again, the passes of the daemon go on and *)
(* see a session whose context was cleared.  The daemon keeps its state in *)
(* memory and writes all of it in every pass; the task reads and writes    *)
(* the file.                                                               *)
(***************************************************************************)
EXTENDS DaemonGates

CONSTANTS
    CleanRelaunch,   \* relaunch_command is set
    UpdateCooldown,  \* cooldown_hours
    StaleAfter,      \* the 3600 s after which an update counts as stuck
    ClearWindow,     \* post_clear_window_secs
    IdleChecks       \* detections_required

ASSUME UpdateAssumption ==
    /\ CleanRelaunch \in BOOLEAN
    /\ {UpdateCooldown, StaleAfter, ClearWindow, IdleChecks} \subseteq Nat

VARIABLES
    pane,     \* "live" and "idle" with a full context, "low" idle with an empty
              \* one, "consent" (bypass dialog), "picker", "boot", "down" (a shell)
    task,     \* the update: "none", or what it does next
    mem,      \* the daemon's memory: update_in_progress, last_update_attempt,
              \* high (last_seen_tokens was), last_context_clear, done
              \* (post_clear_resume_injected_for is that clear), idle checks
    file,     \* of these on disk, what the two write: update_in_progress, done
    booted,   \* history: the session was started since the task took it down
    raw,      \* history: the resume prompt was typed into a shell that was
              \* never left since
    resumed,  \* history: the task told the session to resume, and no clear since
    doubled,  \* history: the daemon then told it once more
    stranded  \* history: passes in which a cleared session waited for a prompt

auVars == <<pane, task, mem, file, booted, raw, resumed, doubled, stranded>>

IsUp(p) == p \in {"live", "idle", "low", "consent", "picker"}
AtPrompt(p) == p \in {"idle", "low"}

\* What a pass finds: due (the minute, the versions, and the hook allow an
\* update), trigger (the trigger file), low (a full context that is misread as
\* an empty one), shells (background shells), acked (last event-ack is fresh),
\* wedged, clearing (the daemon's own clear is recent).
PassSights == [due : BOOLEAN, trigger : BOOLEAN, low : BOOLEAN, shells : BOOLEAN,
               acked : BOOLEAN, wedged : BOOLEAN, clearing : BOOLEAN]

\* What a pass asks for: an update of a session that is up and not being updated, and
\* whether the pane is wedged of one that has acked.
AskedFor(sight) ==
    /\ sight.due \/ sight.trigger => task = "none" /\ IsUp(pane)
    /\ ~(sight.due /\ sight.trigger)
    /\ sight.wedged => sight.acked

ReadsLow(sight) == pane \notin {"live", "idle"} \/ sight.low
AttemptCap == IF StaleAfter < UpdateCooldown THEN UpdateCooldown ELSE StaleAfter + 1
MemAged ==
    [mem EXCEPT !.attempt = Older(@, AttemptCap), !.clear = Older(@, ClearWindow)]

-----------------------------------------------------------------------------
\* check_update_trigger asks nobody; check_auto_update asks the flag, which it
\* believes for an hour, and the cooldown.
StartsUpdate(sight, m) ==
    \/ sight.trigger
    \/ /\ sight.due
       /\ m.updating => m.attempt = None \/ m.attempt > StaleAfter
       /\ ~Within(m.attempt, UpdateCooldown)

\* maybe_reset_context_clear: a clear that the daemon did not ask for.
Observes(sight, m) ==
    IF ReadsLow(sight) /\ m.high
    THEN [m EXCEPT !.high = FALSE, !.clear = 0, !.done = FALSE]
    ELSE [m EXCEPT !.high = ~ReadsLow(sight)]

\* post_clear_resume_due, and the condition of its block.
Gate(sight, m) ==
    /\ ReadsLow(sight) /\ m.clear # None /\ ~m.done
    /\ ~(sight.acked /\ ~sight.wedged)
ResumeDueLate(sight, m) ==
    /\ Gate(sight, m) /\ Within(m.clear, ClearWindow) /\ ~sight.clearing
    /\ AtPrompt(pane) /\ m.idle >= IdleChecks
ResumeDue(sight, m) ==
    /\ Gate(sight, m) /\ Within(m.clear, ClearWindow) /\ ~sight.clearing
    /\ AtPrompt(pane) /\ m.idle + 1 >= IdleChecks

\* A pass, as far as it gets: a session without tokens and shells is left to
\* the dead-process branch.
AuPass(sight) ==
    LET m == Observes(sight, MemAged)
        starts == IsUp(pane) /\ task = "none" /\ StartsUpdate(sight, m)
        reaches == IsUp(pane) /\ (sight.shells \/ ~ReadsLow(sight) \/ sight.low)
        resumes == reaches /\ ResumeDue(sight, m)
        begun == IF starts THEN [m EXCEPT !.updating = TRUE, !.attempt = 0] ELSE m
    IN  /\ sight.low => pane \in {"live", "idle"}
        /\ mem' = IF ~reaches THEN m
                  ELSE IF resumes THEN [begun EXCEPT !.done = TRUE, !.idle = 0]
                  ELSE IF Gate(sight, begun) /\ AtPrompt(pane)
                  THEN [begun EXCEPT !.idle = Least(@ + 1, IdleChecks)]
                  ELSE [begun EXCEPT !.idle = 0]
        /\ file' = [updating |-> mem'.updating, done |-> mem'.done]
        /\ task' = IF starts /\ reaches THEN "stop" ELSE task
        /\ pane' \in (IF resumes THEN {pane, "live"} ELSE {pane})
        /\ doubled' = (doubled \/ (resumes /\ resumed))
        /\ stranded' = IF /\ pane = "low" /\ sight.shells /\ ~sight.acked /\ ~sight.clearing
                          /\ m.clear # None /\ m.clear < ClearWindow /\ ~m.done /\ ~resumes
                       THEN stranded + 1 ELSE 0
        /\ UNCHANGED <<booted, raw, resumed>>

-----------------------------------------------------------------------------
\* The task.  The working session is interrupted, then relaunched at once, or
\* told to exit.
Fail == task' = "end"

TaskStops ==
    /\ task = "stop"
    /\ pane' \in (IF CleanRelaunch THEN {pane, "boot", "down"}
                  ELSE {pane, "picker", "down"} \ (IF pane = "down" THEN {"picker"} ELSE {}))
    /\ task' = IF CleanRelaunch THEN "await" ELSE "exit"
    /\ booted' = (pane' # "down")
    /\ resumed' = FALSE /\ stranded' = 0
    /\ UNCHANGED <<mem, file, raw, doubled>>

\* wait_for_exit, at most two /exit; the picker that swallowed one is cancelled.
TaskExits ==
    /\ task = "exit"
    /\ \/ pane = "down" /\ task' = "launch" /\ booted' = FALSE /\ UNCHANGED pane
       \/ pane # "down" /\ Fail /\ pane' = (IF pane = "picker" THEN "idle" ELSE pane)
          /\ UNCHANGED booted
    /\ UNCHANGED <<mem, file, raw, resumed, doubled, stranded>>

\* The script is written and typed into the shell, or cannot be written.
TaskLaunches ==
    /\ task = "launch"
    /\ \/ task' = "await" /\ pane' \in (IF pane = "down" THEN {"down", "boot"} ELSE {pane})
       \/ Fail /\ UNCHANGED pane
    /\ booted' = (booted \/ pane' = "boot")
    /\ UNCHANGED <<mem, file, raw, resumed, doubled, stranded>>

\* wait_for_claude_binary; a failed launch is repeated by the respawn command.
AwaitedAnyway == TRUE
Awaited == IsUp(pane) \/ pane = "boot"
TaskAwaits ==
    /\ task = "await"
    /\ \/ Awaited /\ task' = "settle" /\ UNCHANGED pane
       \/ ~Awaited /\ Fail /\ pane' \in (IF CleanRelaunch THEN {pane} ELSE {pane, "boot"})
       \/ ~Awaited /\ ~CleanRelaunch /\ pane' = "boot" /\ task' = "settle"
    /\ booted' = (booted \/ pane' = "boot")
    /\ UNCHANGED <<mem, file, raw, resumed, doubled, stranded>>

\* settle_bypass_permissions_dialog: accepted, not seen, or stuck.
TaskSettles ==
    /\ task = "settle"
    /\ \/ pane = "consent" /\ pane' = "low" /\ task' = "resume"
       \/ pane # "consent" /\ task' = "resume" /\ UNCHANGED pane
       \/ pane = "consent" /\ Fail /\ UNCHANGED pane
    /\ UNCHANGED <<mem, file, booted, raw, resumed, doubled, stranded>>

\* The prompt is typed, idle or not; then the clean relaunch stamps the clear.
TaskResumes ==
    /\ task = "resume"
    /\ pane' \in (IF AtPrompt(pane) THEN {pane, "live", "idle"} ELSE {pane})
    /\ resumed' = TRUE
    /\ raw' = (raw \/ (pane = "down" /\ ~booted))
    /\ task' = "end"
    /\ file' = IF CleanRelaunch THEN [file EXCEPT !.done = TRUE] ELSE file
    /\ UNCHANGED <<mem, booted, doubled, stranded>>

\* The flag is taken back, on disk.
TaskEnds ==
    /\ task = "end" /\ task' = "none"
    /\ file' = [file EXCEPT !.updating = FALSE]
    /\ UNCHANGED <<pane, mem, booted, raw, resumed, doubled, stranded>>

Task == TaskStops \/ TaskExits \/ TaskLaunches \/ TaskAwaits \/ TaskSettles \/ TaskResumes \/ TaskEnds

\* The session works, boots, is cleared by the operator, exits.
PaneMoves ==
    /\ pane' \in (CASE pane = "live" -> {"idle", "down"}
                    [] pane = "idle" -> {"live", "low", "down"}
                    [] pane = "low" -> {"live", "down"}
                    [] pane = "consent" -> {"low", "down"}
                    [] pane = "picker" -> {"idle", "down"}
                    [] pane = "boot" -> {"consent", "low", "down"}
                    [] pane = "down" -> {"boot"})
    /\ booted' = (booted \/ pane' # "down")
    /\ resumed' = (resumed /\ ~(pane = "idle" /\ pane' = "low") /\ pane' # "down")
    /\ stranded' = 0
    /\ UNCHANGED <<task, mem, file, raw, doubled>>

\* The daemon is started again, with the file's state; the task is gone.
AuRestart ==
    /\ mem' = [mem EXCEPT !.updating = file.updating, !.done = file.done]
    /\ task' = "none" /\ stranded' = 0
    /\ UNCHANGED <<pane, file, booted, raw, resumed, doubled>>

AuInit ==
    /\ pane = "live" /\ task = "none"
    /\ mem = [updating |-> FALSE, attempt |-> None, high |-> FALSE, clear |-> None,
              done |-> FALSE, idle |-> 0]
    /\ file = [updating |-> FALSE, done |-> FALSE]
    /\ booted = TRUE /\ raw = FALSE /\ resumed = FALSE /\ doubled = FALSE /\ stranded = 0

AuNext == (\E sight \in {s \in PassSights : AskedFor(s)} : AuPass(sight)) \/ Task \/ PaneMoves \/ AuRestart

AuSpec == AuInit /\ [][AuNext]_auVars

-----------------------------------------------------------------------------
\* The types of the update's part of the daemon's state.
AuTypeOK ==
    /\ pane \in {"live", "idle", "low", "consent", "picker", "boot", "down"}
    /\ task \in {"none", "stop", "exit", "launch", "await", "settle", "resume", "end"}
    /\ mem \in [updating : BOOLEAN, attempt : Ages(AttemptCap), high : BOOLEAN,
                clear : Ages(ClearWindow), done : BOOLEAN, idle : 0..IdleChecks]
    /\ file \in [updating : BOOLEAN, done : BOOLEAN]

\* The resume prompt of an update is not typed into the shell of a session
\* that never came up again (it would be run as a command).
NotIntoShell == ~raw

\* A session that was cleared by hand, and sits at its prompt with background
\* shells that survived, is told to resume after the required checks.
StrandedResumed == stranded = 0 \/ stranded < IdleChecks

\* "Sync the two fields to close that gap": a session that an update told to
\* resume is not told so a second time by the daemon (run_auto_update_clean_relaunch).
ResumedOnce == ~doubled
=============================================================================
