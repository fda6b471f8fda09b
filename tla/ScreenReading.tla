---------------------------- MODULE ScreenReading ----------------------------
(***************************************************************************)
(* What the daemon reads off the session's screen (src/tmux.rs,            *)
(* src/status.rs): whether it works or waits, how full its context is,     *)
(* whether it is alive at all.  The session draws a fixed layout: what     *)
(* scrolls, a widget while it works, the prompt between two rules, the     *)
(* status bar, one row per subagent.  A line is the set of the marks the   *)
(* readers look for, and the number drawn in it.                           *)
(***************************************************************************)
EXTENDS Naturals, SequencesExt

CONSTANTS
    Bottom,   \* the lines the status bar is read from (10 in the source)
    Above,    \* the lines the activity is read from (15)
    Scroll,   \* bound: lines of the scroll that are kept
    MaxAgents \* bound: subagents at once

ASSUME ScreenAssumption ==
    /\ {Bottom, Above, Scroll, MaxAgents} \subseteq Nat
    /\ Bottom > 0 /\ Above > 6 \* the widget, the box, the bar, a subagent and its title

VARIABLES
    scroll,     \* what was printed, the last lines of it
    turn,       \* what the session does
    agents,     \* how many subagents it runs, and whether their counts print in full
    background, \* what runs in the background
    total,      \* the status bar shows the size of the context
    overlay,    \* the panel of background tasks covers the prompt
    verbs       \* the words of the widget were found in the session's program

rdVars == <<scroll, turn, agents, background, total, overlay, verbs>>

Line(marks, number) == [marks |-> marks, number |-> number]
Plain(marks) == Line(marks, "none")
Printed == [text |-> Plain({}), echo |-> Plain({"prompt"}), bullet |-> Plain({"bullet"}),
            rule |-> Plain({"rule"}), stale |-> Line({"thinking", "paren", "arrow", "tok"}, "turn"),
            prose |-> Line({"tok"}, "prose"), attempt |-> Plain({"attempt"}),
            done |-> Plain({"completion"}), outlived |-> Plain({"completion", "still"})]
Widget ==
    CASE turn = "starting" -> <<Plain({"thinking", "paren", "verb"})>>
      [] turn = "thinking" -> <<Line({"thinking", "paren", "verb", "arrow", "tok"}, "turn")>>
      [] turn = "tool" -> <<Plain({"spinner"})>>
      [] turn = "writing" -> <<Plain({"bullet"})>>
      [] turn = "retrying" -> <<Plain({"apierror"}), Plain({"attempt"})>>
      [] OTHER -> <<>>
Counter == IF background = "none" THEN {} ELSE {"counter"} \cup {background}
Bar == <<Line({"marker"} \cup Counter \cup (IF total THEN {"tok"} ELSE {}),
              IF total THEN "total" ELSE "none")>>
Roster ==
    IF agents.count = 0 THEN <<>>
    ELSE <<Plain({"bullet"})>> \o
         [i \in 1..agents.count |->
            Line({"bullet", "arrow", "tok"} \cup (IF agents.full THEN {} ELSE {"kilo"}), "agent")]
Panel == <<Plain({"overlay"}), Plain({"overlay", "marker"} \cup Counter)>>
Box == <<Plain({"rule"}), Plain({"prompt"}), Plain({"rule"})>>
Screen == scroll \o Widget \o (IF overlay THEN Panel ELSE Box \o Bar \o Roster)

LastLines(n) == SubSeq(Screen, IF Len(Screen) > n THEN Len(Screen) - n + 1 ELSE 1, Len(Screen))
Some(lines, mark) == \E i \in DOMAIN lines : mark \in lines[i].marks

-----------------------------------------------------------------------------
\* is_active_thinking_line and detect_activity: what is above the first rule, and
\* whether a prompt is below it; an answer that is complete comes first.
FirstRule(lines) == SelectInSeq(lines, LAMBDA l : "rule" \in l.marks)
Read(lines, content, hasPrompt) ==
    IF hasPrompt /\ Some(content, "completion") THEN "Idle"
    ELSE IF Some(content, "thinking") THEN "Thinking"
    ELSE IF Some(content, "spinner") THEN "ToolRunning"
    ELSE IF Some(content, "bullet") THEN "Writing"
    ELSE IF hasPrompt THEN "Idle" ELSE "Unknown"
DetectWidgetFirst ==
    IF Some(LastLines(Above), "thinking") THEN "Thinking" ELSE "Idle"
DetectActivity ==
    LET lines == LastLines(Above)
        rule == FirstRule(lines)
    IN IF rule = 0
       THEN IF Some(lines, "prompt") THEN "Idle" ELSE Read(lines, lines, FALSE)
       ELSE Read(lines, SubSeq(lines, 1, rule - 1), Some(SubSeq(lines, rule, Len(lines)), "prompt"))

\* check_lines_for_idle_prompt.
IdlePrompt == Some(LastLines(Above), "prompt")
\* check_lines_for_foreground_busy.
ForegroundBusy == ~Some(LastLines(Bottom), "prompt") /\ Some(LastLines(Bottom), "spinner")
\* check_lines_for_api_retry: a retry that is announced, and the error it is for.
AnyAttempt == Some(LastLines(Above), "attempt")
ApiRetry == Some(LastLines(Above), "attempt") /\ Some(LastLines(Above), "apierror")

\* is_agent_roster_row.
RosterRow(l) == {"bullet", "arrow", "tok"} \subseteq l.marks /\ "paren" \notin l.marks

\* parse_status_bar_with_diag: with a bar in sight, the last bare count of the bottom
\* lines; a count behind an arrow is of a turn or of a subagent.
AllCounts(lines) == {i \in DOMAIN lines : "tok" \in lines[i].marks /\ "kilo" \notin lines[i].marks}
BareCounts(lines) == {i \in DOMAIN lines : "tok" \in lines[i].marks /\ "arrow" \notin lines[i].marks}
Tokens ==
    LET lines == LastLines(Bottom)
        counts == BareCounts(lines)
    IN IF Some(lines, "marker") /\ counts # {}
       THEN lines[CHOOSE i \in counts : \A j \in counts : j <= i].number ELSE "none"
Bashes == Some(IF Some(Screen, "overlay") THEN Screen ELSE LastLines(Bottom), "counter")
SawStatusBar ==
    \/ Some(LastLines(Bottom), "marker") \/ Some(Screen, "overlay")
    \/ \E i \in DOMAIN Screen : {"arrow", "tok"} \subseteq Screen[i].marks
\* is_parse_miss, of a screen that is not blank.
ParseMiss == Tokens = "none" /\ ~Bashes /\ ~SawStatusBar

\* pane_shows_active_ui, pane_shows_a_discovered_thinking_verb: anywhere on the screen.
ActiveLine(l) ==
    \/ RosterRow(l) \/ {"arrow", "tok"} \subseteq l.marks
    \/ {"overlay", "still", "monitors"} \cap l.marks # {}
    \/ verbs /\ "verb" \in l.marks
ActiveUI == \E i \in DOMAIN Screen : ActiveLine(Screen[i])

\* get_claude_status_inner: what the daemon takes for a session that is new or gone.
LooksFresh == Tokens = "none" /\ ~Bashes /\ ~ActiveUI

-----------------------------------------------------------------------------
\* The session.
Working == {"starting", "thinking", "tool", "writing", "retrying"}
Kept(lines) == SubSeq(lines, IF Len(lines) > Scroll THEN Len(lines) - Scroll + 1 ELSE 1, Len(lines))
Submits ==
    /\ turn = "rest" /\ ~overlay
    /\ turn' = "starting" /\ scroll' = Kept(Append(scroll, Printed.echo))
    /\ UNCHANGED <<agents, background, total, overlay, verbs>>
Works(next, kind) ==
    /\ turn \in Working /\ next # turn
    /\ turn' = next /\ scroll' = Kept(Append(scroll, Printed[kind]))
    /\ UNCHANGED <<agents, background, total, overlay, verbs>>
Ends(stale, completes) ==
    /\ turn \in Working /\ (stale => completes)
    /\ turn' = "rest"
    /\ scroll' = Kept(scroll
         \o (IF stale THEN <<Printed.stale>> ELSE <<>>)
         \o (IF completes THEN <<IF background = "none" THEN Printed.done ELSE Printed.outlived>>
             ELSE <<>>))
    /\ UNCHANGED <<agents, background, total, overlay, verbs>>
AgentsChange(n, full) ==
    /\ n \in {agents.count - 1, agents.count, agents.count + 1} /\ (n = 0 => full)
    /\ [count |-> n, full |-> full] # agents
    /\ agents' = [count |-> n, full |-> full]
    /\ UNCHANGED <<scroll, turn, background, total, overlay, verbs>>
BackgroundChanges(next) ==
    /\ next # background /\ background' = next
    /\ UNCHANGED <<scroll, turn, agents, total, overlay, verbs>>
TotalFlips == total' = ~total /\ UNCHANGED <<scroll, turn, agents, background, overlay, verbs>>
OverlayFlips == overlay' = ~overlay /\ UNCHANGED <<scroll, turn, agents, background, total, verbs>>

RdInit ==
    /\ scroll = <<>> /\ turn = "rest" /\ agents = [count |-> 0, full |-> TRUE]
    /\ background = "none" /\ total \in BOOLEAN /\ overlay = FALSE /\ verbs \in BOOLEAN

RdNext ==
    \/ Submits \/ TotalFlips \/ OverlayFlips
    \/ \E next \in Working \ {"starting"}, kind \in {"text", "bullet", "rule", "prose", "attempt"} : Works(next, kind)
    \/ \E stale, completes \in BOOLEAN : Ends(stale, completes)
    \/ \E n \in 0..MaxAgents, full \in BOOLEAN : AgentsChange(n, full)
    \/ \E next \in {"none", "shells", "monitors"} : BackgroundChanges(next)

RdSpec == RdInit /\ [][RdNext]_rdVars

-----------------------------------------------------------------------------
\* The types of the session and of its screen.
RdTypeOK ==
    /\ turn \in Working \cup {"rest"} /\ agents \in [count : 0..MaxAgents, full : BOOLEAN]
    /\ background \in {"none", "shells", "monitors"} /\ {total, overlay, verbs} \subseteq BOOLEAN
    /\ Len(scroll) <= Scroll

\* The size of the context that is read is the one in the bar whenever the bar shows it
\* in the lines that are read, and never the count of a subagent or of a turn.
ReadsTheTotal ==
    /\ Tokens \notin {"agent", "turn"}
    /\ total /\ Some(LastLines(Bottom), "marker") /\ ~overlay => Tokens = "total"

\* A session that runs subagents or work in the background, has its panel open or shows
\* a turn with a count is not taken for a new one, though its total is out of sight; nor
\* is one that starts a turn, when the words of the widget are known.
LiveIsSeen ==
    \/ agents.count > 0 \/ background # "none" \/ overlay \/ turn = "thinking"
    \/ verbs /\ turn = "starting"
    => ~LooksFresh

\* A session at rest is not taken for one that thinks, whatever of an earlier turn is
\* still on its screen, while its prompt is in view.
RestIsNotThinking == turn = "rest" /\ ~overlay => DetectActivity \notin {"Thinking", "ToolRunning"}

\* A session that thinks is seen to, unless an earlier answer or a rule is on its screen.
ThinkingIsSeen ==
    /\ turn \in {"starting", "thinking"} /\ ~overlay /\ agents.count < 2
    /\ \A mark \in {"completion", "rule"} : ~Some(scroll, mark)
    => DetectActivity = "Thinking"

\* The daemon keeps its hands off a session that waits for the API, and only then: a
\* retry that is merely spoken of is none.
RetryIsSeen == agents.count = 0 => (ApiRetry <=> turn = "retrying")

\* A screen on which nothing is recognised is none of a session that works.
MissIsNotLive ==
    agents.count > 0 \/ overlay \/ turn = "thinking" \/ background # "none"
    => ~ParseMiss

\* What the readers say of the screen is so.
ScreenRead ==
    /\ RdTypeOK /\ ReadsTheTotal /\ LiveIsSeen /\ MissIsNotLive
    /\ RestIsNotThinking /\ ThinkingIsSeen /\ RetryIsSeen

\* What tmux.rs says of detect_activity: "Priority order: Thinking > ToolRunning >
\* Writing > Idle > Unknown".  A completed answer above a new turn comes first.
ThinkingFirst == turn = "thinking" /\ ~overlay /\ agents.count = 0 => DetectActivity = "Thinking"

\* What is_idle promises by its name, and ClaudeActivity::Idle by its comment.
IdleIsRest == IdlePrompt => turn = "rest"

\* status.rs: the counts are matched "ONLY on status bar lines".
OnlyTheBar == Tokens \in {"none", "total"}
=============================================================================
