--------------------------- MODULE WorkloadProofs ---------------------------
(***************************************************************************)
(* Type correctness of Workload for any commands, and, when commands do    *)
(* not overlap, one payload at a time, and a completion that is reported   *)
(* once outside the window of the sentinel, and never swallowed: for any   *)
(* labels, runs and faults.                                                *)
(***************************************************************************)
EXTENDS Workload, FiniteSetTheorems, TLAPS

Teardown == {"pane", "exit", "mark", "sentinel", "emit", "settle", "signal",
             "closing", "drop"}

Setup == {"clean", "bind", "start", "save"}

(* A command that tears a run down has one, and so has one that starts one. *)
HasRuns ==
    \A a \in Actors : /\ cli[a].at \in Teardown => cli[a].victim \in Runs
                      /\ cli[a].at \in {"start", "save"} => cli[a].run \in Runs

Typed == TypeOK /\ HasRuns

(* Commands do not overlap. *)
OneCommand == \A a, b \in Actors : a = b

(* A payload that did not escape has a wrapper that waits for it. *)
Guarded ==
    \A r \in Runs \ escaped : Running(r) => wrapper[r] = "waiting"

(* The registry knows it, or is about to. *)
Tracked ==
    \A r \in Runs \ escaped :
        Running(r) =>
            \/ registry[label[r]] = r
            \/ \E a \in Actors : cli[a].at = "save" /\ cli[a].run = r

(* Before the pane is closed, and the label dropped, the victim is down. *)
Down(a) == ~Running(cli[a].victim) \/ cli[a].victim \in escaped

(* What a command read at its start is what is there. *)
View(a) ==
    /\ cli[a].at # "idle" => cli[a].view = registry
    /\ cli[a].at \in Teardown => cli[a].victim = registry[cli[a].label]
    /\ cli[a].at \in {"closing", "drop"} => Down(a)
    /\ cli[a].at \in Setup => registry[cli[a].label] = 0
    /\ cli[a].at \in {"start", "save"} =>
          cli[a].run <= issued /\ label[cli[a].run] = cli[a].label

Unissued == \A r \in Runs : r > issued => ~Running(r)

IInv == Typed /\ Guarded /\ Tracked /\ Unissued /\ \A a \in Actors : View(a)

-----------------------------------------------------------------------------
(* The command of one process changes. *)
LEMMA CommandChanges ==
    ASSUME Typed, NEW a \in Actors, NEW c,
           c \in Commands,
           c.at \in Teardown => c.victim \in Runs,
           c.at \in {"start", "save"} => c.run \in Runs,
           cli' = [cli EXCEPT ![a] = c]
    PROVE  cli' \in [Actors -> Commands] /\ HasRuns'
  BY DEF Typed, TypeOK, HasRuns, Runs

(* A step of the command to another place. *)
LEMMA CommandGoes ==
    ASSUME Typed, NEW a \in Actors, NEW w \in CliAt, Goto(a, w),
           w \in Teardown => cli[a].victim \in Runs,
           w \in {"start", "save"} => cli[a].run \in Runs
    PROVE  cli' \in [Actors -> Commands] /\ HasRuns'
  <1> DEFINE c == [cli[a] EXCEPT !.at = w]
  <1>1. cli[a] \in Commands
    BY DEF Typed, TypeOK
  <1>2. /\ c \in Commands /\ c.at = w
        /\ c.victim = cli[a].victim /\ c.run = cli[a].run
    BY <1>1 DEF Commands
  <1>3. cli' = [cli EXCEPT ![a] = c]
    BY DEF Goto
  <1> QED BY <1>2, <1>3, CommandChanges

(* Nobody's command. *)
LEMMA IdleTyped == Idle \in Commands /\ Idle.at = "idle"
  <1>1. \E l \in Labels : TRUE
    BY WorkloadAssumption
  <1>2. (CHOOSE l \in Labels : TRUE) \in Labels
    BY <1>1
  <1> QED BY <1>2, WorkloadAssumption DEF Idle, Commands, CliAt

LEMMA TypedInit == Init => Typed
  <1> SUFFICES ASSUME Init PROVE Typed
    OBVIOUS
  <1>1. (CHOOSE l \in Labels : TRUE) \in Labels
    BY WorkloadAssumption
  <1>2. TypeOK
    BY <1>1, IdleTyped, WorkloadAssumption DEF Init, TypeOK, Runs, WrapperAt
  <1>3. HasRuns
    BY IdleTyped DEF Init, HasRuns, Teardown
  <1> QED BY <1>2, <1>3 DEF Typed

(* The steps of a run leave the commands alone. *)
LEMMA TypedRun ==
    ASSUME Typed, NEW r \in Runs,
           \/ WrapperStep(r) \/ Crash(r)
           \/ \E how \in {"ok", "failed"} : PayloadExits(r, how)
    PROVE  Typed'
  <1> USE DEF TypeOK, WrapperAt, files, history
  <1>0. /\ TypeOK /\ HasRuns
        /\ Runs \subseteq 0 .. MaxRuns /\ 0 \in 0 .. MaxRuns
    BY WorkloadAssumption DEF Typed, Runs
  <1>1. CASE RecordPgid(r)
    BY <1>0, <1>1 DEF RecordPgid, Typed, HasRuns
  <1>2. CASE \E how \in {"ok", "failed"} : PayloadExits(r, how)
    BY <1>0, <1>2 DEF PayloadExits, Typed, HasRuns
  <1>3. CASE WriteExit(r)
    BY <1>0, <1>3 DEF WriteExit, Typed, HasRuns
  <1>4. CASE TakeSentinel(r)
    BY <1>0, <1>4 DEF TakeSentinel, Typed, HasRuns
  <1>5. CASE EmitOwn(r)
    BY <1>0, <1>5 DEF EmitOwn, Typed, HasRuns
  <1>6. CASE SettleOwn(r)
    BY <1>0, <1>6 DEF SettleOwn, Settled, Typed, HasRuns
  <1>7. CASE ClosePane(r)
    BY <1>0, <1>7 DEF ClosePane, Typed, HasRuns
  <1>8. CASE Crash(r)
    BY <1>0, <1>8 DEF Crash, Typed, HasRuns
  <1> QED BY <1>1, <1>2, <1>3, <1>4, <1>5, <1>6, <1>7, <1>8 DEF WrapperStep

(* The steps of a command. *)
LEMMA TypedInvoke ==
    ASSUME Typed, NEW a \in Actors, NEW op \in {"kill", "run", "carry"},
           NEW l \in Labels, Invoke(a, op, l)
    PROVE  Typed'
  <1>0. /\ TypeOK /\ HasRuns
        /\ Runs = (0 .. MaxRuns) \ {0}
    BY WorkloadAssumption DEF Typed, Runs
  <1> DEFINE c == [Idle EXCEPT !.op = op, !.label = l, !.view = registry,
                    !.victim = registry[l],
                    !.at = IF registry[l] = 0 THEN "clean" ELSE "pane"]
  <1>1. /\ c \in Commands /\ c.victim = registry[l]
        /\ c.at = IF registry[l] = 0 THEN "clean" ELSE "pane"
    BY <1>0, IdleTyped DEF TypeOK, Commands, CliAt
  <1>2. registry[l] # 0 => registry[l] \in Runs
    BY <1>0 DEF TypeOK
  <1>3. cli' \in [Actors -> Commands] /\ HasRuns'
    <2>1. /\ c.at \in Teardown => c.victim \in Runs
          /\ c.at \notin {"start", "save"}
      BY <1>1, <1>2 DEF Teardown
    <2>2. cli' = [cli EXCEPT ![a] = c]
      BY DEF Invoke
    <2> QED BY <1>1, <2>1, <2>2, CommandChanges
  <1> QED BY <1>0, <1>3 DEF Invoke, Typed, TypeOK, files, history

LEMMA TypedCommand ==
    ASSUME Typed, NEW a \in Actors, CommandStep(a) \/ Interrupt(a)
    PROVE  Typed'
  <1>0. /\ TypeOK /\ HasRuns /\ cli[a] \in Commands
        /\ Runs \subseteq 0 .. MaxRuns /\ 0 \in 0 .. MaxRuns
    BY WorkloadAssumption DEF Typed, TypeOK, Runs
  <1>i. ASSUME cli' = [cli EXCEPT ![a] = Idle]
        PROVE  cli' \in [Actors -> Commands] /\ HasRuns'
    BY <1>i, IdleTyped, CommandChanges DEF Teardown
  <1> USE DEF files, history, Typed, TypeOK
  <1>1. CASE CheckPane(a)
    <2>1. cli[a].victim \in Runs
      BY <1>0, <1>1 DEF CheckPane, HasRuns, Teardown
    <2>2. cli' \in [Actors -> Commands] /\ HasRuns'
      BY <1>1, <2>1, CommandGoes DEF CheckPane, CliAt
    <2>3. cli[a].label \in Labels
      BY <1>0 DEF Commands
    <2> QED BY <1>0, <1>1, <2>2, <2>3 DEF CheckPane
  <1>2. CASE CheckExit(a)
    <2>1. cli[a].victim \in Runs
      BY <1>0, <1>2 DEF CheckExit, HasRuns, Teardown
    <2>2. cli' \in [Actors -> Commands] /\ HasRuns'
      BY <1>2, <2>1, CommandGoes DEF CheckExit, CliAt
    <2> QED BY <1>0, <1>2, <2>2 DEF CheckExit
  <1>3. CASE MarkExit(a)
    <2>1. cli[a].victim \in Runs
      BY <1>0, <1>3 DEF MarkExit, HasRuns, Teardown
    <2>2. cli' \in [Actors -> Commands] /\ HasRuns'
      BY <1>3, <2>1, CommandGoes DEF MarkExit, CliAt
    <2> QED BY <1>0, <1>3, <2>2 DEF MarkExit
  <1>4. CASE MarkSentinel(a)
    <2>1. cli[a].victim \in Runs
      BY <1>0, <1>4 DEF MarkSentinel, HasRuns, Teardown
    <2>2. cli' \in [Actors -> Commands] /\ HasRuns'
      BY <1>4, <2>1, CommandGoes DEF MarkSentinel, CliAt
    <2> QED BY <1>0, <1>4, <2>2 DEF MarkSentinel
  <1>5. CASE EmitKilled(a)
    <2>1. cli[a].victim \in Runs
      BY <1>0, <1>5 DEF EmitKilled, HasRuns, Teardown
    <2>2. cli' \in [Actors -> Commands] /\ HasRuns'
      BY <1>5, <2>1, CommandGoes DEF EmitKilled, CliAt
    <2> QED BY <1>0, <1>5, <2>1, <2>2 DEF EmitKilled
  <1>6. CASE SettleKilled(a)
    <2>1. cli[a].victim \in Runs
      BY <1>0, <1>6 DEF SettleKilled, HasRuns, Teardown
    <2>2. cli' \in [Actors -> Commands] /\ HasRuns'
      BY <1>6, <2>1, CommandGoes DEF SettleKilled, CliAt
    <2> QED BY <1>0, <1>6, <2>1, <2>2 DEF SettleKilled, Settled
  <1>7. CASE Signal(a)
    <2>1. cli[a].victim \in Runs
      BY <1>0, <1>7 DEF Signal, HasRuns, Teardown
    <2>2. cli' \in [Actors -> Commands] /\ HasRuns'
      <3>1. CASE Goto(a, "closing")
        BY <2>1, <3>1, CommandGoes DEF CliAt
      <3> DEFINE c == [cli[a] EXCEPT !.at = "closing", !.survived = TRUE]
      <3>2. CASE cli' = [cli EXCEPT ![a].at = "closing", ![a].survived = TRUE]
        <4>1. /\ c \in Commands /\ c.at = "closing"
              /\ c.victim = cli[a].victim
          BY <1>0 DEF Commands, CliAt
        <4>2. cli' = [cli EXCEPT ![a] = c]
          BY <1>0, <3>2
        <4> QED BY <2>1, <4>1, <4>2, CommandChanges
      <3> QED BY <1>7, <3>1, <3>2 DEF Signal
    <2>3. /\ payload' \in [Runs -> {"absent", "new", "up", "ok", "failed"}]
          /\ escaped' \subseteq Runs
      BY <1>0, <1>7 DEF Signal
    <2>4. wrapper' \in [Runs -> WrapperAt] /\ cut' \subseteq Runs
      BY <1>0, <1>7, <2>1 DEF Signal, WrapperAt
    <2> QED BY <1>0, <1>7, <2>2, <2>3, <2>4 DEF Signal
  <1>8. CASE KillPane(a)
    <2>1. cli[a].victim \in Runs
      BY <1>0, <1>8 DEF KillPane, HasRuns, Teardown
    <2>2. cli' \in [Actors -> Commands] /\ HasRuns'
      BY <1>8, <2>1, CommandGoes DEF KillPane, CliAt
    <2> QED BY <1>0, <1>8, <2>1, <2>2 DEF KillPane, WrapperAt
  <1>9. CASE Drop(a)
    <2> DEFINE v == [cli[a].view EXCEPT ![cli[a].label] = 0]
               c == [cli[a] EXCEPT !.view = v, !.at = "clean"]
    <2>1. v \in [Labels -> 0 .. MaxRuns]
      BY <1>0 DEF Commands
    <2>2. c \in Commands /\ c.at = "clean"
      BY <1>0, <2>1 DEF Commands, CliAt
    <2>3. ASSUME cli' = [cli EXCEPT ![a] = c]
          PROVE  cli' \in [Actors -> Commands] /\ HasRuns'
      BY <2>2, <2>3, CommandChanges DEF Teardown
    <2>4. cli' = [cli EXCEPT ![a] = Idle] \/ cli' = [cli EXCEPT ![a] = c]
      BY <1>9 DEF Drop
    <2> QED BY <1>0, <1>9, <1>i, <2>1, <2>3, <2>4 DEF Drop
  <1>10. CASE Clean(a)
    <2>1. cli' \in [Actors -> Commands] /\ HasRuns'
      BY <1>10, CommandGoes DEF Clean, CliAt, Teardown
    <2> QED BY <1>0, <1>10, <2>1 DEF Clean
  <1>11. CASE Bind(a)
    <2> DEFINE r == issued + 1
               c == [cli[a] EXCEPT !.at = "start", !.run = r]
    <2>1. r \in Runs
      BY <1>0, <1>11, WorkloadAssumption DEF Bind, Runs
    <2>2. c \in Commands /\ c.at = "start" /\ c.run = r
      BY <1>0, <2>1 DEF Commands, CliAt
    <2>3. cli' = [cli EXCEPT ![a] = c]
      BY <1>0, <1>11 DEF Bind
    <2>4. cli' \in [Actors -> Commands] /\ HasRuns'
      BY <2>1, <2>2, <2>3, CommandChanges DEF Teardown
    <2>5. cli[a].label \in Labels /\ cli[a].victim \in 0 .. MaxRuns
      BY <1>0 DEF Commands
    <2>6. issued' \in 0 .. MaxRuns /\ label' \in [Runs -> Labels]
      BY <1>0, <1>11, <2>1, <2>5 DEF Bind
    <2>7. /\ bound' \in [Runs -> Runs]
          /\ item' \in [Runs -> {"absent", "pending", "running", "done",
                                 "abandoned"}]
      <3>1. cli[a].victim # 0 => cli[a].victim \in Runs
        BY <2>5, WorkloadAssumption DEF Runs
      <3> QED BY <1>0, <1>11, <2>1, <3>1 DEF Bind
    <2> QED BY <1>0, <1>11, <2>4, <2>6, <2>7 DEF Bind
  <1>12. CASE BindRefused(a)
    BY <1>0, <1>12, <1>i DEF BindRefused
  <1>13. CASE Start(a)
    <2>1. cli[a].run \in Runs
      BY <1>0, <1>13 DEF Start, HasRuns
    <2>2. cli' \in [Actors -> Commands] /\ HasRuns'
      <3>1. CASE Goto(a, "save")
        BY <2>1, <3>1, CommandGoes DEF CliAt, Teardown
      <3>2. CASE cli' = [cli EXCEPT ![a] = Idle]
        BY <3>2, <1>i
      <3> QED BY <1>13, <3>1, <3>2 DEF Start
    <2> QED BY <1>0, <1>13, <2>1, <2>2 DEF Start, WrapperAt
  <1>14. CASE Save(a)
    <2>1. registry' \in [Labels -> 0 .. MaxRuns]
      BY <1>0, <1>14 DEF Save, Commands
    <2> QED BY <1>0, <1>14, <1>i, <2>1 DEF Save
  <1>15. CASE Interrupt(a)
    <2>1. cut' \subseteq Runs
      BY <1>0, <1>15 DEF Interrupt, HasRuns, Teardown
    <2> QED BY <1>0, <1>15, <1>i, <2>1 DEF Interrupt
  <1> QED BY <1>1, <1>2, <1>3, <1>4, <1>5, <1>6, <1>7, <1>8, <1>9, <1>10,
             <1>11, <1>12, <1>13, <1>14, <1>15 DEF CommandStep

LEMMA TypedStep == Typed /\ [Next]_vars => Typed'
  <1> SUFFICES ASSUME Typed, [Next]_vars PROVE Typed'
    OBVIOUS
  <1>1. CASE UNCHANGED vars
    BY <1>1 DEF vars, files, history, Typed, TypeOK, HasRuns
  <1>2. CASE Next
    BY <1>2, TypedRun, TypedInvoke, TypedCommand DEF Next
  <1> QED BY <1>1, <1>2

(* Every variable keeps its type, with any number of commands at once.     *)
THEOREM WorkloadTyped == Spec => []TypeOK
  <1>1. Typed => TypeOK
    BY DEF Typed
  <1> QED BY <1>1, TypedInit, TypedStep, PTL DEF Spec

-----------------------------------------------------------------------------
(* One payload at a time. *)

LEMMA IInvInit == Init => IInv
  <1> SUFFICES ASSUME Init PROVE IInv
    OBVIOUS
  <1>1. Guarded /\ Tracked /\ Unissued
    BY DEF Init, Guarded, Tracked, Unissued, Running
  <1>2. \A a \in Actors : View(a)
    BY IdleTyped DEF Init, View, Teardown, Setup
  <1> QED BY <1>1, <1>2, TypedInit DEF IInv

(* A command that goes on inside its teardown, with the victim down before *)
(* the pane is closed or the label dropped.                                *)
TearsOn(c, d) ==
    /\ c.at \in Teardown /\ d.at \in Teardown
    /\ d.view = c.view /\ d.label = c.label /\ d.victim = c.victim

Quiet(a) ==
    \/ cli'[a] = cli[a]
    \/ cli[a].at # "save" /\ cli'[a].at = "idle"
    \/ TearsOn(cli[a], cli'[a])
    \/ /\ cli[a].at = "clean" /\ cli'[a].at = "bind"
       /\ cli'[a].view = cli[a].view /\ cli'[a].label = cli[a].label

(* A step that starts no payload and leaves the registry alone. *)
LEMMA QuietStep ==
    ASSUME IInv, Typed',
           UNCHANGED <<registry, label, issued>>,
           escaped \subseteq escaped',
           \A r \in Runs : Running(r)' => Running(r),
           \A r \in Runs \ escaped' :
               Running(r)' => wrapper'[r] = wrapper[r],
           \A a \in Actors :
               Quiet(a) /\ (cli'[a].at \in {"closing", "drop"} => Down(a)')
    PROVE  IInv'
  <1>0. Typed /\ Guarded /\ Tracked /\ Unissued /\ \A a \in Actors : View(a)
    BY DEF IInv
  <1>1. Guarded'
    BY <1>0 DEF Guarded
  <1>2. Tracked'
    <2> SUFFICES ASSUME NEW r \in Runs \ escaped', Running(r)'
                 PROVE  \/ registry'[label'[r]] = r
                        \/ \E a \in Actors : /\ cli'[a].at = "save"
                                            /\ cli'[a].run = r
      BY DEF Tracked
    <2>1. CASE registry[label[r]] = r
      BY <2>1
    <2>2. ASSUME NEW a \in Actors, cli[a].at = "save", cli[a].run = r
          PROVE  cli'[a].at = "save" /\ cli'[a].run = r
      BY <2>2 DEF Quiet, TearsOn, Teardown
    <2> QED BY <1>0, <2>1, <2>2 DEF Tracked
  <1>3. ASSUME NEW a \in Actors
        PROVE  View(a)'
    <2>1. CASE cli'[a] = cli[a]
      BY <1>0, <2>1 DEF View
    <2>2. CASE cli'[a].at = "idle"
      BY <2>2 DEF View, Teardown, Setup
    <2>3. CASE TearsOn(cli[a], cli'[a])
      BY <1>0, <2>3 DEF TearsOn, View, Teardown, Setup
    <2>4. CASE /\ cli[a].at = "clean" /\ cli'[a].at = "bind"
               /\ cli'[a].view = cli[a].view /\ cli'[a].label = cli[a].label
      BY <1>0, <2>4 DEF View, Teardown, Setup
    <2> QED BY <2>1, <2>2, <2>3, <2>4 DEF Quiet
  <1>4. Unissued'
    BY <1>0 DEF Unissued
  <1> QED BY <1>1, <1>2, <1>3, <1>4 DEF IInv

LEMMA RunKeeps ==
    ASSUME IInv, NEW r \in Runs,
           \/ WrapperStep(r) \/ Crash(r)
           \/ \E how \in {"ok", "failed"} : PayloadExits(r, how)
    PROVE  IInv'
  <1>0. Typed /\ Guarded /\ Typed' /\ \A a \in Actors : View(a)
    BY TypedRun DEF IInv
  <1>1. /\ payload \in [Runs -> {"absent", "new", "up", "ok", "failed"}]
        /\ wrapper \in [Runs -> WrapperAt]
    BY <1>0 DEF Typed, TypeOK
  <1>2. UNCHANGED <<registry, label, issued, cli>> /\ escaped \subseteq escaped'
    BY DEF WrapperStep, RecordPgid, WriteExit, TakeSentinel, EmitOwn, SettleOwn,
           ClosePane, Crash, PayloadExits, files, history
  <1>3. \A q \in Runs : Running(q)' => Running(q)
    BY <1>1 DEF WrapperStep, RecordPgid, WriteExit, TakeSentinel, EmitOwn,
                SettleOwn, ClosePane, Crash, PayloadExits, Running
  <1>4. \A q \in Runs \ escaped' : Running(q)' => wrapper'[q] = wrapper[q]
    <2>1. CASE RecordPgid(r) \/ \E how \in {"ok", "failed"} : PayloadExits(r, how)
      BY <2>1 DEF RecordPgid, PayloadExits
    <2>2. CASE WriteExit(r)
      BY <1>1, <2>2 DEF WriteExit, Running
    <2>3. CASE TakeSentinel(r) \/ EmitOwn(r) \/ SettleOwn(r) \/ ClosePane(r)
      <3>1. wrapper[r] # "waiting"
        BY <2>3 DEF TakeSentinel, EmitOwn, SettleOwn, ClosePane
      <3>2. \A q \in Runs : q # r => wrapper'[q] = wrapper[q]
        BY <1>1, <2>3 DEF TakeSentinel, EmitOwn, SettleOwn, ClosePane
      <3> QED BY <1>0, <1>2, <1>3, <3>1, <3>2 DEF Guarded
    <2>4. CASE Crash(r)
      BY <1>1, <2>4 DEF Crash, Running
    <2> QED BY <2>1, <2>2, <2>3, <2>4 DEF WrapperStep
  <1>5. ASSUME NEW a \in Actors, cli'[a].at \in {"closing", "drop"}
        PROVE  Down(a)'
    <2>1. cli[a].victim \in Runs
      BY <1>0, <1>2, <1>5 DEF Typed, HasRuns, Teardown
    <2>2. Down(a)
      BY <1>0, <1>2, <1>5 DEF View
    <2> QED BY <1>2, <1>3, <2>1, <2>2 DEF Down, Running
  <1>6. \A a \in Actors : Quiet(a)
    BY <1>2 DEF Quiet
  <1> QED BY <1>0, <1>2, <1>3, <1>4, <1>5, <1>6, QuietStep

(* The registry as a command read it is the registry. *)
LEMMA InvokeKeeps ==
    ASSUME OneCommand, IInv, NEW a \in Actors,
           NEW op \in {"kill", "run", "carry"}, NEW l \in Labels,
           Invoke(a, op, l)
    PROVE  IInv'
  <1>0. /\ Typed /\ Guarded /\ Tracked /\ Unissued /\ Typed'
        /\ UNCHANGED <<registry, label, issued, payload, wrapper, escaped>>
    BY TypedInvoke DEF IInv, Invoke, files, history
  <1>1. Guarded' /\ Unissued'
    BY <1>0 DEF Guarded, Unissued, Running
  <1>2. cli[a].at = "idle" /\ cli[a] \in Commands /\ cli \in [Actors -> Commands]
    BY <1>0 DEF Invoke, Typed, TypeOK
  <1>3. Tracked'
    <2>1. \A b \in Actors : cli[b].at # "save"
      BY <1>2 DEF OneCommand
    <2> QED BY <1>0, <2>1 DEF Tracked, Running
  <1>4. /\ cli'[a].view = registry /\ cli'[a].label = l
        /\ cli'[a].victim = registry[l]
        /\ cli'[a].at = IF registry[l] = 0 THEN "clean" ELSE "pane"
    BY <1>2, IdleTyped DEF Invoke, Commands
  <1>5. View(a)'
    BY <1>0, <1>4 DEF View, Teardown, Setup
  <1>6. \A b \in Actors : View(b)'
    BY <1>5 DEF OneCommand
  <1> QED BY <1>0, <1>1, <1>3, <1>6 DEF IInv

(* The steps of a teardown: the payload is dead, or escaped, when its pane *)
(* is closed.                                                              *)
LEMMA TeardownKeeps ==
    ASSUME OneCommand, IInv, NEW a \in Actors,
           \/ CheckPane(a) \/ CheckExit(a) \/ MarkExit(a) \/ MarkSentinel(a)
           \/ EmitKilled(a) \/ SettleKilled(a) \/ Signal(a) \/ KillPane(a)
           \/ Clean(a) \/ BindRefused(a) \/ Interrupt(a)
    PROVE  IInv'
  <1>0. /\ Typed /\ Guarded /\ Typed' /\ \A b \in Actors : View(b)
    BY TypedCommand DEF IInv, CommandStep
  <1>1. /\ payload \in [Runs -> {"absent", "new", "up", "ok", "failed"}]
        /\ wrapper \in [Runs -> WrapperAt]
        /\ cli \in [Actors -> Commands] /\ cli[a] \in Commands
    BY <1>0 DEF Typed, TypeOK
  <1>2. cli[a].at \in Teardown => cli[a].victim \in Runs
    BY <1>0 DEF Typed, HasRuns
  <1>3. UNCHANGED <<registry, label, issued>> /\ escaped \subseteq escaped'
    BY DEF CheckPane, CheckExit, MarkExit, MarkSentinel, EmitKilled,
           SettleKilled, Signal, KillPane, Clean, BindRefused, Interrupt,
           files, history
  <1>4. Quiet(a)
    <2>1. CASE \E w \in Teardown : cli[a].at \in Teardown /\ Goto(a, w)
      BY <1>1, <2>1 DEF Goto, Commands, Quiet, TearsOn
    <2>2. CASE Signal(a)
      BY <1>1, <2>2 DEF Signal, Goto, Commands, Quiet, TearsOn, Teardown
    <2>3. CASE Clean(a)
      BY <1>1, <2>3 DEF Clean, Goto, Commands, Quiet
    <2>4. CASE BindRefused(a) \/ Interrupt(a)
      BY <1>1, <2>4, IdleTyped DEF BindRefused, Interrupt, Quiet
    <2> QED BY <2>1, <2>2, <2>3, <2>4 DEF CheckPane, CheckExit, MarkExit,
               MarkSentinel, EmitKilled, SettleKilled, KillPane, Teardown
  <1>5. \A r \in Runs : Running(r)' => Running(r)
    BY <1>1 DEF CheckPane, CheckExit, MarkExit, MarkSentinel, EmitKilled,
                SettleKilled, Signal, KillPane, Clean, BindRefused, Interrupt,
                Running
  <1>6. \A r \in Runs \ escaped' : Running(r)' => wrapper'[r] = wrapper[r]
    <2>1. CASE Signal(a)
      BY <1>0, <1>1, <1>2, <1>3, <1>5, <2>1
         DEF Signal, Guarded, Reporting, Teardown
    <2>2. CASE KillPane(a)
      <3>1. Down(a) /\ cli[a].victim \in Runs
        BY <1>0, <1>2, <2>2 DEF KillPane, View, Teardown
      <3>2. \A r \in Runs : r # cli[a].victim => wrapper'[r] = wrapper[r]
        BY <1>1, <2>2 DEF KillPane
      <3> QED BY <1>3, <1>5, <3>1, <3>2 DEF Down
    <2>3. CASE ~(Signal(a) \/ KillPane(a))
      BY <2>3 DEF CheckPane, CheckExit, MarkExit, MarkSentinel, EmitKilled,
                  SettleKilled, Clean, BindRefused, Interrupt
    <2> QED BY <2>1, <2>2, <2>3
  <1>7. ASSUME cli'[a].at \in {"closing", "drop"}
        PROVE  Down(a)'
    <2>1. CASE CheckPane(a)
      <3>1. /\ cli[a].victim \in Runs /\ ~PaneAlive(cli[a].victim)
            /\ cli'[a].victim = cli[a].victim
        BY <1>1, <1>2, <1>7, <2>1 DEF CheckPane, Goto, Commands, Teardown
      <3>2. UNCHANGED <<payload, escaped>>
        BY <2>1 DEF CheckPane, history
      <3> QED BY <1>0, <3>1, <3>2 DEF Guarded, PaneAlive, Down, Running
    <2>2. CASE Signal(a)
      <3>1. cli[a].victim \in Runs /\ cli'[a].victim = cli[a].victim
        BY <1>1, <1>2, <2>2 DEF Signal, Goto, Commands, Teardown
      <3>2. CASE Running(cli[a].victim) /\ cli[a].victim \notin escaped
        <4>1. PaneAlive(cli[a].victim)
          BY <1>0, <3>1, <3>2 DEF Guarded, PaneAlive
        <4> QED BY <1>1, <2>2, <3>1, <3>2, <4>1 DEF Signal, Down, Running
      <3>3. CASE ~Running(cli[a].victim) \/ cli[a].victim \in escaped
        BY <1>3, <1>5, <3>1, <3>3 DEF Down, Running
      <3> QED BY <3>2, <3>3
    <2>3. CASE KillPane(a)
      <3>1. Down(a) /\ cli[a].victim \in Runs /\ cli'[a].victim = cli[a].victim
        BY <1>0, <1>1, <1>2, <2>3 DEF KillPane, View, Goto, Commands, Teardown
      <3> QED BY <1>3, <1>5, <3>1 DEF Down, Running
    <2>4. CASE ~(CheckPane(a) \/ Signal(a) \/ KillPane(a))
      <3>1. cli'[a].at \notin {"closing", "drop"}
        BY <1>1, <2>4, IdleTyped
           DEF CheckExit, MarkExit, MarkSentinel, EmitKilled, SettleKilled,
               Clean, BindRefused, Interrupt, Goto, Commands
      <3> QED BY <1>7, <3>1
    <2> QED BY <2>1, <2>2, <2>3, <2>4
  <1>8. \A b \in Actors :
           Quiet(b) /\ (cli'[b].at \in {"closing", "drop"} => Down(b)')
    BY <1>4, <1>7 DEF OneCommand
  <1> QED BY <1>0, <1>3, <1>5, <1>6, <1>8, QuietStep

(* The label leaves the registry when its payload is down. *)
LEMMA DropKeeps ==
    ASSUME OneCommand, IInv, NEW a \in Actors, Drop(a)
    PROVE  IInv'
  <1> DEFINE l == cli[a].label
             v == [cli[a].view EXCEPT ![l] = 0]
  <1>0. /\ Typed /\ Guarded /\ Tracked /\ Unissued /\ Typed' /\ View(a)
        /\ UNCHANGED <<label, issued, payload, wrapper, escaped>>
    BY TypedCommand DEF IInv, CommandStep, Drop, history
  <1>1. /\ cli \in [Actors -> Commands] /\ cli[a] \in Commands
        /\ registry \in [Labels -> 0 .. MaxRuns] /\ label \in [Runs -> Labels]
    BY <1>0 DEF Typed, TypeOK
  <1>2. /\ cli[a].at = "drop" /\ cli[a].view = registry /\ l \in Labels
        /\ cli[a].victim = registry[l] /\ Down(a)
    BY <1>0, <1>1 DEF Drop, View, Teardown, Commands
  <1>3. registry' = v /\ registry'[l] = 0
        /\ \A k \in Labels : k # l => registry'[k] = registry[k]
    BY <1>1, <1>2 DEF Drop
  <1>4. Guarded' /\ Unissued'
    BY <1>0 DEF Guarded, Unissued, Running
  <1>5. Tracked'
    <2> SUFFICES ASSUME NEW r \in Runs \ escaped, Running(r)
                 PROVE  registry'[label[r]] = r
      BY <1>0 DEF Tracked, Running
    <2>1. registry[label[r]] = r
      BY <1>0, <1>2 DEF Tracked, OneCommand
    <2>2. label[r] # l
      BY <1>2, <2>1 DEF Down
    <2> QED BY <1>1, <1>3, <2>1, <2>2
  <1>6. View(a)'
    <2>1. CASE cli' = [cli EXCEPT ![a] = Idle]
      BY <1>1, <2>1, IdleTyped DEF View, Teardown, Setup
    <2>2. CASE cli' = [cli EXCEPT ![a] = [@ EXCEPT !.view = v, !.at = "clean"]]
      <3>1. /\ cli'[a].view = v /\ cli'[a].at = "clean" /\ cli'[a].label = l
        BY <1>1, <2>2 DEF Commands
      <3> QED BY <1>3, <3>1 DEF View, Teardown, Setup
    <2> QED BY <2>1, <2>2 DEF Drop
  <1>7. \A b \in Actors : View(b)'
    BY <1>6 DEF OneCommand
  <1> QED BY <1>0, <1>4, <1>5, <1>7 DEF IInv

(* A new run is not running yet. *)
LEMMA BindKeeps ==
    ASSUME OneCommand, IInv, NEW a \in Actors, Bind(a)
    PROVE  IInv'
  <1> DEFINE n == issued + 1
  <1>0. /\ Typed /\ Guarded /\ Tracked /\ Unissued /\ Typed' /\ View(a)
        /\ UNCHANGED <<registry, payload, wrapper, escaped>>
    BY TypedCommand DEF IInv, CommandStep, Bind, files, history
  <1>1. /\ cli \in [Actors -> Commands] /\ cli[a] \in Commands
        /\ label \in [Runs -> Labels] /\ issued \in 0 .. MaxRuns
        /\ MaxRuns \in Nat
    BY <1>0, WorkloadAssumption DEF Typed, TypeOK
  <1>2. n \in Runs /\ issued' = n /\ issued \in Nat
    BY <1>1 DEF Bind, Runs
  <1>3. label'[n] = cli[a].label /\ \A r \in Runs : r # n => label'[r] = label[r]
    BY <1>1, <1>2 DEF Bind
  <1>4. ~Running(n)
    BY <1>0, <1>2 DEF Unissued
  <1>5. Guarded'
    BY <1>0 DEF Guarded, Running
  <1>6. Unissued'
    BY <1>0, <1>2 DEF Unissued, Running, Runs
  <1>7. Tracked'
    <2>1. cli[a].at = "bind"
      BY DEF Bind
    <2> QED BY <1>0, <1>3, <1>4, <2>1 DEF Tracked, Running, OneCommand
  <1>8. /\ cli'[a].at = "start" /\ cli'[a].run = n
        /\ cli'[a].label = cli[a].label /\ cli'[a].view = cli[a].view
    BY <1>1 DEF Bind, Commands
  <1>9. View(a)'
    <2>1. cli[a].view = registry /\ registry[cli[a].label] = 0
      BY <1>0 DEF View, Bind, Setup
    <2> QED BY <1>0, <1>2, <1>3, <1>8, <2>1 DEF View, Teardown, Setup
  <1>10. \A b \in Actors : View(b)'
    BY <1>9 DEF OneCommand
  <1> QED BY <1>0, <1>5, <1>6, <1>7, <1>10 DEF IInv

(* It starts next to no other payload of its label. *)
LEMMA StartKeeps ==
    ASSUME OneCommand, IInv, NEW a \in Actors, Start(a)
    PROVE  IInv'
  <1> DEFINE n == cli[a].run
  <1>0. /\ Typed /\ Guarded /\ Tracked /\ Unissued /\ Typed' /\ View(a)
        /\ UNCHANGED <<registry, label, issued, escaped>>
        /\ \A b \in Actors : View(b)
    BY TypedCommand DEF IInv, CommandStep, Start, files, history
  <1>1. /\ cli \in [Actors -> Commands] /\ cli[a] \in Commands
        /\ payload \in [Runs -> {"absent", "new", "up", "ok", "failed"}]
        /\ wrapper \in [Runs -> WrapperAt] /\ issued \in Nat
    BY <1>0, WorkloadAssumption DEF Typed, TypeOK
  <1>2. /\ n \in Runs /\ n \in Nat /\ n <= issued /\ cli[a].at = "start"
        /\ cli[a].view = registry /\ registry[cli[a].label] = 0
        /\ label[n] = cli[a].label
    BY <1>0, WorkloadAssumption DEF Start, Typed, HasRuns, View, Setup, Runs
  <1>3. CASE /\ payload' = [payload EXCEPT ![n] = "new"]
             /\ wrapper' = [wrapper EXCEPT ![n] = "waiting"]
             /\ Goto(a, "save")
    <2>1. /\ cli'[a].at = "save" /\ cli'[a].run = n
          /\ cli'[a].label = cli[a].label /\ cli'[a].view = cli[a].view
      BY <1>1, <1>3 DEF Goto, Commands
    <2>2. \A r \in Runs : r # n => /\ Running(r)' => Running(r)
                                  /\ wrapper'[r] = wrapper[r]
      BY <1>1, <1>3 DEF Running
    <2>3. Guarded'
      BY <1>0, <1>1, <1>2, <1>3, <2>2 DEF Guarded
    <2>4. Unissued'
      BY <1>0, <1>1, <1>2, <2>2 DEF Unissued, Runs
    <2>5. Tracked'
      BY <1>0, <1>2, <2>1, <2>2 DEF Tracked, OneCommand
    <2>6. View(a)'
      BY <1>0, <1>2, <2>1 DEF View, Teardown, Setup
    <2>7. \A b \in Actors : View(b)'
      BY <2>6 DEF OneCommand
    <2> QED BY <1>0, <2>3, <2>4, <2>5, <2>7 DEF IInv
  <1>4. CASE cli' = [cli EXCEPT ![a] = Idle] /\ UNCHANGED <<payload, wrapper>>
    <2>1. cli'[a] = Idle
      BY <1>1, <1>4
    <2>2. \A b \in Actors :
             Quiet(b) /\ (cli'[b].at \in {"closing", "drop"} => Down(b)')
      BY <1>2, <2>1, IdleTyped DEF Quiet, OneCommand
    <2> QED BY <1>0, <1>4, <2>2, QuietStep DEF Running
  <1> QED BY <1>3, <1>4 DEF Start

(* The new run is registered. *)
LEMMA SaveKeeps ==
    ASSUME OneCommand, IInv, NEW a \in Actors, Save(a)
    PROVE  IInv'
  <1> DEFINE n == cli[a].run
             l == cli[a].label
  <1>0. /\ Typed /\ Guarded /\ Tracked /\ Unissued /\ Typed' /\ View(a)
        /\ UNCHANGED <<label, issued, payload, wrapper, escaped>>
    BY TypedCommand DEF IInv, CommandStep, Save, history
  <1>1. /\ cli \in [Actors -> Commands] /\ cli[a] \in Commands
        /\ registry \in [Labels -> 0 .. MaxRuns] /\ label \in [Runs -> Labels]
    BY <1>0 DEF Typed, TypeOK
  <1>2. /\ n \in Runs /\ l \in Labels /\ cli[a].view = registry
        /\ registry[l] = 0 /\ label[n] = l
    BY <1>0, <1>1 DEF Save, Typed, HasRuns, View, Setup, Commands
  <1>3. registry'[l] = n /\ \A k \in Labels : k # l => registry'[k] = registry[k]
    BY <1>1, <1>2 DEF Save
  <1>4. Guarded' /\ Unissued'
    BY <1>0 DEF Guarded, Unissued, Running
  <1>5. Tracked'
    <2> SUFFICES ASSUME NEW r \in Runs \ escaped, Running(r)
                 PROVE  registry'[label[r]] = r
      BY <1>0 DEF Tracked, Running
    <2>1. CASE r = n
      BY <1>2, <1>3, <2>1
    <2>2. CASE registry[label[r]] = r
      <3>1. label[r] # l
        BY <1>2, <2>2, WorkloadAssumption DEF Runs
      <3> QED BY <1>1, <1>3, <2>2, <3>1
    <2> QED BY <1>0, <2>1, <2>2 DEF Tracked, OneCommand
  <1>6. cli'[a] = Idle
    BY <1>1 DEF Save
  <1>7. \A b \in Actors : View(b)'
    BY <1>6, IdleTyped DEF View, Teardown, Setup, OneCommand
  <1> QED BY <1>0, <1>4, <1>5, <1>7 DEF IInv

LEMMA IInvStep == OneCommand /\ IInv /\ [Next]_vars => IInv'
  <1> SUFFICES ASSUME OneCommand, IInv, [Next]_vars PROVE IInv'
    OBVIOUS
  <1>1. CASE UNCHANGED vars
    <2>1. Typed'
      BY TypedStep DEF IInv
    <2> QED BY <1>1, <2>1 DEF vars, files, history, IInv, Guarded, Tracked,
               Unissued, View, Down, Running
  <1>2. CASE Next
    BY <1>2, RunKeeps, InvokeKeeps, TeardownKeeps, DropKeeps, BindKeeps,
       StartKeeps, SaveKeeps DEF Next, CommandStep
  <1> QED BY <1>1, <1>2

(* When commands do not overlap, two payloads of a label never run at once, *)
(* whatever fails, but for those that lost their wrapper or survived a kill. *)
THEOREM OnePayloadEach == ASSUME OneCommand PROVE Spec => []OnePayload
  <1>1. IInv => OnePayload
    <2> SUFFICES ASSUME IInv, NEW r \in Runs \ escaped, NEW s \in Runs \ escaped,
                        Running(r), Running(s), label[r] = label[s], r # s
                 PROVE  FALSE
      BY DEF OnePayload
    <2> DEFINE Saves(q) == \E a \in Actors : cli[a].at = "save" /\ cli[a].run = q
    <2>1. ASSUME NEW q \in Runs, Saves(q)
          PROVE  registry[label[q]] = 0
      BY <2>1 DEF IInv, View, Setup
    <2>2. /\ registry[label[r]] = r \/ Saves(r)
          /\ registry[label[s]] = s \/ Saves(s)
      BY DEF IInv, Tracked
    <2>3. r # 0 /\ s # 0
      BY WorkloadAssumption DEF Runs
    <2> QED BY <2>1, <2>2, <2>3 DEF OneCommand
  <1> QED BY <1>1, IInvInit, IInvStep, PTL DEF Spec

-----------------------------------------------------------------------------
(* The registry knows the run, or is about to. *)
Current(r) ==
    \/ registry[label[r]] = r
    \/ \E a \in Actors : cli[a].at = "save" /\ cli[a].run = r

(* A pane that is alive is the one of its label, which is dropped later. *)
OnePane ==
    /\ \A r \in Runs : PaneAlive(r) => Current(r)
    /\ \A a \in Actors : cli[a].at = "drop" => ~PaneAlive(cli[a].victim)

(* A run that has no pane yet has left no trace. *)
NoTrace ==
    /\ \A r \in Runs : r > issued => wrapper[r] = "absent"
    /\ \A r \in Runs : wrapper[r] = "absent" => Reporters(r) = {}
    /\ \A a \in Actors : cli[a].at = "start" => wrapper[cli[a].run] = "absent"
    /\ \A a \in Actors : cli[a].at = "save" => wrapper[cli[a].run] # "absent"

Registered ==
    \A l \in Labels : registry[l] # 0 =>
        wrapper[registry[l]] # "absent" /\ label[registry[l]] = l

(* The wrapper reports r, or did. *)
OwnReport(r) ==
    wrapper[r] \in {"emitting", "emitted"} \/ "wrapper" \in Reporters(r)

(* A wrapper that is past its payload left the exit marker. *)
Marked ==
    \A r \in Runs :
        Current(r) /\ (wrapper[r] \in {"marked", "asleep"} \/ OwnReport(r)) =>
            exitFile[label[r]]

(* The sentinel stops the wrapper of r, if it can still be stopped. *)
Stopped(r) == wrapper[r] \in {"waiting", "marked"} => sentinel[label[r]]

(* Between its look at the exit marker and its report, a killer knows that *)
(* only a wrapper that got through the window reports.                     *)
Deciding ==
    \A a \in Actors :
        /\ cli[a].at \in {"mark", "sentinel", "emit"} =>
              ~OwnReport(cli[a].victim) \/ cli[a].victim \in raced
        /\ cli[a].at = "emit" => Stopped(cli[a].victim)

KillerReported ==
    \A r \in Runs \ raced :
        Reporters(r) \cap Actors # {} => ~OwnReport(r) /\ Stopped(r)

(* The completion of r is out, or on its way, or its reporter was stopped. *)
TakenCare(r) ==
    \/ r \in cut
    \/ Reporters(r) # {}
    \/ \E a \in Actors : cli[a].at = "emit" /\ cli[a].victim = r

(* A sentinel is there for the run that finds it. *)
SentinelMeant ==
    /\ \A r \in Runs : Current(r) /\ sentinel[label[r]] => TakenCare(r)
    /\ \A a \in Actors : cli[a].at \in Setup \ {"clean"} => ~sentinel[cli[a].label]

Kept ==
    \A r \in Runs :
        /\ wrapper[r] \in {"asleep", "gone"} => TakenCare(r)
        /\ wrapper[r] = "emitted" => Reporters(r) # {}

Once == OnePane /\ NoTrace /\ Registered /\ Marked /\ Deciding /\ KillerReported

Never == SentinelMeant /\ Kept

RInv == IInv /\ Once /\ Never

-----------------------------------------------------------------------------
(* Reports are only added. *)
LEMMA ReportAdded ==
    ASSUME NEW q, NEW w \in {"wrapper"} \cup Actors,
           events' = events \cup {<<q, w>>}
    PROVE  /\ Reporters(q)' = Reporters(q) \cup {w}
           /\ \A r : r # q => Reporters(r)' = Reporters(r)
  BY DEF Reporters

LEMMA ReportsKept ==
    ASSUME UNCHANGED events
    PROVE  \A r : Reporters(r)' = Reporters(r)
  BY DEF Reporters

LEMMA RInvInit == Init => RInv
  <1> SUFFICES ASSUME Init PROVE RInv
    OBVIOUS
  <1>1. \A r : Reporters(r) = {}
    BY DEF Init, Reporters
  <1>2. \A a \in Actors : cli[a].at = "idle"
    BY IdleTyped DEF Init
  <1>3. \A r \in Runs : wrapper[r] = "absent"
    BY DEF Init
  <1>4. OnePane /\ NoTrace /\ Marked /\ Deciding /\ KillerReported
    BY <1>1, <1>2, <1>3
       DEF OnePane, PaneAlive, NoTrace, Marked, OwnReport, Deciding, KillerReported
  <1>5. Registered /\ Kept
    BY <1>1, <1>3 DEF Init, Registered, Kept
  <1>6. SentinelMeant
    <2>1. (CHOOSE l \in Labels : TRUE) \in Labels
      BY WorkloadAssumption
    <2> QED BY <1>2, <2>1 DEF Init, SentinelMeant, Setup
  <1> QED BY <1>4, <1>5, <1>6, IInvInit DEF RInv, Once, Never

(* What a step of the wrapper of r leaves alone. *)
RunFrame(r) ==
    /\ UNCHANGED <<registry, issued, label, cli>>
    /\ \A q \in Runs : q # r => wrapper'[q] = wrapper[q]
    /\ wrapper[r] # "absent" /\ wrapper'[r] # "absent"

LEMMA RunFrameKeeps ==
    ASSUME RInv, Typed', NEW r \in Runs, RunFrame(r),
           PaneAlive(r)' => PaneAlive(r),
           \A q \in Runs : q # r => Reporters(q)' = Reporters(q)
    PROVE  /\ \A q : Current(q)' <=> Current(q)
           /\ OnePane' /\ NoTrace' /\ Registered'
  <1>0. OnePane /\ NoTrace /\ Registered /\ Typed
    BY DEF RInv, IInv, Once
  <1>1. \A q : Current(q)' <=> Current(q)
    BY DEF RunFrame, Current
  <1>2. OnePane'
    <2>1. \A a \in Actors : cli[a].at = "drop" => cli[a].victim \in Runs
      BY <1>0 DEF Typed, HasRuns, Teardown
    <2> QED BY <1>0, <1>1, <2>1 DEF OnePane, RunFrame, PaneAlive
  <1>3. NoTrace'
    <2>1. \A a \in Actors : cli[a].at \in {"start", "save"} => cli[a].run \in Runs
      BY <1>0 DEF Typed, HasRuns
    <2>2. \A q \in Runs : wrapper'[q] = "absent" <=> wrapper[q] = "absent"
      BY DEF RunFrame
    <2>3. \A q \in Runs : wrapper'[q] = "absent" => Reporters(q)' = {}
      BY <1>0, <2>2 DEF NoTrace, RunFrame
    <2>4. /\ \A q \in Runs : q > issued' => wrapper'[q] = "absent"
          /\ \A a \in Actors :
                cli'[a].at = "start" => wrapper'[cli'[a].run] = "absent"
          /\ \A a \in Actors :
                cli'[a].at = "save" => wrapper'[cli'[a].run] # "absent"
      BY <1>0, <2>1, <2>2 DEF NoTrace, RunFrame
    <2> QED BY <2>3, <2>4 DEF NoTrace
  <1>4. Registered'
    <2>1. \A l \in Labels : registry[l] # 0 => registry[l] \in Runs
      <3>1. registry \in [Labels -> 0 .. MaxRuns] /\ MaxRuns \in Nat
        BY <1>0, WorkloadAssumption DEF Typed, TypeOK
      <3> QED BY <3>1 DEF Runs
    <2> QED BY <1>0, <2>1 DEF Registered, RunFrame
  <1> QED BY <1>1, <1>2, <1>3, <1>4

(* The victim of a teardown is what the registry has for its label. *)
LEMMA RInvView ==
    ASSUME RInv, NEW a \in Actors, cli[a].at \in Teardown
    PROVE  /\ cli[a].victim \in Runs /\ Current(cli[a].victim)
           /\ label[cli[a].victim] = cli[a].label
           /\ cli[a].label \in Labels /\ cli[a].view = registry
  <1>1. /\ cli[a].victim \in Runs /\ cli[a].victim = registry[cli[a].label]
        /\ cli[a].label \in Labels /\ cli[a].view = registry
    <2>1. cli[a] \in Commands
      BY DEF RInv, IInv, Typed, TypeOK
    <2> QED BY <2>1 DEF RInv, IInv, Typed, HasRuns, View, Commands, Teardown
  <1>2. cli[a].victim # 0
    BY <1>1, WorkloadAssumption DEF Runs
  <1>3. label[cli[a].victim] = cli[a].label
    BY <1>1, <1>2 DEF RInv, Once, Registered
  <1> QED BY <1>1, <1>3 DEF Current

(* Two live panes of one label are one. *)
LEMMA OneOfLabel ==
    ASSUME OneCommand, RInv, NEW r \in Runs, NEW q \in Runs,
           Current(r), Current(q), label[r] = label[q]
    PROVE  r = q
  <1>1. \A a \in Actors, n \in Runs :
           cli[a].at = "save" /\ cli[a].run = n => registry[label[n]] = 0
    BY DEF RInv, IInv, View, Setup
  <1>2. r # 0 /\ q # 0
    BY WorkloadAssumption DEF Runs
  <1> QED BY <1>1, <1>2 DEF Current, OneCommand

(* A step that none of this is about. *)
LEMMA Untouched ==
    ASSUME RInv,
           UNCHANGED <<registry, issued, label, cli, wrapper, events, sentinel,
                       exitFile, raced, cut>>
    PROVE  Once' /\ Never'
  <1>0. Once /\ Never
    BY DEF RInv
  <1>1. /\ \A r : Reporters(r)' = Reporters(r)
        /\ \A r : (Current(r)' <=> Current(r)) /\ (PaneAlive(r)' <=> PaneAlive(r))
    BY DEF Reporters, Current, PaneAlive
  <1>2. \A r : /\ (OwnReport(r)' <=> OwnReport(r))
              /\ (Stopped(r)' <=> Stopped(r))
              /\ (TakenCare(r)' <=> TakenCare(r))
    BY <1>1 DEF OwnReport, Stopped, TakenCare
  <1>3. OnePane' /\ NoTrace' /\ Registered'
    BY <1>0, <1>1 DEF Once, OnePane, NoTrace, Registered
  <1>4. Marked' /\ Deciding' /\ KillerReported'
    BY <1>0, <1>1, <1>2 DEF Once, Marked, Deciding, KillerReported
  <1>5. SentinelMeant' /\ Kept'
    BY <1>0, <1>1, <1>2 DEF Never, SentinelMeant, Kept
  <1> QED BY <1>3, <1>4, <1>5 DEF Once, Never

(* The steps of a run that matter to its report. *)
LEMMA RunReports ==
    ASSUME OneCommand, RInv, Typed', NEW r \in Runs,
           \/ WriteExit(r) \/ TakeSentinel(r) \/ EmitOwn(r) \/ SettleOwn(r)
           \/ ClosePane(r) \/ Crash(r)
    PROVE  Once' /\ Never'
  <1>0. /\ Typed /\ OnePane /\ NoTrace /\ Marked /\ Deciding /\ KillerReported
        /\ SentinelMeant /\ Kept
    BY DEF RInv, IInv, Once, Never
  <1>1. /\ wrapper \in [Runs -> WrapperAt] /\ exitFile \in [Labels -> BOOLEAN]
        /\ sentinel \in [Labels -> BOOLEAN] /\ label \in [Runs -> Labels]
        /\ wrapper' \in [Runs -> WrapperAt]
    BY <1>0 DEF Typed, TypeOK
  <1>2. RunFrame(r) /\ (PaneAlive(r)' => PaneAlive(r))
    BY <1>1 DEF RunFrame, PaneAlive, WriteExit, TakeSentinel, EmitOwn, SettleOwn,
                ClosePane, Crash, files
  <1>3. /\ \A q \in Runs : q # r => Reporters(q)' = Reporters(q)
        /\ Reporters(r)' = Reporters(r)
              \cup (IF EmitOwn(r) THEN {"wrapper"} ELSE {})
    <2>1. CASE EmitOwn(r)
      BY <2>1, ReportAdded DEF EmitOwn
    <2>2. CASE ~EmitOwn(r)
      <3>1. UNCHANGED events
        BY <2>2 DEF WriteExit, TakeSentinel, SettleOwn, ClosePane, Crash
      <3> QED BY <2>2, <3>1, ReportsKept
    <2> QED BY <2>1, <2>2
  <1>4. /\ \A q : Current(q)' <=> Current(q)
        /\ OnePane' /\ NoTrace' /\ Registered'
    BY <1>0, <1>2, <1>3, RunFrameKeeps
  <1>5. /\ UNCHANGED <<label, cli>>
        /\ raced \subseteq raced' /\ cut \subseteq cut'
    BY DEF WriteExit, TakeSentinel, EmitOwn, SettleOwn, ClosePane, Crash, files,
           history
  <1>6. \A q \in Runs : q # r => OwnReport(q)' = OwnReport(q)
    BY <1>2, <1>3 DEF OwnReport, RunFrame
  <1>7. ASSUME OwnReport(r)', ~OwnReport(r)
        PROVE  TakeSentinel(r) /\ ~sentinel[label[r]]
    <2>1. CASE EmitOwn(r)
      BY <1>7, <2>1 DEF OwnReport, EmitOwn
    <2>2. CASE ~EmitOwn(r)
      <3>1. wrapper'[r] \in {"emitting", "emitted"}
        BY <1>3, <1>7, <2>2 DEF OwnReport
      <3> QED BY <1>1, <1>7, <2>2, <3>1
              DEF OwnReport, WriteExit, TakeSentinel, SettleOwn, ClosePane, Crash
    <2> QED BY <2>1, <2>2
  <1>8. \A q \in Runs : TakenCare(q) => TakenCare(q)'
    BY <1>3, <1>5 DEF TakenCare
  <1>9. Marked'
    <2>1. \A l \in Labels : exitFile[l] => exitFile'[l]
      BY <1>1 DEF WriteExit, TakeSentinel, EmitOwn, SettleOwn, ClosePane, Crash,
                  files
    <2>2. \A q \in Runs : q # r => wrapper'[q] = wrapper[q]
      BY <1>2 DEF RunFrame
    <2>3. ASSUME Current(r), wrapper'[r] \in {"marked", "asleep"} \/ OwnReport(r)'
          PROVE  exitFile'[label[r]]
      <3>1. CASE WriteExit(r)
        BY <1>1, <3>1 DEF WriteExit
      <3>2. CASE ~WriteExit(r)
        <4>1. wrapper[r] \in {"marked", "asleep"} \/ OwnReport(r)
          BY <1>1, <1>7, <2>3, <3>2
             DEF TakeSentinel, EmitOwn, SettleOwn, ClosePane, Crash, OwnReport
        <4> QED BY <1>0, <1>1, <2>1, <2>3, <4>1 DEF Marked
      <3> QED BY <3>1, <3>2
    <2> QED BY <1>0, <1>1, <1>4, <1>5, <1>6, <2>1, <2>2, <2>3 DEF Marked
  <1>10. \A q \in Runs : Current(q) /\ Stopped(q) => Stopped(q)'
    <2> SUFFICES ASSUME NEW q \in Runs, Current(q), Stopped(q)
                 PROVE  Stopped(q)'
      OBVIOUS
    <2>1. CASE TakeSentinel(r)
      <3>1. CASE q = r
        BY <1>1, <2>1, <3>1 DEF TakeSentinel, Stopped
      <3>2. CASE q # r
        <4>1. Current(r)
          BY <1>0, <2>1 DEF OnePane, PaneAlive, TakeSentinel
        <4>2. label[q] # label[r]
          BY <3>2, <4>1, OneOfLabel
        <4> QED BY <1>1, <2>1, <3>2, <4>2 DEF TakeSentinel, Stopped
      <3> QED BY <3>1, <3>2
    <2>2. CASE ~TakeSentinel(r)
      BY <1>1, <2>2 DEF WriteExit, EmitOwn, SettleOwn, ClosePane, Crash, Stopped,
                        files
    <2> QED BY <2>1, <2>2
  <1>11. Deciding'
    <2>1. \A a \in Actors :
             cli[a].at \in {"mark", "sentinel", "emit"} => cli[a].victim \in Runs
      BY <1>0 DEF Typed, HasRuns, Teardown
    <2> SUFFICES ASSUME NEW a \in Actors, NEW v \in Runs, v = cli[a].victim,
                        cli[a].at \in {"mark", "sentinel", "emit"}
                 PROVE  /\ ~OwnReport(v)' \/ v \in raced'
                        /\ cli[a].at = "emit" => Stopped(v)'
      BY <1>5, <2>1 DEF Deciding, OwnReport, Stopped, Reporters
    <2>2. Current(v)
      BY RInvView DEF Teardown
    <2>3. ASSUME cli[a].at = "emit"
          PROVE  Stopped(v)'
      BY <1>0, <1>10, <2>2, <2>3 DEF Deciding
    <2>4. CASE ~OwnReport(v)' \/ OwnReport(v)
      <3>1. OwnReport(v) => v \in raced
        BY <1>0 DEF Deciding
      <3> QED BY <1>5, <2>3, <2>4, <3>1
    <2>5. CASE OwnReport(v)' /\ ~OwnReport(v)
      <3>1. v = r /\ TakeSentinel(r) /\ ~sentinel[label[r]]
        BY <1>6, <1>7, <2>5
      <3>2. cli[a].at # "emit"
        BY <1>0, <3>1 DEF Deciding, Stopped, TakeSentinel
      <3>3. v \in raced'
        BY <3>1, <3>2 DEF TakeSentinel
      <3> QED BY <2>3, <3>3
    <2> QED BY <2>4, <2>5
  <1>12. KillerReported'
    <2> SUFFICES ASSUME NEW q \in Runs \ raced', Reporters(q)' \cap Actors # {}
                 PROVE  ~OwnReport(q)' /\ Stopped(q)'
      BY DEF KillerReported
    <2>1. Reporters(q) \cap Actors # {} /\ q \notin raced
      BY <1>3, <1>5, WorkloadAssumption
    <2>2. ~OwnReport(q) /\ Stopped(q)
      BY <1>0, <2>1 DEF KillerReported
    <2>3. ~OwnReport(q)'
      <3>1. CASE q = r /\ TakeSentinel(r)
        BY <1>7, <2>2, <3>1 DEF TakeSentinel, Stopped
      <3> QED BY <1>6, <1>7, <2>2, <3>1
    <2>4. Stopped(q)'
      <3>1. CASE PaneAlive(q)
        BY <1>0, <1>10, <2>2, <3>1 DEF OnePane
      <3>2. CASE ~PaneAlive(q)
        BY <1>2, <3>2 DEF PaneAlive, Stopped, RunFrame
      <3> QED BY <3>1, <3>2
    <2> QED BY <2>3, <2>4
  <1>13. SentinelMeant'
    <2>1. \A l \in Labels : sentinel'[l] => sentinel[l]
      BY <1>1 DEF WriteExit, TakeSentinel, EmitOwn, SettleOwn, ClosePane, Crash,
                  files
    <2>2. \A a \in Actors : cli[a].label \in Labels
      BY <1>0 DEF Typed, TypeOK, Commands
    <2>3. \A q \in Runs : Current(q) /\ sentinel'[label[q]] => TakenCare(q)'
      BY <1>0, <1>1, <1>8, <2>1 DEF SentinelMeant
    <2> QED BY <1>0, <1>4, <1>5, <2>1, <2>2, <2>3 DEF SentinelMeant
  <1>14. Kept'
    <2>1. \A q \in Runs : q # r => wrapper'[q] = wrapper[q]
      BY <1>2 DEF RunFrame
    <2>2. wrapper'[r] \in {"asleep", "gone"} => TakenCare(r)'
      <3>1. CASE TakeSentinel(r)
        <4>1. Current(r)
          BY <1>0, <3>1 DEF OnePane, PaneAlive, TakeSentinel
        <4>2. ASSUME sentinel[label[r]]
              PROVE  TakenCare(r)'
          BY <1>0, <1>8, <4>1, <4>2 DEF SentinelMeant
        <4> QED BY <1>1, <3>1, <4>2 DEF TakeSentinel
      <3>2. CASE SettleOwn(r)
        BY <1>0, <1>8, <3>2 DEF SettleOwn, Kept, TakenCare
      <3>3. CASE ClosePane(r)
        BY <1>0, <1>8, <3>3 DEF ClosePane, Kept
      <3>4. CASE Crash(r)
        BY <3>4 DEF Crash, TakenCare
      <3>5. CASE WriteExit(r) \/ EmitOwn(r)
        BY <1>1, <3>5 DEF WriteExit, EmitOwn
      <3> QED BY <3>1, <3>2, <3>3, <3>4, <3>5
    <2>3. wrapper'[r] = "emitted" => Reporters(r)' # {}
      <3>1. CASE EmitOwn(r)
        BY <1>3, <3>1
      <3>2. CASE ~EmitOwn(r)
        BY <1>1, <3>2 DEF WriteExit, TakeSentinel, SettleOwn, ClosePane, Crash
      <3> QED BY <3>1, <3>2
    <2> QED BY <1>0, <1>3, <1>8, <2>1, <2>2, <2>3 DEF Kept
  <1> QED BY <1>4, <1>9, <1>11, <1>12, <1>13, <1>14 DEF Once, Never

(* A command goes on to d, and changes nothing but the exit marker.        *)
LEMMA MoveKeeps ==
    ASSUME OneCommand, RInv, NEW a \in Actors, NEW d,
           cli' = [cli EXCEPT ![a] = d],
           cli[a].at # "save",
           d.at \notin {"emit", "bind", "start", "save"},
           d.at \in {"mark", "sentinel"} =>
               ~OwnReport(d.victim) \/ d.victim \in raced,
           d.at = "drop" => ~PaneAlive(d.victim),
           cli[a].at = "emit" => cli[a].victim \in cut',
           cut \subseteq cut',
           \A l \in Labels : exitFile[l] => exitFile'[l],
           UNCHANGED <<registry, issued, label, wrapper, events, sentinel, raced>>
    PROVE  Once' /\ Never'
  <1>0. /\ OnePane /\ NoTrace /\ Registered /\ Marked /\ Deciding
        /\ KillerReported /\ SentinelMeant /\ Kept
        /\ cli \in [Actors -> Commands] /\ label \in [Runs -> Labels]
    BY DEF RInv, IInv, Typed, TypeOK, Once, Never
  <1>1. cli'[a] = d /\ \A b \in Actors : b = a
    BY <1>0 DEF OneCommand
  <1>2. /\ \A r : Reporters(r)' = Reporters(r)
        /\ \A r : (Current(r)' <=> Current(r)) /\ (PaneAlive(r)' <=> PaneAlive(r))
    BY <1>1 DEF Reporters, Current, PaneAlive
  <1>3. \A r : /\ (OwnReport(r)' <=> OwnReport(r))
              /\ (Stopped(r)' <=> Stopped(r))
              /\ (TakenCare(r) => TakenCare(r)')
    BY <1>1, <1>2 DEF OwnReport, Stopped, TakenCare
  <1>4. OnePane' /\ NoTrace' /\ Registered'
    BY <1>0, <1>1, <1>2 DEF OnePane, NoTrace, Registered, PaneAlive
  <1>5. Marked' /\ KillerReported'
    BY <1>0, <1>2, <1>3 DEF Marked, KillerReported
  <1>6. Deciding'
    BY <1>1, <1>3 DEF Deciding, OwnReport, Reporters
  <1>7. SentinelMeant' /\ Kept'
    <2>1. \A b \in Actors : cli'[b].at \notin Setup \ {"clean"}
      BY <1>1 DEF Setup
    <2> QED BY <1>0, <1>2, <1>3, <2>1 DEF SentinelMeant, Kept
  <1> QED BY <1>4, <1>5, <1>6, <1>7 DEF Once, Never

(* A command that opens, looks, or gives up.                               *)
LEMMA LookReports ==
    ASSUME OneCommand, RInv, NEW a \in Actors,
           \/ CheckPane(a) \/ CheckExit(a) \/ MarkExit(a) \/ SettleKilled(a)
           \/ BindRefused(a) \/ Interrupt(a)
           \/ \E op \in {"kill", "run", "carry"}, l \in Labels : Invoke(a, op, l)
           \/ Start(a) /\ cli' = [cli EXCEPT ![a] = Idle]
    PROVE  Once' /\ Never'
  <1>0. /\ cli \in [Actors -> Commands] /\ cli[a] \in Commands
        /\ exitFile \in [Labels -> BOOLEAN] /\ Marked /\ Deciding
    BY DEF RInv, IInv, Typed, TypeOK, Once
  <1>i. ASSUME cli' = [cli EXCEPT ![a] = Idle], cli[a].at # "save",
               cli[a].at = "emit" => cli[a].victim \in cut',
               cut \subseteq cut',
               UNCHANGED <<registry, issued, label, wrapper, events, sentinel,
                           exitFile, raced>>
        PROVE  Once' /\ Never'
    BY <1>i, IdleTyped, MoveKeeps
  <1>g. ASSUME NEW w \in {"exit", "drop", "signal", "mark", "sentinel"},
               Goto(a, w), cli[a].at \notin {"save", "emit"},
               w \in {"mark", "sentinel"} =>
                  ~OwnReport(cli[a].victim) \/ cli[a].victim \in raced,
               w = "drop" => ~PaneAlive(cli[a].victim),
               \A l \in Labels : exitFile[l] => exitFile'[l],
               UNCHANGED <<registry, issued, label, wrapper, events, sentinel,
                           raced, cut>>
        PROVE  Once' /\ Never'
    <2> DEFINE d == [cli[a] EXCEPT !.at = w]
    <2>1. d.at = w /\ d.victim = cli[a].victim /\ cli' = [cli EXCEPT ![a] = d]
      BY <1>0, <1>g DEF Commands, Goto
    <2> HIDE DEF d
    <2>2. d.at \in {"mark", "sentinel"} => ~OwnReport(d.victim) \/ d.victim \in raced
      BY <1>g, <2>1
    <2>3. /\ cli[a].at # "save" /\ d.at \notin {"emit", "bind", "start", "save"}
          /\ cli[a].at = "emit" => cli[a].victim \in cut'
          /\ cut \subseteq cut'
          /\ d.at = "drop" => ~PaneAlive(d.victim)
      BY <1>g, <2>1
    <2> QED BY <1>g, <2>1, <2>2, <2>3, MoveKeeps
  <1>1. CASE CheckPane(a)
    <2>1. \/ Goto(a, "exit")
          \/ Goto(a, "drop") /\ ~PaneAlive(cli[a].victim)
      BY <1>1 DEF CheckPane
    <2>2. /\ cli[a].at \notin {"save", "emit"}
          /\ UNCHANGED <<registry, issued, label, wrapper, events, sentinel,
                         exitFile, raced, cut>>
      BY <1>1 DEF CheckPane, history
    <2> QED BY <1>g, <2>1, <2>2
  <1>2. CASE CheckExit(a)
    <2>1. /\ cli[a].at = "exit"
          /\ UNCHANGED <<registry, issued, label, wrapper, events, sentinel,
                         exitFile, raced, cut>>
      BY <1>2 DEF CheckExit, files, history
    <2>2. ASSUME ~exitFile[cli[a].label]
          PROVE  ~OwnReport(cli[a].victim)
      BY <1>0, <2>1, <2>2, RInvView DEF Marked, Teardown
    <2>3. \/ Goto(a, "signal")
          \/ ~exitFile[cli[a].label] /\ Goto(a, "mark")
      BY <1>2 DEF CheckExit
    <2> QED BY <1>g, <2>1, <2>2, <2>3
  <1>3. CASE MarkExit(a)
    <2>1. /\ cli[a].at = "mark" /\ Goto(a, "sentinel")
          /\ \A l \in Labels : exitFile[l] => exitFile'[l]
          /\ UNCHANGED <<registry, issued, label, wrapper, events, sentinel,
                         raced, cut>>
      BY <1>0, <1>3 DEF MarkExit, history
    <2>2. ~OwnReport(cli[a].victim) \/ cli[a].victim \in raced
      BY <1>0, <2>1 DEF Deciding
    <2> QED BY <1>g, <2>1, <2>2
  <1>4. CASE SettleKilled(a)
    <2>1. /\ cli[a].at = "settle" /\ Goto(a, "signal")
          /\ UNCHANGED <<registry, issued, label, wrapper, events, sentinel,
                         exitFile, raced, cut>>
      BY <1>4 DEF SettleKilled, files, history
    <2> QED BY <1>g, <2>1
  <1>5. CASE BindRefused(a)
    BY <1>5, <1>i DEF BindRefused, files, history
  <1>6. CASE Interrupt(a)
    BY <1>6, <1>i DEF Interrupt, files, history
  <1>7. CASE Start(a) /\ cli' = [cli EXCEPT ![a] = Idle]
    <2>1. cli'[a] = Idle
      BY <1>0, <1>7
    <2>2. cli'[a].at # "save"
      BY <2>1, IdleTyped
    <2>3. UNCHANGED wrapper
      BY <1>0, <1>7, <2>2 DEF Start, Goto, Commands
    <2> QED BY <1>7, <1>i, <2>3 DEF Start, files, history
  <1>8. ASSUME NEW op \in {"kill", "run", "carry"}, NEW l \in Labels,
               Invoke(a, op, l)
        PROVE  Once' /\ Never'
    <2> DEFINE d == [Idle EXCEPT !.op = op, !.label = l, !.view = registry,
                       !.victim = registry[l],
                       !.at = IF registry[l] = 0 THEN "clean" ELSE "pane"]
    <2>1. d.at \in {"clean", "pane"} /\ cli' = [cli EXCEPT ![a] = d]
      BY <1>8, IdleTyped DEF Invoke, Commands
    <2> HIDE DEF d
    <2>2. /\ cli[a].at = "idle"
          /\ UNCHANGED <<registry, issued, label, wrapper, events, sentinel,
                         exitFile, raced, cut>>
      BY <1>8 DEF Invoke, files, history
    <2> QED BY <2>1, <2>2, MoveKeeps
  <1> QED BY <1>1, <1>2, <1>3, <1>4, <1>5, <1>6, <1>7, <1>8

(* The sentinel is in place: only now the killer reports. *)
LEMMA SentinelReports ==
    ASSUME OneCommand, RInv, NEW a \in Actors, MarkSentinel(a)
    PROVE  Once' /\ Never'
  <1> DEFINE l == cli[a].label
  <1>0. /\ OnePane /\ NoTrace /\ Registered /\ Marked /\ Deciding
        /\ KillerReported /\ SentinelMeant /\ Kept
        /\ cli \in [Actors -> Commands] /\ cli[a] \in Commands
        /\ sentinel \in [Labels -> BOOLEAN] /\ label \in [Runs -> Labels]
    BY DEF RInv, IInv, Typed, TypeOK, Once, Never
  <1>1. PICK v \in Runs : /\ v = cli[a].victim /\ Current(v) /\ label[v] = l
                          /\ l \in Labels
    BY RInvView DEF MarkSentinel, Teardown
  <1>2. /\ cli[a].at = "sentinel" /\ cli'[a].at = "emit" /\ cli'[a].victim = v
        /\ \A b \in Actors : b = a
        /\ sentinel' = [sentinel EXCEPT ![l] = TRUE]
        /\ UNCHANGED <<registry, exitFile, issued, label, wrapper, events,
                       raced, cut>>
    BY <1>0, <1>1 DEF MarkSentinel, Goto, Commands, OneCommand, history
  <1>3. /\ \A r : Reporters(r)' = Reporters(r)
        /\ \A r : (Current(r)' <=> Current(r)) /\ (PaneAlive(r)' <=> PaneAlive(r))
    BY <1>2 DEF Reporters, Current, PaneAlive
  <1>4. /\ \A r : OwnReport(r)' <=> OwnReport(r)
        /\ \A r \in Runs : /\ Stopped(r) => Stopped(r)'
                           /\ TakenCare(r) => TakenCare(r)'
        /\ TakenCare(v)' /\ Stopped(v)'
    BY <1>0, <1>1, <1>2, <1>3 DEF OwnReport, Stopped, TakenCare
  <1>5. OnePane' /\ NoTrace' /\ Registered'
    BY <1>0, <1>2, <1>3 DEF OnePane, NoTrace, Registered
  <1>6. Marked' /\ KillerReported'
    BY <1>0, <1>2, <1>3, <1>4 DEF Marked, KillerReported
  <1>7. Deciding'
    <2>1. ~OwnReport(v) \/ v \in raced
      BY <1>0, <1>1, <1>2 DEF Deciding
    <2> QED BY <1>2, <1>3, <1>4, <2>1 DEF Deciding, OwnReport, Stopped, Reporters
  <1>8. SentinelMeant'
    <2>1. ASSUME NEW r \in Runs, Current(r), sentinel'[label[r]]
          PROVE  TakenCare(r)'
      <3>1. CASE label[r] = l
        BY <1>1, <1>4, <2>1, <3>1, OneOfLabel
      <3>2. CASE label[r] # l
        BY <1>0, <1>1, <1>2, <1>4, <2>1, <3>2 DEF SentinelMeant
      <3> QED BY <3>1, <3>2
    <2>2. \A b \in Actors : cli'[b].at \notin Setup
      BY <1>2 DEF Setup
    <2> QED BY <1>2, <1>3, <2>1, <2>2 DEF SentinelMeant
  <1>9. Kept'
    BY <1>0, <1>2, <1>3, <1>4 DEF Kept
  <1> QED BY <1>5, <1>6, <1>7, <1>8, <1>9 DEF Once, Never

LEMMA EmitReports ==
    ASSUME OneCommand, RInv, NEW a \in Actors, EmitKilled(a)
    PROVE  Once' /\ Never'
  <1>0. /\ OnePane /\ NoTrace /\ Registered /\ Marked /\ Deciding
        /\ KillerReported /\ SentinelMeant /\ Kept
        /\ cli \in [Actors -> Commands] /\ cli[a] \in Commands
        /\ wrapper \in [Runs -> WrapperAt]
    BY DEF RInv, IInv, Typed, TypeOK, Once, Never
  <1>1. PICK v \in Runs : /\ v = cli[a].victim
                          /\ v = registry[cli[a].label] /\ cli[a].label \in Labels
    BY <1>0, RInvView DEF EmitKilled, Teardown, RInv, IInv, View
  <1>2. /\ cli[a].at = "emit" /\ cli'[a].at = "settle"
        /\ \A b \in Actors : b = a
        /\ events' = events \cup {<<v, a>>}
        /\ UNCHANGED <<registry, exitFile, sentinel, issued, label, wrapper,
                       raced, cut>>
    BY <1>0, <1>1 DEF EmitKilled, Goto, Commands, OneCommand, files, history
  <1>3. /\ Reporters(v)' = Reporters(v) \cup {a}
        /\ \A r : r # v => Reporters(r)' = Reporters(r)
    BY <1>2, ReportAdded
  <1>4. \A r : (Current(r)' <=> Current(r)) /\ (PaneAlive(r)' <=> PaneAlive(r))
    BY <1>2 DEF Current, PaneAlive
  <1>5. /\ \A r : (OwnReport(r)' <=> OwnReport(r)) /\ (Stopped(r)' <=> Stopped(r))
        /\ \A r \in Runs : TakenCare(r) => TakenCare(r)'
    BY <1>1, <1>2, <1>3, WorkloadAssumption DEF OwnReport, Stopped, TakenCare
  <1>6. OnePane' /\ Registered' /\ Marked'
    BY <1>0, <1>2, <1>4, <1>5 DEF OnePane, Registered, Marked
  <1>7. NoTrace'
    <2>1. wrapper[v] # "absent"
      BY <1>0, <1>1, WorkloadAssumption DEF Registered, Runs
    <2>2. \A r \in Runs : wrapper[r] = "absent" => Reporters(r)' = {}
      BY <1>0, <1>3, <2>1 DEF NoTrace
    <2>3. /\ \A r \in Runs : r > issued => wrapper[r] = "absent"
          /\ \A b \in Actors : cli'[b].at \notin {"start", "save"}
      BY <1>0, <1>2 DEF NoTrace
    <2> QED BY <1>2, <2>2, <2>3 DEF NoTrace
  <1>8. KillerReported'
    <2>1. v \notin raced => ~OwnReport(v) /\ Stopped(v)
      BY <1>0, <1>1, <1>2 DEF Deciding
    <2> QED BY <1>0, <1>2, <1>3, <1>5, <2>1 DEF KillerReported
  <1>9. Deciding'
    BY <1>2 DEF Deciding
  <1>10. SentinelMeant' /\ Kept'
    <2>1. \A b \in Actors : cli'[b].at \notin Setup
      BY <1>2 DEF Setup
    <2> QED BY <1>0, <1>2, <1>3, <1>4, <1>5, <2>1 DEF SentinelMeant, Kept
  <1> QED BY <1>6, <1>7, <1>8, <1>9, <1>10 DEF Once, Never

(* The wrapper is stopped, or its emit-done is: before it had reported, or *)
(* after somebody had.                                                     *)
LEMMA StopReports ==
    ASSUME OneCommand, RInv, NEW a \in Actors, Signal(a) \/ KillPane(a)
    PROVE  Once' /\ Never'
  <1>0. /\ OnePane /\ NoTrace /\ Registered /\ Marked /\ Deciding
        /\ KillerReported /\ SentinelMeant /\ Kept
        /\ cli \in [Actors -> Commands] /\ cli[a] \in Commands
        /\ wrapper \in [Runs -> WrapperAt]
    BY DEF RInv, IInv, Typed, TypeOK, Once, Never
  <1>1. PICK v \in Runs : /\ v = cli[a].victim
                          /\ v = registry[cli[a].label] /\ cli[a].label \in Labels
    BY <1>0, RInvView DEF Signal, KillPane, Teardown, RInv, IInv, View
  <1>2. /\ cli[a].at \in {"signal", "closing"} /\ cli'[a].at \in {"closing", "drop"}
        /\ cli'[a].victim = v
        /\ cli'[a].at = "drop" => wrapper'[v] = "gone"
        /\ \A b \in Actors : b = a
        /\ UNCHANGED <<registry, exitFile, sentinel, issued, label, events, raced>>
    <2>1. /\ \A b \in Actors : b = a
          /\ UNCHANGED <<registry, exitFile, sentinel, issued, label, events, raced>>
      BY DEF Signal, KillPane, OneCommand, files
    <2>2. CASE Signal(a)
      <3>1. \/ Goto(a, "closing")
            \/ cli' = [cli EXCEPT ![a].at = "closing", ![a].survived = TRUE]
        BY <2>2 DEF Signal
      <3>2. cli'[a].at = "closing" /\ cli'[a].victim = v
        <4>1. CASE Goto(a, "closing")
          BY <1>0, <1>1, <4>1 DEF Goto, Commands
        <4> DEFINE c == [cli[a] EXCEPT !.at = "closing", !.survived = TRUE]
        <4>2. CASE cli' = [cli EXCEPT ![a].at = "closing", ![a].survived = TRUE]
          <5>1. c.at = "closing" /\ c.victim = v
            BY <1>0, <1>1 DEF Commands
          <5>2. cli' = [cli EXCEPT ![a] = c]
            BY <1>0, <4>2
          <5> QED BY <1>0, <5>1, <5>2
        <4> QED BY <3>1, <4>1, <4>2
      <3> QED BY <2>1, <2>2, <3>2 DEF Signal
    <2>3. CASE KillPane(a)
      BY <1>0, <1>1, <2>1, <2>3 DEF KillPane, Goto, Commands
    <2> QED BY <2>2, <2>3
  <1>3. wrapper[v] # "absent"
    BY <1>0, <1>1, WorkloadAssumption DEF Registered, Runs
  <1>4. /\ \A r \in Runs : r # v => wrapper'[r] = wrapper[r]
        /\ \/ wrapper'[v] = wrapper[v]
           \/ wrapper'[v] = "asleep" /\ Reporting(v)
           \/ wrapper'[v] = "gone"
        /\ cut \subseteq cut'
    BY <1>0, <1>1 DEF Signal, KillPane
  <1>5. /\ \A r : Reporters(r)' = Reporters(r)
        /\ \A r : Current(r)' <=> Current(r)
        /\ \A r \in Runs : PaneAlive(r)' => PaneAlive(r)
    BY <1>2, <1>4 DEF Reporters, Current, PaneAlive, Reporting
  <1>6. /\ \A r \in Runs : /\ OwnReport(r)' => OwnReport(r)
                           /\ Stopped(r) => Stopped(r)'
                           /\ TakenCare(r) => TakenCare(r)'
    BY <1>2, <1>4, <1>5 DEF OwnReport, Stopped, TakenCare
  <1>7. OnePane'
    BY <1>0, <1>2, <1>5 DEF OnePane, PaneAlive
  <1>8. NoTrace' /\ Registered'
    <2>1. \A r \in Runs : wrapper'[r] = "absent" <=> wrapper[r] = "absent"
      BY <1>3, <1>4 DEF Reporting
    <2>2. \A l \in Labels : registry[l] # 0 => registry[l] \in Runs
      <3>1. registry \in [Labels -> 0 .. MaxRuns] /\ MaxRuns \in Nat
        BY WorkloadAssumption DEF RInv, IInv, Typed, TypeOK
      <3> QED BY <3>1 DEF Runs
    <2>3. \A r \in Runs : wrapper'[r] = "absent" => Reporters(r)' = {}
      BY <1>0, <1>5, <2>1 DEF NoTrace
    <2>4. /\ \A r \in Runs : r > issued => wrapper'[r] = "absent"
          /\ \A b \in Actors : cli'[b].at \notin {"start", "save"}
      BY <1>0, <1>2, <2>1 DEF NoTrace
    <2>5. NoTrace'
      BY <1>2, <2>3, <2>4 DEF NoTrace
    <2> QED BY <1>0, <1>2, <2>1, <2>2, <2>5 DEF Registered
  <1>9. Marked'
    <2>1. \A r \in Runs : wrapper'[r] \in {"marked", "asleep"} =>
             wrapper[r] \in {"marked", "asleep"} \/ OwnReport(r)
      BY <1>4 DEF OwnReport, Reporting
    <2> QED BY <1>0, <1>2, <1>5, <1>6, <2>1 DEF Marked
  <1>10. KillerReported' /\ Deciding'
    BY <1>0, <1>2, <1>5, <1>6 DEF KillerReported, Deciding
  <1>11. SentinelMeant'
    <2>1. \A b \in Actors : cli'[b].at \notin Setup
      BY <1>2 DEF Setup
    <2> QED BY <1>0, <1>2, <1>5, <1>6, <2>1 DEF SentinelMeant
  <1>12. Kept'
    <2>1. ASSUME <<v, a>> \in events
          PROVE  Reporters(v) # {}
      BY <2>1 DEF Reporters
    <2>2. ASSUME wrapper'[v] \in {"asleep", "gone"}
          PROVE  TakenCare(v)'
      <3>1. CASE wrapper[v] \in {"asleep", "gone"}
        BY <1>0, <1>6, <3>1 DEF Kept
      <3>2. CASE wrapper[v] \notin {"asleep", "gone"}
        <4>1. <<v, a>> \in events \/ v \in cut'
          BY <1>0, <1>1, <1>3, <2>2, <3>2
             DEF Signal, KillPane, PaneAlive, Reporting
        <4> QED BY <1>5, <2>1, <4>1 DEF TakenCare
      <3> QED BY <3>1, <3>2
    <2> QED BY <1>0, <1>4, <1>5, <1>6, <2>2 DEF Kept
  <1> QED BY <1>7, <1>8, <1>9, <1>10, <1>11, <1>12 DEF Once, Never

(* The label is dropped with its pane. *)
LEMMA DropReports ==
    ASSUME OneCommand, RInv, NEW a \in Actors, Drop(a)
    PROVE  Once' /\ Never'
  <1> DEFINE l == cli[a].label
  <1>0. /\ OnePane /\ NoTrace /\ Registered /\ Marked /\ Deciding
        /\ KillerReported /\ SentinelMeant /\ Kept
        /\ cli \in [Actors -> Commands] /\ cli[a] \in Commands
        /\ registry \in [Labels -> 0 .. MaxRuns] /\ label \in [Runs -> Labels]
    BY DEF RInv, IInv, Typed, TypeOK, Once, Never
  <1>1. PICK v \in Runs : /\ v = cli[a].victim /\ Current(v) /\ label[v] = l
                          /\ l \in Labels /\ cli[a].view = registry
    BY RInvView DEF Drop, Teardown
  <1>2. /\ cli[a].at = "drop" /\ cli'[a].at \in {"idle", "clean"}
        /\ \A b \in Actors : b = a
        /\ UNCHANGED <<exitFile, sentinel, issued, label, wrapper, events,
                       raced, cut>>
    BY <1>0, IdleTyped DEF Drop, Commands, OneCommand, history
  <1>3. /\ registry'[l] = 0
        /\ \A k \in Labels : k # l => registry'[k] = registry[k]
    BY <1>0, <1>1 DEF Drop
  <1>4. /\ \A r : Reporters(r)' = Reporters(r)
        /\ \A r : PaneAlive(r)' <=> PaneAlive(r)
        /\ \A r \in Runs : Current(r)' => Current(r)
    <2>1. \A r \in Runs : registry'[label[r]] = r => registry[label[r]] = r
      BY <1>0, <1>3, WorkloadAssumption DEF Runs
    <2> QED BY <1>2, <2>1 DEF Reporters, PaneAlive, Current
  <1>5. \A r : /\ (OwnReport(r)' <=> OwnReport(r))
              /\ (Stopped(r)' <=> Stopped(r))
              /\ (TakenCare(r) => TakenCare(r)')
    BY <1>2, <1>4 DEF OwnReport, Stopped, TakenCare
  <1>6. OnePane'
    <2>1. ASSUME NEW r \in Runs, PaneAlive(r)
          PROVE  Current(r)'
      <3>1. Current(r) /\ r # v
        BY <1>0, <1>1, <1>2, <2>1 DEF OnePane
      <3>2. registry[label[r]] = r /\ label[r] # l
        BY <1>1, <1>2, <3>1, OneOfLabel DEF Current
      <3> QED BY <1>0, <1>2, <1>3, <3>2 DEF Current
    <2> QED BY <1>2, <1>4, <2>1 DEF OnePane
  <1>7. NoTrace' /\ Registered' /\ Marked' /\ Deciding' /\ KillerReported'
    BY <1>0, <1>2, <1>3, <1>4, <1>5
       DEF NoTrace, Registered, Marked, Deciding, KillerReported
  <1>8. SentinelMeant' /\ Kept'
    <2>1. \A b \in Actors : cli'[b].at \notin Setup \ {"clean"}
      BY <1>2 DEF Setup
    <2> QED BY <1>0, <1>2, <1>4, <1>5, <2>1 DEF SentinelMeant, Kept
  <1> QED BY <1>6, <1>7, <1>8 DEF Once, Never

(* No pane of the label is alive when its files are removed. *)
LEMMA CleanReports ==
    ASSUME OneCommand, RInv, NEW a \in Actors, Clean(a)
    PROVE  Once' /\ Never'
  <1> DEFINE l == cli[a].label
  <1>0. /\ OnePane /\ NoTrace /\ Registered /\ Marked /\ Deciding
        /\ KillerReported /\ SentinelMeant /\ Kept
        /\ cli \in [Actors -> Commands] /\ cli[a] \in Commands
        /\ sentinel \in [Labels -> BOOLEAN] /\ exitFile \in [Labels -> BOOLEAN]
        /\ label \in [Runs -> Labels]
    BY DEF RInv, IInv, Typed, TypeOK, Once, Never
  <1>1. registry[l] = 0 /\ l \in Labels
    BY <1>0 DEF RInv, IInv, View, Clean, Setup, Commands
  <1>2. /\ cli[a].at = "clean" /\ cli'[a].at = "bind" /\ cli'[a].label = l
        /\ \A b \in Actors : b = a
        /\ UNCHANGED <<registry, issued, label, wrapper, events, raced, cut>>
    BY <1>0 DEF Clean, Goto, Commands, OneCommand, history
  <1>3. /\ ~sentinel'[l]
        /\ \A k \in Labels : k # l => /\ exitFile'[k] = exitFile[k]
                                     /\ sentinel'[k] = sentinel[k]
    BY <1>0, <1>1 DEF Clean
  <1>4. /\ \A r : Reporters(r)' = Reporters(r)
        /\ \A r : PaneAlive(r)' <=> PaneAlive(r)
        /\ \A r : Current(r)' <=> Current(r)
        /\ \A r \in Runs : Current(r) => label[r] # l
    BY <1>1, <1>2, WorkloadAssumption DEF Reporters, PaneAlive, Current, Runs
  <1>5. \A r \in Runs : /\ (OwnReport(r)' <=> OwnReport(r))
                       /\ (Stopped(r) => Stopped(r)')
                       /\ (TakenCare(r) => TakenCare(r)')
    <2>1. \A r \in Runs : wrapper[r] \in {"waiting", "marked"} => label[r] # l
      BY <1>0, <1>4 DEF OnePane, PaneAlive
    <2> QED BY <1>0, <1>2, <1>3, <1>4, <2>1 DEF OwnReport, Stopped, TakenCare
  <1>6. OnePane' /\ NoTrace' /\ Registered'
    BY <1>0, <1>2, <1>4 DEF OnePane, NoTrace, Registered
  <1>7. Marked' /\ Deciding' /\ KillerReported'
    BY <1>0, <1>2, <1>3, <1>4, <1>5 DEF Marked, Deciding, KillerReported
  <1>8. SentinelMeant' /\ Kept'
    BY <1>0, <1>2, <1>3, <1>4, <1>5 DEF SentinelMeant, Kept
  <1> QED BY <1>6, <1>7, <1>8 DEF Once, Never

(* A run that is bound has left no trace. *)
LEMMA BindReports ==
    ASSUME OneCommand, RInv, NEW a \in Actors, Bind(a)
    PROVE  Once' /\ Never'
  <1> DEFINE n == issued + 1
  <1>0. /\ OnePane /\ NoTrace /\ Registered /\ Marked /\ Deciding
        /\ KillerReported /\ SentinelMeant /\ Kept
        /\ cli \in [Actors -> Commands] /\ cli[a] \in Commands
        /\ registry \in [Labels -> 0 .. MaxRuns] /\ label \in [Runs -> Labels]
        /\ issued \in 0 .. MaxRuns /\ MaxRuns \in Nat
    BY WorkloadAssumption DEF RInv, IInv, Typed, TypeOK, Once, Never
  <1>1. /\ cli[a].at = "bind" /\ cli'[a].at = "start" /\ cli'[a].run = n
        /\ cli'[a].label = cli[a].label
        /\ \A b \in Actors : b = a
        /\ n \in Runs /\ issued' = n /\ issued \in Nat
        /\ label' = [label EXCEPT ![n] = cli[a].label]
        /\ cli[a].label \in Labels
        /\ UNCHANGED <<registry, exitFile, sentinel, wrapper, events, raced, cut>>
    BY <1>0 DEF Bind, Commands, OneCommand, Runs, files, history
  <1>2. /\ wrapper[n] = "absent" /\ Reporters(n) = {}
        /\ \A k \in Labels : registry[k] # n
    <2>1. wrapper[n] = "absent" /\ n # 0
      BY <1>0, <1>1 DEF NoTrace
    <2> QED BY <1>0, <1>1, <2>1 DEF NoTrace, Registered
  <1>3. /\ \A r : Reporters(r)' = Reporters(r)
        /\ \A r : PaneAlive(r)' <=> PaneAlive(r)
        /\ \A r \in Runs : r # n => label'[r] = label[r]
        /\ \A r \in Runs : Current(r)' <=> Current(r) /\ r # n
    <2>1. label'[n] \in Labels /\ label[n] \in Labels
      BY <1>0, <1>1
    <2> QED BY <1>0, <1>1, <1>2, <2>1 DEF Reporters, PaneAlive, Current
  <1>4. \A r \in Runs : /\ (OwnReport(r)' <=> OwnReport(r))
                       /\ (Stopped(r) => Stopped(r)')
                       /\ (TakenCare(r) => TakenCare(r)')
    BY <1>1, <1>2, <1>3 DEF OwnReport, Stopped, TakenCare
  <1>5. OnePane'
    BY <1>0, <1>1, <1>2, <1>3 DEF OnePane, PaneAlive
  <1>6. NoTrace'
    <2>1. \A r \in Runs : r > n => wrapper[r] = "absent"
      BY <1>0, <1>1 DEF NoTrace, Runs
    <2>2. \A r \in Runs : wrapper[r] = "absent" => Reporters(r)' = {}
      BY <1>0, <1>3 DEF NoTrace
    <2> QED BY <1>1, <1>2, <2>1, <2>2 DEF NoTrace
  <1>7. Registered'
    <2>1. \A k \in Labels : registry[k] # 0 => registry[k] \in Runs
      BY <1>0 DEF Runs
    <2> QED BY <1>0, <1>1, <1>2, <1>3, <2>1 DEF Registered
  <1>8. Marked' /\ Deciding' /\ KillerReported'
    BY <1>0, <1>1, <1>3, <1>4 DEF Marked, Deciding, KillerReported
  <1>9. SentinelMeant' /\ Kept'
    <2>1. ~sentinel[cli[a].label]
      BY <1>0, <1>1 DEF SentinelMeant, Setup
    <2> QED BY <1>0, <1>1, <1>3, <1>4, <2>1 DEF SentinelMeant, Kept
  <1> QED BY <1>5, <1>6, <1>7, <1>8, <1>9 DEF Once, Never

(* It starts with no sentinel of an earlier run. *)
LEMMA StartReports ==
    ASSUME OneCommand, RInv, NEW a \in Actors, Start(a)
    PROVE  Once' /\ Never'
  <1> DEFINE n == cli[a].run
  <1>0. /\ OnePane /\ NoTrace /\ Registered /\ Marked /\ Deciding
        /\ KillerReported /\ SentinelMeant /\ Kept
        /\ cli \in [Actors -> Commands] /\ cli[a] \in Commands
        /\ wrapper \in [Runs -> WrapperAt] /\ label \in [Runs -> Labels]
        /\ registry \in [Labels -> 0 .. MaxRuns] /\ MaxRuns \in Nat
        /\ issued \in Nat
    BY WorkloadAssumption DEF RInv, IInv, Typed, TypeOK, Once, Never
  <1>1. /\ n \in Runs /\ n <= issued /\ label[n] = cli[a].label
        /\ registry[label[n]] = 0 /\ cli[a].at = "start"
    BY DEF Start, RInv, IInv, Typed, HasRuns, View, Setup
  <1>2. CASE cli' = [cli EXCEPT ![a] = Idle]
    BY <1>2, LookReports
  <1>3. CASE wrapper' = [wrapper EXCEPT ![n] = "waiting"] /\ Goto(a, "save")
    <2>1. /\ cli'[a].at = "save" /\ cli'[a].run = n
          /\ cli'[a].label = cli[a].label
          /\ \A b \in Actors : b = a
          /\ wrapper'[n] = "waiting"
          /\ \A r \in Runs : r # n => wrapper'[r] = wrapper[r]
          /\ UNCHANGED <<registry, exitFile, sentinel, issued, label, events,
                         raced, cut>>
      BY <1>0, <1>1, <1>3 DEF Start, Goto, Commands, OneCommand, files, history
    <2>2. wrapper[n] = "absent" /\ Reporters(n) = {} /\ ~sentinel[label[n]]
      BY <1>0, <1>1 DEF NoTrace, SentinelMeant, Setup
    <2>3. /\ \A r : Reporters(r)' = Reporters(r)
          /\ \A r \in Runs : Current(r)' <=> Current(r) \/ r = n
      BY <1>1, <2>1 DEF Reporters, Current
    <2>4. /\ \A r \in Runs : r # n => /\ (OwnReport(r)' <=> OwnReport(r))
                                    /\ (Stopped(r)' <=> Stopped(r))
                                    /\ (PaneAlive(r)' <=> PaneAlive(r))
          /\ \A r \in Runs : TakenCare(r) => TakenCare(r)'
          /\ ~OwnReport(n)'
      BY <1>1, <2>1, <2>2, <2>3 DEF OwnReport, Stopped, PaneAlive, TakenCare
    <2>5. OnePane'
      BY <1>0, <2>1, <2>3, <2>4 DEF OnePane
    <2>6. NoTrace'
      <3>1. \A r \in Runs : r > issued => wrapper'[r] = "absent"
        BY <1>0, <1>1, <2>1 DEF NoTrace, Runs
      <3>2. \A r \in Runs : wrapper'[r] = "absent" => Reporters(r)' = {}
        BY <1>0, <2>1, <2>3 DEF NoTrace
      <3> QED BY <2>1, <3>1, <3>2 DEF NoTrace
    <2>7. Registered'
      <3>1. \A k \in Labels : registry[k] # 0 => registry[k] \in Runs
        BY <1>0 DEF Runs
      <3> QED BY <1>0, <2>1, <3>1 DEF Registered
    <2>8. Marked' /\ Deciding'
      BY <1>0, <2>1, <2>3, <2>4 DEF Marked, Deciding
    <2>9. KillerReported'
      BY <1>0, <2>1, <2>2, <2>3, <2>4 DEF KillerReported
    <2>10. SentinelMeant'
      BY <1>0, <1>1, <2>1, <2>2, <2>3, <2>4 DEF SentinelMeant
    <2>11. Kept'
      BY <1>0, <2>1, <2>3, <2>4 DEF Kept
    <2> QED BY <2>5, <2>6, <2>7, <2>8, <2>9, <2>10, <2>11 DEF Once, Never
  <1> QED BY <1>2, <1>3 DEF Start

LEMMA SaveReports ==
    ASSUME OneCommand, RInv, NEW a \in Actors, Save(a)
    PROVE  Once' /\ Never'
  <1> DEFINE n == cli[a].run
             l == cli[a].label
  <1>0. /\ OnePane /\ NoTrace /\ Registered /\ Marked /\ Deciding
        /\ KillerReported /\ SentinelMeant /\ Kept
        /\ cli \in [Actors -> Commands] /\ cli[a] \in Commands
        /\ registry \in [Labels -> 0 .. MaxRuns] /\ label \in [Runs -> Labels]
    BY DEF RInv, IInv, Typed, TypeOK, Once, Never
  <1>1. /\ n \in Runs /\ l \in Labels /\ label[n] = l /\ registry[l] = 0
        /\ cli[a].at = "save" /\ cli[a].view = registry
    BY <1>0 DEF Save, RInv, IInv, Typed, HasRuns, View, Setup, Commands
  <1>2. /\ cli'[a].at = "idle" /\ \A b \in Actors : b = a
        /\ registry'[l] = n
        /\ \A k \in Labels : k # l => registry'[k] = registry[k]
        /\ UNCHANGED <<exitFile, sentinel, issued, label, wrapper, events,
                       raced, cut>>
    BY <1>0, <1>1, IdleTyped DEF Save, OneCommand, history
  <1>3. /\ \A r : Reporters(r)' = Reporters(r)
        /\ \A r : PaneAlive(r)' <=> PaneAlive(r)
        /\ \A r \in Runs : Current(r)' <=> Current(r)
    <2>1. \A r \in Runs : r # 0
      BY WorkloadAssumption DEF Runs
    <2> QED BY <1>0, <1>1, <1>2, <2>1 DEF Reporters, PaneAlive, Current
  <1>4. \A r : /\ (OwnReport(r)' <=> OwnReport(r))
              /\ (Stopped(r)' <=> Stopped(r))
              /\ (TakenCare(r) => TakenCare(r)')
    BY <1>1, <1>2, <1>3 DEF OwnReport, Stopped, TakenCare
  <1>5. OnePane' /\ NoTrace' /\ Registered'
    BY <1>0, <1>1, <1>2, <1>3 DEF OnePane, NoTrace, Registered
  <1>6. Marked' /\ Deciding' /\ KillerReported'
    BY <1>0, <1>2, <1>3, <1>4 DEF Marked, Deciding, KillerReported
  <1>7. SentinelMeant' /\ Kept'
    <2>1. \A b \in Actors : cli'[b].at \notin Setup
      BY <1>2 DEF Setup
    <2> QED BY <1>0, <1>2, <1>3, <1>4, <2>1 DEF SentinelMeant, Kept
  <1> QED BY <1>5, <1>6, <1>7 DEF Once, Never

LEMMA RInvStep == OneCommand /\ RInv /\ [Next]_vars => RInv'
  <1> SUFFICES ASSUME OneCommand, RInv, [Next]_vars PROVE RInv'
    OBVIOUS
  <1>1. IInv' /\ Typed'
    BY IInvStep DEF RInv, IInv
  <1>2. Once' /\ Never'
    <2>1. CASE UNCHANGED vars
      BY <2>1, Untouched DEF vars, files, history
    <2>2. ASSUME NEW r \in Runs,
                 RecordPgid(r) \/ \E how \in {"ok", "failed"} : PayloadExits(r, how)
          PROVE  Once' /\ Never'
      BY <2>2, Untouched DEF RecordPgid, PayloadExits, files, history
    <2>3. ASSUME NEW r \in Runs,
                 \/ WriteExit(r) \/ TakeSentinel(r) \/ EmitOwn(r) \/ SettleOwn(r)
                 \/ ClosePane(r) \/ Crash(r)
          PROVE  Once' /\ Never'
      BY <1>1, <2>3, RunReports
    <2>4. ASSUME NEW a \in Actors,
                 \/ CommandStep(a) \/ Interrupt(a)
                 \/ \E op \in {"kill", "run", "carry"}, l \in Labels :
                       Invoke(a, op, l)
          PROVE  Once' /\ Never'
      BY <2>4, LookReports, SentinelReports, EmitReports, StopReports,
         DropReports, CleanReports, BindReports, StartReports, SaveReports
         DEF CommandStep
    <2> QED BY <2>1, <2>2, <2>3, <2>4 DEF Next, WrapperStep
  <1> QED BY <1>1, <1>2 DEF RInv

-----------------------------------------------------------------------------
(* With one command at a time, a completion is reported by one process     *)
(* only, but for a wrapper that slipped through the window of the sentinel. *)
THEOREM ReportedOnceEach == ASSUME OneCommand PROVE Spec => []ReportedOnce
  <1>1. RInv => ReportedOnce
    <2> SUFFICES ASSUME RInv, NEW r \in Runs \ raced
                 PROVE  Cardinality(Reporters(r)) <= 1
      BY DEF ReportedOnce
    <2>1. Reporters(r) \subseteq {"wrapper"} \cup Actors
      BY DEF Reporters
    <2>2. ~("wrapper" \in Reporters(r) /\ Reporters(r) \cap Actors # {})
      BY DEF RInv, Once, KillerReported, OwnReport
    <2>3. \A w, x \in Reporters(r) : w = x
      BY <2>1, <2>2 DEF OneCommand
    <2>4. Reporters(r) = {} \/ \E w : Reporters(r) = {w}
      BY <2>3
    <2>5. CASE Reporters(r) = {}
      <3>1. Cardinality(Reporters(r)) = 0
        BY <2>5, FS_EmptySet
      <3> QED BY <3>1
    <2>6. ASSUME NEW w, Reporters(r) = {w}
          PROVE  Cardinality(Reporters(r)) <= 1
      <3>1. Cardinality(Reporters(r)) = 1
        BY <2>6, FS_Singleton
      <3> QED BY <3>1
    <2> QED BY <2>4, <2>5, <2>6
  <1> QED BY <1>1, RInvInit, RInvStep, PTL DEF Spec

(* With one command at a time, no completion is swallowed: neither by the  *)
(* sentinel of an earlier run, nor by two reporters that defer to each     *)
(* other.                                                                  *)
THEOREM CompletionKeptEach == ASSUME OneCommand PROVE Spec => []CompletionKept
  <1>1. RInv => CompletionKept
    BY DEF RInv, Never, Kept, TakenCare, CompletionKept, Busy
  <1> QED BY <1>1, RInvInit, RInvStep, PTL DEF Spec

=============================================================================
