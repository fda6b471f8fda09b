---------------------------- MODULE DaemonProofs ----------------------------
(***************************************************************************)
(* The safety properties of the detectors of the daemon, for all their     *)
(* settings: a watcher that is down is told of, a context that fills up is *)
(* cleared, once, a restarted session is resumed, a turn that stalls is    *)
(* interrupted, a silent session is told to resume, the loop keeps its     *)
(* timers, the status of a watcher is what the processes say, and the      *)
(* meters print what was seen.                                             *)
(***************************************************************************)
EXTENDS MCDaemon, FiniteSetTheorems, WellFoundedInduction, TLAPS

-----------------------------------------------------------------------------
(* The age of a thing, one pass later. *)
LEMMA TickTyped ==
    ASSUME NEW a, NEW cap \in Nat, a \in Ages(cap)
    PROVE  /\ Older(a, cap) \in Ages(cap) /\ (a = None <=> Older(a, cap) = None)
           /\ a # None => Older(a, cap) = a + 1 \/ (Older(a, cap) = cap /\ a = cap)
  BY DEF Older, Least, Ages, None

LEMMA Fresh == \A cap \in Nat : 0 \in Ages(cap) /\ None \in Ages(cap)
  BY DEF Ages, None

(* A behaviour of the daemon runs one of its parts, and leaves the others as  *)
(* they began.                                                                *)
LEMMA Parts == Spec => SrSpec /\ SaSpec /\ TtSpec /\ DsSpec
  <1> DEFINE vars == <<focus, wdVars, ccVars, srVars, thVars, saVars,
                       loVars, wsVars, ttVars, dsVars>>
  <1>1. Init => SrInit /\ SaInit /\ TtInit /\ DsInit
    BY DEF Init
  <1>2. [Next]_vars => [SrNext]_srVars /\ [SaNext]_saVars /\ [TtNext]_ttVars /\ [DsNext]_dsVars
    BY DEF Next
  <1> QED BY <1>1, <1>2, PTL DEF Spec, SrSpec, SaSpec, TtSpec, DsSpec

-----------------------------------------------------------------------------
(* The global gate, whose cooldown doubles at most once: a streak is broken  *)
(* by the very wait that lets the next interrupt through.                    *)
Gates(g) == [last : Ages(2 * g), streak : 0..1]
Unstreaked(g) == g.last = None => g.streak = 0

LEMMA CooldownTyped ==
    ASSUME NEW shortest \in Nat, NEW streak \in 0..1
    PROVE  EffectiveCooldown(shortest, 2, 2 * shortest, streak) \in Nat
  <1>1. CASE streak = 0
    BY <1>1 DEF EffectiveCooldown
  <1>2. CASE streak = 1
    <2> DEFINE W == CHOOSE f : f = [n \in 0..1 |-> IF n = 0 THEN shortest
                                                  ELSE IF f[n - 1] * 2 >= 2 * shortest THEN 2 * shortest
                                                  ELSE f[n - 1] * 2]
               w == [n \in 0..1 |-> IF n = 0 THEN shortest ELSE 2 * shortest]
    <2>1. EffectiveCooldown(shortest, 2, 2 * shortest, streak) = Least(W[1], 2 * shortest)
      BY <1>2 DEF EffectiveCooldown
    <2>2. w = [n \in 0..1 |-> IF n = 0 THEN shortest
                              ELSE IF w[n - 1] * 2 >= 2 * shortest THEN 2 * shortest ELSE w[n - 1] * 2]
      OBVIOUS
    <2>3. W = [n \in 0..1 |-> IF n = 0 THEN shortest
                              ELSE IF W[n - 1] * 2 >= 2 * shortest THEN 2 * shortest ELSE W[n - 1] * 2]
      <3> HIDE DEF w
      <3> QED BY <2>2
    <2> HIDE DEF W
    <2>4. W[1] = IF W[0] * 2 >= 2 * shortest THEN 2 * shortest ELSE W[0] * 2
      BY <2>3
    <2>5. W[0] = shortest
      BY <2>3
    <2>6. W[1] = 2 * shortest
      BY <2>4, <2>5
    <2> QED BY <2>1, <2>6 DEF Least
  <1> QED BY <1>1, <1>2

LEMMA GateTyped ==
    ASSUME NEW shortest \in Nat, NEW g \in Gates(shortest), Unstreaked(g)
    PROVE  LET after == GateAfterClaim(g, shortest, 2, 2 * shortest)
               older == [g EXCEPT !.last = Older(@, 2 * shortest)]
           IN  /\ after \in Gates(shortest) /\ Unstreaked(after)
               /\ older \in Gates(shortest) /\ Unstreaked(older)
  <1> DEFINE e == EffectiveCooldown(shortest, 2, 2 * shortest, g.streak)
             s == IF Since(g.last, e) THEN 0 ELSE g.streak
             after == GateAfterClaim(g, shortest, 2, 2 * shortest)
  <1>1. g.streak \in 0..1 /\ g.last \in Ages(2 * shortest) /\ 2 * shortest \in Nat
    BY DEF Gates
  <1>2. e \in Nat
    BY <1>1, CooldownTyped
  <1>3. s \in 0..1
    BY <1>1
  <1>4. after = (IF InCooldown(g, e) THEN [g EXCEPT !.streak = s] ELSE [last |-> 0, streak |-> s + 1])
    BY DEF GateAfterClaim
  <1>5. after \in Gates(shortest) /\ Unstreaked(after)
    <2>1. CASE InCooldown(g, e)
      <3>1. after = [g EXCEPT !.streak = s] /\ g.last # None
        BY <1>4, <2>1 DEF InCooldown, Within
      <3> HIDE DEF after, s
      <3> QED BY <1>3, <3>1 DEF Gates, Unstreaked
    <2>2. CASE ~InCooldown(g, e)
      <3>1. g.last # None => Since(g.last, e)
        <4> HIDE DEF e
        <4> QED BY <1>1, <1>2, <2>2 DEF InCooldown, Within, Since, Ages, None
      <3>2. s = 0
        BY <3>1 DEF Unstreaked, Since
      <3>3. after = [last |-> 0, streak |-> 1]
        BY <1>4, <2>2, <3>2
      <3>4. 0 \in Ages(2 * shortest) /\ 0 # None
        BY <1>1, Fresh DEF None
      <3> HIDE DEF after
      <3> QED BY <3>3, <3>4 DEF Gates, Unstreaked
    <2> QED BY <2>1, <2>2
  <1>6. Older(g.last, 2 * shortest) \in Ages(2 * shortest) /\ (g.last = None <=> Older(g.last, 2 * shortest) = None)
    BY <1>1, TickTyped
  <1>7. LET older == [g EXCEPT !.last = Older(@, 2 * shortest)] IN older \in Gates(shortest) /\ Unstreaked(older)
    BY <1>6 DEF Gates, Unstreaked
  <1> QED BY <1>5, <1>7

(* WatcherDown. *)
GateSound == gate \in Gates(GateCooldown) /\ Unstreaked(gate)
WdInv == DownWatchersTold /\ GateSound
Healths == [missing : 0..InjectThreshold, emitted : Ages(EventGrace), downSince : Ages(MaxDown)]
SuppressedRuns == [run : 0..MaxSuppressions, since : Ages(SuppressionWindow + 1)]

LEMMA DownConstants ==
    /\ EventThreshold \in Nat /\ InjectThreshold \in Nat /\ EventGrace \in Nat /\ InjectCooldown \in Nat
    /\ MaxDown \in Nat /\ MaxSuppressions \in Nat /\ SuppressionWindow \in Nat /\ DownDwell \in Nat
    /\ GateCooldown \in Nat /\ SuppressionWindow + 1 \in Nat /\ 2 * GateCooldown \in Nat
  BY DownAssumption

LEMMA WdInitInv == WdInit => WdInv
  <1> SUFFICES ASSUME WdInit PROVE WdInv
    OBVIOUS
  <1>1. /\ 0 \in 0..InjectThreshold /\ None \in Ages(EventGrace) /\ None \in Ages(MaxDown)
        /\ None \in Ages(InjectCooldown) /\ None \in Ages(DownDwell) /\ 0 \in 0..MaxSuppressions
        /\ None \in Ages(SuppressionWindow + 1) /\ None \in Ages(2 * GateCooldown) /\ 0 \in 0..2 /\ 0 \in 0..1
    BY DownConstants, Fresh
  <1>2. health \in [Watchers -> Healths]
    BY <1>1 DEF WdInit, Healthy, Healths
  <1>3. sup \in SuppressedRuns /\ sup.run <= MaxSuppressions
    BY <1>1, DownConstants DEF WdInit, NoSuppression, SuppressedRuns
  <1>4. gate \in Gates(GateCooldown) /\ Unstreaked(gate) /\ gate \in [last : Ages(2 * GateCooldown), streak : 0..2]
    BY <1>1 DEF WdInit, NoInterrupt, Gates, Unstreaked
  <1> QED BY <1>1, <1>2, <1>3, <1>4
       DEF WdInit, WdInv, DownWatchersTold, WdTypeOK, AnnouncedOrCooling, LoudInTime, SuppressionBounded,
           GateSound, Healths, SuppressedRuns

LEMMA PolledTyped ==
    ASSUME WdTypeOK, NEW found \in Finds
    PROVE  Polled(found) \in [Watchers -> Healths]
  <1>1. ASSUME NEW w \in Watchers PROVE Aged(health[w]) \in Healths /\ Missed(Aged(health[w])) \in Healths /\ Healthy \in Healths
    <2>1. health[w] \in Healths
      BY DEF WdTypeOK, Healths
    <2>2. Older(health[w].emitted, EventGrace) \in Ages(EventGrace) /\ Older(health[w].downSince, MaxDown) \in Ages(MaxDown)
      BY <2>1, DownConstants, TickTyped DEF Healths
    <2>3. Aged(health[w]) \in Healths
      BY <2>1, <2>2 DEF Aged, Healths
    <2>4. /\ Least(Aged(health[w]).missing + 1, InjectThreshold) \in 0..InjectThreshold
          /\ 0 \in Ages(MaxDown) /\ None \in Ages(MaxDown) /\ None \in Ages(EventGrace) /\ 0 \in 0..InjectThreshold
      BY <2>3, DownConstants, Fresh DEF Healths, Least
    <2>5. Missed(Aged(health[w])) \in Healths
      BY <2>3, <2>4 DEF Missed, Healths
    <2> QED BY <2>3, <2>4, <2>5 DEF Healthy, Healths
  <1>2. ASSUME NEW w \in Watchers PROVE found.watcher[w] \in {"up", "grace", "down"}
    BY DEF Finds
  <1> QED BY <1>1, <1>2 DEF Polled

(* What every outcome of a pass shares. *)
LEMMA PollTyped ==
    ASSUME WdTypeOK, NEW found \in Finds, NEW named \in SUBSET Watchers, NEW free \in BOOLEAN,
           Poll(found, Polled(found), named, free)
    PROVE  /\ health' \in [Watchers -> Healths]
           /\ told' \subseteq Watchers /\ heard' \subseteq Watchers
           /\ heard' = IF free THEN MissingIn(found, Polled(found)) ELSE {}
           /\ \A w \in named : found.watcher[w] # "up" => w \in told'
           /\ \A w \in Watchers : health'[w].downSince = Polled(found)[w].downSince
  <1>1. Polled(found) \in [Watchers -> Healths] /\ 0 \in Ages(EventGrace)
    BY PolledTyped, DownConstants, Fresh
  <1> DEFINE polled == Polled(found)
  <1>2. PICK sent \in SUBSET Emitting(found, polled) :
            /\ health' = [w \in Watchers |-> IF w \in sent THEN [polled[w] EXCEPT !.emitted = 0] ELSE polled[w]]
            /\ told' = {w \in told \cup named \cup sent : found.watcher[w] # "up"}
    BY DEF Poll
  <1>3. heard' = IF free THEN MissingIn(found, polled) ELSE {}
    BY DEF Poll
  <1> HIDE DEF polled
  <1>4. polled \in [Watchers -> Healths]
    BY <1>1 DEF polled
  <1>5. health' \in [Watchers -> Healths] /\ \A w \in Watchers : health'[w].downSince = polled[w].downSince
    BY <1>1, <1>2, <1>4 DEF Healths
  <1>6. told' \subseteq Watchers /\ heard' \subseteq Watchers
    BY <1>2, <1>3 DEF WdTypeOK, Emitting, MissingIn
  <1>7. \A w \in named : found.watcher[w] # "up" => w \in told'
    BY <1>2
  <1> QED BY <1>3, <1>5, <1>6, <1>7 DEF polled

LEMMA MissingDown ==
    ASSUME NEW found \in Finds, NEW polled
    PROVE  MissingIn(found, polled) \subseteq Watchers /\ \A w \in MissingIn(found, polled) : found.watcher[w] # "up"
  BY DEF MissingIn

LEMMA AgesNow ==
    ASSUME WdInv
    PROVE  /\ PromptAge \in Ages(InjectCooldown) /\ ArmedAge \in Ages(DownDwell)
           /\ (lastPrompt = None <=> PromptAge = None)
           /\ Suppressed \in SuppressedRuns /\ Suppressed.run <= MaxSuppressions
           /\ GateNow \in Gates(GateCooldown) /\ Unstreaked(GateNow)
           /\ GateClaimed \in Gates(GateCooldown) /\ Unstreaked(GateClaimed)
  <1>1. /\ PromptAge \in Ages(InjectCooldown) /\ ArmedAge \in Ages(DownDwell)
        /\ (lastPrompt = None <=> PromptAge = None)
    BY DownConstants, TickTyped DEF WdInv, DownWatchersTold, WdTypeOK, PromptAge, ArmedAge
  <1>2. Suppressed \in SuppressedRuns /\ Suppressed.run <= MaxSuppressions
    <2>1. sup \in SuppressedRuns /\ sup.run <= MaxSuppressions
      BY DEF WdInv, DownWatchersTold, WdTypeOK, SuppressionBounded, SuppressedRuns
    <2>2. Older(sup.since, SuppressionWindow + 1) \in Ages(SuppressionWindow + 1)
      BY <2>1, DownConstants, TickTyped DEF SuppressedRuns
    <2> QED BY <2>1, <2>2 DEF Suppressed, SuppressedRuns
  <1>3. GateNow \in Gates(GateCooldown) /\ Unstreaked(GateNow)
    BY DownConstants, GateTyped DEF WdInv, GateSound, GateNow
  <1>4. GateClaimed \in Gates(GateCooldown) /\ Unstreaked(GateClaimed)
    BY <1>3, DownConstants, GateTyped DEF GateClaimed
  <1> QED BY <1>1, <1>2, <1>3, <1>4

LEMMA RecordedTyped ==
    ASSUME NEW s \in SuppressedRuns, MaxSuppressions > 0, ~SuppressionCapped(s, MaxSuppressions, SuppressionWindow)
    PROVE  Recorded(s) \in SuppressedRuns /\ Recorded(s).run <= MaxSuppressions
  <1>1. s.run \in 0..MaxSuppressions /\ s.since \in Ages(SuppressionWindow + 1) /\ 0 \in Ages(SuppressionWindow + 1)
    BY DownConstants, Fresh DEF SuppressedRuns
  <1>2. s.run < MaxSuppressions
    BY <1>1, DownConstants DEF SuppressionCapped
  <1>3. s.run + 1 \in 0..MaxSuppressions /\ s.run + 1 <= MaxSuppressions
    BY <1>1, <1>2, DownConstants
  <1> QED BY <1>1, <1>3 DEF Recorded, SuppressedRuns

LEMMA WideGate == ASSUME NEW g \in Gates(GateCooldown) PROVE g \in [last : Ages(2 * GateCooldown), streak : 0..2]
  <1>1. g.streak \in 0..2 /\ g.last \in Ages(2 * GateCooldown) /\ g = [last |-> g.last, streak |-> g.streak]
    BY DEF Gates
  <1> QED BY <1>1

(* A pass.  Whoever is past the loud threshold and is not held back is named, *)
(* or the prompt's cooldown runs.                                             *)
LEMMA WdPassInv ==
    ASSUME WdInv, MaxSuppressions > 0, NEW found \in Finds, WdPass(found)
    PROVE  WdInv'
  <1> USE DownConstants
  <1> DEFINE polled == Polled(found)
             missing == MissingIn(found, polled)
  <1>0. WdTypeOK
    BY DEF WdInv, DownWatchersTold
  <1>1. missing \subseteq Watchers /\ \A w \in missing : found.watcher[w] # "up"
    BY MissingDown
  <1>2. /\ PromptAge \in Ages(InjectCooldown) /\ ArmedAge \in Ages(DownDwell)
        /\ (lastPrompt = None <=> PromptAge = None)
        /\ Suppressed \in SuppressedRuns /\ Suppressed.run <= MaxSuppressions
        /\ GateNow \in Gates(GateCooldown) /\ Unstreaked(GateNow)
        /\ GateClaimed \in Gates(GateCooldown) /\ Unstreaked(GateClaimed)
    BY AgesNow
  <1>3. /\ None \in Ages(DownDwell) /\ 0 \in Ages(DownDwell) /\ 0 \in Ages(InjectCooldown)
        /\ 0 \in Ages(2 * GateCooldown) /\ 0 # None
    BY Fresh DEF None
  <1>4. NoSuppression \in SuppressedRuns /\ NoSuppression.run <= MaxSuppressions
    <2>1. 0 \in 0..MaxSuppressions /\ None \in Ages(SuppressionWindow + 1)
      BY Fresh
    <2> QED BY <2>1 DEF NoSuppression, SuppressedRuns
  <1>5. PICK named \in SUBSET Watchers, free \in BOOLEAN : Poll(found, polled, named, free) /\
            \/ Calm(found, polled, missing) /\ named = {} /\ free = (found.session # "gone")
            \/ Wait(found, polled, missing) /\ named = {} /\ free = (found.session # "retrying")
            \/ Suppress(found, polled, missing) /\ named = missing \ {Consumer} /\ free = TRUE
            \/ Deny(found, polled, missing) /\ named = {} /\ free = FALSE
            \/ Hold(found, polled, missing) /\ named = missing \ {Consumer} /\ free = TRUE
            \/ Prompt(found, polled, missing) /\ named = missing /\ free = TRUE
    <2>1. CASE Calm(found, polled, missing)
      BY <2>1 DEF Calm
    <2>2. CASE Wait(found, polled, missing)
      BY <2>2 DEF Wait
    <2>3. CASE Suppress(found, polled, missing)
      BY <1>1, <2>3 DEF Suppress
    <2>4. CASE Deny(found, polled, missing)
      BY <2>4 DEF Deny
    <2>5. CASE Hold(found, polled, missing)
      BY <1>1, <2>5 DEF Hold
    <2>6. CASE Prompt(found, polled, missing)
      BY <1>1, <2>6 DEF Prompt
    <2> HIDE DEF polled, missing
    <2>7. \/ Calm(found, polled, missing) \/ Wait(found, polled, missing)
          \/ Suppress(found, polled, missing) \/ Deny(found, polled, missing)
          \/ Hold(found, polled, missing) \/ Prompt(found, polled, missing)
      BY DEF WdPass, polled, missing
    <2> QED BY <2>1, <2>2, <2>3, <2>4, <2>5, <2>6, <2>7
  <1>6. /\ health' \in [Watchers -> Healths]
        /\ told' \subseteq Watchers /\ heard' \subseteq Watchers
        /\ heard' = IF free THEN missing ELSE {}
        /\ \A w \in named : found.watcher[w] # "up" => w \in told'
        /\ \A w \in Watchers : health'[w].downSince = polled[w].downSince
    BY <1>0, <1>5, PollTyped
  <1> HIDE DEF polled, missing
  <1>7. ~DownCapped(missing, polled) =>
            \A w \in missing : ~(MaxDown > 0 /\ Since(health'[w].downSince, MaxDown))
    BY <1>1, <1>6 DEF DownCapped
  <1>8. /\ lastPrompt' \in Ages(InjectCooldown) /\ downArmed' \in Ages(DownDwell)
        /\ sup' \in SuppressedRuns /\ sup'.run <= MaxSuppressions
        /\ gate' \in Gates(GateCooldown) /\ Unstreaked(gate')
        /\ AnnouncedOrCooling' /\ LoudInTime'
    <2>1. CASE Calm(found, polled, missing) /\ named = {} /\ free = (found.session # "gone")
      <3>1. heard' = {}
        BY <1>6, <2>1 DEF Calm
      <3> QED BY <1>2, <1>3, <2>1, <3>1 DEF Calm, AnnouncedOrCooling, LoudInTime
    <2>2. CASE Wait(found, polled, missing) /\ named = {} /\ free = (found.session # "retrying")
      <3>1. heard' # {} => PromptAge # None /\ ~(PromptAge >= InjectCooldown)
        BY <1>2, <1>6, <2>2 DEF Wait, MaySpeak
      <3>2. lastPrompt' = PromptAge
        BY <2>2 DEF Wait
      <3>3. heard' # {} => Cooling'
        BY <1>2, <3>1, <3>2 DEF Cooling, Within, Ages, None
      <3> QED BY <1>2, <2>2, <3>3 DEF Wait, AnnouncedOrCooling, LoudInTime
    <2>3. CASE Suppress(found, polled, missing) /\ named = missing \ {Consumer} /\ free = TRUE
      <3>1. Consumer \notin missing /\ ~Escalated /\ ~DownCapped(missing, polled)
        BY <2>3 DEF Suppress, HeldByActivity
      <3>2. AnnouncedOrCooling' /\ LoudInTime'
        BY <1>1, <1>6, <1>7, <2>3, <3>1 DEF AnnouncedOrCooling, LoudInTime
      <3>3. Recorded(Suppressed) \in SuppressedRuns /\ Recorded(Suppressed).run <= MaxSuppressions
        BY <1>2, <3>1, RecordedTyped DEF Escalated
      <3> QED BY <1>2, <2>3, <3>2, <3>3 DEF Suppress
    <2>4. CASE Deny(found, polled, missing) /\ named = {} /\ free = FALSE
      <3>1. heard' = {}
        BY <1>6, <2>4
      <3> QED BY <1>2, <2>4, <3>1 DEF Deny, AnnouncedOrCooling, LoudInTime
    <2>5. CASE Hold(found, polled, missing) /\ named = missing \ {Consumer} /\ free = TRUE
      <3>1. Consumer \notin missing /\ ~DownCapped(missing, polled)
        BY <2>5 DEF Hold, DownDecision
      <3>2. AnnouncedOrCooling' /\ LoudInTime'
        BY <1>1, <1>6, <1>7, <2>5, <3>1 DEF AnnouncedOrCooling, LoudInTime
      <3>3. downArmed' \in Ages(DownDwell)
        BY <1>2, <1>3, <2>5 DEF Hold
      <3> QED BY <1>2, <2>5, <3>2, <3>3 DEF Hold
    <2>6. CASE Prompt(found, polled, missing) /\ named = missing /\ free = TRUE
      <3>1. lastPrompt' = 0 /\ gate' = [GateClaimed EXCEPT !.last = 0] /\ downArmed' = None /\ sup' = NoSuppression
        BY <2>6 DEF Prompt
      <3>2. gate' \in Gates(GateCooldown) /\ Unstreaked(gate')
        BY <1>2, <1>3, <3>1 DEF Gates, Unstreaked
      <3>3. Cooling'
        BY <3>1 DEF Cooling
      <3> QED BY <1>3, <1>4, <3>1, <3>2, <3>3 DEF AnnouncedOrCooling, LoudInTime
    <2> QED BY <1>5, <2>1, <2>2, <2>3, <2>4, <2>5, <2>6
  <1>9. gate' \in [last : Ages(2 * GateCooldown), streak : 0..2]
    BY <1>8, WideGate
  <1> QED BY <1>6, <1>8, <1>9 DEF WdInv, DownWatchersTold, WdTypeOK, SuppressionBounded, GateSound, Healths, SuppressedRuns

LEMMA WdStepInv == ASSUME WdInv, MaxSuppressions > 0, [WdNext]_wdVars PROVE WdInv'
  <1> USE DownConstants
  <1>0. /\ WdTypeOK /\ AnnouncedOrCooling /\ LoudInTime /\ SuppressionBounded /\ GateSound /\ sup \in SuppressedRuns
    BY DEF WdInv, DownWatchersTold, WdTypeOK, SuppressedRuns
  <1>1. NoSuppression \in SuppressedRuns /\ NoSuppression.run <= MaxSuppressions
    <2>1. 0 \in 0..MaxSuppressions /\ None \in Ages(SuppressionWindow + 1)
      BY Fresh
    <2> QED BY <2>1 DEF NoSuppression, SuppressedRuns
  <1>2. CASE OtherSite
    <2>1. UNCHANGED <<health, lastPrompt, downArmed, gate, told, heard>>
      BY <1>2 DEF OtherSite
    <2>2. sup' \in SuppressedRuns /\ sup'.run <= MaxSuppressions
      BY <1>0, <1>1, <1>2, RecordedTyped DEF OtherSite
    <2> QED BY <1>0, <2>1, <2>2
         DEF WdInv, DownWatchersTold, WdTypeOK, AnnouncedOrCooling, LoudInTime, Cooling, SuppressionBounded, GateSound, SuppressedRuns
  <1>3. CASE OtherInterrupt
    <2>1. UNCHANGED <<health, lastPrompt, downArmed, sup, told, heard>>
      BY <1>3 DEF OtherInterrupt
    <2>2. gate' \in Gates(GateCooldown) /\ Unstreaked(gate')
      BY <1>0, <1>3, GateTyped DEF OtherInterrupt, GateSound
    <2>3. gate' \in [last : Ages(2 * GateCooldown), streak : 0..2]
      BY <2>2, WideGate
    <2> QED BY <1>0, <2>1, <2>2, <2>3
         DEF WdInv, DownWatchersTold, WdTypeOK, AnnouncedOrCooling, LoudInTime, Cooling, SuppressionBounded, GateSound
  <1>4. CASE WdRestart
    <2>1. /\ UNCHANGED <<health, lastPrompt, told, heard>> /\ downArmed' = None /\ sup' = NoSuppression
          /\ gate' = [last |-> IF Exempt THEN None ELSE 0, streak |-> 0]
      BY <1>4 DEF WdRestart
    <2>2. gate' \in Gates(GateCooldown) /\ Unstreaked(gate')
      <3>1. 0 \in Ages(2 * GateCooldown) /\ None \in Ages(2 * GateCooldown) /\ 0 \in 0..1
        BY Fresh
      <3> QED BY <2>1, <3>1 DEF Gates, Unstreaked
    <2>3. gate' \in [last : Ages(2 * GateCooldown), streak : 0..2]
      BY <2>2, WideGate
    <2>4. None \in Ages(DownDwell)
      BY Fresh
    <2> QED BY <1>0, <1>1, <2>1, <2>2, <2>3, <2>4
         DEF WdInv, DownWatchersTold, WdTypeOK, AnnouncedOrCooling, LoudInTime, Cooling, SuppressionBounded, GateSound, SuppressedRuns
  <1>5. CASE UNCHANGED wdVars
    BY <1>0, <1>5
       DEF wdVars, WdInv, DownWatchersTold, WdTypeOK, AnnouncedOrCooling, LoudInTime, Cooling, SuppressionBounded, GateSound
  <1> QED BY <1>2, <1>3, <1>4, <1>5, WdPassInv DEF WdNext

(* A watcher past the loud threshold is named or the prompt's cooldown runs;  *)
(* the prompt comes in time however busy the session is; and the shared run   *)
(* of suppressions keeps to its cap, where there is one: for any watchers,    *)
(* thresholds and windows.                                                    *)
THEOREM DownWatchersToldEach == MaxSuppressions > 0 => (WdSpec => []DownWatchersTold)
  <1>1. WdInv => DownWatchersTold
    BY DEF WdInv
  <1> SUFFICES ASSUME MaxSuppressions > 0 PROVE WdSpec => []DownWatchersTold
    OBVIOUS
  <1>2. WdInv /\ [WdNext]_wdVars => WdInv'
    BY WdStepInv
  <1> QED BY WdInitInv, <1>1, <1>2, PTL DEF WdSpec

-----------------------------------------------------------------------------
(* ContextClear.  A process that waits was started no later than the last     *)
(* clear on record, and one that the monitor forgot before it.  What was put  *)
(* off is accounted for by the hook's age, then by the obligation's.          *)
Mons == [seen : 0..2, triggered : BOOLEAN, lastClear : Ages(ResetCooldown),
         armed : Ages(MaxArmed), firstSeen : Ages(FallbackMax), pid : {0} \cup Procs]
Waiters == [age : Ages(GracePeriod), stale : BOOLEAN]
Wedges == [count : 0..WedgedThreshold, last : Ages(WedgedCooldown)]
NotAfterClear ==
    \A p \in Procs : Waits(p) =>
        /\ mon.lastClear # None /\ deferred[p].age >= mon.lastClear
        /\ p # mon.pid => deferred[p].age > mon.lastClear
OverdueMeasured ==
    /\ overdue \in Nat /\ (marker => overdue = 0)
    /\ overdue > 0 => mon.firstSeen # None
    /\ mon.firstSeen # None /\ mon.firstSeen < FallbackMax => overdue <= mon.firstSeen + 1
    /\ mon.armed = None => overdue <= FallbackMax
    /\ mon.armed # None /\ mon.armed < MaxArmed => overdue <= FallbackMax + 1 + mon.armed
StuckMeasured ==
    /\ stuck \in Nat /\ (stuck <= wedge.count \/ wedge.count = WedgedThreshold)
    /\ wedge.last # None /\ wedge.last < WedgedCooldown => stuck <= wedge.last
CcInv == ContextKeptInBounds /\ NotAfterClear /\ OverdueMeasured /\ StuckMeasured

LEMMA CcConstants ==
    /\ GracePeriod \in Nat /\ ResetCooldown \in Nat /\ FallbackMax \in Nat /\ ContextDwell \in Nat
    /\ MaxArmed \in Nat /\ WedgedThreshold \in Nat /\ WedgedCooldown \in Nat /\ GracePeriod <= ResetCooldown
  BY ClearAssumption

LEMMA MonParts ==
    ASSUME NEW m \in Mons
    PROVE  /\ m.seen \in 0..2 /\ m.triggered \in BOOLEAN /\ m.lastClear \in Ages(ResetCooldown)
           /\ m.armed \in Ages(MaxArmed) /\ m.firstSeen \in Ages(FallbackMax) /\ m.pid \in {0} \cup Procs
  BY DEF Mons

LEMMA CcStateTyped ==
    ASSUME CcTypeOK
    PROVE  /\ mon \in Mons /\ wedge \in Wedges /\ deferred \in [Procs -> Waiters]
           /\ \A p \in Procs : deferred[p] \in Waiters /\ deferred[p].age \in Ages(GracePeriod)
  BY DEF CcTypeOK, Mons, Wedges, Waiters

(* What the monitor has seen: its clocks one pass older, or cleared.          *)
LEMMA MonitorSeen ==
    ASSUME CcTypeOK
    PROVE  /\ ContextSeen \in Mons
           /\ \/ ContextSeen.lastClear = ClearAge /\ ContextSeen.pid = mon.pid
              \/ ContextSeen.lastClear = 0
           /\ ctx = 2 => \/ /\ ContextSeen.firstSeen = SeenAge /\ ContextSeen.armed = ContextArmedAge
                            /\ ContextSeen.lastClear = ClearAge /\ ContextSeen.pid = mon.pid
                         \/ /\ marker /\ ContextSeen.firstSeen = None /\ ContextSeen.armed = None
                            /\ ContextSeen.lastClear = 0
           /\ \/ ContextSeen.firstSeen = SeenAge /\ ContextSeen.armed = ContextArmedAge
              \/ ContextSeen.firstSeen = None /\ ContextSeen.armed = None
  <1>1. mon \in Mons /\ ctx \in 0..2 /\ marker \in BOOLEAN
    BY CcStateTyped DEF CcTypeOK
  <1>2. ClearAge \in Ages(ResetCooldown) /\ ContextArmedAge \in Ages(MaxArmed) /\ SeenAge \in Ages(FallbackMax)
    BY <1>1, MonParts, CcConstants, TickTyped DEF ClearAge, ContextArmedAge, SeenAge
  <1>3. /\ 0 \in Ages(ResetCooldown) /\ None \in Ages(MaxArmed) /\ None \in Ages(FallbackMax)
        /\ ctx \in 0..2 /\ 0 \in {0} \cup Procs
    BY <1>1, CcConstants, Fresh
  <1> DEFINE aged == [mon EXCEPT !.lastClear = ClearAge, !.armed = ContextArmedAge, !.firstSeen = SeenAge,
                                 !.seen = ctx]
             rested == [aged EXCEPT !.armed = None, !.firstSeen = None]
             cleared == [rested EXCEPT !.triggered = FALSE, !.pid = 0, !.lastClear = 0]
             reset == [rested EXCEPT !.lastClear = 0]
  <1>4. /\ aged \in Mons /\ aged.lastClear = ClearAge /\ aged.armed = ContextArmedAge /\ aged.firstSeen = SeenAge
        /\ aged.pid = mon.pid
    BY <1>1, <1>2, <1>3 DEF Mons
  <1>5. /\ rested \in Mons /\ rested.lastClear = ClearAge /\ rested.armed = None /\ rested.firstSeen = None
        /\ rested.pid = mon.pid
    <2> HIDE DEF aged
    <2> QED BY <1>3, <1>4 DEF Mons
  <1>6. /\ cleared \in Mons /\ cleared.lastClear = 0 /\ cleared.armed = None /\ cleared.firstSeen = None
        /\ reset \in Mons /\ reset.lastClear = 0 /\ reset.armed = None /\ reset.firstSeen = None
    <2> HIDE DEF rested
    <2> QED BY <1>3, <1>5 DEF Mons
  <1>7. ContextSeen = IF marker \/ (IsReset /\ mon.triggered) THEN cleared
                      ELSE IF IsReset /\ mon.seen > 0 THEN reset
                      ELSE IF IsReset THEN rested
                      ELSE aged
    BY DEF ContextSeen
  <1>8. ctx = 2 => ~IsReset
    BY DEF IsReset
  <1> HIDE DEF aged, rested, cleared, reset
  <1> QED BY <1>4, <1>5, <1>6, <1>7, <1>8

(* What the threshold block makes of it.                                      *)
LEMMA JudgedTyped ==
    ASSUME CcTypeOK, NEW m \in Mons, NEW found \in ContextFinds
    PROVE  LET crossed == [m EXCEPT !.firstSeen = IF @ = None THEN 0 ELSE @]
               j == Judged(m, found)
           IN  /\ j \in Mons /\ j.pid = m.pid
               /\ Fires(crossed, found) => Over(m, found) /\ j.lastClear = 0
               /\ ~Fires(crossed, found) => j.lastClear = m.lastClear
               /\ ~Over(m, found) => j = m
               /\ Over(m, found) /\ ~Fires(crossed, found) =>
                    /\ j.firstSeen = (IF m.firstSeen = None THEN 0 ELSE m.firstSeen)
                    /\ j.armed = m.armed \/ (m.armed = None /\ j.armed = 0)
               /\ Over(m, found) /\ ~Fires(crossed, found) /\ ~found.api /\ found.claim =>
                    \/ j.firstSeen < FallbackMax
                    \/ /\ MonitorDecision(m, found) # "escalate"
                       /\ j.armed = (IF m.armed = None THEN 0 ELSE m.armed)
  <1> DEFINE first == IF m.firstSeen = None THEN 0 ELSE m.firstSeen
             crossed == [m EXCEPT !.firstSeen = IF @ = None THEN 0 ELSE @]
             fired == [crossed EXCEPT !.armed = None, !.triggered = TRUE, !.lastClear = 0]
             armed == [crossed EXCEPT !.armed = 0]
             j == Judged(m, found)
  <1>1. /\ m.firstSeen \in Ages(FallbackMax) /\ first \in Ages(FallbackMax) /\ first # None
    BY MonParts, CcConstants, Fresh DEF None
  <1>2. crossed = [m EXCEPT !.firstSeen = first]
    BY DEF Mons
  <1> HIDE DEF first
  <1>3. /\ crossed \in Mons /\ crossed.firstSeen = first /\ crossed.armed = m.armed /\ crossed.lastClear = m.lastClear
        /\ crossed.triggered = m.triggered /\ crossed.pid = m.pid
    BY <1>1, <1>2 DEF Mons
  <1> HIDE DEF crossed
  <1>4. 0 \in Ages(ResetCooldown) /\ 0 \in Ages(MaxArmed) /\ None \in Ages(MaxArmed)
    BY CcConstants, Fresh
  <1>5. /\ fired \in Mons /\ fired.lastClear = 0 /\ fired.pid = m.pid
        /\ armed \in Mons /\ armed.lastClear = m.lastClear /\ armed.pid = m.pid /\ armed.armed = 0
        /\ armed.firstSeen = first
    BY <1>3, <1>4 DEF Mons
  <1>6. Over(crossed, found) <=> Over(m, found)
    BY <1>3 DEF Over
  <1>7. MonitorDecision(crossed, found) = MonitorDecision(m, found)
    BY <1>3 DEF MonitorDecision
  <1>8. j = IF ~Over(m, found) THEN m
            ELSE IF found.api \/ HookDefers(crossed, found) THEN crossed
            ELSE IF Fires(crossed, found) THEN fired
            ELSE IF MonitorDecision(crossed, found) # "escalate" /\ m.armed = None THEN armed
            ELSE crossed
    BY DEF Judged, crossed
  <1> HIDE DEF fired, armed, j
  <1>9. Fires(crossed, found) <=> /\ Over(m, found) /\ ~found.api /\ ~HookDefers(crossed, found)
                                  /\ MonitorDecision(m, found) = "escalate" /\ found.claim
    BY <1>6, <1>7 DEF Fires
  <1>10. HookDefers(crossed, found) => first < FallbackMax
    BY <1>1, <1>3 DEF HookDefers
  <1>11. j \in Mons /\ j.pid = m.pid /\ (~Over(m, found) => j = m)
    BY <1>3, <1>5, <1>8
  <1>12. /\ Fires(crossed, found) => Over(m, found) /\ j.lastClear = 0
         /\ ~Fires(crossed, found) => j.lastClear = m.lastClear
    BY <1>3, <1>5, <1>8, <1>9
  <1>13. Over(m, found) /\ ~Fires(crossed, found) =>
            j.firstSeen = first /\ (j.armed = m.armed \/ (m.armed = None /\ j.armed = 0))
    BY <1>3, <1>5, <1>8
  <1>14. ASSUME Over(m, found), ~Fires(crossed, found), ~found.api, found.claim
         PROVE  \/ j.firstSeen < FallbackMax
                \/ /\ MonitorDecision(m, found) # "escalate"
                   /\ j.armed = (IF m.armed = None THEN 0 ELSE m.armed)
    BY <1>3, <1>5, <1>7, <1>8, <1>9, <1>10, <1>14
  <1> QED BY <1>11, <1>12, <1>13, <1>14 DEF crossed, j, first

LEMMA FindsTyped == ASSUME NEW found \in ContextFinds
                    PROVE /\ found.api \in BOOLEAN /\ found.hook \in BOOLEAN /\ found.agents \in BOOLEAN
                          /\ found.claim \in BOOLEAN /\ found.wedged \in BOOLEAN
  BY DEF ContextFinds

(* When the monitor fires, nobody waits but the process that it remembers.    *)
LEMMA FiresAlone ==
    ASSUME CcInv, NEW found \in ContextFinds, Over(ContextSeen, found),
           \A p \in Procs : deferred[p].age < GracePeriod
    PROVE  \A p \in Procs : Waits(p) => p = ContextSeen.pid
  <1> SUFFICES ASSUME NEW p \in Procs, Waits(p), p # ContextSeen.pid PROVE FALSE
    OBVIOUS
  <1>1. CcTypeOK /\ NotAfterClear
    BY DEF CcInv, ContextKeptInBounds
  <1>2. ctx = 2 /\ (ContextSeen.lastClear = None \/ ContextSeen.lastClear >= ResetCooldown)
    BY DEF Over
  <1>3. deferred[p].age # None /\ deferred[p].age < GracePeriod /\ deferred[p].age \in Ages(GracePeriod)
    BY <1>1, CcStateTyped DEF Waits
  <1>4. deferred[p].age \in Nat /\ deferred[p].age + 1 <= ResetCooldown
    BY <1>3, CcConstants DEF Ages, None
  <1>5. CASE ContextSeen.lastClear = 0
    BY <1>2, <1>4, <1>5, CcConstants DEF None
  <1>6. CASE ContextSeen.lastClear = ClearAge /\ ContextSeen.pid = mon.pid
    <2>1. mon.lastClear # None /\ deferred[p].age > mon.lastClear
      BY <1>1, <1>6 DEF NotAfterClear
    <2>2. mon.lastClear \in Ages(ResetCooldown)
      BY <1>1, CcStateTyped, MonParts
    <2>3. ClearAge = mon.lastClear + 1
      BY <1>4, <2>1, <2>2, CcConstants DEF ClearAge, Older, Least, Ages, None
    <2> QED BY <1>2, <1>4, <1>6, <2>1, <2>2, <2>3, CcConstants DEF Ages, None
  <1> QED BY <1>1, <1>5, <1>6, MonitorSeen

(* The processes after a pass, and the clear that they belong to.             *)
LEMMA PassProcs ==
    ASSUME CcInv, NEW found \in ContextFinds, Pass(found)
    PROVE  CcTypeOK' /\ OneDeferred' /\ NotAfterClear'
  <1> DEFINE m == ContextSeen
             crossed == [m EXCEPT !.firstSeen = IF @ = None THEN 0 ELSE @]
             j == Judged(m, found)
             fires == Fires(crossed, found)
             aged == [p \in Procs |-> [deferred[p] EXCEPT !.age = Older(@, GracePeriod)]]
  <1>1. CcTypeOK /\ NotAfterClear /\ OneDeferred
    BY DEF CcInv, ContextKeptInBounds
  <1>2. /\ mon \in Mons /\ wedge \in Wedges /\ deferred \in [Procs -> Waiters]
        /\ \A p \in Procs : deferred[p] \in Waiters /\ deferred[p].age \in Ages(GracePeriod)
    BY <1>1, CcStateTyped
  <1>3. \A p \in Procs : deferred[p].age < GracePeriod
    BY DEF Pass
  <1>4. /\ m \in Mons
        /\ (m.lastClear = ClearAge /\ m.pid = mon.pid) \/ m.lastClear = 0
    BY <1>1, MonitorSeen
  <1>5. /\ j \in Mons /\ j.pid = m.pid /\ (fires => Over(m, found) /\ j.lastClear = 0)
        /\ (~fires => j.lastClear = m.lastClear)
    BY <1>1, <1>4, JudgedTyped
  <1>6. PICK d \in (IF fires THEN Deferred(j.pid, aged) ELSE {[pid |-> j.pid, procs |-> aged]}) :
              /\ deferred' = d.procs
              /\ IF WedgeDue(found) /\ ~PidRuns(d.pid, d.procs)
                 THEN mon' = [j EXCEPT !.pid = 0] /\ driver' \in {driver, Started(FALSE)}
                 ELSE mon' = [j EXCEPT !.pid = d.pid] /\ UNCHANGED driver
    BY DEF Pass
  <1>7. fires => \A p \in Procs : Waits(p) => p = j.pid
    BY <1>3, <1>5, FiresAlone
  <1>8. \A p \in Procs : /\ aged[p] \in Waiters /\ (aged[p].age # None <=> Waits(p))
                         /\ (Waits(p) => aged[p].age = deferred[p].age + 1 /\ deferred[p].age \in Nat)
    <2> SUFFICES ASSUME NEW p \in Procs
                 PROVE  /\ aged[p] \in Waiters /\ (aged[p].age # None <=> Waits(p))
                        /\ (Waits(p) => aged[p].age = deferred[p].age + 1 /\ deferred[p].age \in Nat)
      OBVIOUS
    <2>1. deferred[p] \in Waiters /\ deferred[p].age \in Ages(GracePeriod) /\ deferred[p].age < GracePeriod
      BY <1>2, <1>3
    <2>2. aged[p] = [deferred[p] EXCEPT !.age = Older(deferred[p].age, GracePeriod)]
      OBVIOUS
    <2>3. Older(deferred[p].age, GracePeriod) \in Ages(GracePeriod)
          /\ (deferred[p].age = None <=> Older(deferred[p].age, GracePeriod) = None)
      BY <2>1, CcConstants, TickTyped
    <2>4. deferred[p].age # None => Older(deferred[p].age, GracePeriod) = deferred[p].age + 1 /\ deferred[p].age \in Nat
      BY <2>1, CcConstants DEF Older, Least, Ages, None
    <2>5. aged[p] \in Waiters /\ aged[p].age = Older(deferred[p].age, GracePeriod)
      BY <2>1, <2>2, <2>3 DEF Waiters
    <2> QED BY <2>3, <2>4, <2>5 DEF Waits
  <1>9. aged \in [Procs -> Waiters]
    BY <1>8
  <1> HIDE DEF m, j, crossed, fires, aged
  (* Either the clocks ran, or the process that was forgotten has a successor. *)
  <1>10. \/ d = [pid |-> j.pid, procs |-> aged]
         \/ /\ fires /\ (\A p \in Procs : ~Waits(p))
            /\ \/ d = [pid |-> 0, procs |-> aged]
               \/ \E q \in Procs : d = [pid |-> q, procs |-> [aged EXCEPT ![q].age = 0]]
    <2>1. CASE ~fires \/ PidRuns(j.pid, aged)
      BY <2>1 DEF Deferred
    <2>2. CASE fires /\ ~PidRuns(j.pid, aged)
      <3>1. j.pid \in {0} \cup Procs
        BY <1>5, MonParts
      <3>2. \A p \in Procs : ~Waits(p)
        BY <1>7, <1>8, <2>2, <3>1 DEF PidRuns, Procs
      <3> DEFINE q == CHOOSE q \in Procs : aged[q].age = None
      <3>3. 1 \in Procs /\ aged[1].age = None
        BY <1>8, <3>2 DEF Procs
      <3>4. q \in Procs
        BY <3>3
      <3>5. d \in {[pid |-> q, procs |-> [aged EXCEPT ![q].age = 0]], [pid |-> 0, procs |-> aged]}
        BY <1>6, <2>2 DEF Deferred
      <3> HIDE DEF q
      <3> QED BY <2>2, <3>2, <3>4, <3>5
    <2> QED BY <2>1, <2>2
  <1>11. /\ deferred' \in [Procs -> Waiters] /\ d.pid \in {0} \cup Procs /\ deferred' = d.procs
    <2>1. CASE d = [pid |-> j.pid, procs |-> aged] \/ d = [pid |-> 0, procs |-> aged]
      BY <1>5, <1>6, <1>9, <2>1, MonParts
    <2>2. ASSUME NEW q \in Procs, d = [pid |-> q, procs |-> [aged EXCEPT ![q].age = 0]]
          PROVE  deferred' \in [Procs -> Waiters] /\ d.pid \in {0} \cup Procs
      <3>1. [aged[q] EXCEPT !.age = 0] \in Waiters
        BY <1>8, CcConstants, Fresh DEF Waiters
      <3> QED BY <1>6, <1>9, <2>2, <3>1
    <2> QED BY <1>6, <1>10, <2>1, <2>2
  <1>12. /\ mon' \in Mons /\ mon'.lastClear = j.lastClear
         /\ mon'.pid = IF WedgeDue(found) /\ ~PidRuns(d.pid, d.procs) THEN 0 ELSE d.pid
    BY <1>5, <1>6, <1>11 DEF Mons
  <1>13. driver' \in {"none", "due", "again"}
    BY <1>1, <1>6 DEF CcTypeOK, Started
  <1>14. wedge' \in Wedges
    <2>1. WedgeCount(found) \in 0..WedgedThreshold /\ 0 \in 0..WedgedThreshold
      BY <1>2, CcConstants DEF WedgeCount, Least, Wedges
    <2>2. WedgedAge \in Ages(WedgedCooldown) /\ 0 \in Ages(WedgedCooldown)
      BY <1>2, CcConstants, TickTyped, Fresh DEF WedgedAge, Wedges
    <2> QED BY <2>1, <2>2 DEF Pass, Wedges
  <1>15. CcTypeOK'
    BY <1>1, <1>11, <1>12, <1>13, <1>14 DEF CcTypeOK, Pass, Mons, Waiters, Wedges
  <1>16. CASE d = [pid |-> j.pid, procs |-> aged]
    <2>1. deferred' = aged /\ \A p \in Procs : Waits(p)' <=> Waits(p)
      BY <1>6, <1>8, <1>16 DEF Waits
    <2>2. OneDeferred'
      BY <1>1, <2>1 DEF OneDeferred
    <2>3. ASSUME NEW p \in Procs, Waits(p)'
          PROVE  /\ mon'.lastClear # None /\ deferred'[p].age >= mon'.lastClear
                 /\ p # mon'.pid => deferred'[p].age > mon'.lastClear
      <3>1. Waits(p) /\ deferred'[p].age = deferred[p].age + 1 /\ deferred[p].age \in Nat
        BY <1>8, <2>1, <2>3
      <3>2. CASE mon'.lastClear = 0
        BY <3>1, <3>2 DEF None
      <3>3. CASE mon'.lastClear = ClearAge /\ m.pid = mon.pid
        <4>1. /\ mon.lastClear # None /\ deferred[p].age >= mon.lastClear
              /\ (p # mon.pid => deferred[p].age > mon.lastClear) /\ mon.lastClear \in Ages(ResetCooldown)
          BY <1>1, <1>2, <3>1, MonParts DEF NotAfterClear
        <4>2. ClearAge <= mon.lastClear + 1 /\ ClearAge \in Nat
          BY <4>1, CcConstants DEF ClearAge, Older, Least, Ages, None
        <4>3. p = mon.pid => mon'.pid = p
          <5>1. p # 0
            BY DEF Procs
          <5>2. p = mon.pid => PidRuns(d.pid, d.procs)
            BY <1>5, <1>6, <1>16, <2>3, <3>3, <5>1 DEF PidRuns, Waits
          <5> QED BY <1>5, <1>12, <1>16, <3>3, <5>2
        <4>4. deferred'[p].age >= mon'.lastClear /\ mon'.lastClear # None
          BY <3>1, <3>3, <4>1, <4>2 DEF Ages, None
        <4>5. p # mon.pid => deferred'[p].age > mon'.lastClear
          BY <3>1, <3>3, <4>1, <4>2 DEF Ages, None
        <4> QED BY <4>3, <4>4, <4>5
      <3> QED BY <1>4, <1>5, <1>12, <3>2, <3>3
    <2> QED BY <1>15, <2>2, <2>3 DEF NotAfterClear
  <1>17. CASE fires /\ (\A p \in Procs : ~Waits(p)) /\ d = [pid |-> 0, procs |-> aged]
    <2>1. \A p \in Procs : ~Waits(p)'
      BY <1>6, <1>8, <1>17 DEF Waits
    <2> QED BY <1>15, <2>1 DEF OneDeferred, NotAfterClear
  <1>18. ASSUME fires, \A p \in Procs : ~Waits(p), NEW q \in Procs,
                d = [pid |-> q, procs |-> [aged EXCEPT ![q].age = 0]]
         PROVE  CcTypeOK' /\ OneDeferred' /\ NotAfterClear'
    <2>1. \A p \in Procs : deferred'[p].age = IF p = q THEN 0 ELSE aged[p].age
      BY <1>6, <1>9, <1>18 DEF Waiters
    <2>2. \A p \in Procs : Waits(p)' => p = q
      BY <1>8, <1>18, <2>1 DEF Waits
    <2>3. PidRuns(d.pid, d.procs)
      BY <1>6, <1>18, <2>1 DEF PidRuns, Procs, None
    <2>4. mon'.pid = q /\ mon'.lastClear = 0
      BY <1>5, <1>12, <1>18, <2>3
    <2>5. NotAfterClear'
      BY <2>1, <2>2, <2>4 DEF NotAfterClear, None
    <2> QED BY <1>15, <2>2, <2>5 DEF OneDeferred
  <1> QED BY <1>10, <1>16, <1>17, <1>18

(* What a pass puts off. *)
LEMMA PassOverdue ==
    ASSUME CcInv, NEW found \in ContextFinds, Pass(found), MaxArmed > 0 \/ ContextDwell = 0
    PROVE  DeferralBounded' /\ OverdueMeasured'
  <1> USE CcConstants
  <1> DEFINE m == ContextSeen
             crossed == [m EXCEPT !.firstSeen = IF @ = None THEN 0 ELSE @]
             j == Judged(m, found)
             fires == Fires(crossed, found)
  <1>1. CcTypeOK /\ OverdueMeasured /\ DeferralBounded
    BY DEF CcInv, ContextKeptInBounds
  <1>2. mon \in Mons /\ mon.firstSeen \in Ages(FallbackMax) /\ mon.armed \in Ages(MaxArmed)
    BY <1>1, CcStateTyped, MonParts
  <1>3. /\ m \in Mons
        /\ (ctx = 2 => \/ m.firstSeen = SeenAge /\ m.armed = ContextArmedAge
                       \/ marker /\ m.firstSeen = None /\ m.armed = None)
    BY <1>1, MonitorSeen
  <1>4. /\ j \in Mons
        /\ Over(m, found) /\ ~fires =>
             /\ j.firstSeen = (IF m.firstSeen = None THEN 0 ELSE m.firstSeen)
             /\ j.armed = m.armed \/ (m.armed = None /\ j.armed = 0)
        /\ Over(m, found) /\ ~fires /\ ~found.api /\ found.claim =>
             \/ j.firstSeen < FallbackMax
             \/ /\ MonitorDecision(m, found) # "escalate"
                /\ j.armed = (IF m.armed = None THEN 0 ELSE m.armed)
    BY <1>1, <1>3, JudgedTyped
  <1>5. mon'.firstSeen = j.firstSeen /\ mon'.armed = j.armed
    <2>1. PICK d \in (IF fires
                      THEN Deferred(j.pid, [p \in Procs |-> [deferred[p] EXCEPT !.age = Older(@, GracePeriod)]])
                      ELSE {[pid |-> j.pid,
                             procs |-> [p \in Procs |-> [deferred[p] EXCEPT !.age = Older(@, GracePeriod)]]]}) :
                mon' = [j EXCEPT !.pid = 0] \/ mon' = [j EXCEPT !.pid = d.pid]
      BY DEF Pass
    <2> HIDE DEF j
    <2> QED BY <1>4, <2>1 DEF Mons
  <1>6. /\ marker' = FALSE
        /\ overdue' = IF fires \/ ~Over(m, found) THEN 0
                      ELSE IF found.api \/ ~found.claim THEN overdue ELSE overdue + 1
    BY DEF Pass
  <1>7. /\ m.firstSeen \in Ages(FallbackMax) /\ m.armed \in Ages(MaxArmed)
        /\ j.firstSeen \in Ages(FallbackMax) /\ j.armed \in Ages(MaxArmed)
    BY <1>3, <1>4, MonParts
  <1> HIDE DEF m, crossed, j, fires
  <1>8. /\ overdue \in Nat /\ (marker => overdue = 0) /\ (overdue > 0 => mon.firstSeen # None)
        /\ (mon.firstSeen # None /\ mon.firstSeen < FallbackMax => overdue <= mon.firstSeen + 1)
        /\ (mon.armed = None => overdue <= FallbackMax)
        /\ (mon.armed # None /\ mon.armed < MaxArmed => overdue <= FallbackMax + 1 + mon.armed)
        /\ overdue <= FallbackMax + MaxArmed
    BY <1>1 DEF OverdueMeasured, DeferralBounded
  <1>9. CASE fires \/ ~Over(m, found)
    <2>1. overdue' = 0 /\ marker' = FALSE
      BY <1>6, <1>9
    <2>2. mon'.armed \in Ages(MaxArmed) /\ mon'.firstSeen \in Ages(FallbackMax)
      BY <1>5, <1>7
    <2> QED BY <2>1, <2>2 DEF OverdueMeasured, DeferralBounded, Ages, None
  <1>10. CASE ~fires /\ Over(m, found)
    <2> DEFINE f == mon'.firstSeen
               a == mon'.armed
    <2>1. ctx = 2
      BY <1>10 DEF Over
    <2>2. f \in Ages(FallbackMax) /\ a \in Ages(MaxArmed) /\ f # None
      BY <1>4, <1>5, <1>7, <1>10 DEF None
    <2>3. overdue' \in Nat /\ overdue' <= overdue + 1 /\ (overdue' = overdue \/ (overdue' = overdue + 1 /\ ~found.api /\ found.claim))
      BY <1>6, <1>8, <1>10
    <2>4. f < FallbackMax => overdue' <= f + 1
      <3>1. CASE m.firstSeen = None
        <4>1. f = 0
          BY <1>4, <1>5, <1>10, <3>1
        <4>2. overdue = 0
          <5>1. CASE m.firstSeen = SeenAge
            BY <1>2, <1>8, <3>1, <5>1, TickTyped DEF SeenAge
          <5> QED BY <1>3, <1>8, <2>1, <5>1
        <4> QED BY <2>3, <4>1, <4>2
      <3>2. CASE m.firstSeen # None
        <4>1. f = m.firstSeen /\ m.firstSeen = Older(mon.firstSeen, FallbackMax)
          BY <1>3, <1>4, <1>5, <1>10, <2>1, <3>2 DEF SeenAge
        <4>2. f < FallbackMax => mon.firstSeen # None /\ f = mon.firstSeen + 1 /\ mon.firstSeen < FallbackMax
          BY <1>2, <3>2, <4>1 DEF Older, Least, Ages, None
        <4> QED BY <1>2, <1>8, <2>2, <2>3, <4>2 DEF Ages, None
      <3> QED BY <3>1, <3>2
    (* How old the obligation is now, and what was put off before. *)
    <2>5. /\ m.armed = None => overdue <= FallbackMax
          /\ m.armed # None /\ m.armed < MaxArmed => overdue <= FallbackMax + m.armed
      <3>1. CASE m.armed = ContextArmedAge
        <4>1. /\ m.armed = None => mon.armed = None
              /\ m.armed # None /\ m.armed < MaxArmed
                   => mon.armed # None /\ mon.armed < MaxArmed /\ m.armed = mon.armed + 1
          BY <1>2, <3>1 DEF ContextArmedAge, Older, Least, Ages, None
        <4> QED BY <1>2, <1>8, <4>1 DEF Ages, None
      <3>2. CASE marker /\ m.armed = None
        BY <1>8, <3>2
      <3> QED BY <1>3, <2>1, <3>1, <3>2
    <2>6. a = m.armed \/ (m.armed = None /\ a = 0)
      BY <1>4, <1>5, <1>10
    <2>7. a # None /\ a < MaxArmed => overdue' <= FallbackMax + 1 + a
      <3>1. CASE a = m.armed
        BY <1>7, <1>8, <2>3, <2>5, <3>1 DEF Ages, None
      <3>2. CASE m.armed = None /\ a = 0
        BY <1>8, <2>3, <2>5, <3>2
      <3> QED BY <2>6, <3>1, <3>2
    <2>8. ASSUME overdue' = overdue + 1, ~(f < FallbackMax)
          PROVE  a # None /\ a < MaxArmed
      <3>2. ~found.api /\ found.claim
        BY <1>8, <2>3, <2>8
      <3>3. MonitorDecision(m, found) # "escalate" /\ a = IF m.armed = None THEN 0 ELSE m.armed
        BY <1>4, <1>5, <1>10, <2>8, <3>2
      <3>4. ContextDwell # 0
        BY <3>3 DEF MonitorDecision, ContextDecision, Decision
      <3>5. m.armed # None => m.armed < MaxArmed
        BY <1>7, <3>3, <3>4 DEF MonitorDecision, ContextDecision, Decision, Since, Ages, None
      <3> QED BY <1>7, <3>3, <3>4, <3>5 DEF Ages, None
    <2>9. overdue' <= FallbackMax + MaxArmed
      BY <1>8, <2>2, <2>3, <2>4, <2>7, <2>8 DEF Ages, None
    <2>10. a = None => overdue' <= FallbackMax
      BY <1>8, <2>2, <2>3, <2>4, <2>5, <2>6, <2>8 DEF Ages, None
    <2> QED BY <1>6, <2>2, <2>3, <2>4, <2>7, <2>9, <2>10 DEF OverdueMeasured, DeferralBounded
  <1> QED BY <1>9, <1>10

(* How long a pass leaves a wedged session.                                   *)
LEMMA PassStuck ==
    ASSUME CcInv, NEW found \in ContextFinds, Pass(found)
    PROVE  WedgeAttended' /\ StuckMeasured'
  <1> USE CcConstants
  <1>1. CcTypeOK /\ StuckMeasured
    BY DEF CcInv, ContextKeptInBounds
  <1>2. wedge.count \in 0..WedgedThreshold /\ wedge.last \in Ages(WedgedCooldown) /\ mon.pid \in {0} \cup Procs
    BY <1>1, CcStateTyped, MonParts DEF Wedges
  <1>3. WedgedAge \in Ages(WedgedCooldown)
    BY <1>2, TickTyped DEF WedgedAge
  <1>4. WedgeCount(found) \in 0..WedgedThreshold
    BY <1>2 DEF WedgeCount, Least
  <1>5. stuck' = IF /\ found.wedged /\ ~found.api /\ driver = "none"
                    /\ \A p \in Procs : ~Waits(p)
                    /\ ~WedgeDue(found) \/ PidRuns(mon.pid, deferred)
                 THEN stuck + 1 ELSE 0
    BY DEF Pass
  <1>6. wedge' = IF WedgeDue(found) THEN [count |-> 0, last |-> 0]
                 ELSE [count |-> WedgeCount(found), last |-> WedgedAge]
    BY DEF Pass
  <1>7. /\ stuck \in Nat /\ (stuck <= wedge.count \/ wedge.count = WedgedThreshold)
        /\ (wedge.last # None /\ wedge.last < WedgedCooldown => stuck <= wedge.last)
    BY <1>1 DEF StuckMeasured
  <1>8. CASE stuck' = 0
    <2>1. wedge'.count \in Nat /\ wedge'.last \in Ages(WedgedCooldown)
      BY <1>3, <1>4, <1>6, Fresh
    <2> QED BY <1>8, <2>1 DEF WedgeAttended, StuckMeasured, Ages, None
  <1>9. CASE stuck' # 0
    <2>1. stuck' = stuck + 1 /\ found.wedged /\ ~found.api
      BY <1>5, <1>9
    <2>2. ~PidRuns(mon.pid, deferred)
      BY <1>2, <1>5, <1>9 DEF PidRuns, Waits
    <2>3. ~WedgeDue(found)
      BY <1>5, <1>9, <2>2
    <2>4. wedge'.count = Least(wedge.count + 1, WedgedThreshold) /\ wedge'.last = WedgedAge
      BY <1>6, <2>1, <2>3 DEF WedgeCount
    <2>5. wedge'.count < WedgedThreshold \/ (wedge'.last # None /\ wedge'.last < WedgedCooldown)
      BY <1>4, <2>1, <2>3, <1>6 DEF WedgeDue, Within
    <2>6. wedge'.count \in 0..WedgedThreshold /\ (wedge'.count < WedgedThreshold => wedge'.count = wedge.count + 1 /\ wedge.count < WedgedThreshold)
      BY <1>2, <2>4 DEF Least
    <2>7. wedge'.last # None /\ wedge'.last < WedgedCooldown
            => wedge.last # None /\ wedge'.last = wedge.last + 1 /\ wedge.last < WedgedCooldown
      BY <1>2, <2>4 DEF WedgedAge, Older, Least, Ages, None
    <2>8. wedge'.last \in Ages(WedgedCooldown)
      BY <1>3, <2>4
    <2>9. stuck' <= wedge'.count \/ wedge'.count = WedgedThreshold
      BY <1>2, <1>7, <2>1, <2>6
    <2>10. wedge'.last # None /\ wedge'.last < WedgedCooldown => stuck' <= wedge'.last
      BY <1>2, <1>7, <2>1, <2>7, <2>8 DEF Ages, None
    <2>11. stuck' < WedgedThreshold \/ stuck' < WedgedCooldown
      BY <1>2, <1>7, <2>1, <2>5, <2>6, <2>8, <2>9, <2>10 DEF Ages, None
    <2> QED BY <1>7, <2>1, <2>9, <2>10, <2>11 DEF WedgeAttended, StuckMeasured
  <1> QED BY <1>8, <1>9

(* What else happens moves no clock: it ends a wait, or forgets a process     *)
(* that does not wait.                                                        *)
LEMMA CcOthers ==
    ASSUME CcInv,
           \/ \E p \in Procs : DeferredPoll(p)
           \/ SelfClear \/ IdleClear \/ AgentClear \/ Grow \/ CcRestart
    PROVE  CcInv'
  <1> USE CcConstants
  <1>1. /\ CcTypeOK /\ DeferralBounded /\ WedgeAttended /\ OneDeferred
        /\ NotAfterClear /\ OverdueMeasured /\ StuckMeasured
    BY DEF CcInv, ContextKeptInBounds
  <1>2. /\ mon \in Mons /\ wedge \in Wedges /\ deferred \in [Procs -> Waiters]
        /\ \A p \in Procs : deferred[p] \in Waiters /\ deferred[p].age \in Ages(GracePeriod)
        /\ ctx \in 0..2 /\ marker \in BOOLEAN /\ driver \in {"none", "due", "again"}
    BY <1>1, CcStateTyped DEF CcTypeOK
  <1>3. Started(TRUE) \in {"none", "due", "again"} /\ Started(FALSE) \in {"none", "due", "again"}
    BY <1>2 DEF Started
  <1>4. ASSUME Reset PROVE deferred' \in [Procs -> Waiters] /\ \A p \in Procs : deferred'[p].age = deferred[p].age
    <2>1. \A p \in Procs : [deferred[p] EXCEPT !.stale = Waits(p)] \in Waiters
                            /\ [deferred[p] EXCEPT !.stale = Waits(p)].age = deferred[p].age
      BY <1>2 DEF Waiters, Waits
    <2> QED BY <1>4, <2>1 DEF Reset
  <1>5. ASSUME deferred' \in [Procs -> Waiters], mon' = mon, UNCHANGED <<wedge, stuck>>,
               ctx' \in 0..2, marker' \in BOOLEAN, driver' \in {"none", "due", "again"},
               \A p \in Procs : deferred'[p].age \in {None, deferred[p].age},
               (overdue' = overdue /\ marker' = marker) \/ overdue' = 0
        PROVE  CcInv'
    <2>1. CcTypeOK'
      BY <1>1, <1>5 DEF CcTypeOK, Waiters
    <2>2. \A p \in Procs : Waits(p)' => Waits(p) /\ deferred'[p].age = deferred[p].age
      BY <1>5 DEF Waits
    <2>3. OneDeferred' /\ NotAfterClear'
      BY <1>1, <1>5, <2>2 DEF OneDeferred, NotAfterClear
    <2>4. OverdueMeasured' /\ DeferralBounded'
      <3>1. mon.armed \in Ages(MaxArmed) /\ mon.firstSeen \in Ages(FallbackMax)
        BY <1>2, MonParts
      <3> QED BY <1>1, <1>5, <3>1 DEF OverdueMeasured, DeferralBounded, Ages, None
    <2>5. WedgeAttended' /\ StuckMeasured'
      BY <1>1, <1>5 DEF WedgeAttended, StuckMeasured
    <2> QED BY <2>1, <2>3, <2>4, <2>5 DEF CcInv, ContextKeptInBounds
  <1>6. ASSUME NEW p \in Procs, DeferredPoll(p) PROVE CcInv'
    <2>1. NoProc \in Waiters /\ NoProc.age = None
      BY Fresh DEF NoProc, Waiters
    <2>2. deferred' \in [Procs -> Waiters] /\ \A q \in Procs : deferred'[q].age \in {None, deferred[q].age}
      BY <1>2, <1>6, <2>1 DEF DeferredPoll
    <2>3. driver' \in {"none", "due", "again"}
      BY <1>2, <1>6 DEF DeferredPoll, Started
    <2> QED BY <1>2, <1>5, <1>6, <2>2, <2>3 DEF DeferredPoll
  <1>7. CASE SelfClear
    <2>1. CASE Reset /\ marker' = TRUE
      <3>1. ctx' = 0 /\ overdue' = 0
        BY <2>1 DEF Reset
      <3>2. driver' = "none" /\ mon' = mon /\ UNCHANGED <<wedge, stuck>>
        BY <1>7 DEF SelfClear
      <3> QED BY <1>4, <1>5, <2>1, <3>1, <3>2
    <2>2. CASE UNCHANGED <<ctx, marker, deferred, overdue>>
      BY <1>2, <1>5, <1>7, <2>2 DEF SelfClear
    <2> QED BY <1>7, <2>1, <2>2 DEF SelfClear
  <1>8. CASE AgentClear
    <2>1. Reset /\ ctx' = 0 /\ overdue' = 0
      BY <1>8 DEF AgentClear, Reset
    <2>2. driver' = driver /\ mon' = mon /\ UNCHANGED <<wedge, stuck>> /\ marker' \in BOOLEAN
      BY <1>8 DEF AgentClear
    <2> QED BY <1>2, <1>4, <1>5, <2>1, <2>2
  <1>9. CASE Grow
    <2>1. ctx' \in 0..2
      BY <1>2, <1>9 DEF Grow
    <2> QED BY <1>2, <1>5, <1>9, <2>1 DEF Grow
  <1>10. CASE IdleClear
    <2>1. mon' \in Mons /\ mon' = [mon EXCEPT !.pid = 0]
      BY <1>2, <1>10 DEF IdleClear, Mons
    <2>2. /\ mon'.armed = mon.armed /\ mon'.firstSeen = mon.firstSeen /\ mon'.lastClear = mon.lastClear
          /\ UNCHANGED <<ctx, marker, deferred, wedge, overdue, stuck>> /\ driver' \in {"none", "due", "again"}
      BY <1>2, <1>3, <1>10, <2>1 DEF IdleClear, Mons
    <2>3. CcTypeOK'
      BY <1>1, <2>1, <2>2 DEF CcTypeOK, Mons
    <2>4. \A p \in Procs : Waits(p) => p # mon.pid
      BY <1>10 DEF IdleClear, PidRuns, Waits, Procs
    <2>5. NotAfterClear' /\ OneDeferred'
      BY <1>1, <2>2, <2>4 DEF NotAfterClear, OneDeferred, Waits
    <2>6. OverdueMeasured' /\ DeferralBounded' /\ WedgeAttended' /\ StuckMeasured'
      BY <1>1, <2>2 DEF OverdueMeasured, DeferralBounded, WedgeAttended, StuckMeasured
    <2> QED BY <2>3, <2>5, <2>6 DEF CcInv, ContextKeptInBounds
  <1>11. CASE CcRestart
    <2>1. mon' = [mon EXCEPT !.armed = None] /\ wedge' = [wedge EXCEPT !.count = 0]
          /\ overdue' = 0 /\ stuck' = 0 /\ UNCHANGED <<ctx, marker, deferred, driver>>
      BY <1>11 DEF CcRestart
    <2>2. /\ mon' \in Mons /\ mon'.armed = None /\ mon'.firstSeen = mon.firstSeen /\ mon'.lastClear = mon.lastClear
          /\ mon'.pid = mon.pid
      BY <1>2, <2>1, Fresh DEF Mons
    <2>3. wedge' \in Wedges /\ wedge'.count = 0 /\ wedge'.last = wedge.last /\ wedge.last \in Ages(WedgedCooldown)
      BY <1>2, <2>1 DEF Wedges
    <2>4. CcTypeOK'
      BY <1>1, <2>1, <2>2, <2>3 DEF CcTypeOK, Mons, Wedges
    <2>5. NotAfterClear' /\ OneDeferred'
      BY <1>1, <2>1, <2>2 DEF NotAfterClear, OneDeferred, Waits
    <2>6. mon'.firstSeen \in Ages(FallbackMax)
      BY <2>2, MonParts
    <2>7. OverdueMeasured' /\ DeferralBounded'
      BY <2>1, <2>2, <2>6 DEF OverdueMeasured, DeferralBounded, Ages, None
    <2>8. WedgeAttended' /\ StuckMeasured'
      BY <2>1, <2>3 DEF WedgeAttended, StuckMeasured, Ages, None
    <2> QED BY <2>4, <2>5, <2>7, <2>8 DEF CcInv, ContextKeptInBounds
  <1> QED BY <1>6, <1>7, <1>8, <1>9, <1>10, <1>11

(* A context that fills up is dealt with, by one clear at a time.             *)
THEOREM ContextKeptEach ==
    (MaxArmed > 0 \/ ContextDwell = 0) => (CcSpec => []ContextKeptInBounds)
  <1> SUFFICES ASSUME MaxArmed > 0 \/ ContextDwell = 0 PROVE CcSpec => []ContextKeptInBounds
    OBVIOUS
  <1>1. CcInit => CcInv
    <2> SUFFICES ASSUME CcInit PROVE CcInv
      OBVIOUS
    <2>1. /\ None \in Ages(GracePeriod) /\ None \in Ages(ResetCooldown) /\ None \in Ages(MaxArmed)
          /\ None \in Ages(FallbackMax) /\ None \in Ages(WedgedCooldown) /\ 0 \in 0..WedgedThreshold
      BY CcConstants, Fresh
    <2>2. CcTypeOK
      <3>1. NoProc \in Waiters
        BY <2>1 DEF NoProc, Waiters
      <3>2. mon \in Mons /\ wedge \in Wedges /\ deferred \in [Procs -> Waiters]
        BY <2>1, <3>1 DEF CcInit, Mons, Wedges
      <3>3. ctx \in 0..2 /\ marker \in BOOLEAN /\ driver \in {"none", "due", "again"}
        <4>1. ctx = 0 /\ marker = FALSE /\ driver = "none"
          BY DEF CcInit
        <4>2. ctx \in 0..2
          BY <4>1
        <4>3. marker \in BOOLEAN /\ driver \in {"none", "due", "again"}
          BY <4>1
        <4> QED BY <4>2, <4>3
      <3> QED BY <3>2, <3>3 DEF CcTypeOK, Mons, Wedges, Waiters
    <2>3. \A p \in Procs : ~Waits(p)
      BY DEF CcInit, Waits, NoProc
    <2> QED BY <2>2, <2>3, CcConstants
         DEF CcInit, CcInv, ContextKeptInBounds, DeferralBounded, WedgeAttended, OneDeferred, NotAfterClear,
             OverdueMeasured, StuckMeasured
  <1>2. CcInv /\ [CcNext]_ccVars => CcInv'
    <2> SUFFICES ASSUME CcInv, [CcNext]_ccVars PROVE CcInv'
      OBVIOUS
    <2>1. ASSUME NEW found \in ContextFinds, Pass(found) PROVE CcInv'
      BY <2>1, PassProcs, PassOverdue, PassStuck DEF CcInv, ContextKeptInBounds
    <2>2. CASE UNCHANGED ccVars
      BY <2>2 DEF ccVars, CcInv, ContextKeptInBounds, CcTypeOK, DeferralBounded, WedgeAttended, OneDeferred,
                  NotAfterClear, OverdueMeasured, StuckMeasured, Waits
    <2> QED BY <2>1, <2>2, CcOthers DEF CcNext
  <1>3. CcInv => ContextKeptInBounds
    BY DEF CcInv
  <1> QED BY <1>1, <1>2, <1>3, PTL DEF CcSpec

-----------------------------------------------------------------------------
(* SessionRecovery. *)
Latches == [on : BOOLEAN, alive : BOOLEAN, age : Ages(InjectExpiry)]
\* A session that was told and has not read alive is held by the latch for as long
\* as its prompt may still show, and nothing about its count will lift it.
KickLatched ==
    /\ kicked \in Ages(InjectExpiry)
    /\ kicked # None => ~(large /\ carry < CarryMax)
    /\ kicked # None /\ kicked < InjectExpiry => latch.on /\ ~latch.alive /\ latch.age = kicked
\* Every pass that the session waits is a pass of each clock it may wait for.
ClocksRun ==
    /\ waits \in Nat
    /\ restart # None => restart >= Least(waits, RestartCooldown)
    /\ lastTurn # None => lastTurn >= Least(waits, RecoveryWindow)
    /\ latch.on => latch.age # None /\ latch.age >= Least(waits, InjectExpiry)
ShellMeasured ==
    session = "shell" =>
        /\ large /\ carry < CarryMax => waits <= carry
        /\ waits <= CarryMax + Greatest(RestartCooldown, RecoveryWindow) + Least(dead, ChecksRequired)
FreshMeasured ==
    session = "fresh" =>
        /\ dead >= Least(waits, FreshChecks)
        /\ waits <= Greatest(Greatest(RestartCooldown, InjectExpiry), FreshChecks)
SrInv ==
    /\ SrTypeOK /\ latch \in Latches /\ NoInjectLoop
    /\ KickLatched /\ ClocksRun /\ ShellMeasured /\ FreshMeasured

LEMMA SrConstants ==
    /\ FreshChecks \in Nat /\ RestartCooldown \in Nat /\ InjectExpiry \in Nat /\ CarryMax \in Nat
    /\ RecoveryWindow \in Nat /\ RecoverySuppressions \in Nat /\ ChecksRequired \in Nat /\ ChecksRequired <= FreshChecks
  BY RecoveryAssumption

LEMMA SrInitInv == SrInit => SrInv
  <1> SUFFICES ASSUME SrInit PROVE SrInv
    OBVIOUS
  <1>1. /\ 0 \in 0..CarryMax /\ 0 \in 0..FreshChecks /\ None \in Ages(RestartCooldown) /\ None \in Ages(RecoveryWindow)
        /\ None \in Ages(InjectExpiry) /\ 0 \in 0..RecoverySuppressions
    BY SrConstants, Fresh
  <1>2. latch \in Latches /\ ~latch.on
    BY <1>1 DEF SrInit, Latches
  <1>3. 0 >= Least(0, FreshChecks) /\ 0 <= CarryMax + Greatest(RestartCooldown, RecoveryWindow) + Least(0, ChecksRequired)
        /\ 0 <= Greatest(Greatest(RestartCooldown, InjectExpiry), FreshChecks)
    BY SrConstants DEF Least, Greatest
  <1> QED BY <1>1, <1>2, <1>3
       DEF SrInit, SrInv, SrTypeOK, Latches, NoInjectLoop, KickLatched, ClocksRun, ShellMeasured, FreshMeasured

(* What a pass can make of the latch. *)
LEMMA LatchTyped ==
    ASSUME latch \in Latches
    PROVE  /\ LatchAge \in Ages(InjectExpiry) /\ (LatchAge = None <=> latch.age = None)
           /\ LatchAged \in Latches /\ LatchAged.on = latch.on /\ LatchAged.alive = latch.alive /\ LatchAged.age = LatchAge
           /\ Unlatched \in Latches /\ Unlatched.age = LatchAge /\ (Unlatched.on => latch.on)
           /\ Alive \in Latches /\ Alive.age = LatchAge /\ ~Alive.on
  <1>1. /\ LatchAge \in Ages(InjectExpiry) /\ (LatchAge = None <=> latch.age = None)
    BY SrConstants, TickTyped DEF LatchAge, Latches
  <1>2. LatchAged \in Latches /\ LatchAged.on = latch.on /\ LatchAged.alive = latch.alive /\ LatchAged.age = LatchAge
    BY <1>1 DEF LatchAged, Latches
  <1>3. Unlatched \in Latches /\ Unlatched.age = LatchAge /\ (Unlatched.on => latch.on)
    BY <1>2 DEF Unlatched, Latches
  <1>4. Alive \in Latches /\ Alive.age = LatchAge /\ ~Alive.on
    BY <1>2 DEF Alive, Latches
  <1> QED BY <1>1, <1>2, <1>3, <1>4

(* The clocks run on: each is as old as the session has waited.               *)
LEMMA ClocksStep ==
    ASSUME SrInv, SrTypeOK', latch' \in Latches, latch'.on => latch'.age # None,
           \/ waits' = 0
           \/ /\ waits' = waits + 1 /\ restart' = RestartAge /\ lastTurn' = Older(lastTurn, RecoveryWindow)
              /\ latch'.on => latch.on /\ latch'.age = LatchAge
    PROVE  ClocksRun'
  <1> USE SrConstants
  <1>1. ASSUME NEW cap \in Nat, NEW a \in Ages(cap), NEW w \in Nat, a # None => a >= Least(w, cap)
        PROVE  Older(a, cap) # None => Older(a, cap) >= Least(w + 1, cap)
    BY <1>1 DEF Older, Least, Ages, None
  <1>2. ASSUME NEW cap \in Nat, NEW a \in Ages(cap) PROVE a # None => a >= Least(0, cap)
    BY DEF Least, Ages, None
  <1>3. /\ restart \in Ages(RestartCooldown) /\ lastTurn \in Ages(RecoveryWindow) /\ latch.age \in Ages(InjectExpiry)
        /\ restart' \in Ages(RestartCooldown) /\ lastTurn' \in Ages(RecoveryWindow) /\ latch'.age \in Ages(InjectExpiry)
    BY DEF SrInv, SrTypeOK, Latches
  <1>4. ClocksRun
    BY DEF SrInv
  <1>5. CASE waits' = 0
    BY <1>2, <1>3, <1>5 DEF ClocksRun
  <1>6. CASE /\ waits' = waits + 1 /\ restart' = RestartAge /\ lastTurn' = Older(lastTurn, RecoveryWindow)
             /\ latch'.on => latch.on /\ latch'.age = LatchAge
    <2>1. waits \in Nat /\ waits' \in Nat
      BY <1>4, <1>6 DEF ClocksRun
    <2>2. restart' # None => restart' >= Least(waits', RestartCooldown)
      BY <1>1, <1>3, <1>4, <1>6, <2>1 DEF ClocksRun, RestartAge
    <2>3. lastTurn' # None => lastTurn' >= Least(waits', RecoveryWindow)
      BY <1>1, <1>3, <1>4, <1>6, <2>1 DEF ClocksRun
    <2>4. latch'.on => latch'.age >= Least(waits', InjectExpiry)
      <3>1. latch.on /\ LatchAge # None => LatchAge >= Least(waits + 1, InjectExpiry)
        BY <1>1, <1>3, <1>4, <2>1 DEF ClocksRun, LatchAge
      <3> QED BY <1>6, <3>1
    <2> QED BY <2>1, <2>2, <2>3, <2>4 DEF ClocksRun
  <1> QED BY <1>5, <1>6

(* A session that does not wait is on time. *)
LEMMA NotWaiting == ASSUME SrTypeOK', waits' = 0 PROVE ShellMeasured' /\ FreshMeasured'
  <1> USE SrConstants
  <1>1. carry' \in Nat /\ dead' \in Nat
    BY DEF SrTypeOK
  <1>2. /\ Least(0, FreshChecks) = 0 /\ Least(dead', ChecksRequired) \in Nat
        /\ Greatest(RestartCooldown, RecoveryWindow) \in Nat
        /\ Greatest(Greatest(RestartCooldown, InjectExpiry), FreshChecks) \in Nat
    BY <1>1 DEF Least, Greatest
  <1> QED BY <1>1, <1>2 DEF ShellMeasured, FreshMeasured

(* The prompt and the latch age together. *)
LEMMA KickStep ==
    ASSUME SrInv,
           \/ kicked' = None
           \/ kicked' = 0 /\ latch' = [on |-> TRUE, alive |-> FALSE, age |-> 0] /\ ~(large' /\ carry' < CarryMax)
           \/ /\ kicked' = Older(kicked, InjectExpiry)
              /\ kicked # None => ~(large' /\ carry' < CarryMax) /\ latch' \in {LatchAged, Unlatched}
    PROVE  KickLatched'
  <1> USE SrConstants
  <1>1. /\ kicked \in Ages(InjectExpiry) /\ latch \in Latches
        /\ kicked # None /\ kicked < InjectExpiry => latch.on /\ ~latch.alive /\ latch.age = kicked
    BY DEF SrInv, KickLatched
  <1>2. None \in Ages(InjectExpiry) /\ 0 \in Ages(InjectExpiry)
    BY Fresh
  <1>3. CASE kicked' = None
    BY <1>2, <1>3 DEF KickLatched
  <1>4. CASE kicked' = 0 /\ latch' = [on |-> TRUE, alive |-> FALSE, age |-> 0] /\ ~(large' /\ carry' < CarryMax)
    BY <1>2, <1>4 DEF KickLatched
  <1>5. CASE /\ kicked' = Older(kicked, InjectExpiry) /\ kicked # None
             /\ ~(large' /\ carry' < CarryMax) /\ latch' \in {LatchAged, Unlatched}
    <2>1. kicked' \in Ages(InjectExpiry)
      BY <1>1, <1>5, TickTyped
    <2>2. ASSUME kicked' < InjectExpiry PROVE latch'.on /\ ~latch'.alive /\ latch'.age = kicked'
      <3>1. kicked < InjectExpiry
        BY <1>1, <1>5, <2>2 DEF Older, Least, Ages, None
      <3>2. latch.on /\ ~latch.alive /\ latch.age = kicked
        BY <1>1, <1>5, <3>1
      <3>3. LatchAge = kicked'
        BY <1>5, <3>2 DEF LatchAge
      <3>4. ~Since(LatchAge, InjectExpiry)
        BY <2>1, <2>2, <3>3 DEF Since, Ages, None
      <3>5. Unlatched = LatchAged
        BY <3>2, <3>4 DEF Unlatched
      <3> QED BY <1>1, <1>5, <3>2, <3>3, <3>5, LatchTyped
    <2> QED BY <1>5, <2>1, <2>2 DEF KickLatched
  <1>6. kicked = None => Older(kicked, InjectExpiry) = None
    BY DEF Older
  <1> QED BY <1>3, <1>4, <1>5, <1>6

LEMMA SrPassInv == ASSUME SrInv, NEW sight \in Sights, SrPass(sight) PROVE SrInv'
  <1> USE SrConstants
  <1>1. /\ SrTypeOK /\ latch \in Latches /\ KickLatched /\ ClocksRun /\ ShellMeasured /\ FreshMeasured /\ NoInjectLoop
        /\ waits \in Nat /\ (latch.on => latch.age # None)
    BY DEF SrInv, ClocksRun
  <1>2. /\ LatchAge \in Ages(InjectExpiry) /\ (LatchAge = None <=> latch.age = None)
        /\ LatchAged \in Latches /\ LatchAged.on = latch.on /\ LatchAged.alive = latch.alive /\ LatchAged.age = LatchAge
        /\ Unlatched \in Latches /\ Unlatched.age = LatchAge /\ (Unlatched.on => latch.on)
        /\ Alive \in Latches /\ Alive.age = LatchAge /\ ~Alive.on
    BY <1>1, LatchTyped
  <1>3. RestartAge \in Ages(RestartCooldown) /\ 0 \in Ages(RestartCooldown)
    BY <1>1, TickTyped, Fresh DEF SrTypeOK, RestartAge
  <1>4. Older(lastTurn, RecoveryWindow) \in Ages(RecoveryWindow) /\ TurnAge(sight) \in Ages(RecoveryWindow)
    BY <1>1, TickTyped, Fresh DEF SrTypeOK, TurnAge
  <1>5. Carry(sight) \in 0..CarryMax
    BY <1>1 DEF SrTypeOK, Carry, Carried
  <1>6. Reads(sight)
    BY DEF SrPass
  <1>7. ASSUME sight.blank, ~Carried(sight) PROVE Carry(sight) = carry /\ ~(large /\ carry < CarryMax)
    BY <1>7 DEF Carry, Carried
  <1>8. 0 \in 0..FreshChecks /\ dead \in 0..FreshChecks /\ Least(dead + 1, FreshChecks) \in 0..FreshChecks
    BY <1>1 DEF SrTypeOK, Least
  \* What a pass that says nothing leaves of the history.
  <1>9. ASSUME Watch(sight, FALSE)
        PROVE  /\ kicked' = IF ~sight.blank \/ sight.shells THEN None ELSE Older(kicked, InjectExpiry)
               /\ waits' = IF Awaits(sight) THEN waits + 1 ELSE 0
               /\ NoInjectLoop'
    BY <1>1, <1>9 DEF Watch, NoInjectLoop
  <1>10. CASE PassPending(sight)
    <2>1. /\ Watch(sight, FALSE) /\ ~sight.blank /\ session # "none"
          /\ latch' = LatchAged /\ restart' = RestartAge /\ lastTurn' = Older(lastTurn, RecoveryWindow)
          /\ UNCHANGED <<large, carry, dead, held>> /\ pending' \in BOOLEAN /\ session' \in {session, "busy"}
      BY <1>10 DEF PassPending
    <2>2. ~Awaits(sight)
      BY <1>6, <2>1 DEF Reads, Awaits
    <2>3. waits' = 0 /\ kicked' = None /\ NoInjectLoop'
      BY <1>9, <2>1, <2>2
    <2>4. SrTypeOK'
      BY <1>1, <1>2, <1>3, <1>4, <2>1 DEF SrTypeOK, Latches
    <2>5. ClocksRun'
      BY <1>1, <1>2, <2>1, <2>3, <2>4, ClocksStep
    <2>6. KickLatched'
      BY <2>3, KickStep
    <2> QED BY <1>2, <2>1, <2>3, <2>4, <2>5, <2>6, NotWaiting DEF SrInv
  <1>11. CASE PassAlive(sight)
    <2>1. /\ Watch(sight, FALSE) /\ session # "none" /\ (~Blank(sight) \/ sight.shells)
          /\ large' \in (IF sight.blank THEN {large} ELSE BOOLEAN)
          /\ carry' = Carry(sight) /\ dead' = 0
          /\ latch' = Alive /\ restart' = RestartAge /\ lastTurn' = TurnAge(sight)
          /\ UNCHANGED <<session, pending, held>>
      BY <1>11 DEF PassAlive
    <2>2. SrTypeOK'
      <3>1. large' \in BOOLEAN
        BY <1>1, <2>1 DEF SrTypeOK
      <3> QED BY <1>1, <1>2, <1>3, <1>4, <1>5, <1>8, <2>1, <3>1 DEF SrTypeOK, Latches
    <2>3. CASE ~sight.blank \/ sight.shells
      <3>1. ~Awaits(sight)
        BY <1>6, <2>3 DEF Reads, Awaits
      <3>2. waits' = 0 /\ kicked' = None /\ NoInjectLoop'
        BY <1>9, <2>1, <2>3, <3>1
      <3>3. ClocksRun'
        BY <1>1, <1>2, <2>1, <2>2, <3>2, ClocksStep
      <3>4. KickLatched'
        BY <3>2, KickStep
      <3> QED BY <1>2, <2>1, <2>2, <3>2, <3>3, <3>4, NotWaiting DEF SrInv
    <2>4. CASE sight.blank /\ ~sight.shells
      <3>1. large /\ carry < CarryMax /\ large' = large /\ carry' = carry + 1
        BY <2>1, <2>4 DEF Blank, Carried, Carry
      <3>2. kicked' = None /\ NoInjectLoop'
        <4>1. kicked = None
          BY <1>1, <3>1 DEF KickLatched
        <4> QED BY <1>9, <2>1, <2>4, <4>1 DEF Older
      <3>3. lastTurn' = Older(lastTurn, RecoveryWindow)
        BY <2>1, <2>4 DEF TurnAge
      <3>4. waits' = 0 \/ (waits' = waits + 1 /\ session = "shell")
        BY <1>9, <2>1, <3>1 DEF Awaits
      <3>5. ClocksRun'
        BY <1>1, <1>2, <2>1, <2>2, <3>3, <3>4, ClocksStep
      <3>6. KickLatched'
        BY <3>2, KickStep
      <3>7. ShellMeasured' /\ FreshMeasured'
        <4>1. CASE waits' = 0
          BY <2>2, <4>1, NotWaiting
        <4>2. CASE waits' = waits + 1 /\ session = "shell"
          <5>1. waits <= carry /\ carry \in Nat
            BY <1>1, <3>1, <4>2 DEF ShellMeasured, SrTypeOK
          <5>2. waits' <= carry' /\ waits' <= CarryMax /\ waits' \in Nat
            BY <1>1, <3>1, <4>2, <5>1
          <5>3. waits' <= CarryMax + Greatest(RestartCooldown, RecoveryWindow) + Least(0, ChecksRequired)
            BY <5>2 DEF Greatest, Least
          <5> QED BY <2>1, <4>2, <5>2, <5>3 DEF ShellMeasured, FreshMeasured
        <4> QED BY <3>4, <4>1, <4>2
      <3> QED BY <1>2, <2>1, <2>2, <3>2, <3>5, <3>6, <3>7 DEF SrInv
    <2> QED BY <2>3, <2>4
  <1>12. CASE PassPicker(sight)
    <2>1. /\ Watch(sight, FALSE) /\ Dead(sight) /\ session # "shell" /\ sight.menu
          /\ dead' = 0 /\ latch' = LatchAged /\ restart' = RestartAge /\ carry' = Carry(sight)
          /\ lastTurn' = TurnAge(sight) /\ UNCHANGED <<session, large, pending, held>>
      BY <1>12 DEF PassPicker, Settle
    <2>2. waits' = 0 /\ NoInjectLoop'
      BY <1>9, <2>1 DEF Awaits
    <2>3. SrTypeOK'
      BY <1>1, <1>2, <1>3, <1>4, <1>5, <1>8, <2>1 DEF SrTypeOK, Latches
    <2>4. ClocksRun'
      BY <1>1, <1>2, <2>1, <2>2, <2>3, ClocksStep
    <2>5. KickLatched'
      <3>1. sight.blank /\ ~Carried(sight)
        BY <2>1 DEF Dead, Blank
      <3> QED BY <1>7, <1>9, <2>1, <3>1, KickStep
    <2> QED BY <1>2, <2>1, <2>2, <2>3, <2>4, <2>5, NotWaiting DEF SrInv
  <1>13. CASE PassHeals(sight)
    <2>1. /\ dead' = 0 /\ restart' = RestartAge /\ latch' = Alive /\ carry' = Carry(sight) /\ lastTurn' = TurnAge(sight)
          /\ large' \in BOOLEAN /\ kicked' = None /\ waits' = 0 /\ UNCHANGED <<session, pending, held, looped>>
      BY <1>13 DEF PassHeals
    <2>2. SrTypeOK'
      BY <1>1, <1>2, <1>3, <1>4, <1>5, <1>8, <2>1 DEF SrTypeOK, Latches
    <2>3. ClocksRun'
      BY <1>1, <1>2, <2>1, <2>2, ClocksStep
    <2>4. KickLatched' /\ NoInjectLoop'
      BY <1>1, <2>1, KickStep DEF NoInjectLoop
    <2> QED BY <1>2, <2>1, <2>2, <2>3, <2>4, NotWaiting DEF SrInv
  <1>14. CASE PassWaits(sight)
    <2>1. /\ Watch(sight, FALSE) /\ Dead(sight)
          /\ dead + 1 < ChecksRequired \/ InRestartCooldown \/ (session # "shell" /\ ~Injects(sight))
          /\ dead' = Least(dead + 1, FreshChecks) /\ latch' = IF Due(sight) THEN Unlatched ELSE LatchAged
          /\ restart' = RestartAge /\ carry' = Carry(sight) /\ lastTurn' = TurnAge(sight)
          /\ UNCHANGED <<session, large, pending, held>>
      BY <1>14 DEF PassWaits, Settle
    <2>2. sight.blank /\ ~Carried(sight) /\ ~sight.shells /\ session # "none"
      BY <2>1 DEF Dead, Blank
    <2>3. carry' = carry /\ ~(large' /\ carry' < CarryMax) /\ lastTurn' = Older(lastTurn, RecoveryWindow)
      BY <1>7, <2>1, <2>2 DEF TurnAge
    <2>4. latch' \in Latches /\ latch' \in {LatchAged, Unlatched} /\ latch'.age = LatchAge /\ (latch'.on => latch.on)
      BY <1>2, <2>1
    <2>5. SrTypeOK'
      BY <1>1, <1>2, <1>3, <1>4, <1>5, <1>8, <2>1, <2>4 DEF SrTypeOK, Latches
    <2>6. NoInjectLoop' /\ kicked' = Older(kicked, InjectExpiry) /\ waits' = IF Awaits(sight) THEN waits + 1 ELSE 0
      BY <1>9, <2>1, <2>2
    <2>7. ClocksRun'
      BY <1>1, <1>2, <2>1, <2>3, <2>4, <2>5, <2>6, ClocksStep
    <2>8. KickLatched'
      BY <2>3, <2>4, <2>6, KickStep
    <2>9. InRestartCooldown => waits' < RestartCooldown
      <3>1. restart' \in Ages(RestartCooldown) /\ waits' \in Nat
        BY <2>5, <2>7 DEF SrTypeOK, ClocksRun
      <3> QED BY <2>1, <2>7, <3>1 DEF ClocksRun, InRestartCooldown, Within, Least, Ages, None
    <2>10. CASE ~Awaits(sight)
      BY <2>4, <2>5, <2>6, <2>7, <2>8, <2>10, NotWaiting DEF SrInv
    <2>11. CASE Awaits(sight) /\ session = "shell"
      <3>1. waits <= CarryMax + Greatest(RestartCooldown, RecoveryWindow) + Least(dead, ChecksRequired)
        BY <1>1, <2>11 DEF ShellMeasured
      <3>2. dead + 1 < ChecksRequired => Least(dead', ChecksRequired) = Least(dead, ChecksRequired) + 1
        BY <1>8, <2>1 DEF Least
      <3>3. /\ Greatest(RestartCooldown, RecoveryWindow) \in Nat /\ RestartCooldown <= Greatest(RestartCooldown, RecoveryWindow)
            /\ Least(dead', ChecksRequired) \in Nat /\ Least(dead, ChecksRequired) \in Nat
        BY <1>8, <2>1 DEF Least, Greatest
      <3>4. waits' = waits + 1 /\ waits' \in Nat
        BY <1>1, <2>6, <2>11
      <3>5. waits' <= CarryMax + Greatest(RestartCooldown, RecoveryWindow) + Least(dead', ChecksRequired)
        <4>1. CASE dead + 1 < ChecksRequired
          BY <1>1, <3>1, <3>2, <3>3, <3>4, <4>1
        <4>2. CASE InRestartCooldown
          BY <2>9, <3>3, <3>4, <4>2
        <4> QED BY <2>1, <2>11, <4>1, <4>2
      <3>6. ShellMeasured' /\ FreshMeasured'
        BY <2>1, <2>3, <2>11, <3>5 DEF ShellMeasured, FreshMeasured
      <3> QED BY <2>4, <2>5, <2>6, <2>7, <2>8, <3>6 DEF SrInv
    <2>12. CASE Awaits(sight) /\ session = "fresh"
      <3>1. dead >= Least(waits, FreshChecks) /\ waits' = waits + 1
        BY <1>1, <2>6, <2>12 DEF FreshMeasured
      <3>2. dead' >= Least(waits', FreshChecks)
        BY <1>1, <1>8, <2>1, <3>1 DEF Least
      <3>3. ~sight.menu /\ ~sight.handoff /\ ~large /\ ~sight.markers
        BY <1>6, <2>12 DEF Awaits, Reads
      <3>4. dead + 1 < FreshChecks => waits' < FreshChecks
        BY <1>1, <1>8, <3>1 DEF Least
      <3>5. Due(sight) /\ Unlatched.on => waits' < InjectExpiry
        <4>1. Unlatched.on => latch.on /\ ~Since(LatchAge, InjectExpiry)
          BY <3>3 DEF Unlatched, LatchAged
        <4>2. Unlatched.on => LatchAge # None /\ LatchAge < InjectExpiry
          BY <1>1, <1>2, <4>1 DEF Since, Ages, None
        <4>3. Due(sight) /\ Unlatched.on => latch'.on /\ latch'.age = LatchAge
          BY <2>1, <2>4
        <4>4. waits' \in Nat /\ (latch'.on => latch'.age >= Least(waits', InjectExpiry))
          BY <2>7 DEF ClocksRun
        <4>5. Due(sight) /\ Unlatched.on => LatchAge < InjectExpiry /\ LatchAge >= Least(waits', InjectExpiry)
          BY <4>2, <4>3, <4>4
        <4>6. LatchAge < InjectExpiry /\ LatchAge >= Least(waits', InjectExpiry) => waits' < InjectExpiry
          BY <1>2, <4>4 DEF Least, Ages, None
        <4> QED BY <4>5, <4>6
      <3>6. dead + 1 < FreshChecks \/ InRestartCooldown \/ (Due(sight) /\ Unlatched.on)
        <4>1. dead + 1 >= FreshChecks => dead + 1 >= ChecksRequired
          BY <1>8
        <4>2. dead + 1 < ChecksRequired => dead + 1 < FreshChecks
          BY <1>8
        <4>3. ~(dead + 1 < FreshChecks) => dead + 1 >= FreshChecks
          BY <1>8
        <4> QED BY <2>1, <2>12, <3>3, <4>1, <4>2, <4>3 DEF Injects, Due
      <3>7. waits' \in Nat /\ (waits' < FreshChecks \/ waits' < RestartCooldown \/ waits' < InjectExpiry)
        BY <1>1, <2>9, <3>1, <3>4, <3>5, <3>6
      <3>8. waits' <= Greatest(Greatest(RestartCooldown, InjectExpiry), FreshChecks)
        BY <3>7 DEF Greatest
      <3>9. ShellMeasured' /\ FreshMeasured'
        BY <2>1, <2>12, <3>2, <3>8 DEF ShellMeasured, FreshMeasured
      <3> QED BY <2>4, <2>5, <2>6, <2>7, <2>8, <3>9 DEF SrInv
    <2> QED BY <2>10, <2>11, <2>12 DEF Awaits
  <1>15. CASE PassSuppressed(sight)
    <2>1. /\ Watch(sight, FALSE) /\ Dead(sight) /\ session = "shell" /\ ~Restarts
          /\ dead' = 0 /\ held' = held + 1 /\ latch' = Unlatched
          /\ restart' = RestartAge /\ carry' = Carry(sight) /\ lastTurn' = TurnAge(sight)
          /\ UNCHANGED <<session, large, pending>>
      BY <1>15 DEF PassSuppressed, Settle, Due
    <2>2. sight.blank /\ ~Carried(sight) /\ ~sight.shells
      BY <2>1 DEF Dead, Blank
    <2>3. carry' = carry /\ ~(large' /\ carry' < CarryMax) /\ lastTurn' = Older(lastTurn, RecoveryWindow)
      BY <1>7, <2>1, <2>2 DEF TurnAge
    <2>4. Within(lastTurn', RecoveryWindow) /\ ~(held >= RecoverySuppressions)
      BY <2>1, <2>3 DEF Restarts, TurnAge
    <2>5. SrTypeOK'
      <3>1. held' \in 0..RecoverySuppressions
        BY <1>1, <2>1, <2>4 DEF SrTypeOK
      <3> QED BY <1>1, <1>2, <1>3, <1>4, <1>5, <1>8, <2>1, <3>1 DEF SrTypeOK, Latches
    <2>6. NoInjectLoop' /\ kicked' = Older(kicked, InjectExpiry) /\ waits' = waits + 1
      BY <1>9, <2>1, <2>2 DEF Awaits
    <2>7. ClocksRun'
      BY <1>1, <1>2, <2>1, <2>3, <2>5, <2>6, ClocksStep
    <2>8. KickLatched'
      BY <2>1, <2>3, <2>6, KickStep
    <2>9. waits' \in Nat /\ waits' < RecoveryWindow
      <3>1. lastTurn' \in Ages(RecoveryWindow) /\ waits' \in Nat
        BY <2>5, <2>7 DEF SrTypeOK, ClocksRun
      <3> QED BY <2>4, <2>7, <3>1 DEF ClocksRun, Within, Least, Ages, None
    <2>10. ShellMeasured' /\ FreshMeasured'
      <3>1. waits' <= CarryMax + Greatest(RestartCooldown, RecoveryWindow) + Least(0, ChecksRequired)
        BY <2>9 DEF Greatest, Least
      <3> QED BY <2>1, <2>3, <3>1 DEF ShellMeasured, FreshMeasured
    <2> QED BY <1>2, <2>1, <2>5, <2>6, <2>7, <2>8, <2>10 DEF SrInv
  <1>16. CASE PassRestarts(sight)
    <2>1. /\ dead' = 0 /\ held' = 0 /\ latch' = Unlatched /\ carry' = Carry(sight) /\ lastTurn' = TurnAge(sight)
          /\ large' = large /\ waits' = 0 /\ kicked' = None /\ UNCHANGED looped
          /\ restart' \in {0, RestartAge} /\ pending' \in {TRUE, pending}
          /\ session' \in {session, "shell", "fresh", "busy", "idle"}
      BY <1>16 DEF PassRestarts
    <2>2. SrTypeOK'
      <3>1. restart' \in Ages(RestartCooldown) /\ 0 \in 0..RecoverySuppressions
        BY <1>3, <2>1
      <3>2. pending' \in BOOLEAN
        BY <1>1, <2>1 DEF SrTypeOK
      <3>3. session' \in {"none", "shell", "fresh", "busy", "idle"}
        BY <1>1, <2>1 DEF SrTypeOK
      <3> QED BY <1>1, <1>2, <1>4, <1>5, <1>8, <2>1, <3>1, <3>2, <3>3 DEF SrTypeOK, Latches
    <2>3. ClocksRun'
      BY <1>1, <1>2, <2>1, <2>2, ClocksStep
    <2>4. KickLatched' /\ NoInjectLoop'
      BY <1>1, <2>1, KickStep DEF NoInjectLoop
    <2> QED BY <1>2, <2>1, <2>2, <2>3, <2>4, NotWaiting DEF SrInv
  <1>17. CASE PassInjects(sight)
    <2>1. /\ Watch(sight, TRUE) /\ Dead(sight) /\ Injects(sight) /\ dead' = 0 /\ restart' = RestartAge
          /\ latch' = [on |-> TRUE, alive |-> FALSE, age |-> 0]
          /\ carry' = Carry(sight) /\ lastTurn' = TurnAge(sight) /\ large' = large
          /\ session' \in {session, "busy"} /\ UNCHANGED <<pending, held>>
      BY <1>17 DEF PassInjects, Due
    <2>2. waits' = 0 /\ kicked' = 0
      BY <2>1 DEF Watch
    <2>3. latch' \in Latches /\ latch'.age # None
      BY <2>1, Fresh DEF Latches, None
    <2>4. SrTypeOK'
      BY <1>1, <1>3, <1>4, <1>5, <1>8, <2>1, <2>3 DEF SrTypeOK, Latches
    <2>5. ClocksRun'
      BY <2>2, <2>3, <2>4, ClocksStep
    <2>6. KickLatched'
      <3>1. sight.blank /\ ~Carried(sight)
        BY <2>1 DEF Dead, Blank
      <3> QED BY <1>7, <2>1, <2>2, <3>1, KickStep
    <2>7. NoInjectLoop'
      <3>1. ~Within(Older(kicked, InjectExpiry), InjectExpiry)
        <4> SUFFICES ASSUME Within(Older(kicked, InjectExpiry), InjectExpiry) PROVE FALSE
          OBVIOUS
        <4>1. kicked # None /\ kicked < InjectExpiry
          BY <1>1 DEF KickLatched, Within, Older, Least, Ages, None
        <4>2. latch.on /\ ~latch.alive /\ LatchAge = Older(kicked, InjectExpiry)
          BY <1>1, <4>1 DEF KickLatched, LatchAge
        <4>3. ~Since(LatchAge, InjectExpiry)
          BY <1>2, <4>2 DEF Within, Since, Ages, None
        <4> QED BY <1>2, <2>1, <4>2, <4>3 DEF Unlatched, Injects
      <3>2. looped' = (looped \/ Within(Older(kicked, InjectExpiry), InjectExpiry))
        BY <2>1 DEF Watch
      <3> QED BY <1>1, <3>1, <3>2 DEF NoInjectLoop
    <2> QED BY <2>2, <2>3, <2>4, <2>5, <2>6, <2>7, NotWaiting DEF SrInv
  <1> QED BY <1>10, <1>11, <1>12, <1>13, <1>14, <1>15, <1>16, <1>17 DEF SrPass

LEMMA SrStepInv == ASSUME SrInv, [SrNext]_srVars PROVE SrInv'
  <1> USE SrConstants
  <1>1. /\ SrTypeOK /\ latch \in Latches /\ KickLatched /\ ClocksRun /\ ShellMeasured /\ FreshMeasured /\ NoInjectLoop
        /\ waits \in Nat /\ (latch.on => latch.age # None)
    BY DEF SrInv, ClocksRun
  <1>2. CASE PassNoSession
    <2>1. /\ latch' = (IF latch.on /\ (latch.alive \/ Since(LatchAge, InjectExpiry))
                       THEN [LatchAged EXCEPT !.on = FALSE, !.alive = FALSE] ELSE LatchAged)
          /\ restart' = RestartAge /\ lastTurn' = Older(lastTurn, RecoveryWindow) /\ waits' = 0 /\ kicked' = None
          /\ UNCHANGED <<session, large, carry, dead, pending, held, looped>>
      BY <1>2 DEF PassNoSession
    <2>2. latch' \in Latches /\ (latch'.on => latch'.age # None)
      <3>1. LatchAged \in Latches /\ LatchAged.on = latch.on /\ LatchAged.age = LatchAge /\ (LatchAge = None <=> latch.age = None)
        BY <1>1, LatchTyped
      <3> QED BY <1>1, <2>1, <3>1 DEF Latches
    <2>3. RestartAge \in Ages(RestartCooldown) /\ Older(lastTurn, RecoveryWindow) \in Ages(RecoveryWindow)
      BY <1>1, TickTyped DEF SrTypeOK, RestartAge
    <2>4. SrTypeOK'
      BY <1>1, <2>1, <2>2, <2>3 DEF SrTypeOK, Latches
    <2>5. ClocksRun' /\ KickLatched'
      BY <2>1, <2>2, <2>4, ClocksStep, KickStep
    <2> QED BY <1>1, <2>1, <2>2, <2>4, <2>5, NotWaiting DEF SrInv, NoInjectLoop
  <1>3. CASE Moves
    <2>1. /\ session' \in {"none", "shell", "fresh", "busy", "idle"}
          /\ kicked' = (IF session' \in {"busy", "idle"} THEN kicked ELSE None) /\ waits' = 0
          /\ \/ UNCHANGED <<latch, dead>>
             \/ session' \in {"fresh", "shell"} /\ dead' = 0 /\ latch' = [latch EXCEPT !.on = FALSE, !.alive = FALSE]
          /\ UNCHANGED <<large, carry, pending, restart, lastTurn, held, looped>>
      <3>1. session' \in {"none", "shell", "fresh", "busy", "idle"}
        BY <1>1, <1>3 DEF Moves, SrTypeOK
      <3> QED BY <1>3, <3>1 DEF Moves
    <2>2. latch' \in Latches /\ (latch'.on => latch'.age # None)
      BY <1>1, <2>1 DEF Latches
    <2>3. dead' \in 0..FreshChecks
      BY <1>1, <2>1 DEF SrTypeOK
    <2>4. SrTypeOK'
      BY <1>1, <2>1, <2>2, <2>3 DEF SrTypeOK, Latches
    <2>5. ClocksRun'
      BY <2>1, <2>2, <2>4, ClocksStep
    <2>6. KickLatched'
      <3>1. CASE kicked' = None
        BY <3>1, KickStep
      <3>2. CASE kicked' = kicked /\ UNCHANGED latch
        BY <1>1, <2>1, <3>2 DEF KickLatched
      <3> QED BY <2>1, <3>1, <3>2
    <2> QED BY <1>1, <2>1, <2>2, <2>4, <2>5, <2>6, NotWaiting DEF SrInv, NoInjectLoop
  <1>4. CASE OtherSuppression
    <2>1. /\ held' \in {0, Least(held + 1, RecoverySuppressions)}
          /\ UNCHANGED <<session, large, carry, dead, pending, latch, restart, lastTurn, kicked, looped, waits>>
      BY <1>4 DEF OtherSuppression
    <2>2. held' \in 0..RecoverySuppressions
      BY <1>1, <2>1 DEF SrTypeOK, Least
    <2> QED BY <1>1, <2>1, <2>2
         DEF SrInv, SrTypeOK, NoInjectLoop, KickLatched, ClocksRun, ShellMeasured, FreshMeasured
  <1>5. CASE UNCHANGED srVars
    BY <1>1, <1>5 DEF srVars, SrInv, SrTypeOK, NoInjectLoop, KickLatched, ClocksRun, ShellMeasured, FreshMeasured
  <1> QED BY <1>2, <1>3, <1>4, <1>5, SrPassInv DEF SrNext

SrGood == SrTypeOK /\ NoInjectLoop /\ RecoveredInTime

(* A fresh session is told once while it starts, and no shell prompt and no   *)
(* fresh session waits longer than its clocks run, whatever an earlier session *)
(* left of them: for any counts, cooldowns and windows.                       *)
LEMMA SrAlways == SrSpec => []SrGood
  <1>1. SrInv => SrGood
    <2> SUFFICES ASSUME SrInv PROVE SrGood
      OBVIOUS
    <2>1. SrTypeOK /\ NoInjectLoop /\ waits \in Nat /\ dead \in Nat
      BY DEF SrInv, ClocksRun, SrTypeOK
    <2>2. session = "shell" => waits <= CarryMax + Greatest(RestartCooldown, RecoveryWindow) + ChecksRequired
      <3>1. Least(dead, ChecksRequired) <= ChecksRequired /\ Greatest(RestartCooldown, RecoveryWindow) \in Nat
            /\ Least(dead, ChecksRequired) \in Nat
        BY <2>1, SrConstants DEF Least, Greatest
      <3>2. session = "shell" => waits <= CarryMax + Greatest(RestartCooldown, RecoveryWindow) + Least(dead, ChecksRequired)
        BY DEF SrInv, ShellMeasured
      <3> QED BY <2>1, <3>1, <3>2, SrConstants
    <2> QED BY <2>1, <2>2 DEF SrInv, FreshMeasured, RecoveredInTime, SrGood
  <1>2. SrInv /\ [SrNext]_srVars => SrInv'
    BY SrStepInv
  <1> QED BY SrInitInv, <1>1, <1>2, PTL DEF SrSpec

-----------------------------------------------------------------------------
(* Thinking. *)
Thinks == [start : Ages(MaxBackoff), grown : None..(MinDelta - 1), count : 0..2, armed : Ages(ThinkDwell)]
\* The timer of the turn never runs ahead of its silence.
TimerHonest == silent \in 0..MaxBackoff /\ (think.start # None => think.start <= silent)
\* What is left of the timer and of the obligation accounts for every pass.
StallMeasured ==
    /\ untouched \in Nat
    /\ think.start = None => untouched = 0
    /\ (think.start # None /\ think.start < MaxBackoff) => untouched <= think.start + 1
    /\ think.armed = None => untouched <= MaxBackoff
    /\ think.armed # None /\ think.armed < ThinkDwell => untouched <= MaxBackoff + 1 + think.armed
    /\ untouched <= MaxBackoff + ThinkDwell
\* An ack that would restart the timer restarts the count as well.
AckMeasured ==
    /\ ack \in Ages(AckFresh)
    /\ untouched > 0 => ack = 0 \/ ack = None \/ ack >= AckFresh
GlobeSound == globe \in Gates(ThinkCooldown) /\ Unstreaked(globe)
ThInv ==
    /\ think \in Thinks /\ ThTypeOK /\ GlobeSound
    /\ TimerHonest /\ StallMeasured /\ AckMeasured /\ OnlySilentTurns

LEMMA ThConstants ==
    /\ ThinkThreshold \in Nat /\ ThinkThreshold > 0 /\ MinDelta \in Nat /\ MinDelta > 0
    /\ RetryMax \in Nat /\ RetryMax + 1 \in Nat /\ Multiplier \in Nat /\ MaxBackoff \in Nat /\ AckFresh \in Nat
    /\ ThinkDwell \in Nat /\ ThinkCooldown \in Nat /\ 2 * ThinkCooldown \in Nat /\ RetryThreshold \in Nat
  BY ThinkAssumption

LEMMA Widens == ASSUME NEW a \in Nat, NEW m \in Nat PROVE a * m \in Nat /\ (m > 0 => a * m >= a)
  OBVIOUS

(* The backoff of any number of interrupts is a time up to the largest, and no *)
(* shorter than the threshold.                                                 *)
LEMMA BackoffTyped ==
    ASSUME NEW count \in 0..2
    PROVE  /\ Backoff(count) \in Nat /\ Backoff(count) <= MaxBackoff
           /\ Multiplier > 0 /\ ThinkThreshold <= MaxBackoff => Backoff(count) >= ThinkThreshold
  <1> USE ThConstants
  <1> DEFINE Widen(a) == Least(a * Multiplier, MaxBackoff)
             W == CHOOSE f : f = [n \in 0..count |-> IF n = 0 THEN ThinkThreshold
                                                     ELSE Least(f[n - 1] * Multiplier, MaxBackoff)]
             w == [n \in 0..count |-> IF n = 0 THEN ThinkThreshold
                                      ELSE IF n = 1 THEN Widen(ThinkThreshold) ELSE Widen(Widen(ThinkThreshold))]
  <1>1. Backoff(count) = Least(W[count], MaxBackoff)
    BY DEF Backoff
  <1>2. w = [n \in 0..count |-> IF n = 0 THEN ThinkThreshold ELSE Widen(w[n - 1])]
    <2> HIDE DEF Widen
    <2> QED OBVIOUS
  <1>3. W = [n \in 0..count |-> IF n = 0 THEN ThinkThreshold ELSE Widen(W[n - 1])]
    <2> HIDE DEF w
    <2> QED BY <1>2
  <1>4. ASSUME NEW a \in Nat
        PROVE  /\ Widen(a) \in Nat
               /\ Multiplier > 0 /\ ThinkThreshold <= MaxBackoff /\ a >= ThinkThreshold => Widen(a) >= ThinkThreshold
    <2>1. a * Multiplier \in Nat /\ (Multiplier > 0 => a * Multiplier >= a)
      BY Widens
    <2> DEFINE b == a * Multiplier
    <2> HIDE DEF b
    <2>2. b \in Nat /\ (Multiplier > 0 => b >= a) /\ Widen(a) = Least(b, MaxBackoff)
      BY <2>1 DEF b
    <2> HIDE DEF Widen
    <2> QED BY <2>2 DEF Least
  <1> HIDE DEF W, Widen
  <1>5. W[0] = ThinkThreshold /\ (count > 0 => W[1] = Widen(W[0])) /\ (count > 1 => W[2] = Widen(W[1]))
    BY <1>3
  <1>6. /\ W[count] \in Nat
        /\ Multiplier > 0 /\ ThinkThreshold <= MaxBackoff => W[count] >= ThinkThreshold
    <2>1. CASE count = 0
      BY <1>5, <2>1
    <2>2. CASE count = 1
      BY <1>4, <1>5, <2>2
    <2>3. CASE count = 2
      BY <1>4, <1>5, <2>3
    <2> QED BY <2>1, <2>2, <2>3
  <1> QED BY <1>1, <1>6 DEF Least

LEMMA ThInitInv == ThInit => ThInv
  <1> SUFFICES ASSUME ThInit PROVE ThInv
    OBVIOUS
  <1>1. /\ None \in Ages(MaxBackoff) /\ None \in None..(MinDelta - 1) /\ 0 \in 0..2 /\ None \in Ages(ThinkDwell)
        /\ 0 \in 0..RetryThreshold /\ None \in Ages(RetryMax + 1) /\ None \in Ages(ThinkThreshold)
        /\ 0 \in Ages(2 * ThinkCooldown) /\ 0 \in 0..1 /\ 0 # None /\ None \in Ages(AckFresh) /\ 0 \in 0..MaxBackoff
        /\ 0 \in Nat /\ 0 <= MaxBackoff /\ 0 <= MaxBackoff + ThinkDwell
    BY ThConstants, Fresh DEF None
  <1>2. think \in Thinks
    BY <1>1 DEF ThInit, NotThinking, Thinks
  <1>3. globe \in Gates(ThinkCooldown) /\ Unstreaked(globe) /\ globe \in [last : Ages(2 * ThinkCooldown), streak : 0..2]
    BY <1>1 DEF ThInit, Gates, Unstreaked
  <1>4. retry \in [count : 0..RetryThreshold, first : Ages(RetryMax + 1)] /\ foreground \in [start : Ages(ThinkThreshold), alerted : BOOLEAN]
    BY <1>1 DEF ThInit, NoRetry, NotBlocked
  <1> QED BY <1>1, <1>2, <1>3, <1>4
       DEF ThInit, NotThinking, Thinks, ThInv, ThTypeOK, GlobeSound, TimerHonest, StallMeasured, AckMeasured, OnlySilentTurns

(* The progress of the turn in a pass: the timer goes on, or starts anew with *)
(* a count that moved.                                                        *)
LEMMA ProgressTyped ==
    ASSUME think \in Thinks, NEW view \in Views
    PROVE  LET t == Progressed(view)
           IN  /\ t \in Thinks /\ t.count = think.count /\ t.armed = Older(think.armed, ThinkDwell)
               /\ think.start # None =>
                    \/ t.start = Older(think.start, MaxBackoff) /\ ~(think.grown # None /\ view.tokens \in {Dropped, MinDelta})
                    \/ t.start = 0 /\ view.tokens # 0
  <1> DEFINE t0 == [think EXCEPT !.start = Older(@, MaxBackoff), !.armed = Older(@, ThinkDwell)]
             t == Progressed(view)
  <1>1. /\ think.start \in Ages(MaxBackoff) /\ think.grown \in None..(MinDelta - 1)
        /\ think.count \in 0..2 /\ think.armed \in Ages(ThinkDwell)
    BY DEF Thinks
  <1>2. Older(think.start, MaxBackoff) \in Ages(MaxBackoff) /\ Older(think.armed, ThinkDwell) \in Ages(ThinkDwell)
    BY <1>1, ThConstants, TickTyped
  <1>3. /\ t0 \in Thinks /\ t0.start = Older(think.start, MaxBackoff) /\ t0.grown = think.grown
        /\ t0.count = think.count /\ t0.armed = Older(think.armed, ThinkDwell)
    BY <1>1, <1>2 DEF Thinks
  <1>4. view.tokens \in Unread..MinDelta
    BY DEF Views
  <1>5. t = IF view.tokens = Unread THEN t0
            ELSE IF t0.grown = None THEN [t0 EXCEPT !.grown = 0]
            ELSE IF view.tokens = Dropped \/ t0.grown + view.tokens >= MinDelta THEN [t0 EXCEPT !.start = 0, !.grown = 0]
            ELSE [t0 EXCEPT !.grown = @ + view.tokens]
    BY DEF Progressed
  <1>6. 0 \in Ages(MaxBackoff) /\ 0 \in None..(MinDelta - 1)
    BY ThConstants, Fresh DEF None
  <1> HIDE DEF t0, t
  <1>7. CASE view.tokens = Unread
    <2>1. ~(view.tokens \in {Dropped, MinDelta})
      BY <1>7, ThConstants DEF Unread, Dropped
    <2> QED BY <1>3, <1>5, <1>7, <2>1 DEF t
  <1>8. CASE view.tokens # Unread /\ t0.grown = None
    <2>1. t = [t0 EXCEPT !.grown = 0]
      BY <1>5, <1>8
    <2> QED BY <1>3, <1>6, <1>8, <2>1 DEF t, Thinks
  <1>9. CASE view.tokens # Unread /\ t0.grown # None /\ (view.tokens = Dropped \/ t0.grown + view.tokens >= MinDelta)
    <2>1. t = [t0 EXCEPT !.start = 0, !.grown = 0]
      BY <1>5, <1>9
    <2>2. view.tokens # 0
      BY <1>1, <1>3, <1>9, ThConstants DEF Dropped, None
    <2> QED BY <1>3, <1>6, <2>1, <2>2 DEF t, Thinks
  <1>10. CASE view.tokens # Unread /\ t0.grown # None /\ ~(view.tokens = Dropped \/ t0.grown + view.tokens >= MinDelta)
    <2>1. t = [t0 EXCEPT !.grown = @ + view.tokens]
      BY <1>5, <1>10
    <2>2. t0.grown + view.tokens \in None..(MinDelta - 1) /\ view.tokens # MinDelta
      BY <1>1, <1>3, <1>4, <1>10, ThConstants DEF Dropped, Unread, None
    <2> QED BY <1>3, <1>10, <2>1, <2>2 DEF t, Thinks
  <1> QED BY <1>7, <1>8, <1>9, <1>10

(* What every pass does to the history. *)
LEMMA ThinkSeen ==
    ASSUME ThInv, NEW view \in Views, NEW thought \in BOOLEAN, NEW reached \in BOOLEAN,
           SilenceSeen(view, thought, reached), thought => ~Grows(view) /\ silent + 1 >= ThinkThreshold
    PROVE  /\ silent' \in 0..MaxBackoff
           /\ silent' = IF Grows(view) THEN 0 ELSE Least(silent + 1, MaxBackoff)
           /\ untouched' \in Nat
           /\ untouched' = 0 \/ untouched' = untouched
                \/ (untouched' = untouched + 1 /\ ~view.agents /\ ~AckedLately /\ Claimed /\ ~view.workload)
           /\ (thought \/ ShowsLife(view) \/ view.tokens # 0) => untouched' = 0
           /\ AckMeasured' /\ OnlySilentTurns'
           /\ retry' \in [count : 0..RetryThreshold, first : Ages(RetryMax + 1)]
  <1> USE ThConstants
  <1>1. silent \in 0..MaxBackoff /\ untouched \in Nat /\ ack \in Ages(AckFresh)
    BY DEF ThInv, TimerHonest, StallMeasured, AckMeasured
  <1>2. /\ silent' \in 0..MaxBackoff
        /\ silent' = IF Grows(view) THEN 0 ELSE Least(silent + 1, MaxBackoff)
    <2>1. silent' = Least(IF Grows(view) THEN 0 ELSE silent + 1, MaxBackoff)
      BY DEF SilenceSeen
    <2> QED BY <1>1, <2>1 DEF Least
  <1>3. untouched' = IF thought \/ ShowsLife(view) \/ view.tokens # 0 THEN 0
                     ELSE IF view.agents \/ AckedLately \/ ~Claimed THEN untouched ELSE untouched + 1
    BY DEF SilenceSeen
  <1>4. AckAge \in Ages(AckFresh) /\ ack' = AckAge
    BY <1>1, TickTyped DEF AckAge, SilenceSeen
  <1>5. AckMeasured'
    <2>1. CASE untouched' = untouched + 1
      <3>1. ~AckedLately
        BY <1>1, <1>3, <2>1
      <3> QED BY <1>4, <3>1 DEF AckMeasured, AckedLately, Within, Ages, None
    <2>2. CASE untouched' = untouched /\ ack # 0
      <3>1. untouched > 0 => ack = None \/ ack >= AckFresh
        BY <2>2 DEF ThInv, AckMeasured
      <3>2. untouched > 0 => AckAge = None \/ AckAge >= AckFresh
        BY <1>1, <3>1 DEF AckAge, Older, Least, Ages, None
      <3> QED BY <1>4, <2>2, <3>2 DEF AckMeasured
    <2>3. CASE untouched' = 0
      BY <1>4, <2>3 DEF AckMeasured
    <2>4. ack = 0 => untouched' = 0
      BY <1>3 DEF ShowsLife
    <2> QED BY <1>3, <2>1, <2>2, <2>3, <2>4
  <1>6. OnlySilentTurns'
    <2>1. rash'.turn = (rash.turn \/ (thought /\ (IF Grows(view) THEN 0 ELSE silent + 1) < ThinkThreshold))
      BY DEF SilenceSeen
    <2>2. ~(thought /\ (IF Grows(view) THEN 0 ELSE silent + 1) < ThinkThreshold)
      BY <1>1
    <2> QED BY <2>1, <2>2 DEF ThInv, OnlySilentTurns
  <1>7. retry' \in [count : 0..RetryThreshold, first : Ages(RetryMax + 1)]
    <2>1. retry \in [count : 0..RetryThreshold, first : Ages(RetryMax + 1)]
      BY DEF ThInv, ThTypeOK
    <2>2. /\ Least(retry.count + 1, RetryThreshold) \in 0..RetryThreshold /\ 0 \in 0..RetryThreshold
          /\ Older(retry.first, RetryMax + 1) \in Ages(RetryMax + 1) /\ 0 \in Ages(RetryMax + 1) /\ None \in Ages(RetryMax + 1)
      <3>1. retry.first \in Ages(RetryMax + 1) /\ retry.count \in 0..RetryThreshold
        BY <2>1
      <3>2. Least(retry.count + 1, RetryThreshold) \in 0..RetryThreshold
        BY <3>1 DEF Least
      <3> QED BY <3>1, <3>2, TickTyped, Fresh
    <2>3. retry' = RetryNow(view)
      BY DEF SilenceSeen
    <2> QED BY <2>2, <2>3 DEF RetryNow, NoRetry
  <1>8. ShowsLife(view) \/ ~view.workload
    BY DEF ShowsLife
  <1>9. /\ untouched' = 0 \/ untouched' = untouched
             \/ (untouched' = untouched + 1 /\ ~view.agents /\ ~AckedLately /\ Claimed /\ ~view.workload)
        /\ (thought \/ ShowsLife(view) \/ view.tokens # 0) => untouched' = 0
    <2>1. CASE thought \/ ShowsLife(view) \/ view.tokens # 0
      <3>1. untouched' = 0
        BY <1>3, <2>1
      <3> QED BY <3>1
    <2>2. CASE ~(thought \/ ShowsLife(view) \/ view.tokens # 0) /\ (view.agents \/ AckedLately \/ ~Claimed)
      <3>1. untouched' = untouched
        BY <1>3, <2>2
      <3> QED BY <2>2, <3>1
    <2>3. CASE ~(thought \/ ShowsLife(view) \/ view.tokens # 0) /\ ~(view.agents \/ AckedLately \/ ~Claimed)
      <3>1. untouched' = untouched + 1
        BY <1>3, <2>3
      <3> QED BY <1>8, <2>3, <3>1
    <2> QED BY <2>1, <2>2, <2>3
  <1>10. untouched' \in Nat
    BY <1>1, <1>9
  <1> QED BY <1>2, <1>5, <1>6, <1>7, <1>9, <1>10

LEMMA ForegroundTyped ==
    ASSUME ThTypeOK, NEW view \in Views, Foreground(view) \/ UNCHANGED foreground \/ foreground' = NotBlocked
    PROVE  foreground' \in [start : Ages(ThinkThreshold), alerted : BOOLEAN]
  <1> DEFINE Fs == [start : Ages(ThinkThreshold), alerted : BOOLEAN]
  <1>1. foreground \in Fs
    BY DEF ThTypeOK
  <1>2. BlockAge \in Ages(ThinkThreshold) /\ None \in Ages(ThinkThreshold) /\ 0 \in Ages(ThinkThreshold)
    BY <1>1, ThConstants, TickTyped, Fresh DEF BlockAge
  <1>3. NotBlocked \in Fs /\ [NotBlocked EXCEPT !.start = 0] \in Fs
    BY <1>2 DEF NotBlocked
  <1>4. ForegroundDue(view) \in BOOLEAN
    BY DEF ForegroundDue, Since, Views
  <1>5. [start |-> BlockAge, alerted |-> foreground.alerted \/ ForegroundDue(view)] \in Fs
    BY <1>1, <1>2, <1>4
  <1>6. foreground' \in {NotBlocked, foreground, [NotBlocked EXCEPT !.start = 0],
                         [start |-> BlockAge, alerted |-> foreground.alerted \/ ForegroundDue(view)]}
    BY DEF Foreground
  <1> QED BY <1>1, <1>3, <1>5, <1>6

LEMMA GlobeTyped ==
    ASSUME ThInv, globe' = GlobeNow \/ globe' = GlobeClaimed
    PROVE  GlobeSound' /\ globe' \in [last : Ages(2 * ThinkCooldown), streak : 0..2]
  <1>1. GlobeNow \in Gates(ThinkCooldown) /\ Unstreaked(GlobeNow)
    BY ThConstants, GateTyped DEF ThInv, GlobeSound, GlobeNow
  <1>2. GlobeClaimed \in Gates(ThinkCooldown) /\ Unstreaked(GlobeClaimed)
    BY <1>1, ThConstants, GateTyped DEF GlobeClaimed
  <1>3. GlobeSound'
    BY <1>1, <1>2 DEF GlobeSound
  <1>4. ASSUME NEW g \in Gates(ThinkCooldown) PROVE g \in [last : Ages(2 * ThinkCooldown), streak : 0..2]
    <2>1. g.streak \in 0..2 /\ g.last \in Ages(2 * ThinkCooldown) /\ g = [last |-> g.last, streak |-> g.streak]
      BY DEF Gates
    <2> QED BY <2>1
  <1> QED BY <1>3, <1>4 DEF GlobeSound

(* The measure of the stall after a pass that types nothing: the timer went   *)
(* on or the count of the passes started anew with it.                        *)
LEMMA StallStep ==
    ASSUME ThInv, think' \in Thinks, untouched' \in Nat,
           untouched' \in {0, untouched, untouched + 1},
           think'.start = None => untouched' = 0,
           think'.start = 0 => untouched' <= 1,
           think'.start # None /\ think'.start # 0 /\ untouched' > 0 =>
               think.start # None /\ think'.start = Older(think.start, MaxBackoff),
           \/ think'.armed = Older(think.armed, ThinkDwell)
           \/ think.armed = None /\ ThinkDwell > 0 /\ think'.armed = 0
           \/ untouched' = 0,
           untouched' = untouched + 1 =>
               \/ think'.start # None /\ think'.start < MaxBackoff
               \/ think'.armed # None /\ think'.armed < ThinkDwell
    PROVE  StallMeasured'
  <1> USE ThConstants
  <1> DEFINE s == think.start
             t == think'.start
             a == think.armed
             b == think'.armed
  <1>1. /\ s \in Ages(MaxBackoff) /\ t \in Ages(MaxBackoff) /\ a \in Ages(ThinkDwell) /\ b \in Ages(ThinkDwell)
    BY DEF ThInv, Thinks
  <1>2. /\ untouched \in Nat /\ (s = None => untouched = 0)
        /\ s # None /\ s < MaxBackoff => untouched <= s + 1
        /\ a = None => untouched <= MaxBackoff
        /\ a # None /\ a < ThinkDwell => untouched <= MaxBackoff + 1 + a
        /\ untouched <= MaxBackoff + ThinkDwell
    BY DEF ThInv, StallMeasured
  <1>3. /\ t = None => untouched' = 0
        /\ t = 0 => untouched' <= 1
        /\ t # None /\ t # 0 /\ untouched' > 0 => s # None /\ t = Older(s, MaxBackoff)
        /\ b = Older(a, ThinkDwell) \/ (a = None /\ ThinkDwell > 0 /\ b = 0) \/ untouched' = 0
        /\ untouched' = untouched + 1 => (t # None /\ t < MaxBackoff) \/ (b # None /\ b < ThinkDwell)
    OBVIOUS
  <1> HIDE DEF s, t, a, b
  <1>4. t # None /\ t < MaxBackoff => untouched' <= t + 1
    BY <1>1, <1>2, <1>3 DEF Older, Least, Ages, None
  <1>5. b = None => untouched' <= MaxBackoff
    <2>1. b = None => a = None \/ untouched' = 0
      BY <1>1, <1>3 DEF Older, Least, Ages, None
    <2> QED BY <1>1, <1>2, <1>3, <1>4, <2>1 DEF Ages, None
  <1>6. b # None /\ b < ThinkDwell => untouched' <= MaxBackoff + 1 + b
    BY <1>1, <1>2, <1>3 DEF Older, Least, Ages, None
  <1>7. untouched' <= MaxBackoff + ThinkDwell
    BY <1>1, <1>2, <1>3, <1>4, <1>5, <1>6 DEF Ages, None
  <1> QED BY <1>3, <1>4, <1>5, <1>6, <1>7 DEF StallMeasured, s, t, a, b

LEMMA ThPassInv ==
    ASSUME ThInv, Multiplier > 0, ThinkThreshold <= MaxBackoff, NEW view \in Views, InView(view), ThPass(view)
    PROVE  ThInv'
  <1> USE ThConstants
  <1> DEFINE t == Progressed(view)
             start == Older(think.start, MaxBackoff)
             armed == Older(think.armed, ThinkDwell)
  <1>0. /\ think \in Thinks /\ ThTypeOK /\ silent \in 0..MaxBackoff /\ (think.start # None => think.start <= silent)
        /\ untouched \in Nat /\ (think.start = None => untouched = 0)
    BY DEF ThInv, TimerHonest, StallMeasured
  <1>1. /\ t \in Thinks /\ t.count = think.count /\ t.armed = armed
        /\ think.start # None =>
             \/ (t.start = start /\ ~(think.grown # None /\ view.tokens \in {Dropped, MinDelta}))
             \/ (t.start = 0 /\ view.tokens # 0)
    BY <1>0, ProgressTyped
  <1>2. /\ start \in Ages(MaxBackoff) /\ armed \in Ages(ThinkDwell) /\ (think.start = None <=> start = None)
        /\ (think.armed = None <=> armed = None)
        /\ think.start # None => start <= Least(silent + 1, MaxBackoff) /\ start <= silent + 1
    <2>1. think.start \in Ages(MaxBackoff) /\ think.armed \in Ages(ThinkDwell)
      BY <1>0 DEF Thinks
    <2>2. /\ start \in Ages(MaxBackoff) /\ armed \in Ages(ThinkDwell) /\ (think.start = None <=> start = None)
          /\ (think.armed = None <=> armed = None)
      BY <2>1, TickTyped
    <2>3. think.start # None => start <= Least(silent + 1, MaxBackoff) /\ start <= silent + 1
      BY <1>0, <2>1 DEF Older, Least, Ages, None
    <2> QED BY <2>2, <2>3
  <1>3. Baseline(view) \in None..(MinDelta - 1) /\ 0 \in Ages(MaxBackoff) /\ 0 \in Ages(ThinkDwell)
        /\ None \in Ages(MaxBackoff) /\ None \in None..(MinDelta - 1) /\ None \in Ages(ThinkDwell) /\ 0 # None /\ 0 \in 0..2
    BY Fresh DEF Baseline, None
  <1>4. Backoff(t.count) \in Nat /\ Backoff(t.count) <= MaxBackoff /\ Backoff(t.count) >= ThinkThreshold
    BY <1>0, <1>1, BackoffTyped DEF Thinks
  <1>5. Grows(view) => ShowsLife(view)
    BY DEF ShowsLife
  <1>6. view.thinking /\ ~Retrying(view) /\ Grows(view) => think.grown # None /\ view.tokens \in {Dropped, MinDelta}
    BY DEF Grows
  <1>7. ~view.thinking \/ Retrying(view) => Grows(view)
    BY DEF Grows
  <1> HIDE DEF t, start, armed
  \* What a pass without a prompt is worth, whichever it is.
  <1>8. ASSUME NEW reached \in BOOLEAN, SilenceSeen(view, FALSE, reached), think' \in Thinks,
               think'.start # None => \/ think'.start = 0
                                      \/ think'.start = start /\ think.start # None /\ ~Grows(view),
               think'.start = None => ShowsLife(view),
               think'.start = 0 => untouched' <= 1,
               \/ think'.armed = armed
               \/ think.armed = None /\ ThinkDwell > 0 /\ think'.armed = 0
               \/ untouched' = 0,
               untouched' = untouched + 1 =>
                   \/ think'.start # None /\ think'.start < MaxBackoff
                   \/ think'.armed # None /\ think'.armed < ThinkDwell,
               globe' = GlobeNow \/ globe' = GlobeClaimed,
               Foreground(view) \/ UNCHANGED foreground \/ foreground' = NotBlocked
        PROVE  ThInv'
    <2>1. /\ silent' \in 0..MaxBackoff
          /\ silent' = IF Grows(view) THEN 0 ELSE Least(silent + 1, MaxBackoff)
          /\ untouched' \in Nat
          /\ untouched' = 0 \/ untouched' = untouched \/ untouched' = untouched + 1
          /\ ShowsLife(view) => untouched' = 0
          /\ AckMeasured' /\ OnlySilentTurns'
          /\ retry' \in [count : 0..RetryThreshold, first : Ages(RetryMax + 1)]
      BY <1>8, ThinkSeen
    <2>2. GlobeSound' /\ globe' \in [last : Ages(2 * ThinkCooldown), streak : 0..2]
      BY <1>8, GlobeTyped
    <2>3. foreground' \in [start : Ages(ThinkThreshold), alerted : BOOLEAN]
      BY <1>0, <1>8, ForegroundTyped
    <2>4. StallMeasured'
      BY <1>0, <1>8, <2>1, StallStep DEF start, armed
    <2>5. TimerHonest'
      <3>1. think'.start # None => think'.start <= silent'
        BY <1>2, <1>8, <2>1
      <3> QED BY <2>1, <3>1 DEF TimerHonest
    <2> QED BY <1>8, <2>1, <2>2, <2>3, <2>4, <2>5 DEF ThInv, ThTypeOK, Thinks
  <1>. DEFINE Nothing == untouched' <= 1 /\ ~(untouched' = untouched + 1)
  <1>a. untouched' = 0 => Nothing
    BY <1>0
  <1> HIDE DEF Nothing
  <1>9. CASE PassRetry(view)
    <2>1. think' = [think EXCEPT !.start = None, !.grown = None, !.armed = armed]
      BY <1>9 DEF PassRetry, armed
    <2>2. think' \in Thinks /\ think'.start = None /\ think'.armed = armed
      BY <1>0, <1>2, <1>3, <2>1 DEF Thinks
    <2>3. Grows(view) /\ ShowsLife(view)
      BY <1>5, <1>7, <1>9 DEF PassRetry
    <2>4. SilenceSeen(view, FALSE, FALSE) /\ globe' = GlobeNow /\ foreground' = NotBlocked
      BY <1>9 DEF PassRetry
    <2>5. untouched' = 0
      BY <2>3, <2>4 DEF SilenceSeen
    <2> QED BY <1>3, <1>8, <1>a, <2>2, <2>3, <2>4, <2>5 DEF Nothing
  <1>10. CASE PassIdle(view)
    <2>1. think' = NotThinking
      BY <1>10 DEF PassIdle
    <2>2. think' \in Thinks /\ think'.start = None /\ think'.armed = None
      BY <1>3, <2>1 DEF Thinks, NotThinking
    <2>3. ShowsLife(view)
      BY <1>5, <1>7, <1>10 DEF PassIdle
    <2>4. SilenceSeen(view, FALSE, TRUE) /\ globe' = GlobeNow /\ Foreground(view)
      BY <1>10 DEF PassIdle
    <2>5. untouched' = 0
      BY <2>3, <2>4 DEF SilenceSeen
    <2> QED BY <1>3, <1>8, <1>a, <2>2, <2>3, <2>4, <2>5 DEF Nothing
  <1>11. CASE PassThinks(view)
    <2>1. SilenceSeen(view, FALSE, TRUE) /\ globe' = GlobeNow /\ Foreground(view) /\ view.thinking /\ ~Retrying(view)
      BY <1>11 DEF PassThinks
    <2>2. CASE think.start = None
      <3>1. think' = [think EXCEPT !.start = 0, !.grown = Baseline(view), !.armed = armed]
        BY <1>11, <2>2 DEF PassThinks, armed
      <3>2. think' \in Thinks /\ think'.start = 0 /\ think'.armed = armed
        BY <1>0, <1>2, <1>3, <3>1 DEF Thinks
      <3>3. untouched' <= 1
        <4>1. untouched' = 0 \/ untouched' = untouched \/ untouched' = untouched + 1
          BY <2>1, ThinkSeen
        <4> QED BY <1>0, <2>2, <4>1
      <3>4. untouched' = untouched + 1 => think'.start # None /\ think'.start < MaxBackoff
        BY <1>3, <1>4, <3>2
      <3> QED BY <1>3, <1>8, <2>1, <3>2, <3>3, <3>4
    <2>3. CASE think.start # None /\ ~Expired(t)
      <3>1. think' = t
        BY <1>11, <2>3 DEF PassThinks, t
      <3>2. think' \in Thinks /\ think'.armed = armed
        BY <1>1, <3>1 DEF armed
      <3>3. think'.start = 0 \/ (think'.start = start /\ think.start # None /\ ~Grows(view))
        BY <1>1, <1>6, <2>1, <2>3, <3>1 DEF start
      <3>4. think'.start = start \/ (think'.start = 0 /\ view.tokens # 0)
        BY <1>1, <2>3, <3>1 DEF start
      <3>5. think'.start # None /\ think'.start < MaxBackoff
        <4>1. t.start # None /\ t.start \in Ages(MaxBackoff)
          BY <1>1, <1>2, <1>3, <2>3 DEF Thinks, start
        <4>2. ~(t.start >= Backoff(t.count))
          BY <2>3, <4>1 DEF Expired
        <4> QED BY <1>4, <3>1, <4>1, <4>2 DEF Ages, None
      <3>6. think'.start = 0 => untouched' <= 1
        <4>1. view.tokens # 0 => untouched' = 0
          BY <2>1, ThinkSeen
        <4>2. start # 0
          <5>1. think.start \in Ages(MaxBackoff) /\ think.start # None
            BY <1>0, <2>3 DEF Thinks
          <5>2. MaxBackoff > 0
            BY <3>5, <3>2 DEF Thinks, Ages, None
          <5> QED BY <5>1, <5>2 DEF start, Older, Least, Ages, None
        <4> QED BY <3>4, <4>1, <4>2
      <3> QED BY <1>8, <2>1, <3>2, <3>3, <3>5, <3>6
    <2> QED BY <1>11, <2>2, <2>3 DEF PassThinks, t
  <1>12. CASE PassExcused(view)
    <2>1. /\ SilenceSeen(view, FALSE, FALSE) /\ globe' = GlobeNow /\ UNCHANGED foreground
          /\ view.thinking /\ ~Retrying(view) /\ think.start # None
      BY <1>12 DEF PassExcused
    <2>2. /\ untouched' \in {0, untouched} /\ (ShowsLife(view) => untouched' = 0)
          /\ view.tokens # 0 => untouched' = 0
      <3>1. view.workload => ShowsLife(view)
        BY DEF ShowsLife
      <3> QED BY <1>12, <2>1, <3>1, ThinkSeen DEF PassExcused
    <2>3. CASE view.workload
      <3>1. think' = t /\ ShowsLife(view)
        BY <1>12, <2>3 DEF PassExcused, t, ShowsLife
      <3>2. think' \in Thinks /\ think'.armed = armed
        BY <1>1, <3>1 DEF armed
      <3>3. think'.start = 0 \/ (think'.start = start /\ think.start # None /\ ~Grows(view))
        BY <1>1, <1>6, <2>1, <3>1 DEF start
      <3>4. untouched' = 0
        BY <2>2, <3>1
      <3> QED BY <1>8, <1>a, <2>1, <3>1, <3>2, <3>3, <3>4 DEF Nothing
    <2>4. CASE ~view.workload
      <3>1. think' = [t EXCEPT !.start = 0, !.grown = Baseline(view)] /\ AckedLately
        BY <1>12, <2>4 DEF PassExcused, t
      <3>2. think' \in Thinks /\ think'.armed = armed /\ think'.start = 0
        BY <1>1, <1>3, <3>1 DEF armed, Thinks
      <3>3. untouched' = 0
        <4>1. ack = 0 => ShowsLife(view)
          BY DEF ShowsLife
        <4>2. untouched > 0 => ack = 0
          <5>1. ack \in Ages(AckFresh) /\ (untouched > 0 => ack = 0 \/ ack = None \/ ack >= AckFresh)
            BY DEF ThInv, AckMeasured
          <5>2. AckAge # None /\ AckAge < AckFresh
            BY <3>1 DEF AckedLately, Within
          <5> QED BY <5>1, <5>2 DEF AckAge, Older, Least, Ages, None
        <4> QED BY <1>0, <2>2, <4>1, <4>2
      <3> QED BY <1>3, <1>8, <1>a, <2>1, <3>2, <3>3 DEF Nothing
    <2> QED BY <2>3, <2>4
  <1>13. CASE PassArms(view)
    <2>1. /\ SilenceSeen(view, FALSE, FALSE) /\ (globe' = GlobeNow \/ globe' = GlobeClaimed) /\ UNCHANGED foreground
          /\ view.thinking /\ ~Retrying(view) /\ think.start # None /\ Stalled(view) /\ ~Interrupts(view)
      BY <1>13 DEF PassArms
    <2>2. /\ t.start = 0 \/ (t.start = start /\ think.start # None /\ ~Grows(view))
          /\ t.start = start \/ (t.start = 0 /\ view.tokens # 0)
          /\ t.start # None
      BY <1>1, <1>2, <1>3, <1>6, <2>1 DEF start
    <2>3. /\ untouched' = 0 \/ untouched' = untouched
             \/ (untouched' = untouched + 1 /\ ~view.agents /\ Claimed)
          /\ view.tokens # 0 => untouched' = 0
      BY <2>1, ThinkSeen
    <2>4. t.start = 0 => untouched' <= 1
      <3>1. start = 0 => MaxBackoff = 0
        <4>1. think.start \in Ages(MaxBackoff) /\ think.start # None
          BY <1>0, <2>1 DEF Thinks
        <4> QED BY <4>1 DEF start, Older, Least, Ages, None
      <3>2. MaxBackoff # 0
        OBVIOUS
      <3> QED BY <1>a, <2>2, <2>3, <3>1, <3>2 DEF Nothing
    <2>5. CASE think.armed = None /\ ThinkDwell > 0
      <3>1. think' = [t EXCEPT !.armed = 0]
        BY <1>13, <2>5 DEF PassArms, t
      <3>2. think' \in Thinks /\ think'.armed = 0 /\ think'.start = t.start
        BY <1>1, <1>3, <3>1 DEF Thinks
      <3>3. think'.armed # None /\ think'.armed < ThinkDwell
        BY <2>5, <3>2, <1>3
      <3> QED BY <1>8, <2>1, <2>2, <2>4, <2>5, <3>2, <3>3
    <2>6. CASE ~(think.armed = None /\ ThinkDwell > 0)
      <3>1. think' = t /\ t.armed = armed
        BY <1>1, <1>13, <2>6 DEF PassArms, t, armed
      <3>2. ~(Decision(t.armed, ThinkDwell, view.agents) = "escalate" /\ Claimed)
        BY <2>1 DEF Interrupts, t
      <3>3. ~view.agents /\ Claimed => armed # None /\ armed < ThinkDwell
        <4>1. ASSUME ~view.agents, Claimed PROVE ThinkDwell # 0 /\ t.armed # None /\ ~(t.armed >= ThinkDwell)
          <5>1. ThinkDwell # 0
            BY <3>2, <4>1 DEF Decision
          <5>2. t.armed # None
            BY <1>2, <2>6, <3>1, <5>1
          <5> QED BY <3>2, <4>1, <5>1, <5>2 DEF Decision
        <4>2. armed \in Ages(ThinkDwell)
          BY <1>2
        <4> QED BY <3>1, <4>1, <4>2 DEF Ages, None
      <3>4. untouched' = untouched + 1 => armed # None /\ armed < ThinkDwell
        <4>1. untouched' = 0 \/ untouched' = untouched => ~(untouched' = untouched + 1)
          BY <1>0
        <4> QED BY <2>3, <3>3, <4>1
      <3> QED BY <1>1, <1>8, <2>1, <2>2, <2>4, <3>1, <3>4
    <2> QED BY <2>5, <2>6
  <1>14. CASE PassInterrupts(view)
    <2>1. /\ think' = [start |-> 0, grown |-> Baseline(view), armed |-> None, count |-> Least(think.count + 1, 2)]
          /\ globe' = GlobeClaimed /\ Foreground(view) /\ SilenceSeen(view, TRUE, TRUE)
          /\ view.thinking /\ ~Retrying(view) /\ think.start # None /\ Expired(t) /\ ~view.workload
      BY <1>14 DEF PassInterrupts, Interrupts, Stalled, t
    <2>2. ~Grows(view) /\ silent + 1 >= ThinkThreshold
      <3>1. t.start # None /\ t.start >= Backoff(t.count)
        BY <2>1 DEF Expired
      <3>2. t.start # 0
        BY <1>4, <3>1
      <3>3. t.start = start /\ ~Grows(view)
        BY <1>1, <1>6, <2>1, <3>2 DEF start
      <3>4. start \in Ages(MaxBackoff) /\ start <= silent + 1
        BY <1>2, <2>1
      <3>5. start >= ThinkThreshold
        BY <1>4, <3>1, <3>3, <3>4 DEF Ages, None
      <3> QED BY <1>0, <3>3, <3>4, <3>5 DEF Ages, None
    <2>3. /\ silent' \in 0..MaxBackoff /\ untouched' = 0 /\ AckMeasured' /\ OnlySilentTurns'
          /\ retry' \in [count : 0..RetryThreshold, first : Ages(RetryMax + 1)]
      BY <2>1, <2>2, ThinkSeen
    <2>4. think' \in Thinks /\ think'.start = 0 /\ think'.armed = None
      <3>1. Least(think.count + 1, 2) \in 0..2
        BY <1>0 DEF Thinks, Least
      <3> QED BY <1>3, <2>1, <3>1 DEF Thinks
    <2>5. GlobeSound' /\ globe' \in [last : Ages(2 * ThinkCooldown), streak : 0..2]
      BY <2>1, GlobeTyped
    <2>6. foreground' \in [start : Ages(ThinkThreshold), alerted : BOOLEAN]
      BY <1>0, <2>1, ForegroundTyped
    <2>7. StallMeasured' /\ TimerHonest'
      BY <1>3, <2>3, <2>4 DEF StallMeasured, TimerHonest
    <2> QED BY <2>3, <2>4, <2>5, <2>6, <2>7 DEF ThInv, ThTypeOK, Thinks
  <1> QED BY <1>9, <1>10, <1>11, <1>12, <1>13, <1>14 DEF ThPass

LEMMA ThStepInv ==
    ASSUME ThInv, Multiplier > 0, ThinkThreshold <= MaxBackoff, [ThNext]_thVars
    PROVE  ThInv'
  <1> USE ThConstants
  <1>1. CASE Ack
    <2>1. UNCHANGED <<think, retry, foreground, globe, silent, untouched, last, rash>> /\ ack' = 0
      BY <1>1 DEF Ack
    <2>2. 0 \in Ages(AckFresh)
      BY Fresh
    <2> QED BY <2>1, <2>2
         DEF ThInv, ThTypeOK, GlobeSound, TimerHonest, StallMeasured, AckMeasured, OnlySilentTurns
  <1>2. CASE ThRestart
    <2>1. /\ think' = NotThinking /\ retry' = NoRetry /\ foreground' = NotBlocked
          /\ globe' = [last |-> 0, streak |-> 0] /\ silent' = 0 /\ untouched' = 0 /\ UNCHANGED <<ack, last, rash>>
      BY <1>2 DEF ThRestart
    <2>2. /\ None \in Ages(MaxBackoff) /\ None \in None..(MinDelta - 1) /\ 0 \in 0..2 /\ None \in Ages(ThinkDwell)
          /\ 0 \in 0..RetryThreshold /\ None \in Ages(RetryMax + 1) /\ None \in Ages(ThinkThreshold)
          /\ 0 \in Ages(2 * ThinkCooldown) /\ 0 \in 0..1 /\ 0 # None /\ 0 \in 0..MaxBackoff
          /\ 0 \in Nat /\ 0 <= MaxBackoff /\ 0 <= MaxBackoff + ThinkDwell
      BY Fresh DEF None
    <2>3. think' \in Thinks /\ think'.start = None /\ think'.armed = None
      BY <2>1, <2>2 DEF NotThinking, Thinks
    <2>4. GlobeSound' /\ globe' \in [last : Ages(2 * ThinkCooldown), streak : 0..2]
      BY <2>1, <2>2 DEF Gates, Unstreaked, GlobeSound
    <2>5. retry' \in [count : 0..RetryThreshold, first : Ages(RetryMax + 1)] /\ foreground' \in [start : Ages(ThinkThreshold), alerted : BOOLEAN]
      BY <2>1, <2>2 DEF NoRetry, NotBlocked
    <2>6. AckMeasured' /\ OnlySilentTurns'
      BY <2>1 DEF ThInv, AckMeasured, OnlySilentTurns
    <2> QED BY <2>1, <2>2, <2>3, <2>4, <2>5, <2>6
         DEF ThInv, ThTypeOK, Thinks, TimerHonest, StallMeasured
  <1>3. CASE UNCHANGED thVars
    BY <1>3 DEF thVars, ThInv, ThTypeOK, GlobeSound, TimerHonest, StallMeasured, AckMeasured, OnlySilentTurns
  <1> QED BY <1>1, <1>2, <1>3, ThPassInv DEF ThNext

(* Only a turn without progress for the whole threshold is interrupted, and a *)
(* turn that shows no life is, in a bounded number of passes: for any timers, *)
(* floors and cooldowns with a backoff that does not shrink.                  *)
THEOREM StallsInterruptedEach ==
    Multiplier > 0 /\ ThinkThreshold <= MaxBackoff => (ThSpec => []StallsInterrupted)
  <1> SUFFICES ASSUME Multiplier > 0, ThinkThreshold <= MaxBackoff PROVE ThSpec => []StallsInterrupted
    OBVIOUS
  <1>1. ThInv => StallsInterrupted
    BY DEF ThInv, StallsInterrupted, StallMeasured, StallInterrupted
  <1>2. ThInv /\ [ThNext]_thVars => ThInv'
    BY ThStepInv
  <1> QED BY ThInitInv, <1>1, <1>2, PTL DEF ThSpec

-----------------------------------------------------------------------------
(* StuckAlert.  What a neglected session still has to wait for: the clocks    *)
(* that run now, those that start later, the steps that want a pass of their  *)
(* own kind, and the detections before the next of them.                      *)
Rests == [run : 0..MaxHeld, since : Ages(HeldCap)]
Remains(age, cap) == IF age = None THEN 0 ELSE cap - age
Dwelling(armed) == armed # None /\ armed < StuckDwell
RunsNow(fa, al, armed) ==
    Remains(fa, FastCooldown)
        + (IF Dwelling(armed) THEN Remains(armed, StuckDwell) ELSE Remains(al, LastTier))
StartsLater(armed) ==
    IF armed = None THEN StuckDwell + LastTier ELSE IF Dwelling(armed) THEN LastTier ELSE 0
StepsLeft(n, armed, run) ==
    (IF n = 0 THEN 1 ELSE 0) + (IF armed = None THEN 1 ELSE 0) + (MaxHeld - run)
Detects(n, clocks) ==
    IF clocks > 0 THEN FastDetections ELSE FastDetections - Least(n, FastDetections - 1)
StillToWait(fs, fa, al, n, armed, run) ==
    RunsNow(fa, al, armed) + StartsLater(armed) + FastDetections * StepsLeft(n, armed, run)
        + Detects(fs, RunsNow(fa, al, armed))
SaInv ==
    /\ SaTypeOK /\ neglected \in Nat
    /\ neglected + StillToWait(fast, fastAlert, alerted, failures, hbArmed, heldBack.run) <= NeglectBound

LEMMA SaConstants ==
    /\ FastDetections \in Nat /\ FastDetections > 0 /\ FastCooldown \in Nat /\ StuckDwell \in Nat
    /\ MaxHeld \in Nat /\ HeldWindow \in Nat /\ HeldCap \in Nat /\ LastTier \in Nat /\ AlertCap = LastTier
    /\ Len(Tiers) \in Nat /\ Len(Tiers) > 0
    /\ \A n \in 0..Len(Tiers) : TierOf(n) \in Nat /\ TierOf(n) <= LastTier
  <1>1. /\ FastDetections \in Nat /\ FastDetections > 0 /\ FastCooldown \in Nat /\ StuckDwell \in Nat
        /\ MaxHeld \in Nat /\ HeldWindow \in Nat /\ HeldCap \in Nat /\ AlertCap = LastTier
    BY StuckAssumption DEF HeldCap, AlertCap
  <1>2. Tiers \in Seq(Nat) /\ Len(Tiers) \in Nat /\ Len(Tiers) > 0
    BY StuckAssumption
  <1>3. \A i \in 1..Len(Tiers) : Tiers[i] \in Nat /\ Tiers[i] <= LastTier
    BY <1>2, StuckAssumption DEF LastTier
  <1>4. LastTier \in Nat
    BY <1>2, <1>3 DEF LastTier
  <1>5. ASSUME NEW n \in 0..Len(Tiers) PROVE TierOf(n) \in Nat /\ TierOf(n) <= LastTier
    <2>1. n < Len(Tiers) => n + 1 \in 1..Len(Tiers)
      BY <1>2
    <2> QED BY <1>3, <1>4, <2>1 DEF TierOf
  <1> QED BY <1>1, <1>2, <1>4, <1>5

LEMMA Spreads ==
    ASSUME NEW k \in Nat, NEW a \in Nat, NEW b \in Nat
    PROVE  /\ k * a \in Nat /\ (a <= b => k * a <= k * b) /\ (a + 1 <= b => k * a + k <= k * b)
  <1>1. ASSUME NEW d \in Nat PROVE k * (a + d) = k * a + k * d /\ k * a \in Nat /\ k * d \in Nat
    OBVIOUS
  <1>2. ASSUME a <= b PROVE k * a <= k * b
    <2>1. PICK d \in Nat : b = a + d
      <3>1. b - a \in Nat /\ b = a + (b - a)
        BY <1>2
      <3> QED BY <3>1
    <2>2. k * b = k * a + k * d /\ k * a \in Nat /\ k * d \in Nat
      BY <1>1, <2>1
    <2> QED BY <2>2
  <1>3. ASSUME a + 1 <= b PROVE k * a + k <= k * b
    <2>1. PICK d \in Nat : b = a + (d + 1)
      <3>1. b - a - 1 \in Nat /\ b = a + ((b - a - 1) + 1)
        BY <1>3
      <3> QED BY <3>1
    <2>2. k * b = k * a + k * (d + 1) /\ k * (d + 1) = k * d + k /\ k * a \in Nat /\ k * d \in Nat
      <3>1. d + 1 \in Nat
        OBVIOUS
      <3>2. k * (d + 1) = k * d + k /\ k * d \in Nat
        OBVIOUS
      <3> QED BY <1>1, <2>1, <3>1, <3>2
    <2> QED BY <2>2
  <1>4. k * a \in Nat
    OBVIOUS
  <1> QED BY <1>2, <1>3, <1>4

LEMMA WaitsTyped ==
    ASSUME NEW fs \in 0..FastDetections, NEW fa \in Ages(FastCooldown), NEW al \in Ages(LastTier),
           NEW n \in 0..2, NEW armed \in Ages(StuckDwell), NEW run \in 0..MaxHeld
    PROVE  /\ RunsNow(fa, al, armed) \in Nat /\ StartsLater(armed) \in Nat
           /\ RunsNow(fa, al, armed) + StartsLater(armed) <= FastCooldown + StuckDwell + 2 * LastTier
           /\ StepsLeft(n, armed, run) \in Nat /\ StepsLeft(n, armed, run) <= MaxHeld + 2
           /\ Detects(fs, RunsNow(fa, al, armed)) \in 1..FastDetections
           /\ StillToWait(fs, fa, al, n, armed, run) \in Nat /\ StillToWait(fs, fa, al, n, armed, run) >= 1
           /\ StillToWait(fs, fa, al, n, armed, run) <= NeglectBound
  <1> USE SaConstants
  <1>1. /\ Remains(fa, FastCooldown) \in 0..FastCooldown /\ Remains(al, LastTier) \in 0..LastTier
        /\ Remains(armed, StuckDwell) \in 0..StuckDwell
    BY DEF Remains, Ages, None
  <1>2. /\ RunsNow(fa, al, armed) \in Nat /\ StartsLater(armed) \in Nat
        /\ RunsNow(fa, al, armed) + StartsLater(armed) <= FastCooldown + StuckDwell + 2 * LastTier
    BY <1>1 DEF RunsNow, StartsLater, Dwelling
  <1>3. StepsLeft(n, armed, run) \in Nat /\ StepsLeft(n, armed, run) <= MaxHeld + 2
    BY DEF StepsLeft
  <1>4. Detects(fs, RunsNow(fa, al, armed)) \in 1..FastDetections
    BY <1>2 DEF Detects, Least
  <1> DEFINE r == RunsNow(fa, al, armed)
             l == StartsLater(armed)
             s == StepsLeft(n, armed, run)
             d == Detects(fs, RunsNow(fa, al, armed))
             p == FastDetections * s
             q == FastDetections * (MaxHeld + 2)
  <1>5. p \in Nat /\ q \in Nat /\ p <= q
    <2>1. MaxHeld + 2 \in Nat
      OBVIOUS
    <2>2. s \in Nat /\ s <= MaxHeld + 2
      BY <1>3
    <2> HIDE DEF s
    <2> QED BY <2>1, <2>2, Spreads
  <1>6. NeglectBound = FastCooldown + StuckDwell + 2 * LastTier + (q + FastDetections)
    <2>1. FastDetections * (MaxHeld + 3) = FastDetections * (MaxHeld + 2) + FastDetections
      OBVIOUS
    <2> QED BY <2>1 DEF NeglectBound
  <1>7. StillToWait(fs, fa, al, n, armed, run) = r + l + p + d
    BY DEF StillToWait
  <1>8. r \in Nat /\ l \in Nat /\ d \in Nat /\ d >= 1 /\ d <= FastDetections /\ r + l <= FastCooldown + StuckDwell + 2 * LastTier
    BY <1>2, <1>4
  <1> HIDE DEF r, l, s, d, p, q
  <1>9. r + l + p + d \in Nat /\ r + l + p + d >= 1 /\ r + l + p + d <= NeglectBound
    BY <1>5, <1>6, <1>8
  <1> QED BY <1>2, <1>3, <1>4, <1>7, <1>9

(* A session that was told, or that waits for nothing, starts with all of it. *)
LEMMA Forgiven == ASSUME SaTypeOK', neglected' = 0 PROVE SaInv'
  <1>1. /\ fast' \in 0..FastDetections /\ fastAlert' \in Ages(FastCooldown) /\ alerted' \in Ages(LastTier)
        /\ failures' \in 0..2 /\ hbArmed' \in Ages(StuckDwell) /\ heldBack'.run \in 0..MaxHeld
    BY SaConstants DEF SaTypeOK
  <1> DEFINE w == StillToWait(fast', fastAlert', alerted', failures', hbArmed', heldBack'.run)
  <1>2. w \in Nat /\ w <= NeglectBound
    BY <1>1, WaitsTyped
  <1>3. 0 + w <= NeglectBound
    <2> HIDE DEF w
    <2> QED BY <1>2
  <1> QED BY <1>3 DEF SaInv

(* Time alone: what runs ends sooner, and what starts later can only begin.   *)
LEMMA RestsRun ==
    ASSUME NEW fa \in Ages(FastCooldown), NEW al \in Ages(LastTier), NEW armed \in Ages(StuckDwell)
    PROVE  LET fa2 == Older(fa, FastCooldown)
               al2 == Older(al, LastTier)
               armed2 == Older(armed, StuckDwell)
               c == RunsNow(fa, al, armed) + StartsLater(armed)
               c2 == RunsNow(fa2, al2, armed2) + StartsLater(armed2)
           IN  /\ fa2 \in Ages(FastCooldown) /\ al2 \in Ages(LastTier) /\ armed2 \in Ages(StuckDwell)
               /\ c2 <= c
               /\ RunsNow(fa, al, armed) > 0 => c2 + 1 <= c
               /\ RunsNow(fa, al, armed) = 0 => RunsNow(fa2, al2, armed2) = 0
               /\ armed2 = None <=> armed = None
  <1> USE SaConstants
  <1> DEFINE fa2 == Older(fa, FastCooldown)
             al2 == Older(al, LastTier)
             armed2 == Older(armed, StuckDwell)
  <1>1. /\ fa2 \in Ages(FastCooldown) /\ al2 \in Ages(LastTier) /\ armed2 \in Ages(StuckDwell)
        /\ (armed2 = None <=> armed = None)
    BY TickTyped
  <1>2. ASSUME NEW cap \in Nat, NEW a \in Ages(cap)
        PROVE  /\ Remains(a, cap) \in Nat /\ Remains(Older(a, cap), cap) \in Nat
               /\ Remains(Older(a, cap), cap) <= Remains(a, cap) /\ Remains(a, cap) <= cap
               /\ Remains(a, cap) > 0 => Remains(Older(a, cap), cap) + 1 <= Remains(a, cap)
    BY DEF Remains, Older, Least, Ages, None
  <1>3. Dwelling(armed2) => Dwelling(armed)
    BY DEF Dwelling, Older, Least, Ages, None
  <1>4. Dwelling(armed) => Remains(armed, StuckDwell) > 0
    BY DEF Dwelling, Remains, Ages, None
  <1>5. ~Dwelling(armed) /\ armed # None => StartsLater(armed) = 0 /\ StartsLater(armed2) = 0 /\ ~Dwelling(armed2)
    BY <1>1, <1>3 DEF StartsLater
  <1>6. armed = None => ~Dwelling(armed) /\ armed2 = None
    BY <1>1 DEF Dwelling
  <1> DEFINE f == Remains(fa, FastCooldown)
             f2 == Remains(fa2, FastCooldown)
             a == Remains(al, LastTier)
             a2 == Remains(al2, LastTier)
             h == Remains(armed, StuckDwell)
             h2 == Remains(armed2, StuckDwell)
  <1>7. /\ f \in Nat /\ f2 \in Nat /\ f2 <= f /\ (f > 0 => f2 + 1 <= f)
        /\ a \in Nat /\ a2 \in Nat /\ a2 <= a /\ (a > 0 => a2 + 1 <= a) /\ a2 <= LastTier
        /\ h \in Nat /\ h2 \in Nat /\ h2 <= h /\ (h > 0 => h2 + 1 <= h) /\ (Dwelling(armed) => h > 0)
    BY <1>1, <1>2, <1>4
  <1>8. /\ RunsNow(fa, al, armed) = f + (IF Dwelling(armed) THEN h ELSE a)
        /\ RunsNow(fa2, al2, armed2) = f2 + (IF Dwelling(armed2) THEN h2 ELSE a2)
    BY DEF RunsNow
  <1>9. /\ StartsLater(armed) = IF armed = None THEN StuckDwell + LastTier ELSE IF Dwelling(armed) THEN LastTier ELSE 0
        /\ StartsLater(armed2) = IF armed2 = None THEN StuckDwell + LastTier ELSE IF Dwelling(armed2) THEN LastTier ELSE 0
    BY DEF StartsLater
  <1> HIDE DEF f, f2, a, a2, h, h2, fa2, al2, armed2
  <1> DEFINE r == RunsNow(fa, al, armed)
             r2 == RunsNow(fa2, al2, armed2)
             c == r + StartsLater(armed)
             c2 == r2 + StartsLater(armed2)
  <1>10. c2 <= c /\ (r > 0 => c2 + 1 <= c) /\ (r = 0 => r2 = 0)
    <2>1. CASE Dwelling(armed2)
      BY <2>1, <1>1, <1>3, <1>4, <1>6, <1>7, <1>8, <1>9
    <2>2. CASE Dwelling(armed) /\ ~Dwelling(armed2)
      BY <2>2, <1>1, <1>4, <1>6, <1>7, <1>8, <1>9
    <2>3. CASE ~Dwelling(armed)
      BY <2>3, <1>1, <1>3, <1>7, <1>8, <1>9
    <2> QED BY <2>1, <2>2, <2>3
  <1> QED BY <1>1, <1>10 DEF fa2, al2, armed2

(* A pass that leaves no more to wait for, and less of one thing: a clock that *)
(* ran, a step, or a detection.                                               *)
LEMMA Spends ==
    ASSUME NEW fs \in 0..FastDetections, NEW fa \in Ages(FastCooldown), NEW al \in Ages(LastTier),
           NEW n \in 0..2, NEW armed \in Ages(StuckDwell), NEW run \in 0..MaxHeld,
           NEW fs2 \in 0..FastDetections, NEW fa2 \in Ages(FastCooldown), NEW al2 \in Ages(LastTier),
           NEW n2 \in 0..2, NEW armed2 \in Ages(StuckDwell), NEW run2 \in 0..MaxHeld,
           RunsNow(fa2, al2, armed2) + StartsLater(armed2) <= RunsNow(fa, al, armed) + StartsLater(armed),
           StepsLeft(n2, armed2, run2) <= StepsLeft(n, armed, run),
           \/ /\ RunsNow(fa, al, armed) > 0
              /\ RunsNow(fa2, al2, armed2) + StartsLater(armed2) + 1 <= RunsNow(fa, al, armed) + StartsLater(armed)
           \/ StepsLeft(n2, armed2, run2) + 1 <= StepsLeft(n, armed, run)
           \/ Detects(fs2, RunsNow(fa2, al2, armed2)) + 1 <= Detects(fs, RunsNow(fa, al, armed))
    PROVE  StillToWait(fs2, fa2, al2, n2, armed2, run2) + 1 <= StillToWait(fs, fa, al, n, armed, run)
  <1> DEFINE r == RunsNow(fa, al, armed)
             l == StartsLater(armed)
             s == StepsLeft(n, armed, run)
             d == Detects(fs, r)
             r2 == RunsNow(fa2, al2, armed2)
             l2 == StartsLater(armed2)
             s2 == StepsLeft(n2, armed2, run2)
             d2 == Detects(fs2, r2)
             p == FastDetections * s
             p2 == FastDetections * s2
  <1>1. r \in Nat /\ l \in Nat /\ s \in Nat /\ d \in 1..FastDetections
    BY WaitsTyped
  <1>2. r2 \in Nat /\ l2 \in Nat /\ s2 \in Nat /\ d2 \in 1..FastDetections
    BY WaitsTyped
  <1>3. FastDetections \in Nat /\ FastDetections > 0
    BY SaConstants
  <1>4. r > 0 => d = FastDetections
    BY DEF Detects
  <1>5. /\ StillToWait(fs, fa, al, n, armed, run) = r + l + p + d
        /\ StillToWait(fs2, fa2, al2, n2, armed2, run2) = r2 + l2 + p2 + d2
    BY DEF StillToWait
  <1>6. /\ r2 + l2 <= r + l /\ s2 <= s
        /\ \/ r > 0 /\ r2 + l2 + 1 <= r + l
           \/ s2 + 1 <= s
           \/ d2 + 1 <= d
    OBVIOUS
  <1> HIDE DEF r, l, s, d, r2, l2, s2, d2
  <1>7. p \in Nat /\ p2 \in Nat /\ p2 <= p /\ (s2 + 1 <= s => p2 + FastDetections <= p)
    BY <1>1, <1>2, <1>3, <1>6, Spreads
  <1> HIDE DEF p, p2
  <1>8. r2 + l2 + p2 + d2 + 1 <= r + l + p + d
    <2>1. CASE r > 0 /\ r2 + l2 + 1 <= r + l
      BY <2>1, <1>1, <1>2, <1>3, <1>4, <1>6, <1>7
    <2>2. CASE s2 + 1 <= s
      BY <2>2, <1>1, <1>2, <1>3, <1>6, <1>7
    <2>3. CASE d2 + 1 <= d
      BY <2>3, <1>1, <1>2, <1>3, <1>6, <1>7
    <2> QED BY <1>6, <2>1, <2>2, <2>3
  <1> QED BY <1>5, <1>8

LEMMA HeldTyped ==
    ASSUME SaTypeOK, MaxHeld > 0
    PROVE  LET kept == [heldBack EXCEPT !.since = Older(@, HeldCap)]
           IN  /\ kept \in Rests /\ kept.run = heldBack.run /\ NoSuppression \in Rests
               /\ ~HeldOut => /\ Recorded(kept) \in Rests /\ Recorded(kept).run = heldBack.run + 1
  <1> USE SaConstants
  <1> DEFINE kept == [heldBack EXCEPT !.since = Older(@, HeldCap)]
  <1>1. heldBack \in Rests /\ heldBack.since \in Ages(HeldCap) /\ heldBack.run \in 0..MaxHeld
    BY DEF SaTypeOK, Rests
  <1>2. Older(heldBack.since, HeldCap) \in Ages(HeldCap) /\ 0 \in Ages(HeldCap) /\ None \in Ages(HeldCap) /\ 0 \in 0..MaxHeld
    BY <1>1, TickTyped, Fresh
  <1>3. kept \in Rests /\ kept.run = heldBack.run
    BY <1>1, <1>2 DEF Rests
  <1>4. NoSuppression \in Rests
    BY <1>2 DEF NoSuppression, Rests
  <1>5. ASSUME ~HeldOut PROVE Recorded(kept) \in Rests /\ Recorded(kept).run = heldBack.run + 1
    <2>1. ~SuppressionCapped(kept, MaxHeld, HeldWindow)
      BY <1>5 DEF HeldOut
    <2>2. kept.run < MaxHeld
      BY <2>1, <1>1, <1>3 DEF SuppressionCapped
    <2>3. kept.run + 1 \in 0..MaxHeld
      BY <1>1, <1>3, <2>2
    <2>4. (IF kept.run = 0 THEN 0 ELSE kept.since) \in Ages(HeldCap)
      BY <1>2, <1>3 DEF Rests
    <2>5. Recorded(kept) = [run |-> kept.run + 1, since |-> IF kept.run = 0 THEN 0 ELSE kept.since]
      BY DEF Recorded
    <2> HIDE DEF kept
    <2> QED BY <1>3, <2>3, <2>4, <2>5 DEF Rests
  <1> QED BY <1>3, <1>4, <1>5

(* A pass keeps the types, whichever detector ends it. *)
LEMMA SaPassTyped ==
    ASSUME SaTypeOK, neglected \in Nat, MaxHeld > 0, NEW sight \in StuckSights, SaPass(sight)
    PROVE  SaTypeOK' /\ neglected' \in Nat
  <1> USE SaConstants
  <1>1. /\ fast \in 0..FastDetections /\ fastAlert \in Ages(FastCooldown) /\ alerted \in Ages(LastTier)
        /\ failures \in 0..2 /\ tier \in 0..Len(Tiers) /\ hbArmed \in Ages(StuckDwell) /\ heldBack \in Rests
    BY DEF SaTypeOK, Rests
  <1>2. /\ Older(fastAlert, FastCooldown) \in Ages(FastCooldown) /\ Older(alerted, LastTier) \in Ages(LastTier)
        /\ Older(hbArmed, StuckDwell) \in Ages(StuckDwell)
        /\ 0 \in Ages(FastCooldown) /\ 0 \in Ages(LastTier) /\ 0 \in Ages(StuckDwell) /\ None \in Ages(StuckDwell)
    BY <1>1, TickTyped, Fresh
  <1>3. Least(fast + 1, FastDetections) \in 0..FastDetections /\ 0 \in 0..FastDetections
    BY <1>1 DEF Least
  <1>4. Least(failures + 1, 2) \in 0..2 /\ 0 \in 0..2 /\ Least(tier + 1, Len(Tiers)) \in 0..Len(Tiers) /\ 0 \in 0..Len(Tiers)
    BY <1>1 DEF Least
  <1>5. neglected' \in Nat
    BY DEF SaPass
  <1> DEFINE kept == [heldBack EXCEPT !.since = Older(@, HeldCap)]
  <1>6. kept \in Rests /\ NoSuppression \in Rests /\ (~HeldOut => Recorded(kept) \in Rests)
    BY HeldTyped
  <1> HIDE DEF kept
  <1>7. ASSUME FastEnds(sight, FastOutcome(sight)) PROVE SaTypeOK'
    <2>1. /\ fast' \in 0..FastDetections /\ fastAlert' \in Ages(FastCooldown) /\ alerted' \in Ages(LastTier)
          /\ failures' \in 0..2 /\ tier' \in 0..Len(Tiers) /\ hbArmed' \in Ages(StuckDwell)
      BY <1>1, <1>2, <1>3, <1>4, <1>7 DEF FastEnds
    <2>2. FastOutcome(sight) = "hold" => ~HeldOut
      BY DEF FastOutcome, HeldBack
    <2>3. heldBack' \in {kept, NoSuppression} \/ (FastOutcome(sight) = "hold" /\ heldBack' = Recorded(kept))
      BY <1>7 DEF FastEnds, kept
    <2>4. heldBack' \in Rests
      BY <1>6, <2>2, <2>3
    <2> QED BY <2>1, <2>4 DEF SaTypeOK, Rests
  <1>8. ASSUME StuckEnds(sight, StuckOutcome(sight)) PROVE SaTypeOK'
    <2>1. ArmedAfter(StuckOutcome(sight)) \in Ages(StuckDwell)
      BY <1>2 DEF ArmedAfter
    <2>2. /\ fast' \in 0..FastDetections /\ fastAlert' \in Ages(FastCooldown) /\ alerted' \in Ages(LastTier)
          /\ failures' \in 0..2 /\ tier' \in 0..Len(Tiers) /\ hbArmed' \in Ages(StuckDwell)
      BY <1>1, <1>2, <1>3, <1>4, <1>8, <2>1 DEF StuckEnds
    <2>3. heldBack' \in {kept, NoSuppression} \/ (~HeldOut /\ heldBack' = Recorded(kept))
      BY <1>8 DEF StuckEnds, kept
    <2>4. heldBack' \in Rests
      BY <1>6, <2>3
    <2> QED BY <2>2, <2>4 DEF SaTypeOK, Rests
  <1> QED BY <1>5, <1>7, <1>8 DEF SaPass

LEMMA RemainsTyped == ASSUME NEW cap \in Nat, NEW a \in Ages(cap) PROVE Remains(a, cap) \in Nat
  BY DEF Remains, Ages, None

LEMMA StepsFall ==
    ASSUME NEW n \in 0..2, NEW armed \in Ages(StuckDwell), NEW run \in 0..MaxHeld,
           NEW n2 \in 0..2, NEW armed2 \in Ages(StuckDwell), NEW run2 \in 0..MaxHeld,
           run2 >= run, n = 0 \/ n2 # 0, armed = None \/ armed2 # None
    PROVE  /\ StepsLeft(n2, armed2, run2) <= StepsLeft(n, armed, run)
           /\ (run2 = run + 1 \/ (n = 0 /\ n2 # 0) \/ (armed = None /\ armed2 # None))
                => StepsLeft(n2, armed2, run2) + 1 <= StepsLeft(n, armed, run)
  BY SaConstants DEF StepsLeft

(* A neglected pass has less to wait for. *)
LEMMA NeglectSpends ==
    ASSUME SaTypeOK, SaTypeOK', MaxHeld > 0, NEW sight \in StuckSights, SaPass(sight),
           sight.ack = "stale", sight.work = "none", sight.active => sight.fresh, sight.screen = "idle",
           sight.fresh => FastOutcome(sight) # "inject",
           ~sight.fresh => StuckOutcome(sight) # "inject" /\ sight.watcher # "prompt"
    PROVE  StillToWait(fast', fastAlert', alerted', failures', hbArmed', heldBack'.run) + 1
             <= StillToWait(fast, fastAlert, alerted, failures, hbArmed, heldBack.run)
  <1> USE SaConstants
  <1>1. /\ fast \in 0..FastDetections /\ fastAlert \in Ages(FastCooldown) /\ alerted \in Ages(LastTier)
        /\ failures \in 0..2 /\ tier \in 0..Len(Tiers) /\ hbArmed \in Ages(StuckDwell) /\ heldBack.run \in 0..MaxHeld
    BY DEF SaTypeOK
  <1>2. /\ fast' \in 0..FastDetections /\ fastAlert' \in Ages(FastCooldown) /\ alerted' \in Ages(LastTier)
        /\ failures' \in 0..2 /\ hbArmed' \in Ages(StuckDwell) /\ heldBack'.run \in 0..MaxHeld
    BY DEF SaTypeOK
  <1> DEFINE r == RunsNow(fastAlert, alerted, hbArmed)
             c == r + StartsLater(hbArmed)
             s == StepsLeft(failures, hbArmed, heldBack.run)
             d == Detects(fast, r)
             r2 == RunsNow(fastAlert', alerted', hbArmed')
             c2 == r2 + StartsLater(hbArmed')
             s2 == StepsLeft(failures', hbArmed', heldBack'.run)
             d2 == Detects(fast', r2)
             kept == [heldBack EXCEPT !.since = Older(@, HeldCap)]
  <1>3. r \in Nat /\ c \in Nat /\ s \in Nat /\ d \in 1..FastDetections
    <2>1. r \in Nat /\ StartsLater(hbArmed) \in Nat /\ s \in Nat /\ d \in 1..FastDetections
      BY <1>1, WaitsTyped
    <2> HIDE DEF r, s, d
    <2> QED BY <2>1
  <1>4. r2 \in Nat /\ c2 \in Nat /\ s2 \in Nat /\ d2 \in 1..FastDetections
    <2>1. r2 \in Nat /\ StartsLater(hbArmed') \in Nat /\ s2 \in Nat /\ d2 \in 1..FastDetections
      BY <1>2, WaitsTyped
    <2> HIDE DEF r2, s2, d2
    <2> QED BY <2>1
  <1>5. SUFFICES c2 <= c /\ s2 <= s /\ ((r > 0 /\ c2 + 1 <= c) \/ s2 + 1 <= s \/ d2 + 1 <= d)
    BY <1>1, <1>2, Spends
  <1>6. /\ kept.run = heldBack.run
        /\ ~HeldOut => Recorded(kept).run = heldBack.run + 1
    BY HeldTyped
  <1> HIDE DEF kept
  <1>7. ASSUME fastAlert' = Older(fastAlert, FastCooldown), alerted' = Older(alerted, LastTier),
               hbArmed' = Older(hbArmed, StuckDwell)
        PROVE  c2 <= c /\ (r > 0 => c2 + 1 <= c) /\ (r = 0 => r2 = 0) /\ (hbArmed' = None <=> hbArmed = None)
    BY <1>1, <1>7, RestsRun
  <1>8. ASSUME heldBack'.run >= heldBack.run, failures = 0 \/ failures' # 0, hbArmed = None \/ hbArmed' # None
        PROVE  /\ s2 <= s
               /\ heldBack'.run = heldBack.run + 1 => s2 + 1 <= s
               /\ failures = 0 /\ failures' # 0 => s2 + 1 <= s
               /\ hbArmed = None /\ hbArmed' # None => s2 + 1 <= s
    BY <1>1, <1>2, <1>8, StepsFall
  <1>9. CASE sight.fresh
    <2>1. FastOutcome(sight) \in {"count", "cooling", "hold"}
      BY <1>9 DEF FastOutcome, AckSuppresses
    <2>2. FastEnds(sight, FastOutcome(sight))
      BY <2>1 DEF SaPass
    <2>3. /\ fastAlert' = Older(fastAlert, FastCooldown) /\ alerted' = Older(alerted, LastTier)
          /\ hbArmed' = Older(hbArmed, StuckDwell) /\ failures' = failures
      BY <2>1, <2>2 DEF FastEnds, AlertCap
    <2>4. heldBack' = IF FastOutcome(sight) = "hold" THEN Recorded(kept) ELSE kept
      BY <2>1, <2>2 DEF FastEnds, kept
    <2>5. FastOutcome(sight) = "hold" => ~HeldOut
      BY DEF FastOutcome, HeldBack
    <2>6. heldBack'.run = IF FastOutcome(sight) = "hold" THEN heldBack.run + 1 ELSE heldBack.run
      BY <1>6, <2>4, <2>5
    <2>7. c2 <= c /\ (r > 0 => c2 + 1 <= c) /\ (r = 0 => r2 = 0) /\ (hbArmed' = None <=> hbArmed = None)
      BY <1>7, <2>3
    <2>8. heldBack'.run >= heldBack.run
      BY <1>1, <2>6
    <2>9. s2 <= s /\ (heldBack'.run = heldBack.run + 1 => s2 + 1 <= s)
      BY <1>8, <2>3, <2>7, <2>8
    <2>10. CASE FastOutcome(sight) = "count"
      <3>1. fast + 1 < FastDetections
        BY <2>10 DEF FastOutcome
      <3>2. fast' = fast + 1
        BY <1>1, <2>2, <2>10, <3>1 DEF FastEnds, Least
      <3>3. r = 0 => d2 + 1 <= d
        <4>1. ASSUME r = 0 PROVE Detects(fast', 0) + 1 <= Detects(fast, 0)
          BY <1>1, <3>1, <3>2 DEF Detects, Least
        <4> QED BY <2>7, <4>1
      <3> QED BY <1>3, <2>7, <2>9, <3>3
    <2>11. CASE FastOutcome(sight) = "cooling"
      <3>1. FastCooling
        BY <2>11 DEF FastOutcome
      <3>2. fastAlert # None /\ fastAlert < FastCooldown
        BY <1>1, <3>1 DEF FastCooling, Within, Older, Least, Ages, None
      <3>3. r > 0
        BY <1>1, <3>2 DEF RunsNow, Remains, Dwelling, Ages, None
      <3> QED BY <2>7, <2>9, <3>3
    <2>12. CASE FastOutcome(sight) = "hold"
      BY <2>6, <2>7, <2>9, <2>12
    <2> QED BY <2>1, <2>10, <2>11, <2>12
  <1>10. CASE ~sight.fresh
    <2>1. FastOutcome(sight) = "reset" /\ ~sight.active /\ IsStuck(sight)
      BY <1>10 DEF FastOutcome, IsStuck, Excused, StuckSights
    <2>2. StuckEnds(sight, StuckOutcome(sight))
      BY <2>1 DEF SaPass
    <2>3. StuckOutcome(sight) \in {"first", "cooling", "tell"}
      BY <1>10, <2>1 DEF StuckOutcome
    <2>4. fastAlert' = Older(fastAlert, FastCooldown) /\ fast' = 0
      BY <1>10, <2>2 DEF StuckEnds
    <2>5. heldBack' = kept \/ (~HeldOut /\ heldBack' = Recorded(kept))
      BY <1>10, <2>2 DEF StuckEnds, kept
    <2>6. heldBack'.run >= heldBack.run
      BY <1>1, <1>6, <2>5
    <2>7. failures' # 0
      BY <1>1, <2>2, <2>3 DEF StuckEnds, Least
    <2>8. CASE StuckOutcome(sight) = "first"
      <3>1. alerted' = Older(alerted, LastTier) /\ hbArmed' = Older(hbArmed, StuckDwell)
        BY <2>2, <2>8 DEF StuckEnds, ArmedAfter, AlertCap
      <3>2. failures = 0
        BY <1>1, <2>1, <2>8 DEF StuckOutcome
      <3> QED BY <1>7, <1>8, <2>4, <2>6, <2>7, <3>1, <3>2
    <2>9. CASE StuckOutcome(sight) = "cooling"
      <3>1. alerted' = Older(alerted, LastTier) /\ hbArmed' = Older(hbArmed, StuckDwell)
        BY <2>2, <2>9 DEF StuckEnds, ArmedAfter, AlertCap
      <3>2. ~TierOver
        BY <2>9 DEF StuckOutcome
      <3>3. TierOf(tier) \in Nat /\ TierOf(tier) <= LastTier
        BY <1>1
      <3>4. alerted # None /\ alerted < LastTier
        BY <1>1, <3>2, <3>3 DEF TierOver, AlertCap, Older, Least, Ages, None
      <3>5. r > 0
        BY <1>1, <3>4 DEF RunsNow, Remains, Dwelling, Ages, None
      <3> QED BY <1>7, <1>8, <2>4, <2>6, <2>7, <3>1, <3>5
    <2>10. CASE StuckOutcome(sight) = "tell"
      <3>1. alerted' = 0 /\ hbArmed' = IF hbArmed = None THEN 0 ELSE Older(hbArmed, StuckDwell)
        BY <2>2, <2>10 DEF StuckEnds, ArmedAfter
      <3>2. Decision(Older(hbArmed, StuckDwell), StuckDwell, FALSE) # "escalate"
        BY <2>1, <2>10 DEF StuckOutcome, IsStuck
      <3>3. StuckDwell > 0 /\ (hbArmed # None => Dwelling(hbArmed) /\ Dwelling(hbArmed') /\ hbArmed' = hbArmed + 1)
        BY <1>1, <3>1, <3>2 DEF Decision, Older, Least, Dwelling, Ages, None
      <3>4. hbArmed' # None
        BY <1>1, <3>1, <3>3 DEF Ages, None
      <3>5. Remains(fastAlert', FastCooldown) <= Remains(fastAlert, FastCooldown)
        BY <1>1, <2>4 DEF Remains, Older, Least, Ages, None
      <3>6. /\ Remains(fastAlert', FastCooldown) \in Nat /\ Remains(fastAlert, FastCooldown) \in Nat
            /\ Remains(alerted, LastTier) \in Nat
        <4>1. Remains(fastAlert', FastCooldown) \in Nat
          BY <1>2, RemainsTyped
        <4>2. Remains(fastAlert, FastCooldown) \in Nat /\ Remains(alerted, LastTier) \in Nat
          BY <1>1, RemainsTyped
        <4> QED BY <4>1, <4>2
      <3>9. Remains(alerted', LastTier) = LastTier
        BY <3>1 DEF Remains, None
      <3>7. CASE hbArmed = None
        <4>1. Dwelling(hbArmed') /\ hbArmed' = 0
          BY <3>1, <3>3, <3>7 DEF Dwelling, None
        <4>2. c2 <= c
          BY <1>1, <3>5, <3>6, <3>7, <3>9, <4>1 DEF RunsNow, StartsLater, Remains, Dwelling, None
        <4> QED BY <1>8, <2>6, <2>7, <3>4, <3>7, <4>2
      <3>8. CASE hbArmed # None
        <4>1. Dwelling(hbArmed) /\ Dwelling(hbArmed') /\ hbArmed' = hbArmed + 1 /\ hbArmed < StuckDwell
          BY <3>3, <3>8 DEF Dwelling
        <4>2. Remains(hbArmed', StuckDwell) + 1 = Remains(hbArmed, StuckDwell) /\ Remains(hbArmed', StuckDwell) \in Nat
          BY <1>1, <1>2, <3>4, <3>8, <4>1 DEF Remains, Ages, None
        <4>3. c2 + 1 <= c /\ r > 0
          BY <3>4, <3>5, <3>6, <3>8, <4>1, <4>2 DEF RunsNow, StartsLater
        <4> QED BY <1>3, <1>4, <1>8, <2>6, <2>7, <3>4, <4>3
      <3> QED BY <3>7, <3>8
    <2> QED BY <2>3, <2>8, <2>9, <2>10
  <1> QED BY <1>9, <1>10

LEMMA SaStepInv == ASSUME SaInv, MaxHeld > 0, [SaNext]_saVars PROVE SaInv'
  <1>0. SaTypeOK /\ neglected \in Nat
    BY DEF SaInv
  <1>1. ASSUME NEW sight \in StuckSights, SaPass(sight) PROVE SaInv'
    <2>1. SaTypeOK' /\ neglected' \in Nat
      BY <1>0, <1>1, SaPassTyped
    <2> DEFINE left == /\ sight.ack = "stale" /\ sight.work = "none" /\ (sight.active => sight.fresh)
                       /\ sight.screen = "idle"
                       /\ (sight.fresh => FastOutcome(sight) # "inject")
                       /\ (~sight.fresh => StuckOutcome(sight) # "inject" /\ sight.watcher # "prompt")
    <2>2. CASE neglected' = 0
      BY <2>1, <2>2, Forgiven
    <2>3. CASE neglected' # 0
      <3>1. neglected' = neglected + 1 /\ sight.ack = "stale" /\ sight.work = "none"
            /\ (sight.active => sight.fresh) /\ sight.screen = "idle"
        BY <1>1, <2>3 DEF SaPass
      <3>2. (~sight.fresh <=> FastOutcome(sight) = "reset") /\ FastOutcome(sight) # "pass"
        BY <3>1 DEF FastOutcome
      <3>3. (sight.fresh => FastOutcome(sight) # "inject")
            /\ (~sight.fresh => StuckOutcome(sight) # "inject" /\ sight.watcher # "prompt")
        BY <1>1, <2>3, <3>2 DEF SaPass
      <3> DEFINE w == StillToWait(fast, fastAlert, alerted, failures, hbArmed, heldBack.run)
                 w2 == StillToWait(fast', fastAlert', alerted', failures', hbArmed', heldBack'.run)
      <3>4. w2 + 1 <= w
        BY <1>0, <1>1, <2>1, <3>1, <3>3, NeglectSpends
      <3>5. w \in Nat /\ NeglectBound \in Int
        <4>1. w \in Nat
          BY <1>0, WaitsTyped, SaConstants DEF SaTypeOK
        <4>2. NeglectBound \in Int
          BY SaConstants DEF NeglectBound
        <4> QED BY <4>1, <4>2
      <3>6. w2 \in Nat
        <4>1. /\ fast' \in 0..FastDetections /\ fastAlert' \in Ages(FastCooldown) /\ alerted' \in Ages(LastTier)
              /\ failures' \in 0..2 /\ hbArmed' \in Ages(StuckDwell) /\ heldBack'.run \in 0..MaxHeld
          BY <2>1, SaConstants DEF SaTypeOK
        <4> QED BY <4>1, WaitsTyped
      <3>7. neglected + w <= NeglectBound
        BY DEF SaInv
      <3> HIDE DEF w, w2
      <3>8. neglected' + w2 <= NeglectBound
        BY <1>0, <3>1, <3>4, <3>5, <3>6, <3>7
      <3> QED BY <2>1, <3>8 DEF SaInv, w2
    <2> QED BY <2>2, <2>3
  <1>2. CASE UNCHANGED saVars
    BY <1>2 DEF saVars, SaInv, SaTypeOK
  <1> QED BY <1>1, <1>2 DEF SaNext

SaGood == SaTypeOK /\ SilentResumed

(* A session that sits at its prompt with a stale acknowledgement is told to   *)
(* resume within NeglectBound passes.                                          *)
LEMMA SaAlways == MaxHeld > 0 => (SaSpec => []SaGood)
  <1> SUFFICES ASSUME MaxHeld > 0 PROVE SaSpec => []SaGood
    OBVIOUS
  <1>1. SaInit => SaInv
    <2> SUFFICES ASSUME SaInit PROVE SaInv
      OBVIOUS
    <2>1. /\ 0 \in 0..FastDetections /\ None \in Ages(FastCooldown) /\ None \in Ages(AlertCap)
          /\ 0 \in 0..2 /\ 0 \in 0..Len(Tiers) /\ None \in Ages(StuckDwell) /\ None \in Ages(HeldCap) /\ 0 \in 0..MaxHeld
      BY SaConstants, Fresh
    <2>2. SaTypeOK /\ neglected = 0
      BY <2>1 DEF SaInit, SaTypeOK, NoSuppression
    <2>3. StillToWait(fast, fastAlert, alerted, failures, hbArmed, heldBack.run) \in Nat
          /\ StillToWait(fast, fastAlert, alerted, failures, hbArmed, heldBack.run) <= NeglectBound
      BY <2>2, WaitsTyped, SaConstants DEF SaTypeOK
    <2> QED BY <2>2, <2>3 DEF SaInv
  <1>2. SaInv /\ [SaNext]_saVars => SaInv'
    BY SaStepInv
  <1>3. SaInv => SaGood
    <2> SUFFICES ASSUME SaInv PROVE SaGood
      OBVIOUS
    <2>1. SaTypeOK /\ neglected \in Nat
      BY DEF SaInv
    <2> DEFINE w == StillToWait(fast, fastAlert, alerted, failures, hbArmed, heldBack.run)
    <2>2. w \in Nat /\ w >= 1
      BY <2>1, WaitsTyped, SaConstants DEF SaTypeOK
    <2>3. neglected + w <= NeglectBound /\ NeglectBound \in Int
      BY SaConstants DEF SaInv, NeglectBound
    <2> HIDE DEF w
    <2>4. neglected < NeglectBound
      BY <2>1, <2>2, <2>3
    <2> QED BY <2>1, <2>4 DEF SilentResumed, SaGood
  <1> QED BY <1>1, <1>2, <1>3, PTL DEF SaSpec

-----------------------------------------------------------------------------
(* The least number of a set of naturals, and the greatest of a finite one. *)
LEMMA LeastNat ==
    ASSUME NEW S, S \subseteq Nat, S # {} PROVE \E x \in S : \A y \in S : x <= y
  <1> DEFINE R == OpToRel(<, Nat)
  <1>1. IsWellFoundedOn(R, Nat)
    BY NatLessThanWellFounded, Zenon
  <1>2. PICK x \in S : \A y \in S : ~(<<y, x>> \in R)
    <2> HIDE DEF R
    <2> QED BY <1>1, WFMin
  <1>3. \A y \in S : ~(y < x)
    BY <1>2 DEF OpToRel
  <1> QED BY <1>3

LEMMA GreatestNat ==
    ASSUME NEW S, S \subseteq Nat, IsFiniteSet(S), S # {} PROVE \E x \in S : \A y \in S : y <= x
  <1> DEFINE Top(T) == \E x \in T : \A y \in T : y <= x
             Sizes == {n \in Nat : \E T \in SUBSET S : T # {} /\ Cardinality(T) = n /\ ~Top(T)}
  <1>1. SUFFICES ASSUME ~Top(S) PROVE FALSE
    OBVIOUS
  <1>2. Cardinality(S) \in Sizes
    BY <1>1, FS_CardinalityType
  <1>3. PICK n \in Sizes : \A m \in Sizes : n <= m
    <2> HIDE DEF Sizes
    <2>1. Sizes \subseteq Nat
      BY DEF Sizes
    <2> QED BY <1>2, <2>1, LeastNat
  <1>4. PICK T \in SUBSET S : T # {} /\ Cardinality(T) = n /\ ~Top(T)
    BY <1>3
  <1>5. PICK x : x \in T
    BY <1>4
  <1>6. T \subseteq Nat /\ x \in Nat /\ IsFiniteSet(T)
    BY <1>4, <1>5, FS_Subset
  <1>7. IsFiniteSet(T \ {x}) /\ Cardinality(T \ {x}) = n - 1 /\ n \in Nat
    BY <1>3, <1>4, <1>5, <1>6, FS_RemoveElement
  <1>8. n - 1 \in Nat
    BY <1>7, FS_CardinalityType
  <1>9. CASE T \ {x} = {}
    BY <1>4, <1>5, <1>6, <1>9
  <1>10. CASE T \ {x} # {}
    <2>1. Top(T \ {x})
      <3>1. ASSUME ~Top(T \ {x}) PROVE n - 1 \in Sizes
        BY <1>4, <1>7, <1>8, <1>10, <3>1
      <3>2. n \in Nat /\ ~(n <= n - 1)
        BY <1>7
      <3> HIDE DEF Sizes, Top
      <3> QED BY <1>3, <3>1, <3>2
    <2>2. PICK z \in T \ {x} : \A y \in T \ {x} : y <= z
      BY <2>1
    <2>3. CASE z <= x
      <3>1. \A y \in T : y <= x
        BY <1>6, <2>2, <2>3
      <3> QED BY <1>4, <1>5, <3>1
    <2>4. CASE ~(z <= x)
      <3>1. \A y \in T : y <= z
        BY <1>6, <2>2, <2>4
      <3> QED BY <1>4, <2>2, <3>1
    <2> QED BY <2>3, <2>4
  <1> QED BY <1>9, <1>10

(* DaemonLoop.  The last sign of life is no older than the timer of the      *)
(* keepalive and the last ack say, and if neither is known, it has just been *)
(* given; the timer of the reminder is the age of the last one; a streak was *)
(* seen by as many idle keepalives.                                          *)
LifeTimed ==
    /\ facts.life \in Nat
    /\ timers.keepalive # None => facts.life <= timers.keepalive
    /\ lastAck # None => facts.life <= lastAck
    /\ timers.keepalive = None /\ lastAck = None => facts.life = 0 /\ loopStage # "check"
ReminderTimed == facts.reminder = timers.memory
StreakSeen ==
    /\ facts.idleRun \in 0..AfterKeepalives /\ idle.streak <= facts.idleRun
FactsTyped ==
    facts \in [life : Nat, reminder : Ages(MemoryCap), idleRun : 0..AfterKeepalives, acked : BOOLEAN,
               wrong : SUBSET {"rushed", "hasty", "worked"}]
LoInv == TimersKept /\ LifeTimed /\ ReminderTimed /\ StreakSeen /\ FactsTyped
Streaks == [streak : 0..AfterKeepalives, clear : Ages(IdleCooldown)]

LEMMA LoopConstants ==
    /\ KeepaliveEvery \in Nat /\ KeepaliveEvery > 0 /\ MemoryIdle \in Nat
    /\ AfterKeepalives \in Nat /\ AfterKeepalives > 0 /\ IdleCooldown \in Nat
    /\ MemoryEvery \subseteq Nat /\ LifeCap = KeepaliveEvery + 2
  BY LoopAssumption DEF LifeCap

LEMMA MemoryCapTyped ==
    ASSUME MemoryEvery # {}
    PROVE  MemoryCap \in Nat /\ \A m \in MemoryEvery : m <= MemoryCap
  <1>1. PICK x \in MemoryEvery : \A y \in MemoryEvery : y <= x
    BY LoopAssumption, LoopConstants, GreatestNat
  <1>2. \E m \in MemoryEvery \cup {MemoryIdle} : \A n \in MemoryEvery : n <= m
    BY <1>1
  <1>3. MemoryCap \in MemoryEvery \cup {MemoryIdle} /\ \A n \in MemoryEvery : n <= MemoryCap
    BY <1>2 DEF MemoryCap
  <1> QED BY <1>3, LoopConstants

LEMMA LowestTyped ==
    ASSUME MemoryEvery # {}
    PROVE  Lowest(MemoryEvery) \in Nat /\ \A m \in MemoryEvery : Lowest(MemoryEvery) <= m
  <1>1. PICK x \in MemoryEvery : \A y \in MemoryEvery : x <= y
    BY LoopConstants, LeastNat
  <1>2. Lowest(MemoryEvery) \in MemoryEvery /\ \A n \in MemoryEvery : Lowest(MemoryEvery) <= n
    BY <1>1 DEF Lowest
  <1> QED BY <1>2, LoopConstants

LEMMA LoInitInv == LoInit => LoInv
  <1> SUFFICES ASSUME LoInit PROVE LoInv
    OBVIOUS
  <1>1. MemoryEvery # {}
    BY DEF LoInit
  <1>2. /\ None \in Ages(KeepaliveEvery) /\ None \in Ages(MemoryCap) /\ None \in Ages(IdleCooldown)
        /\ 0 \in 0..AfterKeepalives
    BY <1>1, MemoryCapTyped, LoopConstants, Fresh
  <1>3. timers \in [keepalive : Ages(KeepaliveEvery), memory : Ages(MemoryCap)]
    BY <1>2 DEF LoInit
  <1>4. {idle, savedIdle} \subseteq [streak : 0..AfterKeepalives, clear : Ages(IdleCooldown)]
    BY <1>2 DEF LoInit
  <1>5. config \in [file : MemoryEvery, loaded : MemoryEvery, newer : BOOLEAN]
    BY DEF LoInit
  <1>6. LoTypeOK
    BY <1>2, <1>3, <1>4, <1>5 DEF LoInit, LoTypeOK
  <1>7. facts.wrong = {} /\ facts.life = 0 /\ facts.idleRun = 0 /\ facts.reminder = None
    BY DEF LoInit
  <1>8. 0 \in Nat /\ 0 <= 0
    OBVIOUS
  <1>9. FactsTyped
    BY <1>2, <1>8 DEF LoInit, FactsTyped
  <1> QED BY <1>2, <1>6, <1>7, <1>8, <1>9
       DEF LoInit, LoInv, TimersKept, QuietPoked, RemindersApart, ResetOnlyIdle, LifeTimed, ReminderTimed,
           StreakSeen

LEMMA SignalsInv ==
    ASSUME LoInv, NEW away \in BOOLEAN, NEW empty \in BOOLEAN, NEW cleared \in BOOLEAN,
           Signals(away, empty, cleared)
    PROVE  LoInv'
  <1> USE LoopConstants
  <1> DEFINE loaded == IF config.newer THEN config.file ELSE config.loaded
             poked == Pokes(timers)
             reminds == TimerDue(timers.memory, MemoryInterval(loaded, away))
             verdict == IdleVerdict(away, empty)
             fires == poked /\ verdict = "fire" /\ cleared
             idleRun == IF ~poked THEN facts.idleRun
                        ELSE IF away /\ empty THEN Least(facts.idleRun + 1, AfterKeepalives) ELSE 0
  <1>0. /\ LoTypeOK /\ LifeTimed /\ ReminderTimed /\ StreakSeen /\ FactsTyped
        /\ "rushed" \notin facts.wrong /\ "hasty" \notin facts.wrong
    BY DEF LoInv, TimersKept, RemindersApart, ResetOnlyIdle
  <1>1. /\ loopStage = "runs" /\ loopStage' = "check"
        /\ config' = [config EXCEPT !.loaded = loaded, !.newer = FALSE]
        /\ timers' = [keepalive |-> KeepaliveTimer(timers),
                      memory |-> IF reminds THEN 0 ELSE timers.memory]
        /\ idle' = IF poked THEN [streak |-> StreakAfter(verdict, fires),
                                  clear |-> IF fires THEN 0 ELSE idle.clear]
                   ELSE idle
        /\ facts'.life = (IF poked THEN 0 ELSE facts.life)
        /\ facts'.reminder = (IF reminds THEN 0 ELSE facts.reminder)
        /\ facts'.idleRun = (IF fires THEN 0 ELSE idleRun)
        /\ facts'.wrong = facts.wrong
              \cup {"rushed" : x \in {1 : y \in {z \in {facts.reminder} :
                        reminds /\ Within(z, Lowest(MemoryEvery))}}}
              \cup {"hasty" : x \in {z \in {idleRun} : fires /\ z < AfterKeepalives}}
              \cup {"worked" : x \in {z \in {facts.acked} : fires /\ z}}
        /\ UNCHANGED <<lastAck, savedIdle>>
    BY DEF Signals, KeptOnReload
  <1>2. /\ config.file \in MemoryEvery /\ config.loaded \in MemoryEvery /\ MemoryEvery # {}
        /\ timers.keepalive \in Ages(KeepaliveEvery) /\ timers.memory \in Ages(MemoryCap)
        /\ lastAck \in Ages(KeepaliveEvery) /\ idle \in Streaks /\ savedIdle \in Streaks
    BY <1>0 DEF LoTypeOK, Streaks
  <1>3. loaded \in MemoryEvery
    BY <1>2
  <1>4. config' \in [file : MemoryEvery, loaded : MemoryEvery, newer : BOOLEAN]
    <2> HIDE DEF loaded
    <2> QED BY <1>0, <1>1, <1>3 DEF LoTypeOK
  <1>5. timers' \in [keepalive : Ages(KeepaliveEvery), memory : Ages(MemoryCap)]
    <2>1. 0 \in Ages(KeepaliveEvery) /\ 0 \in Ages(MemoryCap)
      BY <1>2, MemoryCapTyped, Fresh
    <2> HIDE DEF reminds
    <2> QED BY <1>1, <1>2, <2>1 DEF KeepaliveTimer
  <1>6. ~poked => facts.life < KeepaliveEvery /\ (timers.keepalive # None \/ lastAck # None)
    BY <1>0, <1>2 DEF LifeTimed, Pokes, TimerDue, Ages, None
  <1>7. LifeTimed' /\ QuietPoked'
    <2>1. timers'.keepalive = (IF poked THEN 0 ELSE timers.keepalive)
      BY <1>1 DEF KeepaliveTimer
    <2>2. CASE poked
      <3>1. timers'.keepalive = 0 /\ facts'.life = 0 /\ lastAck' = lastAck
        BY <1>1, <2>1, <2>2
      <3> QED BY <1>2, <3>1 DEF LifeTimed, QuietPoked, Ages, None
    <2>3. CASE ~poked
      <3>1. timers'.keepalive = timers.keepalive /\ facts'.life = facts.life /\ lastAck' = lastAck
        BY <1>1, <2>1, <2>3
      <3> QED BY <1>0, <1>6, <2>3, <3>1 DEF LifeTimed, QuietPoked
    <2> QED BY <2>2, <2>3
  <1>8. ReminderTimed'
    BY <1>0, <1>1 DEF ReminderTimed
  <1>9. ~(reminds /\ Within(facts.reminder, Lowest(MemoryEvery)))
    <2>1. Lowest(MemoryEvery) \in Nat /\ Lowest(MemoryEvery) <= loaded /\ loaded \in Nat
      BY <1>2, <1>3, LowestTyped
    <2>2. MemoryInterval(loaded, away) \in Nat /\ loaded <= MemoryInterval(loaded, away)
      BY <2>1 DEF MemoryInterval
    <2>3. timers.memory # None => timers.memory \in Nat
      BY <1>2, MemoryCapTyped DEF Ages, None
    <2> HIDE DEF loaded
    <2> QED BY <1>0, <2>1, <2>2, <2>3 DEF TimerDue, Within, ReminderTimed
  <1>10. facts.idleRun \in 0..AfterKeepalives /\ idle.streak \in 0..AfterKeepalives /\ idle.streak <= facts.idleRun
    BY <1>0, <1>2 DEF StreakSeen, Streaks
  <1>11. fires => away /\ empty /\ poked /\ idle.streak + 1 >= AfterKeepalives
    BY DEF IdleVerdict
  <1>12. idleRun \in 0..AfterKeepalives
    BY <1>10 DEF Least
  <1>13. ~(fires /\ idleRun < AfterKeepalives)
    <2>1. fires => idleRun = Least(facts.idleRun + 1, AfterKeepalives) /\ idle.streak + 1 >= AfterKeepalives
      BY <1>11
    <2> HIDE DEF fires, idleRun
    <2> QED BY <1>10, <1>12, <2>1 DEF Least
  <1>14. RemindersApart' /\ ResetOnlyIdle'
    <2> HIDE DEF reminds, fires, idleRun
    <2> QED BY <1>0, <1>1, <1>9, <1>13 DEF RemindersApart, ResetOnlyIdle
  <1>15. idle'.streak \in 0..AfterKeepalives /\ idle' \in Streaks /\ idle'.streak <= facts'.idleRun
    <2>1. CASE ~poked
      <3>1. idle' = idle /\ facts'.idleRun = facts.idleRun
        BY <1>1, <2>1
      <3> QED BY <1>2, <1>10, <3>1
    <2>2. CASE poked /\ (verdict = "not_idle" \/ fires)
      <3>1. idle' = [streak |-> 0, clear |-> IF fires THEN 0 ELSE idle.clear]
        BY <1>1, <2>2 DEF StreakAfter
      <3>2. 0 \in Ages(IdleCooldown) /\ 0 \in 0..AfterKeepalives /\ idle.clear \in Ages(IdleCooldown)
        BY <1>2, Fresh DEF Streaks
      <3>3. idle' \in Streaks /\ idle'.streak = 0
        <4> HIDE DEF fires
        <4> QED BY <3>1, <3>2 DEF Streaks
      <3>4. facts'.idleRun \in 0..AfterKeepalives
        <4> HIDE DEF fires, idleRun
        <4> QED BY <1>1, <1>12, <3>2
      <3> QED BY <3>2, <3>3, <3>4
    <2>3. CASE poked /\ verdict = "accumulate"
      <3>1. ~fires /\ away /\ empty
        BY <2>3 DEF IdleVerdict
      <3>2. /\ idle' = [streak |-> Least(idle.streak + 1, AfterKeepalives), clear |-> idle.clear]
            /\ facts'.idleRun = Least(facts.idleRun + 1, AfterKeepalives)
        BY <1>1, <2>3, <3>1 DEF StreakAfter
      <3>3. /\ Least(idle.streak + 1, AfterKeepalives) \in 0..AfterKeepalives
            /\ Least(idle.streak + 1, AfterKeepalives) <= Least(facts.idleRun + 1, AfterKeepalives)
        BY <1>10 DEF Least
      <3> QED BY <1>2, <3>2, <3>3 DEF Streaks
    <2>4. CASE poked /\ verdict = "fire" /\ ~fires
      <3>1. away /\ empty
        BY <2>4 DEF IdleVerdict
      <3>2. /\ idle' = [streak |-> idle.streak, clear |-> idle.clear]
            /\ facts'.idleRun = Least(facts.idleRun + 1, AfterKeepalives)
        BY <1>1, <2>4, <3>1 DEF StreakAfter
      <3>3. idle.streak <= Least(facts.idleRun + 1, AfterKeepalives)
        BY <1>10 DEF Least
      <3> QED BY <1>2, <1>10, <3>2, <3>3 DEF Streaks
    <2>5. verdict \in {"not_idle", "accumulate", "fire"}
      BY DEF IdleVerdict
    <2> HIDE DEF poked, verdict, fires, idleRun
    <2> QED BY <2>1, <2>2, <2>3, <2>4, <2>5
  <1>16. facts'.idleRun \in 0..AfterKeepalives
    <2>1. 0 \in 0..AfterKeepalives
      OBVIOUS
    <2> HIDE DEF fires, idleRun
    <2> QED BY <1>1, <1>12, <2>1
  <1>18. FactsTyped'
    <2>1. facts'.life \in Nat /\ facts'.reminder \in Ages(MemoryCap)
      <3>1. 0 \in Nat /\ 0 \in Ages(MemoryCap) /\ facts.life \in Nat /\ facts.reminder \in Ages(MemoryCap)
        BY <1>0, <1>2, MemoryCapTyped, Fresh DEF FactsTyped
      <3> HIDE DEF poked, reminds
      <3> QED BY <1>1, <3>1
    <2>2. facts'.acked \in BOOLEAN
      <3>1. facts'.acked = (IF poked /\ idleRun <= 1 THEN FALSE ELSE facts.acked)
        BY DEF Signals, KeptOnReload
      <3>2. facts.acked \in BOOLEAN
        BY <1>0 DEF FactsTyped
      <3> HIDE DEF poked, idleRun
      <3> QED BY <3>1, <3>2
    <2>3. facts'.wrong \in SUBSET {"rushed", "hasty", "worked"}
      <3>1. facts.wrong \subseteq {"rushed", "hasty", "worked"}
        BY <1>0 DEF FactsTyped
      <3> HIDE DEF reminds, fires, idleRun
      <3> QED BY <1>1, <3>1
    <2>4. facts' = [life |-> facts'.life, reminder |-> facts'.reminder, idleRun |-> facts'.idleRun,
                    acked |-> facts'.acked, wrong |-> facts'.wrong]
      BY DEF Signals
    <2> HIDE DEF poked, reminds, fires, idleRun
    <2> QED BY <1>16, <2>1, <2>2, <2>3, <2>4 DEF FactsTyped
  <1>17. LoTypeOK'
    BY <1>1, <1>2, <1>4, <1>5, <1>15 DEF LoTypeOK, Streaks
  <1> QED BY <1>7, <1>8, <1>14, <1>15, <1>16, <1>17, <1>18 DEF LoInv, TimersKept, StreakSeen

LEMMA ChecksDoneInv == ASSUME LoInv, ChecksDone PROVE LoInv'
  <1> USE LoopConstants
  <1>0. /\ LoTypeOK /\ LifeTimed /\ ReminderTimed /\ StreakSeen /\ QuietPoked /\ FactsTyped
        /\ "rushed" \notin facts.wrong /\ "hasty" \notin facts.wrong
    BY DEF LoInv, TimersKept, RemindersApart, ResetOnlyIdle
  <1>1. /\ loopStage = "check" /\ loopStage' = "runs"
        /\ idle' = [idle EXCEPT !.clear = Older(@, IdleCooldown)] /\ savedIdle' = idle'
        /\ timers' = [keepalive |-> Older(timers.keepalive, KeepaliveEvery),
                      memory |-> Older(timers.memory, MemoryCap)]
        /\ lastAck' = Older(lastAck, KeepaliveEvery)
        /\ facts' = [facts EXCEPT !.life = Least(@ + 1, LifeCap), !.reminder = Older(@, MemoryCap)]
        /\ UNCHANGED config
    BY DEF ChecksDone
  <1>2. /\ timers.keepalive \in Ages(KeepaliveEvery) /\ timers.memory \in Ages(MemoryCap)
        /\ lastAck \in Ages(KeepaliveEvery) /\ idle \in Streaks /\ MemoryEvery # {}
    BY <1>0 DEF LoTypeOK, Streaks
  <1>3. /\ Older(timers.keepalive, KeepaliveEvery) \in Ages(KeepaliveEvery)
        /\ Older(timers.memory, MemoryCap) \in Ages(MemoryCap)
        /\ Older(lastAck, KeepaliveEvery) \in Ages(KeepaliveEvery)
        /\ Older(idle.clear, IdleCooldown) \in Ages(IdleCooldown)
    BY <1>2, MemoryCapTyped, TickTyped DEF Streaks
  <1>4. idle' \in Streaks /\ savedIdle' \in Streaks /\ idle'.streak = idle.streak
    BY <1>1, <1>2, <1>3 DEF Streaks
  <1>5. LoTypeOK'
    BY <1>0, <1>1, <1>3, <1>4 DEF LoTypeOK, Streaks
  <1>6. ReminderTimed' /\ StreakSeen' /\ facts'.wrong = facts.wrong /\ facts'.life = Least(facts.life + 1, LifeCap)
    <2>1. /\ facts'.reminder = Older(facts.reminder, MemoryCap) /\ facts'.idleRun = facts.idleRun
          /\ facts'.wrong = facts.wrong /\ facts'.life = Least(facts.life + 1, LifeCap)
      BY <1>1 DEF FactsTyped
    <2> QED BY <1>0, <1>1, <1>4, <2>1 DEF ReminderTimed, StreakSeen
  <1>7. facts.life \in Nat /\ facts.life < KeepaliveEvery /\ facts'.life = facts.life + 1
    BY <1>0, <1>1, <1>6 DEF LifeTimed, QuietPoked, Least
  <1>8. LifeTimed'
    <2>1. timers'.keepalive = Older(timers.keepalive, KeepaliveEvery)
      BY <1>1
    <2>2. timers'.keepalive # None => facts'.life <= timers'.keepalive
      BY <1>0, <1>2, <1>7, <2>1 DEF LifeTimed, Older, Least, Ages, None
    <2>3. lastAck' # None => facts'.life <= lastAck'
      BY <1>0, <1>1, <1>2, <1>7 DEF LifeTimed, Older, Least, Ages, None
    <2>4. ~(timers'.keepalive = None /\ lastAck' = None)
      BY <1>0, <1>1, <1>2, <2>1, TickTyped DEF LifeTimed
    <2> QED BY <1>7, <2>2, <2>3, <2>4 DEF LifeTimed
  <1>9. FactsTyped'
    <2>1. facts'.life \in Nat /\ Older(facts.reminder, MemoryCap) \in Ages(MemoryCap)
      BY <1>0, <1>2, <1>7, MemoryCapTyped, TickTyped DEF FactsTyped
    <2>2. facts' = [facts EXCEPT !.life = facts'.life, !.reminder = Older(facts.reminder, MemoryCap)]
      BY <1>0, <1>1 DEF FactsTyped
    <2> QED BY <1>0, <2>1, <2>2 DEF FactsTyped
  <1> QED BY <1>0, <1>1, <1>5, <1>6, <1>8, <1>9 DEF LoInv, TimersKept, QuietPoked, RemindersApart, ResetOnlyIdle

LEMMA LoStepInv == ASSUME LoInv, [LoNext]_loVars PROVE LoInv'
  <1> USE LoopConstants
  <1>0. /\ LoTypeOK /\ LifeTimed /\ ReminderTimed /\ StreakSeen /\ QuietPoked /\ FactsTyped
        /\ "rushed" \notin facts.wrong /\ "hasty" \notin facts.wrong
    BY DEF LoInv, TimersKept, RemindersApart, ResetOnlyIdle
  <1> USE <1>0
  <1>1. CASE LoopSeeds \/ \E m \in MemoryEvery : ConfigEdited(m)
    <2>1. UNCHANGED <<timers, lastAck, idle, savedIdle, facts>> /\ (loopStage' = "check" => loopStage = "check")
          /\ loopStage' \in {"seed", "runs", "check"}
      BY <1>1 DEF LoopSeeds, ConfigEdited, LoTypeOK
    <2>2. config' \in [file : MemoryEvery, loaded : MemoryEvery, newer : BOOLEAN]
      BY <1>1 DEF LoopSeeds, ConfigEdited, LoTypeOK
    <2> QED BY <2>1, <2>2
         DEF LoInv, TimersKept, LoTypeOK, QuietPoked, RemindersApart, ResetOnlyIdle, LifeTimed, ReminderTimed, StreakSeen,
             FactsTyped
  <1>2. CASE Acks
    <2>1. lastAck' = 0 /\ UNCHANGED <<config, loopStage, timers, idle, savedIdle>>
      BY <1>2 DEF Acks
    <2>2. /\ facts'.life = 0 /\ facts'.reminder = facts.reminder /\ facts'.idleRun = facts.idleRun
          /\ facts'.wrong = facts.wrong
      BY <1>2 DEF Acks, FactsTyped
    <2>3. lastAck' \in Ages(KeepaliveEvery) /\ lastAck' # None
      BY <2>1, Fresh DEF None
    <2>4. timers.keepalive \in Ages(KeepaliveEvery)
      BY DEF LoTypeOK
    <2>5. LifeTimed'
      BY <2>1, <2>2, <2>3, <2>4 DEF LifeTimed, Ages, None
    <2>6. QuietPoked'
      BY <2>2 DEF QuietPoked
    <2>7. FactsTyped'
      BY <1>2 DEF Acks, FactsTyped
    <2> QED BY <2>1, <2>2, <2>3, <2>5, <2>6, <2>7
         DEF LoInv, TimersKept, LoTypeOK, RemindersApart, ResetOnlyIdle, ReminderTimed, StreakSeen
  <1>3. CASE LoopRestarts
    <2>1. /\ loopStage' = "seed" /\ config' = [config EXCEPT !.loaded = config.file]
          /\ timers' = [keepalive |-> None, memory |-> None] /\ idle' = savedIdle
          /\ UNCHANGED <<lastAck, savedIdle>>
      BY <1>3 DEF LoopRestarts
    <2>2. /\ facts'.life = 0 /\ facts'.reminder = None /\ facts'.idleRun = AfterKeepalives
          /\ facts'.wrong = facts.wrong
      BY <1>3 DEF LoopRestarts, FactsTyped
    <2>3. None \in Ages(KeepaliveEvery) /\ None \in Ages(MemoryCap)
      BY MemoryCapTyped, Fresh DEF LoTypeOK
    <2>4. LoTypeOK'
      BY <2>1, <2>3 DEF LoTypeOK
    <2>5. lastAck # None => 0 <= lastAck
      BY DEF LoTypeOK, Ages, None
    <2>6. savedIdle.streak \in 0..AfterKeepalives
      BY DEF LoTypeOK
    <2>7. StreakSeen'
      BY <2>1, <2>2, <2>6 DEF StreakSeen
    <2>8. LifeTimed'
      BY <2>1, <2>2, <2>5 DEF LifeTimed
    <2>9. FactsTyped'
      <3>1. 0 \in Nat /\ AfterKeepalives \in 0..AfterKeepalives
        OBVIOUS
      <3> QED BY <1>3, <2>3, <3>1 DEF LoopRestarts, FactsTyped
    <2> QED BY <2>1, <2>2, <2>4, <2>7, <2>8, <2>9
         DEF LoInv, TimersKept, QuietPoked, RemindersApart, ResetOnlyIdle, ReminderTimed
  <1>4. CASE UNCHANGED loVars
    BY <1>4 DEF loVars, LoInv, TimersKept, LoTypeOK, QuietPoked, RemindersApart, ResetOnlyIdle, LifeTimed,
                ReminderTimed, StreakSeen, FactsTyped
  <1> QED BY <1>1, <1>2, <1>3, <1>4, SignalsInv, ChecksDoneInv DEF LoNext

(* A quiet session is poked every interval, reminders keep their distance and *)
(* only an idle session is reset, through edits, restarts and acks: for all   *)
(* intervals that the configuration may hold.                                 *)
THEOREM TimersKeptEach == LoSpec => []TimersKept
  <1>1. LoInv => TimersKept
    BY DEF LoInv
  <1> QED BY LoInitInv, LoStepInv, <1>1, PTL DEF LoSpec

-----------------------------------------------------------------------------
(* WatcherStatus.  Every poller is on record in a lock file; a monitor that   *)
(* has come up left a record no older than the instruction; nobody pins the   *)
(* field while the base file is rewritten; and a switch that was reported is  *)
(* what the base file has, with nothing above it.                             *)
PollersOnRecord == \A p \in Pids : Poller(p) => p \in {names["uid.lock"], names["run.lock"]}
RecordedSince == came => youngest <= intent
FieldFree == toggle # "no" => pin = "none"
HeededWritten == heeded # "none" => toggle = "no" /\ pin = "none" /\ base = heeded
Lives == [what : {"none", "poller", "zombie", "mention"}, age : 0 .. Settled]
WsInv == StatusTrue /\ PollersOnRecord /\ RecordedSince /\ FieldFree /\ HeededWritten

LEMMA StatusConstants == Grace \in Nat /\ Grace > 0 /\ IsFiniteSet(Pids) /\ NoPid \notin Pids /\ OldAge \in Nat
  BY StatusAssumption DEF OldAge

LEMMA WsInitInv == WsInit => WsInv
  <1> SUFFICES ASSUME WsInit PROVE WsInv
    OBVIOUS
  <1>1. WsTypeOK
    <2>1. NoPoller \in [what : {"none", "poller", "zombie", "mention"}, age : 0 .. Settled]
      BY DEF NoPoller, Process, Settled
    <2>2. running \in [Pids -> [what : {"none", "poller", "zombie", "mention"}, age : 0 .. Settled]]
      BY <2>1 DEF WsInit
    <2>3. OldAge \in 0 .. OldAge
      BY StatusConstants
    <2> QED BY <2>2, <2>3 DEF WsInit, WsTypeOK, NotLooking
  <1>2. PollersOnRecord
    BY DEF WsInit, PollersOnRecord, Poller, NoPoller, Process
  <1> QED BY <1>1, <1>2
       DEF WsInit, WsInv, StatusTrue, RunningIsUp, GoneIsDown, DuplicatesAreReal, ArmingIsPending,
           SwitchHolds, CountsAsRunning, RecordedSince, FieldFree, HeededWritten

(* A step that says nothing leaves what the answers must be as it is. *)
LEMMA QuietTrue ==
    ASSUME Quiet, WsTypeOK', HeededWritten'
    PROVE  StatusTrue'
  BY DEF Quiet, StatusTrue, RunningIsUp, GoneIsDown, DuplicatesAreReal, ArmingIsPending, SwitchHolds,
         CountsAsRunning, HeededWritten, Enabled

(* What is on record is a pid, and both directories are always read. *)
LEMMA RecordsRead ==
    ASSUME WsTypeOK, NEW xdg
    PROVE  /\ OnRecord(xdg) \subseteq Pids
           /\ \A p \in Pids : p \in {names["uid.lock"], names["run.lock"]} => p \in OnRecord(xdg)
  <1>1. PidDirs(xdg) = {"uid", "run"}
    BY DEF PidDirs
  <1>2. FilesOf("uid") = {"uid.lock"} /\ FilesOf("run") = {"run.lock", "run.pid"}
    BY DEF FilesOf
  <1>3. UNION {FilesOf(d) : d \in PidDirs(xdg)} = RecordFiles
    BY <1>1, <1>2 DEF RecordFiles
  <1>4. \A f \in RecordFiles : names[f] \in Pids \cup {NoPid}
    BY DEF WsTypeOK
  <1> QED BY <1>3, <1>4, StatusConstants DEF OnRecord, RecordFiles

LEMMA AnswerTrue == ASSUME WsInv, Answers PROVE WsInv'
  <1> DEFINE up == \E p \in OnRecord(look.xdg) : Matches(p)
             settled == {p \in Pids : Poller(p) /\ running[p].age = Settled}
  <1>0. WsTypeOK
    BY DEF WsInv, StatusTrue
  <1>1. /\ answer' = Answer(look.pids, look.xdg)
        /\ UNCHANGED <<running, names, youngest, intent, came, mode, base, pin, toggle, heeded>>
    BY DEF Answers, live, layers
  <1>2. \/ answer' = "ARMING" /\ ~up /\ Arming
        \/ answer' = "DOWN" /\ ~up
        \/ answer' = "DUPLICATE" /\ up /\ Cardinality(StablePids(look.pids)) > 1
        \/ answer' = "ok" /\ up
    BY <1>1 DEF Answer, Down
  <1>3. WsTypeOK'
    BY <1>1, <1>2 DEF WsInv, StatusTrue, WsTypeOK, Answers, NotLooking
  <1>4. RunningIsUp'
    <2>1. ASSUME NEW p \in Listed PROVE up
      BY <1>0, <2>1, RecordsRead DEF WsInv, PollersOnRecord, Listed, Candidates, Poller, Matches
    <2>2. Listed' = Listed
      BY <1>1 DEF Listed, Candidates, Poller
    <2> HIDE DEF up
    <2> QED BY <1>2, <2>1, <2>2 DEF RunningIsUp, CountsAsRunning
  <1>5. GoneIsDown'
    <2>1. ASSUME up PROVE \E p \in Pids : Poller(p) \/ running[p].what = "mention"
      BY <1>0, <2>1, RecordsRead DEF Matches, Poller
    <2>2. (\E p \in Pids : Poller(p) \/ running[p].what = "mention")' <=> (\E p \in Pids : Poller(p) \/ running[p].what = "mention")
      BY <1>1 DEF Poller
    <2> HIDE DEF up
    <2> QED BY <1>2, <2>1, <2>2 DEF GoneIsDown, CountsAsRunning
  <1>6. DuplicatesAreReal'
    <2>1. StablePids(look.pids) \subseteq settled
      BY <1>0 DEF StablePids, WsTypeOK, Settled
    <2>2. IsFiniteSet(settled)
      BY StatusConstants, FS_Subset
    <2>3. /\ Cardinality(settled) \in Nat /\ Cardinality(StablePids(look.pids)) \in Nat
          /\ Cardinality(StablePids(look.pids)) <= Cardinality(settled)
      BY <2>1, <2>2, FS_Subset, FS_CardinalityType
    <2>4. settled' = settled
      BY <1>1 DEF Poller
    <2> HIDE DEF settled
    <2>5. answer' = "DUPLICATE" => Cardinality(settled) > 1
      BY <1>2, <2>3
    <2> QED BY <2>4, <2>5 DEF DuplicatesAreReal, settled
  <1>7. ArmingIsPending'
    BY <1>0, <1>1, <1>2 DEF WsInv, WsTypeOK, RecordedSince, Arming, ArmingIsPending
  <1>8. SwitchHolds' /\ PollersOnRecord' /\ RecordedSince' /\ FieldFree' /\ HeededWritten'
    BY <1>1 DEF WsInv, StatusTrue, SwitchHolds, Enabled, PollersOnRecord, Poller, RecordedSince,
                FieldFree, HeededWritten
  <1> QED BY <1>3, <1>4, <1>5, <1>6, <1>7, <1>8 DEF WsInv, StatusTrue

LEMMA WsStepInv == ASSUME WsInv, [WsNext]_wsVars PROVE WsInv'
  <1>0. WsTypeOK /\ HeededWritten /\ FieldFree /\ RecordedSince /\ PollersOnRecord
    BY DEF WsInv, StatusTrue
  <1>a. /\ running \in [Pids -> Lives] /\ names \in [RecordFiles -> Pids \cup {NoPid}]
        /\ NoPoller \in Lives /\ \A what \in {"none", "poller", "zombie", "mention"} : Process(what, 0) \in Lives
    BY <1>0 DEF WsTypeOK, Lives, NoPoller, Process, Settled
  <1>1. ASSUME NEW p \in Pids, NEW f \in RecordFiles, ComesUp(p, f) PROVE WsInv'
    <2>1. /\ running[p] = NoPoller /\ f \in {"uid.lock", "run.lock"} /\ (names[f] # NoPid => ~Poller(names[f]))
          /\ running' = [running EXCEPT ![p] = Process("poller", 0)]
          /\ youngest' = 0 /\ Quiet /\ UNCHANGED <<intent, mode, base, pin, toggle, heeded, look>>
          /\ came' \in BOOLEAN
      BY <1>1 DEF ComesUp, layers
    <2>2. /\ names' \in [RecordFiles -> Pids \cup {NoPid}]
          /\ names'[f] = p /\ \A g \in {"uid.lock", "run.lock"} \ {f} : names'[g] = names[g]
      BY <1>1, <1>a, <2>1 DEF ComesUp, Stamped, RecordFiles
    <2>3. WsTypeOK'
      <3>1. running' \in [Pids -> Lives]
        BY <1>a, <2>1
      <3> QED BY <1>0, <2>1, <2>2, <3>1, StatusConstants DEF WsTypeOK, Lives, Quiet
    <2>4. PollersOnRecord'
      <3> SUFFICES ASSUME NEW q \in Pids, Poller(q)' PROVE q \in {names'["uid.lock"], names'["run.lock"]}
        BY DEF PollersOnRecord
      <3>1. CASE q = p
        BY <2>1, <2>2, <3>1
      <3>2. CASE q # p
        <4>1. Poller(q) /\ q # NoPid
          BY <1>a, <2>1, <3>2, StatusConstants DEF Poller
        <4>2. q # names[f]
          BY <2>1, <4>1
        <4> QED BY <1>0, <2>1, <2>2, <4>1, <4>2 DEF PollersOnRecord
      <3> QED BY <3>1, <3>2
    <2>5. RecordedSince' /\ FieldFree' /\ HeededWritten'
      BY <1>0, <2>1 DEF WsTypeOK, RecordedSince, FieldFree, HeededWritten
    <2> QED BY <2>1, <2>3, <2>4, <2>5, QuietTrue DEF WsInv
  <1>2. ASSUME NEW p \in Pids, PollerDies(p) PROVE WsInv'
    <2>1. Poller(p) /\ Quiet /\ UNCHANGED <<intent, came, mode, base, pin, toggle, heeded, look>>
      BY <1>2 DEF PollerDies, layers
    <2>2. \/ /\ \E end \in {"none", "zombie"} : running' = [running EXCEPT ![p] = Process(end, 0)]
             /\ UNCHANGED <<names, youngest>>
          \/ /\ running' = [running EXCEPT ![p] = NoPoller] /\ youngest' = 0
             /\ names' = [f \in RecordFiles |-> IF names[f] = p /\ f # "run.pid" THEN NoPid ELSE names[f]]
      BY <1>2 DEF PollerDies
    <2>3. /\ running' \in [Pids -> Lives] /\ ~Poller(p)'
          /\ \A q \in Pids \ {p} : running'[q] = running[q]
      BY <1>a, <2>2 DEF Poller, NoPoller, Process
    <2>4. /\ names' \in [RecordFiles -> Pids \cup {NoPid}]
          /\ \A g \in RecordFiles : names[g] # p => names'[g] = names[g]
      BY <1>a, <2>2
    <2>5. youngest' \in 0 .. OldAge /\ youngest' <= youngest
      BY <1>0, <2>2, StatusConstants DEF WsTypeOK
    <2>6. WsTypeOK'
      BY <1>0, <2>1, <2>3, <2>4, <2>5 DEF WsTypeOK, Lives, Quiet
    <2>7. PollersOnRecord'
      BY <1>0, <2>3, <2>4 DEF PollersOnRecord, Poller, RecordFiles
    <2>8. RecordedSince' /\ FieldFree' /\ HeededWritten'
      BY <1>0, <2>1, <2>5 DEF WsTypeOK, RecordedSince, FieldFree, HeededWritten
    <2> QED BY <2>1, <2>6, <2>7, <2>8, QuietTrue DEF WsInv
  <1>3. ASSUME NEW p \in Pids, Recycled(p) PROVE WsInv'
    <2>1. /\ ~Poller(p) /\ Quiet
          /\ UNCHANGED <<names, youngest, intent, came, mode, base, pin, toggle, heeded, look>>
      BY <1>3 DEF Recycled, layers
    <2>2. PICK what \in {"none", "mention"} : running' = [running EXCEPT ![p] = Process(what, 0)]
      BY <1>3 DEF Recycled
    <2>3. /\ running' \in [Pids -> Lives] /\ ~Poller(p)'
          /\ \A q \in Pids \ {p} : running'[q] = running[q]
      BY <1>a, <2>2 DEF Poller, Process
    <2>4. WsTypeOK'
      BY <1>0, <2>1, <2>3 DEF WsTypeOK, Lives, Quiet
    <2>5. PollersOnRecord'
      BY <1>0, <2>1, <2>3 DEF PollersOnRecord, Poller
    <2>6. RecordedSince' /\ FieldFree' /\ HeededWritten'
      BY <1>0, <2>1 DEF RecordedSince, FieldFree, HeededWritten
    <2> QED BY <2>1, <2>4, <2>5, <2>6, QuietTrue DEF WsInv
  <1>4. CASE MonitorArm
    <2>1. /\ intent' = 0 /\ came' = FALSE /\ Quiet
          /\ UNCHANGED <<running, names, youngest, mode, base, pin, toggle, heeded, look>>
      BY <1>4 DEF MonitorArm, layers
    <2>2. WsTypeOK' /\ PollersOnRecord' /\ RecordedSince' /\ FieldFree' /\ HeededWritten'
      <3>1. intent' \in 0 .. OldAge
        BY <2>1, StatusConstants
      <3> QED BY <1>0, <2>1, <3>1
         DEF WsTypeOK, Quiet, PollersOnRecord, Poller, RecordedSince, FieldFree, HeededWritten
    <2> QED BY <2>1, <2>2, QuietTrue DEF WsInv
  <1>5. CASE Tick
    <2>1. /\ running' = [p \in Pids |-> IF Poller(p) THEN Process("poller", Older(running[p].age, Settled))
                                        ELSE running[p]]
          /\ youngest' = Older(youngest, OldAge) /\ intent' = Older(intent, OldAge)
          /\ Quiet /\ UNCHANGED <<names, came, mode, base, pin, toggle, heeded, look>>
      BY <1>5 DEF Tick, layers
    <2>2. running' \in [Pids -> Lives] /\ \A p \in Pids : Poller(p)' => Poller(p)
      <3>1. \A p \in Pids : running[p].age \in 0 .. Settled => Older(running[p].age, Settled) \in 0 .. Settled
        BY DEF Older, Least, None, Settled
      <3>2. \A p \in Pids : Process("poller", Older(running[p].age, Settled)) \in Lives
        BY <1>a, <3>1 DEF Lives, Process
      <3> QED BY <1>a, <2>1, <3>2 DEF Poller
    <2>3. /\ youngest' \in 0 .. OldAge /\ intent' \in 0 .. OldAge
          /\ youngest <= intent => youngest' <= intent'
      BY <1>0, <2>1, StatusConstants DEF WsTypeOK, Older, Least, None
    <2>4. WsTypeOK'
      BY <1>0, <2>1, <2>2, <2>3 DEF WsTypeOK, Lives, Quiet
    <2>5. PollersOnRecord' /\ RecordedSince' /\ FieldFree' /\ HeededWritten'
      BY <1>0, <2>1, <2>2, <2>3 DEF PollersOnRecord, RecordedSince, FieldFree, HeededWritten
    <2> QED BY <2>1, <2>4, <2>5, QuietTrue DEF WsInv
  <1>6. ASSUME NEW want \in {"true", "false"}, Toggles(want) PROVE WsInv'
    <2>1. /\ ~Pinned /\ toggle' = want /\ base' = "cut" /\ heeded' = "none" /\ Quiet
          /\ UNCHANGED <<running, names, youngest, intent, came, mode, pin, look>>
      BY <1>6 DEF Toggles, live
    <2>2. WsTypeOK' /\ PollersOnRecord' /\ RecordedSince' /\ FieldFree' /\ HeededWritten'
      BY <1>0, <2>1 DEF WsTypeOK, Quiet, PollersOnRecord, Poller, RecordedSince, FieldFree, HeededWritten, Pinned
    <2> QED BY <2>1, <2>2, QuietTrue DEF WsInv
  <1>7. CASE WritesLayer
    <2>1. /\ toggle # "no" /\ base' = toggle /\ toggle' = "no" /\ heeded' = toggle /\ Quiet
          /\ UNCHANGED <<names, youngest, intent, came, mode, pin, look>>
      BY <1>7 DEF WritesLayer
    <2>2. running' \in [Pids -> Lives] /\ \A p \in Pids : Poller(p)' => Poller(p)
      <3>1. PICK signalled : running' = [p \in Pids |-> IF p \in signalled THEN NoPoller ELSE running[p]]
        BY <1>7 DEF WritesLayer
      <3> QED BY <1>a, <3>1 DEF Poller, NoPoller, Process
    <2>3. WsTypeOK'
      BY <1>0, <2>1, <2>2 DEF WsTypeOK, Lives, Quiet
    <2>4. PollersOnRecord' /\ RecordedSince' /\ FieldFree' /\ HeededWritten'
      BY <1>0, <2>1, <2>2 DEF PollersOnRecord, RecordedSince, FieldFree, HeededWritten
    <2> QED BY <2>1, <2>3, <2>4, QuietTrue DEF WsInv
  <1>8. CASE Edits
    <2>1. /\ toggle = "no" /\ pin' \in {"none", "true", "false"} /\ heeded' = "none" /\ Quiet
          /\ UNCHANGED <<running, names, youngest, intent, came, mode, base, toggle, look>>
      BY <1>8 DEF Edits, live
    <2>2. WsTypeOK' /\ PollersOnRecord' /\ RecordedSince' /\ FieldFree' /\ HeededWritten'
      BY <1>0, <2>1 DEF WsTypeOK, Quiet, PollersOnRecord, Poller, RecordedSince, FieldFree, HeededWritten
    <2> QED BY <2>1, <2>2, QuietTrue DEF WsInv
  <1>9. ASSUME NEW xdg \in BOOLEAN, LooksUp(xdg) PROVE WsInv'
    <2>1. UNCHANGED <<running, names, youngest, intent, came, mode, base, pin, toggle, heeded>>
      BY <1>9 DEF LooksUp, live, layers
    <2>2. \/ Quiet /\ look' = [at |-> "processes", pids |-> Listed, xdg |-> xdg]
          \/ look' = look /\ answer' \in {"off", "missing"}
      BY <1>9 DEF LooksUp
    <2>3. WsTypeOK'
      BY <1>0, <2>1, <2>2 DEF WsTypeOK, Quiet, Listed, Candidates
    <2>4. PollersOnRecord' /\ RecordedSince' /\ FieldFree' /\ HeededWritten'
      BY <1>0, <2>1 DEF PollersOnRecord, Poller, RecordedSince, FieldFree, HeededWritten
    <2>5. RunningIsUp' /\ GoneIsDown' /\ DuplicatesAreReal' /\ ArmingIsPending' /\ SwitchHolds'
      BY <2>2, <2>4 DEF Quiet, RunningIsUp, GoneIsDown, DuplicatesAreReal, ArmingIsPending, SwitchHolds,
                        CountsAsRunning, HeededWritten, Enabled
    <2> QED BY <2>3, <2>4, <2>5 DEF WsInv, StatusTrue
  <1>10. CASE UNCHANGED wsVars
    <2>1. UNCHANGED <<running, names, youngest, intent, came, mode, base, pin, toggle, heeded, look, answer>>
      BY <1>10 DEF wsVars
    <2>2. RunningIsUp' /\ GoneIsDown' /\ DuplicatesAreReal' /\ ArmingIsPending' /\ SwitchHolds' /\ WsTypeOK'
      BY <2>1 DEF WsInv, StatusTrue, WsTypeOK, RunningIsUp, GoneIsDown, DuplicatesAreReal, ArmingIsPending,
                  SwitchHolds, CountsAsRunning, Enabled, Listed, Candidates, Poller
    <2> QED BY <1>0, <2>1, <2>2 DEF WsInv, StatusTrue, PollersOnRecord, Poller, RecordedSince, FieldFree, HeededWritten
  <1> QED BY <1>1, <1>2, <1>3, <1>4, <1>5, <1>6, <1>7, <1>8, <1>9, <1>10, AnswerTrue DEF WsNext

(* The status is right about a watcher that runs, one that is gone, one that  *)
(* has duplicates and one that is only asked for, and a switch holds, for any *)
(* number of processes and any grace.                                         *)
THEOREM StatusTrueEach == WsSpec => []StatusTrue
  <1>1. WsInv => StatusTrue
    BY DEF WsInv
  <1> QED BY WsInitInv, WsStepInv, <1>1, PTL DEF WsSpec

-----------------------------------------------------------------------------
(* A session that falls silent is resumed, once: by the recovery of a session *)
(* that was restarted or cleared, and by the two checks of a session that     *)
(* acks nothing, for all windows, cooldowns and tiers.                        *)
THEOREM SilenceEndsEach == MaxHeld > 0 => (Spec => []SilenceEnds)
  <1> SUFFICES ASSUME MaxHeld > 0 PROVE Spec => []SilenceEnds
    OBVIOUS
  <1>1. SaSpec => []SaGood
    BY SaAlways
  <1>2. SrGood /\ SaGood => SilenceEnds
    BY DEF SrGood, SaGood, SilenceEnds
  <1> QED BY Parts, SrAlways, <1>1, <1>2, PTL

-----------------------------------------------------------------------------
(* DeskStreak.  A sidecar, and the fold of the samples, hold a run that passes *)
(* have witnessed, and a longest run of the week within that of all time.     *)
StreakStates == [runStart : 0..Horizon, weeklyMax : 0..Horizon, weekStart : 0..2,
                 alltimeMax : 0..Horizon, lastSample : 0..Horizon, lastPresent : BOOLEAN]
Bridged(from, to, P) == \A t \in from..to - 1 : \E u \in t + 1..t + MaxGap : u \in P
Seen(s, P) == s.runStart # Never =>
    s.runStart <= s.lastSample /\ s.runStart \in P /\ s.lastSample \in P /\ Bridged(s.runStart, s.lastSample, P)
Sound(s, P) == s \in StreakStates /\ s.weeklyMax <= s.alltimeMax /\ Seen(s, P)

DsInv ==
    /\ DsTypeOK /\ shown.at <= now
    /\ scraped.minutes \subseteq 1..now /\ scraped.atDesk \subseteq passes /\ passes \subseteq 1..now
    /\ Sound(sidecar, passes) /\ sidecar.lastSample <= shown.at
    /\ RunWitnessed /\ MaximaHold
    /\ ~forgotten => /\ sidecar.alltimeMax = shown.alltimeMax /\ sidecar.weeklyMax = shown.weeklyMax
                     /\ shown.at # 0 => sidecar.weekStart = WeekOf(shown.at)

LEMMA DsConstants == /\ Horizon \in Nat \ {0} /\ MaxGap \in Nat \ {0} /\ WeekEnd \in Nat \ {0}
  BY StreakAssumption

LEMMA NoneSound == \A P : Sound(NoStreak, P) /\ NoStreak.lastSample = 0
  BY DsConstants DEF Sound, Seen, NoStreak, StreakStates, Never

(* One more sample. *)
LEMMA OneMore ==
    ASSUME NEW s, NEW P, Sound(s, P), NEW t \in 1..Horizon, s.lastSample < t, NEW here \in BOOLEAN, here => t \in P
    PROVE  LET next == AdvanceStreak(s, here, t) IN
           /\ Sound(next, P) /\ next.lastSample = t /\ next.weekStart = WeekOf(t)
           /\ next.runStart \in {Never} \cup 1..t
           /\ Current(next, t) <= next.weeklyMax
           /\ Current(next, t) \in 0..Horizon
  <1> DEFINE start == RunStart(s, t)
             cur == IF here THEN t - start ELSE 0
             next == AdvanceStreak(s, here, t)
  <1>1. s \in StreakStates /\ s.weeklyMax <= s.alltimeMax /\ Seen(s, P)
    BY DEF Sound
  <1>2. /\ s.runStart \in 0..Horizon /\ s.weeklyMax \in 0..Horizon /\ s.alltimeMax \in 0..Horizon
        /\ s.lastSample \in 0..Horizon
    BY <1>1 DEF StreakStates
  <1>3. start \in 1..t
    BY <1>1, <1>2 DEF RunStart, Seen, Never
  <1>4. cur \in 0..Horizon
    <2> HIDE DEF start
    <2> QED BY <1>3, DsConstants
  <1> DEFINE w == WeeklySoFar(s, t)
  <1>5. w \in 0..Horizon /\ w <= s.alltimeMax
    BY <1>1, <1>2, DsConstants DEF WeeklySoFar
  <1>6. WeekOf(t) \in 0..2
    BY DEF WeekOf
  <1>7. next = [runStart |-> IF here THEN start ELSE Never,
                weeklyMax |-> Larger(w, cur), weekStart |-> WeekOf(t),
                alltimeMax |-> Larger(s.alltimeMax, cur), lastSample |-> t, lastPresent |-> here]
    BY DEF AdvanceStreak, Advance
  <1> HIDE DEF next, w, cur
  <1>8. /\ Larger(w, cur) \in 0..Horizon /\ Larger(s.alltimeMax, cur) \in 0..Horizon
        /\ Larger(w, cur) <= Larger(s.alltimeMax, cur) /\ cur <= Larger(w, cur)
    BY <1>2, <1>4, <1>5 DEF Larger
  <1>9. (IF here THEN start ELSE Never) \in 0..Horizon
    <2> HIDE DEF start
    <2> QED BY <1>3, DsConstants DEF Never
  <1> HIDE DEF start
  <1>10. next \in StreakStates
    BY <1>6, <1>7, <1>8, <1>9 DEF StreakStates
  <1>11. Seen(next, P)
    <2> SUFFICES ASSUME here PROVE start <= t /\ start \in P /\ t \in P /\ Bridged(start, t, P)
      BY <1>7 DEF Seen
    <2>1. CASE start = t
      BY <2>1 DEF Bridged
    <2>2. CASE start # t
      <3>1. start = s.runStart /\ s.runStart # Never /\ t - s.lastSample <= MaxGap
        BY <2>2 DEF start, RunStart
      <3>2. start <= s.lastSample /\ start \in P /\ Bridged(start, s.lastSample, P)
        BY <1>1, <3>1 DEF Seen
      <3>3. ASSUME NEW x \in start..t - 1
            PROVE  \E u \in x + 1..x + MaxGap : u \in P
        <4>1. CASE x \in start..s.lastSample - 1
          BY <3>2, <4>1 DEF Bridged
        <4>2. CASE x \notin start..s.lastSample - 1
          <5>1. t \in x + 1..x + MaxGap
            BY <1>2, <1>3, <3>1, <4>2, DsConstants
          <5> QED BY <5>1
        <4> QED BY <4>1, <4>2
      <3> QED BY <1>3, <3>2, <3>3 DEF Bridged
    <2> QED BY <2>1, <2>2
  <1>12. Current(next, t) = cur
    BY <1>3, <1>7 DEF Current, cur, Never
  <1>13. next.runStart \in {Never} \cup 1..t
    BY <1>3, <1>7
  <1> QED
    <2>1. Sound(next, P)
      BY <1>7, <1>8, <1>10, <1>11 DEF Sound
    <2>2. next.lastSample = t /\ next.weekStart = WeekOf(t) /\ Current(next, t) <= next.weeklyMax
      BY <1>7, <1>8, <1>12
    <2> QED BY <1>4, <1>12, <1>13, <2>1, <2>2 DEF next

LEMMA MorePasses ==
    ASSUME NEW s, NEW P, NEW Q, Sound(s, P), P \subseteq Q
    PROVE  Sound(s, Q)
  BY DEF Sound, Seen, Bridged

(* The fold of the samples. *)
FoldBody(f, t) == IF t = 0 THEN NoStreak
                  ELSE IF t \in Samples THEN AdvanceStreak(f[t - 1], t \in scraped.atDesk, t)
                  ELSE f[t - 1]
LEMMA FoldUpTo ==
    ASSUME NEW k \in Nat
    PROVE  \E f : f = [t \in 0..k |-> FoldBody(f, t)]
  <1> DEFINE Upto(n) == \E f : f = [t \in 0..n |-> FoldBody(f, t)]
             Bad == {n \in Nat : ~Upto(n)}
  <1> SUFFICES ASSUME Bad # {} PROVE FALSE
    OBVIOUS
  <1>1. Bad \subseteq Nat
    OBVIOUS
  <1>2. PICK n \in Bad : \A y \in Bad : n <= y
    <2> HIDE DEF Bad
    <2> QED BY <1>1, LeastNat
  <1>3. n # 0
    <2>1. ASSUME n = 0 PROVE FALSE
      <3> DEFINE f == [t \in 0..0 |-> NoStreak]
      <3>1. f = [t \in 0..0 |-> FoldBody(f, t)]
        BY DEF FoldBody
      <3> HIDE DEF f
      <3> QED BY <2>1, <3>1
    <2> QED BY <2>1
  <1>4. n - 1 \in Nat /\ n - 1 \notin Bad
    BY <1>1, <1>2, <1>3
  <1>5. PICK g : g = [t \in 0..n - 1 |-> FoldBody(g, t)]
    BY <1>4
  <1> DEFINE f == [t \in 0..n |-> IF t = n THEN FoldBody(g, n) ELSE g[t]]
  <1>6. \A t \in 0..n : f[t] = FoldBody(f, t)
    <2> SUFFICES ASSUME NEW t \in 0..n PROVE f[t] = FoldBody(f, t)
      OBVIOUS
    <2>1. CASE t = 0
      BY <1>3, <1>5, <2>1 DEF FoldBody
    <2>2. CASE t # 0
      <3>1. t - 1 \in 0..n - 1 /\ f[t - 1] = g[t - 1]
        BY <2>2
      <3>2. FoldBody(f, t) = FoldBody(g, t)
        BY <2>2, <3>1 DEF FoldBody
      <3>3. CASE t = n
        BY <3>2, <3>3
      <3>4. CASE t # n
        <4>1. t \in 0..n - 1
          BY <3>4
        <4>2. g[t] = FoldBody(g, t)
          BY <1>5, <4>1
        <4> QED BY <3>2, <3>4, <4>2
      <3> QED BY <3>3, <3>4
    <2> QED BY <2>1, <2>2
  <1>7. f = [t \in 0..n |-> FoldBody(f, t)]
    <2>1. f = [t \in 0..n |-> f[t]]
      OBVIOUS
    <2> HIDE DEF f
    <2> QED BY <1>6, <2>1
  <1> HIDE DEF f
  <1> QED BY <1>2, <1>7

LEMMA FoldedStep == \A t \in 0..Horizon : Folded[t] = FoldBody(Folded, t)
  <1>1. PICK f : f = [t \in 0..Horizon |-> FoldBody(f, t)]
    BY FoldUpTo, DsConstants
  <1>2. Folded = CHOOSE g : g = [t \in 0..Horizon |-> FoldBody(g, t)]
    BY DEF Folded, FoldBody
  <1>3. Folded = [t \in 0..Horizon |-> FoldBody(Folded, t)]
    BY <1>1, <1>2
  <1> QED BY <1>3

LEMMA FoldSound ==
    ASSUME DsInv, NEW k \in 0..now - 1
    PROVE  Sound(Folded[k], passes) /\ Folded[k].lastSample <= k
  <1> DEFINE Fine(n) == Sound(Folded[n], passes) /\ Folded[n].lastSample <= n
             Bad == {n \in 0..now - 1 : ~Fine(n)}
  <1>0. now \in 1..Horizon
    BY DEF DsInv, DsTypeOK
  <1> SUFFICES ASSUME Bad # {} PROVE FALSE
    OBVIOUS
  <1>1. Bad \subseteq Nat
    BY <1>0
  <1>2. PICK n \in Bad : \A y \in Bad : n <= y
    <2> HIDE DEF Bad
    <2> QED BY <1>1, LeastNat
  <1>3. n \in 0..Horizon /\ Folded[n] = FoldBody(Folded, n) /\ n \in 0..now - 1 /\ ~Fine(n)
    <2>1. n \in 0..now - 1 /\ ~Fine(n)
      BY <1>2
    <2> HIDE DEF Fine, Bad
    <2>2. n \in 0..Horizon
      <3>1. \A a \in 1..Horizon : \A b \in 0..a - 1 : b \in 0..Horizon
        BY DsConstants
      <3> QED BY <1>0, <2>1, <3>1, Zenon
    <2>3. Folded[n] = FoldBody(Folded, n)
      BY <2>2, FoldedStep, Zenon
    <2> QED BY <2>1, <2>2, <2>3
  <1>4. CASE n = 0
    BY <1>3, <1>4, NoneSound DEF FoldBody
  <1>5. CASE n # 0
    <2>1. n - 1 \in 0..now - 1 /\ n - 1 \notin Bad
      BY <1>0, <1>2, <1>3, <1>5
    <2>2. Sound(Folded[n - 1], passes) /\ Folded[n - 1].lastSample <= n - 1
      BY <2>1
    <2> DEFINE s == Folded[n - 1]
    <2>3. s.lastSample \in 0..Horizon
      BY <2>2 DEF Sound, StreakStates
    <2>4. CASE n \in Samples
      <3> DEFINE here == n \in scraped.atDesk
      <3>1. here \in BOOLEAN /\ (here => n \in passes)
        BY DEF DsInv
      <3>2. n \in 1..Horizon /\ s.lastSample < n
        BY <1>3, <1>5, <2>2, <2>3
      <3>3. Folded[n] = AdvanceStreak(s, here, n)
        BY <1>3, <1>5, <2>4 DEF FoldBody
      <3> HIDE DEF s, here, Fine
      <3>4. Sound(Folded[n], passes) /\ Folded[n].lastSample = n
        <4>1. Sound(s, passes)
          BY <2>2 DEF s
        <4> QED BY <3>1, <3>2, <3>3, <4>1, OneMore
      <3> QED BY <1>3, <3>4 DEF Fine
    <2>5. CASE n \notin Samples
      BY <1>3, <1>5, <2>2, <2>3, <2>5 DEF FoldBody
    <2> QED BY <2>4, <2>5
  <1> QED BY <1>4, <1>5

(* What a pass computes, from either source. *)
LEMMA NextSound ==
    ASSUME DsInv, shown.at # now, NEW answers \in BOOLEAN, NEW P, passes \subseteq P, present => now \in P
    PROVE  LET next == NextStreak(answers) IN
           /\ Sound(next, P) /\ next.lastSample = now /\ next.weekStart = WeekOf(now)
           /\ Current(next, now) <= next.weeklyMax /\ Current(next, now) \in 0..Horizon
           /\ next.runStart \in {Never} \cup 1..now
  <1>1. now \in 1..Horizon /\ present \in BOOLEAN /\ Sound(sidecar, P) /\ sidecar.lastSample < now
    <2>1. now \in 1..Horizon /\ present \in BOOLEAN /\ sidecar.lastSample <= shown.at /\ shown.at <= now
        /\ shown.at \in 0..Horizon
      BY DEF DsInv, DsTypeOK
    <2>2. sidecar.lastSample \in 0..Horizon
      BY DEF DsInv, Sound, StreakStates
    <2>3. Sound(sidecar, P)
      BY MorePasses DEF DsInv
    <2> QED BY <2>1, <2>2, <2>3
  <1>2. CASE ~answers
    BY <1>1, <1>2, OneMore DEF NextStreak
  <1>3. CASE answers
    <2> DEFINE f == Folded[now - 1]
               c == ComputeStreak
               next == NextStreak(answers)
    <2>1. Sound(f, P) /\ f.lastSample <= now - 1
      BY <1>1, FoldSound, MorePasses
    <2>2. f.lastSample \in 0..Horizon
      BY <2>1 DEF Sound, StreakStates
    <2>3. f.lastSample < now
      <3> HIDE DEF f
      <3> QED BY <1>1, <2>1, <2>2
    <2>4. c = AdvanceStreak(f, present, now)
      BY DEF ComputeStreak
    <2>5. next = MergePersistedMaxes(c, sidecar)
      BY <1>3 DEF NextStreak
    <2> HIDE DEF f, c, next
    <2>6. /\ Sound(c, P) /\ c.lastSample = now /\ c.weekStart = WeekOf(now)
          /\ Current(c, now) <= c.weeklyMax /\ Current(c, now) \in 0..Horizon
          /\ c.runStart \in {Never} \cup 1..now
      BY <1>1, <2>1, <2>3, <2>4, OneMore
    <2> DEFINE a == Larger(c.alltimeMax, sidecar.alltimeMax)
               w == IF c.weekStart = sidecar.weekStart THEN Larger(c.weeklyMax, sidecar.weeklyMax) ELSE c.weeklyMax
    <2>7. c \in StreakStates /\ sidecar \in StreakStates /\ sidecar.weeklyMax <= sidecar.alltimeMax /\ c.weeklyMax <= c.alltimeMax
      BY <1>1, <2>6 DEF Sound
    <2>8. next = [c EXCEPT !.alltimeMax = a, !.weeklyMax = w]
      BY <2>5, <2>7 DEF MergePersistedMaxes, StreakStates
    <2>9. /\ c.weeklyMax \in 0..Horizon /\ c.alltimeMax \in 0..Horizon
          /\ sidecar.weeklyMax \in 0..Horizon /\ sidecar.alltimeMax \in 0..Horizon
      BY <2>7 DEF StreakStates
    <2>10. a \in 0..Horizon /\ w \in 0..Horizon /\ w <= a /\ c.weeklyMax <= w
      BY <2>7, <2>9 DEF Larger
    <2> HIDE DEF a, w
    <2>11. next \in StreakStates /\ next.alltimeMax = a /\ next.weeklyMax = w /\ next.runStart = c.runStart
           /\ next.lastSample = c.lastSample /\ next.weekStart = c.weekStart
      BY <2>7, <2>8, <2>10 DEF StreakStates
    <2>12. Sound(next, P)
      BY <2>6, <2>10, <2>11 DEF Sound, Seen
    <2>13. Current(next, now) = Current(c, now)
      BY <2>11 DEF Current
    <2>14. Current(next, now) <= next.weeklyMax
      BY <2>6, <2>9, <2>10, <2>11, <2>13
    <2> QED BY <2>6, <2>11, <2>12, <2>13, <2>14 DEF next
  <1> QED BY <1>2, <1>3

(* What the sidecar keeps of the longest runs. *)
LEMMA NextKeeps ==
    ASSUME DsInv, NEW answers \in BOOLEAN
    PROVE  LET next == NextStreak(answers) IN
           /\ sidecar.alltimeMax <= next.alltimeMax
           /\ sidecar.weekStart = WeekOf(now) => sidecar.weeklyMax <= next.weeklyMax
  <1> DEFINE P == passes \cup {now}
  <1>1. /\ sidecar \in StreakStates /\ now \in 1..Horizon /\ present \in BOOLEAN /\ Sound(sidecar, P)
        /\ sidecar.lastSample <= shown.at /\ shown.at <= now /\ shown.at \in 0..Horizon
    BY MorePasses DEF DsInv, Sound, DsTypeOK
  <1>2. /\ sidecar.runStart \in 0..Horizon /\ sidecar.weeklyMax \in 0..Horizon
        /\ sidecar.alltimeMax \in 0..Horizon /\ sidecar.lastSample \in 0..Horizon
    BY <1>1 DEF StreakStates
  <1>3. \A a, b \in Int : a <= Larger(a, b) /\ b <= Larger(a, b)
    BY DEF Larger
  <1>4. CASE ~answers
    <2> DEFINE start == RunStart(sidecar, now)
               cur == IF present THEN now - start ELSE 0
    <2>1. start \in 0..Horizon
      BY <1>1, <1>2 DEF RunStart
    <2> HIDE DEF start
    <2>2. cur \in Int
      BY <1>1, <2>1
    <2>3. NextStreak(answers) = Advance(sidecar, present, now, start)
      BY <1>4 DEF NextStreak, AdvanceStreak, start
    <2>4. /\ NextStreak(answers).alltimeMax = Larger(sidecar.alltimeMax, cur)
          /\ NextStreak(answers).weeklyMax = Larger(WeeklySoFar(sidecar, now), cur)
      BY <2>3 DEF Advance
    <2> HIDE DEF cur
    <2>5. sidecar.weekStart = WeekOf(now) => WeeklySoFar(sidecar, now) = sidecar.weeklyMax
      BY DEF WeeklySoFar
    <2> QED BY <1>2, <1>3, <2>2, <2>4, <2>5
  <1>5. CASE answers
    <2> DEFINE f == Folded[now - 1]
               c == ComputeStreak
    <2>1. Sound(f, P) /\ f.lastSample <= now - 1
      BY <1>1, FoldSound, MorePasses
    <2>2. f.lastSample \in 0..Horizon
      BY <2>1 DEF Sound, StreakStates
    <2>3. f.lastSample < now
      <3> HIDE DEF f
      <3> QED BY <1>1, <2>1, <2>2
    <2>4. c = AdvanceStreak(f, present, now)
      BY DEF ComputeStreak
    <2>5. NextStreak(answers) = MergePersistedMaxes(c, sidecar)
      BY <1>5 DEF NextStreak
    <2> HIDE DEF f, c
    <2>6. Sound(c, P) /\ c.weekStart = WeekOf(now)
      BY <1>1, <2>1, <2>3, <2>4, OneMore
    <2>7. c \in StreakStates /\ c.alltimeMax \in Int /\ c.weeklyMax \in Int
      BY <2>6 DEF Sound, StreakStates
    <2>8. /\ NextStreak(answers).alltimeMax = Larger(c.alltimeMax, sidecar.alltimeMax)
          /\ sidecar.weekStart = WeekOf(now)
                => NextStreak(answers).weeklyMax = Larger(c.weeklyMax, sidecar.weeklyMax)
      BY <2>5, <2>6, <2>7 DEF MergePersistedMaxes, StreakStates
    <2> QED BY <1>2, <1>3, <2>7, <2>8
  <1> QED BY <1>4, <1>5

LEMMA DsInitInv == DsInit => DsInv
  <1> SUFFICES ASSUME DsInit PROVE DsInv
    OBVIOUS
  <1>1. DsTypeOK /\ shown.at <= now
    <2>1. 0 \in 0..Horizon /\ 1 \in 1..Horizon
      BY DsConstants
    <2>2. shown \in [at : 0..Horizon, current : 0..Horizon, weeklyMax : 0..Horizon, alltimeMax : 0..Horizon]
      BY <2>1 DEF DsInit
    <2>3. DsTypeOK
      BY <2>1, <2>2 DEF DsInit, DsTypeOK
    <2>4. shown.at <= now
      BY DEF DsInit
    <2> QED BY <2>3, <2>4
  <1>2. Sound(sidecar, passes) /\ sidecar.lastSample <= shown.at
    BY NoneSound DEF DsInit
  <1>3. RunWitnessed /\ MaximaHold
    BY DEF DsInit, RunWitnessed, MaximaHold
  <1> QED BY <1>1, <1>2, <1>3 DEF DsInv, DsInit, NoStreak

LEMMA DsPass ==
    ASSUME DsInv, NEW answers \in BOOLEAN, NEW scrapes \in BOOLEAN, NEW saves \in BOOLEAN,
           Passes(answers, scrapes, saves)
    PROVE  DsInv'
  <1> DEFINE next == NextStreak(answers)
             Q == passes'
             cur == Current(next, now)
  <1>1. now \in 1..Horizon /\ present \in BOOLEAN /\ shown.at # now /\ shown.at \in 0..Horizon /\ shown.at <= now
    BY DEF DsInv, DsTypeOK, Passes
  <1>2. passes \subseteq Q /\ (present => now \in Q) /\ Q \subseteq 1..now
    <2>1. passes' = (IF present THEN passes \cup {now} ELSE passes) /\ passes \subseteq 1..now
      BY DEF Passes, DsInv
    <2>2. now \in 1..now
      BY <1>1
    <2> QED BY <1>1, <2>1, <2>2
  <1>3. /\ Sound(next, Q) /\ next.lastSample = now /\ next.weekStart = WeekOf(now)
        /\ cur <= next.weeklyMax /\ cur \in 0..Horizon /\ next.runStart \in {Never} \cup 1..now
    BY <1>1, <1>2, NextSound
  <1>4. /\ shown' = [at |-> now, current |-> cur, weeklyMax |-> next.weeklyMax, alltimeMax |-> next.alltimeMax]
        /\ sidecar' = IF saves THEN next ELSE sidecar
        /\ forgotten' = (forgotten \/ ~saves) /\ now' = now /\ present' = present
    BY DEF Passes
  <1> HIDE DEF next, Q, cur
  <1>5. next \in StreakStates /\ next.weeklyMax <= next.alltimeMax /\ Seen(next, Q)
    BY <1>3 DEF Sound
  <1>6. next.weeklyMax \in 0..Horizon /\ next.alltimeMax \in 0..Horizon
    BY <1>5 DEF StreakStates
  <1>7. DsTypeOK' /\ (shown.at <= now)'
    <2>1. shown' \in [at : 0..Horizon, current : 0..Horizon, weeklyMax : 0..Horizon, alltimeMax : 0..Horizon]
      <3>1. now \in 0..Horizon
        BY <1>1
      <3> QED BY <1>3, <1>4, <1>6, <3>1
    <2>2. forgotten' \in BOOLEAN
      BY <1>4 DEF DsInv, DsTypeOK
    <2> QED BY <1>1, <1>4, <2>1, <2>2 DEF DsTypeOK
  <1>8. Sound(sidecar, passes)' /\ (sidecar.lastSample <= shown.at)'
    <2>1. Sound(sidecar, Q)
      BY <1>2, MorePasses DEF DsInv
    <2>2. sidecar.lastSample <= now
      <3>1. sidecar.lastSample <= shown.at /\ sidecar.lastSample \in 0..Horizon
        BY DEF DsInv, Sound, StreakStates
      <3> QED BY <1>1, <3>1
    <2>3. CASE saves
      <3>1. sidecar' = next /\ Sound(sidecar', Q)
        BY <1>3, <1>4, <2>3
      <3>2. Sound(sidecar, passes)'
        BY <3>1 DEF Q, Sound, Seen, Bridged
      <3> QED BY <1>1, <1>3, <1>4, <3>1, <3>2
    <2>4. CASE ~saves
      <3>1. sidecar' = sidecar /\ Sound(sidecar', Q)
        BY <1>4, <2>1, <2>4
      <3>2. Sound(sidecar, passes)'
        BY <3>1 DEF Q, Sound, Seen, Bridged
      <3> QED BY <1>4, <2>2, <3>1, <3>2
    <2> QED BY <2>3, <2>4
  <1>9. RunWitnessed'
    <2> SUFFICES ASSUME cur > 0
                 PROVE  /\ {now - cur, now} \subseteq Q
                        /\ \A t \in now - cur..now - 1 : \E u \in t + 1..t + MaxGap : u \in Q
      BY <1>4 DEF RunWitnessed, Q
    <2>1. next.runStart # Never /\ next.runStart = now - cur
      BY <1>1, <1>3 DEF cur, Current, Never
    <2> QED BY <1>3, <1>5, <2>1 DEF Seen, Bridged
  <1>10. MaximaHold'
    BY <1>3, <1>4, <1>5 DEF MaximaHold
  <1>11. scraped'.minutes \subseteq 1..now' /\ scraped'.atDesk \subseteq passes'
    BY <1>1 DEF Passes, DsInv
  <1>12. (~forgotten => /\ sidecar.alltimeMax = shown.alltimeMax /\ sidecar.weeklyMax = shown.weeklyMax
                        /\ shown.at # 0 => sidecar.weekStart = WeekOf(shown.at))'
    BY <1>3, <1>4 DEF WeekOf
  <1> QED BY <1>2, <1>4, <1>7, <1>8, <1>9, <1>10, <1>11, <1>12 DEF DsInv, Q

LEMMA DsStepInv == DsInv /\ [DsNext]_dsVars => DsInv'
  <1> SUFFICES ASSUME DsInv, [DsNext]_dsVars PROVE DsInv'
    OBVIOUS
  <1>1. ASSUME NEW answers \in BOOLEAN, NEW scrapes \in BOOLEAN, NEW saves \in BOOLEAN,
               Passes(answers, scrapes, saves)
        PROVE  DsInv'
    BY <1>1, DsPass
  <1>2. ASSUME NEW here \in BOOLEAN, Minute(here) PROVE DsInv'
    <2>1. now \in 1..Horizon /\ now' = now + 1 /\ now' \in 1..Horizon /\ present' \in BOOLEAN /\ shown.at \in 0..Horizon
          /\ shown.at <= now /\ UNCHANGED <<scraped, sidecar, shown, passes, forgotten>>
      BY <1>2, DsConstants DEF Minute, DsInv, DsTypeOK
    <2>2. DsTypeOK' /\ (shown.at <= now)'
      BY <2>1 DEF DsTypeOK, DsInv
    <2>3. 1..now \subseteq 1..now'
      BY <2>1
    <2>4. Sound(sidecar, passes)'
      BY <2>1 DEF DsInv, Sound, Seen, Bridged
    <2>5. RunWitnessed' /\ MaximaHold'
      BY <2>1 DEF DsInv, RunWitnessed, MaximaHold
    <2> QED BY <2>1, <2>2, <2>3, <2>4, <2>5 DEF DsInv, WeekOf
  <1>3. CASE SidecarLost
    <2>1. sidecar' = NoStreak /\ forgotten' /\ forgotten' \in BOOLEAN /\ UNCHANGED <<now, present, scraped, shown, passes>>
      BY <1>3 DEF SidecarLost
    <2>2. DsTypeOK' /\ (shown.at <= now)'
      BY <2>1 DEF DsTypeOK, DsInv
    <2>3. Sound(sidecar, passes)' /\ (sidecar.lastSample <= shown.at)'
      <3>1. Sound(sidecar', passes') /\ sidecar'.lastSample = 0
        BY <2>1, NoneSound
      <3>2. shown'.at \in 0..Horizon
        BY <2>2 DEF DsTypeOK
      <3> QED BY <3>1, <3>2 DEF Sound, Seen, Bridged
    <2>4. RunWitnessed' /\ MaximaHold'
      BY <2>1 DEF DsInv, RunWitnessed, MaximaHold
    <2> QED BY <2>1, <2>2, <2>3, <2>4 DEF DsInv
  <1>4. CASE PrometheusLost
    <2>1. scraped'.minutes = {} /\ scraped'.atDesk = {} /\ UNCHANGED <<now, present, sidecar, shown, passes, forgotten>>
      BY <1>4 DEF PrometheusLost
    <2>2. DsTypeOK' /\ (shown.at <= now)' /\ RunWitnessed' /\ MaximaHold'
      BY <2>1 DEF DsTypeOK, DsInv, RunWitnessed, MaximaHold
    <2>3. Sound(sidecar, passes)'
      BY <2>1 DEF DsInv, Sound, Seen, Bridged
    <2> QED BY <2>1, <2>2, <2>3 DEF DsInv, WeekOf
  <1>5. CASE UNCHANGED dsVars
    <2>1. UNCHANGED <<now, present, scraped, sidecar, shown, passes, forgotten>>
      BY <1>5 DEF dsVars
    <2>2. DsTypeOK' /\ (shown.at <= now)' /\ RunWitnessed' /\ MaximaHold'
      BY <2>1 DEF DsTypeOK, DsInv, RunWitnessed, MaximaHold
    <2>3. Sound(sidecar, passes)'
      BY <2>1 DEF DsInv, Sound, Seen, Bridged
    <2> QED BY <2>1, <2>2, <2>3 DEF DsInv, WeekOf
  <1> QED BY <1>1, <1>2, <1>3, <1>4, <1>5 DEF DsNext

LEMMA DsSaysSo == DsInv => StreakTrue
  <1> SUFFICES ASSUME DsInv PROVE MaximaStand
    BY DEF StreakTrue, DsInv
  <1> SUFFICES ASSUME ~forgotten, NEW answers \in BOOLEAN
               PROVE  LET next == NextStreak(answers) IN
                      /\ shown.alltimeMax <= next.alltimeMax
                      /\ shown.at # 0 /\ WeekOf(shown.at) = WeekOf(now) => shown.weeklyMax <= next.weeklyMax
    BY DEF MaximaStand
  <1> QED BY NextKeeps DEF DsInv

-----------------------------------------------------------------------------
(* Sums.  The sum of a function of a finite set is read off a table of the    *)
(* sums over the subsets of its domain.                                       *)
Pick(s) == CHOOSE x \in s : TRUE
(* A table of the partial sums of d. *)
Partial(d, t, s) == IF s = {} THEN 0 ELSE d[Pick(s)] + t[s \ {Pick(s)}]
IsTable(d, t) == t = [s \in SUBSET DOMAIN d |-> Partial(d, t, s)]
Table(d) == CHOOSE t : IsTable(d, t)

LEMMA SumIsTable == ASSUME NEW d PROVE SumFunction(d) = Table(d)[DOMAIN d]
  BY DEF SumFunction, SumFunctionOnSet, FoldFunctionOnSet, MapThenFoldSet, Table, IsTable, Pick, Partial

LEMMA PickOne ==
    ASSUME NEW s, IsFiniteSet(s), s # {}
    PROVE  /\ Pick(s) \in s /\ IsFiniteSet(s \ {Pick(s)})
           /\ Cardinality(s) \in Nat \ {0} /\ Cardinality(s \ {Pick(s)}) = Cardinality(s) - 1
  <1>1. Pick(s) \in s
    BY DEF Pick
  <1>2. Cardinality(s) \in Nat /\ Cardinality(s) # 0
    BY FS_CardinalityType, FS_EmptySet
  <1>3. IsFiniteSet(s \ {Pick(s)}) /\ Cardinality(s \ {Pick(s)}) = Cardinality(s) - 1
    BY <1>1, FS_RemoveElement
  <1> QED BY <1>1, <1>2, <1>3

(* Of some sets there is one that the removal of its pick takes out of them. *)
LEMMA SmallestSet ==
    ASSUME NEW D, IsFiniteSet(D), NEW C, C \subseteq SUBSET D, C # {}
    PROVE  \E s \in C : s = {} \/ s \ {Pick(s)} \notin C
  <1> DEFINE K == {Cardinality(s) : s \in C}
  <1>1. \A s \in C : IsFiniteSet(s) /\ Cardinality(s) \in Nat
    BY FS_Subset, FS_CardinalityType
  <1>2. K \subseteq Nat /\ K # {}
    BY <1>1
  <1>3. PICK k \in K : \A j \in K : k <= j
    <2> HIDE DEF K
    <2> QED BY <1>2, LeastNat
  <1>4. PICK s \in C : k = Cardinality(s)
    OBVIOUS
  <1>5. ASSUME s # {}, s \ {Pick(s)} \in C PROVE FALSE
    <2>1. Cardinality(s \ {Pick(s)}) = Cardinality(s) - 1 /\ Cardinality(s) \in Nat
      BY <1>1, <1>5, PickOne
    <2>2. k <= Cardinality(s \ {Pick(s)})
      BY <1>3, <1>5
    <2> QED BY <1>4, <2>1, <2>2
  <1> QED BY <1>5

LEMMA TableUpTo ==
    ASSUME NEW d, IsFiniteSet(DOMAIN d), NEW k \in Nat
    PROVE  \E t : t = [s \in {x \in SUBSET DOMAIN d : Cardinality(x) <= k} |-> Partial(d, t, s)]
  <1> DEFINE Upto(n) == {x \in SUBSET DOMAIN d : Cardinality(x) <= n}
             Has(n) == \E t : t = [s \in Upto(n) |-> Partial(d, t, s)]
             Bad == {n \in Nat : ~Has(n)}
  <1> SUFFICES ASSUME Bad # {} PROVE FALSE
    OBVIOUS
  <1>1. Bad \subseteq Nat
    OBVIOUS
  <1>2. PICK n \in Bad : \A y \in Bad : n <= y
    <2> HIDE DEF Bad
    <2> QED BY <1>1, LeastNat
  <1>3. \A s \in SUBSET DOMAIN d : IsFiniteSet(s) /\ Cardinality(s) \in Nat
    BY FS_Subset, FS_CardinalityType
  <1>4. n # 0
    <2>1. ASSUME n = 0 PROVE FALSE
      <3> DEFINE t == [s \in Upto(0) |-> 0]
      <3>1. ASSUME NEW s \in Upto(0) PROVE Partial(d, t, s) = 0
        <4>1. IsFiniteSet(s) /\ Cardinality(s) = 0
          BY <1>3
        <4> QED BY <4>1, FS_EmptySet DEF Partial
      <3>2. t = [s \in Upto(0) |-> Partial(d, t, s)]
        BY <3>1
      <3> HIDE DEF t
      <3> QED BY <2>1, <3>2
    <2> QED BY <2>1
  <1>5. n - 1 \in Nat /\ n - 1 \notin Bad
    <2>1. n \in Nat /\ \A y \in Bad : n <= y
      BY <1>2
    <2> HIDE DEF Bad
    <2>2. n - 1 \in Nat /\ ~(n <= n - 1)
      BY <1>4, <2>1
    <2> QED BY <2>1, <2>2
  <1>6. PICK g : g = [s \in Upto(n - 1) |-> Partial(d, g, s)]
    BY <1>5
  <1> DEFINE t == [s \in Upto(n) |-> IF s \in Upto(n - 1) THEN g[s] ELSE Partial(d, g, s)]
  <1>7. ASSUME NEW s \in Upto(n) PROVE t[s] = Partial(d, t, s)
    <2>1. CASE s = {}
      <3>1. Cardinality(s) = 0
        BY <2>1, FS_EmptySet
      <3>2. s \in Upto(n - 1)
        BY <1>5, <3>1
      <3> QED BY <1>6, <2>1, <3>2 DEF Partial
    <2>2. CASE s # {}
      <3>1. s \ {Pick(s)} \in Upto(n - 1)
        <4>1. Cardinality(s \ {Pick(s)}) = Cardinality(s) - 1 /\ Cardinality(s) <= n /\ Cardinality(s) \in Nat
          BY <1>3, <2>2, PickOne
        <4>2. Cardinality(s \ {Pick(s)}) <= n - 1
          BY <1>1, <1>2, <4>1
        <4> QED BY <4>2
      <3>2. s \ {Pick(s)} \in Upto(n)
        <4>1. Cardinality(s \ {Pick(s)}) \in Nat
          BY <1>3
        <4>2. Cardinality(s \ {Pick(s)}) <= n
          BY <1>5, <3>1, <4>1
        <4> QED BY <4>2
      <3>3. t[s \ {Pick(s)}] = g[s \ {Pick(s)}]
        BY <3>1, <3>2
      <3>4. Partial(d, t, s) = Partial(d, g, s)
        BY <2>2, <3>3 DEF Partial
      <3>5. t[s] = Partial(d, g, s)
        <4> HIDE DEF Upto
        <4>1. CASE s \in Upto(n - 1)
          BY <1>6, <4>1
        <4>2. CASE s \notin Upto(n - 1)
          BY <4>2
        <4> QED BY <4>1, <4>2
      <3> QED BY <3>4, <3>5
    <2> QED BY <2>1, <2>2
  <1>8. t = [s \in Upto(n) |-> Partial(d, t, s)]
    <2>1. t = [s \in Upto(n) |-> t[s]]
      OBVIOUS
    <2> HIDE DEF t
    <2> QED BY <1>7, <2>1
  <1>9. n \notin Bad
    <2> HIDE DEF t
    <2> QED BY <1>8
  <1> QED BY <1>2, <1>9

LEMMA TableIs ==
    ASSUME NEW d, IsFiniteSet(DOMAIN d)
    PROVE  \A s \in SUBSET DOMAIN d : Table(d)[s] = Partial(d, Table(d), s)
  <1> DEFINE k == Cardinality(DOMAIN d)
  <1>1. k \in Nat
    BY FS_CardinalityType
  <1>2. {x \in SUBSET DOMAIN d : Cardinality(x) <= k} = SUBSET DOMAIN d
    <2>1. \A x \in SUBSET DOMAIN d : Cardinality(x) <= k
      BY FS_Subset
    <2> QED BY <2>1
  <1>3. \E t : IsTable(d, t)
    <2>1. PICK t : t = [s \in {x \in SUBSET DOMAIN d : Cardinality(x) <= k} |-> Partial(d, t, s)]
      <3> HIDE DEF k
      <3> QED BY <1>1, TableUpTo
    <2>2. IsTable(d, t)
      <3> HIDE DEF k
      <3> QED BY <1>2, <2>1 DEF IsTable
    <2> QED BY <2>2
  <1>4. IsTable(d, Table(d))
    BY <1>3 DEF Table
  <1> QED BY <1>4 DEF IsTable

(* The sum of a function of a finite set to the naturals. *)
LEMMA PartialNatural ==
    ASSUME NEW D, IsFiniteSet(D), NEW d \in [D -> Nat]
    PROVE  \A s \in SUBSET D : Table(d)[s] \in Nat
  <1> DEFINE C == {s \in SUBSET D : Table(d)[s] \notin Nat}
  <1> SUFFICES ASSUME C # {} PROVE FALSE
    OBVIOUS
  <1>1. C \subseteq SUBSET D
    OBVIOUS
  <1>2. PICK s \in C : s = {} \/ s \ {Pick(s)} \notin C
    <2> HIDE DEF C
    <2> QED BY <1>1, SmallestSet
  <1>3. s \in SUBSET D /\ Table(d)[s] = Partial(d, Table(d), s)
    BY TableIs
  <1>4. s # {}
    BY <1>3 DEF Partial
  <1>5. Pick(s) \in D /\ Table(d)[s \ {Pick(s)}] \in Nat
    BY <1>2, <1>4 DEF Pick
  <1>6. Table(d)[s] \in Nat
    BY <1>3, <1>4, <1>5 DEF Partial
  <1> QED BY <1>6

LEMMA PartialAdds ==
    ASSUME NEW D, IsFiniteSet(D), NEW d \in [D -> Nat], NEW e \in [D -> Nat], NEW h \in [D -> Nat],
           \A x \in D : h[x] = d[x] + e[x]
    PROVE  \A s \in SUBSET D : Table(h)[s] = Table(d)[s] + Table(e)[s]
  <1> DEFINE C == {s \in SUBSET D : Table(h)[s] # Table(d)[s] + Table(e)[s]}
  <1> SUFFICES ASSUME C # {} PROVE FALSE
    OBVIOUS
  <1>1. C \subseteq SUBSET D
    OBVIOUS
  <1>2. PICK s \in C : s = {} \/ s \ {Pick(s)} \notin C
    <2> HIDE DEF C
    <2> QED BY <1>1, SmallestSet
  <1>3. /\ s \in SUBSET D /\ Table(d)[s] = Partial(d, Table(d), s) /\ Table(e)[s] = Partial(e, Table(e), s)
        /\ Table(h)[s] = Partial(h, Table(h), s)
    BY TableIs
  <1>4. s # {}
    BY <1>3 DEF Partial
  <1> DEFINE r == s \ {Pick(s)}
  <1>5. Pick(s) \in D /\ r \in SUBSET D /\ Table(h)[r] = Table(d)[r] + Table(e)[r]
    BY <1>2, <1>4 DEF Pick
  <1>6. Table(d)[r] \in Nat /\ Table(e)[r] \in Nat
    BY <1>5, PartialNatural
  <1>7. /\ Table(d)[s] = d[Pick(s)] + Table(d)[r] /\ Table(e)[s] = e[Pick(s)] + Table(e)[r]
        /\ Table(h)[s] = h[Pick(s)] + Table(h)[r]
    BY <1>3, <1>4 DEF Partial
  <1>8. h[Pick(s)] = d[Pick(s)] + e[Pick(s)] /\ d[Pick(s)] \in Nat /\ e[Pick(s)] \in Nat
    BY <1>5
  <1>9. Table(h)[s] = Table(d)[s] + Table(e)[s]
    <2> HIDE DEF r, C
    <2> QED BY <1>5, <1>6, <1>7, <1>8
  <1> QED BY <1>9

LEMMA SumNatural ==
    ASSUME NEW D, IsFiniteSet(D), NEW d \in [D -> Nat]
    PROVE  SumFunction(d) \in Nat
  BY SumIsTable, PartialNatural

LEMMA SumAdds ==
    ASSUME NEW D, IsFiniteSet(D), NEW d \in [D -> Nat], NEW e \in [D -> Nat], NEW h \in [D -> Nat],
           \A x \in D : h[x] = d[x] + e[x]
    PROVE  SumFunction(h) = SumFunction(d) + SumFunction(e)
  <1>1. \A s \in SUBSET D : Table(h)[s] = Table(d)[s] + Table(e)[s]
    BY PartialAdds
  <1> QED BY <1>1, SumIsTable

LEMMA SumGrows ==
    ASSUME NEW D, IsFiniteSet(D), NEW d \in [D -> Nat], NEW e \in [D -> Nat], \A x \in D : d[x] <= e[x]
    PROVE  SumFunction(d) <= SumFunction(e)
  <1> DEFINE g == [x \in D |-> e[x] - d[x]]
  <1>1. g \in [D -> Nat] /\ \A x \in D : e[x] = d[x] + g[x]
    <2>1. \A x \in D : e[x] - d[x] \in Nat /\ e[x] = d[x] + (e[x] - d[x])
      <3> SUFFICES ASSUME NEW x \in D PROVE e[x] - d[x] \in Nat /\ e[x] = d[x] + (e[x] - d[x])
        OBVIOUS
      <3>1. e[x] \in Nat /\ d[x] \in Nat /\ d[x] <= e[x]
        OBVIOUS
      <3> QED BY <3>1
    <2> QED BY <2>1
  <1> HIDE DEF g
  <1>2. SumFunction(e) = SumFunction(d) + SumFunction(g)
    BY <1>1, SumAdds
  <1>3. SumFunction(d) \in Nat /\ SumFunction(g) \in Nat
    BY <1>1, SumNatural
  <1>4. \A a, b \in Nat : a <= a + b
    OBVIOUS
  <1> QED BY <1>2, <1>3, <1>4, Zenon

LEMMA SumNothing ==
    ASSUME NEW D, IsFiniteSet(D), NEW d \in [D -> Nat], \A x \in D : d[x] = 0
    PROVE  SumFunction(d) = 0
  <1>1. SumFunction(d) = SumFunction(d) + SumFunction(d)
    <2>1. \A x \in D : d[x] = d[x] + d[x]
      OBVIOUS
    <2> QED BY <2>1, SumAdds
  <1>2. SumFunction(d) \in Nat
    BY SumNatural
  <1>3. \A z \in Nat : z = z + z => z = 0
    OBVIOUS
  <1> QED BY <1>1, <1>2, <1>3, Zenon

-----------------------------------------------------------------------------
(* TokenTally.  The ledger is backed: what it retired and what it still keeps *)
(* of a file add up to what was read of that file.                            *)
Column(of, m) == [f \in Files |-> of[f][m]]
Sums(of) == [m \in MonthIds |-> SumFunction(Column(of, m))]
CacheEntries == [size : Nat, days : Days, missing : 0..Retire + 1]
AsRead(e, t) == e = Unknown \/ (e.size > 0 /\ e.size <= t.lines /\ (e.size = t.lines => e.days = t.days))
(* w: what the retired sums hold of each file. *)
Backs(w, c, tr, sn, exact) ==
    /\ w \in [Files -> Days] /\ c.retired = Sums(w)
    /\ \A f \in Files :
        /\ c.files[f] \in CacheEntries /\ AsRead(c.files[f], tr[f])
        /\ w[f] # NoDays => c.files[f] = Unknown /\ ~tr[f].there /\ tr[f].lines > 0
        /\ \A m \in MonthIds : /\ w[f][m] + c.files[f].days[m] <= sn[f][m]
                               /\ exact => w[f][m] + c.files[f].days[m] = sn[f][m]
Ledger(c, tr, sn, exact) ==
    c = [files |-> c.files, retired |-> c.retired] /\ c.files = [f \in Files |-> c.files[f]]
        /\ \E w : Backs(w, c, tr, sn, exact)
TrOk(tr, sn) == \A f \in Files :
    /\ tr[f] \in [there : BOOLEAN, days : Days, lines : Nat] /\ (tr[f].there => tr[f].lines > 0)
    /\ sn[f] \in Days /\ \A m \in MonthIds : sn[f][m] <= tr[f].days[m]
TtInv ==
    /\ rootUp \in BOOLEAN /\ month \in MonthIds /\ excused \in BOOLEAN /\ pass.at \in {"off", "saves", "prints"}
    /\ DOMAIN transcripts = Files /\ DOMAIN seen = Files /\ TrOk(transcripts, seen)
    /\ pass = [at |-> pass.at, cache |-> pass.cache, sums |-> pass.sums]
    /\ Ledger(cache, transcripts, seen, ~excused /\ pass.at # "saves")
    /\ pass.at = "saves" => Ledger(pass.cache, transcripts, seen, ~excused)
    /\ pass.at # "off" => /\ ~excused => pass.sums = Summarize(SeenDays)
                          /\ pass.sums.cumulative <= Total(SeenDays) /\ pass.sums.cumulative \in Nat
    /\ printed.cumulative \in Nat
    /\ ~excused => printed.cumulative <= Total(SeenDays)

LEMMA TtConstants ==
    /\ Months \in Nat \ {0} /\ Retire \in Nat /\ IsFiniteSet(Files) /\ IsFiniteSet(MonthIds)
    /\ 1 \in MonthIds /\ NoDays \in Days
  BY TallyAssumption, FS_Interval DEF MonthIds, NoDays, Days

LEMMA SumsTyped ==
    ASSUME NEW of, \A f \in Files : of[f] \in Days
    PROVE  /\ \A m \in MonthIds : Column(of, m) \in [Files -> Nat]
           /\ Sums(of) \in Days /\ MergedDays(of) = Sums(of)
  <1>1. \A m \in MonthIds : Column(of, m) \in [Files -> Nat]
    BY DEF Column, Days
  <1>2. \A m \in MonthIds : SumFunction(Column(of, m)) \in Nat
    BY <1>1, SumNatural, TtConstants
  <1>3. MergedDays(of) = Sums(of)
    BY DEF MergedDays, Sums, Column
  <1> QED BY <1>1, <1>2, <1>3 DEF Sums, Days

LEMMA SumsAdd ==
    ASSUME NEW a, NEW b, NEW h, \A f \in Files : a[f] \in Days /\ b[f] \in Days /\ h[f] \in Days,
           \A f \in Files : \A m \in MonthIds : h[f][m] = a[f][m] + b[f][m]
    PROVE  Sums(h) = MergeDays(Sums(a), Sums(b))
  <1>1. ASSUME NEW m \in MonthIds
        PROVE  SumFunction(Column(h, m)) = SumFunction(Column(a, m)) + SumFunction(Column(b, m))
    <2>1. /\ Column(a, m) \in [Files -> Nat] /\ Column(b, m) \in [Files -> Nat] /\ Column(h, m) \in [Files -> Nat]
      BY SumsTyped
    <2>2. \A f \in Files : Column(h, m)[f] = Column(a, m)[f] + Column(b, m)[f]
      BY DEF Column
    <2> QED BY <2>1, <2>2, SumAdds, TtConstants
  <1> QED BY <1>1 DEF Sums, MergeDays

LEMMA SumsGrow ==
    ASSUME NEW a, NEW b, \A f \in Files : a[f] \in Days /\ b[f] \in Days,
           \A f \in Files : \A m \in MonthIds : a[f][m] <= b[f][m]
    PROVE  (\A m \in MonthIds : Sums(a)[m] <= Sums(b)[m]) /\ Total(Sums(a)) <= Total(Sums(b))
  <1>1. ASSUME NEW m \in MonthIds PROVE SumFunction(Column(a, m)) <= SumFunction(Column(b, m))
    <2>1. Column(a, m) \in [Files -> Nat] /\ Column(b, m) \in [Files -> Nat]
      BY SumsTyped
    <2>2. \A f \in Files : Column(a, m)[f] <= Column(b, m)[f]
      BY DEF Column
    <2> QED BY <2>1, <2>2, SumGrows, TtConstants
  <1>2. \A m \in MonthIds : Sums(a)[m] <= Sums(b)[m]
    BY <1>1 DEF Sums
  <1>3. Sums(a) \in [MonthIds -> Nat] /\ Sums(b) \in [MonthIds -> Nat]
    BY SumsTyped DEF Days
  <1>4. Total(Sums(a)) <= Total(Sums(b))
    BY <1>2, <1>3, SumGrows, TtConstants DEF Total
  <1> QED BY <1>2, <1>4

LEMMA NothingCounted ==
    /\ Sums([f \in Files |-> NoDays]) = NoDays
    /\ Total(NoDays) = 0
  <1>1. ASSUME NEW m \in MonthIds PROVE SumFunction(Column([f \in Files |-> NoDays], m)) = 0
    <2> DEFINE d == Column([f \in Files |-> NoDays], m)
    <2>1. d \in [Files -> Nat] /\ \A f \in Files : d[f] = 0
      BY DEF Column, NoDays
    <2> HIDE DEF d
    <2>2. SumFunction(d) = 0
      BY <2>1, SumNothing, TtConstants
    <2> QED BY <2>2 DEF d
  <1>2. Total(NoDays) = 0
    <2>1. NoDays \in [MonthIds -> Nat] /\ \A m \in MonthIds : NoDays[m] = 0
      BY DEF NoDays
    <2> QED BY <2>1, SumNothing, TtConstants DEF Total
  <1>3. Sums([f \in Files |-> NoDays]) = [m \in MonthIds |-> 0]
    BY <1>1 DEF Sums
  <1> QED BY <1>2, <1>3 DEF NoDays

(* The sums of a ledger are what was read, or less than it. *)
LEMMA LedgerSums ==
    ASSUME NEW c, NEW tr, NEW sn, NEW exact \in BOOLEAN, Ledger(c, tr, sn, exact), TrOk(tr, sn)
    PROVE  /\ exact => AllDays(c) = Sums(sn)
           /\ Total(AllDays(c)) <= Total(Sums(sn)) /\ Total(AllDays(c)) \in Nat
  <1>1. PICK w : Backs(w, c, tr, sn, exact)
    BY DEF Ledger
  <1> DEFINE days == [f \in Files |-> c.files[f].days]
             h == [f \in Files |-> [m \in MonthIds |-> w[f][m] + days[f][m]]]
  <1>2. \A f \in Files : w[f] \in Days /\ days[f] \in Days /\ sn[f] \in Days
    BY <1>1 DEF Backs, CacheEntries, TrOk
  <1>3. \A f \in Files : h[f] \in Days /\ \A m \in MonthIds : h[f][m] = w[f][m] + days[f][m]
    BY <1>2 DEF Days
  <1>4. \A f \in Files : \A m \in MonthIds : h[f][m] <= sn[f][m] /\ (exact => h[f][m] = sn[f][m])
    BY <1>1 DEF Backs
  <1>5. AllDays(c) = MergeDays(Sums(w), Sums(days))
    BY <1>1, <1>2, SumsTyped DEF AllDays, Backs
  <1> HIDE DEF h, days
  <1>6. AllDays(c) = Sums(h)
    BY <1>2, <1>3, <1>5, SumsAdd
  <1>7. Total(AllDays(c)) <= Total(Sums(sn))
    BY <1>2, <1>3, <1>4, <1>6, SumsGrow
  <1>8. ASSUME exact PROVE AllDays(c) = Sums(sn)
    <2>1. \A m \in MonthIds : Column(h, m) = Column(sn, m)
      BY <1>4, <1>8 DEF Column
    <2> QED BY <1>6, <2>1 DEF Sums
  <1>9. Total(AllDays(c)) \in Nat
    <2>1. Sums(h) \in [MonthIds -> Nat]
      BY <1>3, SumsTyped DEF Days
    <2> QED BY <1>6, <2>1, SumNatural, TtConstants DEF Total
  <1> QED BY <1>7, <1>8, <1>9

LEMMA EmptyLedger ==
    ASSUME NEW tr, NEW sn, TrOk(tr, sn)
    PROVE  /\ Ledger(NoCache, tr, sn, FALSE)
           /\ sn = [f \in Files |-> NoDays] => Ledger(NoCache, tr, sn, TRUE)
  <1> DEFINE w == [f \in Files |-> NoDays]
  <1>1. NoCache.retired = Sums(w) /\ w \in [Files -> Days]
    BY NothingCounted, TtConstants DEF NoCache
  <1>2. \A f \in Files : NoCache.files[f] = Unknown /\ w[f] = NoDays
    BY DEF NoCache
  <1>3. Unknown \in CacheEntries /\ Unknown.days = NoDays
    BY TtConstants DEF Unknown, CacheEntries, Present
  <1>4. \A f \in Files : \A m \in MonthIds : NoDays[m] + NoDays[m] = 0 /\ sn[f][m] \in Nat
    BY DEF NoDays, TrOk, Days
  <1>5. NoCache = [files |-> NoCache.files, retired |-> NoCache.retired]
        /\ NoCache.files = [f \in Files |-> NoCache.files[f]]
    BY DEF NoCache
  <1>6. \A f \in Files : \A m \in MonthIds : NoDays[m] + NoDays[m] <= sn[f][m]
    BY <1>4
  <1>7. Backs(w, NoCache, tr, sn, FALSE)
    <2> HIDE DEF w
    <2> QED BY <1>1, <1>2, <1>3, <1>6 DEF Backs, AsRead
  <1>8. ASSUME sn = [f \in Files |-> NoDays] PROVE Backs(w, NoCache, tr, sn, TRUE)
    <2>1. \A f \in Files : \A m \in MonthIds : NoDays[m] + NoDays[m] = sn[f][m]
      BY <1>4, <1>8 DEF NoDays
    <2> HIDE DEF w
    <2> QED BY <1>1, <1>2, <1>3, <1>6, <2>1 DEF Backs, AsRead
  <1> QED BY <1>5, <1>7, <1>8 DEF Ledger

(* What is behind the ledger, when the transcripts change and what was read of them *)
(* does not.                                                                        *)
LEMMA LedgerKept ==
    ASSUME NEW c, NEW tr, NEW new, NEW sn, NEW exact \in BOOLEAN, NEW same \in BOOLEAN,
           Ledger(c, tr, sn, exact), same => exact,
           \A f \in Files : c.files[f] \in CacheEntries /\ AsRead(c.files[f], tr[f]) => AsRead(c.files[f], new[f]),
           \A f \in Files : ~tr[f].there /\ tr[f].lines > 0 => ~new[f].there /\ new[f].lines > 0
    PROVE  Ledger(c, new, sn, same)
  <1>1. PICK w : Backs(w, c, tr, sn, exact)
    BY DEF Ledger
  <1>2. Backs(w, c, new, sn, same)
    BY <1>1 DEF Backs
  <1> QED BY <1>2 DEF Ledger

LEMMA TtInitInv == TtInit => TtInv
  <1> SUFFICES ASSUME TtInit PROVE TtInv
    OBVIOUS
  <1> USE DEF TtInit
  <1>1. TrOk(transcripts, seen)
    <2>1. \A f \in Files : transcripts[f] = [there |-> FALSE, days |-> NoDays, lines |-> 0] /\ seen[f] = NoDays
      OBVIOUS
    <2>2. \A m \in MonthIds : NoDays[m] <= NoDays[m]
      BY DEF NoDays
    <2> QED BY <2>1, <2>2, TtConstants DEF TrOk
  <1>2. Ledger(cache, transcripts, seen, TRUE)
    BY <1>1, EmptyLedger
  <1>3. SeenDays = NoDays
    <2>1. SeenDays = Sums(seen)
      BY SumsTyped, TtConstants DEF SeenDays
    <2> QED BY <2>1, NothingCounted
  <1>4. printed.cumulative <= Total(SeenDays)
    BY <1>3, NothingCounted DEF NoSums
  <1>5. printed.cumulative = 0
    BY DEF NoSums
  <1>6. pass.at = "off" /\ pass = [at |-> pass.at, cache |-> pass.cache, sums |-> pass.sums] /\ excused = FALSE
    OBVIOUS
  <1>7. Ledger(cache, transcripts, seen, ~excused /\ pass.at # "saves")
    BY <1>2, <1>6
  <1>8. DOMAIN transcripts = Files /\ DOMAIN seen = Files /\ rootUp \in BOOLEAN /\ month \in MonthIds
    BY TtConstants
  <1>9. printed.cumulative \in Nat
    BY <1>5
  <1> QED BY <1>1, <1>4, <1>6, <1>7, <1>8, <1>9 DEF TtInv

LEMMA Collecting ==
    ASSUME TtInv, NEW unreadable \in SUBSET Files, Collects(unreadable)
    PROVE  LET new == NewCache(CollectTranscriptFiles, unreadable)
           IN  TrOk(transcripts, seen') /\ Ledger(new, transcripts, seen', ~excused)
  <1> DEFINE files == CollectTranscriptFiles
             new == NewCache(files, unreadable)
             gone(f) == f \notin files /\ Known(cache, f) /\ Retires(f, files)
             old == cache.files
  <1>1. /\ TrOk(transcripts, seen) /\ Ledger(cache, transcripts, seen, ~excused) /\ excused \in BOOLEAN
        /\ unreadable \subseteq files /\ rootUp \in BOOLEAN
        /\ \A f \in Files : seen'[f] = IF f \in files \ unreadable THEN transcripts[f].days ELSE seen[f]
    BY DEF TtInv, Collects
  <1>2. PICK w : Backs(w, cache, transcripts, seen, ~excused)
    BY <1>1 DEF Ledger
  <1> DEFINE r == [f \in Files |-> IF gone(f) THEN old[f].days ELSE NoDays]
             v == [f \in Files |-> IF gone(f) THEN old[f].days ELSE w[f]]
  <1>3. \A f \in Files : f \in files <=> rootUp /\ transcripts[f].there
    BY DEF CollectTranscriptFiles
  <1>4. /\ \A f \in Files : new.files[f] = IF f \in files THEN Entry(f, unreadable)
                                           ELSE IF ~Known(cache, f) \/ Retires(f, files) THEN Unknown
                                           ELSE Missing(f)
        /\ new = [files |-> new.files, retired |-> new.retired] /\ new.files = [f \in Files |-> new.files[f]]
        /\ new.retired = MergeDays(cache.retired, MergedDays(r))
    BY DEF NewCache, NextFiles, RetiredDays
  <1>5. ASSUME NEW f \in Files
        PROVE  /\ old[f] \in CacheEntries /\ AsRead(old[f], transcripts[f]) /\ old[f].days \in Days
               /\ w[f] \in Days /\ r[f] \in Days /\ v[f] \in Days
               /\ w[f] # NoDays => old[f] = Unknown /\ ~transcripts[f].there /\ transcripts[f].lines > 0
               /\ \A m \in MonthIds : v[f][m] = w[f][m] + r[f][m]
    <2>1. /\ old[f] \in CacheEntries /\ AsRead(old[f], transcripts[f]) /\ old[f].days \in Days /\ w[f] \in Days
          /\ w[f] # NoDays => old[f] = Unknown /\ ~transcripts[f].there /\ transcripts[f].lines > 0
      BY <1>2 DEF Backs, CacheEntries
    <2>2. r[f] = (IF gone(f) THEN old[f].days ELSE NoDays) /\ v[f] = (IF gone(f) THEN old[f].days ELSE w[f])
      OBVIOUS
    <2>3. gone(f) => w[f] = NoDays
      BY <2>1 DEF Known
    <2> HIDE DEF r, v, gone
    <2>4. r[f] \in Days /\ v[f] \in Days
      BY <2>1, <2>2, TtConstants
    <2>5. \A m \in MonthIds : v[f][m] = w[f][m] + r[f][m]
      <3>1. \A d \in Days : \A m \in MonthIds : d[m] \in Nat /\ NoDays[m] = 0
        BY DEF Days, NoDays
      <3> QED BY <2>1, <2>2, <2>3, <3>1
    <2> QED BY <2>1, <2>4, <2>5
  <1> HIDE DEF new, r, v, gone
  <1>6. new.retired = Sums(v)
    <2>1. MergedDays(r) = Sums(r)
      BY <1>5, SumsTyped
    <2>2. Sums(v) = MergeDays(Sums(w), Sums(r))
      BY <1>5, SumsAdd
    <2> QED BY <1>2, <1>4, <2>1, <2>2 DEF Backs
  <1>7. ASSUME NEW f \in Files
        PROVE  /\ seen'[f] \in Days /\ \A m \in MonthIds : seen'[f][m] <= transcripts[f].days[m]
               /\ new.files[f] \in CacheEntries /\ AsRead(new.files[f], transcripts[f])
               /\ v[f] # NoDays => new.files[f] = Unknown /\ ~transcripts[f].there /\ transcripts[f].lines > 0
               /\ \A m \in MonthIds : /\ v[f][m] + new.files[f].days[m] <= seen'[f][m]
                                      /\ ~excused => v[f][m] + new.files[f].days[m] = seen'[f][m]
    <2> DEFINE t == transcripts[f]
               e == new.files[f]
    <2>1. /\ t \in [there : BOOLEAN, days : Days, lines : Nat] /\ (t.there => t.lines > 0)
          /\ t.days \in Days /\ t.lines \in Nat
          /\ seen[f] \in Days /\ \A m \in MonthIds : seen[f][m] <= t.days[m]
      BY <1>1 DEF TrOk
    <2>2. seen'[f] = (IF f \in files \ unreadable THEN t.days ELSE seen[f])
      BY <1>1
    <2>3. \A d \in Days : \A m \in MonthIds : d[m] \in Nat
      BY DEF Days
    <2>4. seen'[f] \in Days /\ \A m \in MonthIds : seen'[f][m] <= t.days[m]
      BY <2>1, <2>2, <2>3
    <2>5. \A m \in MonthIds : /\ w[f][m] + old[f].days[m] <= seen[f][m]
                              /\ ~excused => w[f][m] + old[f].days[m] = seen[f][m]
      BY <1>2 DEF Backs
    <2>6. \A m \in MonthIds : NoDays[m] = 0
      BY DEF NoDays
    <2>7. e = IF f \in files THEN Entry(f, unreadable)
              ELSE IF ~Known(cache, f) \/ Retires(f, files) THEN Unknown ELSE Missing(f)
      BY <1>4
    <2>8. v[f] = IF gone(f) THEN old[f].days ELSE w[f]
      BY DEF v
    <2>9. Unknown \in CacheEntries /\ Unknown.days = NoDays
      BY TtConstants DEF Unknown, CacheEntries, Present
    <2> HIDE DEF t, e
    <2>10. CASE f \in files
      <3>1. t.there /\ v[f] = w[f] /\ w[f] = NoDays /\ e = Entry(f, unreadable)
        BY <1>3, <1>5, <2>7, <2>8, <2>10 DEF gone, t
      <3>2. CASE Known(cache, f) /\ old[f].size = t.lines
        <4>1. e = [old[f] EXCEPT !.missing = Present]
          BY <3>1, <3>2 DEF Entry, t
        <4>2. e \in CacheEntries /\ e.days = old[f].days /\ e.size = old[f].size
          BY <1>5, <4>1, TtConstants DEF CacheEntries, Present
        <4>3. old[f].size > 0 /\ old[f].days = t.days
          BY <1>5, <3>2 DEF AsRead, Known, t
        <4>4. AsRead(e, t)
          BY <2>1, <3>2, <4>2, <4>3 DEF AsRead
        <4>5. \A m \in MonthIds : /\ v[f][m] + e.days[m] <= seen'[f][m]
                                  /\ ~excused => v[f][m] + e.days[m] = seen'[f][m]
          BY <1>5, <2>1, <2>2, <2>3, <2>5, <2>6, <3>1, <4>2, <4>3
        <4> QED BY <2>4, <3>1, <4>2, <4>4, <4>5 DEF t, e
      <3>3. CASE ~(Known(cache, f) /\ old[f].size = t.lines) /\ f \in unreadable
        <4>1. e = old[f]
          BY <3>1, <3>3 DEF Entry, t
        <4>2. seen'[f] = seen[f]
          BY <2>2, <3>3
        <4> QED BY <1>5, <2>4, <2>5, <3>1, <4>1, <4>2 DEF t, e
      <3>4. CASE ~(Known(cache, f) /\ old[f].size = t.lines) /\ f \notin unreadable
        <4>1. e = [size |-> t.lines, days |-> t.days, missing |-> Present]
          BY <3>1, <3>4 DEF Entry, ParseTranscriptDays, t
        <4>2. seen'[f] = t.days
          BY <2>2, <2>10, <3>4
        <4>3. e \in CacheEntries
          BY <2>1, <4>1, TtConstants DEF CacheEntries, Present
        <4>4. AsRead(e, t)
          BY <2>1, <3>1, <4>1 DEF AsRead
        <4>5. \A m \in MonthIds : v[f][m] + e.days[m] = seen'[f][m] /\ v[f][m] + e.days[m] <= seen'[f][m]
          BY <2>1, <2>3, <2>6, <3>1, <4>1, <4>2
        <4> QED BY <2>4, <3>1, <4>3, <4>4, <4>5 DEF t, e
      <3> QED BY <3>2, <3>3, <3>4
    <2>11. CASE f \notin files
      <3>1. seen'[f] = seen[f]
        BY <2>2, <2>11
      <3>2. CASE ~Known(cache, f)
        <4>1. e = Unknown /\ old[f] = Unknown /\ v[f] = w[f]
          BY <2>7, <2>8, <2>11, <3>2 DEF gone, Known
        <4> QED BY <1>5, <2>4, <2>5, <3>1, <4>1 DEF t, e
      <3>3. CASE Known(cache, f) /\ Retires(f, files)
        <4>1. e = Unknown /\ v[f] = old[f].days /\ w[f] = NoDays /\ old[f] # Unknown
          BY <1>5, <2>7, <2>8, <2>11, <3>3 DEF gone, Known
        <4>2. files # {}
          BY <3>3 DEF Retires, BrokenScan
        <4>3. ~t.there
          <5>1. rootUp
            BY <4>2 DEF CollectTranscriptFiles
          <5> QED BY <1>3, <2>11, <5>1 DEF t
        <4>4. t.lines > 0
          <5>1. old[f].size \in Nat /\ old[f].size > 0 /\ old[f].size <= t.lines
            BY <1>5, <4>1 DEF AsRead, CacheEntries, t
          <5> QED BY <2>1, <5>1
        <4>5. \A m \in MonthIds : /\ v[f][m] + e.days[m] <= seen'[f][m]
                                  /\ ~excused => v[f][m] + e.days[m] = seen'[f][m]
          BY <1>5, <2>1, <2>3, <2>5, <2>6, <2>9, <3>1, <4>1
        <4> QED BY <2>4, <2>9, <4>1, <4>3, <4>4, <4>5 DEF t, e, AsRead
      <3>4. CASE Known(cache, f) /\ ~Retires(f, files)
        <4>1. e = Missing(f) /\ v[f] = w[f] /\ w[f] = NoDays
          BY <1>5, <2>7, <2>8, <2>11, <3>4 DEF gone, Known
        <4>2. e = old[f] \/ e = [old[f] EXCEPT !.missing = 1]
          BY <4>1 DEF Missing
        <4>3. 1 \in 0..Retire + 1
          BY TtConstants
        <4>4. e \in CacheEntries /\ e.days = old[f].days /\ e.size = old[f].size
          BY <1>5, <4>2, <4>3 DEF CacheEntries
        <4>5. AsRead(e, t)
          <5>1. AsRead(old[f], t) /\ old[f] # Unknown
            BY <1>5, <3>4 DEF Known, t
          <5> QED BY <4>4, <5>1 DEF AsRead
        <4> QED BY <2>4, <2>5, <3>1, <4>1, <4>4, <4>5 DEF t, e
      <3> QED BY <3>2, <3>3, <3>4
    <2> QED BY <2>10, <2>11
  <1>8. TrOk(transcripts, seen')
    BY <1>1, <1>7 DEF TrOk
  <1>9. Backs(v, new, transcripts, seen', ~excused)
    <2>1. v \in [Files -> Days]
      <3>1. v = [f \in Files |-> v[f]]
        BY DEF v
      <3> QED BY <1>5, <3>1
    <2> QED BY <1>6, <1>7, <2>1 DEF Backs
  <1>10. Ledger(new, transcripts, seen', ~excused)
    BY <1>4, <1>9 DEF Ledger
  <1> QED BY <1>8, <1>10 DEF new

LEMMA TtCollects ==
    ASSUME TtInv, NEW unreadable \in SUBSET Files, Collects(unreadable)
    PROVE  TtInv'
  <1> DEFINE new == NewCache(CollectTranscriptFiles, unreadable)
  <1>1. TrOk(transcripts, seen') /\ Ledger(new, transcripts, seen', ~excused)
    BY Collecting
  <1> HIDE DEF new
  <1>2. /\ pass' = [at |-> "saves", cache |-> new, sums |-> Summarize(AllDays(new))] /\ pass.at = "off"
        /\ seen' = [f \in Files |-> IF f \in CollectTranscriptFiles \ unreadable THEN transcripts[f].days ELSE seen[f]]
        /\ UNCHANGED <<transcripts, rootUp, month, cache, printed, excused>>
    BY DEF Collects, new
  <1>3. /\ TrOk(transcripts, seen) /\ Ledger(cache, transcripts, seen, ~excused) /\ excused \in BOOLEAN
        /\ rootUp \in BOOLEAN /\ month \in MonthIds /\ DOMAIN transcripts = Files
    BY <1>2 DEF TtInv
  <1>4. \A f \in Files : \A m \in MonthIds : seen[f][m] <= seen'[f][m]
    <2> SUFFICES ASSUME NEW f \in Files, NEW m \in MonthIds PROVE seen[f][m] <= seen'[f][m]
      OBVIOUS
    <2>1. seen[f][m] \in Nat /\ seen[f][m] <= transcripts[f].days[m]
      BY <1>3 DEF TrOk, Days
    <2>2. seen'[f] = transcripts[f].days \/ seen'[f] = seen[f]
      BY <1>2
    <2> QED BY <2>1, <2>2
  <1>5. SeenDays = Sums(seen) /\ SeenDays' = Sums(seen')
    <2>1. \A f \in Files : seen[f] \in Days
      BY <1>3 DEF TrOk
    <2>2. \A f \in Files : seen'[f] \in Days
      BY <1>1 DEF TrOk
    <2>3. MergedDays(seen) = Sums(seen)
      BY <2>1, SumsTyped
    <2>4. MergedDays(seen') = Sums(seen')
      BY <2>2, SumsTyped
    <2>5. SeenDays' = MergedDays(seen')
      BY DEF SeenDays, MergedDays, MonthIds
    <2> QED BY <2>3, <2>4, <2>5 DEF SeenDays
  <1>6. Total(SeenDays) <= Total(SeenDays') /\ Total(SeenDays) \in Nat /\ Total(SeenDays') \in Nat
    <2>1. \A f \in Files : seen[f] \in Days
      BY <1>3 DEF TrOk
    <2>2. \A f \in Files : seen'[f] \in Days
      BY <1>1 DEF TrOk
    <2>3. Total(Sums(seen)) <= Total(Sums(seen'))
      BY <1>4, <2>1, <2>2, SumsGrow
    <2>4. Sums(seen) \in [MonthIds -> Nat] /\ Sums(seen') \in [MonthIds -> Nat]
      BY <2>1, <2>2, SumsTyped DEF Days
    <2>5. Total(Sums(seen)) \in Nat /\ Total(Sums(seen')) \in Nat
      BY <2>4, SumNatural, TtConstants DEF Total
    <2> QED BY <1>5, <2>3, <2>5
  <1>7. pass'.sums = Summarize(AllDays(new)) /\ pass'.sums.cumulative = Total(AllDays(new))
    BY <1>2 DEF Summarize
  <1>8. Total(AllDays(new)) \in Nat /\ Total(AllDays(new)) <= Total(Sums(seen')) /\ (~excused => AllDays(new) = Sums(seen'))
    BY <1>1, <1>3, LedgerSums
  <1>9. (pass.at # "off" => /\ ~excused => pass.sums = Summarize(SeenDays)
                            /\ pass.sums.cumulative <= Total(SeenDays) /\ pass.sums.cumulative \in Nat)'
    <2>1. ~excused => pass'.sums = [cumulative |-> Total(SeenDays'), monthToDate |-> SeenDays'[month']]
      BY <1>2, <1>5, <1>7, <1>8 DEF Summarize
    <2> QED BY <1>2, <1>5, <1>7, <1>8, <2>1 DEF Summarize, Total
  <1>10. (~excused => printed.cumulative <= Total(SeenDays))'
    <2> SUFFICES ASSUME ~excused PROVE printed.cumulative <= Total(SeenDays')
      BY <1>2 DEF Total
    <2>1. printed.cumulative <= Total(SeenDays)
      BY DEF TtInv
    <2>2. printed.cumulative \in Nat
      BY DEF TtInv
    <2> QED BY <1>6, <2>1, <2>2
  <1>11. Ledger(cache, transcripts, seen', FALSE)
    <2>1. PICK w : Backs(w, cache, transcripts, seen, ~excused)
      BY <1>3 DEF Ledger
    <2>2. Backs(w, cache, transcripts, seen', FALSE)
      <3> SUFFICES ASSUME NEW f \in Files, NEW m \in MonthIds
                   PROVE  w[f][m] + cache.files[f].days[m] <= seen'[f][m]
        BY <2>1 DEF Backs
      <3>1. w[f][m] + cache.files[f].days[m] <= seen[f][m]
        BY <2>1 DEF Backs
      <3>2. w[f][m] \in Nat /\ cache.files[f].days[m] \in Nat
        BY <2>1 DEF Backs, CacheEntries, Days
      <3>3. seen[f][m] \in Nat /\ seen'[f][m] \in Nat
        BY <1>1, <1>3 DEF TrOk, Days
      <3>4. w[f][m] + cache.files[f].days[m] \in Nat
        BY <3>2
      <3> QED BY <1>4, <3>1, <3>3, <3>4
    <2> QED BY <1>3, <2>2 DEF Ledger
  <1>12. TrOk(transcripts, seen)' /\ Ledger(cache, transcripts, seen, ~excused /\ pass.at # "saves")'
         /\ Ledger(pass.cache, transcripts, seen, ~excused)'
    <2>1. transcripts' = transcripts /\ cache' = cache /\ excused' = excused /\ pass'.at = "saves" /\ pass'.cache = new
      BY <1>2
    <2> QED BY <1>1, <1>3, <1>11, <2>1
  <1>13. printed'.cumulative \in Nat
    BY <1>2 DEF TtInv
  <1> QED BY <1>2, <1>3, <1>9, <1>10, <1>12, <1>13 DEF TtInv

(* What nothing but a read changes: the sums of what was read. *)
LEMMA SeenKept ==
    ASSUME UNCHANGED <<seen, month>>
    PROVE  SeenDays' = SeenDays /\ Total(SeenDays)' = Total(SeenDays)
           /\ Summarize(SeenDays)' = Summarize(SeenDays)
  BY DEF SeenDays, MergedDays, MonthIds, Total, Summarize

LEMMA TtSaves ==
    ASSUME TtInv, NEW ok \in BOOLEAN, SavesCache(ok)
    PROVE  TtInv'
  <1>1. /\ pass.at = "saves" /\ pass' = [pass EXCEPT !.at = "prints", !.cache = NoCache]
        /\ cache' = (IF ok THEN pass.cache ELSE cache) /\ excused' = (excused \/ ~ok)
        /\ UNCHANGED <<transcripts, rootUp, month, printed, seen>>
    BY DEF SavesCache
  <1>2. /\ pass' = [at |-> pass'.at, cache |-> pass'.cache, sums |-> pass'.sums]
        /\ pass'.at = "prints" /\ pass'.sums = pass.sums
    BY <1>1 DEF TtInv
  <1>3. /\ rootUp' \in BOOLEAN /\ month' \in MonthIds /\ excused' \in BOOLEAN
        /\ DOMAIN transcripts' = Files /\ DOMAIN seen' = Files /\ TrOk(transcripts, seen)'
    BY <1>1 DEF TtInv, TrOk
  <1>4. Ledger(cache', transcripts, seen, ~excused')
    <2>1. CASE ok
      <3>1. cache' = pass.cache /\ excused' = excused
        BY <1>1, <2>1 DEF TtInv
      <3> QED BY <1>1, <3>1 DEF TtInv
    <2>2. CASE ~ok
      <3>1. cache' = cache /\ excused' = TRUE
        BY <1>1, <2>2
      <3>2. Ledger(cache, transcripts, seen, FALSE)
        BY <1>1 DEF TtInv
      <3> QED BY <3>1, <3>2
    <2> QED BY <2>1, <2>2
  <1>5. Ledger(cache, transcripts, seen, ~excused /\ pass.at # "saves")'
    BY <1>1, <1>2, <1>4
  <1>6. (pass.at # "off" => /\ ~excused => pass.sums = Summarize(SeenDays)
                            /\ pass.sums.cumulative <= Total(SeenDays) /\ pass.sums.cumulative \in Nat)'
    BY <1>1, <1>2, SeenKept DEF TtInv
  <1>7. (printed.cumulative \in Nat /\ (~excused => printed.cumulative <= Total(SeenDays)))'
    BY <1>1, SeenKept DEF TtInv
  <1>8. (pass.at = "saves" => Ledger(pass.cache, transcripts, seen, ~excused))'
    BY <1>2
  <1> QED BY <1>2, <1>3, <1>5, <1>6, <1>7, <1>8 DEF TtInv

LEMMA TtPrints ==
    ASSUME TtInv, PrintsSums
    PROVE  TtInv'
  <1>1. /\ pass.at = "prints" /\ pass' = [pass EXCEPT !.at = "off"] /\ printed' = pass.sums
        /\ UNCHANGED <<transcripts, rootUp, month, cache, seen, excused>>
    BY DEF PrintsSums
  <1>2. /\ pass' = [at |-> pass'.at, cache |-> pass'.cache, sums |-> pass'.sums] /\ pass'.at = "off"
    BY <1>1 DEF TtInv
  <1>3. /\ rootUp' \in BOOLEAN /\ month' \in MonthIds /\ excused' \in BOOLEAN
        /\ DOMAIN transcripts' = Files /\ DOMAIN seen' = Files /\ TrOk(transcripts, seen)'
    BY <1>1 DEF TtInv, TrOk
  <1>4. Ledger(cache, transcripts, seen, ~excused /\ pass.at # "saves")'
    <2>1. Ledger(cache, transcripts, seen, ~excused)
      BY <1>1 DEF TtInv
    <2>2. cache' = cache /\ transcripts' = transcripts /\ seen' = seen /\ excused' = excused
      BY <1>1
    <2> QED BY <1>2, <2>1, <2>2
  <1>5. (printed.cumulative \in Nat /\ (~excused => printed.cumulative <= Total(SeenDays)))'
    <2>1. printed'.cumulative \in Nat /\ printed'.cumulative <= Total(SeenDays)
      BY <1>1 DEF TtInv
    <2> QED BY <1>1, <2>1, SeenKept
  <1> QED BY <1>2, <1>3, <1>4, <1>5 DEF TtInv

(* What happens to the transcripts and to the ledger while no pass collects. *)
LEMMA TtQuiet ==
    ASSUME TtInv, UNCHANGED <<pass, printed, seen>>, rootUp' \in BOOLEAN, excused' \in BOOLEAN, excused => excused',
           month' \in MonthIds, month' # month => pass.at = "off", DOMAIN transcripts' = Files,
           TrOk(transcripts', seen),
           Ledger(cache', transcripts', seen, ~excused' /\ pass.at # "saves"),
           pass.at = "saves" => Ledger(pass.cache, transcripts', seen, ~excused')
    PROVE  TtInv'
  <1>1. /\ pass' = [at |-> pass'.at, cache |-> pass'.cache, sums |-> pass'.sums]
        /\ pass'.at \in {"off", "saves", "prints"} /\ DOMAIN seen' = Files
    BY DEF TtInv
  <1>2. SeenDays' = SeenDays
    BY DEF SeenDays, MergedDays, MonthIds
  <1>3. Total(SeenDays)' = Total(SeenDays)
    BY <1>2 DEF Total
  <1>4. (pass.at # "off" => /\ ~excused => pass.sums = Summarize(SeenDays)
                            /\ pass.sums.cumulative <= Total(SeenDays) /\ pass.sums.cumulative \in Nat)'
    <2> SUFFICES ASSUME pass.at # "off"
                 PROVE  /\ ~excused' => pass.sums = Summarize(SeenDays)'
                        /\ pass.sums.cumulative <= Total(SeenDays)' /\ pass.sums.cumulative \in Nat
      OBVIOUS
    <2>1. Summarize(SeenDays)' = Summarize(SeenDays)
      BY <1>2, <1>3 DEF Summarize
    <2> QED BY <1>3, <2>1 DEF TtInv
  <1>5. (printed.cumulative \in Nat /\ (~excused => printed.cumulative <= Total(SeenDays)))'
    BY <1>3 DEF TtInv
  <1>6. TrOk(transcripts, seen)' /\ Ledger(cache, transcripts, seen, ~excused /\ pass.at # "saves")'
        /\ (pass.at = "saves" => Ledger(pass.cache, transcripts, seen, ~excused))'
    <2>1. seen' = seen /\ pass' = pass
      OBVIOUS
    <2> QED BY <2>1
  <1> QED BY <1>1, <1>4, <1>5, <1>6 DEF TtInv

LEMMA TtWrites ==
    ASSUME TtInv, NEW f \in Files, NEW again \in BOOLEAN, SessionWrites(f, again)
    PROVE  TtInv'
  <1> DEFINE t == transcripts[f]
             u == WithLine(t, again)
  <1>1. /\ pass.at = "off" /\ (t.there \/ t.lines = 0) /\ transcripts' = [transcripts EXCEPT ![f] = u]
        /\ UNCHANGED <<rootUp, month, cache, pass, printed, seen, excused>>
    BY DEF SessionWrites
  <1>2. /\ TrOk(transcripts, seen) /\ Ledger(cache, transcripts, seen, ~excused) /\ DOMAIN transcripts = Files
        /\ excused \in BOOLEAN /\ rootUp \in BOOLEAN /\ month \in MonthIds
    BY <1>1 DEF TtInv
  <1>3. t.lines \in Nat /\ t.days \in Days /\ t.there \in BOOLEAN /\ seen[f] \in Days
        /\ \A m \in MonthIds : seen[f][m] <= t.days[m]
    BY <1>2 DEF TrOk
  <1>4. \A g \in Files : transcripts'[g] = IF g = f THEN u ELSE transcripts[g]
    BY <1>1, <1>2
  <1>5. u.days \in Days /\ \A m \in MonthIds : t.days[m] <= u.days[m]
    <2>1. CASE again
      BY <1>3, <2>1 DEF Days, WithLine
    <2>2. CASE ~again
      <3>1. u.days = [t.days EXCEPT ![month] = @ + 1]
        BY <2>2 DEF WithLine
      <3> HIDE DEF t, u
      <3> QED BY <1>2, <1>3, <3>1 DEF Days
    <2> QED BY <2>1, <2>2
  <1>6. u = [there |-> TRUE, lines |-> t.lines + 1, days |-> u.days] /\ u.lines = t.lines + 1 /\ u.there = TRUE
    BY DEF WithLine
  <1> HIDE DEF u
  <1>7. TrOk(transcripts', seen)
    <2> SUFFICES ASSUME NEW g \in Files
                 PROVE  /\ transcripts'[g] \in [there : BOOLEAN, days : Days, lines : Nat]
                        /\ transcripts'[g].there => transcripts'[g].lines > 0
                        /\ seen[g] \in Days /\ \A m \in MonthIds : seen[g][m] <= transcripts'[g].days[m]
      BY DEF TrOk
    <2>1. CASE g = f
      <3>1. transcripts'[g] = u /\ u.lines \in Nat /\ u.lines > 0
        BY <1>3, <1>4, <1>6, <2>1
      <3>2. u \in [there : BOOLEAN, days : Days, lines : Nat]
        BY <1>5, <1>6, <3>1
      <3>3. \A m \in MonthIds : seen[g][m] <= u.days[m]
        <4> SUFFICES ASSUME NEW m \in MonthIds PROVE seen[g][m] <= u.days[m]
          OBVIOUS
        <4>1. seen[g][m] \in Nat /\ t.days[m] \in Nat /\ u.days[m] \in Nat
          BY <1>3, <1>5, <2>1 DEF Days
        <4> QED BY <1>3, <1>5, <2>1, <4>1
      <3> QED BY <1>3, <2>1, <3>1, <3>2, <3>3
    <2>2. CASE g # f
      BY <1>2, <1>4, <2>2 DEF TrOk
    <2> QED BY <2>1, <2>2
  <1>8. Ledger(cache, transcripts', seen, ~excused)
    <2>1. PICK w : Backs(w, cache, transcripts, seen, ~excused)
      BY <1>2 DEF Ledger
    <2>2. Backs(w, cache, transcripts', seen, ~excused)
      <3> SUFFICES ASSUME NEW g \in Files
                   PROVE  /\ AsRead(cache.files[g], transcripts'[g])
                          /\ w[g] # NoDays => ~transcripts'[g].there /\ transcripts'[g].lines > 0
        BY <2>1 DEF Backs
      <3>1. CASE g = f
        <4>1. /\ cache.files[g] \in CacheEntries /\ AsRead(cache.files[g], t)
              /\ w[g] # NoDays => ~t.there /\ t.lines > 0
          BY <2>1, <3>1 DEF Backs
        <4>2. w[g] = NoDays
          BY <1>1, <1>3, <4>1
        <4>3. AsRead(cache.files[g], u)
          <5>1. \A z \in Nat : z <= t.lines => z <= t.lines + 1 /\ z # t.lines + 1
            BY <1>3
          <5>2. cache.files[g].size \in Nat
            BY <4>1 DEF CacheEntries
          <5> QED BY <1>6, <4>1, <5>1, <5>2 DEF AsRead
        <4> QED BY <1>4, <3>1, <4>2, <4>3
      <3>2. CASE g # f
        BY <1>4, <2>1, <3>2 DEF Backs
      <3> QED BY <3>1, <3>2
    <2> QED BY <1>2, <2>2 DEF Ledger
  <1>9. DOMAIN transcripts' = Files
    BY <1>1, <1>2
  <1>10. Ledger(cache', transcripts', seen, ~excused' /\ pass.at # "saves")
    BY <1>1, <1>8
  <1> QED BY <1>1, <1>2, <1>7, <1>9, <1>10, TtQuiet

LEMMA TtPruned ==
    ASSUME TtInv, NEW f \in Files, PrunedAway(f)
    PROVE  TtInv'
  <1>1. /\ transcripts[f].there /\ transcripts' = [transcripts EXCEPT ![f].there = FALSE]
        /\ UNCHANGED <<rootUp, month, cache, pass, printed, seen, excused>>
    BY DEF PrunedAway
  <1>2. /\ TrOk(transcripts, seen) /\ Ledger(cache, transcripts, seen, ~excused /\ pass.at # "saves")
        /\ pass.at = "saves" => Ledger(pass.cache, transcripts, seen, ~excused)
        /\ DOMAIN transcripts = Files /\ excused \in BOOLEAN /\ rootUp \in BOOLEAN /\ month \in MonthIds
    BY DEF TtInv
  <1>3. \A g \in Files : transcripts'[g] = IF g = f THEN [transcripts[f] EXCEPT !.there = FALSE] ELSE transcripts[g]
    BY <1>1, <1>2
  <1>4. ASSUME NEW g \in Files
        PROVE  /\ transcripts'[g] \in [there : BOOLEAN, days : Days, lines : Nat]
               /\ transcripts'[g].days = transcripts[g].days /\ transcripts'[g].lines = transcripts[g].lines
               /\ transcripts'[g].there => transcripts[g].there
    <2>1. transcripts[g] \in [there : BOOLEAN, days : Days, lines : Nat]
      BY <1>2 DEF TrOk
    <2> QED BY <1>3, <2>1
  <1>5. TrOk(transcripts', seen)
    BY <1>2, <1>4 DEF TrOk
  <1>6. /\ \A c : \A g \in Files : c.files[g] \in CacheEntries /\ AsRead(c.files[g], transcripts[g])
                       => AsRead(c.files[g], transcripts'[g])
        /\ \A g \in Files : ~transcripts[g].there /\ transcripts[g].lines > 0
                       => ~transcripts'[g].there /\ transcripts'[g].lines > 0
    BY <1>4 DEF AsRead
  <1>7. Ledger(cache, transcripts', seen, ~excused /\ pass.at # "saves")
    <2> DEFINE exact == ~excused /\ pass.at # "saves"
    <2>1. exact \in BOOLEAN /\ Ledger(cache, transcripts, seen, exact)
      BY <1>2
    <2>2. Ledger(cache, transcripts', seen, exact)
      <3> HIDE DEF exact
      <3> QED BY <1>6, <2>1, LedgerKept
    <2> QED BY <2>2
  <1>8. ASSUME pass.at = "saves" PROVE Ledger(pass.cache, transcripts', seen, ~excused)
    <2> DEFINE exact == ~excused
    <2>1. exact \in BOOLEAN /\ Ledger(pass.cache, transcripts, seen, exact)
      BY <1>2, <1>8
    <2>2. Ledger(pass.cache, transcripts', seen, exact)
      <3> HIDE DEF exact
      <3> QED BY <1>6, <2>1, LedgerKept
    <2> QED BY <2>2
  <1>9. DOMAIN transcripts' = Files
    BY <1>1, <1>2
  <1> QED BY <1>1, <1>2, <1>5, <1>7, <1>8, <1>9, TtQuiet

LEMMA TtDays ==
    ASSUME TtInv, DayPasses
    PROVE  TtInv'
  <1> DEFINE old == cache.files
             new == [f \in Files |-> ADayLater(old[f])]
  <1>1. pass.at = "off" /\ UNCHANGED <<transcripts, rootUp, month, pass, printed, seen, excused>>
    BY DEF DayPasses
  <1>2. /\ TrOk(transcripts, seen) /\ Ledger(cache, transcripts, seen, ~excused) /\ DOMAIN transcripts = Files
        /\ excused \in BOOLEAN /\ rootUp \in BOOLEAN /\ month \in MonthIds
    BY <1>1 DEF TtInv
  <1>3. cache' = [cache EXCEPT !.files = new]
    BY DEF DayPasses
  <1>4. cache = [files |-> cache.files, retired |-> cache.retired]
    BY <1>2 DEF Ledger
  <1> HIDE DEF new
  <1>5. cache' = [files |-> new, retired |-> cache.retired] /\ cache'.files = new /\ cache'.retired = cache.retired
    BY <1>3, <1>4
  <1>6. PICK w : Backs(w, cache, transcripts, seen, ~excused)
    BY <1>2 DEF Ledger
  <1>7. ASSUME NEW f \in Files
        PROVE  /\ new[f] \in CacheEntries /\ new[f].days = old[f].days /\ new[f].size = old[f].size
               /\ old[f] = Unknown => new[f] = Unknown
               /\ AsRead(new[f], transcripts[f])
    <2>1. old[f] \in CacheEntries /\ AsRead(old[f], transcripts[f])
      BY <1>6 DEF Backs
    <2>2. new[f] = IF old[f].missing \in {Present, Retire + 1} THEN old[f] ELSE [old[f] EXCEPT !.missing = @ + 1]
      BY DEF new, ADayLater
    <2>3. old[f] = Unknown => new[f] = Unknown
      BY <2>2 DEF Unknown
    <2>4. CASE old[f].missing \in {Present, Retire + 1}
      BY <2>1, <2>2, <2>4
    <2>5. CASE old[f].missing \notin {Present, Retire + 1}
      <3>1. old[f].missing + 1 \in 0..Retire + 1
        BY <2>1, <2>5, TtConstants DEF CacheEntries, Present
      <3>2. new[f] = [old[f] EXCEPT !.missing = old[f].missing + 1]
        BY <2>2, <2>5
      <3>3. new[f] \in CacheEntries /\ new[f].days = old[f].days /\ new[f].size = old[f].size
        BY <2>1, <3>1, <3>2 DEF CacheEntries
      <3>4. old[f] # Unknown
        BY <2>5 DEF Unknown
      <3> QED BY <2>1, <3>3, <3>4 DEF AsRead
    <2> QED BY <2>3, <2>4, <2>5
  <1>8. Backs(w, cache', transcripts, seen, ~excused)
    <2>1. /\ w \in [Files -> Days] /\ cache'.retired = Sums(w)
      BY <1>5, <1>6 DEF Backs
    <2> SUFFICES ASSUME NEW f \in Files
                 PROVE  /\ new[f] \in CacheEntries /\ AsRead(new[f], transcripts[f])
                        /\ w[f] # NoDays => new[f] = Unknown /\ ~transcripts[f].there /\ transcripts[f].lines > 0
                        /\ \A m \in MonthIds : /\ w[f][m] + new[f].days[m] <= seen[f][m]
                                               /\ ~excused => w[f][m] + new[f].days[m] = seen[f][m]
      BY <1>5, <2>1 DEF Backs
    <2>2. /\ w[f] # NoDays => old[f] = Unknown /\ ~transcripts[f].there /\ transcripts[f].lines > 0
          /\ \A m \in MonthIds : /\ w[f][m] + old[f].days[m] <= seen[f][m]
                                 /\ ~excused => w[f][m] + old[f].days[m] = seen[f][m]
      BY <1>6 DEF Backs
    <2> QED BY <1>7, <2>2
  <1>9. Ledger(cache', transcripts, seen, ~excused)
    <2>1. new = [f \in Files |-> new[f]]
      BY DEF new
    <2> QED BY <1>5, <1>8, <2>1 DEF Ledger
  <1>10. Ledger(cache', transcripts', seen, ~excused' /\ pass.at # "saves") /\ TrOk(transcripts', seen)
    BY <1>1, <1>2, <1>9
  <1> QED BY <1>1, <1>2, <1>10, TtQuiet

LEMMA TtStepInv == TtInv /\ [TtNext]_ttVars => TtInv'
  <1> SUFFICES ASSUME TtInv, [TtNext]_ttVars PROVE TtInv'
    OBVIOUS
  <1>0. /\ TrOk(transcripts, seen) /\ DOMAIN transcripts = Files /\ rootUp \in BOOLEAN /\ month \in MonthIds
        /\ excused \in BOOLEAN
        /\ Ledger(cache, transcripts, seen, ~excused /\ pass.at # "saves")
        /\ pass.at = "saves" => Ledger(pass.cache, transcripts, seen, ~excused)
    BY DEF TtInv
  <1>1. ASSUME NEW unreadable \in SUBSET Files, Collects(unreadable) PROVE TtInv'
    BY <1>1, TtCollects
  <1>2. ASSUME NEW ok \in BOOLEAN, SavesCache(ok) PROVE TtInv'
    BY <1>2, TtSaves
  <1>3. CASE PrintsSums
    BY <1>3, TtPrints
  <1>4. ASSUME UNCHANGED <<transcripts, cache, pass, printed, seen, excused>>, rootUp' \in BOOLEAN,
               month' \in MonthIds, month' # month => pass.at = "off"
        PROVE  TtInv'
    <2>1. /\ TrOk(transcripts', seen) /\ DOMAIN transcripts' = Files
          /\ Ledger(cache', transcripts', seen, ~excused' /\ pass.at # "saves")
          /\ pass.at = "saves" => Ledger(pass.cache, transcripts', seen, ~excused')
      BY <1>0, <1>4
    <2>2. excused' \in BOOLEAN /\ (excused => excused')
      BY <1>0, <1>4
    <2> QED BY <1>4, <2>1, <2>2, TtQuiet
  <1>5. CASE RootFlips
    BY <1>0, <1>4, <1>5 DEF RootFlips
  <1>6. CASE MonthTurns
    <2>1. month + 1 \in MonthIds
      BY <1>0, <1>6, TtConstants DEF MonthTurns, MonthIds
    <2> QED BY <1>0, <1>4, <1>6, <2>1 DEF MonthTurns
  <1>7. CASE DayPasses
    BY <1>7, TtDays
  <1>8. CASE CacheLost
    <2>1. pass.at = "off" /\ cache' = NoCache /\ excused' = TRUE
          /\ UNCHANGED <<transcripts, rootUp, month, pass, printed, seen>>
      BY <1>8 DEF CacheLost
    <2>2. Ledger(NoCache, transcripts, seen, FALSE)
      BY <1>0, EmptyLedger
    <2>3. /\ TrOk(transcripts', seen) /\ DOMAIN transcripts' = Files
          /\ Ledger(cache', transcripts', seen, ~excused' /\ pass.at # "saves")
      BY <1>0, <2>1, <2>2
    <2> QED BY <1>0, <2>1, <2>3, TtQuiet
  <1>9. ASSUME NEW f \in Files, PrunedAway(f) PROVE TtInv'
    BY <1>9, TtPruned
  <1>10. ASSUME NEW f \in Files, NEW again \in BOOLEAN, SessionWrites(f, again) PROVE TtInv'
    BY <1>10, TtWrites
  <1>11. CASE UNCHANGED ttVars
    BY <1>0, <1>4, <1>11 DEF ttVars
  <1> QED BY <1>1, <1>2, <1>3, <1>5, <1>6, <1>7, <1>8, <1>9, <1>10, <1>11 DEF TtNext

LEMMA TtSaysSo == TtInv => TallyTrue
  <1> SUFFICES ASSUME TtInv PROVE TallyTrue
    OBVIOUS
  <1>1. \A f \in Files : cache.files[f].missing \in 0..Retire + 1
    BY DEF TtInv, Ledger, Backs, CacheEntries
  <1>2. TtTypeOK
    BY <1>1 DEF TtInv, TtTypeOK
  <1>3. SumsAreWhatWasSeen /\ NothingTwice
    BY DEF TtInv, SumsAreWhatWasSeen, NothingTwice
  <1>4. CounterRises
    <2> SUFFICES ASSUME pass.at # "off", ~excused PROVE printed.cumulative <= pass.sums.cumulative
      BY DEF CounterRises
    <2>1. pass.sums = Summarize(SeenDays) /\ printed.cumulative <= Total(SeenDays)
      BY DEF TtInv
    <2> QED BY <2>1 DEF Summarize
  <1> QED BY <1>2, <1>3, <1>4 DEF TallyTrue

-----------------------------------------------------------------------------
(* The streak gauges are of what passes have seen, for any samples that       *)
(* Prometheus holds, loses or does not give, and the token counter is of what *)
(* was read, for any files that come, grow, cannot be read and are pruned.    *)
THEOREM MetersTrueEach == Spec => []MetersTrue
  <1>1. DsSpec => []StreakTrue
    BY DsInitInv, DsStepInv, DsSaysSo, PTL DEF DsSpec
  <1>2. TtSpec => []TallyTrue
    BY TtInitInv, TtStepInv, TtSaysSo, PTL DEF TtSpec
  <1>3. StreakTrue /\ TallyTrue => MetersTrue
    BY DEF MetersTrue
  <1> QED BY Parts, <1>1, <1>2, <1>3, PTL
=============================================================================
