--------------------------- MODULE SessionProofs ---------------------------
(***************************************************************************)
(* The safety properties of what the daemon types into the session, for    *)
(* any prompts, blocks, injectors, dialogs and any settings of the timers  *)
(* and budgets: what ails the account is told in time, updates and respawns*)
(* end with a session that runs, prompts are handled once, a line is typed *)
(* whole, a menu or dialog is answered as it was meant to be, and what is  *)
(* read off the screen and of the processes is so.                         *)
(***************************************************************************)
EXTENDS MCSession, FiniteSetTheorems, SequenceTheorems, WellFoundedInduction, TLAPS

-----------------------------------------------------------------------------
(* The age of a thing, one pass later. *)
LEMMA TickTyped ==
    ASSUME NEW a, NEW cap \in Nat, a \in Ages(cap)
    PROVE  /\ Older(a, cap) \in Ages(cap) /\ (a = None <=> Older(a, cap) = None)
           /\ a # None => Older(a, cap) = a + 1 \/ (Older(a, cap) = cap /\ a = cap)
  BY DEF Older, Least, Ages, None

LEMMA Fresh == \A cap \in Nat : 0 \in Ages(cap) /\ None \in Ages(cap)
  BY DEF Ages, None

(* A behaviour of the session runs one of its parts, and leaves the others    *)
(* as they began.                                                             *)
LEMMA Parts == Spec => /\ LgSpec /\ CrSpec /\ AuSpec /\ RsSpec /\ PpSpec /\ MfSpec
                       /\ RdSpec /\ PcSpec
  <1> DEFINE vars == <<focus, lgVars, crVars, auVars, rsVars, ppVars,
                       mfVars, ipVars, iiVars, arVars, rdVars, pcVars>>
  <1>1. Init => /\ LgInit /\ CrInit /\ AuInit /\ RsInit /\ PpInit /\ MfInit
               /\ RdInit /\ PcInit
    BY DEF Init
  <1>2. [Next]_vars => /\ [LgNext]_lgVars /\ [CrNext]_crVars /\ [AuNext]_auVars
                       /\ [RsNext]_rsVars /\ [PpNext]_ppVars /\ [MfNext]_mfVars
                       /\ [RdNext]_rdVars /\ [PcNext]_pcVars
    BY DEF Next
  <1> QED BY <1>1, <1>2, PTL DEF Spec, LgSpec, CrSpec, AuSpec, RsSpec, PpSpec, MfSpec, RdSpec, PcSpec

-----------------------------------------------------------------------------
(* Login.  The passes that kept silent about a proved 401 are no more than   *)
(* the age of the last alert, if one is on record; only the login screen     *)
(* that went away takes it off the record.                                   *)
SilenceCounted == mute \in Nat /\ (login.alert # None => mute <= login.alert)
LgGood == LgTypeOK /\ ProvedFailureTold
LgInv == LgGood /\ SilenceCounted
LoginRecords ==
    [gate : BOOLEAN, banner : BOOLEAN, injected : BOOLEAN, alert : Ages(LoginAlert),
     expiring : BOOLEAN, expAlert : Ages(LoginAlert), attempt : Ages(LoginSpacing),
     attempts : 0..MaxLogins, opened : Ages(AbandonAfter)]

LEMMA LoginConstants ==
    /\ LoginSpacing \in Nat /\ MaxLogins \in Nat /\ AbandonAfter \in Nat /\ LoginAlert \in Nat
    /\ MaxStarting \in Nat
  BY LoginAssumption

LEMMA LgInitInv == LgInit => LgInv
  <1> SUFFICES ASSUME LgInit PROVE LgInv
    OBVIOUS
  <1>1. login \in LoginRecords
    <2>1. None \in Ages(LoginAlert) /\ None \in Ages(LoginSpacing) /\ None \in Ages(AbandonAfter)
          /\ 0 \in 0..MaxLogins
      BY LoginConstants, Fresh
    <2> QED BY <2>1 DEF LgInit, LoginRecords
  <1>2. creds \in [access : BOOLEAN, refresh : Refresh, moved : BOOLEAN]
    BY DEF LgInit, Refresh
  <1> QED BY <1>1, <1>2, LoginConstants
       DEF LgInit, LgInv, LgGood, LgTypeOK, ProvedFailureTold, SilenceCounted, LoginRecords

LEMMA WatchedTyped ==
    ASSUME LgTypeOK
    PROVE  LET m == Watched(LoginAged) IN
           /\ m \in LoginRecords /\ m.alert = Older(login.alert, LoginAlert)
           /\ m.attempts = login.attempts /\ m.banner = login.banner
  <1>1. /\ Older(login.alert, LoginAlert) \in Ages(LoginAlert)
        /\ Older(login.expAlert, LoginAlert) \in Ages(LoginAlert)
        /\ Older(login.opened, AbandonAfter) \in Ages(AbandonAfter)
        /\ Older(login.attempt, LoginSpacing) \in Ages(LoginSpacing)
    BY LoginConstants, TickTyped DEF LgTypeOK
  <1>2. /\ LoginAged \in LoginRecords /\ LoginAged.alert = Older(login.alert, LoginAlert)
        /\ LoginAged.attempts = login.attempts /\ LoginAged.banner = login.banner
    BY <1>1 DEF LgTypeOK, LoginAged, LoginRecords
  <1>3. None \in Ages(AbandonAfter)
    BY LoginConstants, Fresh
  <1> QED BY <1>2, <1>3 DEF Watched, LoginRecords

LEMMA LoggedInTyped ==
    ASSUME NEW m \in LoginRecords, MayLogin(m)
    PROVE  LET l == LoggedIn(m) IN
           l \in LoginRecords /\ l.alert = m.alert /\ l.attempts >= m.attempts
  <1>1. m.attempts \in 0..MaxLogins /\ m.attempts < MaxLogins
    BY DEF LoginRecords, MayLogin
  <1>2. m.attempts + 1 \in 0..MaxLogins /\ m.attempts + 1 >= m.attempts
    BY <1>1, LoginConstants
  <1>3. 0 \in Ages(LoginSpacing) /\ 0 \in Ages(AbandonAfter)
    BY LoginConstants, Fresh
  <1> QED BY <1>2, <1>3 DEF LoggedIn, LoginRecords

(* What each half makes of the record. *)
LEMMA BannerTyped ==
    ASSUME NEW m \in LoginRecords, NEW sight \in LoginSights
    PROVE  LET b == Banner(m, sight) IN
           /\ b \in LoginRecords /\ b.attempts >= m.attempts
           /\ BannerAction(m, sight) = "alert" /\ b.alert # 0 => b.alert = m.alert /\ ~AlertDue(m.alert)
  <1> DEFINE marked == [m EXCEPT !.banner = TRUE]
  <1>0. m.attempts \in Nat
    BY LoginConstants DEF LoginRecords
  <1>1. marked \in LoginRecords /\ marked.attempts = m.attempts /\ marked.alert = m.alert
    BY DEF LoginRecords
  <1>2. CASE BannerAction(m, sight) = "login"
    <2>1. MayLogin(marked)
      BY <1>2 DEF BannerAction, MayLogin, LoginRecords
    <2>2. Banner(m, sight) = LoggedIn(marked)
      BY <1>2 DEF Banner
    <2> QED BY <1>1, <1>2, <2>1, <2>2, LoggedInTyped
  <1>3. CASE BannerAction(m, sight) = "alert" /\ AlertDue(m.alert)
    <2>1. Banner(m, sight) = [marked EXCEPT !.alert = 0] /\ 0 \in Ages(LoginAlert)
      BY <1>3, LoginConstants, Fresh DEF Banner
    <2>2. [marked EXCEPT !.alert = 0] \in LoginRecords
      BY <1>1, <2>1 DEF LoginRecords
    <2>3. [marked EXCEPT !.alert = 0].attempts = m.attempts /\ [marked EXCEPT !.alert = 0].alert = 0
      BY <1>1 DEF LoginRecords
    <2> HIDE DEF marked
    <2> QED BY <1>0, <2>1, <2>2, <2>3
  <1>4. CASE BannerAction(m, sight) # "login" /\ ~(BannerAction(m, sight) = "alert" /\ AlertDue(m.alert))
    <2>1. Banner(m, sight) = marked
      BY <1>4 DEF Banner
    <2> QED BY <1>0, <1>1, <1>4, <2>1
  <1> QED BY <1>2, <1>3, <1>4

LEMMA ReactedTyped ==
    ASSUME NEW m \in LoginRecords, NEW sight \in LoginSights
    PROVE  LET r == Reacted(m, sight) IN
           /\ r \in LoginRecords
           /\ ~m.banner => r.attempts >= m.attempts
  <1>1. m.attempts \in Nat /\ 0 \in 0..MaxLogins /\ None \in Ages(LoginSpacing) /\ None \in Ages(AbandonAfter)
    BY LoginConstants, Fresh DEF LoginRecords
  <1>2. CASE Signal(sight) = "banner"
    BY <1>2, BannerTyped DEF Reacted
  <1>3. CASE Signal(sight) # "banner" /\ (~m.banner \/ Signal(sight) = "login")
    BY <1>1, <1>3 DEF Reacted
  <1>4. CASE Signal(sight) # "banner" /\ m.banner /\ Signal(sight) # "login"
    <2>1. \/ Reacted(m, sight) = [m EXCEPT !.banner = FALSE]
          \/ Reacted(m, sight) = [m EXCEPT !.banner = FALSE, !.attempts = 0, !.attempt = None, !.opened = None]
      BY <1>4 DEF Reacted
    <2>2. Reacted(m, sight) \in LoginRecords
      BY <1>1, <2>1 DEF LoginRecords
    <2> QED BY <1>4, <2>2
  <1> QED BY <1>2, <1>3, <1>4

LEMMA ScreenedTyped ==
    ASSUME NEW m \in LoginRecords, NEW sight \in LoginSights
    PROVE  LET s == Screened(m, sight) IN
           /\ s \in LoginRecords /\ s.attempts = m.attempts
           /\ Signal(sight) # "login" => s.alert \in {None, m.alert}
  <1>1. None \in Ages(LoginAlert) /\ 0 \in Ages(LoginAlert)
    BY LoginConstants, Fresh
  <1>2. CASE Signal(sight) = "login"
    <2> DEFINE types == m.injected \/ TypesLogin(m, sight)
               age == IF screen = "code" /\ AlertDue(m.alert) THEN 0 ELSE m.alert
    <2>1. Screened(m, sight) = [m EXCEPT !.gate = TRUE, !.injected = types, !.alert = age]
      BY <1>2 DEF Screened
    <2>2. types \in BOOLEAN /\ age \in Ages(LoginAlert)
      BY <1>1 DEF LoginRecords
    <2> HIDE DEF types, age
    <2> QED BY <1>2, <2>1, <2>2 DEF LoginRecords
  <1>3. CASE Signal(sight) # "login" /\ m.gate
    <2>1. Screened(m, sight) = [m EXCEPT !.gate = FALSE, !.alert = None, !.injected = FALSE]
      BY <1>3 DEF Screened
    <2> QED BY <1>1, <2>1 DEF LoginRecords
  <1>4. CASE Signal(sight) # "login" /\ ~m.gate
    BY <1>4 DEF Screened
  <1> QED BY <1>2, <1>3, <1>4

LEMMA RenewedTyped ==
    ASSUME NEW m \in LoginRecords, NEW sight \in LoginSights
    PROVE  LET r == Renewed(m, sight) IN
           /\ r \in LoginRecords /\ r.alert = m.alert
           /\ ~creds.moved => r.attempts = m.attempts
  <1>1. 0 \in 0..MaxLogins /\ None \in Ages(LoginSpacing) /\ None \in Ages(AbandonAfter) /\ None \in Ages(LoginAlert)
    BY LoginConstants, Fresh
  <1> QED BY <1>1 DEF Renewed, LoginRecords

LEMMA ExpectedTyped ==
    ASSUME NEW m \in LoginRecords, NEW sight \in LoginSights, NEW shown
    PROVE  LET e == Expected(m, sight, shown) IN
           /\ e \in LoginRecords /\ e.alert = m.alert
           /\ InDialog(shown) => e.attempts >= m.attempts
  <1> DEFINE noted == [m EXCEPT !.expiring = TRUE, !.expAlert = IF AlertDue(@) THEN 0 ELSE @]
  <1>1. /\ m.attempts \in Nat /\ 0 \in 0..MaxLogins /\ 0 \in Ages(LoginAlert)
        /\ None \in Ages(LoginSpacing) /\ None \in Ages(AbandonAfter) /\ None \in Ages(LoginAlert)
    BY LoginConstants, Fresh DEF LoginRecords
  <1>2. /\ noted \in LoginRecords /\ noted.alert = m.alert /\ noted.attempts = m.attempts
        /\ MayLogin(m) => MayLogin(noted)
    BY <1>1 DEF LoginRecords, MayLogin
  <1>3. CASE ExpiryAction(m, sight) = "login"
    <2>1. MayLogin(m)
      BY <1>3 DEF ExpiryAction
    <2>2. Expected(m, sight, shown) = LoggedIn(noted)
      BY <1>3 DEF Expected
    <2> QED BY <1>2, <2>1, <2>2, LoggedInTyped
  <1>4. CASE ExpiryAction(m, sight) = "alert"
    <2>1. Expected(m, sight, shown) = noted
      BY <1>4 DEF Expected
    <2> QED BY <1>1, <1>2, <2>1
  <1>5. CASE ExpiryAction(m, sight) \notin {"login", "alert"} /\ Masked(m, shown)
    <2>1. Expected(m, sight, shown) = m
      BY <1>5 DEF Expected
    <2> QED BY <1>1, <2>1
  <1>6. CASE ExpiryAction(m, sight) \notin {"login", "alert"} /\ ~Masked(m, shown)
    <2>1. ~InDialog(shown)
      BY <1>6 DEF Masked
    <2>2. \/ Expected(m, sight, shown) = [m EXCEPT !.opened = None]
          \/ Expected(m, sight, shown) = [m EXCEPT !.expiring = FALSE, !.expAlert = None, !.attempt = None,
                                                   !.attempts = 0, !.opened = None]
      BY <1>6 DEF Expected
    <2>3. Expected(m, sight, shown) \in LoginRecords /\ Expected(m, sight, shown).alert = m.alert
      BY <1>1, <2>2 DEF LoginRecords
    <2> QED BY <2>1, <2>3
  <1> QED BY <1>3, <1>4, <1>5, <1>6

(* A pass, and the budget that it leaves over a dialog. *)
LEMMA LgPassInv ==
    ASSUME LgInv, NEW sight \in LoginSights, LgPass(sight)
    PROVE  /\ LgInv'
           /\ ~login.banner /\ ~creds.moved /\ InDialog(screen') => login'.attempts >= login.attempts
  <1> USE LoginConstants DEF LgInv, LgGood
  <1> DEFINE handed == Watched(LoginAged)
             reacted == Reacted(handed, sight)
             screened == Screened(reacted, sight)
             renewed == Renewed(screened, sight)
             fires == BannerAction(handed, sight) = "login" /\ Signal(sight) = "banner"
  <1>1. /\ handed \in LoginRecords /\ handed.alert = Older(login.alert, LoginAlert)
        /\ handed.attempts = login.attempts /\ handed.banner = login.banner
    BY WatchedTyped
  <1>2. reacted \in LoginRecords /\ (~handed.banner => reacted.attempts >= handed.attempts)
    BY <1>1, ReactedTyped
  <1>3. /\ screened \in LoginRecords /\ screened.attempts = reacted.attempts
        /\ Signal(sight) # "login" => screened.alert \in {None, reacted.alert}
    BY <1>2, ScreenedTyped
  <1>4. /\ renewed \in LoginRecords /\ renewed.alert = screened.alert
        /\ ~creds.moved => renewed.attempts = screened.attempts
    BY <1>3, RenewedTyped
  <1>5. PICK shown \in {"tui", "gate", "picker", "code"} :
            screen' = shown /\ login' = Expected(renewed, sight, shown)
    <2>1. screen \in {"tui", "gate", "picker", "code"}
      BY DEF LgTypeOK
    <2> QED BY <2>1 DEF LgPass
  <1>6. /\ login' \in LoginRecords /\ login'.alert = renewed.alert
        /\ InDialog(screen') => login'.attempts >= renewed.attempts
    BY <1>4, <1>5, ExpectedTyped
  <1>7. /\ starting' \in 0..MaxStarting
        /\ creds' \in [access : BOOLEAN, refresh : Refresh, moved : BOOLEAN]
    <2>1. /\ starting' = starting + (IF fires \/ ExpiryAction(renewed, sight) = "login" THEN 1 ELSE 0)
          /\ starting' <= MaxStarting
          /\ creds' = IF sight.store THEN [creds EXCEPT !.moved = FALSE] ELSE creds
      BY DEF LgPass
    <2>2. starting' \in 0..MaxStarting
      <3>1. starting \in 0..MaxStarting
        BY DEF LgTypeOK
      <3> HIDE DEF fires, renewed
      <3> QED BY <2>1, <3>1
    <2>3. creds \in [access : BOOLEAN, refresh : Refresh, moved : BOOLEAN]
      BY DEF LgTypeOK
    <2>4. creds' \in [access : BOOLEAN, refresh : Refresh, moved : BOOLEAN]
      BY <2>1, <2>3
    <2> QED BY <2>2, <2>4
  <1>8. LgTypeOK'
    BY <1>5, <1>6, <1>7 DEF LgTypeOK, LoginRecords
  <1>9. /\ mute' = (IF \/ Signal(sight) # "banner" \/ Access(sight) # "expired"
                       \/ fires \/ reacted.alert = 0
                    THEN 0 ELSE mute + 1)
    BY DEF LgPass
  <1>10. SilenceCounted' /\ ProvedFailureTold'
    <2>1. CASE mute' = 0
      <3>0. login'.alert \in Ages(LoginAlert)
        BY <1>6 DEF LoginRecords
      <3>1. login'.alert # None => login'.alert \in Nat
        BY <3>0 DEF Ages, None
      <3> QED BY <2>1, <3>1 DEF SilenceCounted, ProvedFailureTold
    <2>2. CASE mute' # 0
      <3>1. /\ Signal(sight) = "banner" /\ Access(sight) = "expired" /\ ~fires /\ reacted.alert # 0
            /\ mute' = mute + 1
        BY <1>9, <2>2
      <3>2. BannerAction(handed, sight) = "alert" /\ reacted = Banner(handed, sight)
        BY <3>1 DEF BannerAction, Reacted
      <3>3. reacted.alert = handed.alert /\ ~AlertDue(handed.alert)
        BY <1>1, <3>1, <3>2, BannerTyped
      <3>4. login.alert \in Ages(LoginAlert) /\ mute \in Nat
        BY DEF LgTypeOK, SilenceCounted
      <3>5. login.alert # None /\ Older(login.alert, LoginAlert) = login.alert + 1 /\ login.alert + 1 < LoginAlert
        BY <1>1, <3>3, <3>4 DEF AlertDue, Older, Least, Ages, None
      <3>6. mute + 1 <= login.alert + 1 /\ login'.alert \in {None, login.alert + 1}
        BY <1>1, <1>3, <1>4, <1>6, <3>1, <3>3, <3>4, <3>5 DEF SilenceCounted, Ages
      <3> QED BY <3>1, <3>4, <3>5, <3>6 DEF SilenceCounted, ProvedFailureTold, Ages
    <2> QED BY <2>1, <2>2
  <1>11. ~login.banner /\ ~creds.moved /\ InDialog(screen') => login'.attempts >= login.attempts
    <2>1. /\ login.attempts \in Nat /\ reacted.attempts \in Nat /\ login'.attempts \in Nat
      BY <1>2, <1>6 DEF LgTypeOK, LoginRecords
    <2> HIDE DEF handed, reacted, screened, renewed
    <2> QED BY <1>1, <1>2, <1>3, <1>4, <1>6, <2>1
  <1> QED BY <1>8, <1>10, <1>11

LEMMA LgStepInv ==
    ASSUME LgInv, [LgNext]_lgVars
    PROVE  /\ LgInv'
           /\ [/\ InDialog(screen) /\ InDialog(screen') /\ login' # login /\ ~login.banner /\ ~creds.moved
               => login'.attempts >= login.attempts]_lgVars
  <1>1. ASSUME NEW sight \in LoginSights, LgPass(sight) PROVE LgInv' /\ (~login.banner /\ ~creds.moved /\ InDialog(screen') => login'.attempts >= login.attempts)
    BY <1>1, LgPassInv
  <1>2. CASE Opens \/ Answered \/ Lapses
    <2>1. UNCHANGED <<login, mute>>
      BY <1>2 DEF Opens, Answered, Lapses
    <2>2. screen' \in {"tui", "gate", "picker", "code"} /\ starting' \in 0..MaxStarting
      BY <1>2, LoginConstants DEF LgInv, LgGood, LgTypeOK, Opens, Answered, Lapses
    <2>3. creds' \in [access : BOOLEAN, refresh : Refresh, moved : BOOLEAN]
      <3>1. creds \in [access : BOOLEAN, refresh : Refresh, moved : BOOLEAN]
        BY DEF LgInv, LgGood, LgTypeOK
      <3>2. \/ UNCHANGED creds
            \/ creds' = [access |-> TRUE, refresh |-> "healthy", moved |-> TRUE]
            \/ \E a \in BOOLEAN : creds' = [creds EXCEPT !.access = a]
            \/ \E r \in Refresh : creds' = [creds EXCEPT !.refresh = r]
        BY <1>2, <3>1 DEF Opens, Answered, Lapses, Refresh
      <3>3. ASSUME NEW a \in BOOLEAN PROVE [creds EXCEPT !.access = a] \in [access : BOOLEAN, refresh : Refresh, moved : BOOLEAN]
        BY <3>1
      <3>4. ASSUME NEW r \in Refresh PROVE [creds EXCEPT !.refresh = r] \in [access : BOOLEAN, refresh : Refresh, moved : BOOLEAN]
        BY <3>1
      <3>5. [access |-> TRUE, refresh |-> "healthy", moved |-> TRUE] \in [access : BOOLEAN, refresh : Refresh, moved : BOOLEAN]
        BY DEF Refresh
      <3> QED BY <3>1, <3>2, <3>3, <3>4, <3>5
    <2> QED BY <2>1, <2>2, <2>3 DEF LgInv, LgGood, LgTypeOK, ProvedFailureTold, SilenceCounted
  <1>3. CASE UNCHANGED lgVars
    BY <1>3 DEF lgVars, LgInv, LgGood, LgTypeOK, ProvedFailureTold, SilenceCounted
  <1> QED BY <1>1, <1>2, <1>3 DEF LgNext

LEMMA LgAlways == LgSpec => []LgGood /\ BudgetHeldInDialog
  <1>1. LgInv => LgGood
    BY DEF LgInv
  <1> QED BY LgInitInv, LgStepInv, <1>1, PTL DEF LgSpec, BudgetHeldInDialog

-----------------------------------------------------------------------------
(* Credits.  The passes that kept silent about a proved exhaustion are no    *)
(* more than the age of the last alert.                                      *)
UntoldCounted == untold \in Nat /\ (untold # 0 => credit.alert # None /\ untold <= credit.alert)
CrGood == CrTypeOK /\ ExhaustionTold
CrInv == CrGood /\ UntoldCounted
CreditRecords ==
    [detected : BOOLEAN, alert : Ages(CreditAlert), attempt : Ages(DemoteSpacing),
     injected : Ages(SettleTime), attempts : 0..MaxDemotes, pending : Ages(ConfirmMax + 1)]
Failures == [count : 0..MinFailures, age : Ages(RecentWindow)]

LEMMA CreditConstants ==
    /\ MinFailures \in Nat /\ MinFailures > 0 /\ RecentWindow \in Nat /\ DemoteSpacing \in Nat
    /\ SettleTime \in Nat /\ MaxDemotes \in Nat /\ CreditAlert \in Nat /\ ConfirmMax \in Nat
    /\ ConfirmMax + 1 \in Nat
  BY CreditAssumption

LEMMA CreditFresh ==
    /\ 0 \in Ages(CreditAlert) /\ 0 \in Ages(DemoteSpacing) /\ 0 \in Ages(SettleTime)
    /\ 0 \in Ages(ConfirmMax + 1) /\ 0 \in Ages(RecentWindow) /\ 0 \in 0..MaxDemotes
    /\ None \in Ages(CreditAlert) /\ None \in Ages(DemoteSpacing) /\ None \in Ages(SettleTime)
    /\ None \in Ages(ConfirmMax + 1) /\ None \in Ages(RecentWindow) /\ 0 \in 0..MinFailures
  <1>1. 0 \in 0..MaxDemotes /\ 0 \in 0..MinFailures
    BY CreditConstants
  <1> QED BY <1>1, CreditConstants, Fresh

LEMMA CrInitInv == CrInit => CrInv
  <1> SUFFICES ASSUME CrInit PROVE CrInv
    OBVIOUS
  <1>1. credit \in CreditRecords /\ failed \in Failures
    BY CreditFresh DEF CrInit, CreditRecords, Failures
  <1>2. CrTypeOK
    BY <1>1 DEF CrInit, CrTypeOK, CreditRecords, Failures
  <1> QED BY <1>2, CreditConstants DEF CrInit, CrInv, CrGood, ExhaustionTold, UntoldCounted

LEMMA FailedTyped == ASSUME CrTypeOK PROVE FailedAged \in Failures
  <1>1. Older(failed.age, RecentWindow) \in Ages(RecentWindow)
    BY CreditConstants, TickTyped DEF CrTypeOK
  <1> QED BY <1>1, CreditFresh DEF FailedAged, CrTypeOK, Failures

(* The record as a pass finds it. *)
LEMMA TriedTyped ==
    ASSUME CrTypeOK
    PROVE  LET c == Pending(CreditAged) IN
           /\ c \in CreditRecords /\ c.alert = Older(credit.alert, CreditAlert)
           /\ prompt = "left" /\ credit.pending \in 0..(ConfirmMax - 1) => c.pending # None
  <1>1. /\ Older(credit.alert, CreditAlert) \in Ages(CreditAlert)
        /\ Older(credit.attempt, DemoteSpacing) \in Ages(DemoteSpacing)
        /\ Older(credit.injected, SettleTime) \in Ages(SettleTime)
        /\ Older(credit.pending, ConfirmMax + 1) \in Ages(ConfirmMax + 1)
    BY CreditConstants, TickTyped DEF CrTypeOK
  <1>2. /\ CreditAged \in CreditRecords /\ CreditAged.alert = Older(credit.alert, CreditAlert)
        /\ CreditAged.pending = Older(credit.pending, ConfirmMax + 1)
    BY <1>1 DEF CrTypeOK, CreditAged, CreditRecords
  <1>3. Pending(CreditAged) \in CreditRecords /\ Pending(CreditAged).alert = CreditAged.alert
    BY <1>2, CreditFresh DEF Pending, CreditRecords
  <1>4. ASSUME prompt = "left", credit.pending \in 0..(ConfirmMax - 1) PROVE Pending(CreditAged).pending # None
    <2>1. CreditAged.pending = credit.pending + 1
      BY <1>2, <1>4, CreditConstants DEF Older, Least, None
    <2>2. CreditAged.pending # None /\ ~(CreditAged.pending > ConfirmMax)
      BY <1>4, <2>1, CreditConstants DEF None
    <2> QED BY <1>4, <2>2 DEF Pending
  <1> QED BY <1>2, <1>3, <1>4

LEMMA ClosedTyped ==
    ASSUME NEW c \in CreditRecords PROVE Closed(c) \in CreditRecords /\ Closed(c).pending = c.pending
  BY CreditFresh DEF Closed, CreditRecords

LEMMA OutcomeTyped ==
    ASSUME NEW o \in Outcomes, model \in {"out", "target"}
    PROVE  /\ o.model \in {"out", "target"} /\ o.prompt \in {"none", "left", "late"}
           /\ o.pending \in Ages(ConfirmMax + 1) /\ (o.prompt = "left" => o.pending # None)
  <1>1. 0 # None
    BY DEF None
  <1> QED BY <1>1, CreditFresh DEF Outcomes

LEMMA CrPassInv ==
    ASSUME CrInv, NEW sight \in CreditSights, CrPass(sight)
    PROVE  /\ CrInv'
           /\ prompt = "left" /\ prompt' = "left" /\ credit.pending \in 0..(ConfirmMax - 1)
              => credit'.pending # None
  <1> USE CreditConstants DEF CrInv, CrGood
  <1> DEFINE young == prompt = "left" /\ credit.pending \in 0..(ConfirmMax - 1)
             tried == Pending(CreditAged)
  <1>1. PICK gone \in BOOLEAN :
            LET c == IF gone THEN [tried EXCEPT !.pending = None] ELSE tried
                shown == IF gone THEN "none" ELSE prompt
                action == CreditAction(c, sight, shown)
                switched == IF gone THEN "target" ELSE model
            IN  \/ /\ ~sight.banner \/ action = "ignore"
                   /\ credit' = IF sight.banner THEN Closed([c EXCEPT !.detected = TRUE])
                                ELSE Closed(c)
                   /\ model' = switched /\ prompt' = shown /\ untold' = 0
                \/ /\ sight.banner /\ action \in {"wait", "alert"}
                   /\ LET due == ShouldNotify(c, action)
                      IN  /\ credit' = [c EXCEPT !.detected = TRUE,
                                                 !.alert = IF due THEN 0 ELSE @]
                          /\ untold' = IF due \/ FailedAged.count < MinFailures
                                       THEN 0 ELSE untold + 1
                   /\ model' = switched /\ prompt' = shown
                \/ /\ sight.banner /\ action = "demote"
                   /\ \E o \in Outcomes :
                         /\ model' = Switched(o, switched)
                         /\ prompt' = o.prompt
                         /\ credit' = [Demoted(c) EXCEPT !.pending = o.pending]
                   /\ untold' = 0
    BY DEF CrPass
  <1> DEFINE c == IF gone THEN [tried EXCEPT !.pending = None] ELSE tried
             shown == IF gone THEN "none" ELSE prompt
             action == CreditAction(c, sight, shown)
             switched == IF gone THEN "target" ELSE model
  <1>2. /\ tried \in CreditRecords /\ tried.alert = Older(credit.alert, CreditAlert)
        /\ young => tried.pending # None
    BY TriedTyped
  <1> HIDE DEF tried
  <1>3. /\ c \in CreditRecords /\ c.alert = Older(credit.alert, CreditAlert)
        /\ young /\ ~gone => c.pending # None
    BY <1>2, CreditFresh DEF CreditRecords
  <1>4. /\ shown \in {"none", "left", "late", "hand"} /\ switched \in {"out", "target"}
        /\ shown = "left" => ~gone
    BY DEF CrTypeOK
  <1>5. failed' \in Failures /\ message' \in BOOLEAN
    BY FailedTyped DEF CrPass, CrTypeOK
  <1>6. credit.alert \in Ages(CreditAlert) /\ untold \in Nat
    BY DEF CrTypeOK, UntoldCounted
  <1>7. /\ credit' \in CreditRecords /\ prompt' \in {"none", "left", "late", "hand"}
        /\ model' \in {"out", "target"}
        /\ young /\ prompt' = "left" => credit'.pending # None
        /\ UntoldCounted' /\ ExhaustionTold'
    <2>1. CASE /\ ~sight.banner \/ action = "ignore"
               /\ credit' = IF sight.banner THEN Closed([c EXCEPT !.detected = TRUE]) ELSE Closed(c)
               /\ model' = switched /\ prompt' = shown /\ untold' = 0
      <3>1. [c EXCEPT !.detected = TRUE] \in CreditRecords /\ [c EXCEPT !.detected = TRUE].pending = c.pending
        BY <1>3 DEF CreditRecords
      <3>2. credit' \in CreditRecords /\ credit'.pending = c.pending
        BY <1>3, <2>1, <3>1, ClosedTyped
      <3> QED BY <1>3, <1>4, <2>1, <3>2 DEF UntoldCounted, ExhaustionTold
    <2>2. CASE /\ sight.banner /\ action \in {"wait", "alert"}
               /\ LET due == ShouldNotify(c, action)
                  IN  /\ credit' = [c EXCEPT !.detected = TRUE, !.alert = IF due THEN 0 ELSE @]
                      /\ untold' = IF due \/ FailedAged.count < MinFailures THEN 0 ELSE untold + 1
               /\ model' = switched /\ prompt' = shown
      <3> DEFINE due == ShouldNotify(c, action)
                 told == IF due THEN 0 ELSE c.alert
      <3>1. credit' = [c EXCEPT !.detected = TRUE, !.alert = told]
        BY <2>2
      <3>2. told \in Ages(CreditAlert)
        BY <1>3, CreditFresh DEF CreditRecords
      <3>3. credit' \in CreditRecords /\ credit'.pending = c.pending /\ credit'.alert = told
        <4> HIDE DEF told
        <4> QED BY <1>3, <3>1, <3>2 DEF CreditRecords
      <3>4. untold' = IF due \/ FailedAged.count < MinFailures THEN 0 ELSE untold + 1
        BY <2>2
      <3>5. CASE untold' = 0
        BY <1>3, <1>4, <2>2, <3>3, <3>5 DEF UntoldCounted, ExhaustionTold
      <3>6. CASE untold' # 0
        <4>1. ~due /\ ~(FailedAged.count < MinFailures) /\ untold' = untold + 1
          BY <3>4, <3>6
        <4>2. action = "alert"
          BY <2>2, <4>1 DEF CreditAction
        <4>3. Within(c.alert, CreditAlert)
          BY <4>1, <4>2 DEF ShouldNotify
        <4>4. /\ credit.alert # None /\ c.alert = credit.alert + 1 /\ credit.alert + 1 < CreditAlert
          BY <1>3, <1>6, <4>3 DEF Within, Older, Least, Ages, None
        <4>5. credit'.alert = credit.alert + 1 /\ credit.alert \in Nat
          BY <1>6, <3>3, <4>1, <4>4 DEF Ages, None
        <4>6. untold' <= credit'.alert /\ untold' <= CreditAlert /\ untold' \in Nat /\ credit'.alert # None
          BY <1>6, <4>1, <4>4, <4>5 DEF UntoldCounted, None
        <4> QED BY <1>3, <1>4, <2>2, <3>3, <4>6 DEF UntoldCounted, ExhaustionTold
      <3> QED BY <3>5, <3>6
    <2>3. CASE /\ sight.banner /\ action = "demote"
               /\ \E o \in Outcomes :
                     /\ model' = Switched(o, switched)
                     /\ prompt' = o.prompt
                     /\ credit' = [Demoted(c) EXCEPT !.pending = o.pending]
               /\ untold' = 0
      <3>1. PICK o \in Outcomes :
                /\ model' = Switched(o, switched) /\ prompt' = o.prompt
                /\ credit' = [Demoted(c) EXCEPT !.pending = o.pending]
        BY <2>3
      <3>2. /\ o.model \in {"out", "target"} /\ o.prompt \in {"none", "left", "late"}
            /\ o.pending \in Ages(ConfirmMax + 1) /\ (o.prompt = "left" => o.pending # None)
        BY OutcomeTyped DEF CrTypeOK
      <3>3. c.attempts < MaxDemotes /\ c.attempts \in 0..MaxDemotes
        BY <1>3, <2>3 DEF CreditAction, Held, CreditRecords
      <3>4. Demoted(c) \in CreditRecords
        <4>1. c.attempts + 1 \in 0..MaxDemotes
          BY <3>3
        <4> QED BY <1>3, <4>1, CreditFresh DEF Demoted, CreditRecords
      <3>5. credit' \in CreditRecords /\ credit'.pending = o.pending
        BY <3>1, <3>2, <3>4 DEF CreditRecords
      <3>6. model' \in {"out", "target"}
        BY <1>4, <3>1, <3>2 DEF Switched
      <3> QED BY <2>3, <3>1, <3>2, <3>5, <3>6 DEF UntoldCounted, ExhaustionTold
    <2> QED BY <1>1, <2>1, <2>2, <2>3
  <1>8. CrTypeOK'
    BY <1>5, <1>7 DEF CrTypeOK, CreditRecords, Failures
  <1> QED BY <1>7, <1>8

LEMMA CrStepInv ==
    ASSUME CrInv, [CrNext]_crVars
    PROVE  /\ CrInv'
           /\ [prompt = "left" /\ prompt' = "left" /\ credit.pending \in 0..(ConfirmMax - 1)
               => credit'.pending # None]_crVars
  <1> USE CreditConstants
  <1>1. ASSUME NEW sight \in CreditSights, CrPass(sight)
        PROVE  /\ CrInv'
               /\ prompt = "left" /\ prompt' = "left" /\ credit.pending \in 0..(ConfirmMax - 1)
                  => credit'.pending # None
    BY <1>1, CrPassInv
  <1>2. CASE Turn
    <2>1. Least(failed.count + 1, MinFailures) \in 0..MinFailures /\ failed \in Failures
      BY DEF CrInv, CrGood, CrTypeOK, Least, Failures
    <2>2. failed' \in Failures
      BY <1>2, <2>1, CreditFresh DEF Turn, Failures
    <2> QED BY <1>2, <2>2
         DEF Turn, CrInv, CrGood, CrTypeOK, UntoldCounted, ExhaustionTold, Failures
  <1>3. CASE Operator
    <2>1. UNCHANGED <<failed, credit, untold>>
      BY <1>3 DEF Operator
    <2>2. prompt' \in {"none", "left", "late", "hand"} /\ model' \in {"out", "target"} /\ message' \in BOOLEAN
      BY <1>3 DEF Operator, CrInv, CrGood, CrTypeOK
    <2>3. credit.pending \in 0..(ConfirmMax - 1) => credit.pending # None
      BY DEF None
    <2> QED BY <2>1, <2>2, <2>3 DEF CrInv, CrGood, CrTypeOK, UntoldCounted, ExhaustionTold
  <1>4. CASE UNCHANGED crVars
    BY <1>4 DEF crVars, CrInv, CrGood, CrTypeOK, UntoldCounted, ExhaustionTold
  <1> QED BY <1>1, <1>2, <1>3, <1>4 DEF CrNext

LEMMA CrAlways == CrSpec => []CrGood /\ ConfirmationTracked
  <1>1. CrInv => CrGood
    BY DEF CrInv
  <1> QED BY CrInitInv, CrStepInv, <1>1, PTL DEF CrSpec, ConfirmationTracked

-----------------------------------------------------------------------------
(* InjectPath.  Unless somebody gave up on the lock, whoever looks at the   *)
(* line, types or takes back holds it.  What an injector that has no excuse *)
(* has on the line is at its end, and what it will submit is its own or the *)
(* operator's.                                                              *)
AtWork == {"look", "first", "second", "judge", "retract", "submit", "leave"}
OfItsOwn(w) == \A i \in DOMAIN line : line[i] \in {w, Typist}
WillSubmit(w) == pc[w] = "submit" \/ (pc[w] \in {"first", "second"} /\ mode[w] \in {"queued", "cancel"})
WorkersHoldLock == \A w \in Injectors : pc[w] \in AtWork => lock = w
TypedAtTheEnd ==
    \A w \in Injectors : \A i \in DOMAIN line :
        line[i] = w /\ w \notin excused =>
            /\ pc[w] \notin {"idle", "acquire", "look", "first"}
            /\ pc[w] = "second" => i > Len(line) - 1
            /\ pc[w] # "leave" => i > Len(line) - 2
SubmitsOwn == \A w \in Injectors : WillSubmit(w) => OfItsOwn(w)
IpInv == LineKept /\ (forced \/ (WorkersHoldLock /\ TypedAtTheEnd /\ SubmitsOwn))

LEMMA LineEmptied ==
    ASSUME line' = <<>>
    PROVE  line' \in Seq(Injectors \cup {Typist}) /\ Len(line') = 0 /\ DOMAIN line' = {}
  OBVIOUS

(* What an injector does to the line: it is emptied, grows by one part, or  *)
(* loses the parts at its end.                                              *)
LEMMA LineGrown ==
    ASSUME NEW w, IpTypeOK, line' = Append(line, w), NEW i \in DOMAIN line'
    PROVE  /\ Len(line') = Len(line) + 1 /\ i \in 1..(Len(line) + 1)
           /\ i = Len(line') => line'[i] = w
           /\ i # Len(line') => i \in DOMAIN line /\ line'[i] = line[i]
  BY DEF IpTypeOK

LEMMA LineTakenBack ==
    ASSUME NEW w, IpTypeOK, line' = Retracted(w)
    PROVE  /\ line' \in Seq(Injectors \cup {Typist}) /\ Len(line') <= Len(line)
           /\ \A i \in DOMAIN line' : i \in DOMAIN line /\ line'[i] = line[i] /\ i <= Len(line) - 2
  <1>1. CASE Len(line) < 2
    BY <1>1 DEF Retracted, IpTypeOK
  <1>2. CASE ~(Len(line) < 2)
    <2>1. Len(line) \in Nat /\ Len(line) - 2 \in 0..Len(line)
      BY <1>2 DEF IpTypeOK
    <2>2. line' = SubSeq(line, 1, Len(line) - 2)
      BY <1>2 DEF Retracted
    <2>3. /\ line' \in Seq(Injectors \cup {Typist}) /\ Len(line') = Len(line) - 2
          /\ \A i \in 1..Len(line') : line'[i] = line[i]
      <3> DEFINE S == Injectors \cup {Typist}
                 n == Len(line) - 2
      <3>1. line \in Seq(S) /\ n \in 0..Len(line)
        BY <2>1 DEF IpTypeOK
      <3>2. /\ SubSeq(line, 1, n) \in Seq(S) /\ Len(SubSeq(line, 1, n)) = n
            /\ \A i \in 1..n : SubSeq(line, 1, n)[i] = line[i]
        <4> HIDE DEF S, n
        <4> QED BY <3>1
      <3> QED BY <2>2, <3>2
    <2> QED BY <2>1, <2>3 DEF IpTypeOK
  <1> QED BY <1>1, <1>2

LEMMA IpInitInv == IpInit => IpInv
  <1> SUFFICES ASSUME IpInit PROVE IpInv
    OBVIOUS
  <1>1. IpTypeOK
    BY InjectorsAssumption DEF IpInit, IpTypeOK
  <1> QED BY <1>1 DEF IpInit, IpInv, LineKept, NoSplice, LineLeftClean, WorkersHoldLock, TypedAtTheEnd,
                      SubmitsOwn, AtWork, WillSubmit, OfItsOwn

LEMMA IpTyped == ASSUME IpTypeOK, [IpNext]_ipVars PROVE IpTypeOK'
  <1> USE InjectorsAssumption DEF IpTypeOK
  <1>1. ASSUME NEW w \in Injectors, NEW m \in Modes(w), Begin(w, m) PROVE IpTypeOK'
    BY <1>1 DEF Begin, Modes
  <1>2. ASSUME NEW w \in Injectors, Acquire(w) PROVE IpTypeOK'
    BY <1>2 DEF Acquire
  <1>3. ASSUME NEW w \in Injectors, Look(w) PROVE IpTypeOK'
    <2>1. lock' \in Injectors \cup {Nobody}
      BY <1>3 DEF Look, Free
    <2>2. line' \in Seq(Injectors \cup {Typist}) /\ Len(line') <= MaxLine
      <3>1. line' = <<>> \/ line' = line
        BY <1>3 DEF Look
      <3> QED BY <3>1, LineEmptied
    <2> QED BY <1>3, <2>1, <2>2 DEF Look
  <1>4. ASSUME NEW w \in Injectors, TypeText(w) PROVE IpTypeOK'
    <2>1. line' \in Seq(Injectors \cup {Typist}) /\ Len(line') <= MaxLine
      BY <1>4 DEF TypeText
    <2>2. pc' \in [Injectors -> {"idle", "acquire", "look", "first", "second", "judge",
                                 "retract", "submit", "leave"}]
      BY <1>4 DEF TypeText
    <2> QED BY <1>4, <2>1, <2>2 DEF TypeText
  <1>5. ASSUME NEW w \in Injectors, Judge(w) PROVE IpTypeOK'
    BY <1>5 DEF Judge
  <1>6. ASSUME NEW w \in Injectors, Retract(w) PROVE IpTypeOK'
    BY <1>6, LineTakenBack DEF Retract, Free
  <1>7. ASSUME NEW w \in Injectors, Submit(w) \/ Leave(w) \/ InjectorDies(w) PROVE IpTypeOK'
    <2>1. lock' \in Injectors \cup {Nobody}
      BY <1>7 DEF Submit, Leave, InjectorDies, Free
    <2>2. line' \in Seq(Injectors \cup {Typist}) /\ Len(line') <= MaxLine
      <3>1. line' = <<>> \/ line' = line
        BY <1>7 DEF Submit, Leave, InjectorDies
      <3> QED BY <3>1, LineEmptied
    <2> QED BY <1>7, <2>1, <2>2 DEF Submit, Leave, InjectorDies
  <1>8. CASE OperatorTypes \/ OperatorSubmits
    <2>1. line' \in Seq(Injectors \cup {Typist}) /\ Len(line') <= MaxLine
      <3>1. line' = <<>> \/ (line' = Append(line, Typist) /\ Len(line) < MaxLine)
        BY <1>8 DEF OperatorTypes, OperatorSubmits
      <3> QED BY <3>1, LineEmptied
    <2> QED BY <1>8, <2>1 DEF OperatorTypes, OperatorSubmits
  <1>9. CASE UNCHANGED ipVars
    BY <1>9 DEF ipVars
  <1> QED BY <1>1, <1>2, <1>3, <1>4, <1>5, <1>6, <1>7, <1>8, <1>9 DEF IpNext

(* A step of an injector, and of the operator. *)
LEMMA IpStepInv ==
    ASSUME IpInv, [IpNext]_ipVars PROVE IpInv'
  <1> USE DEF IpInv, LineKept, NoSplice, LineLeftClean, WorkersHoldLock, TypedAtTheEnd, SubmitsOwn
  <1>0. IpTypeOK'
    BY IpTyped
  <1> DEFINE LineSafe == forced \/ (~mixed /\ LineLeftClean /\ WorkersHoldLock /\ TypedAtTheEnd /\ SubmitsOwn)
  <1>1. ASSUME NEW w \in Injectors, NEW m \in Modes(w), Begin(w, m) PROVE LineSafe'
    BY <1>0, <1>1 DEF Begin, IpTypeOK, AtWork, WillSubmit, OfItsOwn
  <1>2. ASSUME NEW w \in Injectors, Acquire(w) PROVE LineSafe'
    BY <1>0, <1>2, InjectorsAssumption DEF Acquire, IpTypeOK, AtWork, WillSubmit, OfItsOwn
  <1>3. ASSUME NEW w \in Injectors, Look(w) PROVE LineSafe'
    BY <1>0, <1>3, InjectorsAssumption DEF Look, LineBusy, Free, IpTypeOK, AtWork, WillSubmit, OfItsOwn
  <1>4. ASSUME NEW w \in Injectors, TypeText(w) PROVE LineSafe'
    BY <1>0, <1>4, LineGrown DEF TypeText, IpTypeOK, AtWork, WillSubmit, OfItsOwn
  <1>5. ASSUME NEW w \in Injectors, Judge(w) PROVE LineSafe'
    BY <1>0, <1>5 DEF Judge, Exclusive, IpTypeOK, AtWork, WillSubmit, OfItsOwn
  <1>6. ASSUME NEW w \in Injectors, Retract(w) PROVE LineSafe'
    BY <1>0, <1>6, LineTakenBack, InjectorsAssumption DEF Retract, Free, IpTypeOK, AtWork, WillSubmit, OfItsOwn
  <1>7. ASSUME NEW w \in Injectors, Submit(w) PROVE LineSafe'
    <2> SUFFICES ASSUME ~forced' PROVE LineSafe'
      OBVIOUS
    <2>1. ~forced /\ DOMAIN line' = {}
      BY <1>7, LineEmptied DEF Submit
    <2>2. LineLeftClean' /\ TypedAtTheEnd' /\ SubmitsOwn'
      BY <2>1 DEF OfItsOwn
    <2>3. WorkersHoldLock'
      BY <1>7, <2>1 DEF Submit, Free, IpTypeOK, AtWork
    <2>4. ~mixed'
      BY <1>7, <2>1, InjectorsAssumption DEF Submit, WillSubmit, OfItsOwn
    <2> QED BY <2>2, <2>3, <2>4
  <1>8. ASSUME NEW w \in Injectors, Leave(w) \/ InjectorDies(w) PROVE LineSafe'
    BY <1>0, <1>8, InjectorsAssumption DEF Leave, InjectorDies, Free, IpTypeOK, AtWork, WillSubmit, OfItsOwn
  <1>9. CASE OperatorTypes
    BY <1>0, <1>9, LineGrown, InjectorsAssumption DEF OperatorTypes, IpTypeOK, AtWork, WillSubmit, OfItsOwn
  <1>10. CASE OperatorSubmits
    BY <1>0, <1>10 DEF OperatorSubmits, IpTypeOK, AtWork, WillSubmit, OfItsOwn
  <1>11. CASE UNCHANGED ipVars
    BY <1>0, <1>11 DEF ipVars, IpTypeOK, AtWork, WillSubmit, OfItsOwn
  <1>12. LineSafe'
    BY <1>1, <1>2, <1>3, <1>4, <1>5, <1>6, <1>7, <1>8, <1>9, <1>10, <1>11 DEF IpNext
  <1> QED BY <1>0, <1>12

(* For any number of processes that inject: as long as nobody gives up on    *)
(* the lock, what is submitted was typed by its injector or the operator,    *)
(* and an injector that is through has left nothing on the line unless it    *)
(* died, was told not to submit, or the operator typed next to it.           *)
THEOREM LineKeptEach == IpSpec => []LineKept
  <1>1. IpInv => LineKept
    BY DEF IpInv
  <1> QED BY IpInitInv, IpStepInv, <1>1, PTL DEF IpSpec

-----------------------------------------------------------------------------
(* InjectIntent.  A recorded intent has the age of its record and counts at  *)
(* least the answers the daemon gave; an inject that lives keeps it, and it  *)
(* has no attempts yet.  A dialog is there, or was answered, only after the  *)
(* command ran.                                                              *)
Recounts ==
    IF intent.age = None THEN intent.attempts = 0
    ELSE intent.age = recorded /\ answers <= intent.attempts
HeldByInject == inject # "none" => intent.age # None /\ intent.attempts = 0
AfterCommand ==
    /\ IsDialog(cursor) \/ intent.attempts > 0 => ~queued
    /\ inject = "submit" => ~queued /\ ~IsDialog(cursor)
StillExpected == foreignSeen \/ (queued /\ Within(recorded, IntentTtl - 1) => intent.age # None)
IiInv == IntentServes /\ Recounts /\ HeldByInject /\ AfterCommand /\ StillExpected

LEMMA IntentTyped ==
    /\ NoIntent \in Intents /\ NoIntent.age = None /\ NoIntent.attempts = 0
    /\ \A i \in Intents : i.age \in Ages(IntentTtl) /\ i.attempts \in 0..MaxAttempts
  BY IntentAssumption DEF NoIntent, Intents, Ages, None

(* live_intents: an intent grows a pass older, or is removed. *)
LEMMA AgedIntent ==
    ASSUME intent \in Intents
    PROVE  /\ Aged \in Intents
           /\ \/ Aged.age = None /\ Aged.attempts = 0
                 /\ (intent.age # None => intent.age + 1 >= IntentTtl)
              \/ /\ intent.age # None /\ Aged.age = intent.age + 1 /\ Aged.age < IntentTtl
                 /\ Aged.attempts = intent.attempts
  <1>1. CASE intent.age = None \/ intent.age + 1 >= IntentTtl
    BY <1>1, IntentTyped DEF Aged
  <1>2. CASE ~(intent.age = None \/ intent.age + 1 >= IntentTtl)
    <2>1. intent.age + 1 \in Ages(IntentTtl) /\ intent.age + 1 < IntentTtl
      BY <1>2, IntentAssumption DEF Intents, Ages, None
    <2>2. Aged = [intent EXCEPT !.age = intent.age + 1]
      BY <1>2 DEF Aged
    <2> QED BY <1>2, <2>1, <2>2 DEF Intents
  <1> QED BY <1>1, <1>2

(* next_key keeps the cursor among the options. *)
LEMMA KeyTyped == ASSUME NEW c \in 1..Options PROVE NextKey(c) \in 1..Options
  BY IntentAssumption DEF NextKey

LEMMA IiInitInv == IiInit => IiInv
  <1> SUFFICES ASSUME IiInit PROVE IiInv
    OBVIOUS
  <1>1. intent \in Intents /\ intent.age = None /\ intent.attempts = 0
    BY IntentTyped DEF IiInit
  <1>2. 1 \in 1..Options /\ 0 \in 0..MaxAttempts /\ None \in Ages(IntentTtl) /\ ~IsDialog(None)
    BY IntentAssumption DEF Ages, IsDialog, None
  <1>3. IiTypeOK
    BY <1>1, <1>2 DEF IiInit, IiTypeOK
  <1>4. IntentServes
    BY <1>3, IntentAssumption
       DEF IiInit, IntentServes, AttemptsBounded, EnterOnTarget, DialogExpected, Expects
  <1>5. Recounts /\ HeldByInject /\ AfterCommand /\ StillExpected
    BY <1>1, <1>2 DEF IiInit, Recounts, HeldByInject, AfterCommand, StillExpected
  <1> QED BY <1>4, <1>5 DEF IiInv

(* What a dialog does under a key of the inject, which ends it or aims on. *)
LEMMA PressInv ==
    ASSUME IiInv, NEW c \in 1..Options, c = cursor, Presses(c), inject \in {"watch", "press"},
           UNCHANGED <<queued, answers, recorded, foreignSeen>>
    PROVE  IiInv'
  <1> USE IntentAssumption DEF IiInv, IntentServes, IiTypeOK, AttemptsBounded, EnterOnTarget,
          DialogExpected, Expects, Recounts, HeldByInject, AfterCommand, StillExpected, IsDialog
  <1>1. IsDialog(cursor) /\ ~queued /\ c = cursor
    OBVIOUS
  <1>2. CASE c = Target
    <2>1. /\ inject' = "none" /\ (intent' = intent \/ intent' = NoIntent)
          /\ cursor' \in {None, cursor} /\ wrong' = FALSE /\ aimed' = aimed
      BY <1>1, <1>2 DEF Presses, InjectEnds
    <2>2. intent' \in Intents
      BY <2>1, IntentTyped DEF Intents
    <2> QED BY <1>1, <2>1, <2>2, IntentTyped DEF Ages, None
  <1>3. CASE c # Target
    <2>1. /\ inject' = "press" /\ intent' = intent /\ wrong' = wrong
          /\ cursor' \in 1..Options /\ aimed' \in 1..Options
      BY <1>1, <1>3, KeyTyped DEF Presses
    <2> QED BY <1>1, <2>1 DEF Ages, None
  <1> QED BY <1>2, <1>3

(* A pass of the daemon: the sweep over the intents. *)
LEMMA SweepInv ==
    ASSUME IiInv, NEW readable \in BOOLEAN, SweepPass(readable) PROVE IiInv'
  <1> USE IntentAssumption DEF IiInv, IntentServes, IiTypeOK, AttemptsBounded, EnterOnTarget,
          DialogExpected, Expects, Recounts, HeldByInject, AfterCommand, StillExpected
  <1>1. intent \in Intents
    BY DEF Intents
  <1>2. /\ recorded \in Ages(IntentTtl) /\ recorded' \in Ages(IntentTtl)
        /\ recorded # None => recorded' # None
        /\ recorded # None /\ recorded + 1 < IntentTtl => recorded' = recorded + 1
        /\ recorded # None /\ recorded + 1 >= IntentTtl => recorded' = IntentTtl
        /\ recorded = None => recorded' = None
    BY DEF SweepPass, Older, Least, Ages, None
  <1>3. /\ Aged \in Intents
        /\ Aged.age = None => /\ Aged.attempts = 0
                              /\ queued /\ ~foreignSeen => ~Within(recorded', IntentTtl - 1)
        /\ Aged.age # None => /\ intent.age # None /\ Aged.age = recorded'
                              /\ Aged.attempts = intent.attempts
    BY <1>1, <1>2, AgedIntent DEF Within, Ages, None
  <1>4. /\ UNCHANGED <<queued, inject, aimed, wrong, foreignSeen>>
        /\ cursor' \in {None, cursor}
        /\ inject # "none" => intent.age + 1 < IntentTtl
    BY DEF SweepPass, DaemonAnswers, LockHeld
  <1> SUFFICES intent' \in Intents /\ answers' \in 0..MaxAttempts /\ Recounts' /\ HeldByInject'
               /\ (intent'.attempts > 0 => ~queued) /\ StillExpected'
    BY <1>2, <1>4 DEF Ages, IsDialog, None
  <1>5. CASE intent' = Aged /\ answers' = answers
    BY <1>1, <1>2, <1>3, <1>4, <1>5, AgedIntent DEF Within, Ages, None
  <1>6. CASE intent' = NoIntent /\ answers' = answers /\ (Aged.age = None \/ ~queued) /\ inject = "none"
    BY <1>1, <1>2, <1>3, <1>4, <1>6, IntentTyped DEF Within, Ages, None
  <1>7. CASE DaemonAnswers /\ Aged.age # None /\ IsDialog(cursor) /\ inject = "none"
    <2>1. PICK gone \in BOOLEAN :
            /\ answers' = answers + 1 /\ Aged.attempts < MaxAttempts
            /\ intent' = NoIntent \/ intent' = [Aged EXCEPT !.attempts = Aged.attempts + 1]
      BY <1>7 DEF DaemonAnswers, Attempts
    <2>2. answers <= Aged.attempts /\ Aged.attempts + 1 \in 0..MaxAttempts /\ ~queued
      BY <1>1, <1>3, <1>7, <2>1 DEF Intents
    <2>3. intent' \in Intents
      BY <1>3, <2>1, <2>2, IntentTyped DEF Intents
    <2>4. intent'.age = None \/ (intent'.age = recorded' /\ answers' <= intent'.attempts)
      <3>1. CASE intent' = NoIntent
        BY <3>1, IntentTyped
      <3>2. CASE intent' # NoIntent
        <4>1. intent'.age = Aged.age /\ intent'.attempts = Aged.attempts + 1
          BY <1>3, <2>1, <3>2 DEF Intents
        <4>2. answers' <= Aged.attempts + 1
          <5>1. answers \in Int /\ Aged.attempts \in Int
            BY <1>3, IntentTyped
          <5> QED BY <2>1, <2>2, <5>1
        <4> QED BY <1>3, <1>7, <4>1, <4>2
      <3> QED BY <3>1, <3>2
    <2>5. answers' \in 0..MaxAttempts
      BY <1>3, <2>1, <2>2, IntentTyped
    <2>6. intent'.age = None => intent'.attempts = 0
      BY <1>3, <1>7, <2>1, IntentTyped DEF Intents
    <2> QED BY <1>4, <1>7, <2>2, <2>3, <2>4, <2>5, <2>6
  <1>8. (intent' = Aged /\ answers' = answers)
        \/ (intent' = NoIntent /\ answers' = answers /\ (Aged.age = None \/ ~queued) /\ inject = "none")
        \/ (DaemonAnswers /\ Aged.age # None /\ IsDialog(cursor) /\ inject = "none")
    <2>1. CASE LockHeld
      BY <2>1 DEF SweepPass
    <2>2. CASE ~LockHeld /\ Aged.age # None /\ ~IsDialog(cursor)
      <3>1. Aged.attempts > 0 => ~queued
        BY <1>3, <2>2 DEF Intents
      <3> QED BY <2>2, <3>1 DEF SweepPass, LockHeld
    <2>3. CASE ~LockHeld /\ ~(Aged.age # None /\ ~IsDialog(cursor))
      BY <2>3 DEF SweepPass, LockHeld
    <2> QED BY <2>1, <2>2, <2>3
  <1> QED BY <1>5, <1>6, <1>7, <1>8

LEMMA IiStepInv == ASSUME IiInv, [IiNext]_iiVars PROVE IiInv'
  <1> USE IntentAssumption DEF IiInv, IntentServes, IiTypeOK, AttemptsBounded, EnterOnTarget,
          DialogExpected, Expects, Recounts, HeldByInject, AfterCommand, StillExpected, IsDialog
  <1>1. CASE InjectStarts
    <2>1. intent' \in Intents /\ intent'.age = 0 /\ intent'.attempts = 0 /\ 0 # None
      BY <1>1 DEF InjectStarts, Intents, Ages, None
    <2>2. 0 \in Ages(IntentTtl) /\ 0 \in 0..MaxAttempts /\ ~IsDialog(None)
      BY DEF Ages, None
    <2>3. IiTypeOK'
      BY <1>1, <2>1, <2>2 DEF InjectStarts
    <2>4. Recounts' /\ HeldByInject' /\ AttemptsBounded'
      BY <1>1, <2>1, <2>2 DEF InjectStarts
    <2>5. AfterCommand' /\ StillExpected' /\ EnterOnTarget' /\ DialogExpected'
      BY <1>1, <2>1, <2>2 DEF InjectStarts
    <2> QED BY <2>3, <2>4, <2>5
  <1>2. CASE InjectSubmits
    <2>1. CASE inject' = "watch" /\ queued' = TRUE /\ intent' = intent
      BY <1>2, <2>1 DEF InjectSubmits
    <2>2. CASE inject' = "none" /\ intent' = NoIntent /\ queued' = queued
      BY <1>2, <2>2, IntentTyped DEF InjectSubmits
    <2> QED BY <1>2, <2>1, <2>2 DEF InjectSubmits
  <1>3. CASE InjectGivesUp \/ InjectLeavesOther
    <2>1. /\ inject' = "none" /\ UNCHANGED <<queued, cursor, aimed, answers, wrong, recorded>>
          /\ intent' = intent \/ (intent' = NoIntent /\ (foreignSeen' \/ ~queued))
          /\ foreignSeen' \in {foreignSeen, TRUE} /\ inject = "watch"
      BY <1>3 DEF InjectGivesUp, InjectLeavesOther, InjectEnds, Keep
    <2>2. CASE intent' = intent
      BY <2>1, <2>2 DEF Within
    <2>3. CASE intent' = NoIntent /\ (foreignSeen' \/ ~queued)
      BY <2>1, <2>3, IntentTyped
    <2> QED BY <2>1, <2>2, <2>3
  <1>4. CASE InjectAnswers
    BY <1>4, PressInv DEF InjectAnswers
  <1>5. CASE InjectConfirms
    <2>1. CASE Confirmed
      BY <1>5, <2>1, PressInv DEF InjectConfirms, Confirmed
    <2>2. CASE ~Confirmed
      BY <1>5, <2>2 DEF InjectConfirms, InjectEnds, Keep, Ages, None
    <2> QED BY <2>1, <2>2
  <1>6. CASE InjectDies
    BY <1>6 DEF InjectDies, Ages, None
  <1>7. ASSUME NEW readable \in BOOLEAN, SweepPass(readable) PROVE IiInv'
    BY <1>7, SweepInv
  <1>8. CASE CommandRuns
    <2>1. cursor' \in {None} \cup 1..Options /\ queued' = FALSE /\ inject # "submit"
      BY <1>8 DEF CommandRuns
    <2> QED BY <1>8, <2>1 DEF CommandRuns
  <1>10. CASE PaneChanges
    <2>1. cursor' \in {None, Foreign} /\ ~IsDialog(cursor')
      BY <1>10 DEF PaneChanges, None, Foreign
    <2> QED BY <1>10, <2>1 DEF PaneChanges
  <1>9. CASE UNCHANGED iiVars
    BY <1>9 DEF iiVars, Within
  <1> QED BY <1>1, <1>2, <1>3, <1>4, <1>5, <1>6, <1>7, <1>8, <1>9, <1>10 DEF IiNext

(* For any number of options, attempts and passes: Enter only falls on the   *)
(* option that was asked for, an intent is answered at most MaxAttempts      *)
(* times, and a submitted command that waits when its inject has ended or    *)
(* died is expected until the intent lapses.                                 *)
THEOREM IntentServesEach == IiSpec => []IntentServes
  <1>1. IiInv => IntentServes
    BY DEF IiInv
  <1> QED BY IiInitInv, IiStepInv, <1>1, PTL DEF IiSpec

-----------------------------------------------------------------------------
(* Autoresolve.  `waits` is bounded by what a dialog may wait for: a pause of *)
(* the rate limit that began before it came, its own time as a candidate, and *)
(* one pause of its own, which only an answer of the last minute can begin:   *)
(* no answer in the window is younger than the dialog has waited.             *)
FirstPress == IF AgeCap = 0 THEN 1 ELSE AgeCap
CandidateAge == IF candidate.sig = question THEN candidate.age + 1 ELSE 0
TripAge == IF tripped = None THEN TripCooldown ELSE tripped
NotYet == waits <= TripAge + Least(CandidateAge, FirstPress)
PutOff ==
    /\ tripped # None /\ waits <= Minute + tripped /\ question \in Allowed
    /\ candidate.sig = question /\ candidate.age + 1 >= Settle
NewQuestion == question \in Questions /\ ~repeat
Unanswered == NewQuestion => question \notin answered
LookInTime == arStep.at = "look" /\ NewQuestion => NotYet \/ PutOff
PressInTime ==
    arStep.at = "press" =>
        /\ arStep.sig \in Questions /\ candidate.sig = arStep.sig /\ candidate.age + 1 >= Settle
        /\ question # arStep.sig => waits = 0
        /\ NewQuestion => waits < Bound
AfterFresh == arStep.at = "after" => waits = 0 /\ arStep.sig \in Questions
NoWait == question \notin Questions => waits = 0
AnswersOlder == \A a \in admitted : waits <= a
LooksAlone == arStep.at = "look" => arStep = Looks
ArInv ==
    /\ DialogsResolved /\ Unanswered /\ LookInTime /\ PressInTime /\ AfterFresh /\ NoWait
    /\ AnswersOlder /\ LooksAlone

LEMMA DialogConstants ==
    /\ Settle \in Nat /\ NoAfter \in Nat /\ Minute \in Nat /\ TripCooldown \in Nat
    /\ MaxAnswers \in Nat /\ MaxAnswers >= 1 /\ AgeCap \in Nat /\ Bound \in Nat
    /\ Settle <= AgeCap /\ NoAfter <= AgeCap /\ FirstPress \in Nat
    /\ TripCooldown + FirstPress + 1 < Bound /\ Minute + TripCooldown + 1 < Bound
    /\ "none" \notin Questions /\ "unread" \notin Questions
    /\ \A q \in Questions : (q \in Allowed) # (q \in Refused)
  BY DialogAssumption DEF AgeCap, Bound, FirstPress, Questions

LEMMA DialogRecords ==
    ASSUME ArTypeOK
    PROVE  /\ arStep.at \in {"look", "press", "after"} /\ arStep.sig \in Questions \cup {"none"}
           /\ candidate.sig \in Questions \cup {"none"} /\ candidate.age \in 0..AgeCap
           /\ tries.sig \in Questions \cup {"none"} /\ tries.n \in 0..2
           /\ tripped \in Int /\ (tripped = None \/ tripped \in 0..TripCooldown)
           /\ waits \in 0..Bound /\ \A a \in admitted : a \in 0..Minute
  BY DialogConstants DEF ArTypeOK, Ages, None

LEMMA NothingTyped ==
    /\ NoCandidate \in [sig : Questions \cup {"none"}, age : 0..AgeCap]
    /\ NoTries \in [sig : Questions \cup {"none"}, n : 0..2]
    /\ Looks \in [at : {"look", "press", "after"}, sig : Questions \cup {"none"}]
    /\ Looks.at = "look" /\ Looks.sig = "none" /\ NoCandidate.sig = "none" /\ NoCandidate.age = 0
  BY DialogConstants DEF NoCandidate, NoTries, Looks

LEMMA ArInitInv == ArInit => ArInv
  <1> SUFFICES ASSUME ArInit PROVE ArInv
    OBVIOUS
  <1>1. ArTypeOK
    <2>1. None \in Ages(TripCooldown) /\ 0 \in 0..Bound /\ {} \subseteq 0..Minute
      BY DialogConstants DEF Ages, None
    <2> QED BY <2>1, NothingTyped DEF ArInit, ArTypeOK
  <1>2. DialogsResolved
    BY <1>1, DialogConstants DEF ArInit, DialogsResolved, YesOnlyAllowed, DialogDecided
  <1> QED BY <1>2, NothingTyped, DialogConstants
         DEF ArInit, ArInv, Unanswered, LookInTime, PressInTime, AfterFresh, NoWait,
             AnswersOlder, LooksAlone, NewQuestion

(* A capture of a dialog that is not blocked: it is decided on, or is a      *)
(* candidate for one pass more.                                              *)
LEMMA SeenTyped ==
    ASSUME ArInv, arStep = Looks, SeesDialog
    PROVE  /\ candidate' \in [sig : Questions \cup {"none"}, age : 0..AgeCap]
           /\ arStep' \in [at : {"look", "press", "after"}, sig : Questions \cup {"none"}]
           /\ tripped' \in Ages(TripCooldown)
           /\ UNCHANGED <<answered, tries>>
  <1> USE DialogConstants, DialogRecords, NothingTyped DEF ArInv, DialogsResolved
  <1>1. tripped' \in Ages(TripCooldown)
    BY DEF SeesDialog, Within, Ages, None
  <1>2. candidate' = candidate \/ candidate' = [sig |-> question, age |-> 0]
        \/ (candidate' = [candidate EXCEPT !.age = candidate.age + 1] /\ candidate.age + 1 < Settle)
        \/ candidate' = [candidate EXCEPT !.age = Least(candidate.age + 1, AgeCap)]
    BY DEF SeesDialog, Settled
  <1>3. Least(candidate.age + 1, AgeCap) \in 0..AgeCap
    BY DEF Least
  <1>4. candidate' \in [sig : Questions \cup {"none"}, age : 0..AgeCap]
    BY <1>2, <1>3 DEF ArTypeOK, SeesDialog
  <1>5. arStep' = Looks \/ arStep' = [at |-> "press", sig |-> question]
    BY DEF SeesDialog
  <1>6. arStep' \in [at : {"look", "press", "after"}, sig : Questions \cup {"none"}]
    BY <1>5 DEF SeesDialog
  <1> QED BY <1>1, <1>4, <1>6 DEF SeesDialog

LEMMA SeenInTime ==
    ASSUME ArInv, arStep = Looks, SeesDialog, NewQuestion, waits' = Least(waits + 1, Bound),
           UNCHANGED <<question, repeat>>
    PROVE  LookInTime' /\ PressInTime'
  <1> USE DialogConstants, DialogRecords, NothingTyped DEF ArInv, DialogsResolved
  <1>1. question \in Questions /\ NewQuestion' /\ question \notin answered /\ (NotYet \/ PutOff) 
    BY DEF SeesDialog, NewQuestion, Unanswered, LookInTime
  <1>2. waits' <= waits + 1 /\ waits' \in Nat
    BY DEF Least
  <1>3. CASE Within(tripped, TripCooldown - 1)
    <2>1. tripped' = tripped + 1 /\ candidate' = candidate /\ arStep' = Looks /\ tripped # None
      BY <1>3 DEF SeesDialog, Blocked, Within
    <2>2. PutOff => PutOff'
      BY <1>2, <2>1 DEF PutOff, None
    <2>3. NotYet => NotYet'
      <3>1. Least(CandidateAge, FirstPress)' = Least(CandidateAge, FirstPress) /\ Least(CandidateAge, FirstPress) \in Int
        BY <2>1 DEF CandidateAge, Least
      <3>2. TripAge' = TripAge + 1 /\ TripAge \in Int
        BY <2>1 DEF TripAge, None
      <3> QED BY <1>2, <3>1, <3>2 DEF NotYet
    <2> QED BY <1>1, <2>1, <2>2, <2>3 DEF LookInTime, PressInTime
  <1>4. CASE ~Within(tripped, TripCooldown - 1)
    <2>1. tripped' = None /\ ~Blocked /\ TripAge' = TripCooldown /\ TripAge <= TripCooldown /\ TripAge \in Int
      BY <1>1, <1>4 DEF SeesDialog, Blocked, TripAge
    <2>2. CandidateAge \in Nat /\ Least(CandidateAge, FirstPress) \in Nat /\ Least(CandidateAge, FirstPress) <= FirstPress
          /\ Least(CandidateAge, FirstPress) <= CandidateAge
      BY DEF CandidateAge, Least
    <2>3. CASE Settled /\ Ripe
      <3>1. arStep' = [at |-> "press", sig |-> question]
            /\ candidate' = [candidate EXCEPT !.age = Least(candidate.age + 1, AgeCap)]
        BY <2>1, <2>3 DEF SeesDialog
      <3>2. candidate'.sig = question /\ candidate'.age + 1 >= Settle
        BY <2>3, <3>1 DEF Settled, Least, ArTypeOK
      <3>3. waits < Bound - 1
        BY <1>1, <2>1, <2>2 DEF NotYet, PutOff
      <3> QED BY <1>1, <1>2, <3>1, <3>2, <3>3 DEF LookInTime, PressInTime
    <2>4. CASE ~(Settled /\ Ripe)
      <3>1. NotYet
        BY <1>1, <2>4 DEF PutOff, Settled, Ripe
      <3>2. arStep' = Looks
        BY <2>1, <2>4 DEF SeesDialog
      <3>3. Least(CandidateAge, FirstPress)' = Least(CandidateAge, FirstPress) + 1
        <4>1. CASE candidate.sig # question
          <5>1. candidate' = [sig |-> question, age |-> 0]
            BY <2>1, <4>1 DEF SeesDialog, Settled
          <5>2. CandidateAge = 0 /\ CandidateAge' = 1
            BY <4>1, <5>1 DEF CandidateAge
          <5> QED BY <5>2 DEF Least, FirstPress
        <4>2. CASE candidate.sig = question
          <5>1. candidate.age + 1 < AgeCap
            BY <2>4, <4>2 DEF Settled, Ripe
          <5>2. candidate'.sig = question /\ candidate'.age = candidate.age + 1
            <6>1. candidate' = [candidate EXCEPT !.age = candidate.age + 1]
              BY <2>1, <4>2, <5>1 DEF SeesDialog, Settled, Least
            <6> QED BY <4>2, <6>1 DEF ArTypeOK
          <5>3. CandidateAge = candidate.age + 1 /\ CandidateAge' = candidate.age + 2
            BY <4>2, <5>2 DEF CandidateAge
          <5> QED BY <5>1, <5>3 DEF Least, FirstPress
        <4> QED BY <4>1, <4>2
      <3>4. NotYet'
        BY <1>2, <2>1, <2>2, <3>1, <3>3 DEF NotYet
      <3> QED BY <1>1, <3>2, <3>4 DEF LookInTime, PressInTime
    <2> QED BY <2>3, <2>4
  <1> QED BY <1>3, <1>4

(* A dialog that has not waited yet is in time. *)
LEMMA FreshInTime == ASSUME ArTypeOK', waits' = 0 PROVE LookInTime' /\ AnswersOlder'
  <1>1. /\ candidate'.age \in 0..AgeCap /\ (tripped' = None \/ tripped' \in 0..TripCooldown)
        /\ \A a \in admitted' : a \in 0..Minute
    BY DialogConstants DEF ArTypeOK, Ages, None
  <1>2. TripAge' \in Nat /\ Least(CandidateAge, FirstPress)' \in Nat
    BY <1>1, DialogConstants DEF TripAge, CandidateAge, Least
  <1> QED BY <1>1, <1>2 DEF LookInTime, NotYet, AnswersOlder

LEMMA CaptureInv == ASSUME ArInv, Capture PROVE ArInv'
  <1> USE DialogConstants, DialogRecords, NothingTyped DEF ArInv, DialogsResolved
  <1>1. /\ waits' = (IF question \in Questions THEN Least(waits + 1, Bound) ELSE 0)
        /\ waits' \in 0..Bound /\ (question \in Questions => waits' <= waits + 1)
        /\ question' = question /\ yesTo' = yesTo /\ repeat' = (repeat /\ question # "none")
        /\ admitted' = {a + 1 : a \in {b \in admitted : b < Minute}}
    BY DEF Capture, Least
  <1>2. admitted' \subseteq 0..Minute /\ AnswersOlder'
    BY <1>1 DEF AnswersOlder, ArTypeOK
  <1>3. CASE question \notin Questions
    <2>1. /\ arStep' = Looks /\ tripped' = tripped /\ (candidate' = NoCandidate) /\ waits' = 0
          /\ (answered' = {} \/ answered' = answered) /\ (tries' = NoTries \/ tries' = tries)
      BY <1>1, <1>3 DEF Capture, SeesNothing, SeesUndecided, SeesDialog
    <2>2. ArTypeOK'
      BY <1>1, <1>2, <2>1 DEF ArTypeOK
    <2> QED BY <1>1, <1>2, <1>3, <2>1, <2>2
           DEF YesOnlyAllowed, DialogDecided, Unanswered, LookInTime, PressInTime, AfterFresh,
               NoWait, LooksAlone, NewQuestion
  <1>4. CASE question \in Questions
    <2>1. SeesDialog /\ arStep = Looks /\ repeat' = repeat
      BY <1>1, <1>4 DEF Capture, SeesNothing, SeesUndecided, ArTypeOK
    <2>2. ArTypeOK'
      BY <1>1, <1>2, <2>1, SeenTyped DEF ArTypeOK
    <2>3. arStep' = Looks \/ (arStep' = [at |-> "press", sig |-> question] /\ Settled
                               /\ candidate' = [candidate EXCEPT !.age = Least(candidate.age + 1, AgeCap)])
      BY <2>1 DEF SeesDialog
    <2>4. LookInTime' /\ PressInTime'
      <3>1. CASE NewQuestion
        BY <1>1, <1>4, <2>1, <3>1, SeenInTime
      <3>2. CASE ~NewQuestion
        <4>1. ~NewQuestion'
          BY <1>1, <2>1, <3>2 DEF NewQuestion
        <4>2. arStep'.at = "press" => candidate'.sig = question /\ candidate'.age + 1 >= Settle
          BY <2>3 DEF Settled, Least, ArTypeOK
        <4> QED BY <1>1, <1>4, <2>3, <4>1, <4>2 DEF LookInTime, PressInTime
      <3> QED BY <3>1, <3>2
    <2>5. DialogDecided'
      <3>1. CASE repeat
        BY <2>1, <3>1 DEF DialogDecided
      <3>2. CASE ~repeat
        <4>1. NewQuestion' /\ question' = question
          BY <1>1, <1>4, <2>1, <3>2 DEF NewQuestion
        <4>2. NotYet' \/ PutOff' \/ waits' < Bound
          BY <2>3, <2>4, <4>1 DEF LookInTime, PressInTime
        <4>3. /\ tripped' = None \/ tripped' \in 0..TripCooldown
              /\ candidate'.age \in 0..AgeCap
          BY <2>2 DEF ArTypeOK, Ages, None
        <4>4. /\ TripAge' <= TripCooldown /\ TripAge' \in Int
              /\ Least(CandidateAge, FirstPress)' <= FirstPress /\ Least(CandidateAge, FirstPress)' \in Int
          BY <4>3 DEF TripAge, CandidateAge, Least
        <4> QED BY <1>1, <4>2, <4>3, <4>4 DEF DialogDecided, NotYet, PutOff
      <3> QED BY <3>1, <3>2
    <2>6. Unanswered' /\ AfterFresh' /\ NoWait' /\ LooksAlone' /\ YesOnlyAllowed'
      BY <1>1, <1>4, <2>1, <2>3 DEF SeesDialog, Unanswered, AfterFresh, NoWait, LooksAlone,
                                     YesOnlyAllowed, NewQuestion
    <2> QED BY <1>2, <2>2, <2>4, <2>5, <2>6
  <1> QED BY <1>3, <1>4

(* The rate limit refuses only while an answer of the last minute counts. *)
LEMMA RefusedInMinute ==
    ASSUME ArTypeOK, AnswersOlder, ~Admits PROVE waits <= Minute
  <1>1. admitted # {}
    BY DialogConstants, FS_EmptySet DEF Admits
  <1> QED BY <1>1, DialogRecords, DialogConstants DEF AnswersOlder

LEMMA PressYesInv == ASSUME ArInv, NEW written \in BOOLEAN, PressYes(written) PROVE ArInv'
  <1> USE DialogConstants, DialogRecords, NothingTyped DEF ArInv, DialogsResolved
  <1>1. /\ arStep.at = "press" /\ arStep.sig \in Allowed /\ arStep.sig \in Questions
        /\ UNCHANGED <<candidate, answered, tries, repeat>>
    BY DEF PressYes, Questions
  <1>2. CASE Admits /\ written /\ SameScreen
    <2>1. /\ question = arStep.sig /\ arStep'.at = "after" /\ arStep'.sig = arStep.sig
          /\ arStep' \in [at : {"look", "press", "after"}, sig : Questions \cup {"none"}]
          /\ yesTo' = yesTo \cup {question} /\ question' \in {"none", question} /\ waits' = 0
          /\ admitted' = admitted \cup {0} /\ tripped' = tripped
      BY <1>1, <1>2 DEF PressYes, SameScreen, ArTypeOK
    <2>2. ArTypeOK'
      BY <1>1, <2>1 DEF ArTypeOK
    <2>3. Unanswered' /\ PressInTime' /\ AfterFresh' /\ NoWait' /\ LooksAlone'
      BY <1>1, <2>1 DEF Unanswered, PressInTime, AfterFresh, NoWait, LooksAlone, NewQuestion
    <2>4. YesOnlyAllowed' /\ DialogDecided'
      BY <1>1, <2>1 DEF YesOnlyAllowed, DialogDecided
    <2> QED BY <2>1, <2>2, <2>3, <2>4, FreshInTime
  <1>3. CASE ~(Admits /\ written /\ SameScreen)
    <2>1. /\ arStep' = Looks /\ waits' = (IF written THEN waits ELSE 0)
          /\ yesTo' = yesTo /\ question' = question
      BY <1>1, <1>3 DEF PressYes
    <2>2. ArTypeOK'
      <3>1. admitted' \subseteq 0..Minute /\ tripped' \in Ages(TripCooldown)
        BY DEF PressYes, ArTypeOK, Ages, None
      <3> QED BY <1>1, <2>1, <3>1 DEF ArTypeOK
    <2>3. Unanswered' /\ PressInTime' /\ AfterFresh' /\ NoWait' /\ LooksAlone'
      BY <1>1, <2>1 DEF Unanswered, PressInTime, AfterFresh, NoWait, LooksAlone, NewQuestion
    <2>4. YesOnlyAllowed' /\ DialogDecided'
      BY <1>1, <2>1 DEF YesOnlyAllowed, DialogDecided
    <2>5. CASE waits' = 0
      BY <2>1, <2>2, <2>3, <2>4, <2>5, FreshInTime
    <2>6. CASE waits' # 0
      <3>1. waits' = waits /\ question = arStep.sig /\ ~Admits
        BY <1>1, <1>3, <2>1, <2>6 DEF PressInTime, SameScreen
      <3>2. admitted' = admitted /\ tripped' = 0 /\ waits <= Minute
        BY <3>1, RefusedInMinute DEF PressYes
      <3>3. PutOff'
        BY <1>1, <2>1, <3>1, <3>2 DEF PutOff, PressInTime, None
      <3>4. AnswersOlder' /\ LookInTime'
        BY <3>1, <3>2, <3>3 DEF AnswersOlder, LookInTime
      <3> QED BY <2>2, <2>3, <2>4, <3>4
    <2> QED BY <2>5, <2>6
  <1> QED BY <1>2, <1>3

LEMMA PressNoInv == ASSUME ArInv, NEW written \in BOOLEAN, PressNo(written) PROVE ArInv'
  <1> USE DialogConstants, DialogRecords, NothingTyped DEF ArInv, DialogsResolved
  <1> DEFINE n == IF tries.sig = arStep.sig THEN tries.n ELSE 0
  <1>1. /\ arStep.at = "press" /\ arStep.sig \in Questions
        /\ UNCHANGED <<candidate, admitted, tripped, yesTo>>
    BY DEF PressNo, Questions
  <1>2. CASE n >= 2
    <2>1. /\ answered' = answered \cup {arStep.sig} /\ arStep' = Looks
          /\ repeat' = (repeat \/ question = arStep.sig)
          /\ UNCHANGED <<tries, question, waits>>
      BY <1>2 DEF PressNo
    <2>2. ArTypeOK'
      BY <1>1, <2>1 DEF ArTypeOK
    <2>3. NewQuestion' => waits' = 0
      BY <1>1, <2>1 DEF NewQuestion, PressInTime
    <2>4. LookInTime'
      <3>1. CASE NewQuestion'
        BY <2>2, <2>3, <3>1, FreshInTime
      <3>2. CASE ~NewQuestion'
        BY <3>2 DEF LookInTime
      <3> QED BY <3>1, <3>2
    <2>5. DialogDecided' /\ Unanswered' /\ AnswersOlder' /\ YesOnlyAllowed'
      BY <1>1, <2>1, <2>3 DEF DialogDecided, Unanswered, AnswersOlder, YesOnlyAllowed, NewQuestion
    <2> QED BY <1>1, <2>1, <2>2, <2>4, <2>5 DEF PressInTime, AfterFresh, NoWait, LooksAlone
  <1>3. CASE ~(n >= 2)
    <2>1. /\ tries' = [sig |-> arStep.sig, n |-> n + 1] /\ n + 1 \in 0..2
          /\ UNCHANGED <<answered, repeat>>
          /\ waits' = 0
          /\ \/ /\ question = arStep.sig /\ arStep' = [arStep EXCEPT !.at = "after"]
                /\ question' \in {"none", question}
             \/ arStep' = Looks /\ question' = question
      <3>1. CASE written /\ SameScreen
        BY <1>3, <3>1 DEF PressNo, SameScreen
      <3>2. CASE ~(written /\ SameScreen)
        BY <1>1, <1>3, <3>2 DEF PressNo, SameScreen, PressInTime
      <3> QED BY <3>1, <3>2
    <2>2. ArTypeOK'
      <3>1. arStep' \in [at : {"look", "press", "after"}, sig : Questions \cup {"none"}]
        BY <2>1 DEF ArTypeOK
      <3>2. tries' \in [sig : Questions \cup {"none"}, n : 0..2]
        BY <1>1, <2>1
      <3> QED BY <1>1, <2>1, <3>1, <3>2 DEF ArTypeOK
    <2>3. (arStep'.at = "after" /\ arStep'.sig = arStep.sig) \/ arStep' = Looks
      BY <2>1 DEF ArTypeOK
    <2>4. Unanswered' /\ PressInTime' /\ AfterFresh' /\ NoWait' /\ LooksAlone'
      BY <1>1, <2>1, <2>3 DEF Unanswered, PressInTime, AfterFresh, NoWait, LooksAlone, NewQuestion
    <2>5. YesOnlyAllowed' /\ DialogDecided'
      BY <1>1, <2>1 DEF YesOnlyAllowed, DialogDecided
    <2> QED BY <2>1, <2>2, <2>4, <2>5, FreshInTime
  <1> QED BY <1>2, <1>3

LEMMA AfterInv == ASSUME ArInv, NEW captured \in BOOLEAN, After(captured) PROVE ArInv'
  <1> USE DialogConstants, DialogRecords, NothingTyped DEF ArInv, DialogsResolved
  <1>1. /\ waits' = 0 /\ arStep' = Looks /\ arStep.sig \in Questions
        /\ UNCHANGED <<question, tries, admitted, tripped, yesTo>>
        /\ \/ UNCHANGED <<candidate, answered, repeat>>
           \/ /\ candidate' = NoCandidate /\ answered' = answered \cup {arStep.sig}
              /\ repeat' = (repeat \/ question = arStep.sig)
    BY DEF After, AfterFresh
  <1>2. ArTypeOK'
    <2>1. CASE UNCHANGED <<candidate, answered, repeat>>
      BY <1>1, <2>1 DEF ArTypeOK
    <2>2. CASE ~(UNCHANGED <<candidate, answered, repeat>>)
      <3>1. candidate' = NoCandidate /\ answered' = answered \cup {arStep.sig} /\ repeat' \in BOOLEAN
        BY <1>1, <2>2
      <3> QED BY <1>1, <3>1 DEF ArTypeOK
    <2> QED BY <2>1, <2>2
  <1>3. Unanswered' /\ PressInTime' /\ AfterFresh' /\ NoWait' /\ LooksAlone'
    <2>1. Unanswered'
      <3>1. CASE UNCHANGED <<candidate, answered, repeat>>
        BY <1>1, <3>1 DEF Unanswered, NewQuestion
      <3>2. CASE ~(UNCHANGED <<candidate, answered, repeat>>)
        <4>1. answered' = answered \cup {arStep.sig}
              /\ (~repeat' => ~repeat /\ question # arStep.sig)
          BY <1>1, <3>2
        <4> QED BY <1>1, <4>1 DEF Unanswered, NewQuestion
      <3> QED BY <3>1, <3>2
    <2> QED BY <1>1, <2>1 DEF PressInTime, AfterFresh, NoWait, LooksAlone
  <1>4. YesOnlyAllowed' /\ DialogDecided'
    BY <1>1 DEF YesOnlyAllowed, DialogDecided
  <1> QED BY <1>1, <1>2, <1>3, <1>4, FreshInTime

LEMMA ChangeInv ==
    ASSUME ArInv, NEW d \in Questions \cup {"none", "unread"}, ScreenChanges(d) PROVE ArInv'
  <1> USE DialogConstants, DialogRecords, NothingTyped DEF ArInv, DialogsResolved
  <1>1. /\ waits' = 0 /\ question' = d /\ repeat' = (d \in answered \cup ({arStep.sig} \ {"none"}))
        /\ UNCHANGED <<arStep, candidate, answered, tries, admitted, tripped, yesTo>>
    BY DEF ScreenChanges
  <1>2. ArTypeOK'
    BY <1>1 DEF ArTypeOK
  <1>3. Unanswered' /\ PressInTime' /\ AfterFresh' /\ NoWait' /\ LooksAlone'
    <2>1. Unanswered'
      BY <1>1 DEF NewQuestion, Unanswered
    <2>2. PressInTime' /\ AfterFresh'
      BY <1>1 DEF PressInTime, AfterFresh
    <2> QED BY <1>1, <2>1, <2>2 DEF NoWait, LooksAlone
  <1>4. YesOnlyAllowed' /\ DialogDecided'
    BY <1>1 DEF YesOnlyAllowed, DialogDecided
  <1> QED BY <1>1, <1>2, <1>3, <1>4, FreshInTime

LEMMA ArStepInv == ASSUME ArInv, [ArNext]_arVars PROVE ArInv'
  <1>1. CASE UNCHANGED arVars
    BY <1>1 DEF arVars, ArInv, DialogsResolved, ArTypeOK, YesOnlyAllowed, DialogDecided, Unanswered,
                LookInTime, PressInTime, AfterFresh, NoWait, AnswersOlder, LooksAlone, NewQuestion, NotYet,
                PutOff, TripAge, CandidateAge
  <1> QED BY <1>1, CaptureInv, PressYesInv, PressNoInv, AfterInv, ChangeInv DEF ArNext

(* For any dialogs, waits and limits: Enter never falls on a dialog that no  *)
(* rule allows, and a dialog that stays readable, and has not the signature  *)
(* of one dealt with just before, gets a key before `Bound` passes.          *)
THEOREM DialogsResolvedEach == ArSpec => []DialogsResolved
  <1>1. ArInv => DialogsResolved
    BY DEF ArInv
  <1> QED BY ArInitInv, ArStepInv, <1>1, PTL DEF ArSpec

-----------------------------------------------------------------------------
(* Malformed.  A block that was nudged is the one the guard remembers; the   *)
(* passes that left a block alone are no more than the strikes, and no more  *)
(* than the passes since the last nudge.                                     *)
LastNudgeKept == \A b \in Blocks : spent[b] \in 0..1 /\ (spent[b] = 1 => nudged = b)
NudgeDue ==
    /\ unnudged \in Nat
    /\ unnudged <= strikes \/ strikes = NudgeAfter
    /\ nudgeAge = None \/ unnudged <= nudgeAge \/ nudgeAge = NudgeCooldown
MfGood == MfTypeOK /\ NudgedOnce /\ NewBlockNudged
MfInv == MfGood /\ LastNudgeKept /\ NudgeDue

LEMMA BlockConstants ==
    NoBlock \notin Blocks /\ NudgeAfter \in Nat /\ NudgeCooldown \in Nat /\ HardAfter \in Nat
  BY BlockAssumption

LEMMA MfInitInv == MfInit => MfInv
  BY BlockConstants
     DEF MfInit, MfInv, MfGood, MfTypeOK, NudgedOnce, NewBlockNudged, LastNudgeKept, NudgeDue, Ages, None

LEMMA MfPassInv == ASSUME MfInv, NEW sight \in BlockSights, MfPass(sight) PROVE MfInv'
  <1> USE BlockConstants DEF MfInv, MfGood, MfTypeOK, NudgedOnce
  <1> DEFINE b == Seen(sight)
             fires == b # NoBlock /\ Nudges(sight)
             soft == fires /\ ~HardBlock
             older == Older(nudgeAge, NudgeCooldown)
  <1>1. b \in Blocks \cup {NoBlock} /\ malformed' = malformed
    BY DEF Seen, MfPass
  <1>2. /\ older \in Ages(NudgeCooldown) /\ (nudgeAge = None <=> older = None)
        /\ nudgeAge # None => older = nudgeAge + 1 \/ older = NudgeCooldown
    BY DEF Older, Least, Ages, None
  <1>3. /\ strikes' = (IF b = NoBlock \/ soft THEN 0 ELSE Least(strikes + 1, NudgeAfter))
        /\ strikes' \in 0..NudgeAfter
    BY DEF MfPass, Least
  <1>4. nudges' \in 0..HardAfter
    <2>1. nudges' = 0 \/ nudges' = nudges \/ (nudges' = nudges + 1 /\ ~(nudges >= HardAfter))
      BY DEF MfPass, HardBlock
    <2> QED BY <2>1
  <1>5. /\ nudged' = (IF b = NoBlock THEN NoBlock ELSE IF fires THEN b ELSE nudged)
        /\ nudgeAge' = (IF fires THEN 0 ELSE older)
        /\ nudged' \in Blocks \cup {NoBlock} /\ nudgeAge' \in Ages(NudgeCooldown)
    BY <1>1, <1>2 DEF MfPass, Ages, None
  <1>6. fires => nudged # b
    BY DEF Nudges, AlreadyNudged
  <1>7. LastNudgeKept'
    <2> SUFFICES ASSUME NEW x \in Blocks PROVE spent'[x] \in 0..1 /\ (spent'[x] = 1 => nudged' = x)
      BY DEF LastNudgeKept
    <2>1. spent[x] \in 0..1 /\ (spent[x] = 1 => nudged = x)
      BY DEF LastNudgeKept
    <2>2. CASE b = NoBlock \/ x # b
      BY <2>2 DEF MfPass
    <2>3. CASE b # NoBlock /\ x = b /\ fires
      <3>1. spent[x] = 0 /\ spent'[x] = Least(spent[x] + 1, 2) /\ nudged' = x
        BY <1>5, <1>6, <2>1, <2>3 DEF MfPass
      <3> QED BY <3>1 DEF Least
    <2>4. CASE b # NoBlock /\ x = b /\ ~fires
      BY <1>5, <2>1, <2>4 DEF MfPass
    <2> QED BY <2>2, <2>3, <2>4
  <1>8. NudgeDue' /\ NewBlockNudged'
    <2>1. CASE unnudged' = 0
      <3>1. nudgeAge' = None \/ nudgeAge' >= 0
        BY <1>5 DEF Ages, None
      <3> QED BY <1>3, <2>1, <3>1 DEF NudgeDue, NewBlockNudged
    <2>2. CASE unnudged' # 0
      <3>1. /\ b # NoBlock /\ ~fires /\ ~sight.retrying /\ nudged # b
            /\ unnudged' = Least(unnudged + 1, NudgeAfter + NudgeCooldown + 1)
        BY <2>2 DEF MfPass
      <3>2. strikes + 1 < NudgeAfter \/ (nudgeAge # None /\ older < NudgeCooldown)
        <4>1. ~Nudges(sight)
          BY <3>1
        <4> QED BY <1>2, <3>1, <4>1 DEF Nudges, AlreadyNudged, Cooling, Within
      <3>3. unnudged' \in Nat /\ unnudged' <= unnudged + 1
        BY <3>1 DEF Least, NudgeDue
      <3>4. /\ strikes' = Least(strikes + 1, NudgeAfter) /\ nudgeAge' = older
        BY <1>3, <1>5, <3>1
      <3>5. unnudged' <= strikes' \/ strikes' = NudgeAfter
        BY <3>3, <3>4 DEF NudgeDue, Least
      <3>6. nudgeAge' = None \/ unnudged' <= nudgeAge' \/ nudgeAge' = NudgeCooldown
        BY <1>2, <3>3, <3>4 DEF NudgeDue, Ages, None
      <3>7. unnudged' < NudgeAfter \/ unnudged' < NudgeCooldown
        <4>1. CASE strikes + 1 < NudgeAfter
          BY <3>3, <4>1 DEF NudgeDue
        <4>2. CASE nudgeAge # None /\ older < NudgeCooldown
          BY <1>2, <3>3, <3>4, <3>6, <4>2 DEF Ages, None
        <4> QED BY <3>2, <4>1, <4>2
      <3> QED BY <3>3, <3>5, <3>6, <3>7 DEF NudgeDue, NewBlockNudged
    <2> QED BY <2>1, <2>2
  <1>9. NudgedOnce'
    BY <1>7 DEF LastNudgeKept
  <1> QED BY <1>1, <1>3, <1>4, <1>5, <1>7, <1>8, <1>9

LEMMA MfStepInv == ASSUME MfInv, [MfNext]_mfVars PROVE MfInv'
  <1>1. CASE BlockMoves
    BY <1>1, BlockConstants
       DEF BlockMoves, MfInv, MfGood, MfTypeOK, NudgedOnce, NewBlockNudged, LastNudgeKept, NudgeDue, Ages, None
  <1>2. CASE UNCHANGED mfVars
    BY <1>2 DEF mfVars, MfInv, MfGood, MfTypeOK, NudgedOnce, NewBlockNudged, LastNudgeKept, NudgeDue
  <1> QED BY <1>1, <1>2, MfPassInv DEF MfNext

LEMMA MfAlways == MfSpec => []MfGood
  <1>1. MfInv => MfGood
    BY DEF MfInv
  <1> QED BY MfInitInv, MfStepInv, <1>1, PTL DEF MfSpec

-----------------------------------------------------------------------------
(* Prompts.  The record of a prompt is of the text that the monitors saw     *)
(* last, and no older than that text; what was told is told of it; and the   *)
(* passes that saw a dialog are no more than its timer has counted.          *)
DeclinesStale ==
    judged # NoDialog => perm.sig = judged /\ perm.denies > 0 /\ sample.age >= DenyAfter
PermOfSample ==
    perm.sig # NoDialog =>
        /\ perm.since # None /\ perm.since <= sample.age /\ sample.text = perm.sig
        /\ perm.alerted => "perm" \in pages
AskOfSample ==
    /\ ask.since # None => sample.text = "ask"
    /\ ask.alerted => ask.since # None /\ "ask" \in pages
PagesOfSample ==
    /\ pages \subseteq {"perm", "ask"}
    /\ "perm" \in pages => sample.text \in Prompts
    /\ "ask" \in pages => sample.text = "ask"
SeenCounted ==
    seen > 0 =>
        /\ dialog # NoDialog /\ sample.text = dialog
        /\ dialog \in Prompts =>
             perm.sig = dialog /\ (perm.alerted \/ seen <= 1 \/ (seen <= perm.since + 1 /\ perm.since < AlertAfter))
        /\ dialog = "ask" =>
             ask.since # None /\ (ask.alerted \/ seen <= 1 \/ (seen <= ask.since + 1 /\ ask.since < AskStale))
HistoryTyped == sample \in [text : Dialogs, age : 0..Cap] /\ seen \in 0..(InTime + 1)
PpGood == PpTypeOK /\ EscapeOnStale /\ OnePagePerDialog /\ DialogTold
PpInv ==
    /\ PpTypeOK /\ EscapeOnStale /\ HistoryTyped
    /\ DeclinesStale /\ PermOfSample /\ AskOfSample /\ PagesOfSample /\ SeenCounted

LEMMA PromptConstants ==
    /\ "ask" \notin Prompts /\ NoDialog \notin Prompts /\ NoDialog # "ask"
    /\ AlertAfter \in Nat /\ DenyAfter \in Nat /\ MaxDenies \in Nat /\ AskStale \in Nat
    /\ Cap \in Nat /\ AlertAfter <= Cap /\ DenyAfter <= Cap
    /\ InTime \in Nat /\ InTime > AlertAfter /\ InTime > AskStale
  BY PromptAssumption DEF Cap, InTime, NoDialog

Perms == [sig : Prompts \cup {NoDialog}, since : Ages(Cap), alerted : BOOLEAN, denies : 0..MaxDenies]
Asks == [since : Ages(AskStale), alerted : BOOLEAN]

LEMMA NothingTracked ==
    /\ NoPrompt \in Perms /\ NoPrompt.sig = NoDialog /\ ~NoPrompt.alerted
    /\ NoAsk \in Asks /\ NoAsk.since = None /\ ~NoAsk.alerted
  BY PromptConstants DEF NoPrompt, NoAsk, Perms, Asks, Ages, None

LEMMA PpTyped ==
    ASSUME PpTypeOK
    PROVE  /\ dialog \in Dialogs /\ judged \in Prompts \cup {NoDialog} /\ perm \in Perms /\ ask \in Asks
           /\ perm.sig \in Prompts \cup {NoDialog} /\ perm.since \in Ages(Cap)
           /\ perm.alerted \in BOOLEAN /\ perm.denies \in 0..MaxDenies
           /\ ask.since \in Ages(AskStale) /\ ask.alerted \in BOOLEAN
  BY DEF PpTypeOK, Perms, Asks

LEMMA PpInitInv == PpInit => PpInv
  <1> SUFFICES ASSUME PpInit PROVE PpInv
    OBVIOUS
  <1>1. PpTypeOK
    BY NothingTracked DEF PpInit, PpTypeOK, Dialogs, Perms, Asks
  <1>2. sample \in [text : Dialogs, age : 0..Cap]
    BY PromptConstants DEF PpInit, Dialogs
  <1>3. sample.text = NoDialog /\ sample.age = 0 /\ seen = 0 /\ pages = {} /\ judged = NoDialog /\ ~struck
        /\ perm.sig = NoDialog /\ ask.since = None /\ ~ask.alerted
    BY NothingTracked DEF PpInit
  <1> QED BY <1>1, <1>2, <1>3, PromptConstants
         DEF PpInv, EscapeOnStale, HistoryTyped, DeclinesStale, PermOfSample, AskOfSample,
             PagesOfSample, SeenCounted, Dialogs

(* The record as a pass takes it up, aged by the pass. *)
LEMMA PpAged ==
    ASSUME PpTypeOK
    PROVE  LET p == [perm EXCEPT !.since = Older(@, Cap)]
               a == [ask EXCEPT !.since = Older(@, AskStale)]
           IN  /\ p \in Perms /\ a \in Asks
               /\ p.sig = perm.sig /\ p.since = Older(perm.since, Cap) /\ p.alerted = perm.alerted
               /\ p.denies = perm.denies
               /\ a.since = Older(ask.since, AskStale) /\ a.alerted = ask.alerted
  <1>1. Older(perm.since, Cap) \in Ages(Cap) /\ Older(ask.since, AskStale) \in Ages(AskStale)
    BY PpTyped, PromptConstants, TickTyped
  <1> QED BY <1>1, PpTyped DEF Perms, Asks

(* A pass that is left at the fresh-clear check: the timers go on. *)
LEMMA SkippedInv ==
    ASSUME PpInv, NEW sight \in PromptSights, PpPass(sight), Skipped(sight) PROVE PpInv'
  <1> USE PromptConstants, PpTyped DEF PpInv
  <1>1. /\ perm' = [perm EXCEPT !.since = Older(@, Cap)] /\ ask' = [ask EXCEPT !.since = Older(@, AskStale)]
        /\ seen' = 0 /\ sample' = [sample EXCEPT !.age = Older(@, Cap)]
        /\ UNCHANGED <<judged, pages, dialog, struck>> /\ judged = NoDialog
    BY DEF PpPass
  <1>2. /\ perm' \in Perms /\ ask' \in Asks /\ perm'.sig = perm.sig /\ perm'.alerted = perm.alerted
        /\ perm'.since = Older(perm.since, Cap) /\ perm'.since \in Ages(Cap)
        /\ ask'.since = Older(ask.since, AskStale) /\ ask'.alerted = ask.alerted
    BY <1>1, PpAged, TickTyped
  <1>3. sample'.text = sample.text /\ sample'.age \in 0..Cap /\ sample'.age = Least(sample.age + 1, Cap)
    BY <1>1 DEF Older, Least, HistoryTyped, None
  <1>4. sample' \in [text : Dialogs, age : 0..Cap]
    BY <1>1, <1>3 DEF HistoryTyped
  <1>5. PpTypeOK'
    BY <1>1, <1>2 DEF PpTypeOK, Perms, Asks
  <1>6. PermOfSample'
    BY <1>1, <1>2, <1>3, TickTyped DEF PermOfSample, Least, HistoryTyped, Ages, None
  <1>7. AskOfSample' /\ PagesOfSample'
    BY <1>1, <1>2, <1>3, TickTyped DEF AskOfSample, PagesOfSample
  <1> QED BY <1>1, <1>4, <1>5, <1>6, <1>7 DEF EscapeOnStale, HistoryTyped, DeclinesStale, SeenCounted

(* A pass that the monitors take part in. *)
LEMMA LookedInv ==
    ASSUME PpInv, NEW sight \in PromptSights, PpPass(sight), ~Skipped(sight) PROVE PpInv'
  <1> USE PromptConstants, PpTyped DEF PpInv
  <1> DEFINE p == [perm EXCEPT !.since = Older(@, Cap)]
             a == [ask EXCEPT !.since = Older(@, AskStale)]
             sig == IF sight.blind \/ dialog = "ask" THEN NoDialog ELSE dialog
             view == IF sight.blind THEN NoDialog ELSE dialog
             tracked == Tracked(p, sig)
             alert == DialogAlertDue(p, sig)
             deny == DenyDue(p, sig, sight.busy)
             asked == ~sight.blind /\ IsQuestion(dialog, sig # NoDialog)
  <1>1. /\ p \in Perms /\ a \in Asks
        /\ p.sig = perm.sig /\ p.since = Older(perm.since, Cap) /\ p.alerted = perm.alerted
        /\ p.denies = perm.denies
        /\ a.since = Older(ask.since, AskStale) /\ a.alerted = ask.alerted
        /\ p.since \in Ages(Cap) /\ a.since \in Ages(AskStale)
    BY PpAged, TickTyped
  <1>2. /\ judged = NoDialog /\ UNCHANGED <<dialog, struck>>
        /\ perm' = (IF alert THEN [tracked EXCEPT !.alerted = TRUE]
                    ELSE IF deny THEN [tracked EXCEPT !.denies = tracked.denies + 1] ELSE tracked)
        /\ judged' = (IF deny THEN sig ELSE NoDialog)
        /\ ask' = (IF deny THEN a ELSE AskStep(a, asked))
        /\ pages' = (IF sample.text = view THEN pages ELSE {}) \cup (IF alert THEN {"perm"} ELSE {})
                      \cup (IF ~deny /\ AskFires(a, asked) THEN {"ask"} ELSE {})
        /\ sample' = (IF sample.text = view THEN [sample EXCEPT !.age = Older(@, Cap)]
                      ELSE [text |-> view, age |-> 0])
        /\ seen' = (IF dialog = NoDialog \/ sight.blind THEN 0 ELSE Least(seen + 1, InTime + 1))
    BY DEF PpPass
  <1>3. view \in Dialogs /\ (view = NoDialog \/ (view = dialog /\ ~sight.blind))
    BY DEF Dialogs
  <1>4. /\ sample' \in [text : Dialogs, age : 0..Cap] /\ sample'.text = view
        /\ sample.text = view => sample'.age = Older(sample.age, Cap)
        /\ sample'.age >= 0 /\ sample'.age \in Int
    <2>1. Older(sample.age, Cap) \in 0..Cap
      BY DEF HistoryTyped, Older, Least, None
    <2>2. CASE sample.text = view
      <3>1. sample' = [sample EXCEPT !.age = Older(@, Cap)]
        BY <1>2, <2>2
      <3> QED BY <2>1, <2>2, <3>1 DEF HistoryTyped
    <2>3. CASE sample.text # view
      <3>1. sample' = [text |-> view, age |-> 0]
        BY <1>2, <2>3
      <3> QED BY <1>3, <2>3, <3>1
    <2> QED BY <2>2, <2>3
  <1>5. seen' \in 0..(InTime + 1) /\ seen' <= seen + 1 /\ (seen' > 0 => view = dialog /\ dialog # NoDialog)
    BY <1>2 DEF Least, HistoryTyped
  <1> HIDE DEF p, a
  <1>6. CASE view = NoDialog
    <2>1. sig = NoDialog /\ ~alert /\ ~deny /\ ~asked /\ tracked = NoPrompt /\ AskStep(a, asked) = NoAsk
      BY <1>3, <1>6 DEF DialogAlertDue, DenyDue, IsQuestion, Tracked, AskStep
    <2>2. /\ perm' = NoPrompt /\ ask' = NoAsk /\ judged' = NoDialog /\ pages' = {} /\ seen' = 0
      <3>1. ~AskFires(a, asked)
        BY <2>1 DEF AskFires
      <3>2. sample.text = view => pages = {}
        BY <1>6 DEF PagesOfSample
      <3>3. seen' = 0
        BY <1>2, <1>6
      <3> QED BY <1>2, <2>1, <3>1, <3>2, <3>3
    <2>3. PpTypeOK'
      BY <1>2, <2>2, NothingTracked DEF PpTypeOK, Perms, Asks
    <2>4. PermOfSample' /\ AskOfSample' /\ PagesOfSample' /\ DeclinesStale' /\ SeenCounted'
      BY <2>2, NothingTracked DEF DeclinesStale, PermOfSample, AskOfSample, PagesOfSample, SeenCounted
    <2> QED BY <1>2, <1>4, <1>5, <2>3, <2>4 DEF EscapeOnStale, HistoryTyped
  <1>7. CASE view \in Prompts /\ p.sig # view
    <2>1. /\ sig = view /\ dialog = view /\ ~alert /\ ~deny /\ ~asked
          /\ tracked = [NoPrompt EXCEPT !.sig = sig, !.since = 0] /\ AskStep(a, asked) = NoAsk
      BY <1>3, <1>7 DEF DialogAlertDue, DenyDue, IsQuestion, Tracked, AskStep
    <2>2. /\ tracked \in Perms /\ tracked.sig = view /\ tracked.since = 0 /\ ~tracked.alerted
      <3>1. tracked = [sig |-> view, since |-> 0, alerted |-> FALSE, denies |-> 0]
        BY <2>1 DEF NoPrompt
      <3>2. 0 \in Ages(Cap) /\ 0 \in 0..MaxDenies
        BY DEF Ages, None
      <3> HIDE DEF tracked
      <3> QED BY <1>7, <3>1, <3>2 DEF Perms
    <2>3. /\ perm' = tracked /\ ask' = NoAsk /\ judged' = NoDialog
          /\ pages' = (IF sample.text = view THEN pages ELSE {})
      BY <1>2, <2>1 DEF AskFires
    <2>4. seen' <= 1
      BY <1>1, <1>5, <1>7, <2>1 DEF SeenCounted, HistoryTyped
    <2>5. PpTypeOK'
      BY <1>2, <2>2, <2>3, NothingTracked DEF PpTypeOK, Perms, Asks
    <2>6. PagesOfSample'
      BY <1>4, <1>7, <2>3 DEF PagesOfSample
    <2>7. SeenCounted'
      BY <1>2, <1>4, <1>5, <1>7, <2>1, <2>2, <2>3, <2>4 DEF SeenCounted, HistoryTyped
    <2> QED BY <1>2, <1>4, <1>5, <1>7, <2>2, <2>3, <2>5, <2>6, <2>7, NothingTracked
           DEF EscapeOnStale, HistoryTyped, DeclinesStale, PermOfSample, AskOfSample, None
  <1>8. CASE view \in Prompts /\ p.sig = view
    <2>1. /\ sig = view /\ dialog = view /\ ~asked /\ tracked = p /\ AskStep(a, asked) = NoAsk
          /\ ~AskFires(a, asked) /\ sample.text = view
      BY <1>1, <1>3, <1>8 DEF IsQuestion, Tracked, AskStep, AskFires, PermOfSample
    <2>2. /\ perm.since # None /\ p.since # None /\ p.since \in 0..Cap /\ p.since <= sample'.age
          /\ p.since = perm.since + 1 \/ (p.since = Cap /\ perm.since = Cap)
          /\ p.alerted => "perm" \in pages
          /\ perm.since \in Int /\ perm.since >= 0
      BY <1>1, <1>4, <1>8, <2>1, TickTyped DEF PermOfSample, Older, Least, HistoryTyped, Ages, None
    <2>3. ask' = NoAsk
      <3>1. ask.since = None /\ ~ask.alerted
        BY <1>8, <2>1 DEF AskOfSample
      <3>2. a = NoAsk
        BY <1>1, <3>1, TickTyped DEF Asks, NoAsk
      <3> QED BY <1>2, <2>1, <3>2
    <2>4. /\ perm' \in Perms /\ perm'.sig = view /\ perm'.since = p.since
          /\ p.alerted \/ alert => perm'.alerted
          /\ perm'.alerted => p.alerted \/ alert
          /\ deny => perm'.denies > 0 /\ p.since >= DenyAfter
          /\ pages' = pages \cup (IF alert THEN {"perm"} ELSE {})
      <3>1. CASE alert
        <4>1. perm' = [p EXCEPT !.alerted = TRUE] /\ ~deny
          BY <1>2, <2>1, <3>1 DEF DenyDue
        <4> QED BY <1>1, <1>2, <1>8, <2>1, <3>1, <4>1 DEF Perms
      <3>2. CASE ~alert /\ deny
        <4>1. perm' = [p EXCEPT !.denies = p.denies + 1] /\ p.denies < MaxDenies /\ p.since >= DenyAfter
          BY <1>2, <2>1, <3>2 DEF DenyDue
        <4>2. p.denies + 1 \in 0..MaxDenies /\ p.denies + 1 > 0
          BY <1>1, <4>1 DEF Perms
        <4> QED BY <1>1, <1>2, <1>8, <2>1, <3>2, <4>1, <4>2 DEF Perms
      <3>3. CASE ~alert /\ ~deny
        BY <1>1, <1>2, <1>8, <2>1, <3>3 DEF Perms
      <3> QED BY <3>1, <3>2, <3>3
    <2>5. ~perm'.alerted => p.since < AlertAfter
      BY <1>8, <2>1, <2>2, <2>4 DEF DialogAlertDue
    <2>6. judged' \in {view, NoDialog} /\ (judged' # NoDialog => deny)
      BY <1>2, <2>1
    <2>7. PpTypeOK'
      BY <1>2, <1>8, <2>3, <2>4, <2>6, NothingTracked DEF PpTypeOK, Perms, Asks
    <2>8. DeclinesStale' /\ PermOfSample'
      BY <1>4, <2>2, <2>4, <2>6 DEF DeclinesStale, PermOfSample
    <2>9. PagesOfSample'
      BY <1>4, <1>8, <2>1, <2>4 DEF PagesOfSample
    <2>10. SeenCounted'
      <3>1. ~perm'.alerted /\ seen > 0 => seen <= perm.since + 1 \/ seen <= 1
        BY <1>1, <1>8, <2>1, <2>4 DEF SeenCounted
      <3>2. ~perm'.alerted => seen' <= 1 \/ seen' <= p.since + 1
        BY <1>5, <2>2, <2>5, <3>1 DEF HistoryTyped
      <3> QED BY <1>2, <1>4, <1>5, <1>8, <2>1, <2>4, <2>5, <3>2 DEF SeenCounted
    <2> QED BY <1>2, <1>4, <1>5, <2>3, <2>7, <2>8, <2>9, <2>10, NothingTracked
           DEF EscapeOnStale, HistoryTyped, AskOfSample
  <1>9. CASE view = "ask"
    <2>1. /\ sig = NoDialog /\ dialog = view /\ asked /\ ~alert /\ ~deny /\ tracked = NoPrompt
      BY <1>3, <1>9 DEF DialogAlertDue, DenyDue, IsQuestion, Tracked
    <2>2. /\ perm' = NoPrompt /\ judged' = NoDialog
          /\ ask' = [since |-> IF a.since = None THEN 0 ELSE a.since, alerted |-> a.alerted \/ Since(a.since, AskStale)]
          /\ pages' = (IF sample.text = view THEN pages ELSE {})
                        \cup (IF ~a.alerted /\ Since(a.since, AskStale) THEN {"ask"} ELSE {})
      BY <1>2, <2>1 DEF AskStep, AskFires
    <2>3. /\ ask' \in Asks /\ ask'.since # None /\ ask'.since \in Int
          /\ ask'.since = (IF a.since = None THEN 0 ELSE a.since)
          /\ ask'.alerted <=> (a.alerted \/ Since(a.since, AskStale))
      <3> DEFINE since == IF a.since = None THEN 0 ELSE a.since
      <3>1. since \in Ages(AskStale) /\ since # None /\ since \in Int
        BY <1>1 DEF Ages, None
      <3>2. CASE a.alerted \/ Since(a.since, AskStale)
        <4>1. ask' = [since |-> since, alerted |-> TRUE]
          BY <2>2, <3>2
        <4> QED BY <3>1, <3>2, <4>1 DEF Asks
      <3>3. CASE ~(a.alerted \/ Since(a.since, AskStale))
        <4>1. ask' = [since |-> since, alerted |-> FALSE]
          BY <2>2, <3>3
        <4> QED BY <3>1, <3>3, <4>1 DEF Asks
      <3> QED BY <3>2, <3>3
    <2>4. ask'.alerted => "ask" \in pages'
      BY <1>1, <2>2, <2>3, TickTyped, <1>9 DEF AskOfSample
    <2>5. PagesOfSample'
      BY <1>4, <1>9, <2>2 DEF PagesOfSample
    <2>6. SeenCounted'
      <3> SUFFICES ASSUME seen' > 1, ~ask'.alerted
                   PROVE seen' <= ask'.since + 1 /\ ask'.since < AskStale
        BY <1>2, <1>4, <1>5, <1>9, <2>1, <2>3 DEF SeenCounted
      <3>1. seen > 0 /\ ask.since # None /\ (seen <= 1 \/ seen <= ask.since + 1)
        BY <1>1, <1>5, <1>9, <2>1, <2>3 DEF SeenCounted, HistoryTyped
      <3>2. a.since # None /\ a.since \in Int /\ a.since < AskStale /\ a.since >= 0
        BY <1>1, <2>3, <3>1, TickTyped DEF Since, Ages, None
      <3>3. a.since = ask.since + 1
        BY <1>1, <3>1, <3>2, TickTyped
      <3>4. ask.since >= 0 /\ ask.since \in Int
        BY <3>1 DEF Ages, None
      <3>5. ask'.since = a.since
        BY <2>3, <3>2
      <3> QED BY <1>5, <3>1, <3>2, <3>3, <3>4, <3>5 DEF HistoryTyped
    <2>7. PpTypeOK'
      BY <1>2, <2>2, <2>3, NothingTracked DEF PpTypeOK, Perms, Asks
    <2> QED BY <1>2, <1>4, <1>5, <1>9, <2>2, <2>3, <2>4, <2>5, <2>6, <2>7, NothingTracked
           DEF EscapeOnStale, HistoryTyped, DeclinesStale, PermOfSample, AskOfSample
  <1> QED BY <1>3, <1>6, <1>7, <1>8, <1>9 DEF Dialogs

LEMMA PpStepInv == ASSUME PpInv, [PpNext]_ppVars PROVE PpInv'
  <1> USE PromptConstants, PpTyped DEF PpInv
  <1>1. ASSUME NEW sight \in PromptSights, PpPass(sight) PROVE PpInv'
    BY <1>1, SkippedInv, LookedInv
  <1>2. CASE ConfirmDeny
    <2>1. /\ judged' = NoDialog /\ ask' = NoAsk /\ sample' = sample /\ pages' = pages
          /\ judged \in Prompts /\ perm.sig = judged /\ sample.text = judged /\ sample.age >= DenyAfter
      BY <1>2 DEF ConfirmDeny, DeclinesStale, PermOfSample
    <2>2. /\ (perm' = perm /\ (seen' > 0 => dialog' = dialog)) \/ (perm' = NoPrompt /\ (seen' > 0 => dialog' = dialog /\ dialog' \notin Prompts))
          /\ seen' \in {seen, 0} /\ dialog' \in Dialogs /\ ~struck'
          /\ ~(seen' > 0 /\ dialog' = "ask")
      <3>1. CASE dialog = judged
        <4>1. /\ dialog' \in {dialog, NoDialog} \cup Prompts
              /\ perm' = (IF dialog' \in Prompts THEN perm ELSE NoPrompt)
              /\ struck' = (struck \/ sample.text # dialog \/ sample.age < DenyAfter)
              /\ seen' = (IF dialog' = dialog THEN seen ELSE 0)
          BY <1>2, <3>1 DEF ConfirmDeny, Stable
        <4>2. ~struck'
          <5>1. ~struck /\ sample.text = dialog /\ ~(sample.age < DenyAfter)
            BY <2>1, <3>1 DEF EscapeOnStale, HistoryTyped
          <5> QED BY <4>1, <5>1
        <4> QED BY <2>1, <3>1, <4>1, <4>2 DEF Dialogs, HistoryTyped
      <3>2. CASE dialog # judged
        <4>1. UNCHANGED <<dialog, perm, struck, seen>>
          BY <1>2, <3>2 DEF ConfirmDeny, Stable
        <4> QED BY <2>1, <4>1 DEF SeenCounted, HistoryTyped, EscapeOnStale
      <3> QED BY <3>1, <3>2
    <2>3. PpTypeOK'
      BY <2>1, <2>2, NothingTracked DEF PpTypeOK, Perms, Asks
    <2>4. SeenCounted'
      BY <2>1, <2>2 DEF SeenCounted, HistoryTyped
    <2> QED BY <2>1, <2>2, <2>3, <2>4, NothingTracked
           DEF EscapeOnStale, HistoryTyped, DeclinesStale, PermOfSample, AskOfSample, PagesOfSample
  <1>3. CASE DialogMoves
    BY <1>3 DEF DialogMoves, PpTypeOK, EscapeOnStale, HistoryTyped, DeclinesStale, PermOfSample,
               AskOfSample, PagesOfSample, SeenCounted
  <1>4. CASE PpRestart
    <2>1. /\ judged' = NoDialog /\ perm' = [perm EXCEPT !.denies = perm.denies - 1]
          /\ perm.denies - 1 \in 0..MaxDenies
          /\ UNCHANGED <<dialog, ask, sample, seen, pages, struck>>
      BY <1>4 DEF PpRestart, DeclinesStale
    <2>2. /\ perm' \in Perms /\ perm'.sig = perm.sig /\ perm'.since = perm.since /\ perm'.alerted = perm.alerted
      BY <2>1 DEF Perms
    <2>3. PpTypeOK'
      BY <2>1, <2>2 DEF PpTypeOK, Perms
    <2> QED BY <2>1, <2>2, <2>3
           DEF EscapeOnStale, HistoryTyped, DeclinesStale, PermOfSample, AskOfSample, PagesOfSample, SeenCounted
  <1>5. CASE UNCHANGED ppVars
    BY <1>5 DEF ppVars, PpTypeOK, EscapeOnStale, HistoryTyped, DeclinesStale, PermOfSample,
               AskOfSample, PagesOfSample, SeenCounted
  <1> QED BY <1>1, <1>2, <1>3, <1>4, <1>5 DEF PpNext

LEMMA PpInvGood == PpInv => PpGood
  <1> SUFFICES ASSUME PpInv PROVE PpGood
    OBVIOUS
  <1> USE PromptConstants, PpTyped DEF PpInv
  <1>1. OnePagePerDialog
    BY DEF OnePagePerDialog, PagesOfSample
  <1>2. DialogTold
    <2> SUFFICES ASSUME seen > InTime PROVE pages # {}
      BY DEF DialogTold
    <2>1. CASE dialog \in Prompts
      <3>1. perm.sig = dialog /\ perm.alerted
        BY <2>1 DEF SeenCounted, HistoryTyped, Ages
      <3> QED BY <2>1, <3>1 DEF PermOfSample
    <2>2. CASE dialog = "ask"
      <3>1. ask.alerted
        BY <2>2 DEF SeenCounted, HistoryTyped, Ages
      <3> QED BY <3>1 DEF AskOfSample
    <2> QED BY <2>1, <2>2 DEF SeenCounted, HistoryTyped, Dialogs
  <1> QED BY <1>1, <1>2 DEF PpGood

LEMMA PpAlways == PpSpec => []PpGood
  BY PpInitInv, PpStepInv, PpInvGood, PTL DEF PpSpec

-----------------------------------------------------------------------------
(* AutoRespawn.  Unless a respawn was left unfinished, the last one is        *)
(* stamped no earlier than its kill; and a pass that leaves a hung session    *)
(* alone has an unchanged pane that is counted since the first of them.       *)
KillStamped ==
    killed # None /\ ~halted /\ stage # "launch" => respawned # None /\ respawned <= killed
CountedStill ==
    /\ ignored \in Nat
    /\ stage # "watch" => ignored = 0
    /\ SignalsRequired <= 2 /\ ignored > 0 => still # None /\ ignored <= still + 1
RsGood == RsTypeOK /\ RespawnsApart /\ HungRespawned
RsInv ==
    /\ RsTypeOK /\ RespawnsApart /\ KillStamped /\ CountedStill
    /\ killed \in Ages(RespawnCooldown) /\ halted \in BOOLEAN

LEMMA RespawnConstants ==
    /\ "heartbeat" \in NonPane /\ IsFiniteSet(NonPane)
    /\ SignalsRequired \in Nat /\ SignalWindow \in Nat /\ RespawnCooldown \in Nat /\ UnchangedFor \in Nat
  BY RespawnAssumption

LEMMA ForgottenTyped == Forgotten \in [HangSignal -> Ages(SignalWindow)] /\ None \in Ages(UnchangedFor)
                        /\ 0 \in Ages(RespawnCooldown) /\ 0 # None
  BY RespawnConstants DEF Forgotten, Ages, None

LEMMA RsInitInv == RsInit => RsInv
  <1> SUFFICES ASSUME RsInit PROVE RsInv
    OBVIOUS
  <1>1. None \in Ages(RespawnCooldown) /\ killed = None /\ stage = "watch" /\ ignored = 0
    BY RespawnConstants DEF Ages, None, RsInit
  <1>2. RsTypeOK
    BY <1>1, ForgottenTyped DEF RsInit, RsTypeOK
  <1>3. RespawnsApart /\ halted \in BOOLEAN
    BY <1>1 DEF RsInit, RespawnsApart
  <1>4. KillStamped
    BY <1>1 DEF KillStamped
  <1>5. CountedStill
    BY <1>1 DEF CountedStill
  <1> QED BY <1>1, <1>2, <1>3, <1>4, <1>5 DEF RsInv

(* Two signals are enough for a respawn that needs no more. *)
LEMMA TwoSignals ==
    ASSUME SignalsRequired <= 2, NEW history, history["heartbeat"] # None, history["pane"] # None
    PROVE  Cardinality(DistinctActive(history)) >= SignalsRequired
  <1> DEFINE S == DistinctActive(history)
             T == {"heartbeat", "pane"}
  <1>1. IsFiniteSet(HangSignal)
    BY RespawnConstants, FS_AddElement DEF HangSignal
  <1>2. IsFiniteSet(S)
    BY <1>1, FS_Subset DEF DistinctActive
  <1>3. T \subseteq S
    BY RespawnConstants DEF DistinctActive, HangSignal
  <1>4. Cardinality(T) = 2
    <2>1. IsFiniteSet({"heartbeat"}) /\ Cardinality({"heartbeat"}) = 1
      BY FS_Singleton
    <2>2. Cardinality({"heartbeat"} \cup {"pane"}) = 2
      BY <2>1, FS_AddElement
    <2>3. T = {"heartbeat"} \cup {"pane"}
      OBVIOUS
    <2> QED BY <2>2, <2>3
  <1>5. Cardinality(T) <= Cardinality(S) /\ Cardinality(S) \in Nat
    BY <1>2, <1>3, FS_Subset, FS_CardinalityType
  <1> QED BY <1>4, <1>5, RespawnConstants

LEMMA RsPassInv == ASSUME RsInv, NEW sight \in RespawnSights, RsPass(sight) PROVE RsInv'
  <1> USE RespawnConstants, ForgottenTyped DEF RsInv, RsTypeOK
  <1> DEFINE history == Observed(sight)
             last == Older(respawned, RespawnCooldown)
             goes == ShouldRespawn(sight, history, last) /\ sight.claim
             age == Older(still, UnchangedFor)
  <1>1. /\ last \in Ages(RespawnCooldown) /\ (respawned = None <=> last = None)
        /\ respawned # None => last = respawned + 1 \/ (last = RespawnCooldown /\ respawned = RespawnCooldown)
        /\ killed' = Older(killed, RespawnCooldown) /\ killed' \in Ages(RespawnCooldown)
        /\ killed = None <=> killed' = None
        /\ killed # None => killed' = killed + 1 \/ (killed' = RespawnCooldown /\ killed = RespawnCooldown)
        /\ age \in Ages(UnchangedFor) /\ (still = None <=> age = None)
        /\ still # None => age = still + 1 \/ (age = UnchangedFor /\ still = UnchangedFor)
    BY TickTyped DEF RsPass
  <1>2. history \in [HangSignal -> Ages(SignalWindow)]
    <2> SUFFICES ASSUME NEW s \in HangSignal
                 PROVE  Older(hang[s], SignalWindow + 1) > SignalWindow
                        \/ Older(hang[s], SignalWindow + 1) \in Ages(SignalWindow)
      BY DEF Observed, Ages, None
    <2>1. hang[s] \in Ages(SignalWindow)
      OBVIOUS
    <2> QED BY <2>1 DEF Older, Least, Ages, None
  <1>3. /\ stage = "watch" /\ stage' = (IF goes THEN "kill" ELSE "watch")
        /\ hang' = (IF goes THEN hang ELSE history)
        /\ still' = (IF goes THEN still ELSE StillSince(sight, age))
        /\ respawned' = last /\ found' \in BOOLEAN /\ UNCHANGED <<host, halted>>
    BY DEF RsPass
  <1>4. StillSince(sight, age) \in Ages(UnchangedFor)
    BY <1>1 DEF StillSince, Ages, None
  <1> HIDE DEF history, age
  <1>5. RsTypeOK'
    BY <1>1, <1>2, <1>3, <1>4
  <1>6. goes => last = None \/ last >= RespawnCooldown
    BY DEF ShouldRespawn
  <1>7. KillStamped' /\ RespawnsApart'
    BY <1>1, <1>3, <1>6 DEF KillStamped, RespawnsApart, Ages, None
  <1>8. CountedStill'
    <2>1. CASE ignored' = 0
      BY <2>1 DEF CountedStill
    <2>2. CASE ignored' # 0
      <3>1. /\ host = "hung" /\ sight.capture = "same" /\ "heartbeat" \in sight.raised
            /\ ~sight.subagents /\ sight.claim /\ ~goes /\ ignored' = ignored + 1
            /\ last # None => last >= RespawnCooldown
        BY <2>2 DEF RsPass, history
      <3>2. stage' = "watch" /\ ignored' \in Nat
        BY <1>3, <3>1 DEF CountedStill
      <3>3. ASSUME SignalsRequired <= 2 PROVE still' # None /\ ignored' <= still' + 1
        <4>1. ~PaneFires(sight, age)
          <5> SUFFICES ASSUME PaneFires(sight, age) PROVE FALSE
            OBVIOUS
          <5>1. history["heartbeat"] = 0 /\ history["pane"] = 0
            BY <3>1 DEF history, Observed, HangSignal, age
          <5>2. Cardinality(DistinctActive(history)) >= SignalsRequired
            <6>1. history["heartbeat"] # None /\ history["pane"] # None
              BY <5>1, ForgottenTyped
            <6> QED BY <3>3, <6>1, TwoSignals
          <5> QED BY <3>1, <5>2 DEF ShouldRespawn
        <4>2. age = None \/ age < UnchangedFor
          BY <1>1, <3>1, <4>1 DEF PaneFires, Ages, None
        <4>3. still' = (IF age # None THEN age ELSE 0)
          BY <1>3, <3>1 DEF StillSince
        <4>4. CASE age = None
          BY <1>1, <3>1, <3>3, <4>3, <4>4 DEF CountedStill
        <4>5. CASE age # None
          BY <1>1, <3>1, <3>3, <4>2, <4>3, <4>5 DEF CountedStill, Ages, None
        <4> QED BY <4>4, <4>5
      <3> QED BY <3>2, <3>3 DEF CountedStill
    <2> QED BY <2>1, <2>2
  <1> QED BY <1>1, <1>3, <1>5, <1>7, <1>8

LEMMA RsStepInv == ASSUME RsInv, [RsNext]_rsVars PROVE RsInv'
  <1> USE RespawnConstants, ForgottenTyped
      DEF RsInv, RsTypeOK, RespawnsApart, KillStamped, CountedStill
  <1>1. CASE RespawnAborts
    BY <1>1 DEF RespawnAborts, Stamp, Ages, None
  <1>2. CASE RespawnKills
    BY <1>2 DEF RespawnKills
  <1>3. ASSUME NEW starts \in BOOLEAN, RespawnLaunches(starts) PROVE RsInv'
    <2>1. /\ stage = "launch" /\ stage' = "watch" /\ respawned' = 0 /\ hang' = Forgotten /\ still' = None
          /\ found' = FALSE /\ UNCHANGED <<killed, halted, ignored>> /\ host' \in {"well", host}
      BY <1>3 DEF RespawnLaunches, Stamp
    <2>2. killed # None => killed >= 0
      BY DEF Ages, None
    <2>3. RsTypeOK' /\ RespawnsApart'
      BY <2>1
    <2>4. KillStamped'
      BY <2>1, <2>2
    <2>5. CountedStill'
      BY <2>1
    <2> QED BY <2>1, <2>3, <2>4, <2>5
  <1>4. CASE RsRestart
    BY <1>4 DEF RsRestart
  <1>5. CASE HostMoves
    BY <1>5 DEF HostMoves
  <1>6. CASE UNCHANGED rsVars
    BY <1>6 DEF rsVars
  <1> QED BY <1>1, <1>2, <1>3, <1>4, <1>5, <1>6, RsPassInv DEF RsNext

LEMMA RsAlways == RsSpec => []RsGood
  <1>1. RsInv => RsGood
    BY RespawnConstants DEF RsInv, RsGood, HungRespawned, CountedStill, RsTypeOK, Ages, None
  <1> QED BY RsInitInv, RsStepInv, <1>1, PTL DEF RsSpec

-----------------------------------------------------------------------------
(* AutoUpdate.  A pane that is not a shell had its session started; the task *)
(* is past its wait only for a session that was; and each pass that left a   *)
(* cleared session at its prompt was counted as an idle check.               *)
StartedOnce == (pane # "down" => booted) /\ (task \in {"settle", "resume"} => booted)
ChecksCounted == stranded \in Nat /\ stranded <= mem.idle
AuGood == AuTypeOK /\ NotIntoShell /\ StrandedResumed
AuInv == AuGood /\ StartedOnce /\ ChecksCounted /\ booted \in BOOLEAN

UpdateMems == [updating : BOOLEAN, attempt : Ages(AttemptCap), high : BOOLEAN,
         clear : Ages(ClearWindow), done : BOOLEAN, idle : 0..IdleChecks]
UpdatePanes == {"live", "idle", "low", "consent", "picker", "boot", "down"}

LEMMA UpdateConstants ==
    /\ UpdateCooldown \in Nat /\ StaleAfter \in Nat /\ ClearWindow \in Nat /\ IdleChecks \in Nat
    /\ AttemptCap \in Nat
  BY UpdateAssumption DEF AttemptCap

LEMMA AuInitInv == AuInit => AuInv
  <1> SUFFICES ASSUME AuInit PROVE AuInv
    OBVIOUS
  <1>1. mem \in UpdateMems /\ mem.idle = 0
    <2>1. None \in Ages(AttemptCap) /\ None \in Ages(ClearWindow) /\ 0 \in 0..IdleChecks
      BY UpdateConstants DEF Ages, None
    <2> QED BY <2>1 DEF AuInit, UpdateMems
  <1>2. AuTypeOK
    BY <1>1 DEF AuInit, AuTypeOK, UpdateMems
  <1> QED BY <1>1, <1>2 DEF AuInit, AuInv, AuGood, NotIntoShell, StrandedResumed, StartedOnce, ChecksCounted

(* What a pass observes changes the clear and nothing that it counts. *)
LEMMA ObservesTyped ==
    ASSUME AuTypeOK, NEW sight \in PassSights
    PROVE  LET m == Observes(sight, MemAged) IN m \in UpdateMems /\ m.idle = mem.idle
  <1>1. MemAged \in UpdateMems /\ MemAged.idle = mem.idle
    <2>1. Older(mem.attempt, AttemptCap) \in Ages(AttemptCap) /\ Older(mem.clear, ClearWindow) \in Ages(ClearWindow)
      BY UpdateConstants, TickTyped DEF AuTypeOK
    <2> QED BY <2>1 DEF MemAged, AuTypeOK, UpdateMems
  <1>2. 0 \in Ages(ClearWindow) /\ ReadsLow(sight) \in BOOLEAN
    BY UpdateConstants DEF Ages, None, ReadsLow, PassSights
  <1>3. CASE ReadsLow(sight) /\ MemAged.high
    <2>1. Observes(sight, MemAged) = [MemAged EXCEPT !.high = FALSE, !.clear = 0, !.done = FALSE]
      BY <1>3 DEF Observes
    <2> QED BY <1>1, <1>2, <2>1 DEF UpdateMems
  <1>4. CASE ~(ReadsLow(sight) /\ MemAged.high)
    <2>1. Observes(sight, MemAged) = [MemAged EXCEPT !.high = ~ReadsLow(sight)]
      BY <1>4 DEF Observes
    <2> QED BY <1>1, <1>2, <2>1 DEF UpdateMems
  <1> QED BY <1>3, <1>4

LEMMA AuPassInv == ASSUME AuInv, NEW sight \in PassSights, AuPass(sight) PROVE AuInv'
  <1> USE UpdateConstants DEF AuInv, AuGood
  <1> DEFINE m == Observes(sight, MemAged)
             starts == IsUp(pane) /\ task = "none" /\ StartsUpdate(sight, m)
             reaches == IsUp(pane) /\ (sight.shells \/ ~ReadsLow(sight) \/ sight.low)
             resumes == reaches /\ ResumeDue(sight, m)
             begun == IF starts THEN [m EXCEPT !.updating = TRUE, !.attempt = 0] ELSE m
  <1>1. m \in UpdateMems /\ m.idle = mem.idle
    BY ObservesTyped
  <1> HIDE DEF m
  <1>2. /\ begun \in UpdateMems /\ begun.idle = m.idle /\ begun.clear = m.clear /\ begun.done = m.done
    <2>1. 0 \in Ages(AttemptCap)
      BY DEF Ages, None
    <2> QED BY <1>1, <2>1 DEF UpdateMems
  <1> HIDE DEF begun
  <1>3. /\ mem' = (IF ~reaches THEN m
                   ELSE IF resumes THEN [begun EXCEPT !.done = TRUE, !.idle = 0]
                   ELSE IF Gate(sight, begun) /\ AtPrompt(pane)
                   THEN [begun EXCEPT !.idle = Least(begun.idle + 1, IdleChecks)]
                   ELSE [begun EXCEPT !.idle = 0])
        /\ file' = [updating |-> mem'.updating, done |-> mem'.done]
        /\ task' = (IF starts /\ reaches THEN "stop" ELSE task)
        /\ pane' \in (IF resumes THEN {pane, "live"} ELSE {pane})
        /\ stranded' = (IF /\ pane = "low" /\ sight.shells /\ ~sight.acked /\ ~sight.clearing
                           /\ m.clear # None /\ m.clear < ClearWindow /\ ~m.done /\ ~resumes
                        THEN stranded + 1 ELSE 0)
        /\ UNCHANGED <<booted, raw, resumed>>
    BY DEF AuPass, m, begun
  <1>4. mem' \in UpdateMems
    <2>1. CASE ~reaches
      BY <1>1, <1>3, <2>1
    <2>2. CASE reaches /\ resumes
      <3>1. mem' = [begun EXCEPT !.done = TRUE, !.idle = 0]
        BY <1>3, <2>2
      <3>2. 0 \in 0..IdleChecks /\ TRUE \in BOOLEAN
        OBVIOUS
      <3> QED BY <1>2, <3>1, <3>2 DEF UpdateMems
    <2>3. CASE reaches /\ ~resumes /\ Gate(sight, begun) /\ AtPrompt(pane)
      <3>1. mem' = [begun EXCEPT !.idle = Least(begun.idle + 1, IdleChecks)]
        BY <1>3, <2>3
      <3>2. Least(begun.idle + 1, IdleChecks) \in 0..IdleChecks
        BY <1>2 DEF UpdateMems, Least
      <3> QED BY <1>2, <3>1, <3>2 DEF UpdateMems
    <2>4. CASE reaches /\ ~resumes /\ ~(Gate(sight, begun) /\ AtPrompt(pane))
      <3>1. mem' = [begun EXCEPT !.idle = 0]
        BY <1>3, <2>4
      <3> QED BY <1>2, <3>1 DEF UpdateMems
    <2> QED BY <2>1, <2>2, <2>3, <2>4
  <1>5. AuTypeOK'
    <2>1. file' \in [updating : BOOLEAN, done : BOOLEAN]
      BY <1>3, <1>4 DEF UpdateMems
    <2>2. pane' \in UpdatePanes /\ (pane' = "down" => pane = "down")
      BY <1>3 DEF AuTypeOK, UpdatePanes
    <2> QED BY <1>3, <1>4, <2>1, <2>2 DEF AuTypeOK, UpdateMems, UpdatePanes
  <1>6. StartedOnce' /\ NotIntoShell'
    BY <1>3 DEF StartedOnce, NotIntoShell, IsUp
  <1>7. ChecksCounted' /\ StrandedResumed'
    <2>1. CASE stranded' = 0
      BY <1>4, <2>1 DEF ChecksCounted, StrandedResumed, UpdateMems
    <2>2. CASE stranded' # 0
      <3>1. /\ pane = "low" /\ sight.shells /\ ~sight.acked /\ ~sight.clearing /\ m.clear # None
            /\ m.clear < ClearWindow /\ ~m.done /\ ~resumes /\ stranded' = stranded + 1
        BY <1>3, <2>2
      <3>2. /\ reaches /\ AtPrompt(pane) /\ Gate(sight, m) /\ Gate(sight, begun) /\ Within(m.clear, ClearWindow)
        BY <1>2, <3>1 DEF IsUp, AtPrompt, Gate, ReadsLow, Within
      <3>3. ~(m.idle + 1 >= IdleChecks)
        BY <3>1, <3>2 DEF ResumeDue
      <3>4. mem' = [begun EXCEPT !.idle = Least(begun.idle + 1, IdleChecks)]
        BY <1>3, <3>1, <3>2
      <3>5. mem'.idle = mem.idle + 1
        BY <1>1, <1>2, <3>3, <3>4 DEF Least, UpdateMems
      <3>6. mem.idle \in 0..IdleChecks
        BY DEF AuTypeOK
      <3> QED BY <1>1, <3>1, <3>3, <3>5, <3>6 DEF ChecksCounted, StrandedResumed
    <2> QED BY <2>1, <2>2
  <1> QED BY <1>3, <1>5, <1>6, <1>7

LEMMA AuStepInv == ASSUME AuInv, [AuNext]_auVars PROVE AuInv'
  <1> USE UpdateConstants
      DEF AuInv, AuGood, AuTypeOK, NotIntoShell, StrandedResumed, StartedOnce, ChecksCounted
  <1>1. ASSUME NEW sight \in PassSights, AuPass(sight) PROVE AuInv'
    BY <1>1, AuPassInv
  <1>2. CASE TaskStops
    <2>1. /\ pane' \in UpdatePanes /\ task' \in {"await", "exit"} /\ booted' = (pane' # "down")
          /\ stranded' = 0 /\ UNCHANGED <<mem, file, raw>>
      BY <1>2 DEF TaskStops, UpdatePanes
    <2>2. booted' \in BOOLEAN /\ (pane' # "down" => booted')
      BY <2>1
    <2> QED BY <2>1, <2>2 DEF UpdatePanes
  <1>3. CASE TaskExits
    BY <1>3 DEF TaskExits, Fail
  <1>4. CASE TaskLaunches
    BY <1>4 DEF TaskLaunches, Fail
  <1>5. CASE TaskAwaits
    BY <1>5 DEF TaskAwaits, Fail, Awaited, IsUp
  <1>6. CASE TaskSettles
    BY <1>6 DEF TaskSettles, Fail
  <1>7. CASE TaskResumes
    BY <1>7 DEF TaskResumes, AtPrompt
  <1>8. CASE TaskEnds
    BY <1>8 DEF TaskEnds
  <1>9. CASE PaneMoves
    <2>1. /\ pane' \in UpdatePanes /\ booted' = (booted \/ pane' # "down")
          /\ stranded' = 0 /\ UNCHANGED <<task, mem, file, raw>>
      <3>1. pane' \in UpdatePanes
        BY <1>9 DEF PaneMoves, UpdatePanes
      <3> QED BY <1>9, <3>1 DEF PaneMoves
    <2>2. booted' \in BOOLEAN /\ (pane' # "down" => booted') /\ (booted => booted')
      BY <2>1
    <2> QED BY <2>1, <2>2 DEF UpdatePanes
  <1>10. CASE AuRestart
    <2>1. mem' = [mem EXCEPT !.updating = file.updating, !.done = file.done]
      BY <1>10 DEF AuRestart
    <2>2. mem \in UpdateMems /\ file.updating \in BOOLEAN /\ file.done \in BOOLEAN
      BY DEF UpdateMems
    <2>3. mem' \in UpdateMems
      BY <2>1, <2>2 DEF UpdateMems
    <2>4. task' = "none" /\ stranded' = 0 /\ UNCHANGED <<pane, file, booted, raw>>
      BY <1>10 DEF AuRestart
    <2>5. mem'.idle \in 0..IdleChecks
      BY <2>3 DEF UpdateMems
    <2>6. AuTypeOK'
      BY <2>3, <2>4 DEF UpdateMems
    <2> QED BY <2>4, <2>5, <2>6
  <1>11. CASE UNCHANGED auVars
    BY <1>11 DEF auVars
  <1> QED BY <1>1, <1>2, <1>3, <1>4, <1>5, <1>6, <1>7, <1>8, <1>9, <1>10, <1>11 DEF AuNext, Task

LEMMA AuAlways == AuSpec => []AuGood
  <1>1. AuInv => AuGood
    BY DEF AuInv
  <1> QED BY AuInitInv, AuStepInv, <1>1, PTL DEF AuSpec

-----------------------------------------------------------------------------
(* A bounded set of numbers has a greatest one. *)
LEMMA GreatestNat ==
    ASSUME NEW n \in Nat, NEW S, S \subseteq 0..n, S # {}
    PROVE  \E x \in S : \A y \in S : y <= x
  <1> DEFINE R == OpToRel(<, Nat)
             T == {n - x : x \in S}
  <1>1. IsWellFoundedOn(R, Nat)
    BY NatLessThanWellFounded, Zenon
  <1>2. T \subseteq Nat /\ T # {}
    <2>1. \A x \in S : n - x \in Nat
      <3> SUFFICES ASSUME NEW x \in S PROVE n - x \in Nat
        OBVIOUS
      <3>1. x \in Nat /\ x <= n
        OBVIOUS
      <3> QED BY <3>1
    <2>2. T \subseteq Nat
      BY <2>1, Zenon
    <2>3. PICK x \in S : TRUE
      OBVIOUS
    <2>4. n - x \in T
      BY <2>3
    <2> QED BY <2>2, <2>4
  <1>3. PICK t \in T : \A u \in T : ~(<<u, t>> \in R)
    <2> HIDE DEF R, T
    <2> QED BY <1>1, <1>2, WFMin
  <1>4. \A u \in T : ~(u < t)
    <2> HIDE DEF T
    <2> QED BY <1>2, <1>3 DEF OpToRel
  <1>5. PICK x \in S : t = n - x
    OBVIOUS
  <1>6. ASSUME NEW y \in S PROVE y <= x
    <2>1. ~(n - y < n - x)
      BY <1>4, <1>5
    <2> QED BY <2>1
  <1> QED BY <1>6

(* A set of numbers that is not empty has a least one. *)
LEMMA LeastNat ==
    ASSUME NEW S, S \subseteq Nat, S # {}
    PROVE  \E x \in S : \A y \in S : x <= y
  <1>1. IsWellFoundedOn(OpToRel(<, Nat), Nat)
    BY NatLessThanWellFounded, Zenon
  <1>2. PICK x \in S : \A y \in S : ~(<<y, x>> \in OpToRel(<, Nat))
    BY <1>1, WFMin
  <1>3. \A y \in S : ~(y < x)
    BY <1>2 DEF OpToRel
  <1> QED BY <1>3

-----------------------------------------------------------------------------
(* ScreenReading.  What an earlier turn has left on the screen is followed by *)
(* the line that its answer ended with.                                       *)
Marks == {"thinking", "paren", "arrow", "tok", "kilo", "bullet", "rule", "prompt", "verb", "spinner",
          "completion", "still", "attempt", "apierror", "counter", "shells", "monitors", "marker", "overlay"}
DrawnLines == [marks : SUBSET Marks, number : {"none", "total", "turn", "agent", "prose"}]
PrintedLines == {Printed.text, Printed.echo, Printed.bullet, Printed.rule, Printed.stale,
                 Printed.prose, Printed.attempt, Printed.done, Printed.outlived}
Followed(s) == \A i \in 1..Len(s) : "thinking" \in s[i].marks
                   => i + 1 \in 1..Len(s) /\ "completion" \in s[i + 1].marks
RdInv ==
    /\ RdTypeOK /\ scroll \in Seq(PrintedLines) /\ Followed(scroll)

LEMMA PrintedMarks ==
    ASSUME NEW l \in PrintedLines
    PROVE  /\ l \in DrawnLines
           /\ "spinner" \notin l.marks /\ "apierror" \notin l.marks /\ "marker" \notin l.marks
           /\ "thinking" \in l.marks => l = Printed.stale
           /\ "tok" \in l.marks /\ "arrow" \notin l.marks => l.number = "prose"
           /\ "completion" \in l.marks => "rule" \notin l.marks
  <1>1. /\ Printed.text = [marks |-> {}, number |-> "none"]
        /\ Printed.echo = [marks |-> {"prompt"}, number |-> "none"]
        /\ Printed.bullet = [marks |-> {"bullet"}, number |-> "none"]
        /\ Printed.rule = [marks |-> {"rule"}, number |-> "none"]
        /\ Printed.stale = [marks |-> {"thinking", "paren", "arrow", "tok"}, number |-> "turn"]
        /\ Printed.prose = [marks |-> {"tok"}, number |-> "prose"]
        /\ Printed.attempt = [marks |-> {"attempt"}, number |-> "none"]
        /\ Printed.done = [marks |-> {"completion"}, number |-> "none"]
        /\ Printed.outlived = [marks |-> {"completion", "still"}, number |-> "none"]
    BY DEF Printed, Plain, Line
  <1>2. CASE l \in {Printed.text, Printed.echo, Printed.bullet}
    <2>1. l.marks \in {{}, {"prompt"}, {"bullet"}} /\ l = [marks |-> l.marks, number |-> "none"]
      BY <1>1, <1>2
    <2> QED BY <2>1 DEF DrawnLines, Marks
  <1>3. CASE l \in {Printed.rule, Printed.attempt, Printed.done, Printed.outlived}
    <2>1. /\ l.marks \in {{"rule"}, {"attempt"}, {"completion"}, {"completion", "still"}}
          /\ l = [marks |-> l.marks, number |-> "none"]
      BY <1>1, <1>3
    <2> QED BY <2>1 DEF DrawnLines, Marks
  <1>4. CASE l = Printed.stale
    BY <1>1, <1>4 DEF DrawnLines, Marks
  <1>5. CASE l = Printed.prose
    BY <1>1, <1>5 DEF DrawnLines, Marks
  <1> QED BY <1>2, <1>3, <1>4, <1>5 DEF PrintedLines

LEMMA SuffixIs ==
    ASSUME NEW S, NEW s \in Seq(S), NEW m \in 0..Len(s), NEW t, t = SubSeq(s, m + 1, Len(s))
    PROVE  t \in Seq(S) /\ Len(t) = Len(s) - m /\ \A i \in 1..Len(t) : t[i] = s[m + i]
  OBVIOUS

(* The last lines of a sequence. *)
Omitted(s, n) == IF Len(s) > n THEN Len(s) - n ELSE 0
Ending(s, n) == SubSeq(s, IF Len(s) > n THEN Len(s) - n + 1 ELSE 1, Len(s))
LEMMA LastOf ==
    ASSUME NEW S, NEW s \in Seq(S), NEW n \in Nat
    PROVE  /\ Ending(s, n) \in Seq(S) /\ Len(Ending(s, n)) <= n /\ Omitted(s, n) \in 0..Len(s)
           /\ Len(Ending(s, n)) = Len(s) - Omitted(s, n)
           /\ \A i \in 1..Len(Ending(s, n)) : Ending(s, n)[i] = s[Omitted(s, n) + i]
  <1> DEFINE t == Ending(s, n)
  <1>1. /\ Len(s) \in Nat /\ Omitted(s, n) \in 0..Len(s) /\ t = SubSeq(s, Omitted(s, n) + 1, Len(s))
        /\ Len(s) - Omitted(s, n) <= n
    BY DEF Omitted, Ending
  <1> HIDE DEF t
  <1>2. t \in Seq(S) /\ Len(t) = Len(s) - Omitted(s, n) /\ \A i \in 1..Len(t) : t[i] = s[Omitted(s, n) + i]
    <2> SUFFICES ASSUME NEW k \in 0..Len(s), NEW u, u = SubSeq(s, k + 1, Len(s))
                 PROVE  u \in Seq(S) /\ Len(u) = Len(s) - k /\ \A i \in 1..Len(u) : u[i] = s[k + i]
      BY <1>1
    <2> QED OBVIOUS
  <1> QED BY <1>1, <1>2 DEF t

LEMMA KeptFollowed ==
    ASSUME NEW s \in Seq(PrintedLines), Followed(s)
    PROVE  Kept(s) \in Seq(PrintedLines) /\ Len(Kept(s)) <= Scroll /\ Followed(Kept(s))
  <1> DEFINE t == Kept(s)
             m == Omitted(s, Scroll)
  <1>1. t = Ending(s, Scroll) /\ Scroll \in Nat
    BY ScreenAssumption DEF Kept, Ending
  <1> HIDE DEF t, m
  <1>2. /\ t \in Seq(PrintedLines) /\ Len(t) <= Scroll /\ m \in 0..Len(s)
        /\ Len(t) = Len(s) - m
        /\ \A i \in 1..Len(t) : t[i] = s[m + i]
    BY <1>1, LastOf DEF m
  <1>3. Len(t) = Len(s) - m /\ \A i \in 1..Len(t) : t[i] = s[m + i]
    BY <1>2
  <1>4. ASSUME NEW i \in 1..Len(t), "thinking" \in t[i].marks
        PROVE  i + 1 \in 1..Len(t) /\ "completion" \in t[i + 1].marks
    <2>1. m + i \in 1..Len(s) /\ "thinking" \in s[m + i].marks
      BY <1>2, <1>3, <1>4
    <2>2. (m + i) + 1 \in 1..Len(s) /\ "completion" \in s[(m + i) + 1].marks
      BY <2>1 DEF Followed
    <2>3. i + 1 \in 1..Len(t)
      BY <1>2, <1>3, <2>2
    <2>4. t[i + 1] = s[m + (i + 1)] /\ m + (i + 1) = (m + i) + 1
      BY <1>2, <1>3, <2>3
    <2> QED BY <2>2, <2>3, <2>4
  <1> QED BY <1>2, <1>4 DEF t, Followed

LEMMA AppendFollowed ==
    ASSUME NEW s \in Seq(PrintedLines), Followed(s), NEW l \in PrintedLines, l # Printed.stale
    PROVE  Append(s, l) \in Seq(PrintedLines) /\ Followed(Append(s, l))
  <1>1. "thinking" \notin l.marks
    BY PrintedMarks
  <1>2. /\ Append(s, l) \in Seq(PrintedLines) /\ Len(Append(s, l)) = Len(s) + 1 /\ Len(s) \in Nat
        /\ Append(s, l)[Len(s) + 1] = l /\ \A i \in 1..Len(s) : Append(s, l)[i] = s[i]
    OBVIOUS
  <1> DEFINE t == Append(s, l)
  <1> HIDE DEF t
  <1>3. ASSUME NEW i \in 1..Len(t), "thinking" \in t[i].marks
        PROVE  i + 1 \in 1..Len(t) /\ "completion" \in t[i + 1].marks
    <2>1. i \in 1..Len(s) /\ t[i] = s[i]
      BY <1>1, <1>2, <1>3 DEF t
    <2>2. i + 1 \in 1..Len(s) /\ "completion" \in s[i + 1].marks
      BY <1>3, <2>1 DEF Followed
    <2> QED BY <1>2, <2>2 DEF t
  <1> QED BY <1>2, <1>3 DEF t, Followed

LEMMA AnswerFollowed ==
    ASSUME NEW s \in Seq(PrintedLines), Followed(s), NEW l \in PrintedLines, "completion" \in l.marks
    PROVE  s \o (<<Printed.stale>> \o <<l>>) \in Seq(PrintedLines) /\ Followed(s \o (<<Printed.stale>> \o <<l>>))
  <1>1. "thinking" \notin l.marks /\ Printed.stale \in PrintedLines
    BY DEF PrintedLines, Printed, Plain, Line
  <1> DEFINE t == s \o (<<Printed.stale>> \o <<l>>)
  <1>2. /\ t \in Seq(PrintedLines) /\ Len(t) = Len(s) + 2 /\ Len(s) \in Nat /\ t[Len(s) + 2] = l
        /\ \A i \in 1..Len(s) : t[i] = s[i]
    BY <1>1
  <1> HIDE DEF t
  <1>3. ASSUME NEW i \in 1..Len(t), "thinking" \in t[i].marks
        PROVE  i + 1 \in 1..Len(t) /\ "completion" \in t[i + 1].marks
    <2>1. i # Len(s) + 2
      BY <1>1, <1>2, <1>3
    <2>2. CASE i = Len(s) + 1
      BY <1>2, <2>2
    <2>3. CASE i \in 1..Len(s)
      <3>1. i + 1 \in 1..Len(s) /\ "completion" \in s[i + 1].marks
        BY <1>2, <1>3, <2>3 DEF Followed
      <3> QED BY <1>2, <3>1
    <2> QED BY <1>2, <2>1, <2>2, <2>3
  <1> QED BY <1>2, <1>3 DEF t, Followed

LEMMA RdInitInv == RdInit => RdInv
  <1>1. ScreenAssumption => <<>> \in Seq(PrintedLines) /\ Followed(<<>>) /\ Len(<<>>) <= Scroll
    BY DEF Followed, ScreenAssumption
  <1>2. MaxAgents \in Nat
    BY ScreenAssumption
  <1> SUFFICES ASSUME RdInit PROVE RdInv
    OBVIOUS
  <1>3. agents \in [count : 0..MaxAgents, full : BOOLEAN]
    BY <1>2 DEF RdInit
  <1> QED BY <1>1, <1>3, ScreenAssumption DEF RdInit, RdInv, RdTypeOK

LEMMA RdStepInv == ASSUME RdInv, [RdNext]_rdVars PROVE RdInv'
  <1>1. CASE Submits
    <2>1. Printed.echo \in PrintedLines /\ Printed.echo # Printed.stale
      BY DEF PrintedLines, Printed, Plain, Line
    <2> QED BY <1>1, <2>1, AppendFollowed, KeptFollowed DEF Submits, RdInv, RdTypeOK, Working
  <1>2. ASSUME NEW next \in Working \ {"starting"},
               NEW kind \in {"text", "bullet", "rule", "prose", "attempt"}, Works(next, kind)
        PROVE  RdInv'
    <2>1. Printed[kind] \in PrintedLines /\ Printed[kind] # Printed.stale
      <3>1. /\ Printed["text"] # Printed.stale /\ Printed["bullet"] # Printed.stale
            /\ Printed["rule"] # Printed.stale /\ Printed["prose"] # Printed.stale
            /\ Printed["attempt"] # Printed.stale
        BY DEF Printed, Plain, Line
      <3> QED BY <3>1 DEF PrintedLines
    <2> QED BY <1>2, <2>1, AppendFollowed, KeptFollowed DEF Works, RdInv, RdTypeOK
  <1>3. ASSUME NEW stale \in BOOLEAN, NEW completes \in BOOLEAN, Ends(stale, completes) PROVE RdInv'
    <2> DEFINE l == IF background = "none" THEN Printed.done ELSE Printed.outlived
               t == scroll \o (IF stale THEN <<Printed.stale>> ELSE <<>>) \o (IF completes THEN <<l>> ELSE <<>>)
    <2>1. l \in PrintedLines /\ "completion" \in l.marks /\ l # Printed.stale
      BY DEF PrintedLines, Printed, Plain, Line
    <2>2. scroll' = Kept(t) /\ turn' = "rest" /\ (stale => completes)
      BY <1>3 DEF Ends
    <2>3. t \in Seq(PrintedLines) /\ Followed(t)
      <3> HIDE DEF l
      <3>1. CASE stale
        <4>1. t = scroll \o <<Printed.stale>> \o <<l>>
          BY <2>2, <3>1
        <4>2. Printed.stale \in PrintedLines
          BY DEF PrintedLines
        <4>3. scroll \o <<Printed.stale>> \o <<l>> = scroll \o (<<Printed.stale>> \o <<l>>)
          BY <2>1, <4>2 DEF RdInv
        <4> QED BY <2>1, <4>1, <4>3, AnswerFollowed DEF RdInv
      <3>2. CASE ~stale /\ completes
        <4>1. t = Append(scroll, l)
          BY <2>1, <3>2 DEF RdInv
        <4> QED BY <2>1, <4>1, AppendFollowed DEF RdInv
      <3>3. CASE ~stale /\ ~completes
        <4>1. t = scroll
          BY <3>3 DEF RdInv
        <4> QED BY <4>1 DEF RdInv
      <3> QED BY <3>1, <3>2, <3>3
    <2> HIDE DEF t
    <2> QED BY <1>3, <2>2, <2>3, KeptFollowed DEF Ends, RdInv, RdTypeOK
  <1>4. ASSUME NEW n \in 0..MaxAgents, NEW full \in BOOLEAN, AgentsChange(n, full) PROVE RdInv'
    BY <1>4 DEF AgentsChange, RdInv, RdTypeOK
  <1>5. ASSUME NEW next \in {"none", "shells", "monitors"}, BackgroundChanges(next) PROVE RdInv'
    BY <1>5 DEF BackgroundChanges, RdInv, RdTypeOK
  <1>6. CASE TotalFlips \/ OverlayFlips \/ UNCHANGED rdVars
    BY <1>6 DEF TotalFlips, OverlayFlips, rdVars, RdInv, RdTypeOK
  <1> QED BY <1>1, <1>2, <1>3, <1>4, <1>5, <1>6 DEF RdNext

-----------------------------------------------------------------------------
(* The screen, by its parts. *)
Lower == IF overlay THEN Panel ELSE Box \o Bar \o Roster

LEMMA WidgetLines ==
    ASSUME RdInv
    PROVE  /\ Widget \in Seq(DrawnLines)
           /\ turn = "rest" => Len(Widget) = 0
           /\ turn = "starting" => Len(Widget) = 1 /\ Widget[1] = Plain({"thinking", "paren", "verb"})
           /\ turn = "thinking" =>
                Len(Widget) = 1 /\ Widget[1] = Line({"thinking", "paren", "verb", "arrow", "tok"}, "turn")
           /\ turn = "tool" => Len(Widget) = 1 /\ Widget[1] = Plain({"spinner"})
           /\ turn = "writing" => Len(Widget) = 1 /\ Widget[1] = Plain({"bullet"})
           /\ turn = "retrying" =>
                Len(Widget) = 2 /\ Widget[1] = Plain({"apierror"}) /\ Widget[2] = Plain({"attempt"})
  <1>1. \A marks \in SUBSET Marks : Plain(marks) \in DrawnLines
    BY DEF Plain, Line, DrawnLines
  <1>2. Line({"thinking", "paren", "verb", "arrow", "tok"}, "turn") \in DrawnLines
    BY DEF Line, DrawnLines, Marks
  <1>3. /\ Plain({"thinking", "paren", "verb"}) \in DrawnLines /\ Plain({"spinner"}) \in DrawnLines
        /\ Plain({"bullet"}) \in DrawnLines /\ Plain({"apierror"}) \in DrawnLines
        /\ Plain({"attempt"}) \in DrawnLines
    BY <1>1 DEF Marks
  <1>4. CASE turn = "rest"
    BY <1>4 DEF Widget
  <1>5. CASE turn = "starting"
    BY <1>3, <1>5 DEF Widget
  <1>6. CASE turn = "thinking"
    BY <1>2, <1>6 DEF Widget
  <1>7. CASE turn = "tool"
    BY <1>3, <1>7 DEF Widget
  <1>8. CASE turn = "writing"
    BY <1>3, <1>8 DEF Widget
  <1>9. CASE turn = "retrying"
    BY <1>3, <1>9 DEF Widget
  <1> QED BY <1>4, <1>5, <1>6, <1>7, <1>8, <1>9 DEF RdInv, RdTypeOK, Working

Agent == Line({"bullet", "arrow", "tok"} \cup (IF agents.full THEN {} ELSE {"kilo"}), "agent")
Status == Line({"marker"} \cup Counter \cup (IF total THEN {"tok"} ELSE {}),
               IF total THEN "total" ELSE "none")

LEMMA Joined ==
    ASSUME NEW s \in Seq(DrawnLines), NEW t \in Seq(DrawnLines)
    PROVE  /\ s \o t \in Seq(DrawnLines) /\ Len(s \o t) = Len(s) + Len(t)
           /\ \A i \in 1..Len(s) : (s \o t)[i] = s[i]
           /\ \A i \in 1..Len(t) : (s \o t)[Len(s) + i] = t[i]
  OBVIOUS

LEMMA LowerLines ==
    ASSUME RdInv
    PROVE  /\ Lower \in Seq(DrawnLines)
           /\ overlay => /\ Len(Lower) = 2 /\ Lower[1] = Plain({"overlay"})
                         /\ Lower[2] = Plain({"overlay", "marker"} \cup Counter)
           /\ ~overlay =>
                /\ Lower[1] = Plain({"rule"}) /\ Lower[2] = Plain({"prompt"}) /\ Lower[3] = Plain({"rule"})
                /\ Lower[4] = Status
                /\ agents.count \in Nat
                /\ Len(Lower) = IF agents.count = 0 THEN 4 ELSE 5 + agents.count
                /\ agents.count # 0 => Lower[5] = Plain({"bullet"})
                /\ \A i \in 6..Len(Lower) : Lower[i] = Agent
  <1>1. Counter \subseteq Marks
    BY DEF Counter, Marks, RdInv, RdTypeOK
  <1>2. \A marks \in SUBSET Marks : Plain(marks) \in DrawnLines
    BY DEF Plain, Line, DrawnLines
  <1>3. Status \in DrawnLines /\ Agent \in DrawnLines
    BY <1>1 DEF Status, Agent, Line, DrawnLines, Marks
  <1>4. /\ Plain({"overlay"}) \in DrawnLines /\ Plain({"overlay", "marker"} \cup Counter) \in DrawnLines
        /\ Plain({"rule"}) \in DrawnLines /\ Plain({"prompt"}) \in DrawnLines /\ Plain({"bullet"}) \in DrawnLines
    BY <1>1, <1>2 DEF Marks
  <1>5. CASE overlay
    BY <1>4, <1>5 DEF Lower, Panel
  <1>6. CASE ~overlay
    <2>1. agents.count \in Nat
      BY ScreenAssumption DEF RdInv, RdTypeOK
    <2>2. Box \in Seq(DrawnLines) /\ Len(Box) = 3 /\ Box[1] = Plain({"rule"})
          /\ Box[2] = Plain({"prompt"}) /\ Box[3] = Plain({"rule"})
      BY <1>4 DEF Box
    <2>3. Bar = <<Status>> /\ Bar \in Seq(DrawnLines) /\ Len(Bar) = 1 /\ Bar[1] = Status
      BY <1>3 DEF Bar, Status
    <2> DEFINE rows == [i \in 1..agents.count |-> Agent]
    <2>4. rows \in Seq(DrawnLines) /\ Len(rows) = agents.count /\ \A i \in 1..agents.count : rows[i] = Agent
      BY <1>3, <2>1
    <2> DEFINE upper == Box \o Bar
    <2>7. /\ upper \in Seq(DrawnLines) /\ Len(upper) = 4 /\ upper[1] = Box[1] /\ upper[2] = Box[2]
          /\ upper[3] = Box[3] /\ upper[4] = Bar[1]
      <3>1. /\ upper \in Seq(DrawnLines) /\ Len(upper) = Len(Box) + Len(Bar)
            /\ \A i \in 1..Len(Box) : upper[i] = Box[i]
            /\ \A i \in 1..Len(Bar) : upper[Len(Box) + i] = Bar[i]
        BY <2>2, <2>3, Joined, Zenon
      <3> HIDE DEF upper
      <3> QED BY <2>2, <2>3, <3>1
    <2>5. CASE agents.count = 0
      <3>1. Roster = <<>>
        BY <2>5 DEF Roster
      <3>2. Lower = Box \o Bar
        BY <1>6, <2>2, <2>3, <3>1 DEF Lower
      <3>3. /\ Lower \in Seq(DrawnLines) /\ Len(Lower) = 4 /\ Lower[1] = Box[1] /\ Lower[2] = Box[2]
            /\ Lower[3] = Box[3] /\ Lower[4] = Bar[1]
        BY <2>7, <3>2
      <3> QED BY <1>6, <2>1, <2>2, <2>3, <2>5, <3>3
    <2>6. CASE agents.count # 0
      <3>1. Roster = <<Plain({"bullet"})>> \o rows
        BY <2>6 DEF Roster, Agent
      <3> HIDE DEF rows
      <3>2. /\ Roster \in Seq(DrawnLines) /\ Len(Roster) = agents.count + 1 /\ Roster[1] = Plain({"bullet"})
            /\ \A i \in 2..agents.count + 1 : Roster[i] = Agent
        BY <1>4, <2>1, <2>4, <3>1
      <3>4. Lower = (Box \o Bar) \o Roster
        BY <1>6 DEF Lower
      <3>5. /\ Lower \in Seq(DrawnLines) /\ Len(Lower) = 5 + agents.count /\ Lower[1] = Box[1] /\ Lower[2] = Box[2]
            /\ Lower[3] = Box[3] /\ Lower[4] = Bar[1] /\ Lower[5] = Roster[1]
            /\ \A i \in 6..Len(Lower) : Lower[i] = Roster[i - 4]
        <4>1. /\ Lower \in Seq(DrawnLines) /\ Len(Lower) = Len(upper) + Len(Roster)
              /\ \A i \in 1..Len(upper) : Lower[i] = upper[i]
              /\ \A i \in 1..Len(Roster) : Lower[Len(upper) + i] = Roster[i]
          BY <2>7, <3>2, <3>4, Joined, Zenon
        <4> HIDE DEF upper
        <4>2. ASSUME NEW i \in 6..Len(Lower) PROVE Lower[i] = Roster[i - 4]
          <5>1. i - 4 \in 1..Len(Roster) /\ 4 + (i - 4) = i
            BY <2>1, <2>7, <3>2, <4>1
          <5> QED BY <2>7, <4>1, <5>1
        <4>3. Len(Lower) = 5 + agents.count
          BY <2>1, <2>7, <3>2, <4>1
        <4>4. /\ Lower[1] = Box[1] /\ Lower[2] = Box[2] /\ Lower[3] = Box[3] /\ Lower[4] = Bar[1]
              /\ Lower[5] = Roster[1]
          <5>1. 1 \in 1..4 /\ 2 \in 1..4 /\ 3 \in 1..4 /\ 4 \in 1..4 /\ 4 + 1 = 5
            OBVIOUS
          <5>2. Lower[1] = upper[1] /\ Lower[2] = upper[2] /\ Lower[3] = upper[3] /\ Lower[4] = upper[4]
            BY <2>7, <4>1, <5>1
          <5>3. 1 \in 1..Len(Roster)
            BY <2>1, <3>2
          <5>4. Lower[5] = Roster[1]
            BY <2>7, <4>1, <5>1, <5>3
          <5> QED BY <2>7, <5>2, <5>4
        <4> QED BY <4>1, <4>2, <4>3, <4>4
      <3>6. \A i \in 6..Len(Lower) : Lower[i] = Agent
        <4>1. ASSUME NEW i \in 6..Len(Lower) PROVE Lower[i] = Agent
          <5>1. i - 4 \in 2..agents.count + 1
            <6>1. i \in 6..5 + agents.count
              BY <3>5
            <6> QED BY <2>1, <6>1
          <5> QED BY <3>2, <3>5, <5>1
        <4> QED BY <4>1
      <3> QED BY <1>6, <2>1, <2>2, <2>3, <2>6, <3>2, <3>5, <3>6
    <2> QED BY <2>5, <2>6
  <1> QED BY <1>5, <1>6

(* The lines of the screen, from above. *)
LEMMA ScreenLines ==
    ASSUME RdInv
    PROVE  /\ Screen \in Seq(DrawnLines) /\ Len(scroll) \in Nat /\ Len(Widget) \in Nat /\ Len(Lower) \in Nat
           /\ Len(Screen) = Len(scroll) + Len(Widget) + Len(Lower)
           /\ \A i \in 1..Len(scroll) : Screen[i] = scroll[i] /\ scroll[i] \in PrintedLines
           /\ \A i \in 1..Len(Widget) : Screen[Len(scroll) + i] = Widget[i]
           /\ \A i \in 1..Len(Lower) : Screen[Len(scroll) + Len(Widget) + i] = Lower[i]
           /\ \A i \in 1..Len(Screen) :
                \/ i \in 1..Len(scroll)
                \/ \E k \in 1..Len(Widget) : i = Len(scroll) + k
                \/ \E k \in 1..Len(Lower) : i = Len(scroll) + Len(Widget) + k
  <1>1. scroll \in Seq(PrintedLines) /\ scroll \in Seq(DrawnLines) /\ Len(scroll) \in Nat
    <2>1. PrintedLines \subseteq DrawnLines
      BY PrintedMarks
    <2> QED BY <2>1 DEF RdInv
  <1>2. Widget \in Seq(DrawnLines) /\ Lower \in Seq(DrawnLines) /\ Len(Widget) \in Nat /\ Len(Lower) \in Nat
    BY WidgetLines, LowerLines
  <1>3. Screen = (scroll \o Widget) \o Lower
    BY DEF Screen, Lower
  <1> DEFINE upper == scroll \o Widget
  <1>4. /\ upper \in Seq(DrawnLines) /\ Len(upper) = Len(scroll) + Len(Widget)
        /\ \A i \in 1..Len(scroll) : upper[i] = scroll[i]
        /\ \A i \in 1..Len(Widget) : upper[Len(scroll) + i] = Widget[i]
    BY <1>1, <1>2
  <1> HIDE DEF upper
  <1>5. /\ Screen \in Seq(DrawnLines) /\ Len(Screen) = Len(upper) + Len(Lower)
        /\ \A i \in 1..Len(upper) : Screen[i] = upper[i]
        /\ \A i \in 1..Len(Lower) : Screen[Len(upper) + i] = Lower[i]
    BY <1>2, <1>3, <1>4 DEF upper
  <1>6. \A i \in 1..Len(scroll) : Screen[i] = scroll[i] /\ scroll[i] \in PrintedLines
    BY <1>1, <1>2, <1>4, <1>5
  <1>7. \A i \in 1..Len(Widget) : Screen[Len(scroll) + i] = Widget[i]
    BY <1>1, <1>2, <1>4, <1>5
  <1>8. ASSUME NEW i \in 1..Len(Screen)
        PROVE  \/ i \in 1..Len(scroll)
               \/ \E k \in 1..Len(Widget) : i = Len(scroll) + k
               \/ \E k \in 1..Len(Lower) : i = Len(scroll) + Len(Widget) + k
    <2>1. CASE i > Len(scroll) /\ i <= Len(scroll) + Len(Widget)
      <3>1. i - Len(scroll) \in 1..Len(Widget) /\ i = Len(scroll) + (i - Len(scroll))
        BY <1>1, <1>2, <2>1
      <3> QED BY <3>1
    <2>2. CASE i > Len(scroll) + Len(Widget)
      <3>1. i - (Len(scroll) + Len(Widget)) \in 1..Len(Lower)
        BY <1>1, <1>2, <1>4, <1>5, <2>2
      <3>2. i = Len(scroll) + Len(Widget) + (i - (Len(scroll) + Len(Widget)))
        BY <1>1, <1>2
      <3> QED BY <3>1, <3>2
    <2> QED BY <1>1, <1>2, <2>1, <2>2
  <1> QED BY <1>1, <1>2, <1>4, <1>5, <1>6, <1>7, <1>8

(* The lines that a reader takes, and what is found in them. *)
LEMMA LinesOf ==
    ASSUME RdInv, NEW n \in Nat
    PROVE  /\ LastLines(n) \in Seq(DrawnLines) /\ Omitted(Screen, n) \in 0..Len(Screen)
           /\ Len(LastLines(n)) = Len(Screen) - Omitted(Screen, n)
           /\ \A i \in 1..Len(LastLines(n)) : LastLines(n)[i] = Screen[Omitted(Screen, n) + i]
  <1>1. Screen \in Seq(DrawnLines) /\ LastLines(n) = Ending(Screen, n)
    BY ScreenLines DEF LastLines, Ending
  <1> QED BY <1>1, LastOf

LEMMA SomeOf ==
    ASSUME RdInv, NEW n \in Nat, NEW mark
    PROVE  /\ Some(LastLines(n), mark) <=>
                \E i \in 1..Len(Screen) : i > Omitted(Screen, n) /\ mark \in Screen[i].marks
           /\ Some(Screen, mark) <=> \E i \in 1..Len(Screen) : mark \in Screen[i].marks
  <1> DEFINE m == Omitted(Screen, n)
             lines == LastLines(n)
  <1>1. /\ lines \in Seq(DrawnLines) /\ m \in 0..Len(Screen) /\ Len(lines) = Len(Screen) - m
        /\ \A i \in 1..Len(lines) : lines[i] = Screen[m + i]
    BY LinesOf
  <1>2. Screen \in Seq(DrawnLines) /\ Len(Screen) \in Nat
    BY ScreenLines
  <1> HIDE DEF m, lines
  <1>3. DOMAIN lines = 1..Len(lines) /\ DOMAIN Screen = 1..Len(Screen)
    BY <1>1, <1>2
  <1>4. ASSUME NEW i \in 1..Len(lines), mark \in lines[i].marks
        PROVE  \E k \in 1..Len(Screen) : k > m /\ mark \in Screen[k].marks
    <2>1. m + i \in 1..Len(Screen) /\ m + i > m
      BY <1>1, <1>2
    <2> QED BY <1>1, <1>4, <2>1
  <1>5. ASSUME NEW i \in 1..Len(Screen), i > m, mark \in Screen[i].marks
        PROVE  \E k \in 1..Len(lines) : mark \in lines[k].marks
    <2>1. i - m \in 1..Len(lines) /\ m + (i - m) = i
      BY <1>1, <1>2, <1>5
    <2> QED BY <1>1, <1>5, <2>1
  <1> QED BY <1>3, <1>4, <1>5 DEF Some, m, lines

Under == Len(scroll) + Len(Widget)
Limits == Bottom \in Nat /\ Above \in Nat /\ Bottom > 0 /\ Above > 6

LEMMA ScreenLimits == Limits
  BY ScreenAssumption DEF Limits

(* The marks below the prompt: a count is the total, and in the bar. *)
LEMMA LowerMarks ==
    ASSUME RdInv, NEW i \in 1..Len(Lower)
    PROVE  /\ \A mark \in {"thinking", "spinner", "apierror", "attempt", "completion"} : mark \notin Lower[i].marks
           /\ "marker" \in Lower[i].marks /\ ~overlay => i = 4
           /\ "rule" \in Lower[i].marks => ~overlay /\ i \in {1, 3}
           /\ "tok" \in Lower[i].marks /\ "arrow" \notin Lower[i].marks => ~overlay /\ i = 4 /\ Lower[i].number = "total"
  <1>1. Counter \subseteq {"counter", "shells", "monitors"}
    BY DEF Counter, RdInv, RdTypeOK
  <1>2. CASE overlay
    <2>1. i \in {1, 2}
      <3>1. Len(Lower) = 2
        BY <1>2, LowerLines
      <3>2. \A k \in 1..2 : k \in {1, 2}
        OBVIOUS
      <3> QED BY <3>1, <3>2
    <2> QED BY <1>1, <1>2, <2>1, LowerLines DEF Plain, Line
  <1>3. CASE ~overlay
    <2>1. i = 1 \/ i = 2 \/ i = 3 \/ i = 4 \/ i = 5 \/ i \in 6..Len(Lower)
      BY LowerLines, <1>3
    <2>2. CASE i \in {1, 2, 3}
      BY <1>3, <2>2, LowerLines DEF Plain, Line
    <2>3. CASE i = 4
      <3>1. Lower[i].marks = {"marker"} \cup Counter \cup (IF total THEN {"tok"} ELSE {})
            /\ Lower[i].number = IF total THEN "total" ELSE "none"
        BY <1>3, <2>3, LowerLines DEF Status, Line
      <3> QED BY <1>1, <1>3, <2>3, <3>1
    <2>4. CASE i = 5
      <3>1. agents.count # 0
        BY <1>3, <2>4, LowerLines
      <3>2. Lower[i].marks = {"bullet"}
        BY <1>3, <2>4, <3>1, LowerLines DEF Plain, Line
      <3> QED BY <2>4, <3>2
    <2>5. CASE i \in 6..Len(Lower)
      <3>1. Lower[i].marks = {"bullet", "arrow", "tok"} \cup (IF agents.full THEN {} ELSE {"kilo"})
        BY <1>3, <2>5, LowerLines DEF Agent, Line
      <3> QED BY <2>5, <3>1
    <2> QED BY <2>1, <2>2, <2>3, <2>4, <2>5
  <1> QED BY <1>2, <1>3

LEMMA WidgetMarks ==
    ASSUME RdInv, NEW i \in 1..Len(Widget)
    PROVE  /\ \A mark \in {"marker", "rule", "completion"} : mark \notin Widget[i].marks
           /\ "tok" \in Widget[i].marks => "arrow" \in Widget[i].marks
           /\ "apierror" \in Widget[i].marks => turn = "retrying"
  <1>1. CASE turn \in {"rest", "starting", "thinking"}
    BY <1>1, WidgetLines DEF Plain, Line
  <1>2. CASE turn \in {"tool", "writing"}
    BY <1>2, WidgetLines DEF Plain, Line
  <1>3. CASE turn = "retrying"
    <2>1. i \in {1, 2}
      <3>1. Len(Widget) = 2
        BY <1>3, WidgetLines
      <3>2. \A k \in 1..2 : k \in {1, 2}
        OBVIOUS
      <3> QED BY <3>1, <3>2
    <2> QED BY <1>3, <2>1, WidgetLines DEF Plain, Line
  <1> QED BY <1>1, <1>2, <1>3 DEF RdInv, RdTypeOK, Working

(* A bare count on the screen is of the bar, or of a text that speaks of one. *)
LEMMA CountAt ==
    ASSUME RdInv, NEW i \in 1..Len(Screen), "tok" \in Screen[i].marks, "arrow" \notin Screen[i].marks
    PROVE  /\ Screen[i].number \in {"prose", "total"}
           /\ i <= Len(scroll) \/ (~overlay /\ i = Under + 4)
  <1>1. CASE i \in 1..Len(scroll)
    BY <1>1, ScreenLines, PrintedMarks
  <1>2. ASSUME NEW k \in 1..Len(Widget), i = Len(scroll) + k PROVE FALSE
    BY <1>2, ScreenLines, WidgetMarks
  <1>3. ASSUME NEW k \in 1..Len(Lower), i = Len(scroll) + Len(Widget) + k
        PROVE  Screen[i].number = "total" /\ ~overlay /\ i = Under + 4
    <2>1. Screen[i] = Lower[k]
      BY <1>3, ScreenLines
    <2> QED BY <1>3, <2>1, LowerMarks DEF Under
  <1> QED BY <1>1, <1>2, <1>3, ScreenLines

LEMMA MarkerAt ==
    ASSUME RdInv, ~overlay, NEW i \in 1..Len(Screen), "marker" \in Screen[i].marks
    PROVE  i = Under + 4
  <1>1. CASE i \in 1..Len(scroll)
    BY <1>1, ScreenLines, PrintedMarks
  <1>2. ASSUME NEW k \in 1..Len(Widget), i = Len(scroll) + k PROVE FALSE
    BY <1>2, ScreenLines, WidgetMarks
  <1>3. ASSUME NEW k \in 1..Len(Lower), i = Len(scroll) + Len(Widget) + k
        PROVE  i = Under + 4
    <2>1. Screen[i] = Lower[k]
      BY <1>3, ScreenLines
    <2> QED BY <1>3, <2>1, LowerMarks DEF Under
  <1> QED BY <1>1, <1>2, <1>3, ScreenLines

LEMMA ReadsTheTotalHolds == RdInv => ReadsTheTotal
  <1> SUFFICES ASSUME RdInv PROVE ReadsTheTotal
    OBVIOUS
  <1> DEFINE lines == LastLines(Bottom)
             m == Omitted(Screen, Bottom)
             counts == BareCounts(lines)
             Latest(i) == i \in counts /\ \A j \in counts : j <= i
  <1>1. /\ lines \in Seq(DrawnLines) /\ m \in 0..Len(Screen) /\ Len(lines) = Len(Screen) - m
        /\ \A i \in 1..Len(lines) : lines[i] = Screen[m + i]
    BY LinesOf, ScreenLimits DEF Limits
  <1>2. Screen \in Seq(DrawnLines) /\ Len(Screen) \in Nat /\ Under \in Nat
    BY ScreenLines DEF Under
  <1>3. Tokens = IF Some(lines, "marker") /\ counts # {} THEN lines[CHOOSE i \in counts : \A j \in counts : j <= i].number
                 ELSE "none"
    BY DEF Tokens
  <1>4. counts = {i \in 1..Len(lines) : "tok" \in lines[i].marks /\ "arrow" \notin lines[i].marks}
    BY <1>1 DEF BareCounts
  <1>5. Some(lines, "marker") => \E i \in 1..Len(Screen) : i > m /\ "marker" \in Screen[i].marks
    BY SomeOf, ScreenLimits DEF Limits
  <1> HIDE DEF lines, m
  <1>6. ASSUME NEW i \in counts
        PROVE  /\ i \in 1..Len(lines) /\ m + i \in 1..Len(Screen) /\ lines[i] = Screen[m + i]
               /\ "tok" \in Screen[m + i].marks /\ "arrow" \notin Screen[m + i].marks
    BY <1>1, <1>2, <1>4
  <1>7. ASSUME counts # {} PROVE \E i \in counts : Latest(i) /\ Tokens \in {"none", lines[i].number}
                                      /\ (Some(lines, "marker") => Tokens = lines[i].number)
    <2>1. counts \subseteq 0..Len(lines) /\ Len(lines) \in Nat
      BY <1>1, <1>2, <1>4
    <2> HIDE DEF counts
    <2>2. \E i \in counts : Latest(i)
      BY <1>7, <2>1, GreatestNat
    <2>3. Latest(CHOOSE i \in counts : \A j \in counts : j <= i)
      BY <2>2
    <2> QED BY <1>3, <1>7, <2>3
  <1>8. Tokens \notin {"agent", "turn"}
    <2>1. CASE counts = {}
      BY <1>3, <2>1
    <2>2. CASE counts # {}
      <3>1. PICK i \in counts : Tokens \in {"none", lines[i].number}
        BY <1>7, <2>2
      <3>2. lines[i].number \in {"prose", "total"}
        BY <1>6, CountAt
      <3> QED BY <3>1, <3>2
    <2> QED BY <2>1, <2>2
  <1>9. ASSUME total, Some(lines, "marker"), ~overlay PROVE Tokens = "total"
    <2> DEFINE b == Under + 4
    <2>1. b \in 1..Len(Screen) /\ b > m
      BY <1>5, <1>9, MarkerAt
    <2>2. Screen[b] = Status
      <3>1. Len(Lower) >= 4 /\ Lower[4] = Status /\ Len(Lower) \in Nat
        BY <1>9, LowerLines, ScreenLines
      <3> QED BY <3>1, ScreenLines DEF Under
    <2>3. "tok" \in Screen[b].marks /\ "arrow" \notin Screen[b].marks /\ Screen[b].number = "total"
      BY <1>9, <2>2 DEF Status, Line, Counter, RdInv, RdTypeOK
    <2> HIDE DEF b
    <2>4. b - m \in counts /\ m + (b - m) = b
      <3>1. b - m \in 1..Len(lines) /\ m + (b - m) = b
        BY <1>1, <1>2, <2>1
      <3> QED BY <1>1, <1>4, <2>3, <3>1
    <2>5. PICK i \in counts : Latest(i) /\ Tokens = lines[i].number
      BY <1>7, <1>9, <2>4
    <2>6. m + i <= b
      <3>1. m + i <= Len(scroll) \/ m + i = b
        BY <1>6, CountAt DEF b
      <3> QED BY <1>1, <1>6, <3>1, ScreenLines DEF Under, b
    <2>7. b - m <= i
      BY <2>4, <2>5
    <2>8. m + i = b
      BY <1>1, <1>2, <1>6, <2>1, <2>6, <2>7
    <2> QED BY <1>6, <2>3, <2>5, <2>8
  <1> QED BY <1>8, <1>9 DEF ReadsTheTotal, lines

(* What the session draws of its work. *)
LEMMA DrawnAt ==
    ASSUME RdInv
    PROVE  /\ overlay => "overlay" \in Screen[Under + 1].marks /\ Under + 1 \in 1..Len(Screen)
           /\ ~overlay /\ agents.count > 0 =>
                /\ {"bullet", "arrow", "tok"} \subseteq Screen[Under + 6].marks
                /\ "paren" \notin Screen[Under + 6].marks /\ Under + 6 \in 1..Len(Screen)
           /\ turn = "thinking" =>
                {"arrow", "tok"} \subseteq Screen[Len(scroll) + 1].marks /\ Len(scroll) + 1 \in 1..Len(Screen)
           /\ turn = "starting" => "verb" \in Screen[Len(scroll) + 1].marks /\ Len(scroll) + 1 \in 1..Len(Screen)
           /\ ~overlay /\ agents.count = 0 => Screen[Len(Screen)] = Status /\ Len(Screen) \in Nat /\ Len(Screen) > 0
  <1>1. Len(scroll) \in Nat /\ Len(Widget) \in Nat /\ Len(Lower) \in Nat
    BY ScreenLines
  <1>2. ASSUME NEW k \in 1..Len(Lower) PROVE Under + k \in 1..Len(Screen) /\ Screen[Under + k] = Lower[k]
    BY <1>1, ScreenLines DEF Under
  <1>3. ASSUME overlay PROVE "overlay" \in Screen[Under + 1].marks /\ Under + 1 \in 1..Len(Screen)
    <2>1. 1 \in 1..Len(Lower) /\ "overlay" \in Lower[1].marks
      BY <1>3, LowerLines DEF Plain, Line
    <2> QED BY <1>2, <2>1
  <1>4. ASSUME ~overlay, agents.count > 0
        PROVE  /\ {"bullet", "arrow", "tok"} \subseteq Screen[Under + 6].marks
               /\ "paren" \notin Screen[Under + 6].marks /\ Under + 6 \in 1..Len(Screen)
    <2>1. 6 \in 1..Len(Lower) /\ 6 \in 6..Len(Lower)
      BY <1>4, LowerLines
    <2>2. Lower[6] = Agent
      BY <1>4, <2>1, LowerLines
    <2>3. {"bullet", "arrow", "tok"} \subseteq Lower[6].marks /\ "paren" \notin Lower[6].marks
      BY <2>2 DEF Agent, Line
    <2> QED BY <1>2, <2>1, <2>3
  <1>5. ASSUME turn \in {"thinking", "starting"}
        PROVE  Len(scroll) + 1 \in 1..Len(Screen) /\ Screen[Len(scroll) + 1] = Widget[1]
    <2>1. 1 \in 1..Len(Widget)
      BY <1>5, WidgetLines
    <2> QED BY <1>1, <2>1, ScreenLines
  <1>7. turn = "thinking" => {"arrow", "tok"} \subseteq Widget[1].marks
    BY WidgetLines DEF Line
  <1>8. turn = "starting" => "verb" \in Widget[1].marks
    BY WidgetLines DEF Plain, Line
  <1>9. ASSUME ~overlay, agents.count = 0
        PROVE  Screen[Len(Screen)] = Status /\ Len(Screen) \in Nat /\ Len(Screen) > 0
    <2>1. Len(Lower) = 4 /\ Lower[4] = Status
      BY <1>9, LowerLines
    <2>2. Len(Screen) = Under + 4 /\ Under \in Nat
      BY <1>1, <2>1, ScreenLines DEF Under
    <2>3. Screen[Under + 4] = Lower[4]
      BY <1>2, <2>1
    <2> QED BY <2>1, <2>2, <2>3
  <1> QED BY <1>3, <1>4, <1>5, <1>7, <1>8, <1>9

LEMMA BashesSeen == ASSUME RdInv, ~overlay, agents.count = 0, background # "none" PROVE Bashes
  <1>1. Screen[Len(Screen)] = Status /\ Len(Screen) \in Nat /\ Len(Screen) > 0
    BY DrawnAt
  <1>2. "counter" \in Screen[Len(Screen)].marks
    BY <1>1 DEF Status, Line, Counter
  <1>3. Len(Screen) \in 1..Len(Screen) /\ Len(Screen) > Omitted(Screen, Bottom)
    BY <1>1, ScreenLimits DEF Limits, Omitted
  <1>4. Some(LastLines(Bottom), "counter") /\ Some(Screen, "counter")
    BY <1>2, <1>3, SomeOf, ScreenLimits DEF Limits
  <1> QED BY <1>4 DEF Bashes

LEMMA LiveIsSeenHolds == RdInv => LiveIsSeen /\ MissIsNotLive
  <1> SUFFICES ASSUME RdInv PROVE LiveIsSeen /\ MissIsNotLive
    OBVIOUS
  <1>1. Screen \in Seq(DrawnLines) /\ DOMAIN Screen = 1..Len(Screen)
    BY ScreenLines
  <1>2. CASE overlay
    <2>1. "overlay" \in Screen[Under + 1].marks /\ Under + 1 \in 1..Len(Screen)
      BY <1>2, DrawnAt
    <2>2. Some(Screen, "overlay") /\ ActiveUI
      BY <1>1, <2>1 DEF Some, ActiveUI, ActiveLine
    <2> QED BY <2>2 DEF LiveIsSeen, MissIsNotLive, LooksFresh, ParseMiss, SawStatusBar
  <1>3. CASE ~overlay /\ agents.count > 0
    <2>1. /\ {"bullet", "arrow", "tok"} \subseteq Screen[Under + 6].marks
          /\ "paren" \notin Screen[Under + 6].marks /\ Under + 6 \in 1..Len(Screen)
      BY <1>3, DrawnAt
    <2>2. ActiveUI /\ SawStatusBar
      BY <1>1, <2>1 DEF ActiveUI, ActiveLine, RosterRow, SawStatusBar
    <2> QED BY <2>2 DEF LiveIsSeen, MissIsNotLive, LooksFresh, ParseMiss
  <1>4. CASE turn = "thinking"
    <2>1. {"arrow", "tok"} \subseteq Screen[Len(scroll) + 1].marks /\ Len(scroll) + 1 \in 1..Len(Screen)
      BY <1>4, DrawnAt
    <2>2. ActiveUI /\ SawStatusBar
      BY <1>1, <2>1 DEF ActiveUI, ActiveLine, SawStatusBar
    <2> QED BY <2>2 DEF LiveIsSeen, MissIsNotLive, LooksFresh, ParseMiss
  <1>5. CASE ~overlay /\ ~(agents.count > 0) /\ background # "none"
    <2>1. agents.count = 0
      BY <1>5, LowerLines
    <2>2. Bashes
      BY <1>5, <2>1, BashesSeen
    <2> QED BY <2>2 DEF LiveIsSeen, MissIsNotLive, LooksFresh, ParseMiss
  <1>6. CASE ~overlay /\ ~(agents.count > 0) /\ background = "none" /\ turn # "thinking"
    <2>1. MissIsNotLive
      BY <1>6 DEF MissIsNotLive
    <2>2. ASSUME verbs, turn = "starting" PROVE ActiveUI
      <3>1. "verb" \in Screen[Len(scroll) + 1].marks /\ Len(scroll) + 1 \in 1..Len(Screen)
        BY <2>2, DrawnAt
      <3> QED BY <1>1, <2>2, <3>1 DEF ActiveUI, ActiveLine
    <2> QED BY <1>6, <2>1, <2>2 DEF LiveIsSeen, LooksFresh
  <1> QED BY <1>2, <1>3, <1>4, <1>5, <1>6

(* The first rule, what is above it and what below. *)
LEMMA FirstRuleIs ==
    ASSUME NEW s \in Seq(DrawnLines)
    PROVE  /\ FirstRule(s) \in 0..Len(s)
           /\ FirstRule(s) = 0 => \A i \in 1..Len(s) : "rule" \notin s[i].marks
           /\ FirstRule(s) # 0 => /\ "rule" \in s[FirstRule(s)].marks
                                  /\ \A i \in 1..Len(s) : "rule" \in s[i].marks => FirstRule(s) <= i
  <1> DEFINE I == {i \in 1..Len(s) : "rule" \in s[i].marks}
             Lowest(i) == i \in I /\ \A j \in I : i <= j
  <1>1. FirstRule(s) = IF I # {} THEN CHOOSE i \in I : \A j \in I : i <= j ELSE 0
    BY DEF FirstRule, SelectInSeq, Min
  <1>2. I \subseteq Nat /\ Len(s) \in Nat
    OBVIOUS
  <1>3. CASE I = {}
    BY <1>1, <1>2, <1>3
  <1>4. CASE I # {}
    <2>1. \E i \in I : Lowest(i)
      <3> HIDE DEF I
      <3> QED BY <1>2, <1>4, LeastNat
    <2>2. Lowest(CHOOSE i \in I : \A j \in I : i <= j)
      <3> HIDE DEF I
      <3> QED BY <2>1
    <2>3. Lowest(FirstRule(s))
      BY <1>1, <1>4, <2>2
    <2>4. FirstRule(s) \in 1..Len(s)
      BY <2>3
    <2> QED BY <2>3, <2>4
  <1> QED BY <1>3, <1>4

LEMMA SomeAround ==
    ASSUME NEW s \in Seq(DrawnLines), NEW r \in 1..Len(s), NEW mark
    PROVE  /\ Some(SubSeq(s, 1, r - 1), mark) <=> \E i \in 1..Len(s) : i < r /\ mark \in s[i].marks
           /\ Some(SubSeq(s, r, Len(s)), mark) <=> \E i \in 1..Len(s) : r <= i /\ mark \in s[i].marks
  <1> DEFINE t == SubSeq(s, 1, r - 1)
             u == SubSeq(s, r, Len(s))
  <1>1. Len(s) \in Nat /\ r \in Nat /\ DOMAIN s = 1..Len(s)
    OBVIOUS
  <1>2. t \in Seq(DrawnLines) /\ Len(t) = r - 1 /\ \A i \in 1..r - 1 : t[i] = s[i]
    BY <1>1
  <1>3. u \in Seq(DrawnLines) /\ Len(u) = Len(s) - (r - 1) /\ \A i \in 1..Len(s) - (r - 1) : u[i] = s[(r - 1) + i]
    BY <1>1
  <1> HIDE DEF t, u
  <1>4. DOMAIN t = 1..r - 1 /\ DOMAIN u = 1..Len(s) - (r - 1)
    BY <1>2, <1>3
  <1>5. Some(t, mark) <=> \E i \in 1..Len(s) : i < r /\ mark \in s[i].marks
    <2>1. \A i \in 1..r - 1 : i \in 1..Len(s) /\ i < r
      BY <1>1
    <2>2. \A i \in 1..Len(s) : i < r => i \in 1..r - 1
      BY <1>1
    <2> QED BY <1>2, <1>4, <2>1, <2>2 DEF Some
  <1>6. ASSUME NEW i \in 1..Len(s), r <= i, mark \in s[i].marks PROVE Some(u, mark)
    <2>1. i - (r - 1) \in 1..Len(s) - (r - 1) /\ (r - 1) + (i - (r - 1)) = i
      BY <1>1, <1>6
    <2> QED BY <1>3, <1>4, <1>6, <2>1 DEF Some
  <1>7. ASSUME Some(u, mark) PROVE \E i \in 1..Len(s) : r <= i /\ mark \in s[i].marks
    <2>1. PICK i \in 1..Len(s) - (r - 1) : mark \in u[i].marks
      BY <1>4, <1>7 DEF Some
    <2>2. (r - 1) + i \in 1..Len(s) /\ r <= (r - 1) + i
      BY <1>1
    <2> QED BY <1>3, <2>1, <2>2
  <1> QED BY <1>5, <1>6, <1>7 DEF t, u

LEMMA RestIsNotThinkingHolds == RdInv => RestIsNotThinking
  <1> SUFFICES ASSUME RdInv, turn = "rest", ~overlay PROVE DetectActivity \notin {"Thinking", "ToolRunning"}
    BY DEF RestIsNotThinking
  <1> DEFINE lines == LastLines(Above)
             m == Omitted(Screen, Above)
             rule == FirstRule(lines)
             content == SubSeq(lines, 1, rule - 1)
             hasPrompt == Some(SubSeq(lines, rule, Len(lines)), "prompt")
             top == Len(scroll)
  <1>1. /\ lines \in Seq(DrawnLines) /\ m \in 0..Len(Screen) /\ Len(lines) = Len(Screen) - m
        /\ \A i \in 1..Len(lines) : lines[i] = Screen[m + i]
    BY LinesOf, ScreenLimits DEF Limits
  <1>2. /\ Len(Screen) \in Nat /\ top \in Nat /\ Len(Widget) = 0 /\ Len(Lower) \in Nat /\ Len(Lower) >= 4
        /\ Len(Screen) = top + Len(Lower)
    BY ScreenLines, WidgetLines, LowerLines
  <1>3. "rule" \in Screen[top + 1].marks /\ "prompt" \in Screen[top + 2].marks
    <2>1. Screen[top + 1] = Lower[1] /\ Screen[top + 2] = Lower[2]
      BY <1>2, ScreenLines
    <2> QED BY <2>1, LowerLines DEF Plain, Line
  <1>4. ASSUME NEW i \in 1..Len(Screen), "thinking" \in Screen[i].marks \/ "spinner" \in Screen[i].marks
        PROVE  "thinking" \in Screen[i].marks /\ i + 1 <= top /\ "completion" \in Screen[i + 1].marks
                 /\ "rule" \notin Screen[i + 1].marks
    <2>1. CASE i \in 1..top
      <3>1. Screen[i] = scroll[i] /\ scroll[i] \in PrintedLines
        BY <2>1, ScreenLines
      <3>2. "thinking" \in scroll[i].marks
        BY <1>4, <3>1, PrintedMarks
      <3>3. i + 1 \in 1..top /\ "completion" \in scroll[i + 1].marks
        BY <2>1, <3>2 DEF RdInv, Followed
      <3>4. Screen[i + 1] = scroll[i + 1] /\ scroll[i + 1] \in PrintedLines
        BY <3>3, ScreenLines
      <3> QED BY <1>2, <3>1, <3>2, <3>3, <3>4, PrintedMarks
    <2>2. ASSUME NEW k \in 1..Len(Lower), i = top + Len(Widget) + k PROVE FALSE
      <3>1. Screen[i] = Lower[k]
        BY <2>2, ScreenLines
      <3> QED BY <1>4, <3>1, LowerMarks
    <2>3. ~ \E k \in 1..Len(Widget) : i = top + k
      BY <1>2
    <2> QED BY <2>1, <2>2, <2>3, ScreenLines
  <1> HIDE DEF lines, m, top
  <1>5. ASSUME NEW i \in 1..Len(lines), "thinking" \in lines[i].marks \/ "spinner" \in lines[i].marks
        PROVE  /\ "thinking" \in lines[i].marks /\ i + 1 \in 1..Len(lines) /\ "completion" \in lines[i + 1].marks
               /\ "rule" \notin lines[i + 1].marks
               /\ \E k \in 1..Len(lines) : /\ "rule" \in lines[k].marks /\ k + 1 \in 1..Len(lines)
                                           /\ "prompt" \in lines[k + 1].marks
    <2>1. m + i \in 1..Len(Screen) /\ lines[i] = Screen[m + i]
      BY <1>1, <1>2
    <2>2. (m + i) + 1 <= top /\ "completion" \in Screen[(m + i) + 1].marks /\ "rule" \notin Screen[(m + i) + 1].marks
          /\ "thinking" \in Screen[m + i].marks
      BY <1>4, <1>5, <2>1
    <2>3. i + 1 \in 1..Len(lines) /\ m + (i + 1) = (m + i) + 1
      BY <1>1, <1>2, <2>1, <2>2
    <2>4. lines[i + 1] = Screen[m + (i + 1)]
      BY <1>1, <2>3
    <2> DEFINE k == (top + 1) - m
    <2>5. /\ k \in 1..Len(lines) /\ k + 1 \in 1..Len(lines) /\ m + k = top + 1 /\ m + (k + 1) = top + 2
      BY <1>1, <1>2, <2>1, <2>2
    <2> HIDE DEF k
    <2>6. lines[k] = Screen[top + 1] /\ lines[k + 1] = Screen[top + 2]
      BY <1>1, <2>5
    <2> QED BY <1>3, <2>1, <2>2, <2>3, <2>4, <2>5, <2>6
  <1>6. DOMAIN lines = 1..Len(lines) /\ Len(lines) \in Nat
    BY <1>1
  <1>7. /\ rule \in 0..Len(lines)
        /\ rule = 0 => \A i \in 1..Len(lines) : "rule" \notin lines[i].marks
        /\ rule # 0 => \A i \in 1..Len(lines) : "rule" \in lines[i].marks => rule <= i
        /\ rule # 0 => "rule" \in lines[rule].marks
    BY <1>1, FirstRuleIs
  <1>8. DetectActivity = IF rule = 0 THEN IF Some(lines, "prompt") THEN "Idle" ELSE Read(lines, lines, FALSE)
                         ELSE Read(lines, content, hasPrompt)
    BY DEF DetectActivity, lines
  <1> HIDE DEF rule
  <1>9. CASE rule = 0
    <2>1. ~Some(lines, "thinking") /\ ~Some(lines, "spinner")
      BY <1>5, <1>6, <1>7, <1>9 DEF Some
    <2> QED BY <1>8, <1>9, <2>1 DEF Read
  <1>10. CASE rule # 0
    <2>0. rule \in 1..Len(lines)
      BY <1>6, <1>7, <1>10
    <2>1. ASSUME Some(content, "thinking") \/ Some(content, "spinner")
          PROVE  Some(content, "completion") /\ hasPrompt
      <3>1. PICK i \in 1..Len(lines) : i < rule /\ ("thinking" \in lines[i].marks \/ "spinner" \in lines[i].marks)
        BY <1>1, <2>0, <2>1, SomeAround
      <3>2. i + 1 \in 1..Len(lines) /\ "completion" \in lines[i + 1].marks /\ i + 1 # rule
        BY <1>5, <1>7, <1>10, <3>1
      <3>3. i + 1 < rule
        BY <2>0, <3>1, <3>2
      <3>4. PICK k \in 1..Len(lines) : /\ "rule" \in lines[k].marks /\ k + 1 \in 1..Len(lines)
                                       /\ "prompt" \in lines[k + 1].marks
        BY <1>5, <3>1
      <3>5. rule <= k + 1
        BY <1>7, <1>10, <2>0, <3>4
      <3>6. Some(content, "completion")
        BY <1>1, <2>0, <3>2, <3>3, SomeAround
      <3>7. hasPrompt
        BY <1>1, <2>0, <3>4, <3>5, SomeAround
      <3> QED BY <3>6, <3>7
    <2> QED BY <1>8, <1>10, <2>1 DEF Read
  <1> QED BY <1>9, <1>10

LEMMA ThinkingIsSeenHolds == RdInv => ThinkingIsSeen
  <1> SUFFICES ASSUME RdInv, turn \in {"starting", "thinking"}, ~overlay, agents.count < 2,
                      ~Some(scroll, "completion"), ~Some(scroll, "rule")
               PROVE  DetectActivity = "Thinking"
    BY DEF ThinkingIsSeen
  <1> DEFINE lines == LastLines(Above)
             m == Omitted(Screen, Above)
             rule == FirstRule(lines)
             content == SubSeq(lines, 1, rule - 1)
             hasPrompt == Some(SubSeq(lines, rule, Len(lines)), "prompt")
             at == Len(scroll) + 1
  <1>1. /\ lines \in Seq(DrawnLines) /\ m \in 0..Len(Screen) /\ Len(lines) = Len(Screen) - m
        /\ \A i \in 1..Len(lines) : lines[i] = Screen[m + i]
    BY LinesOf, ScreenLimits DEF Limits
  <1>2. /\ Len(Screen) \in Nat /\ at \in Nat /\ at > 0 /\ Len(Widget) = 1 /\ Len(Lower) \in Nat
        /\ Len(Lower) >= 4 /\ Len(Lower) <= 6 /\ Len(Screen) = at + Len(Lower)
    <2>1. Len(Widget) = 1
      BY WidgetLines
    <2>2. agents.count \in Nat /\ Len(Lower) = IF agents.count = 0 THEN 4 ELSE 5 + agents.count
      BY LowerLines
    <2>3. Len(Lower) >= 4 /\ Len(Lower) <= 6
      BY <2>2
    <2>4. /\ Len(Screen) = Len(scroll) + Len(Widget) + Len(Lower)
          /\ Len(scroll) \in Nat /\ Len(Lower) \in Nat
      BY ScreenLines
    <2> QED BY <2>1, <2>3, <2>4
  <1>3. m < at
    BY <1>2, ScreenLimits DEF Limits, Omitted
  <1>4. "thinking" \in Screen[at].marks
    <2>1. Screen[at] = Widget[1]
      BY <1>2, ScreenLines
    <2> QED BY <2>1, WidgetLines DEF Plain, Line
  <1>5. "rule" \in Screen[at + 1].marks
    <2>1. Screen[at + 1] = Lower[1]
      BY <1>2, ScreenLines
    <2> QED BY <2>1, LowerLines DEF Plain, Line
  <1>6. ASSUME NEW i \in 1..Len(Screen), i <= at
        PROVE  "rule" \notin Screen[i].marks /\ "completion" \notin Screen[i].marks
    <2>1. CASE i < at
      <3>1. i \in 1..Len(scroll) /\ DOMAIN scroll = 1..Len(scroll)
        BY <1>2, <2>1 DEF RdInv
      <3> QED BY <3>1, ScreenLines DEF Some
    <2>2. CASE i = at
      <3>1. Screen[i] = Widget[1] /\ 1 \in 1..Len(Widget)
        BY <1>2, <2>2, ScreenLines
      <3> QED BY <3>1, WidgetMarks
    <2> QED BY <1>2, <1>6, <2>1, <2>2
  <1> HIDE DEF lines, m, at
  <1>7. DOMAIN lines = 1..Len(lines) /\ Len(lines) \in Nat
    BY <1>1
  <1>8. /\ rule \in 0..Len(lines)
        /\ rule = 0 => \A i \in 1..Len(lines) : "rule" \notin lines[i].marks
        /\ rule # 0 => "rule" \in lines[rule].marks
                       /\ \A i \in 1..Len(lines) : "rule" \in lines[i].marks => rule <= i
    BY <1>1, FirstRuleIs
  <1>9. DetectActivity = IF rule = 0 THEN IF Some(lines, "prompt") THEN "Idle" ELSE Read(lines, lines, FALSE)
                         ELSE Read(lines, content, hasPrompt)
    BY DEF DetectActivity, lines
  <1> HIDE DEF rule
  <1>10. (at + 1) - m \in 1..Len(lines) /\ lines[(at + 1) - m] = Screen[at + 1]
    <2>1. (at + 1) - m \in 1..Len(lines) /\ m + ((at + 1) - m) = at + 1
      BY <1>1, <1>2, <1>3
    <2> QED BY <1>1, <2>1
  <1>11. rule \in 1..Len(lines) /\ rule <= (at + 1) - m
    BY <1>5, <1>7, <1>8, <1>10
  <1>12. m + rule > at
    <2>1. m + rule \in 1..Len(Screen) /\ lines[rule] = Screen[m + rule]
      BY <1>1, <1>2, <1>11
    <2> QED BY <1>2, <1>6, <1>8, <1>11, <2>1
  <1>13. Some(content, "thinking")
    <2>1. at - m \in 1..Len(lines) /\ m + (at - m) = at /\ at - m < rule
      BY <1>1, <1>2, <1>3, <1>11, <1>12
    <2>2. "thinking" \in lines[at - m].marks
      BY <1>1, <1>4, <2>1
    <2> QED BY <1>1, <1>11, <2>1, <2>2, SomeAround
  <1>14. ~Some(content, "completion")
    <2> SUFFICES ASSUME NEW i \in 1..Len(lines), i < rule PROVE "completion" \notin lines[i].marks
      BY <1>1, <1>11, SomeAround
    <2>1. m + i \in 1..Len(Screen) /\ m + i <= at /\ lines[i] = Screen[m + i]
      BY <1>1, <1>2, <1>11
    <2> QED BY <1>6, <2>1
  <1> QED BY <1>9, <1>11, <1>13, <1>14 DEF Read

LEMMA RetryIsSeenHolds == RdInv => RetryIsSeen
  <1> SUFFICES ASSUME RdInv, agents.count = 0 PROVE ApiRetry <=> turn = "retrying"
    BY DEF RetryIsSeen
  <1>1. ASSUME turn = "retrying" PROVE ApiRetry
    <2> DEFINE at == Len(scroll) + 1
    <2>1. /\ Len(Screen) \in Nat /\ at \in Nat /\ at > 0 /\ Len(Widget) = 2 /\ Len(Lower) \in Nat
          /\ Len(Lower) <= 4 /\ Len(Screen) = at + 1 + Len(Lower)
      <3>1. Len(Widget) = 2
        BY <1>1, WidgetLines
      <3>2. Len(Lower) <= 4
        <4>1. CASE overlay
          <5>1. Len(Lower) = 2
            BY <4>1, LowerLines
          <5> QED BY <5>1
        <4>2. CASE ~overlay
          <5>1. Len(Lower) = 4
            BY <4>2, LowerLines
          <5> QED BY <5>1
        <4> QED BY <4>1, <4>2
      <3>3. /\ Len(Screen) = Len(scroll) + Len(Widget) + Len(Lower)
            /\ Len(scroll) \in Nat /\ Len(Lower) \in Nat
        BY ScreenLines
      <3> QED BY <3>1, <3>2, <3>3
    <2>2. Omitted(Screen, Above) < at
      BY <2>1, ScreenLimits DEF Limits, Omitted
    <2>3. Screen[at] = Widget[1] /\ Screen[at + 1] = Widget[2]
      BY <2>1, ScreenLines
    <2>4. "apierror" \in Screen[at].marks /\ "attempt" \in Screen[at + 1].marks
      BY <1>1, <2>3, WidgetLines DEF Plain, Line
    <2>5. at \in 1..Len(Screen) /\ at + 1 \in 1..Len(Screen) /\ at + 1 > Omitted(Screen, Above)
      <3>1. Omitted(Screen, Above) \in 0..Len(Screen)
        BY LinesOf, ScreenLimits DEF Limits
      <3> QED BY <2>1, <2>2, <3>1
    <2> HIDE DEF at
    <2> QED BY <2>2, <2>4, <2>5, SomeOf, ScreenLimits DEF ApiRetry, Limits
  <1>2. ASSUME ApiRetry PROVE turn = "retrying"
    <2>1. PICK i \in 1..Len(Screen) : "apierror" \in Screen[i].marks
      BY <1>2, SomeOf, ScreenLimits DEF ApiRetry, Limits
    <2>2. CASE i \in 1..Len(scroll)
      BY <2>1, <2>2, ScreenLines, PrintedMarks
    <2>3. ASSUME NEW k \in 1..Len(Widget), i = Len(scroll) + k PROVE turn = "retrying"
      BY <2>1, <2>3, ScreenLines, WidgetMarks
    <2>4. ASSUME NEW k \in 1..Len(Lower), i = Len(scroll) + Len(Widget) + k PROVE FALSE
      <3>1. Screen[i] = Lower[k]
        BY <2>4, ScreenLines
      <3> QED BY <2>1, <3>1, LowerMarks
    <2> QED BY <2>2, <2>3, <2>4, ScreenLines
  <1> QED BY <1>1, <1>2

LEMMA RdAlways == RdSpec => []ScreenRead
  <1>1. RdInv => ScreenRead
    BY ReadsTheTotalHolds, LiveIsSeenHolds, RestIsNotThinkingHolds, ThinkingIsSeenHolds, RetryIsSeenHolds
       DEF RdInv, ScreenRead
  <1> QED BY <1>1, RdInitInv, RdStepInv, PTL DEF RdSpec

-----------------------------------------------------------------------------
(* PaneChoice.  A process of the program has left the marker of its pid, and *)
(* runs what it loaded; the panes of the session are those that a process is *)
(* in.                                                                       *)
Processes == [what : {"none", "claude", "shell"}, loaded : 0..Versions,
              exe : {"none", "versioned", "package", "aside", "other"}, pane : Panes \cup {NoPane}]
Marked(q, version) ==
    /\ q.what = "none" => q = FreePids
    /\ q.what = "shell" => q.exe = "other"
    /\ q.what = "claude" => /\ q.exe \in {"versioned", "package", "aside"}
                            /\ q.loaded = version /\ version # 0
PanesAlive ==
    /\ \A pn \in ToSet(order) : \E p \in Pids : procs[p].pane = pn
    /\ \A p \in Pids : procs[p].pane # NoPane => procs[p].pane \in ToSet(order)
    /\ \A p, q \in Pids : procs[p].pane = procs[q].pane /\ p # q => procs[p].pane = NoPane
PassShaped == cycle = [at |-> cycle.at, pane |-> cycle.pane, running |-> cycle.running,
                       of |-> cycle.of, typed |-> cycle.typed]
PcInv ==
    /\ order \in Seq(Panes) /\ IsInjective(order) /\ procs \in [Pids -> Processes]
    /\ markers \in [Pids -> 0..Versions] /\ install.version \in 1..Versions
    /\ install = [layout |-> install.layout, version |-> install.version]
    /\ \A p \in Pids : Marked(procs[p], markers[p])
    /\ PanesAlive /\ PassShaped /\ TypedWhereRead

LEMMA PaneConstants == Versions \in Nat /\ Versions > 0 /\ NoPane \notin Panes /\ NoPid \notin Pids
  BY PaneChoiceAssumption

LEMMA PidOfPane ==
    ASSUME PcInv, NEW pn
    PROVE  /\ PidOf(pn) = NoPid \/ (PidOf(pn) \in Pids /\ procs[PidOf(pn)].pane = pn)
           /\ pn \in ToSet(order) => PidOf(pn) # NoPid
  <1>1. CASE \E p \in Pids : procs[p].pane = pn
    BY <1>1, PaneConstants DEF PidOf
  <1>2. CASE ~ \E p \in Pids : procs[p].pane = pn
    BY <1>2 DEF PidOf, PcInv, PanesAlive
  <1> QED BY <1>1, <1>2

(* The version that is resolved of a pid is the one that its process loaded. *)
LEMMA ResolvedLoaded ==
    ASSUME PcInv, NEW p \in Pids, procs[p].what # "none"
    PROVE  /\ ResolveRunningVersion(p) \in 0..Versions
           /\ ResolveRunningVersion(p) # 0 => procs[p].what = "claude" /\ ResolveRunningVersion(p) = procs[p].loaded
           /\ TuiExe(procs[p].exe) => ResolveRunningVersion(p) = procs[p].loaded /\ procs[p].loaded # 0
  <1>1. procs[p] \in Processes /\ Marked(procs[p], markers[p]) /\ markers[p] \in 0..Versions
    BY DEF PcInv
  <1>2. PICK q \in Processes : q = procs[p]
    BY <1>1
  <1>3. /\ q.what \in {"claude", "shell"} /\ q.loaded \in 0..Versions
        /\ q.exe \in {"none", "versioned", "package", "aside", "other"}
    BY <1>2 DEF Processes
  <1>4. CASE q.what = "claude"
    BY <1>1, <1>2, <1>3, <1>4, PaneConstants DEF Marked, ResolveRunningVersion, GuardedExe, TuiExe
  <1>5. CASE q.what = "shell"
    BY <1>1, <1>2, <1>3, <1>5, PaneConstants DEF Marked, ResolveRunningVersion, GuardedExe, TuiExe
  <1> QED BY <1>3, <1>4, <1>5

LEMMA SelectedHighest ==
    ASSUME PcInv, Candidates # {}
    PROVE  \E p \in Candidates :
             /\ SelectRunningVersion = ResolveRunningVersion(p)
             /\ \A q \in Candidates : ResolveRunningVersion(q) <= ResolveRunningVersion(p)
  <1> DEFINE Found == {ResolveRunningVersion(p) : p \in Candidates}
             Best(p) == p \in Candidates /\ \A q \in Candidates : ResolveRunningVersion(q) <= ResolveRunningVersion(p)
  <1>1. Found \subseteq 0..Versions /\ Found # {}
    BY ResolvedLoaded DEF Candidates
  <1>2. PICK v \in Found : \A u \in Found : u <= v
    <2> HIDE DEF Found
    <2> QED BY <1>1, GreatestNat, PaneConstants
  <1>3. PICK p \in Candidates : v = ResolveRunningVersion(p)
    OBVIOUS
  <1>4. Best(p)
    BY <1>2, <1>3
  <1>5. SelectRunningVersion = ResolveRunningVersion(CHOOSE q \in Candidates : Best(q))
    BY DEF SelectRunningVersion
  <1>6. Best(CHOOSE q \in Candidates : Best(q))
    <2> HIDE DEF Best
    <2> QED BY <1>3, <1>4
  <1> QED BY <1>5, <1>6

(* What the daemon takes from the processes holds in each state. *)
LEMMA PcInvTrue == PcInv => PaneTrue
  <1> SUFFICES ASSUME PcInv PROVE PaneTrue
    OBVIOUS
  <1>1. PcTypeOK
    <2>1. ToSet(order) \subseteq Panes
      BY DEF PcInv, ToSet
    <2> QED BY <2>1, PidOfPane DEF PcInv, PcTypeOK, Processes
  <1>2. NoFalseMismatch
    <2> SUFFICES ASSUME NEW told \in BOOLEAN, NEW p, p = PidOf(Main), p # NoPid, TuiExe(procs[p].exe)
                 PROVE  RunningVersion(IF told THEN p ELSE NoPid) >= procs[p].loaded
      BY DEF NoFalseMismatch
    <2>1. p \in Pids
      BY PidOfPane
    <2>2. procs[p].what = "claude" /\ procs[p].loaded \in 0..Versions
      <3>1. PICK q \in Processes : q = procs[p] /\ Marked(q, markers[p]) /\ TuiExe(q.exe)
        BY <2>1 DEF PcInv
      <3>2. q.what \in {"none", "claude", "shell"} /\ q.loaded \in 0..Versions
        BY DEF Processes
      <3>3. q.what \notin {"none", "shell"}
        BY <3>1 DEF Marked, TuiExe, FreePids
      <3> QED BY <3>1, <3>2, <3>3
    <2>3. ResolveRunningVersion(p) = procs[p].loaded /\ procs[p].loaded # 0
      BY <2>1, <2>2, ResolvedLoaded
    <2>4. CASE told
      BY <2>2, <2>3, <2>4 DEF RunningVersion
    <2>5. CASE ~told
      <3>1. p \in Candidates
        BY <2>1, <2>2, <2>3 DEF Candidates
      <3>2. RunningVersion(NoPid) = SelectRunningVersion
        BY DEF RunningVersion
      <3> QED BY <2>2, <2>3, <2>5, <3>1, <3>2, SelectedHighest
    <2> QED BY <2>4, <2>5
  <1>3. VersionOfTheLiving
    <2> SUFFICES ASSUME NEW pn \in ToSet(order), RunningVersion(PidOf(pn)) # 0
                 PROVE  \E p \in Pids : procs[p].what = "claude" /\ procs[p].loaded = RunningVersion(PidOf(pn))
      BY DEF VersionOfTheLiving
    <2> DEFINE own == PidOf(pn)
    <2>1. own \in Pids /\ procs[own].pane = pn /\ own # NoPid
      BY PidOfPane
    <2>2. procs[own].what # "none"
      <3>1. pn # NoPane
        BY PaneConstants DEF PcInv, ToSet
      <3> QED BY <2>1, <3>1 DEF PcInv, Marked, FreePids
    <2> HIDE DEF own
    <2>3. CASE ResolveRunningVersion(own) # 0
      <3>1. RunningVersion(own) = ResolveRunningVersion(own)
        BY <2>1, <2>3 DEF RunningVersion
      <3> QED BY <2>1, <2>2, <2>3, <3>1, ResolvedLoaded DEF own
    <2>4. CASE ResolveRunningVersion(own) = 0
      <3>1. RunningVersion(own) = SelectRunningVersion
        BY <2>1, <2>4 DEF RunningVersion
      <3>2. Candidates # {}
        BY <3>1 DEF SelectRunningVersion, own
      <3>3. PICK p \in Candidates : SelectRunningVersion = ResolveRunningVersion(p)
        BY <3>2, SelectedHighest
      <3>4. p \in Pids /\ procs[p].what # "none"
        BY DEF Candidates
      <3> QED BY <3>1, <3>3, <3>4, ResolvedLoaded DEF own
    <2> QED BY <2>3, <2>4
  <1> QED BY <1>1, <1>2, <1>3 DEF PaneTrue, PcInv

-----------------------------------------------------------------------------
LEMMA PcInitInv == PcInit => PcInv
  <1> SUFFICES ASSUME PcInit PROVE PcInv
    OBVIOUS
  <1>1. FreePids \in Processes /\ Marked(FreePids, 0)
    BY PaneConstants DEF FreePids, Processes, Marked
  <1>2. order = <<>> /\ ToSet(order) = {} /\ IsInjective(order) /\ order \in Seq(Panes)
    BY DEF PcInit, ToSet, IsInjective
  <1>3. install.version = 1 /\ install = [layout |-> install.layout, version |-> install.version]
    BY DEF PcInit
  <1>4. procs = [p \in Pids |-> FreePids] /\ markers = [p \in Pids |-> 0] /\ cycle.at = "off" /\ PassShaped
    BY DEF PcInit, NoPass, PassShaped
  <1> QED BY <1>1, <1>2, <1>3, <1>4, PaneConstants DEF PcInv, PanesAlive, TypedWhereRead, FreePids

(* A pane comes first or last. *)
LEMMA PaneAdded ==
    ASSUME NEW s \in Seq(Panes), IsInjective(s), NEW e \in Panes, e \notin ToSet(s),
           NEW t, t = <<e>> \o s \/ t = Append(s, e)
    PROVE  t \in Seq(Panes) /\ IsInjective(t) /\ ToSet(t) = ToSet(s) \cup {e}
  <1>0. /\ Len(s) \in Nat /\ DOMAIN s = 1..Len(s) /\ ToSet(s) = {s[i] : i \in 1..Len(s)}
        /\ \A w \in Seq(Panes) : Len(w) \in Nat /\ DOMAIN w = 1..Len(w) /\ ToSet(w) = {w[i] : i \in 1..Len(w)}
    BY DEF ToSet
  <1>1. CASE t = <<e>> \o s
    <2>1. t \in Seq(Panes) /\ Len(t) = Len(s) + 1 /\ t[1] = e /\ \A i \in 2..Len(t) : t[i] = s[i - 1]
      BY <1>1
    <2>2. \A i \in 1..Len(s) : s[i] = t[i + 1] /\ i + 1 \in 1..Len(t)
      BY <2>1
    <2>3. \A i \in 2..Len(t) : t[i] = s[i - 1] /\ i - 1 \in 1..Len(s)
      BY <2>1
    <2>4. ToSet(t) = ToSet(s) \cup {e}
      <3>1. ASSUME NEW a \in 1..Len(t) PROVE t[a] \in ToSet(s) \cup {e}
        <4>1. CASE a = 1
          BY <2>1, <4>1
        <4>2. CASE a # 1
          <5>1. a \in 2..Len(t)
            BY <1>0, <2>1, <4>2
          <5>2. t[a] = s[a - 1] /\ a - 1 \in 1..Len(s)
            BY <2>3, <5>1
          <5> QED BY <1>0, <5>2
        <4> QED BY <4>1, <4>2
      <3>2. e \in ToSet(t)
        BY <1>0, <2>1
      <3>3. ToSet(s) \subseteq ToSet(t)
        BY <1>0, <2>1, <2>2
      <3>4. ToSet(t) = {t[i] : i \in 1..Len(t)}
        BY <1>0, <2>1
      <3>5. ToSet(t) \subseteq ToSet(s) \cup {e}
        BY <3>1, <3>4
      <3> QED BY <3>2, <3>3, <3>5
    <2>5. ASSUME NEW a \in 1..Len(t), NEW b \in 1..Len(t), t[a] = t[b] PROVE a = b
      <3>0. \A c \in 2..Len(t) : t[c] # e
        BY <1>0, <2>3
      <3>1. a = 1 <=> b = 1
        BY <2>1, <2>5, <3>0
      <3>2. CASE a # 1
        <4>1. a \in 2..Len(t) /\ b \in 2..Len(t)
          BY <2>1, <3>1, <3>2
        <4>2. a - 1 = b - 1
          BY <1>0, <2>3, <2>5, <4>1 DEF IsInjective
        <4> QED BY <4>2
      <3> QED BY <3>1, <3>2
    <2> QED BY <1>0, <2>1, <2>4, <2>5 DEF IsInjective
  <1>2. CASE t = Append(s, e)
    <2>1. t \in Seq(Panes) /\ Len(t) = Len(s) + 1 /\ t[Len(t)] = e /\ \A i \in 1..Len(s) : t[i] = s[i]
      BY <1>2
    <2>2. ToSet(t) = ToSet(s) \cup {e}
      <3>1. ToSet(t) \subseteq ToSet(s) \cup {e}
        BY <1>0, <2>1
      <3>2. e \in ToSet(t)
        BY <1>0, <2>1
      <3>3. ToSet(s) \subseteq ToSet(t)
        BY <1>0, <2>1
      <3> QED BY <3>1, <3>2, <3>3
    <2>3. ASSUME NEW a \in 1..Len(t), NEW b \in 1..Len(t), t[a] = t[b] PROVE a = b
      <3>1. a = Len(t) <=> b = Len(t)
        BY <1>0, <2>1, <2>3
      <3>2. CASE a # Len(t)
        BY <1>0, <2>1, <2>3, <3>1, <3>2 DEF IsInjective
      <3> QED BY <3>1, <3>2
    <2> QED BY <1>0, <2>1, <2>2, <2>3 DEF IsInjective
  <1> QED BY <1>1, <1>2

LEMMA PaneTaken ==
    ASSUME NEW s \in Seq(Panes), IsInjective(s), NEW i \in DOMAIN s
    PROVE  /\ RemoveAt(s, i) \in Seq(Panes) /\ IsInjective(RemoveAt(s, i))
           /\ ToSet(RemoveAt(s, i)) = ToSet(s) \ {s[i]}
  <1> DEFINE t == RemoveAt(s, i)
  <1>1. i \in 1..Len(s) /\ Len(s) \in Nat
    OBVIOUS
  <1> DEFINE left == SubSeq(s, 1, i - 1)
             right == SubSeq(s, i + 1, Len(s))
  <1>2. left \in Seq(Panes) /\ Len(left) = i - 1 /\ \A k \in 1..i - 1 : left[k] = s[k]
    BY <1>1
  <1>3. right \in Seq(Panes) /\ Len(right) = Len(s) - i /\ \A k \in 1..Len(s) - i : right[k] = s[k + i]
    BY <1>1
  <1>10. t = left \o right
    BY DEF RemoveAt
  <1> HIDE DEF left, right, t
  <1>4. t \in Seq(Panes) /\ Len(t) = Len(s) - 1
    BY <1>1, <1>2, <1>3, <1>10
  <1>5. ASSUME NEW k \in 1..Len(t) PROVE t[k] = IF k < i THEN s[k] ELSE s[k + 1]
    <2>1. CASE k < i
      BY <1>1, <1>2, <1>3, <1>4, <1>10, <2>1
    <2>2. CASE ~(k < i)
      <3>1. t[k] = right[k - (i - 1)]
        BY <1>1, <1>2, <1>3, <1>4, <1>10, <2>2
      <3>2. k - (i - 1) \in 1..Len(s) - i /\ k - (i - 1) + i = k + 1
        BY <1>1, <1>4, <2>2
      <3> QED BY <1>3, <2>2, <3>1, <3>2
    <2> QED BY <2>1, <2>2
  <1>6. IsInjective(t)
    BY <1>1, <1>4, <1>5 DEF IsInjective
  <1>7. ToSet(t) \subseteq ToSet(s) \ {s[i]}
    BY <1>1, <1>4, <1>5 DEF IsInjective, ToSet
  <1>8. ASSUME NEW x \in ToSet(s) \ {s[i]} PROVE x \in ToSet(t)
    <2>1. PICK k \in 1..Len(s) : x = s[k]
      BY DEF ToSet
    <2>2. k # i
      BY <2>1
    <2>3. CASE k < i
      <3>1. k \in 1..Len(t) /\ t[k] = s[k]
        BY <1>1, <1>4, <1>5, <2>3
      <3> QED BY <1>4, <2>1, <3>1 DEF ToSet
    <2>4. CASE k > i
      <3>1. k - 1 \in 1..Len(t) /\ t[k - 1] = s[k]
        BY <1>1, <1>4, <1>5, <2>4
      <3> QED BY <1>4, <2>1, <3>1 DEF ToSet
    <2> QED BY <1>1, <2>2, <2>3, <2>4
  <1> QED BY <1>4, <1>6, <1>7, <1>8 DEF t

LEMMA StartedMarked ==
    ASSUME PcInv, NEW pn \in Panes
    PROVE  LET started == [StartedNow EXCEPT !.pane = pn] IN
           /\ started \in Processes /\ started.pane = pn /\ Marked(started, install.version)
  <1>1. install.version \in 0..Versions /\ install.version # 0
    BY PaneConstants DEF PcInv
  <1> QED BY <1>1 DEF StartedNow, Processes, Marked, FreePids

(* The panes and the processes go on. *)
LEMMA PanesMoveInv ==
    ASSUME PcInv,
           \/ \E pn \in Panes, p \in Pids, what \in {"claude", "shell"}, first \in BOOLEAN :
                PaneOpens(pn, p, what, first)
           \/ \E pn \in Panes, old, p \in Pids : Respawns(pn, old, p)
           \/ \E p \in Pids : Exits(p)
           \/ Updates
    PROVE  PcInv'
  <1>0. TypedWhereRead' /\ PassShaped'
    BY DEF PcInv, TypedWhereRead, PassShaped, PaneOpens, Respawns, Exits, Updates
  <1>1. ASSUME NEW pn \in Panes, NEW p \in Pids, NEW what \in {"claude", "shell"}, NEW first \in BOOLEAN,
               PaneOpens(pn, p, what, first)
        PROVE  PcInv'
    <2> DEFINE new == IF what = "claude" THEN [StartedNow EXCEPT !.pane = pn]
                      ELSE [FreePids EXCEPT !.what = "shell", !.exe = "other", !.pane = pn]
               mark == IF what = "claude" THEN install.version ELSE markers[p]
    <2>1. new \in Processes /\ new.pane = pn /\ Marked(new, mark) /\ mark \in 0..Versions
      <3>1. CASE what = "claude"
        BY <3>1, StartedMarked DEF PcInv
      <3>2. CASE what = "shell"
        <4>1. new = [what |-> "shell", loaded |-> 0, exe |-> "other", pane |-> pn]
          BY <3>2 DEF FreePids
        <4>2. mark = markers[p]
          BY <3>2
        <4> HIDE DEF new, mark
        <4> QED BY <4>1, <4>2, PaneConstants DEF PcInv, Processes, Marked
      <3> QED BY <3>1, <3>2
    <2>2. order' \in Seq(Panes) /\ IsInjective(order') /\ ToSet(order') = ToSet(order) \cup {pn}
      BY <1>1, PaneAdded DEF PaneOpens, PcInv
    <2>3. procs' = [procs EXCEPT ![p] = new] /\ markers' = [markers EXCEPT ![p] = mark]
      BY <1>1 DEF PaneOpens, PcInv
    <2>4. procs[p] = FreePids /\ install' = install
      BY <1>1 DEF PaneOpens
    <2> HIDE DEF new, mark
    <2>5. procs' \in [Pids -> Processes] /\ markers' \in [Pids -> 0..Versions]
      BY <2>1, <2>3 DEF PcInv
    <2>6. \A q \in Pids : Marked(procs'[q], markers'[q])
      BY <2>1, <2>3 DEF PcInv
    <2>7. PanesAlive'
      <3>1. ASSUME NEW e \in ToSet(order') PROVE \E q \in Pids : procs'[q].pane = e
        <4>1. CASE e = pn
          BY <2>1, <2>3, <4>1 DEF PcInv
        <4>2. CASE e # pn
          <5>1. PICK q \in Pids : procs[q].pane = e
            BY <2>2, <4>2 DEF PcInv, PanesAlive
          <5>2. e # NoPane
            BY <2>2, PaneConstants DEF PcInv, ToSet
          <5>3. q # p
            BY <2>4, <5>1, <5>2 DEF FreePids
          <5> QED BY <2>3, <5>1, <5>3 DEF PcInv
        <4> QED BY <4>1, <4>2
      <3>2. ASSUME NEW q \in Pids, procs'[q].pane # NoPane PROVE procs'[q].pane \in ToSet(order')
        BY <2>1, <2>2, <2>3, <3>2 DEF PcInv, PanesAlive
      <3>3. ASSUME NEW q1 \in Pids, NEW q2 \in Pids, procs'[q1].pane = procs'[q2].pane, q1 # q2
            PROVE  procs'[q1].pane = NoPane
        <4>1. \A q \in Pids : procs[q].pane # pn
          BY <1>1, PaneConstants DEF PaneOpens, PcInv, PanesAlive
        <4>2. q1 # p /\ q2 # p
          BY <2>1, <2>3, <3>3, <4>1 DEF PcInv
        <4> QED BY <2>3, <3>3, <4>2 DEF PcInv, PanesAlive
      <3> QED BY <3>1, <3>2, <3>3 DEF PanesAlive
    <2> QED BY <1>0, <2>2, <2>4, <2>5, <2>6, <2>7 DEF PcInv
  <1>2. ASSUME NEW pn \in Panes, NEW old \in Pids, NEW p \in Pids, Respawns(pn, old, p)
        PROVE  PcInv'
    <2> DEFINE new == [StartedNow EXCEPT !.pane = pn]
               left == [procs[old] EXCEPT !.pane = NoPane]
    <2>0. procs[old] \in Processes /\ Marked(procs[old], markers[old]) /\ procs[old].what = "claude" /\ procs[old].pane = pn
      BY <1>2 DEF Respawns, PcInv
    <2>1. new \in Processes /\ new.pane = pn /\ Marked(new, install.version) /\ install.version \in 0..Versions
      BY StartedMarked, PaneConstants DEF PcInv
    <2>2. left \in Processes /\ left.pane = NoPane /\ Marked(left, markers[old])
      BY <2>0 DEF Processes, Marked
    <2>3. procs[p] = FreePids /\ p # old
      BY <1>2, <2>0 DEF Respawns, FreePids
    <2>4. /\ procs' = [procs EXCEPT ![old] = left, ![p] = new]
          /\ markers' = [markers EXCEPT ![p] = install.version] /\ order' = order /\ install' = install
      <3>1. procs' = [procs EXCEPT ![old].pane = NoPane, ![p] = [StartedNow EXCEPT !.pane = pn]]
        BY <1>2 DEF Respawns
      <3>2. [procs EXCEPT ![old].pane = NoPane, ![p] = [StartedNow EXCEPT !.pane = pn]] = [procs EXCEPT ![old] = left, ![p] = new]
        OBVIOUS
      <3> QED BY <1>2, <3>1, <3>2 DEF Respawns
    <2> HIDE DEF new, left
    <2>5. procs' \in [Pids -> Processes] /\ markers' \in [Pids -> 0..Versions]
      BY <2>1, <2>2, <2>4 DEF PcInv
    <2>6. \A q \in Pids : Marked(procs'[q], markers'[q])
      BY <2>1, <2>2, <2>3, <2>4 DEF PcInv
    <2>7. PanesAlive'
      <3>0. procs \in [Pids -> Processes] /\ PanesAlive /\ pn \in ToSet(order) /\ NoPane # pn
        BY <2>0, PaneConstants DEF PcInv, PanesAlive
      <3>1. ASSUME NEW e \in ToSet(order) PROVE \E q \in Pids : procs'[q].pane = e
        <4>1. CASE e = pn
          BY <2>1, <2>4, <3>0, <4>1
        <4>2. CASE e # pn
          <5>1. PICK q \in Pids : procs[q].pane = e
            BY <3>0 DEF PanesAlive
          <5>2. e # NoPane
            BY PaneConstants DEF PcInv, ToSet
          <5>3. q # p /\ q # old
            BY <2>0, <2>3, <4>2, <5>1, <5>2 DEF FreePids
          <5> QED BY <2>4, <3>0, <5>1, <5>3
        <4> QED BY <4>1, <4>2
      <3>2. ASSUME NEW q \in Pids, procs'[q].pane # NoPane PROVE procs'[q].pane \in ToSet(order)
        BY <2>1, <2>2, <2>4, <3>0, <3>2 DEF PanesAlive
      <3>3. ASSUME NEW q1 \in Pids, NEW q2 \in Pids, procs'[q1].pane = procs'[q2].pane, q1 # q2
            PROVE  procs'[q1].pane = NoPane
        <4>1. \A q \in Pids : procs[q].pane = pn => q = old
          BY <2>0, <3>0 DEF PanesAlive
        <4>2. q1 # p /\ q2 # p
          BY <2>1, <2>2, <2>3, <2>4, <3>0, <3>3, <4>1
        <4>3. CASE q1 = old \/ q2 = old
          BY <2>2, <2>4, <3>0, <3>3, <4>2, <4>3
        <4>4. CASE q1 # old /\ q2 # old
          BY <2>4, <3>0, <3>3, <4>2, <4>4 DEF PanesAlive
        <4> QED BY <4>3, <4>4
      <3> QED BY <2>4, <3>1, <3>2, <3>3 DEF PanesAlive
    <2> QED BY <1>0, <2>4, <2>5, <2>6, <2>7 DEF PcInv
  <1>3. ASSUME NEW p \in Pids, Exits(p) PROVE PcInv'
    <2>1. /\ procs' = [procs EXCEPT ![p] = FreePids] /\ markers' = markers /\ install' = install
      BY <1>3 DEF Exits
    <2>2. FreePids \in Processes /\ FreePids.pane = NoPane /\ \A v : Marked(FreePids, v)
      BY PaneConstants DEF FreePids, Processes, Marked
    <2>3. /\ order' \in Seq(Panes) /\ IsInjective(order')
          /\ ToSet(order') = ToSet(order) \ {procs[p].pane}
      <3>1. CASE procs[p].pane = NoPane /\ order' = order
        <4>1. NoPane \notin ToSet(order)
          BY PaneConstants DEF PcInv, ToSet
        <4> QED BY <3>1, <4>1 DEF PcInv
      <3>2. CASE \E i \in DOMAIN order : order[i] = procs[p].pane /\ order' = RemoveAt(order, i)
        BY <3>2, PaneTaken DEF PcInv
      <3> QED BY <1>3, <3>1, <3>2 DEF Exits
    <2>4. procs' \in [Pids -> Processes] /\ markers' \in [Pids -> 0..Versions]
      BY <2>1, <2>2 DEF PcInv
    <2>5. \A q \in Pids : Marked(procs'[q], markers'[q])
      BY <2>1, <2>2 DEF PcInv
    <2>6. \A e \in ToSet(order') : \E q \in Pids : procs'[q].pane = e
      <3> SUFFICES ASSUME NEW e \in ToSet(order) \ {procs[p].pane} PROVE \E q \in Pids : procs'[q].pane = e
        BY <2>3
      <3>1. PICK q \in Pids : procs[q].pane = e
        BY DEF PcInv, PanesAlive
      <3> QED BY <2>1, <3>1 DEF PcInv
    <2>7. ASSUME NEW q \in Pids, procs'[q].pane # NoPane PROVE procs'[q].pane \in ToSet(order')
      <3>1. q # p /\ procs'[q] = procs[q]
        BY <2>1, <2>2, <2>7 DEF PcInv
      <3>2. procs[q].pane # procs[p].pane
        BY <2>7, <3>1 DEF PcInv, PanesAlive
      <3> QED BY <2>3, <2>7, <3>1, <3>2 DEF PcInv, PanesAlive
    <2>8. ASSUME NEW q1 \in Pids, NEW q2 \in Pids, procs'[q1].pane = procs'[q2].pane, q1 # q2
          PROVE  procs'[q1].pane = NoPane
      <3>1. CASE q1 = p \/ q2 = p
        BY <2>1, <2>2, <2>8, <3>1 DEF PcInv
      <3>2. CASE q1 # p /\ q2 # p
        BY <2>1, <2>8, <3>2 DEF PcInv, PanesAlive
      <3> QED BY <3>1, <3>2
    <2>9. PanesAlive'
      BY <2>6, <2>7, <2>8 DEF PanesAlive
    <2> QED BY <1>0, <2>1, <2>3, <2>4, <2>5, <2>9 DEF PcInv
  <1>4. ASSUME Updates PROVE PcInv'
    <2> DEFINE moved(q) == IF q.exe = "package" THEN [q EXCEPT !.exe = "aside"] ELSE q
    <2>1. \A p \in Pids : /\ procs'[p] = moved(procs[p]) /\ procs'[p] \in Processes
                          /\ procs'[p].pane = procs[p].pane /\ Marked(procs'[p], markers[p])
      <3> SUFFICES ASSUME NEW p \in Pids
                   PROVE  /\ procs'[p] = moved(procs[p]) /\ procs'[p] \in Processes
                          /\ procs'[p].pane = procs[p].pane /\ Marked(procs'[p], markers[p])
        OBVIOUS
      <3>1. procs[p] \in Processes /\ Marked(procs[p], markers[p]) /\ procs'[p] = moved(procs[p])
        BY <1>4 DEF Updates, PcInv
      <3> HIDE DEF PcInv
      <3>2. moved(procs[p]) \in Processes /\ moved(procs[p]).pane = procs[p].pane
        BY <3>1 DEF Processes
      <3>3. Marked(moved(procs[p]), markers[p])
        BY <3>1 DEF Processes, Marked, FreePids
      <3> QED BY <3>1, <3>2, <3>3
    <2>2. procs' \in [Pids -> Processes]
      <3>1. procs' = [p \in Pids |-> procs'[p]]
        BY <1>4 DEF Updates
      <3> QED BY <2>1, <3>1
    <2>3. install' = [install EXCEPT !.version = @ + 1] /\ install.version < Versions /\ UNCHANGED <<order, markers>>
      BY <1>4 DEF Updates
    <2>4. install'.version \in 1..Versions /\ install' = [layout |-> install'.layout, version |-> install'.version]
      BY <2>3, PaneConstants DEF PcInv
    <2>5. PanesAlive'
      <3>1. \A e \in ToSet(order) : \E q \in Pids : procs'[q].pane = e
        BY <2>1 DEF PcInv, PanesAlive
      <3>2. \A q \in Pids : procs'[q].pane # NoPane => procs'[q].pane \in ToSet(order)
        BY <2>1 DEF PcInv, PanesAlive
      <3>3. ASSUME NEW q1 \in Pids, NEW q2 \in Pids, procs'[q1].pane = procs'[q2].pane, q1 # q2
            PROVE  procs'[q1].pane = NoPane
        <4>1. procs'[q1].pane = procs[q1].pane /\ procs'[q2].pane = procs[q2].pane
          BY <2>1
        <4> QED BY <3>3, <4>1 DEF PcInv, PanesAlive
      <3> QED BY <2>3, <3>1, <3>2, <3>3 DEF PanesAlive
    <2> QED BY <1>0, <2>1, <2>2, <2>3, <2>4, <2>5 DEF PcInv
  <1> QED BY <1>1, <1>2, <1>3, <1>4

LEMMA PcStepInv == ASSUME PcInv, [PcNext]_pcVars PROVE PcInv'
  <1>1. ASSUME UNCHANGED <<order, procs, markers, install>>, TypedWhereRead', PassShaped' PROVE PcInv'
    <2>1. PanesAlive'
      BY <1>1 DEF PcInv, PanesAlive
    <2> QED BY <1>1, <2>1 DEF PcInv
  <1>2. CASE FindsPane
    <2>1. cycle'.at = "found" /\ PassShaped'
      BY <1>2 DEF FindsPane, NoPass, PassShaped
    <2> QED BY <1>1, <1>2, <2>1 DEF FindsPane, TypedWhereRead
  <1>3. CASE PassEnds
    <2>1. cycle'.at = "off" /\ PassShaped'
      BY <1>3 DEF PassEnds, NoPass, PassShaped
    <2> QED BY <1>1, <1>3, <2>1 DEF PassEnds, TypedWhereRead
  <1>4. ASSUME NEW told \in BOOLEAN, AsksPid(told) PROVE PcInv'
    <2>1. cycle'.at = "asked" /\ PassShaped'
      BY <1>4 DEF AsksPid, PcInv, PassShaped
    <2> QED BY <1>1, <1>4, <2>1 DEF AsksPid, TypedWhereRead
  <1>5. CASE ReadsVersion
    <2>1. cycle'.at = "read" /\ PassShaped'
      BY <1>5 DEF ReadsVersion, PcInv, PassShaped
    <2> QED BY <1>1, <1>5, <2>1 DEF ReadsVersion, TypedWhereRead
  <1>6. CASE Types
    <2>1. cycle'.typed \in {cycle'.pane, NoPane} /\ PassShaped'
      BY <1>6 DEF Types, TypedInto, PcInv, PassShaped
    <2> QED BY <1>1, <1>6, <2>1 DEF Types, TypedWhereRead
  <1>7. CASE UNCHANGED pcVars
    BY <1>1, <1>7 DEF PcInv, pcVars, TypedWhereRead, PassShaped
  <1> QED BY <1>2, <1>3, <1>4, <1>5, <1>6, <1>7, PanesMoveInv DEF PcNext

LEMMA PcAlways == PcSpec => []PaneTrue
  BY PcInitInv, PcStepInv, PcInvTrue, PTL DEF PcSpec

-----------------------------------------------------------------------------
(* What ails the account is told within the alert interval, a login dialog    *)
(* that is open does not give the budget of logins back, and a confirmation   *)
(* that was left unanswered is not forgotten: for all intervals and budgets.  *)
THEOREM AccountTroubleToldEach == Spec => AccountTroubleTold
  <1>1. LgGood /\ CrGood => LgTypeOK /\ CrTypeOK /\ ProvedFailureTold /\ ExhaustionTold
    BY DEF LgGood, CrGood
  <1> QED BY Parts, LgAlways, CrAlways, <1>1, PTL DEF AccountTroubleTold

(* Nothing is typed into a shell by an update, a session cleared by hand is   *)
(* told to resume, respawns keep their distance, and a hung session is        *)
(* respawned: for all windows, cooldowns and signals.                         *)
THEOREM RestartsSafeEach == Spec => []RestartsSafe
  <1>1. AuGood /\ RsGood => RestartsSafe
    BY DEF AuGood, RsGood, RestartsSafe
  <1> QED BY Parts, AuAlways, RsAlways, <1>1, PTL

(* A prompt is paged once and in time, Escape goes to a stale one only, and a *)
(* malformed call is nudged once and in time: for all prompts, blocks and     *)
(* waits.                                                                     *)
THEOREM PromptsHandledEach == Spec => []PromptsHandled
  <1>1. PpGood /\ MfGood => PromptsHandled
    BY DEF PpGood, MfGood, PromptsHandled
  <1> QED BY Parts, PpAlways, MfAlways, <1>1, PTL

(* What is read off the screen is so, and the daemon types into the pane that *)
(* it read and takes the version of a process that lives: for all sizes of    *)
(* the screen that hold the prompt and its bar, any panes, pids and versions. *)
THEOREM SightTrueEach == Spec => []SightTrue
  <1>1. ScreenRead /\ PaneTrue => SightTrue
    BY DEF SightTrue
  <1> QED BY Parts, RdAlways, PcAlways, <1>1, PTL
=============================================================================
