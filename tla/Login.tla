------------------------------- MODULE Login -------------------------------
(***************************************************************************)
(* The recovery of a login (src/policy.rs, check_reauth and                *)
(* check_login_expiry; src/credentials.rs).  A session whose access token  *)
(* expired, or whose refresh token is about to, is logged in by a process  *)
(* (self-login) that opens a dialog over the session; a login screen that  *)
(* comes up by itself gets a /login typed into it.  The two halves look at *)
(* the same pane in the same pass and share a latch, a budget of attempts  *)
(* and a watchdog that takes an unanswered dialog away.                    *)
(***************************************************************************)
EXTENDS DaemonGates

CONSTANTS
    LoginSpacing,  \* self_login_retry_seconds
    MaxLogins,     \* self_login_max_attempts
    AbandonAfter,  \* self_login_abandon_seconds
    LoginAlert,    \* alert_interval_seconds
    AutoBanner,    \* auth_error_auto_self_login
    FromStore,     \* expiry_from_credentials
    MaxStarting    \* bound: self-login processes at work

ASSUME LoginAssumption ==
    /\ {LoginSpacing, MaxLogins, AbandonAfter, LoginAlert, MaxStarting} \subseteq Nat
    /\ AutoBanner \in BOOLEAN /\ FromStore \in BOOLEAN

VARIABLES
    creds,    \* access: is the token valid; refresh; moved: renewed since the
              \* daemon looked (last_seen_refresh_expiry_ms)
    screen,   \* "tui", "gate" (no TUI, no link), and the dialog: "picker", "code"
    starting, \* self-login processes that have not opened the dialog yet
    login,    \* the daemon's record: reauth_detected, reauth_banner_detected,
              \* login_injected, last_reauth_alert, login_expiry_detected,
              \* last_login_expiry_alert, and of self-login: last attempt,
              \* attempts, opened_at
    mute,     \* history: passes with a proved 401 about which nothing was said
    parked    \* history: a pass took the dialog away and opened it again

lgVars == <<creds, screen, starting, login, mute, parked>>

\* classify, for the days that are left: more than expiry_auto_days ("far"), or
\* not ("near").
Refresh == {"healthy", "far", "near", "expired"}
InDialog(s) == s \in {"picker", "code"}

\* What a pass reads: the store or not, the warning, the 401 banner (of the
\* session or in its text), and whether the hard cap is due (hardcap_lead_due).
LoginSights == [store : BOOLEAN, warning : {"none", "far", "near"}, banner : BOOLEAN,
                hardcap : BOOLEAN]
Legible(sight) ==
    /\ screen # "tui" => sight.warning = "none"
    /\ screen \in {"gate", "code"} => ~sight.banner
    /\ sight.hardcap => sight.store /\ creds.refresh \in {"far", "near"}

\* classify_reauth_frame: the picker still shows a prompt mark of the TUI.
Signal(sight) ==
    IF screen \in {"gate", "code"} THEN "login" ELSE IF sight.banner THEN "banner" ELSE "none"

\* read_access_token and read, for a store that may not be readable.
Access(sight) == IF ~sight.store THEN "unknown" ELSE IF creds.access THEN "valid" ELSE "expired"
Expiry(sight) == IF sight.store THEN creds.refresh ELSE "unknown"

LoginAged ==
    [login EXCEPT !.alert = Older(@, LoginAlert), !.expAlert = Older(@, LoginAlert),
                  !.opened = Older(@, AbandonAfter), !.attempt = Older(@, LoginSpacing)]

MayLogin(m) ==
    /\ m.opened = None /\ m.attempts < MaxLogins
    /\ ~Within(m.attempt, LoginSpacing)

\* fire_self_login books the attempt before it starts the process.
LoggedIn(m) == [m EXCEPT !.attempt = 0, !.attempts = @ + 1, !.opened = 0]
AlertDue(age) == age = None \/ age >= LoginAlert

-----------------------------------------------------------------------------
\* run_self_login_abandon_watchdog
Abandons(m) == AbandonAfter > 0 /\ Since(m.opened, AbandonAfter)
Watched(m) == IF Abandons(m) THEN [m EXCEPT !.opened = None] ELSE m

\* decide_banner_action
BannerActionDeaf(m, sight) ==
    IF Access(sight) = "valid" \/ ~MayLogin(m) THEN "ignore"
    ELSE IF Access(sight) = "expired" /\ AutoBanner THEN "login" ELSE "alert"
BannerAction(m, sight) ==
    IF Access(sight) = "valid" THEN "ignore"
    ELSE IF Access(sight) = "expired" /\ AutoBanner /\ MayLogin(m) THEN "login"
    ELSE "alert"

\* check_reauth_banner
Banner(m, sight) ==
    LET seen == [m EXCEPT !.banner = TRUE]
    IN  CASE BannerAction(m, sight) = "login" -> LoggedIn(seen)
          [] BannerAction(m, sight) = "alert" /\ AlertDue(m.alert) -> [seen EXCEPT !.alert = 0]
          [] OTHER -> seen

\* The first half of check_reauth: the banner is there, or it has gone.
Reacted(m, sight) ==
    IF Signal(sight) = "banner" THEN Banner(m, sight)
    ELSE IF ~m.banner \/ Signal(sight) = "login" THEN m
    ELSE IF Access(sight) = "valid"
    THEN [m EXCEPT !.banner = FALSE, !.attempts = 0, !.attempt = None, !.opened = None]
    ELSE [m EXCEPT !.banner = FALSE]

\* The second half: /login is typed once into a login screen that no
\* self-login has opened, and the link it shows is passed on.
TypesLogin(m, sight) == Signal(sight) = "login" /\ ~m.injected /\ m.opened = None
Screened(m, sight) ==
    IF Signal(sight) = "login"
    THEN [m EXCEPT !.gate = TRUE,
                   !.injected = @ \/ TypesLogin(m, sight),
                   !.alert = IF screen = "code" /\ AlertDue(@) THEN 0 ELSE @]
    ELSE IF m.gate THEN [m EXCEPT !.gate = FALSE, !.alert = None, !.injected = FALSE]
    ELSE m

\* decide_expiry_action: an unreadable store proves nothing, and denies nothing.
ExpiryAction(m, sight) ==
    LET auto == sight.hardcap \/ "near" \in {sight.warning, Expiry(sight)}
        act == IF auto /\ MayLogin(m) THEN "login" ELSE "alert"
    IN  IF Expiry(sight) \in {"expired", "healthy"} THEN "idle"
        ELSE IF sight.warning # "none" THEN act
        ELSE IF Expiry(sight) # "unknown" /\ (FromStore \/ sight.hardcap) THEN act
        ELSE "idle"

\* A renewal is recognised by the store alone.
Renewed(m, sight) ==
    IF sight.store /\ creds.moved
    THEN [m EXCEPT !.expiring = FALSE, !.expAlert = None, !.attempt = None,
                   !.attempts = 0, !.opened = None]
    ELSE m

\* expiry_window_is_masked
MaskedByReauth(m, shown) == m.gate \/ m.banner
Masked(m, shown) == m.gate \/ m.banner \/ InDialog(shown)

\* check_login_expiry, for what the pane shows by then.
Expected(m, sight, shown) ==
    LET action == ExpiryAction(m, sight)
        noted == [m EXCEPT !.expiring = TRUE, !.expAlert = IF AlertDue(@) THEN 0 ELSE @]
    IN  IF action = "login" THEN LoggedIn(noted)
        ELSE IF action = "alert" THEN noted
        ELSE IF Masked(m, shown) THEN m
        ELSE IF m.expiring
        THEN [m EXCEPT !.expiring = FALSE, !.expAlert = None, !.attempt = None,
                       !.attempts = 0, !.opened = None]
        ELSE [m EXCEPT !.opened = None]

-----------------------------------------------------------------------------
\* One pass: both halves of check_reauth, on the frame that was captured
\* before the watchdog ran, then check_login_expiry.
LgPass(sight) ==
    LET aged == LoginAged
        handed == Watched(aged)
        reacted == Reacted(handed, sight)
        screened == Screened(reacted, sight)
        renewed == Renewed(screened, sight)
        fires == BannerAction(handed, sight) = "login" /\ Signal(sight) = "banner"
        types == TypesLogin(reacted, sight)
    IN  /\ Legible(sight)
        /\ \E left \in (IF Abandons(aged) /\ InDialog(screen) THEN {screen, "tui"} ELSE {screen}) :
           \E shown \in (IF types THEN {"tui", "picker", "code"} ELSE {left}) :
              /\ screen' = shown
              /\ login' = Expected(renewed, sight, shown)
              /\ parked' = (parked \/ (left # screen /\ types))
        /\ starting' = starting + (IF fires \/ ExpiryAction(renewed, sight) = "login" THEN 1 ELSE 0)
        /\ starting' <= MaxStarting
        /\ creds' = IF sight.store THEN [creds EXCEPT !.moved = FALSE] ELSE creds
        /\ mute' = IF \/ Signal(sight) # "banner" \/ Access(sight) # "expired"
                      \/ fires \/ reacted.alert = 0
                   THEN 0 ELSE mute + 1

\* A self-login opens its dialog, or gives up.
Opens ==
    /\ starting > 0 /\ starting' = starting - 1
    /\ screen' \in {screen, "picker", "code"}
    /\ UNCHANGED <<creds, login, mute, parked>>

\* The dialog goes on, is answered by the operator, or left.
Answered ==
    /\ InDialog(screen)
    /\ \/ /\ screen' \in {"tui", "code"}
          /\ UNCHANGED creds
       \/ /\ screen = "code" /\ screen' = "tui"
          /\ creds' = [access |-> TRUE, refresh |-> "healthy", moved |-> TRUE]
    /\ UNCHANGED <<starting, login, mute, parked>>

\* Time takes the tokens, and the session to a login screen; a refresh brings
\* the access token back.
Lapses ==
    /\ \/ creds.access /\ creds' = [creds EXCEPT !.access = FALSE] /\ UNCHANGED screen
       \/ /\ ~creds.access /\ creds.refresh # "expired" /\ UNCHANGED screen
          /\ creds' = [creds EXCEPT !.access = TRUE]
       \/ /\ creds' = [creds EXCEPT !.refresh = CASE @ = "healthy" -> "far" [] @ = "far" -> "near"
                                                  [] OTHER -> "expired"]
          /\ UNCHANGED screen
       \/ ~creds.access /\ screen = "tui" /\ screen' = "gate" /\ UNCHANGED creds
    /\ UNCHANGED <<starting, login, mute, parked>>

LgInit ==
    /\ creds = [access |-> TRUE, refresh |-> "healthy", moved |-> FALSE]
    /\ screen = "tui" /\ starting = 0
    /\ login = [gate |-> FALSE, banner |-> FALSE, injected |-> FALSE, alert |-> None,
                expiring |-> FALSE, expAlert |-> None, attempt |-> None, attempts |-> 0,
                opened |-> None]
    /\ mute = 0 /\ parked = FALSE

LgNext == (\E sight \in LoginSights : LgPass(sight)) \/ Opens \/ Answered \/ Lapses

LgSpec == LgInit /\ [][LgNext]_lgVars

-----------------------------------------------------------------------------
\* The types of the login's part of the daemon's state.
LgTypeOK ==
    /\ creds \in [access : BOOLEAN, refresh : Refresh, moved : BOOLEAN]
    /\ screen \in {"tui", "gate", "picker", "code"} /\ starting \in 0..MaxStarting
    /\ login \in [gate : BOOLEAN, banner : BOOLEAN, injected : BOOLEAN,
                  alert : Ages(LoginAlert), expiring : BOOLEAN, expAlert : Ages(LoginAlert),
                  attempt : Ages(LoginSpacing), attempts : 0..MaxLogins,
                  opened : Ages(AbandonAfter)]

\* A 401 that the credential store confirms is never passed over in silence
\* for longer than the alert interval, whatever the latch, the budget and the
\* spacing of the logins forbid.
ProvedFailureTold == mute <= LoginAlert

\* A pane that the login dialog covers is not taken for one on which nothing
\* expires: the budget of attempts is not given back, unless the credentials
\* were renewed (the incident that expiry_window_is_masked is about).
BudgetHeldInDialog ==
    [][/\ InDialog(screen) /\ InDialog(screen') /\ login' # login
       /\ ~login.banner /\ ~creds.moved
       => login'.attempts >= login.attempts]_lgVars

\* The watchdog hands the session back: it is not put into a login dialog by
\* the very pass that took an unanswered one away.
HandedBack == ~parked
=============================================================================
