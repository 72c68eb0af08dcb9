------------------------------ MODULE WebAdmin ------------------------------
(***************************************************************************)
(* The administration server: one session shared by the HTTPS server and   *)
(* the HTTP gateway of the SoftAP, two tasks that take no lock; the login  *)
(* throttle; the form of the NTRIP services, which the touch screen can    *)
(* save at the same time; and the handlers that restart the device,        *)
(* composed with Firmware.                                                 *)
(*                                                                         *)
(* Times are counted from the events they are measured from.               *)
(***************************************************************************)
EXTENDS Firmware

CONSTANTS
    Browsers,
    IdleLimit,          \* kSessionIdleTimeoutUs, an hour
    BaseDelay, MaxDelay, \* kLoginBaseDelayUs, kLoginMaxDelayUs: 5 and 30 seconds
    FreeFails,          \* failed logins without a delay
    MaxRequests         \* bound on requests and taps

ASSUME WebAdminAssumption ==
    /\ Browsers # {} /\ IdleLimit \in Nat /\ BaseDelay \in Nat /\ MaxDelay \in 0..IdleLimit
    /\ FreeFails \in Nat /\ MaxRequests \in Nat

Servers == {"https", "http"}
Savers == {"https", "touch"}

VARIABLES
    password,       \* admin_set
    token, minted,  \* session_token_, and the number of tokens made so far
    age,            \* since session_last_seen_us_; past the limit when that is 0
    fails, block,   \* failed_login_count_; what is left until login_block_until_us_
    cookie,         \* the token each browser holds
    srv,            \* the request each server works on
    stored, applied, \* a service in the NVS and in its push client
    saver,          \* the saves of that service under way
    requests,
    ghost           \* what the properties remember

session == <<password, token, minted, age, fails, block, cookie>>
services == <<stored, applied, saver>>
vars == <<fwVars, session, srv, services, requests, ghost>>

Idle == [at |-> "idle", b |-> CHOOSE b \in Browsers : TRUE, what |-> "", since |-> 0, n |-> 0]
Quiet == [at |-> "idle", cred |-> "old"]

Init ==
    /\ FirmwareInit
    /\ password \in BOOLEAN /\ token = 0 /\ minted = 0 /\ age = IdleLimit + 1 /\ fails = 0 /\ block = 0
    /\ cookie = [b \in Browsers |-> 0]
    /\ srv = [s \in Servers |-> Idle]
    /\ stored = [cred |-> "old", enabled |-> "old"] /\ applied = stored
    /\ saver = [t \in Savers |-> Quiet]
    /\ requests = 0
    /\ ghost = [due |-> 0, early |-> FALSE, idle |-> 0, wrong |-> FALSE, mixed |-> FALSE, rivals |-> FALSE, tangled |-> FALSE]

Free(s) == srv[s].at = "idle" /\ (s = "https" => upload = NoUpload /\ saver["https"].at = "idle")
Ask(s) == Free(s) /\ requests < MaxRequests /\ requests' = requests + 1
Done(s) == srv' = [srv EXCEPT ![s] = Idle]
LoggingIn(s) == srv[s].at \in {"form", "wrong"}
Rival(s) == \E o \in Servers \ {s} : LoggingIn(o)
Less(a, b) == IF a > b THEN a - b ELSE 0
Larger(a, b) == IF a > b THEN a ELSE b

-----------------------------------------------------------------------------
(* Sessions                                                                *)

\* start_session_cookie()
start_session_cookie(b) ==
    /\ minted' = minted + 1 /\ token' = minted + 1 /\ cookie' = [cookie EXCEPT ![b] = minted + 1]
    /\ age' = 0 /\ fails' = 0 /\ block' = 0

\* login_post_handler(): the block is looked at before the form is read.
login_post_NoBlock(s, b) ==
    /\ Ask(s) /\ password
    /\ srv' = [srv EXCEPT ![s] = [Idle EXCEPT !.at = "form", !.b = b]]
    /\ ghost' = [ghost EXCEPT !.rivals = @ \/ Rival(s), !.early = @ \/ (ghost.due > 0 /\ ~ghost.rivals)]
    /\ UNCHANGED <<fwVars, session, services>>
login_post(s, b) ==
    /\ Ask(s) /\ password /\ block = 0
    /\ srv' = [srv EXCEPT ![s] = [Idle EXCEPT !.at = "form", !.b = b]]
    /\ ghost' = [ghost EXCEPT !.rivals = @ \/ Rival(s), !.early = @ \/ (ghost.due > 0 /\ ~ghost.rivals)]
    /\ UNCHANGED <<fwVars, session, services>>

password_matches(s) ==
    /\ srv[s].at = "form"
    /\ Done(s)
    /\ start_session_cookie(srv[s].b)
    /\ ghost' = [ghost EXCEPT !.due = 0, !.idle = 0, !.mixed = FALSE]
    /\ UNCHANGED <<fwVars, password, services, requests>>

\* A wrong password: the counter is read, and written with the block.
login_wrong(s) ==
    /\ srv[s].at = "form"
    /\ srv' = [srv EXCEPT ![s].at = "wrong", ![s].n = fails + 1]
    /\ UNCHANGED <<fwVars, session, services, requests, ghost>>
delay(n) ==
    LET d == (n - FreeFails) * BaseDelay IN IF d > MaxDelay THEN MaxDelay ELSE d
login_failed(s) ==
    LET n == srv[s].n
        until == Less(delay(n), srv[s].since) IN
    /\ srv[s].at = "wrong"
    /\ Done(s)
    /\ fails' = n
    /\ block' = IF n > FreeFails THEN until ELSE block
    /\ ghost' = [ghost EXCEPT !.due = IF n > FreeFails THEN Larger(@, until) ELSE @]
    /\ UNCHANGED <<fwVars, password, token, minted, age, cookie, services, requests>>

clear_session == token' = 0 /\ age' = IdleLimit + 1

\* logout_handler() asks nobody: it ends the session, whoever has it.  The
\* script of every page posts it when the page is closed.
logout(s, b) ==
    /\ Ask(s)
    /\ clear_session
    /\ cookie' = [cookie EXCEPT ![b] = 0]
    /\ UNCHANGED <<fwVars, password, minted, fails, block, srv, services, ghost>>

\* setup_post_handler(), and the touch screen, which may set it at any time.
setup_post(s, b) ==
    /\ Ask(s) /\ ~password
    /\ srv' = [srv EXCEPT ![s] = [Idle EXCEPT !.at = "setup", !.b = b]]
    /\ UNCHANGED <<fwVars, session, services, ghost>>
setup_save(s) ==
    /\ srv[s].at = "setup" /\ Done(s)
    /\ \/ /\ password' = TRUE /\ start_session_cookie(srv[s].b)
          /\ ghost' = [ghost EXCEPT !.due = 0, !.idle = 0, !.mixed = FALSE]
       \/ UNCHANGED <<session, ghost>>
    /\ UNCHANGED <<fwVars, services, requests>>
on_admin_save ==
    /\ requests < MaxRequests /\ requests' = requests + 1
    /\ password' = TRUE
    /\ UNCHANGED <<fwVars, token, minted, age, fails, block, cookie, srv, services, ghost>>

\* authorize(): the token is compared, the age is looked at, and the session
\* is ended or its time set, each in a step of its own.
Handlers == {"page", "wifi", "config", "update"}
Gateway == {"page", "wifi"}
authorize(s, b, what) ==
    /\ Ask(s) /\ password /\ token # 0 /\ cookie[b] = token
    /\ s = "http" => what \in Gateway
    /\ what = "update" => uploads < MaxUploads
    /\ srv' = [srv EXCEPT ![s] = [Idle EXCEPT !.at = "token", !.b = b, !.what = what, !.n = token]]
    /\ UNCHANGED <<fwVars, session, services, ghost>>
expired_Never == FALSE
expired == age > IdleLimit
session_age(s) ==
    /\ srv[s].at = "token"
    /\ srv' = [srv EXCEPT ![s].at = IF expired THEN "expired" ELSE "fresh", ![s].since = 0]
    /\ ghost' = [ghost EXCEPT !.wrong = @ \/ (srv[s].n = token /\ ~ghost.mixed /\ expired # (ghost.idle > IdleLimit))]
    /\ UNCHANGED <<fwVars, session, services, requests>>
session_expired(s) ==
    /\ srv[s].at = "expired" /\ Done(s)
    /\ clear_session
    /\ UNCHANGED <<fwVars, password, minted, fails, block, cookie, services, requests, ghost>>

\* The request is served.  New WiFi credentials are saved and the device
\* restarts; the services' form and an upload go on on the HTTPS task.
Served(s, what) ==
    /\ srv[s].at = "fresh" /\ srv[s].what = what /\ Done(s)
    /\ age' = srv[s].since
    /\ ghost' = [ghost EXCEPT !.idle = IF srv[s].n = token THEN srv[s].since ELSE @,
                              !.mixed = srv[s].n # token \/ srv[s].since > ghost.idle]
    /\ UNCHANGED <<password, token, minted, fails, block, cookie, stored, applied, requests>>
page(s) == Served(s, "page") /\ UNCHANGED <<fwVars, saver>>
wifi_handler(s) ==
    /\ Served(s, "wifi") /\ restart' = TRUE
    /\ UNCHANGED <<slots, boot, running, upload, streams, validating, uploads, c6Vars, events, record, saver>>
config_post(s) ==
    /\ Served(s, "config")
    /\ saver' = [saver EXCEPT !["https"] = [at |-> "load", cred |-> "old"]]
    /\ UNCHANGED fwVars
update_upload(s) == Served(s, "update") /\ upload_start /\ UNCHANGED saver

Tick ==
    /\ age' = IF age <= IdleLimit THEN age + 1 ELSE age
    /\ block' = Less(block, 1)
    /\ srv' = [s \in Servers |-> IF srv[s].at = "idle" \/ srv[s].since >= MaxDelay THEN srv[s]
                                 ELSE [srv[s] EXCEPT !.since = @ + 1]]
    /\ ghost' = [ghost EXCEPT !.due = Less(@, 1),
                              !.rivals = @ /\ (ghost.due > 1 \/ \E s \in Servers : LoggingIn(s)),
                              !.idle = IF @ <= IdleLimit THEN @ + 1 ELSE @]
    /\ UNCHANGED <<fwVars, password, token, minted, fails, cookie, services, requests>>

-----------------------------------------------------------------------------
(* The services                                                            *)

saveVars == <<fwVars, session, srv, requests>>

\* save_ntrip_config() of the touch screen.
save_ntrip_config ==
    /\ saver["touch"].at = "idle" /\ requests < MaxRequests /\ requests' = requests + 1
    /\ saver' = [saver EXCEPT !["touch"] = [at |-> "enable", cred |-> "touch"]]
    /\ UNCHANGED <<fwVars, session, srv, stored, applied, ghost>>

Tangle(t) == ghost' = [ghost EXCEPT !.tangled = @ \/ \E o \in Savers \ {t} : saver[o].at # "idle"]

\* config_post_handler(): the credentials are loaded, and the password is kept
\* where the form has a blank.  A write that fails ends the request.
config_load ==
    /\ saver["https"].at = "load"
    /\ \E c \in {stored.cred, "https"} : saver' = [saver EXCEPT !["https"] = [at |-> "save", cred |-> c]]
    /\ Tangle("https")
    /\ UNCHANGED <<saveVars, stored, applied>>
config_fails ==
    /\ saver["https"].at \in {"save", "enable"}
    /\ saver' = [saver EXCEPT !["https"] = Quiet]
    /\ ghost' = [ghost EXCEPT !.tangled = TRUE]
    /\ UNCHANGED <<saveVars, stored, applied>>

\* The web saves the credentials first, the touch screen the switch, and
\* without looking whether it was saved.
After(t, at) == CASE t = "https" /\ at = "save" -> "enable"
                  [] t = "touch" /\ at = "enable" -> "save"
                  [] OTHER -> "reload"
save_service(t) ==
    /\ saver[t].at = "save"
    /\ \/ stored' = [stored EXCEPT !.cred = saver[t].cred]
       \/ t = "touch" /\ UNCHANGED stored
    /\ saver' = [saver EXCEPT ![t].at = After(t, "save")]
    /\ Tangle(t) /\ UNCHANGED <<saveVars, applied>>
set_service_enabled(t) ==
    /\ saver[t].at = "enable"
    /\ \/ stored' = [stored EXCEPT !.enabled = t]
       \/ t = "touch" /\ UNCHANGED stored
    /\ saver' = [saver EXCEPT ![t].at = After(t, "enable")]
    /\ Tangle(t) /\ UNCHANGED <<saveVars, applied>>

\* reload_services(): credentials are loaded first; the switch is read when
\* the client is configured.
reload_services(t) ==
    /\ saver[t].at = "reload"
    /\ saver' = [saver EXCEPT ![t] = [at |-> "configure", cred |-> stored.cred]]
    /\ Tangle(t) /\ UNCHANGED <<saveVars, stored, applied>>
configure_Enabled(t) == [applied EXCEPT !.enabled = stored.enabled]
configure(t) == [cred |-> saver[t].cred, enabled |-> stored.enabled]
configure_client(t) ==
    /\ saver[t].at = "configure"
    /\ applied' = configure(t)
    /\ saver' = [saver EXCEPT ![t] = Quiet]
    /\ ghost' = [ghost EXCEPT !.tangled = (\E o \in Savers \ {t} : saver[o].at # "idle")
                                          \/ (@ /\ stored # configure(t))]
    /\ UNCHANGED <<saveVars, stored>>

-----------------------------------------------------------------------------
ServerStep(s) ==
    \/ password_matches(s) \/ login_wrong(s) \/ login_failed(s) \/ setup_save(s)
    \/ session_age(s) \/ session_expired(s)
    \/ page(s) \/ wifi_handler(s) \/ config_post(s) \/ update_upload(s)
SaverStep ==
    \/ config_load \/ config_fails
    \/ \E t \in Savers : save_service(t) \/ set_service_enabled(t) \/ reload_services(t) \/ configure_client(t)

\* Tasks of Firmware, and a restart, which ends sessions and requests.
admin == <<session, srv, services, requests, ghost>>
Restart ==
    /\ Restarting
    /\ clear_session /\ fails' = 0 /\ block' = 0
    /\ srv' = [s \in Servers |-> Idle] /\ saver' = [t \in Savers |-> Quiet]
    /\ applied' = stored
    /\ ghost' = [ghost EXCEPT !.due = 0, !.idle = 0, !.mixed = FALSE, !.rivals = FALSE, !.tangled = FALSE]
    /\ UNCHANGED <<password, minted, cookie, stored, requests>>

Next ==
    \/ \E s \in Servers, b \in Browsers :
        \/ login_post(s, b) \/ logout(s, b) \/ setup_post(s, b)
        \/ \E what \in Handlers : authorize(s, b, what)
    \/ \E s \in Servers : ServerStep(s)
    \/ on_admin_save \/ Tick
    \/ save_ntrip_config \/ SaverStep
    \/ (UploadStep \/ Validation \/ Coprocessor) /\ UNCHANGED admin
    \/ Restart

\* The tasks run on: the two servers, the touch screen, the restart and the
\* validation.  A form or an image arrives or its socket times out.
Fairness ==
    /\ \A s \in Servers : WF_vars(ServerStep(s))
    /\ WF_vars(SaverStep)
    /\ WF_vars(UploadStep /\ UNCHANGED admin)
    /\ WF_vars(Validation /\ UNCHANGED admin)
    /\ WF_vars(Restart)

Spec == Init /\ [][Next]_vars /\ Fairness

-----------------------------------------------------------------------------
TypeOK ==
    /\ token \in 0..minted /\ minted <= MaxRequests /\ \A b \in Browsers : cookie[b] \in 0..minted
    /\ age \in 0..IdleLimit + 1 /\ fails \in 0..MaxRequests /\ block \in 0..MaxDelay
    /\ token # 0 => password
    /\ progress \in -2..0 /\ tasks \in 0..MaxEvents /\ boxes \in 0..MaxEvents

\* login_post_handler(): once three logins have failed, no form is read
\* before the delay of every failed login is over, unless logins overlapped
\* on the two servers, which count failures and set the block without a lock.
ThrottleHolds == ~ghost.early

\* authorize(): a session is judged by its own use: it is ended when it was
\* not used for longer than the limit and kept otherwise, unless a request of
\* an earlier session, or an older one on the other server, set its time last.
SessionJudgedByUse == ~ghost.wrong

\* config_post_handler(), save_ntrip_config() and reload_services(): when no
\* save is under way a client has the credentials and the switch that are
\* stored, unless two saves overlapped or one failed half way.
AppliedIsStored == (\A t \in Savers : saver[t].at = "idle") /\ ~ghost.tangled => applied = stored

\* config_post_handler() and the upload handlers: types, and that what runs
\* and what is displayed agree with what was saved and what is under way.
ServicesConsistent == TypeOK /\ AppliedIsStored /\ ProgressIsHonest
=============================================================================
