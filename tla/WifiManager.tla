----------------------------- MODULE WifiManager ------------------------------
(***************************************************************************)
(* WifiManager (main/wifi_manager.cpp): the recovery task, the WiFi event  *)
(* handler and the tasks that apply new settings from the touch screen and *)
(* the web, which share the connection flags and the radio of the          *)
(* ESP32-C6 without a lock.                                                *)
(*                                                                         *)
(* A call of the driver is a step, since it goes over SDIO and another     *)
(* task may run meanwhile; every one that reaches the radio may fail.      *)
(* Time is counted in passes of the recovery loop (its vTaskDelay(1000)).  *)
(* Events are delivered in the order in which the driver posts them.  The  *)
(* driver and the network are external.                                    *)
(***************************************************************************)
EXTENDS Integers, Sequences, FiniteSets

CONSTANTS
    Screens,        \* tasks the touch screen starts, one for each tap
    Servers,        \* tasks of the web servers, one request at a time each
    RetryInterval,  \* kRetryIntervalMs, in passes (15 in the firmware)
    ApFallback,     \* kApFallbackMs, in passes (120 in the firmware)
    ApInfoRefresh,  \* kApInfoRefreshMs, in passes
    ApPasswords,    \* stored SoftAP passwords; "short" stands for any refused
    MaxEvents,      \* bound: events waiting in the event loop
    MaxFaults,      \* bound: calls of the driver or of xTaskCreate that fail
    MaxCommands     \* bound: commands from the touch screen or the web

Callers == Screens \cup Servers
Tasks   == {"recovery"} \cup Callers

ASSUME WifiAssumption ==
    /\ {RetryInterval, ApFallback, ApInfoRefresh} \subseteq Nat \ {0}
    /\ RetryInterval < ApFallback
    /\ {MaxEvents, MaxFaults, MaxCommands} \subseteq Nat
    /\ "none" \notin ApPasswords
    /\ "recovery" \notin Callers

Ops    == {"station", "ap_sta", "disable"}
Steps  == {"idle", "rpc", "decide", "disconnect", "stop", "mode", "config",
           "start", "active", "publish", "connect", "ap_config", "ap_set"}
Links  == {"down", "trying", "assoc", "ip"}
Events == {"got_ip", "lost_ip", "disconnected"}
Modes  == {"sta", "ap", "apsta"}

VARIABLES
    flags,     \* connected_, access_point_active_, disable_ap_pending_
    offline,   \* disconnected_at_ms_: passes since then, -1 when it is 0
    retry,     \* passes since last_retry_ms_
    cache,     \* cached_ssid_: "none", "current" or the "old" network's
    info,      \* ap_info_last_ms_: passes since then, -1 when it is 0
    creds,     \* is a station network stored (Storage)
    apPass,    \* the stored SoftAP password (Storage)
    mode,      \* the driver's mode
    running,   \* is the driver started
    link,      \* the station's link: "assoc" is L2 without an address
    beacon,    \* the SoftAP password the driver is configured with
    filled,    \* local ap_config of each task: the one it will configure
    events,    \* posted and not yet handled
    at,        \* what each task is about to do
    op,        \* which enable_/disable_ function each task is in
    faults, commands,   \* how many there have been
    missed,    \* history: is the driver without the last request ("connect"),
               \* without the stored password ("beacon")
    spoiled    \* history: why flags and radio may disagree

manager == <<flags, offline, retry>>
apInfo  == <<cache, info>>
stored  == <<creds, apPass>>
radio   == <<mode, running, link, beacon>>
counts  == <<faults, commands>>
vars    == <<manager, apInfo, stored, radio, filled, events, at, op, counts, missed, spoiled>>

Older(n, limit) == IF n \in 0..limit - 1 THEN n + 1 ELSE n

With(f, on) == IF on THEN flags \cup {f} ELSE flags \ {f}

Goto(t, step) == at' = [at EXCEPT ![t] = step]

\* Tasks outside the enable_ and disable_ functions.
Calm == {"idle", "rpc", "decide", "ap_config", "ap_set"}

\* The driver posts e; the event loop's queue has room.
Post(e) == Len(events) < MaxEvents /\ events' = Append(events, e)

\* A link that goes down is reported, once.
DropLink ==
    /\ link' = "down"
    /\ IF link = "down" THEN UNCHANGED events ELSE Post("disconnected")

\* A call of the driver returns an error, or a task cannot be created.
DriverFails == faults < MaxFaults /\ faults' = faults + 1

\* fill_ap_config(): a password of fewer than 8 characters is not used.
fill_ap_config(password) == IF password = "short" THEN "default" ELSE password

Forget(t) == filled' = [filled EXCEPT ![t] = "none"]

\* esp_wifi_set_config(WIFI_IF_AP): what t has read is on air from here on,
\* also when another password has been stored since.
SetBeacon(t) ==
    /\ beacon' = filled[t]
    /\ missed' = IF filled[t] = fill_ap_config(apPass) THEN missed \ {"beacon"}
                 ELSE missed \cup {"beacon"}
    /\ Forget(t)

-----------------------------------------------------------------------------
(* start(): STA-only when a network is stored, a pure AP otherwise.        *)

\* enable_access_point().
BootsAp ==
    /\ ~creds /\ flags = {"ap"} /\ mode = "ap" /\ link = "down"
    /\ beacon = fill_ap_config(apPass)
    /\ missed = {} /\ faults = 0

\* enable_station_only(), whose request_connect() may fail.
BootsStation ==
    /\ creds /\ flags = {} /\ mode = "sta" /\ beacon = "none"
    /\ \/ link = "trying" /\ missed = {} /\ faults = 0
       \/ link = "down" /\ missed = {"connect"} /\ faults = 1 /\ MaxFaults > 0

Init ==
    /\ creds \in BOOLEAN /\ apPass \in ApPasswords
    /\ BootsAp \/ BootsStation
    /\ offline = -1 /\ retry = 0 /\ cache = "none" /\ info = -1
    /\ running = TRUE /\ filled = [t \in Tasks |-> "none"]
    /\ events = <<>> /\ spoiled = {}
    /\ at = [t \in Tasks |-> "idle"] /\ op = [t \in Tasks |-> "station"]
    /\ commands = 0

\* WebServer::wifi() stores a network and restarts the device.
WebWifi ==
    /\ commands < MaxCommands
    /\ commands' = commands + 1
    /\ creds' = TRUE
    /\ flags' = {} /\ mode' = "sta" /\ beacon' = "none"
    /\ \/ link' = "trying" /\ missed' = {} /\ UNCHANGED faults
       \/ link' = "down" /\ missed' = {"connect"} /\ DriverFails
    /\ offline' = -1 /\ retry' = 0 /\ cache' = "none" /\ info' = -1
    /\ running' = TRUE /\ filled' = [t \in Tasks |-> "none"]
    /\ events' = <<>> /\ spoiled' = {}
    /\ at' = [t \in Tasks |-> "idle"] /\ op' = [t \in Tasks |-> "station"]
    /\ UNCHANGED apPass

-----------------------------------------------------------------------------
(* handle_event(), on the event loop's task.                               *)

GotIp ==
    /\ flags' = flags \cup {"connected"}
                      \cup (IF "ap" \in flags THEN {"pending"} ELSE {})
    /\ offline' = -1
    /\ UNCHANGED retry

Offline == offline' = IF offline = -1 THEN 0 ELSE offline

\* Mutant of LostIp: the event is not handled.
LostIp_Ignored == UNCHANGED manager

LostIp ==
    /\ flags' = flags \ {"connected", "pending"}
    /\ Offline
    /\ retry' = RetryInterval

\* Mutants of Disconnected: the timer is not started; connected_ stays.
Disconnected_NoTimer ==
    /\ flags' = flags \ {"connected", "pending"}
    /\ retry' = IF "connected" \in flags THEN RetryInterval ELSE retry
    /\ UNCHANGED offline

Disconnected_StaysUp ==
    flags' = flags \ {"pending"} /\ Offline /\ UNCHANGED retry

Disconnected ==
    /\ flags' = flags \ {"connected", "pending"}
    /\ Offline
    /\ retry' = IF "connected" \in flags THEN RetryInterval ELSE retry

\* A disable_access_point() that failed part-way set disable_ap_pending_ to
\* try again, and the event of its own esp_wifi_stop() clears the flag.
LosesRetry(e) ==
    spoiled' = IF e # "got_ip" /\ ~running /\ "pending" \in flags
               THEN spoiled \cup {"fault"} ELSE spoiled

handle_event ==
    /\ events # <<>>
    /\ events' = Tail(events)
    /\ CASE Head(events) = "got_ip"       -> GotIp
         [] Head(events) = "lost_ip"      -> LostIp
         [] Head(events) = "disconnected" -> Disconnected
    /\ LosesRetry(Head(events))
    /\ UNCHANGED <<apInfo, stored, radio, filled, at, op, counts, missed>>

-----------------------------------------------------------------------------
(* The enable_ and disable_ functions, on any task.                        *)

\* A switch that breaks off here leaves a mode the flag does not tell of, or,
\* after a request to associate that failed too, a stopped radio whose
\* fallback timer does not run.
BreaksOff(t) ==
    IF t \in Callers
    THEN at[t] # "stop" /\ ("ap" \in flags \/ ("connect" \in missed /\ offline = -1))
    ELSE running /\ at[t] \in {"config", "start"}

\* ESP_RETURN_ON_ERROR: the flags stay as they are, whatever has been done
\* to the radio.  recovery_loop() asks for another disable_access_point().
Fails(t) ==
    /\ DriverFails
    /\ Goto(t, "idle")
    /\ flags' = With("pending", op[t] = "disable" \/ "pending" \in flags)
    /\ beacon' \in {beacon} \cup (IF at[t] = "config" /\ op[t] = "ap_sta"
                                  THEN {filled[t]} ELSE {})
    /\ Forget(t)
    /\ spoiled' = IF BreaksOff(t) THEN spoiled \cup {"fault"} ELSE spoiled
    /\ UNCHANGED <<offline, retry, apInfo, stored, mode, running, link, events, op, commands,
                   missed>>

\* Two tasks inside the functions at once: each assumes what it has set.
Overlap(t) ==
    spoiled' = IF \E u \in Tasks \ {t} : at[u] \notin Calm
               THEN spoiled \cup {"overlap"} ELSE spoiled

Step(t, here, there) ==
    /\ at[t] = here
    /\ Goto(t, there)
    /\ Overlap(t)
    /\ UNCHANGED <<stored, op, commands>>

\* update_credentials(): esp_wifi_disconnect(), whose error is ignored, then
\* enable_station_only().
update_credentials(t) ==
    /\ Step(t, "disconnect", "stop")
    /\ \/ DropLink /\ UNCHANGED faults
       \/ DriverFails /\ UNCHANGED <<link, events>>
    /\ UNCHANGED <<manager, apInfo, mode, running, beacon, filled, missed>>

\* esp_wifi_stop(): the station's link goes down with the radio.  An error is
\* only logged.
StopRadio(t) ==
    /\ Step(t, "stop", "mode")
    /\ \/ running' = FALSE /\ DropLink /\ UNCHANGED faults
       \/ DriverFails /\ UNCHANGED <<running, link, events>>
    /\ UNCHANGED <<manager, apInfo, mode, beacon, filled, missed>>

TargetMode(o) == IF o = "ap_sta" THEN "apsta" ELSE "sta"

\* enable_ap_sta() reads the stored password after its esp_wifi_set_mode().
SetMode(t) ==
    /\ Step(t, "mode", IF op[t] = "disable" THEN "start" ELSE "config")
    /\ mode' = TargetMode(op[t])
    /\ filled' = IF op[t] = "ap_sta" THEN [filled EXCEPT ![t] = fill_ap_config(apPass)]
                 ELSE filled
    /\ UNCHANGED <<manager, apInfo, running, link, beacon, events, faults, missed>>

\* The station's network is the stored one from here on.
configure_station(t) ==
    /\ Step(t, "config", "start")
    /\ IF op[t] = "ap_sta" THEN SetBeacon(t) ELSE UNCHANGED <<beacon, filled, missed>>
    /\ cache' = IF cache = "current" /\ op[t] = "station" THEN "old" ELSE cache
    /\ UNCHANGED <<manager, info, mode, running, link, events, faults>>

StartRadio(t) ==
    /\ Step(t, "start", "active")
    /\ running' = TRUE
    /\ UNCHANGED <<manager, apInfo, mode, link, beacon, filled, events, faults, missed>>

\* access_point_active_ = ...
PublishAp(t) ==
    /\ Step(t, "active", "publish")
    /\ flags' = With("ap", op[t] = "ap_sta")
    /\ UNCHANGED <<offline, retry, apInfo, radio, filled, events, faults, missed>>

\* ... the other flags and the timers; disable_access_point() leaves
\* connected_ to the event of its own esp_wifi_stop().
Publish(t) ==
    /\ Step(t, "publish", "connect")
    /\ flags' = flags \ (CASE op[t] = "station" -> {"pending", "connected"}
                           [] op[t] = "ap_sta"  -> {"connected"}
                           [] op[t] = "disable" -> {})
    /\ offline' = -1
    /\ retry' = IF op[t] = "disable" THEN retry ELSE RetryInterval
    /\ UNCHANGED <<apInfo, radio, filled, events, faults, missed>>

\* esp_wifi_connect(): an association that survives is dropped first, so that
\* DHCP starts again.
Associates ==
    /\ link' = "trying"
    /\ IF link \in {"assoc", "ip"} THEN Post("disconnected") ELSE UNCHANGED events
    /\ missed' = missed \ {"connect"}
    /\ UNCHANGED faults

\* It returns an error, at once or after the association was dropped, which
\* is only logged: no event tells of a request that was not made.
ConnectFails ==
    /\ DriverFails
    /\ \/ UNCHANGED <<link, events>>
       \/ link \in {"assoc", "ip"} /\ DropLink
    /\ missed' = missed \cup {"connect"}

\* request_connect(): a radio without a station refuses.
request_connect ==
    /\ retry' = 0
    /\ IF ~running \/ mode = "ap" THEN UNCHANGED <<link, events, missed, faults>>
       ELSE Associates \/ ConnectFails

Connect(t) ==
    /\ Step(t, "connect", "idle")
    /\ request_connect
    /\ UNCHANGED <<flags, offline, apInfo, mode, running, beacon, filled>>

SwitchFails(t) == at[t] \in {"stop", "mode", "config", "start"} /\ Fails(t)

Switch(t) ==
    \/ update_credentials(t) \/ StopRadio(t) \/ SetMode(t) \/ configure_station(t)
    \/ StartRadio(t) \/ PublishAp(t) \/ Publish(t) \/ Connect(t)

-----------------------------------------------------------------------------
(* recovery_loop().                                                        *)

\* A pass starts: time has passed; refresh_ap_info() drops the cache when
\* the link is down, is throttled, or asks the driver.
RecoveryPass ==
    LET elapsed == Older(info, ApInfoRefresh) IN
    /\ at["recovery"] = "idle"
    /\ offline' = Older(offline, ApFallback)
    /\ retry' = Older(retry, RetryInterval)
    /\ IF "connected" \notin flags
       THEN cache' = "none" /\ info' = -1 /\ Goto("recovery", "decide")
       ELSE IF elapsed \in 0..ApInfoRefresh - 1
       THEN info' = elapsed /\ Goto("recovery", "decide") /\ UNCHANGED cache
       ELSE info' = 0 /\ Goto("recovery", "rpc") /\ UNCHANGED cache
    /\ UNCHANGED <<flags, stored, radio, filled, events, op, counts, missed, spoiled>>

\* The answer of esp_wifi_sta_get_ap_info(); a failure keeps the last value.
refresh_ap_info ==
    /\ at["recovery"] = "rpc"
    /\ \/ link \in {"assoc", "ip"} /\ cache' = "current" /\ UNCHANGED faults
       \/ link \in {"assoc", "ip"} /\ DriverFails /\ UNCHANGED cache
       \/ link \in {"down", "trying"} /\ UNCHANGED <<cache, faults>>
    /\ Goto("recovery", "decide")
    /\ UNCHANGED <<manager, info, stored, radio, filled, events, op, commands, missed, spoiled>>

\* The SoftAP is torn down when the handler has asked for it.
TearDownAp ==
    /\ at["recovery"] = "decide"
    /\ "pending" \in flags
    /\ flags' = flags \ {"pending"}
    /\ Goto("recovery", "stop")
    /\ op' = [op EXCEPT !["recovery"] = "disable"]
    /\ UNCHANGED <<offline, retry, apInfo, stored, radio, filled, events, counts, missed, spoiled>>

\* Offline for kApFallbackMs and no SoftAP: raise it.
FallBackDue == creds /\ flags \cap {"connected", "ap", "pending"} = {} /\ offline >= ApFallback

RaiseAp ==
    /\ at["recovery"] = "decide"
    /\ FallBackDue
    /\ Goto("recovery", "stop")
    /\ op' = [op EXCEPT !["recovery"] = "ap_sta"]
    /\ UNCHANGED <<manager, apInfo, stored, radio, filled, events, counts, missed, spoiled>>

\* Otherwise another association is tried every kRetryIntervalMs.
RetryStation ==
    /\ at["recovery"] = "decide"
    /\ "pending" \notin flags
    /\ ~FallBackDue
    /\ Goto("recovery", "idle")
    /\ IF creds /\ "connected" \notin flags /\ retry >= RetryInterval
       THEN request_connect ELSE UNCHANGED <<retry, link, events, missed, faults>>
    /\ UNCHANGED <<flags, offline, apInfo, stored, mode, running, beacon, filled, op, commands,
                   spoiled>>

recovery_loop ==
    \/ RecoveryPass \/ refresh_ap_info \/ TearDownAp \/ RaiseAp \/ RetryStation
    \/ Switch("recovery")

\* ssid(), which the header and the status page show.
ssid == IF "connected" \in flags THEN cache
        ELSE IF "ap" \in flags THEN "softap" ELSE "none"

-----------------------------------------------------------------------------
(* Commands from the touch screen and the web.                             *)

Command(t) ==
    /\ commands < MaxCommands
    /\ commands' = commands + 1
    /\ at[t] = "idle"

\* xTaskCreate(): the task starts at step, or does not start.
Create(t, step, unmet) ==
    \/ Goto(t, step) /\ UNCHANGED <<faults, missed>>
    \/ DriverFails /\ missed' = missed \cup unmet /\ UNCHANGED at

\* on_wifi_connect(): the network is stored, a task of its own applies it.
OnWifiConnect(t) ==
    /\ Command(t)
    /\ creds' = TRUE
    /\ Create(t, "disconnect", {})
    /\ UNCHANGED <<manager, apInfo, apPass, radio, filled, events, op, spoiled>>

\* Only a password of 8 to 63 characters is stored.
StoresPassword(password) == password # "short" /\ apPass' = password

\* on_ap_save(): a task of its own applies the password.
OnApSave(t, password) ==
    /\ Command(t)
    /\ StoresPassword(password)
    /\ Create(t, "ap_config", {"beacon"})
    /\ UNCHANGED <<manager, apInfo, creds, radio, filled, events, op, spoiled>>

\* The web's handler applies it itself.
ap_password_handler(t, password) ==
    /\ Command(t)
    /\ StoresPassword(password)
    /\ Goto(t, "ap_config")
    /\ UNCHANGED <<manager, apInfo, creds, radio, filled, events, op, faults, missed, spoiled>>

\* apply_ap_settings() reads the stored password.
ReadPassword(t) ==
    /\ at[t] = "ap_config"
    /\ Goto(t, "ap_set")
    /\ filled' = [filled EXCEPT ![t] = fill_ap_config(apPass)]
    /\ UNCHANGED <<manager, apInfo, stored, radio, events, op, counts, missed, spoiled>>

\* ... and configures it; the driver refuses when the mode has no AP, and no
\* caller looks at the result.
SetPassword(t) ==
    /\ at[t] = "ap_set"
    /\ Goto(t, "idle")
    /\ \/ mode \in {"ap", "apsta"} /\ SetBeacon(t) /\ UNCHANGED faults
       \/ mode = "sta" /\ Forget(t) /\ UNCHANGED <<beacon, missed, faults>>
       \/ DriverFails /\ Forget(t) /\ missed' = missed \cup {"beacon"} /\ UNCHANGED beacon
    /\ UNCHANGED <<manager, apInfo, stored, mode, running, link, events, op, commands, spoiled>>

apply_ap_settings(t) == ReadPassword(t) \/ SetPassword(t)

-----------------------------------------------------------------------------
(* The network, seen through the driver.                                   *)

Environment ==
    UNCHANGED <<manager, apInfo, stored, mode, running, beacon, filled, at, op, counts, missed,
                spoiled>>

\* The driver reports the outcome of every association it was asked for.
Joins == link = "trying" /\ link' = "ip" /\ Post("got_ip") /\ Environment

Refused == link = "trying" /\ DropLink /\ Environment

LinkLost == link \in {"assoc", "ip"} /\ DropLink /\ Environment

LeaseLost == link = "ip" /\ link' = "assoc" /\ Post("lost_ip") /\ Environment

-----------------------------------------------------------------------------

CallerTask(t) == Switch(t) \/ apply_ap_settings(t)

Next ==
    \/ handle_event \/ recovery_loop
    \/ \E t \in Callers : CallerTask(t)
    \/ \E t \in Tasks : SwitchFails(t)
    \/ \E t \in Screens : OnWifiConnect(t) \/ \E p \in ApPasswords : OnApSave(t, p)
    \/ \E t \in Servers, p \in ApPasswords : ap_password_handler(t, p)
    \/ WebWifi
    \/ Joins \/ Refused \/ LinkLost \/ LeaseLost

\* FreeRTOS runs every ready task in turn (the event loop and the callers'
\* tasks have a higher priority than recovery, and block); the driver answers
\* every request to associate that it has accepted.
Fairness ==
    /\ WF_vars(handle_event)
    /\ WF_vars(recovery_loop)
    /\ \A t \in Callers : WF_vars(CallerTask(t))
    /\ WF_vars(Joins \/ Refused)

Spec == Init /\ [][Next]_vars /\ Fairness

-----------------------------------------------------------------------------
(* Properties.                                                             *)

\* The types of the variables; the timers stop at their limits.
TypeOK ==
    /\ flags \subseteq {"connected", "ap", "pending"}
    /\ offline \in -1..ApFallback /\ retry \in 0..RetryInterval
    /\ cache \in {"none", "current", "old"} /\ info \in -1..ApInfoRefresh
    /\ creds \in BOOLEAN /\ apPass \in ApPasswords
    /\ mode \in Modes /\ running \in BOOLEAN /\ link \in Links
    /\ beacon \in ApPasswords \cup {"none", "default"}
    /\ filled \in [Tasks -> ApPasswords \cup {"none", "default"}]
    /\ events \in Seq(Events) /\ Len(events) <= MaxEvents
    /\ at \in [Tasks -> Steps] /\ op \in [Tasks -> Ops]
    /\ faults \in 0..MaxFaults /\ commands \in 0..MaxCommands
    /\ missed \subseteq {"connect", "beacon"} /\ spoiled \subseteq {"fault", "overlap"}

Switching == \E t \in Tasks : at[t] \notin Calm

Applying == \E t \in Tasks : at[t] \in {"ap_config", "ap_set"}

ApUp == running /\ mode \in {"ap", "apsta"}

\* connected() is never left true on a dead link: while the station has no
\* address, connected_ is false or the event that clears it is on its way,
\* also when disable_access_point() restarts the radio under a connection.
NoPhantomLink ==
    "connected" \in flags /\ link # "ip" =>
        \E i \in DOMAIN events : events[i] # "got_ip"

\* The timer of the SoftAP fallback runs whenever the radio is up and the
\* station is not trying, although every switch of the mode resets it: the
\* event of the next failed attempt starts it again.  When the last request
\* to associate could not even be made there is no such event, and what is
\* left is that connected_ is false, so that recovery_loop() asks again.
OfflineIsTimed ==
    creds /\ running /\ ~Switching /\ link = "down" /\ events = <<>> =>
        \/ offline # -1 \/ ApUp \/ "ap" \in flags
        \/ "connect" \in missed /\ "connected" \notin flags

\* access_point_active_ says what the radio does between two switches of the
\* mode, unless two tasks switched it at once or a switch failed part-way
\* while the SoftAP was up (what the flag then hides is in the README).
ApFlagHonest ==
    ~Switching /\ spoiled = {} /\ "pending" \notin flags =>
        (ApUp <=> "ap" \in flags)

\* A raised SoftAP has the stored password, or the default for one that is
\* too short, unless the driver was last given a password that had been
\* replaced meanwhile, or the call or the task that applies it failed.
BeaconIsStored ==
    ~Switching /\ ~Applying /\ ApUp /\ spoiled = {} /\ "beacon" \notin missed =>
        beacon = fill_ap_config(apPass)

\* switch_radio_mode() and handle_event(): types, the timer that runs when it
\* has to, and flag and beacon that say what the radio does.
RadioConsistent == TypeOK /\ OfflineIsTimed /\ ApFlagHonest /\ BeaconIsStored

\* recovery_loop(): the device is reachable again and again, over the station
\* or the SoftAP, whatever the network does, unless flag and radio were put
\* at odds; a station that stays connected ends the SoftAP, and the status
\* pages come to show the network it is connected to.
Recovers ==
    (<>[](spoiled = {})) =>
        /\ []<>(link = "ip" \/ ApUp)
        /\ <>[](link = "ip") => <>[](~ApUp /\ ssid = "current")

=============================================================================
