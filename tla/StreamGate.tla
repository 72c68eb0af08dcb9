------------------------------ MODULE StreamGate ------------------------------
(***************************************************************************)
(* The control core of the base station: which mode it is in, what the     *)
(* receiver is told to send, and the gate that decides which stream        *)
(* clients are suspended (main/base_station.cpp).                          *)
(*                                                                         *)
(* Four kinds of FreeRTOS task run the code of class BaseStation:          *)
(*   "base"    the base_station task: mode transitions, UART, rate window  *)
(*   "enable"  rtk_enable (app_main.cpp): ends the boot hold-off, once     *)
(*   "gate"    app_main, then network_gate: follows the WiFi state         *)
(*   Web, Ui   the httpd worker and the LVGL task calling the public API   *)
(* They share std::atomic flags and no lock.  apply_stream_state()         *)
(* evaluates the flags and then writes the result into the clients one by  *)
(* one, so two tasks inside it can overtake each other; each evaluation    *)
(* and each client write is therefore a step of its own here.              *)
(*                                                                         *)
(* Client 0 is the local caster; 1..NumPush are the push clients, in the   *)
(* order in which apply_stream_state() writes them.                        *)
(***************************************************************************)
EXTENDS Integers, Sequences, FiniteSets

CONSTANTS
    Web,         \* httpd workers: every API call, and firmware upload
    Ui,          \* LVGL task: the calls the touch screen makes
    NumPush,     \* number of NTRIP push clients (3 in the firmware)
    QueueDepth,  \* capacity of actions_ (4 in the firmware)
    Api,         \* bound: which API calls Web and Ui make
    MaxCalls,    \* bound: API calls made by Web and Ui together
    MaxFlips,    \* bound: changes of the WiFi state
    MaxReboots,  \* bound: restarts of the device
    Faults       \* bound: may NVS writes and receiver commands fail

ASSUME GateAssumption ==
    /\ NumPush \in Nat \ {0}
    /\ QueueDepth \in Nat \ {0}
    /\ MaxCalls \in Nat
    /\ MaxFlips \in Nat
    /\ MaxReboots \in Nat
    /\ Faults \in BOOLEAN
    /\ Api \subseteq {"enable", "raw", "reload", "survey", "position", "reset",
                     "ota"}
    /\ "base" \notin Web \cup Ui
    /\ "enable" \notin Web \cup Ui
    /\ "gate" \notin Web \cup Ui

Callers == Web \cup Ui
Tasks   == Callers \cup {"base", "enable", "gate"}
Clients == 0 .. NumPush

ActionType == {"kSurvey", "kPosition", "kStartRaw", "kStopRaw", "kResetUm980"}
Output     == {"none", "rtcm", "raw"}     \* what the receiver sends on COM3

ApplyLabels == {"read", "write", "readOut"}
BaseLabels  == {"boot", "loop", "sv_keep", "sv_clear", "tx_cfg", "raw_cfg",
                "ex_reset", "ex_cfg", "um_cfg"} \cup ActionType
CallLabels  == {"idle", "setUser", "enqRaw", "ota"}
EnableLabels == {"wait", "en_user", "en_rinex", "dead"}
Labels == ApplyLabels \cup BaseLabels \cup CallLabels \cup EnableLabels

\* The Boolean atomics of class BaseStation, and the NVS keys it uses.
AtomicFlags == {"transient_streams_suspended", "user_streams_enabled",
                "network_available", "has_rtcm_data", "outbound_rate_ready",
                "raw_collection"}
NvsKeys == {"pos_valid", "ntrip_on", "rinex_on"}

VARIABLES
    flags,        \* the atomics that are true
    mode,         \* mode_
    suspended,    \* the clients whose suspended_ is true
    \* Program counters and locals of the tasks: label, label to continue at
    \* after apply_stream_state(), next client to write there; the tasks
    \* whose value read from the gate is true, whose argument is true.
    at, ret, next, held, arg,
    actions,      \* the FreeRTOS queue actions_
    survey,       \* survey_ collects fixes
    logger,       \* rinex_logger_ is active
    output,       \* COM3 output of the UM980 (external)
    window,       \* rate window of run(): "bytes" counted in it; "old" if it
                  \* was open already at the last transition
    nvs,          \* the NVS keys stored as true
    wifi,         \* wifi->connected() (external)
    calls, flips, reboots,    \* how much of each bound is used
    \* History: the tasks whose value is older than some flag write; the
    \* clients whose last write was such an outdated value.
    stale, clobbered

locals == <<at, ret, next, held, arg>>
device == <<actions, survey, logger, output, window>>
world  == <<nvs, wifi, calls, flips, reboots>>
ghosts == <<stale, clobbered>>
vars   == <<flags, mode, suspended, locals, device, world, ghosts>>

\* The set S with x in it or not, as b says.
Put(S, x, b) == IF b THEN S \cup {x} ELSE S \ {x}

-----------------------------------------------------------------------------
(* The gate.  The loads of the atomics in one evaluation are one step.     *)

effective_streams_suspended ==
    \/ "transient_streams_suspended" \in flags
    \/ "user_streams_enabled" \notin flags
    \/ mode # "transmit"
    \/ "has_rtcm_data" \notin flags
    \/ "raw_collection" \in flags

effective_outbound_streams_suspended ==
    \/ effective_streams_suspended
    \/ "network_available" \notin flags
    \/ "outbound_rate_ready" \notin flags

\* Do the flags demand that client c is suspended right now.
Gate(c) == IF c = 0 THEN effective_streams_suspended
                    ELSE effective_outbound_streams_suspended

-----------------------------------------------------------------------------
(* Control flow.                                                           *)

Goto(t, label) == at' = [at EXCEPT ![t] = label]

\* Task t calls apply_stream_state() and then continues at label.
CallApply(t, label) ==
    /\ Goto(t, "read")
    /\ ret' = [ret EXCEPT ![t] = label]

\* Task t stores into the atomics: the values other tasks hold grow old.
Outdates(t) ==
    /\ stale' = stale \cup {u \in Tasks \ {t} : at[u] = "write"}
    /\ UNCHANGED clobbered

\* Task t has evaluated the gate and is going to write from client first on.
BeginHold(t, value, first) ==
    /\ held' = Put(held, t, value)
    /\ next' = [next EXCEPT ![t] = first]
    /\ Goto(t, "write")
    /\ UNCHANGED <<flags, mode, suspended, ret, arg, device, world, ghosts>>

\* const bool suspended = effective_streams_suspended();
ApplyRead(t) ==
    /\ at[t] = "read"
    /\ BeginHold(t, effective_streams_suspended, 0)

\* const bool outbound_suspended = effective_outbound_streams_suspended();
ApplyReadOut(t) ==
    /\ at[t] = "readOut"
    /\ BeginHold(t, effective_outbound_streams_suspended, 1)

\* The value held by task t goes out of scope.
Release(t) ==
    /\ held' = held \ {t}
    /\ next' = [next EXCEPT ![t] = 0]
    /\ stale' = stale \ {t}

\* One set_suspended() of apply_stream_state().
ApplyWrite(t) ==
    /\ at[t] = "write"
    /\ suspended' = Put(suspended, next[t], t \in held)
    /\ clobbered' = Put(clobbered, next[t], t \in stale)
    /\ \/ /\ next[t] = 0
          /\ Goto(t, "readOut")
          /\ Release(t)
          /\ UNCHANGED ret
       \/ /\ next[t] \in 1 .. NumPush - 1
          /\ next' = [next EXCEPT ![t] = next[t] + 1]
          /\ UNCHANGED <<at, ret, held, stale>>
       \/ /\ next[t] = NumPush
          /\ Goto(t, ret[t])
          /\ ret' = [ret EXCEPT ![t] = "idle"]
          /\ Release(t)
    /\ UNCHANGED <<flags, mode, arg, device, world>>

-----------------------------------------------------------------------------
(* The base_station task: mode transitions.                                *)

\* The flags every transition clears.
Readiness == {"has_rtcm_data", "outbound_rate_ready"}

\* A rate window that is open at a transition stays open, because run()
\* keeps rate_started and rate_bytes; it opens the first one after boot.
KeepWindow == window' = Put(window, "old", at["base"] # "boot")

\* Outcome of a Um980 command sequence that ends with this COM3 output: a
\* failed UART write leaves the old output, or none if it was stopped first.
Configured(target) ==
    output' \in {target} \cup (IF Faults THEN {"none", output} ELSE {})

\* An NVS write whose error is only logged.
Persist(key, value) ==
    \/ nvs' = Put(nvs, key, value)
    \/ Faults /\ UNCHANGED nvs

\* enter_survey() up to its apply_stream_state().
EnterSurvey(clear_position) ==
    /\ mode' = "survey"
    /\ flags' = flags \ Readiness
    /\ KeepWindow
    /\ CallApply("base", IF clear_position THEN "sv_clear" ELSE "sv_keep")
    /\ Outdates("base")
    /\ UNCHANGED <<suspended, next, held, arg, actions, survey, logger, output,
                   world>>

\* The rest of enter_survey(); a failed clear_position() is not retried.
SurveyOutput ==
    /\ at["base"] \in {"sv_keep", "sv_clear"}
    /\ IF at["base"] = "sv_clear" THEN Persist("pos_valid", FALSE)
                                  ELSE UNCHANGED nvs
    /\ survey' = "collecting"
    /\ Configured("none")
    /\ Goto("base", "loop")
    /\ UNCHANGED <<flags, mode, suspended, ret, next, held, arg, actions,
                   logger, window, wifi, calls, flips, reboots, ghosts>>

\* enter_transmit() up to configure_base().
EnterTransmit ==
    /\ mode' = "transmit"
    /\ flags' = flags \ Readiness
    /\ KeepWindow
    /\ survey' = "idle"
    /\ Goto("base", "tx_cfg")
    /\ Outdates("base")
    /\ UNCHANGED <<suspended, ret, next, held, arg, actions, logger, output,
                   wifi, calls, flips, reboots>>

\* configure_base() and the closing apply_stream_state() of enter_transmit().
TransmitOutput ==
    /\ at["base"] = "tx_cfg"
    /\ Configured("rtcm")
    /\ CallApply("base", "loop")
    /\ UNCHANGED <<flags, mode, suspended, next, held, arg, actions, survey,
                   logger, window, world, ghosts>>

\* A handler returns early: nothing but the label changes.
BackToLoop ==
    /\ Goto("base", "loop")
    /\ UNCHANGED <<flags, mode, suspended, ret, next, held, arg, device, world,
                   ghosts>>

\* enter_raw_collection(): raw mode is for base mode only.
EnterRaw ==
    /\ at["base"] = "kStartRaw"
    /\ \/ /\ mode = "transmit"
          /\ "raw_collection" \notin flags
          /\ flags' = flags \cup {"raw_collection"}
          /\ CallApply("base", "raw_cfg")
          /\ Outdates("base")
          /\ UNCHANGED <<mode, suspended, next, held, arg, device, world>>
       \/ /\ mode # "transmit" \/ "raw_collection" \in flags
          /\ BackToLoop

\* Mutant of RawOutput: the receiver is left on RTCM.
RawOutput_NoConfigure ==
    /\ at["base"] = "raw_cfg"
    /\ logger' = "active"
    /\ Goto("base", "loop")
    /\ UNCHANGED <<flags, mode, suspended, ret, next, held, arg, actions,
                   survey, output, window, world, ghosts>>

\* configure_raw_output(), and the logger starts.
RawOutput ==
    /\ at["base"] = "raw_cfg"
    /\ Configured("raw")
    /\ logger' = "active"
    /\ Goto("base", "loop")
    /\ UNCHANGED <<flags, mode, suspended, ret, next, held, arg, actions,
                   survey, window, world, ghosts>>

\* exit_raw_collection() up to the flush: the logger stops, then the flag
\* drops.  The task continues at label afterwards.
ExitRaw(label) ==
    /\ "raw_collection" \in flags
    /\ logger' = "idle"
    /\ flags' = flags \ {"raw_collection"}
    /\ Goto("base", "ex_reset")
    /\ ret' = [ret EXCEPT !["base"] = label]
    /\ Outdates("base")
    /\ UNCHANGED <<mode, suspended, next, held, arg, actions, survey, output,
                   window, world>>

\* exit_raw_collection() clears the readiness flags only now.
ExitRawReset ==
    /\ at["base"] = "ex_reset"
    /\ flags' = flags \ Readiness
    /\ KeepWindow
    /\ Goto("base", "ex_cfg")
    /\ Outdates("base")
    /\ UNCHANGED <<mode, suspended, ret, next, held, arg, actions, survey,
                   logger, output, world>>

\* configure_base(), and apply_stream_state() follows.
ExitRawOutput ==
    /\ at["base"] = "ex_cfg"
    /\ Configured("rtcm")
    /\ Goto("base", "read")
    /\ UNCHANGED <<flags, mode, suspended, ret, next, held, arg, actions,
                   survey, logger, window, world, ghosts>>

\* reset_um980(): streams are suspended first, then the receiver restarts.
ResetUm980 ==
    /\ at["base"] = "kResetUm980"
    /\ \/ /\ mode = "transmit"
          /\ "raw_collection" \notin flags
          /\ flags' = flags \ Readiness
          /\ KeepWindow
          /\ CallApply("base", "um_cfg")
          /\ Outdates("base")
          /\ UNCHANGED <<mode, suspended, next, held, arg, actions, survey,
                         logger, output, world>>
       \/ /\ mode # "transmit" \/ "raw_collection" \in flags
          /\ BackToLoop

\* configure_signal_group(), configure_base(), and the second apply.
ResetOutput ==
    /\ at["base"] = "um_cfg"
    /\ Configured("rtcm")
    /\ CallApply("base", "loop")
    /\ UNCHANGED <<flags, mode, suspended, next, held, arg, actions, survey,
                   logger, window, world, ghosts>>

\* Mutant of HandleSurvey: raw collection is not left.
HandleSurvey_KeepsRaw == at["base"] = "kSurvey" /\ EnterSurvey(TRUE)

\* The kSurvey branch of handle_action(): leave raw collection first.
HandleSurvey ==
    /\ at["base"] = "kSurvey"
    /\ \/ ExitRaw("kSurvey")
       \/ "raw_collection" \notin flags /\ EnterSurvey(TRUE)

\* The kStopRaw branch of handle_action().
HandleStopRaw ==
    /\ at["base"] = "kStopRaw"
    /\ \/ ExitRaw("loop")
       \/ "raw_collection" \notin flags /\ BackToLoop

\* save_position() returned ESP_OK.
PositionSaved == nvs' = nvs \cup {"pos_valid"}

\* save_position() returned an error, before or after it wrote pos_valid.
SaveFailed ==
    /\ Faults
    /\ nvs' \in {nvs, nvs \cup {"pos_valid"}}

\* The kPosition branch: leave raw collection, save, enter_transmit(); a
\* failed save abandons the action.
HandlePosition ==
    /\ at["base"] = "kPosition"
    /\ \/ ExitRaw("kPosition")
       \/ "raw_collection" \notin flags /\ PositionSaved /\ EnterTransmit
       \/ /\ "raw_collection" \notin flags
          /\ SaveFailed
          /\ Goto("base", "loop")
          /\ UNCHANGED <<flags, mode, suspended, ret, next, held, arg, device,
                         wifi, calls, flips, reboots, ghosts>>

\* The head of run(): the stored position decides the first mode.
Boot ==
    /\ at["base"] = "boot"
    /\ \/ "pos_valid" \in nvs /\ EnterTransmit /\ UNCHANGED nvs
       \/ "pos_valid" \notin nvs /\ EnterSurvey(FALSE)

-----------------------------------------------------------------------------
(* The base_station task: its main loop.                                   *)

\* Mutant of Dequeue: actions wait for base mode.
Dequeue_TransmitOnly ==
    /\ at["base"] = "loop"
    /\ mode = "transmit"
    /\ actions # <<>>
    /\ Goto("base", Head(actions))
    /\ actions' = Tail(actions)
    /\ UNCHANGED <<flags, mode, suspended, ret, next, held, arg, survey,
                   logger, output, window, world, ghosts>>

\* xQueueReceive(actions_, &action, 0).
Dequeue ==
    /\ at["base"] = "loop"
    /\ actions # <<>>
    /\ Goto("base", Head(actions))
    /\ actions' = Tail(actions)
    /\ UNCHANGED <<flags, mode, suspended, ret, next, held, arg, survey,
                   logger, output, window, world, ghosts>>

\* A finished survey is taken once; if its position cannot be saved the
\* result is gone.
SurveyCompleted ==
    /\ at["base"] = "loop"
    /\ mode = "survey"
    /\ survey = "collecting"
    /\ \/ PositionSaved /\ EnterTransmit
       \/ /\ SaveFailed
          /\ survey' = "idle"
          /\ UNCHANGED <<flags, mode, suspended, locals, actions, logger,
                         output, window, wifi, calls, flips, reboots, ghosts>>

\* Mutant of Raise: the rising edge is not applied.
Raise_NoApply(flag) ==
    /\ flags' = flags \cup {flag}
    /\ UNCHANGED <<at, ret>>
    /\ Outdates("base")

\* The base task sets flag; only the rising edge calls apply_stream_state().
Raise(flag) ==
    /\ flags' = flags \cup {flag}
    /\ \/ flag \notin flags /\ CallApply("base", "loop") /\ Outdates("base")
       \/ flag \in flags /\ UNCHANGED <<at, ret, ghosts>>

\* A valid RTCM frame read from the data UART (publish_rtcm_frame()).
Frame ==
    /\ at["base"] = "loop"
    /\ mode = "transmit"
    /\ "raw_collection" \notin flags
    /\ output = "rtcm"
    /\ Raise("has_rtcm_data")
    /\ window' = window \cup {"bytes"}
    /\ UNCHANGED <<mode, suspended, next, held, arg, actions, survey, logger,
                   output, world>>

\* The rate window closes at or above kMinOutboundRtcmBps.
RateReached ==
    /\ at["base"] = "loop"
    /\ "bytes" \in window
    /\ Raise("outbound_rate_ready")
    /\ window' = {}
    /\ UNCHANGED <<mode, suspended, next, held, arg, actions, survey, logger,
                   output, world>>

\* The rate window closes below the threshold.
RateTooLow ==
    /\ at["base"] = "loop"
    /\ window' = {}
    /\ UNCHANGED <<flags, mode, suspended, locals, actions, survey, logger,
                   output, world, ghosts>>

-----------------------------------------------------------------------------
(* rtk_enable and network_gate.                                            *)

\* apply_persisted_streams() loads ntrip_on ...
EnableLoad ==
    /\ at["enable"] = "wait"
    /\ arg' = Put(arg, "enable", "ntrip_on" \in nvs)
    /\ Goto("enable", "en_user")
    /\ UNCHANGED <<flags, mode, suspended, ret, next, held, device, world,
                   ghosts>>

\* ... stores it, ends the hold-off and applies.
EnableStore ==
    /\ at["enable"] = "en_user"
    /\ flags' = Put(flags, "user_streams_enabled", "enable" \in arg)
                    \ {"transient_streams_suspended"}
    /\ arg' = arg \ {"enable"}
    /\ CallApply("enable", "en_rinex")
    /\ Outdates("enable")
    /\ UNCHANGED <<mode, suspended, next, held, device, world>>

\* Mutant of Send: the capacity is off by one.
Send_OffByOne(action) ==
    \/ Len(actions) <= QueueDepth /\ actions' = Append(actions, action)
    \/ Len(actions) > QueueDepth /\ UNCHANGED actions

\* xQueueSend() with timeout 0: a full queue refuses.
Send(action) ==
    \/ Len(actions) < QueueDepth /\ actions' = Append(actions, action)
    \/ Len(actions) >= QueueDepth /\ UNCHANGED actions

\* resume_persisted_rinex(), and the task ends.
EnableResume ==
    /\ at["enable"] = "en_rinex"
    /\ IF "rinex_on" \in nvs THEN Send("kStartRaw") ELSE UNCHANGED actions
    /\ Goto("enable", "dead")
    /\ UNCHANGED <<flags, mode, suspended, ret, next, held, arg, survey, logger,
                   output, window, world, ghosts>>

\* Mutant of GatePoll: the flag is stored and not applied.
GatePoll_NoApply ==
    /\ at["gate"] = "idle"
    /\ ("network_available" \in flags) # (wifi = "up")
    /\ flags' = Put(flags, "network_available", wifi = "up")
    /\ Outdates("gate")
    /\ UNCHANGED <<mode, suspended, locals, device, world>>

\* network_gate polls wifi->connected() and calls set_network_available()
\* when it changed; only this task writes network_available_, so its
\* last_available and the atomic agree.
GatePoll ==
    /\ at["gate"] = "idle"
    /\ ("network_available" \in flags) # (wifi = "up")
    /\ flags' = Put(flags, "network_available", wifi = "up")
    /\ CallApply("gate", "idle")
    /\ Outdates("gate")
    /\ UNCHANGED <<mode, suspended, next, held, arg, device, world>>

-----------------------------------------------------------------------------
(* API calls of the web server and the touch screen.                       *)

\* A handler of task t starts.
Calls(t) == /\ at[t] = "idle"
            /\ calls < MaxCalls
            /\ calls' = calls + 1

\* set_streams_enabled() persists first ...
SetStreamsEnabled(t, enabled) ==
    /\ Calls(t)
    /\ Persist("ntrip_on", enabled)
    /\ arg' = Put(arg, t, enabled)
    /\ Goto(t, "setUser")
    /\ UNCHANGED <<flags, mode, suspended, ret, next, held, device, wifi, flips,
                   reboots, ghosts>>

\* ... and stores the flag second.
StoreUser(t) ==
    /\ at[t] = "setUser"
    /\ flags' = Put(flags, "user_streams_enabled", t \in arg)
    /\ arg' = arg \ {t}
    /\ CallApply(t, "idle")
    /\ Outdates(t)
    /\ UNCHANGED <<mode, suspended, next, held, device, world>>

\* reload_services(): reconfigures the clients and applies.
ReloadServices(t) ==
    /\ Calls(t)
    /\ CallApply(t, "idle")
    /\ UNCHANGED <<flags, mode, suspended, next, held, arg, device, nvs, wifi,
                   flips, reboots, ghosts>>

\* request_survey(), request_position(), request_um980_reset().
Request(t, action) ==
    /\ Calls(t)
    /\ Send(action)
    /\ UNCHANGED <<flags, mode, suspended, locals, survey, logger, output,
                   window, nvs, wifi, flips, reboots, ghosts>>

\* request_raw_collection() persists the intent ...
RequestRaw(t, enable) ==
    /\ Calls(t)
    /\ Persist("rinex_on", enable)
    /\ arg' = Put(arg, t, enable)
    /\ Goto(t, "enqRaw")
    /\ UNCHANGED <<flags, mode, suspended, ret, next, held, device, wifi, flips,
                   reboots, ghosts>>

\* ... and queues the action.
EnqueueRaw(t) ==
    /\ at[t] = "enqRaw"
    /\ Send(IF t \in arg THEN "kStartRaw" ELSE "kStopRaw")
    /\ arg' = arg \ {t}
    /\ Goto(t, "idle")
    /\ UNCHANGED <<flags, mode, suspended, ret, next, held, survey, logger,
                   output, window, world, ghosts>>

\* update_upload_handler(): suspend the streams for the upload.
OtaBegin(t) ==
    /\ Calls(t)
    /\ flags' = flags \cup {"transient_streams_suspended"}
    /\ CallApply(t, "ota")
    /\ Outdates(t)
    /\ UNCHANGED <<mode, suspended, next, held, arg, device, nvs, wifi, flips,
                   reboots>>

\* Mutant of OtaFailed: the flag is cleared and not applied.
OtaFailed_NoApply(t) ==
    /\ at[t] = "ota"
    /\ flags' = flags \ {"transient_streams_suspended"}
    /\ Goto(t, "idle")
    /\ Outdates(t)
    /\ UNCHANGED <<mode, suspended, ret, next, held, arg, device, world>>

\* Every error return of the handler resumes the streams.
OtaFailed(t) ==
    /\ at[t] = "ota"
    /\ flags' = flags \ {"transient_streams_suspended"}
    /\ CallApply(t, "idle")
    /\ Outdates(t)
    /\ UNCHANGED <<mode, suspended, next, held, arg, device, world>>

\* Accepted: the handler returns with the streams down; ota_restart reboots.
OtaAccepted(t) ==
    /\ at[t] = "ota"
    /\ Goto(t, "idle")
    /\ UNCHANGED <<flags, mode, suspended, ret, next, held, arg, device, world,
                   ghosts>>

-----------------------------------------------------------------------------
(* Environment and specification.                                          *)

\* The station joins or loses its WiFi network.
WifiFlip ==
    /\ flips < MaxFlips
    /\ flips' = flips + 1
    /\ wifi' = (IF wifi = "up" THEN "down" ELSE "up")
    /\ UNCHANGED <<flags, mode, suspended, locals, device, nvs, calls, reboots,
                   ghosts>>

\* Where the tasks start: app_main has just created them.
StartLabel(t) == CASE t = "base" -> "boot"
                   [] t = "enable" -> "wait"
                   [] OTHER -> "idle"

\* Mutant of StartFlags: no boot hold-off.
StartFlags_NoHoldOff ==
    IF "ntrip_on" \in nvs THEN {"user_streams_enabled"} ELSE {}

\* The atomics after BaseStation::start().
StartFlags == {"transient_streams_suspended"}
                  \cup (IF "ntrip_on" \in nvs THEN {"user_streams_enabled"}
                                              ELSE {})

Init ==
    /\ nvs \in SUBSET NvsKeys
    /\ flags = StartFlags
    /\ mode = "survey"
    /\ suspended = Clients
    /\ at = [t \in Tasks |-> StartLabel(t)]
    /\ ret = [t \in Tasks |-> "idle"]
    /\ next = [t \in Tasks |-> 0]
    /\ held = {}
    /\ arg = {}
    /\ actions = <<>>
    /\ survey = "idle"
    /\ logger = "idle"
    /\ output \in Output
    /\ window = {}
    /\ wifi \in {"up", "down"}
    /\ calls = 0
    /\ flips = 0
    /\ reboots = 0
    /\ stale = {}
    /\ clobbered = {}

\* Power loss, watchdog or esp_restart(): everything but NVS starts over.
\* The receiver comes back with its saved output or keeps the current one.
Reboot ==
    /\ reboots < MaxReboots
    /\ reboots' = reboots + 1
    /\ flags' = StartFlags
    /\ mode' = "survey"
    /\ suspended' = Clients
    /\ at' = [t \in Tasks |-> StartLabel(t)]
    /\ ret' = [t \in Tasks |-> "idle"]
    /\ next' = [t \in Tasks |-> 0]
    /\ held' = {}
    /\ arg' = {}
    /\ actions' = <<>>
    /\ survey' = "idle"
    /\ logger' = "idle"
    /\ output' \in Output
    /\ window' = {}
    /\ stale' = {}
    /\ clobbered' = {}
    /\ UNCHANGED <<nvs, wifi, calls, flips>>

ApplyStep(t) == ApplyRead(t) \/ ApplyReadOut(t) \/ ApplyWrite(t)

BaseStep ==
    \/ Boot \/ SurveyOutput \/ TransmitOutput
    \/ HandleSurvey \/ HandlePosition \/ HandleStopRaw \/ ResetUm980
    \/ EnterRaw \/ RawOutput \/ ExitRawReset \/ ExitRawOutput \/ ResetOutput
    \/ Dequeue \/ SurveyCompleted \/ Frame \/ RateReached \/ RateTooLow

EnableStep == EnableLoad \/ EnableStore \/ EnableResume

CallStart(t) ==
    \/ \E b \in BOOLEAN : "enable" \in Api /\ SetStreamsEnabled(t, b)
    \/ \E b \in BOOLEAN : "raw" \in Api /\ RequestRaw(t, b)
    \/ "reload" \in Api /\ ReloadServices(t)
    \/ "survey" \in Api /\ Request(t, "kSurvey")
    \/ "position" \in Api /\ Request(t, "kPosition")

WebStart(t) ==
    \/ "reset" \in Api /\ Request(t, "kResetUm980")
    \/ "ota" \in Api /\ OtaBegin(t)

CallStep(t) ==
    StoreUser(t) \/ EnqueueRaw(t) \/ OtaFailed(t) \/ OtaAccepted(t)

Next ==
    \/ \E t \in Tasks : ApplyStep(t)
    \/ BaseStep
    \/ EnableStep
    \/ GatePoll
    \/ \E t \in Callers : CallStart(t) \/ CallStep(t)
    \/ \E t \in Web : WebStart(t)
    \/ WifiFlip
    \/ Reboot

Spec == Init /\ [][Next]_vars

\* The scheduler runs every ready task, an upload ends, and the loop of
\* run() drains the queue, parses waiting frames and closes rate windows
\* over and over.  A receiver that keeps sending RTCM is in some window
\* measured at or above the threshold.
Fairness ==
    /\ \A t \in Tasks : WF_vars(ApplyStep(t))
    /\ \A t \in Callers : WF_vars(CallStep(t))
    /\ WF_vars(at["base"] # "loop" /\ BaseStep)
    /\ SF_vars(Dequeue)
    /\ SF_vars(Frame)
    /\ SF_vars(RateReached)
    /\ WF_vars(EnableStep)
    /\ WF_vars(GatePoll)

FairSpec == Spec /\ Fairness

-----------------------------------------------------------------------------
(* Properties.                                                             *)

\* Types; apply_stream_state() returns to its caller, never into itself, and
\* the action queue stays within its capacity.
TypeOK ==
    /\ flags \subseteq AtomicFlags
    /\ mode \in {"survey", "transmit"}
    /\ suspended \subseteq Clients
    /\ at \in [Tasks -> Labels]
    /\ ret \in [Tasks -> Labels \ ApplyLabels]
    /\ next \in [Tasks -> Clients]
    /\ held \subseteq Tasks
    /\ arg \subseteq Tasks
    /\ actions \in Seq(ActionType)
    /\ Len(actions) <= QueueDepth
    /\ survey \in {"idle", "collecting"}
    /\ logger \in {"idle", "active"}
    /\ output \in Output
    /\ window \subseteq {"bytes", "old"}
    /\ nvs \subseteq NvsKeys
    /\ wifi \in {"up", "down"}
    /\ calls \in Nat
    /\ flips \in Nat
    /\ reboots \in Nat
    /\ stale \subseteq Tasks
    /\ clobbered \subseteq Clients

\* Nobody is inside apply_stream_state() or between a flag write and the
\* apply_stream_state() that belongs to it.
Quiet == \A t \in Tasks :
            at[t] \notin ApplyLabels \cup {"tx_cfg", "ex_reset", "ex_cfg"}

\* Every path that writes a flag of the gate ends in an apply_stream_state()
\* that reaches every client: once all tasks are out of it, a client differs
\* from what the flags demand only if its last write was computed before a
\* later flag write of another task (the lost-update race).
DivergesOnlyByRace ==
    Quiet => \A c \in Clients \ clobbered : c \in suspended <=> Gate(c)

\* Raw collection and the RINEX logger run in base mode only: kSurvey and
\* kPosition leave raw collection before they change anything else, and
\* the logger never outlives the raw_collection_ flag.
CollectionOnlyInBaseMode ==
    /\ "raw_collection" \in flags => mode = "transmit" /\ survey = "idle"
    /\ logger = "active" => "raw_collection" \in flags

\* When the main loop runs, the receiver sends what the loop is going to
\* parse: RTCM frames in base mode, RANGEA logs in raw collection, nothing
\* on COM3 during a survey (receiver commands not failing).
OutputFollowsMode ==
    (at["base"] = "loop" /\ ~Faults) =>
        output = (IF "raw_collection" \in flags THEN "raw"
                  ELSE IF mode = "transmit" THEN "rtcm" ELSE "none")

\* The boot hold-off: no stream runs before rtk_enable has restored the
\* persisted state (unless a firmware upload failed meanwhile, whose error
\* return resumes the streams).
HoldOff ==
    (at["enable"] \in {"wait", "en_user"} /\ "ota" \notin Api) =>
        suspended = Clients

\* Once base mode, an RTCM output and the WiFi connection stay up and the
\* NTRIP switch stays on, every stream comes up, short of the race.
StreamsComeUp ==
    <>[](/\ mode = "transmit" /\ "raw_collection" \notin flags
         /\ "user_streams_enabled" \in flags
         /\ output = "rtcm" /\ wifi = "up")
        => <>[](suspended \subseteq clobbered)

\* Queued actions do not starve: whatever the mode, the queue drains.
RequestsServed == []<>(actions = <<>>)
=============================================================================
