--------------------------- MODULE WifiManagerProofs ---------------------------
(***************************************************************************)
(* Proofs about WifiManager: for every timing of the firmware, every       *)
(* number of tasks, faults, commands and waiting events, connected_ is     *)
(* never left set on a dead link, and the flags, the timer and the beacon  *)
(* say what the radio does.                                                *)
(*                                                                         *)
(* Inv is inductive.  It has three parts: the types; what the events that  *)
(* wait say of the link (Tells); and, while nothing has set flags and      *)
(* radio at odds, what a task that is switching the mode has done so far   *)
(* (Radio).                                                                *)
(***************************************************************************)
EXTENDS WifiManager, TLAPS

-----------------------------------------------------------------------------
(* The events and the link.                                                *)

Ends(s, e) == s # <<>> /\ s[Len(s)] = e

\* The last event that waits is that of the link's last change.
TellsLink ==
    /\ link # "ip" => ~Ends(events, "got_ip")
    /\ link # "ip" /\ events = <<>> => "connected" \notin flags

\* A station that is down with nothing left to report has its timer running,
\* unless the SoftAP is up, a task is about to ask for an association, or the
\* last request for one failed.
AboutToConnect == \E t \in Tasks : at[t] \in {"active", "publish", "connect"}

TimerRuns ==
    running /\ link = "down" /\ events = <<>> /\ ~AboutToConnect =>
        offline # -1 \/ "ap" \in flags \/ "connect" \in missed

-----------------------------------------------------------------------------
(* The switches of the mode.                                               *)

\* Who comes to which step, and from where.
Roles ==
    /\ at["recovery"] \notin {"disconnect", "ap_config", "ap_set"}
    /\ \A t \in Callers : at[t] \notin {"rpc", "decide"} /\ op[t] = "station"
    /\ at["recovery"] \notin Calm => op["recovery"] \in {"ap_sta", "disable"}
    /\ at["recovery"] \in {"stop", "mode", "config", "start"} /\ op["recovery"] = "ap_sta"
           => "ap" \notin flags

\* mode "ap" is that of a device that has booted without a network: no task
\* has set a mode since.
ModeIsSet == \A t \in Tasks : at[t] \in {"config", "start", "active", "publish", "connect"} => mode # "ap"

\* Only one task is past its first step.
Waits(t) == at[t] \in Calm \cup (IF t = "recovery" THEN {"stop"} ELSE {"disconnect"})
OneSwitches == \A t, u \in Tasks : t # u => Waits(t) \/ Waits(u)

\* What a task has done to the radio when it comes to a step.
Done(t) ==
    /\ at[t] = "mode" => ~running \/ (ApUp <=> "ap" \in flags)
    /\ at[t] \in {"active", "publish", "connect"} => running
    /\ at[t] \in {"config", "start", "active", "publish", "connect"} => mode = TargetMode(op[t])
    /\ at[t] \in {"publish", "connect"} => ("ap" \in flags <=> op[t] = "ap_sta")

\* While no task is past esp_wifi_stop() the flag is honest, or another
\* attempt to tear the SoftAP down is due.
Settled == \A t \in Tasks : at[t] \in Calm \cup {"disconnect", "stop"}

TearDownDue ==
    /\ ~running /\ "ap" \in flags
    /\ "pending" \in flags \/ (at["recovery"] = "stop" /\ op["recovery"] = "disable")

FlagIsHonest == Settled => (ApUp <=> "ap" \in flags) \/ TearDownDue

\* The password reaches the driver, or a task that applies it is waiting.
BeaconFollows ==
    "beacon" \notin missed /\ ~Applying =>
        /\ ApUp /\ at["recovery"] # "config" => beacon = fill_ap_config(apPass)
        /\ at["recovery"] = "start" /\ op["recovery"] = "ap_sta" => beacon = fill_ap_config(apPass)

InStep == OneSwitches /\ (\A t \in Tasks : Done(t)) /\ FlagIsHonest /\ BeaconFollows

Radio == spoiled = {} => InStep

Inv == TypeOK /\ TellsLink /\ TimerRuns /\ Roles /\ ModeIsSet /\ Radio

-----------------------------------------------------------------------------
(* Operators.                                                              *)

LEMMA PostedLast ==
  ASSUME NEW s \in Seq(Events), NEW e \in Events
  PROVE  /\ Append(s, e) # <<>>
         /\ \A x : Ends(Append(s, e), x) <=> x = e
  BY DEF Ends

LEMMA HandledFirst ==
  ASSUME NEW s \in Seq(Events), s # <<>>
  PROVE  /\ Head(s) \in Events /\ Tail(s) \in Seq(Events) /\ Len(Tail(s)) = Len(s) - 1
         /\ Tail(s) # <<>> => \A x : Ends(Tail(s), x) <=> Ends(s, x)
         /\ Tail(s) = <<>> => Ends(s, Head(s))
<1>1. /\ Head(s) \in Events /\ Tail(s) \in Seq(Events) /\ Len(Tail(s)) = Len(s) - 1
      /\ Len(s) \in Nat /\ Len(s) # 0
  OBVIOUS
<1>2. ASSUME Tail(s) # <<>> PROVE Tail(s)[Len(Tail(s))] = s[Len(s)]
  <2>1. Len(Tail(s)) \in 1..Len(Tail(s))
    BY <1>1, <1>2
  <2>2. Tail(s)[Len(Tail(s))] = s[Len(Tail(s)) + 1]
    BY <2>1
  <2>3. Len(Tail(s)) + 1 = Len(s)
    BY <1>1
  <2> QED
    BY <2>2, <2>3
<1>3. ASSUME Tail(s) = <<>> PROVE s[Len(s)] = Head(s)
  <2> DEFINE r == Tail(s)
          n == Len(s)
  <2>1. Len(r) = n - 1 /\ r = <<>> /\ n \in Nat
    BY <1>1, <1>3
  <2>2. s[1] = Head(s)
    BY <1>1
  <2> HIDE DEF r, n
  <2>3. Len(r) = 0
    BY <2>1
  <2>4. n = 1
    BY <2>1, <2>3
  <2> QED
    BY <2>2, <2>4 DEF n
<1> QED
  BY <1>1, <1>2, <1>3 DEF Ends

LEMMA GotoFacts ==
  ASSUME at \in [Tasks -> Steps], NEW t \in Tasks, NEW step \in Steps, Goto(t, step)
  PROVE  /\ at' \in [Tasks -> Steps]
         /\ at'[t] = step
         /\ \A u \in Tasks \ {t} : at'[u] = at[u]
  BY DEF Goto

LEMMA TaskNames == Tasks = {"recovery"} \cup Callers /\ "recovery" \notin Callers
  BY WifiAssumption DEF Tasks

LEMMA ByAction ==
  ASSUME Next
  PROVE  \/ handle_event
         \/ RecoveryPass \/ refresh_ap_info \/ TearDownAp \/ RaiseAp \/ RetryStation
         \/ \E t \in Tasks :
                \/ update_credentials(t) \/ StopRadio(t) \/ SetMode(t) \/ configure_station(t)
                \/ StartRadio(t) \/ PublishAp(t) \/ Publish(t) \/ Connect(t) \/ SwitchFails(t)
         \/ \E t \in Callers :
                \/ OnWifiConnect(t) \/ ReadPassword(t) \/ SetPassword(t)
                \/ \E p \in ApPasswords : OnApSave(t, p) \/ ap_password_handler(t, p)
         \/ WebWifi
         \/ Joins \/ Refused \/ LinkLost \/ LeaseLost
<1>1. "recovery" \in Tasks /\ \A t \in Callers : t \in Tasks
  BY DEF Tasks
<1>2. \A t \in Screens \cup Servers : t \in Callers
  BY DEF Callers
<1> QED
  BY <1>1, <1>2, Zenon DEF Next, recovery_loop, Switch, CallerTask, apply_ap_settings

-----------------------------------------------------------------------------
(* Types.                                                                  *)

LEMMA OlderFacts ==
  ASSUME NEW limit \in Nat, NEW n \in -1..limit
  PROVE  /\ Older(n, limit) \in -1..limit
         /\ n \in 0..limit => Older(n, limit) \in 0..limit
         /\ Older(n, limit) = -1 <=> n = -1
  BY DEF Older

\* What the links report.
LEMMA PostTypes ==
  ASSUME TypeOK, NEW e \in Events, Post(e)
  PROVE  events' \in Seq(Events) /\ Len(events') <= MaxEvents
<1>1. /\ events \in Seq(Events) /\ MaxEvents \in Nat
      /\ Len(events) < MaxEvents /\ events' = Append(events, e)
  BY WifiAssumption DEF TypeOK, Post
<1>2. events' \in Seq(Events) /\ Len(events') = Len(events) + 1 /\ Len(events) \in Nat
  BY <1>1
<1> QED
  BY <1>1, <1>2

LEMMA FaultTypes ==
  ASSUME TypeOK, DriverFails
  PROVE  faults' \in 0..MaxFaults
  BY WifiAssumption DEF TypeOK, DriverFails

LEMMA DropTypes ==
  ASSUME TypeOK, DropLink
  PROVE  link' \in Links /\ events' \in Seq(Events) /\ Len(events') <= MaxEvents
<1>1. link' = "down" /\ (UNCHANGED events \/ Post("disconnected"))
  BY DEF DropLink
<1> QED
  BY <1>1, PostTypes DEF TypeOK, Links, Events

LEMMA RequestTypes ==
  ASSUME TypeOK, request_connect
  PROVE  /\ link' \in Links /\ events' \in Seq(Events) /\ Len(events') <= MaxEvents
         /\ retry' \in 0..RetryInterval
         /\ missed' \subseteq {"connect", "beacon"} /\ faults' \in 0..MaxFaults
<1>1. /\ retry' = 0
      /\ UNCHANGED link \/ link' \in {"trying", "down"}
      /\ UNCHANGED events \/ Post("disconnected")
      /\ missed' \in {missed, missed \ {"connect"}, missed \cup {"connect"}}
      /\ UNCHANGED faults \/ DriverFails
  BY DEF request_connect, Associates, ConnectFails, DropLink
<1>2. events' \in Seq(Events) /\ Len(events') <= MaxEvents
  BY <1>1, PostTypes DEF TypeOK, Events
<1>3. missed' \subseteq {"connect", "beacon"}
  BY <1>1 DEF TypeOK
<1>4. faults' \in 0..MaxFaults
  BY <1>1, FaultTypes DEF TypeOK
<1> QED
  BY <1>1, <1>2, <1>3, <1>4, WifiAssumption DEF TypeOK, Links

LEMMA FillTypes ==
  ASSUME TypeOK
  PROVE  fill_ap_config(apPass) \in ApPasswords \cup {"none", "default"}
  BY DEF TypeOK, fill_ap_config

LEMMA ForgetTypes ==
  ASSUME TypeOK, NEW t \in Tasks, Forget(t)
  PROVE  filled' \in [Tasks -> ApPasswords \cup {"none", "default"}]
  BY DEF TypeOK, Forget

LEMMA BeaconTypes ==
  ASSUME TypeOK, NEW t \in Tasks, SetBeacon(t)
  PROVE  /\ beacon' \in ApPasswords \cup {"none", "default"}
         /\ filled' \in [Tasks -> ApPasswords \cup {"none", "default"}]
         /\ missed' \subseteq {"connect", "beacon"}
<1>1. beacon' = filled[t] /\ missed' \in {missed \ {"beacon"}, missed \cup {"beacon"}} /\ Forget(t)
  BY DEF SetBeacon
<1>2. missed' \subseteq {"connect", "beacon"}
  BY <1>1 DEF TypeOK
<1> QED
  BY <1>1, <1>2, ForgetTypes DEF TypeOK

LEMMA TypeStep ==
  ASSUME TypeOK, Next
  PROVE  TypeOK'
<1> USE WifiAssumption
<1>0. /\ at \in [Tasks -> Steps] /\ op \in [Tasks -> Ops]
      /\ "recovery" \in Tasks /\ Callers \subseteq Tasks
      /\ {"idle", "rpc", "decide", "disconnect", "stop", "mode", "config", "start", "active",
          "publish", "connect", "ap_config", "ap_set"} \subseteq Steps
  BY DEF TypeOK, Tasks, Steps
<1>1. CASE handle_event
  <2>1. events' \in Seq(Events) /\ Len(events') <= MaxEvents
    BY <1>1, HandledFirst DEF TypeOK, handle_event
  <2>2. /\ flags' \subseteq {"connected", "ap", "pending"}
        /\ offline' \in -1..ApFallback /\ retry' \in 0..RetryInterval
    <3>1. GotIp \/ LostIp \/ Disconnected
      BY <1>1, HandledFirst DEF TypeOK, handle_event, Events
    <3>2. CASE GotIp
      BY <3>2 DEF GotIp, TypeOK
    <3>3. CASE LostIp
      BY <3>3 DEF LostIp, Offline, TypeOK
    <3>4. CASE Disconnected
      BY <3>4 DEF Disconnected, Offline, TypeOK
    <3> QED
      BY <3>1, <3>2, <3>3, <3>4
  <2> QED
    BY <1>1, <2>1, <2>2 DEF TypeOK, handle_event, LosesRetry, apInfo, stored, radio, counts
<1>2. CASE RecoveryPass
  <2> DEFINE elapsed == Older(info, ApInfoRefresh)
  <2>0. /\ offline \in -1..ApFallback /\ retry \in -1..RetryInterval /\ retry \in 0..RetryInterval
        /\ info \in -1..ApInfoRefresh /\ cache \in {"none", "current", "old"}
        /\ ApFallback \in Nat /\ RetryInterval \in Nat /\ ApInfoRefresh \in Nat
    BY WifiAssumption DEF TypeOK
  <2>1. /\ Older(offline, ApFallback) \in -1..ApFallback
        /\ Older(retry, RetryInterval) \in 0..RetryInterval
        /\ elapsed \in -1..ApInfoRefresh
    BY <2>0, OlderFacts
  <2>2. \E s \in Steps : Goto("recovery", s)
    BY <1>0, <1>2 DEF RecoveryPass
  <2>3. at' \in [Tasks -> Steps]
    BY <1>0, <2>2, GotoFacts
  <2>4. /\ cache' \in {cache, "none"} /\ info' \in {-1, 0, elapsed}
        /\ offline' = Older(offline, ApFallback) /\ retry' = Older(retry, RetryInterval)
    BY <1>2 DEF RecoveryPass
  <2>5. /\ cache' \in {"none", "current", "old"} /\ info' \in -1..ApInfoRefresh
        /\ offline' \in -1..ApFallback /\ retry' \in 0..RetryInterval
    BY <2>0, <2>1, <2>4
  <2> QED
    BY <1>2, <2>3, <2>5 DEF TypeOK, RecoveryPass, stored, radio, counts
<1>3. CASE refresh_ap_info
  <2>1. at' \in [Tasks -> Steps]
    BY <1>0, <1>3, GotoFacts DEF refresh_ap_info
  <2>2. faults' \in 0..MaxFaults
    BY <1>3, FaultTypes DEF TypeOK, refresh_ap_info
  <2>3. cache' \in {"none", "current", "old"}
    BY <1>3 DEF TypeOK, refresh_ap_info
  <2> QED
    BY <1>3, <2>1, <2>2, <2>3 DEF TypeOK, refresh_ap_info, manager, stored, radio
<1>4. CASE TearDownAp
  <2>1. at' \in [Tasks -> Steps]
    BY <1>0, <1>4, GotoFacts DEF TearDownAp
  <2>2. op' \in [Tasks -> Ops]
    BY <1>0, <1>4 DEF TearDownAp, Ops
  <2> QED
    BY <1>4, <2>1, <2>2 DEF TypeOK, TearDownAp, apInfo, stored, radio, counts
<1>5. CASE RaiseAp
  <2>1. at' \in [Tasks -> Steps]
    BY <1>0, <1>5, GotoFacts DEF RaiseAp
  <2>2. op' \in [Tasks -> Ops]
    BY <1>0, <1>5 DEF RaiseAp, Ops
  <2> QED
    BY <1>5, <2>1, <2>2 DEF TypeOK, RaiseAp, manager, apInfo, stored, radio, counts
<1>6. CASE RetryStation
  <2>1. at' \in [Tasks -> Steps]
    BY <1>0, <1>6, GotoFacts DEF RetryStation
  <2>2. /\ link' \in Links /\ events' \in Seq(Events) /\ Len(events') <= MaxEvents
        /\ retry' \in 0..RetryInterval
        /\ missed' \subseteq {"connect", "beacon"} /\ faults' \in 0..MaxFaults
    <3>1. request_connect \/ UNCHANGED <<retry, link, events, missed, faults>>
      BY <1>6 DEF RetryStation
    <3> QED
      BY <1>0, <3>1, RequestTypes DEF TypeOK
  <2> QED
    BY <1>6, <2>1, <2>2 DEF TypeOK, RetryStation, apInfo, stored
<1>7. ASSUME NEW t \in Tasks, update_credentials(t) PROVE TypeOK'
  <2>1. at' \in [Tasks -> Steps]
    BY <1>0, <1>7, GotoFacts DEF update_credentials, Step
  <2>2. link' \in Links /\ events' \in Seq(Events) /\ Len(events') <= MaxEvents
    BY <1>7, DropTypes DEF update_credentials, TypeOK
  <2>3. faults' \in 0..MaxFaults
    BY <1>7, FaultTypes DEF TypeOK, update_credentials
  <2> QED
    BY <1>7, <2>1, <2>2, <2>3
       DEF TypeOK, update_credentials, Step, Overlap, manager, apInfo, stored
<1>8. ASSUME NEW t \in Tasks, StopRadio(t) PROVE TypeOK'
  <2>1. at' \in [Tasks -> Steps]
    BY <1>0, <1>8, GotoFacts DEF StopRadio, Step
  <2>2. /\ link' \in Links /\ events' \in Seq(Events) /\ Len(events') <= MaxEvents
        /\ running' \in BOOLEAN
    BY <1>8, DropTypes DEF StopRadio, TypeOK
  <2>3. faults' \in 0..MaxFaults
    BY <1>8, FaultTypes DEF TypeOK, StopRadio
  <2> QED
    BY <1>8, <2>1, <2>2, <2>3 DEF TypeOK, StopRadio, Step, Overlap, manager, apInfo, stored
<1>9. ASSUME NEW t \in Tasks, SetMode(t) PROVE TypeOK'
  <2>1. at' \in [Tasks -> Steps]
    <3>1. \E s \in Steps : Goto(t, s)
      BY <1>0, <1>9 DEF SetMode, Step
    <3> QED
      BY <1>0, <3>1, GotoFacts
  <2>2. mode' \in Modes /\ filled' \in [Tasks -> ApPasswords \cup {"none", "default"}]
    BY <1>9, FillTypes DEF TypeOK, SetMode, TargetMode, Modes
  <2> QED
    BY <1>9, <2>1, <2>2 DEF TypeOK, SetMode, Step, Overlap, manager, apInfo, stored
<1>10. ASSUME NEW t \in Tasks, configure_station(t) PROVE TypeOK'
  <2>1. at' \in [Tasks -> Steps]
    BY <1>0, <1>10, GotoFacts DEF configure_station, Step
  <2>2. cache' \in {"none", "current", "old"}
    BY <1>10 DEF TypeOK, configure_station
  <2>3. /\ beacon' \in ApPasswords \cup {"none", "default"}
        /\ filled' \in [Tasks -> ApPasswords \cup {"none", "default"}]
        /\ missed' \subseteq {"connect", "beacon"}
    <3>1. SetBeacon(t) \/ UNCHANGED <<beacon, filled, missed>>
      BY <1>10 DEF configure_station
    <3> QED
      BY <3>1, BeaconTypes DEF TypeOK
  <2> QED
    BY <1>10, <2>1, <2>2, <2>3 DEF TypeOK, configure_station, Step, Overlap, manager, stored
<1>11. ASSUME NEW t \in Tasks, StartRadio(t) PROVE TypeOK'
  <2>1. at' \in [Tasks -> Steps]
    BY <1>0, <1>11, GotoFacts DEF StartRadio, Step
  <2> QED
    BY <1>11, <2>1 DEF TypeOK, StartRadio, Step, Overlap, manager, apInfo, stored, counts
<1>12. ASSUME NEW t \in Tasks, PublishAp(t) PROVE TypeOK'
  <2>1. at' \in [Tasks -> Steps]
    BY <1>0, <1>12, GotoFacts DEF PublishAp, Step
  <2> QED
    BY <1>12, <2>1 DEF TypeOK, PublishAp, With, Step, Overlap, radio, apInfo, stored, counts
<1>13. ASSUME NEW t \in Tasks, Publish(t) PROVE TypeOK'
  <2>1. at' \in [Tasks -> Steps]
    BY <1>0, <1>13, GotoFacts DEF Publish, Step
  <2>2. /\ flags' \subseteq {"connected", "ap", "pending"}
        /\ offline' \in -1..ApFallback /\ retry' \in 0..RetryInterval
    BY <1>13 DEF TypeOK, Publish
  <2> QED
    BY <1>13, <2>1, <2>2 DEF TypeOK, Publish, Step, Overlap, radio, apInfo, stored, counts
<1>14. ASSUME NEW t \in Tasks, Connect(t) PROVE TypeOK'
  <2>1. at' \in [Tasks -> Steps]
    BY <1>0, <1>14, GotoFacts DEF Connect, Step
  <2>2. /\ link' \in Links /\ events' \in Seq(Events) /\ Len(events') <= MaxEvents
        /\ retry' \in 0..RetryInterval
        /\ missed' \subseteq {"connect", "beacon"} /\ faults' \in 0..MaxFaults
    BY <1>14, RequestTypes DEF Connect
  <2> QED
    BY <1>14, <2>1, <2>2 DEF TypeOK, Connect, Step, Overlap, apInfo, stored
<1>15. ASSUME NEW t \in Tasks, SwitchFails(t) PROVE TypeOK'
  <2>1. at' \in [Tasks -> Steps]
    BY <1>0, <1>15, GotoFacts DEF SwitchFails, Fails
  <2>2. flags' \subseteq {"connected", "ap", "pending"}
    BY <1>15 DEF TypeOK, SwitchFails, Fails, With
  <2>3. faults' \in 0..MaxFaults /\ filled' \in [Tasks -> ApPasswords \cup {"none", "default"}]
    BY <1>15, FaultTypes, ForgetTypes DEF SwitchFails, Fails
  <2>4. beacon' \in ApPasswords \cup {"none", "default"}
    BY <1>15 DEF TypeOK, SwitchFails, Fails
  <2> QED
    BY <1>15, <2>1, <2>2, <2>3, <2>4 DEF TypeOK, SwitchFails, Fails, apInfo, stored
<1>16. ASSUME NEW t \in Callers, OnWifiConnect(t) PROVE TypeOK'
  <2>1. at' \in [Tasks -> Steps]
    BY <1>0, <1>16, GotoFacts DEF OnWifiConnect, Create
  <2>2. commands' \in 0..MaxCommands
    BY <1>16, WifiAssumption DEF OnWifiConnect, Command, TypeOK
  <2>3. faults' \in 0..MaxFaults /\ missed' \subseteq {"connect", "beacon"}
    BY <1>16, FaultTypes DEF OnWifiConnect, Create, TypeOK
  <2> QED
    BY <1>16, <2>1, <2>2, <2>3 DEF TypeOK, OnWifiConnect, manager, apInfo, radio
<1>17. ASSUME NEW t \in Callers, NEW p \in ApPasswords, OnApSave(t, p) \/ ap_password_handler(t, p)
       PROVE  TypeOK'
  <2>1. at' \in [Tasks -> Steps]
    BY <1>0, <1>17, GotoFacts DEF OnApSave, ap_password_handler, Create
  <2>2. commands' \in 0..MaxCommands
    BY <1>17, WifiAssumption DEF OnApSave, ap_password_handler, Command, TypeOK
  <2>3. faults' \in 0..MaxFaults
    BY <1>17, FaultTypes DEF OnApSave, ap_password_handler, Create, TypeOK
  <2>4. missed' \subseteq {"connect", "beacon"} /\ apPass' \in ApPasswords
    BY <1>17 DEF OnApSave, ap_password_handler, Create, StoresPassword, TypeOK
  <2> QED
    BY <1>17, <2>1, <2>2, <2>3, <2>4
       DEF TypeOK, OnApSave, ap_password_handler, manager, apInfo, radio
<1>18. ASSUME NEW t \in Callers, ReadPassword(t) \/ SetPassword(t) PROVE TypeOK'
  <2>1. at' \in [Tasks -> Steps]
    BY <1>0, <1>18, GotoFacts DEF ReadPassword, SetPassword
  <2>2. CASE ReadPassword(t)
    <3>1. filled' \in [Tasks -> ApPasswords \cup {"none", "default"}]
      BY <1>0, <2>2, FillTypes DEF TypeOK, ReadPassword
    <3> QED
      BY <2>1, <2>2, <3>1 DEF TypeOK, ReadPassword, manager, apInfo, stored, radio, counts
  <2>3. CASE SetPassword(t)
    <3>1. faults' \in 0..MaxFaults
      BY <2>3, FaultTypes DEF TypeOK, SetPassword
    <3>2. /\ beacon' \in ApPasswords \cup {"none", "default"}
          /\ filled' \in [Tasks -> ApPasswords \cup {"none", "default"}]
          /\ missed' \subseteq {"connect", "beacon"}
      <4>1. \/ SetBeacon(t)
            \/ Forget(t) /\ UNCHANGED beacon /\ missed' \in {missed, missed \cup {"beacon"}}
        BY <2>3 DEF SetPassword
      <4>2. CASE SetBeacon(t)
        BY <1>0, <4>2, BeaconTypes
      <4>3. CASE Forget(t) /\ UNCHANGED beacon /\ missed' \in {missed, missed \cup {"beacon"}}
        BY <1>0, <4>3, ForgetTypes DEF TypeOK
      <4> QED
        BY <4>1, <4>2, <4>3
    <3> QED
      BY <2>1, <2>3, <3>1, <3>2 DEF TypeOK, SetPassword, manager, apInfo, stored
  <2> QED
    BY <1>18, <2>2, <2>3
<1>19. CASE WebWifi
  <2>1. /\ at' \in [Tasks -> Steps] /\ op' \in [Tasks -> Ops]
        /\ filled' \in [Tasks -> ApPasswords \cup {"none", "default"}]
    BY <1>0, <1>19 DEF WebWifi, Ops
  <2>2. events' \in Seq(Events) /\ Len(events') <= MaxEvents
    BY <1>19 DEF WebWifi
  <2>3. faults' \in 0..MaxFaults /\ commands' \in 0..MaxCommands
    BY <1>19, FaultTypes, WifiAssumption DEF TypeOK, WebWifi
  <2>4. link' \in Links /\ missed' \subseteq {"connect", "beacon"}
    BY <1>19 DEF WebWifi, Links
  <2> QED
    BY <1>19, <2>1, <2>2, <2>3, <2>4 DEF TypeOK, WebWifi, Modes
<1>20. CASE Joins \/ LeaseLost
  <2>1. link' \in Links /\ events' \in Seq(Events) /\ Len(events') <= MaxEvents
    BY <1>20, PostTypes DEF Joins, LeaseLost, Links, Events
  <2> QED
    BY <1>20, <2>1 DEF TypeOK, Joins, LeaseLost, Environment, manager, apInfo, stored, counts
<1>21. CASE Refused \/ LinkLost
  <2>1. link' \in Links /\ events' \in Seq(Events) /\ Len(events') <= MaxEvents
    BY <1>21, DropTypes DEF Refused, LinkLost
  <2> QED
    BY <1>21, <2>1 DEF TypeOK, Refused, LinkLost, Environment, manager, apInfo, stored, counts
<1> QED
  BY <1>1, <1>2, <1>3, <1>4, <1>5, <1>6, <1>7, <1>8, <1>9, <1>10, <1>11, <1>12, <1>13, <1>14,
     <1>15, <1>16, <1>17, <1>18, <1>19, <1>20, <1>21, ByAction, Zenon

-----------------------------------------------------------------------------
(* The events and the link.                                                *)

\* An action that leaves the link and the events alone.
LEMMA QuietTells ==
  ASSUME TellsLink, UNCHANGED <<link, events>>, "connected" \in flags' => "connected" \in flags
  PROVE  TellsLink'
  BY DEF TellsLink

LEMMA PostTells ==
  ASSUME TypeOK, NEW e \in Events \ {"got_ip"}, Post(e)
  PROVE  TellsLink' /\ events' # <<>>
<1>1. events \in Seq(Events) /\ events' = Append(events, e)
  BY DEF TypeOK, Post
<1> QED
  BY <1>1, PostedLast DEF TellsLink

LEMMA DropTells ==
  ASSUME TypeOK, TellsLink, DropLink, UNCHANGED flags
  PROVE  /\ TellsLink'
         /\ link' = "down" /\ events' = <<>> => UNCHANGED <<link, events>>
<1>1. CASE link = "down"
  BY <1>1, QuietTells DEF DropLink
<1>2. CASE link # "down"
  BY <1>2, PostTells DEF DropLink, Events
<1> QED
  BY <1>1, <1>2

LEMMA RequestTells ==
  ASSUME TypeOK, TellsLink, request_connect, UNCHANGED flags
  PROVE  /\ TellsLink'
         /\ \/ link' = "trying" \/ "connect" \in missed'
            \/ ~(running /\ mode # "ap") /\ UNCHANGED <<link, events, missed>>
<1>1. CASE ~(running /\ mode # "ap")
  BY <1>1, QuietTells DEF request_connect
<1>2. CASE running /\ mode # "ap" /\ Associates
  <2>1. CASE link \in {"assoc", "ip"}
    BY <1>2, <2>1, PostTells DEF Associates, Events
  <2>2. CASE link \notin {"assoc", "ip"}
    BY <1>2, <2>2 DEF Associates, TellsLink
  <2> QED
    BY <1>2, <2>1, <2>2 DEF Associates
<1>3. CASE running /\ mode # "ap" /\ ConnectFails
  <2> SUFFICES TellsLink'
    BY <1>3 DEF ConnectFails
  <2>1. CASE UNCHANGED <<link, events>>
    BY <2>1, QuietTells
  <2>2. CASE DropLink
    BY <2>2, DropTells
  <2> QED
    BY <1>3, <2>1, <2>2 DEF ConnectFails
<1> QED
  BY <1>1, <1>2, <1>3 DEF request_connect

LEMMA TellsStep ==
  ASSUME TypeOK, TellsLink, Next
  PROVE  TellsLink'
<1>1. CASE handle_event
  <2>1. /\ events \in Seq(Events) /\ events # <<>> /\ events' = Tail(events)
        /\ link' = link
    BY <1>1 DEF TypeOK, handle_event, radio
  <2>2. ASSUME link # "ip" PROVE ~Ends(events', "got_ip")
    BY <2>1, <2>2, HandledFirst DEF TellsLink, Ends
  <2>3. ASSUME link # "ip", events' = <<>> PROVE "connected" \notin flags'
    <3>1. Head(events) \in {"lost_ip", "disconnected"}
      BY <2>1, <2>3, HandledFirst DEF TellsLink, Events
    <3> QED
      BY <1>1, <3>1 DEF handle_event, LostIp, Disconnected
  <2> QED
    BY <2>1, <2>2, <2>3 DEF TellsLink
<1>2. CASE RecoveryPass \/ refresh_ap_info \/ RaiseAp
  BY <1>2, QuietTells DEF RecoveryPass, refresh_ap_info, RaiseAp, manager, radio
<1>3. CASE TearDownAp
  BY <1>3, QuietTells DEF TearDownAp, radio
<1>4. CASE RetryStation
  BY <1>4, QuietTells, RequestTells DEF RetryStation, Tasks
<1>5. ASSUME NEW t \in Tasks, update_credentials(t) \/ StopRadio(t) PROVE TellsLink'
  <2>1. UNCHANGED flags /\ (DropLink \/ UNCHANGED <<link, events>>)
    BY <1>5 DEF update_credentials, StopRadio, manager
  <2> QED
    BY <2>1, DropTells, QuietTells
<1>6. ASSUME NEW t \in Tasks, SetMode(t) \/ configure_station(t) \/ StartRadio(t) PROVE TellsLink'
  BY <1>6, QuietTells DEF SetMode, configure_station, StartRadio, manager
<1>7. ASSUME NEW t \in Tasks, PublishAp(t) \/ Publish(t) PROVE TellsLink'
  BY <1>7, QuietTells DEF PublishAp, Publish, With, radio
<1>8. ASSUME NEW t \in Tasks, Connect(t) PROVE TellsLink'
  BY <1>8, RequestTells DEF Connect
<1>9. ASSUME NEW t \in Tasks, SwitchFails(t) PROVE TellsLink'
  BY <1>9, QuietTells DEF SwitchFails, Fails, With
<1>10. ASSUME NEW t \in Callers,
              \/ OnWifiConnect(t) \/ ReadPassword(t) \/ SetPassword(t)
              \/ \E p \in ApPasswords : OnApSave(t, p) \/ ap_password_handler(t, p)
       PROVE  TellsLink'
  <2>1. UNCHANGED <<flags, link, events>>
    BY <1>10
       DEF OnWifiConnect, ReadPassword, SetPassword, OnApSave, ap_password_handler, manager, radio
  <2> QED
    BY <2>1, QuietTells
<1>11. CASE WebWifi
  BY <1>11 DEF WebWifi, TellsLink, Ends
<1>12. CASE Joins
  BY <1>12 DEF Joins, TellsLink
<1>13. CASE LeaseLost
  BY <1>13, PostTells DEF LeaseLost, Events
<1>14. CASE Refused \/ LinkLost
  BY <1>14, DropTells DEF Refused, LinkLost, Environment, manager
<1> QED
  BY <1>1, <1>2, <1>3, <1>4, <1>5, <1>6, <1>7, <1>8, <1>9, <1>10, <1>11, <1>12, <1>13, <1>14,
     ByAction, Zenon

LEMMA QuietTimer ==
  ASSUME TimerRuns, UNCHANGED <<running, link, events>>,
         AboutToConnect => AboutToConnect',
         offline' = -1 => offline = -1, "ap" \in flags => "ap" \in flags',
         "connect" \in missed => "connect" \in missed'
  PROVE  TimerRuns'
  BY DEF TimerRuns

\* A step of t that neither comes from the end of a switch nor goes to it.
LEMMA OthersConnect ==
  ASSUME at \in [Tasks -> Steps], NEW t \in Tasks, at[t] \notin {"active", "publish", "connect"},
         NEW step \in Steps, Goto(t, step)
  PROVE  AboutToConnect => AboutToConnect'
<1>1. \A u \in Tasks \ {t} : at'[u] = at[u]
  BY GotoFacts
<1> QED
  BY <1>1 DEF AboutToConnect

LEMMA TimerStep ==
  ASSUME TypeOK, TellsLink, TimerRuns, ModeIsSet, Next
  PROVE  TimerRuns'
<1>0. /\ at \in [Tasks -> Steps] /\ offline \in -1..ApFallback /\ "recovery" \in Tasks /\ Callers \subseteq Tasks
      /\ {"idle", "rpc", "decide", "disconnect", "stop", "mode", "config", "start", "active",
          "publish", "connect", "ap_config", "ap_set"} \subseteq Steps
  BY DEF TypeOK, Tasks, Steps
<1>1. CASE handle_event
  <2> SUFFICES ASSUME running', link' = "down", events' = <<>>, ~AboutToConnect'
               PROVE  offline' # -1
    BY DEF TimerRuns
  <2>1. /\ events \in Seq(Events) /\ events # <<>> /\ events' = Tail(events) /\ link = "down"
    BY <1>1 DEF TypeOK, handle_event, radio
  <2>2. Head(events) \in {"lost_ip", "disconnected"}
    BY <2>1, HandledFirst DEF TellsLink, Events
  <2>3. Offline
    BY <1>1, <2>2 DEF handle_event, LostIp, Disconnected
  <2> QED
    BY <2>3 DEF Offline
<1>2. CASE RecoveryPass
  <2>1. \E s \in Steps : Goto("recovery", s)
    BY <1>0, <1>2 DEF RecoveryPass
  <2>2. AboutToConnect => AboutToConnect'
    BY <1>0, <1>2, <2>1, OthersConnect DEF RecoveryPass
  <2>3. offline' = -1 => offline = -1
    BY <1>0, <1>2, OlderFacts, WifiAssumption DEF RecoveryPass
  <2> QED
    BY <1>2, <2>2, <2>3, QuietTimer DEF RecoveryPass, radio
<1>3. CASE refresh_ap_info \/ RaiseAp
  <2>1. AboutToConnect => AboutToConnect'
    BY <1>0, <1>3, OthersConnect DEF refresh_ap_info, RaiseAp
  <2> QED
    BY <1>3, <2>1, QuietTimer DEF refresh_ap_info, RaiseAp, manager, radio
<1>4. CASE TearDownAp
  <2>1. AboutToConnect => AboutToConnect'
    BY <1>0, <1>4, OthersConnect DEF TearDownAp
  <2> QED
    BY <1>4, <2>1, QuietTimer DEF TearDownAp, radio
<1>5. CASE RetryStation
  <2>1. AboutToConnect => AboutToConnect'
    BY <1>0, <1>5, OthersConnect DEF RetryStation
  <2>2. UNCHANGED <<link, events, missed>> \/ link' = "trying" \/ "connect" \in missed'
    BY <1>0, <1>5, RequestTells DEF RetryStation
  <2>3. CASE UNCHANGED <<link, events, missed>>
    BY <1>5, <2>1, <2>3, QuietTimer DEF RetryStation
  <2>4. CASE link' = "trying" \/ "connect" \in missed'
    BY <2>4 DEF TimerRuns
  <2> QED
    BY <2>2, <2>3, <2>4
<1>6. ASSUME NEW t \in Tasks, update_credentials(t) PROVE TimerRuns'
  <2>1. AboutToConnect => AboutToConnect'
    BY <1>0, <1>6, OthersConnect DEF update_credentials, Step
  <2>2. link' = "down" /\ events' = <<>> => UNCHANGED <<link, events>>
    BY <1>6, DropTells DEF update_credentials, manager
  <2>3. CASE UNCHANGED <<link, events>>
    BY <1>6, <2>1, <2>3, QuietTimer DEF update_credentials, manager
  <2> QED
    BY <2>2, <2>3 DEF TimerRuns
<1>7. ASSUME NEW t \in Tasks, StopRadio(t) PROVE TimerRuns'
  <2>1. AboutToConnect => AboutToConnect'
    BY <1>0, <1>7, OthersConnect DEF StopRadio, Step
  <2>2. CASE running' = FALSE
    BY <2>2 DEF TimerRuns
  <2>3. CASE UNCHANGED <<running, link, events>>
    BY <1>7, <2>1, <2>3, QuietTimer DEF StopRadio, manager
  <2> QED
    BY <1>7, <2>2, <2>3 DEF StopRadio
<1>8. ASSUME NEW t \in Tasks, SetMode(t) PROVE TimerRuns'
  <2>1. \E s \in Steps : Goto(t, s)
    BY <1>0, <1>8 DEF SetMode, Step
  <2>2. AboutToConnect => AboutToConnect'
    BY <1>0, <1>8, <2>1, OthersConnect DEF SetMode, Step
  <2> QED
    BY <1>8, <2>2, QuietTimer DEF SetMode, manager
<1>9. ASSUME NEW t \in Tasks, configure_station(t) PROVE TimerRuns'
  <2>1. AboutToConnect => AboutToConnect'
    BY <1>0, <1>9, OthersConnect DEF configure_station, Step
  <2>2. "connect" \in missed => "connect" \in missed'
    BY <1>9 DEF configure_station, SetBeacon
  <2> QED
    BY <1>9, <2>1, <2>2, QuietTimer DEF configure_station, manager
<1>10. ASSUME NEW t \in Tasks, StartRadio(t) \/ PublishAp(t) \/ Publish(t) PROVE TimerRuns'
  <2>1. at'[t] \in {"active", "publish", "connect"}
    BY <1>0, <1>10, GotoFacts DEF StartRadio, PublishAp, Publish, Step
  <2> QED
    BY <2>1 DEF TimerRuns, AboutToConnect
<1>11. ASSUME NEW t \in Tasks, Connect(t) PROVE TimerRuns'
  <2>1. ~running' \/ link' = "trying" \/ "connect" \in missed'
    BY <1>11, RequestTells DEF Connect, Step, ModeIsSet
  <2> QED
    BY <2>1 DEF TimerRuns
<1>12. ASSUME NEW t \in Tasks, SwitchFails(t) PROVE TimerRuns'
  <2>1. AboutToConnect => AboutToConnect'
    BY <1>0, <1>12, OthersConnect DEF SwitchFails, Fails
  <2> QED
    BY <1>12, <2>1, QuietTimer DEF SwitchFails, Fails, With
<1>13. ASSUME NEW t \in Callers, OnWifiConnect(t) PROVE TimerRuns'
  <2>1. AboutToConnect => AboutToConnect'
    <3>1. at[t] = "idle" /\ (Goto(t, "disconnect") \/ UNCHANGED at)
      BY <1>13 DEF OnWifiConnect, Command, Create
    <3> QED
      BY <1>0, <3>1, OthersConnect DEF AboutToConnect
  <2>2. "connect" \in missed => "connect" \in missed'
    BY <1>13 DEF OnWifiConnect, Create
  <2> QED
    BY <1>13, <2>1, <2>2, QuietTimer DEF OnWifiConnect, manager, radio
<1>14. ASSUME NEW t \in Callers, NEW p \in ApPasswords, OnApSave(t, p) \/ ap_password_handler(t, p)
       PROVE  TimerRuns'
  <2>1. AboutToConnect => AboutToConnect'
    <3>1. at[t] = "idle" /\ (Goto(t, "ap_config") \/ UNCHANGED at)
      BY <1>14 DEF OnApSave, ap_password_handler, Command, Create
    <3> QED
      BY <1>0, <3>1, OthersConnect DEF AboutToConnect
  <2>2. "connect" \in missed => "connect" \in missed'
    BY <1>14 DEF OnApSave, ap_password_handler, Create
  <2> QED
    BY <1>14, <2>1, <2>2, QuietTimer DEF OnApSave, ap_password_handler, manager, radio
<1>15. ASSUME NEW t \in Callers, ReadPassword(t) \/ SetPassword(t) PROVE TimerRuns'
  <2>1. AboutToConnect => AboutToConnect'
    BY <1>0, <1>15, OthersConnect DEF ReadPassword, SetPassword
  <2>2. "connect" \in missed => "connect" \in missed'
    BY <1>15 DEF ReadPassword, SetPassword, SetBeacon
  <2> QED
    BY <1>15, <2>1, <2>2, QuietTimer DEF ReadPassword, SetPassword, manager, radio
<1>16. CASE WebWifi \/ Joins \/ LeaseLost
  BY <1>16 DEF WebWifi, Joins, LeaseLost, TimerRuns
<1>17. CASE Refused \/ LinkLost
  BY <1>17, DropTells DEF Refused, LinkLost, Environment, manager, TimerRuns
<1> QED
  BY <1>1, <1>2, <1>3, <1>4, <1>5, <1>6, <1>7, <1>8, <1>9, <1>10, <1>11, <1>12, <1>13, <1>14,
     <1>15, <1>16, <1>17, ByAction, Zenon

-----------------------------------------------------------------------------
(* The switches of the mode.                                               *)

\* What Step() says, when it leaves flags and radio in step: the other task
\* is calm.
LEMMA StepAlone ==
  ASSUME at \in [Tasks -> Steps], NEW t \in Tasks, Overlap(t), spoiled' = {}
  PROVE  spoiled = {} /\ \A u \in Tasks \ {t} : at[u] \in Calm
  BY DEF Overlap, Calm

\* The handler has nothing to do with access_point_active_.
LEMMA HandlerKeepsAp ==
  ASSUME TypeOK, handle_event
  PROVE  "ap" \in flags' <=> "ap" \in flags
<1>1. GotIp \/ LostIp \/ Disconnected
  BY HandledFirst DEF TypeOK, handle_event, Events
<1>2. CASE GotIp
  BY <1>2 DEF GotIp
<1>3. CASE LostIp \/ Disconnected
  BY <1>3 DEF LostIp, Disconnected
<1> QED
  BY <1>1, <1>2, <1>3

LEMMA RolesStep ==
  ASSUME TypeOK, Roles, ModeIsSet, Next
  PROVE  Roles' /\ ModeIsSet'
<1>0. /\ at \in [Tasks -> Steps] /\ op \in [Tasks -> Ops] /\ "recovery" \in Tasks
      /\ {"idle", "rpc", "decide", "disconnect", "stop", "mode", "config", "start", "active",
          "publish", "connect", "ap_config", "ap_set"} \subseteq Steps
  BY TaskNames DEF TypeOK, Steps
<1>1. CASE handle_event
  BY <1>0, <1>1, HandlerKeepsAp, TaskNames DEF handle_event, Roles, ModeIsSet, radio
<1>2. CASE RecoveryPass
  <2>1. PICK s \in {"decide", "rpc"} : Goto("recovery", s)
    BY <1>2 DEF RecoveryPass
  <2>2. at'["recovery"] = s /\ \A u \in Tasks \ {"recovery"} : at'[u] = at[u]
    BY <1>0, <2>1, GotoFacts
  <2> QED
    BY <1>0, <1>2, <2>2, TaskNames DEF Roles, ModeIsSet, Calm, RecoveryPass, radio
<1>3. CASE refresh_ap_info
  <2>1. at'["recovery"] = "decide" /\ \A u \in Tasks \ {"recovery"} : at'[u] = at[u]
    BY <1>0, <1>3, GotoFacts DEF refresh_ap_info
  <2> QED
    BY <1>0, <1>3, <2>1, TaskNames DEF Roles, ModeIsSet, Calm, refresh_ap_info, manager, radio
<1>4. CASE TearDownAp
  <2>1. at'["recovery"] = "stop" /\ \A u \in Tasks \ {"recovery"} : at'[u] = at[u]
    BY <1>0, <1>4, GotoFacts DEF TearDownAp
  <2> QED
    BY <1>0, <1>4, <2>1, TaskNames DEF Roles, ModeIsSet, Calm, TearDownAp, radio
<1>5. CASE RaiseAp
  <2>1. at'["recovery"] = "stop" /\ \A u \in Tasks \ {"recovery"} : at'[u] = at[u]
    BY <1>0, <1>5, GotoFacts DEF RaiseAp
  <2> QED
    BY <1>0, <1>5, <2>1, TaskNames DEF Roles, ModeIsSet, Calm, RaiseAp, manager, radio, FallBackDue
<1>6. CASE RetryStation
  <2>1. at'["recovery"] = "idle" /\ \A u \in Tasks \ {"recovery"} : at'[u] = at[u]
    BY <1>0, <1>6, GotoFacts DEF RetryStation
  <2> QED
    BY <1>0, <1>6, <2>1, TaskNames DEF Roles, ModeIsSet, Calm, RetryStation
<1>7. ASSUME NEW t \in Tasks, update_credentials(t) PROVE Roles' /\ ModeIsSet'
  <2>1. at'[t] = "stop" /\ \A u \in Tasks \ {t} : at'[u] = at[u]
    BY <1>0, <1>7, GotoFacts DEF update_credentials, Step
  <2> QED
    BY <1>0, <1>7, <2>1, TaskNames DEF Roles, ModeIsSet, Calm, update_credentials, Step, manager
<1>8. ASSUME NEW t \in Tasks, StopRadio(t) PROVE Roles' /\ ModeIsSet'
  <2>1. at'[t] = "mode" /\ \A u \in Tasks \ {t} : at'[u] = at[u]
    BY <1>0, <1>8, GotoFacts DEF StopRadio, Step
  <2> QED
    BY <1>0, <1>8, <2>1, TaskNames DEF Roles, ModeIsSet, Calm, StopRadio, Step, manager
<1>9. ASSUME NEW t \in Tasks, SetMode(t) PROVE Roles' /\ ModeIsSet'
  <2>1. PICK s \in {"start", "config"} : Goto(t, s)
    BY <1>9 DEF SetMode, Step
  <2>2. at'[t] = s /\ \A u \in Tasks \ {t} : at'[u] = at[u]
    BY <1>0, <2>1, GotoFacts
  <2> QED
    BY <1>0, <1>9, <2>2, TaskNames DEF Roles, ModeIsSet, Calm, SetMode, Step, manager, TargetMode
<1>10. ASSUME NEW t \in Tasks, configure_station(t) PROVE Roles' /\ ModeIsSet'
  <2>1. at'[t] = "start" /\ \A u \in Tasks \ {t} : at'[u] = at[u]
    BY <1>0, <1>10, GotoFacts DEF configure_station, Step
  <2> QED
    BY <1>0, <1>10, <2>1, TaskNames DEF Roles, ModeIsSet, Calm, configure_station, Step, manager
<1>11. ASSUME NEW t \in Tasks, StartRadio(t) PROVE Roles' /\ ModeIsSet'
  <2>1. at'[t] = "active" /\ \A u \in Tasks \ {t} : at'[u] = at[u]
    BY <1>0, <1>11, GotoFacts DEF StartRadio, Step
  <2> QED
    BY <1>0, <1>11, <2>1, TaskNames DEF Roles, ModeIsSet, Calm, StartRadio, Step, manager
<1>12. ASSUME NEW t \in Tasks, PublishAp(t) PROVE Roles' /\ ModeIsSet'
  <2>1. at'[t] = "publish" /\ \A u \in Tasks \ {t} : at'[u] = at[u]
    BY <1>0, <1>12, GotoFacts DEF PublishAp, Step
  <2> QED
    BY <1>0, <1>12, <2>1, TaskNames DEF Roles, ModeIsSet, Calm, PublishAp, Step, radio, With
<1>13. ASSUME NEW t \in Tasks, Publish(t) PROVE Roles' /\ ModeIsSet'
  <2>1. at'[t] = "connect" /\ \A u \in Tasks \ {t} : at'[u] = at[u]
    BY <1>0, <1>13, GotoFacts DEF Publish, Step
  <2> QED
    BY <1>0, <1>13, <2>1, TaskNames DEF Roles, ModeIsSet, Calm, Publish, Step, radio
<1>14. ASSUME NEW t \in Tasks, Connect(t) PROVE Roles' /\ ModeIsSet'
  <2>1. at'[t] = "idle" /\ \A u \in Tasks \ {t} : at'[u] = at[u]
    BY <1>0, <1>14, GotoFacts DEF Connect, Step
  <2> QED
    BY <1>0, <1>14, <2>1, TaskNames DEF Roles, ModeIsSet, Calm, Connect, Step
<1>15. ASSUME NEW t \in Tasks, SwitchFails(t) PROVE Roles' /\ ModeIsSet'
  <2>1. at'[t] = "idle" /\ \A u \in Tasks \ {t} : at'[u] = at[u]
    BY <1>0, <1>15, GotoFacts DEF SwitchFails, Fails
  <2> QED
    BY <1>0, <1>15, <2>1, TaskNames DEF Roles, ModeIsSet, Calm, SwitchFails, Fails, With, radio
<1>16. ASSUME NEW t \in Callers, OnWifiConnect(t) PROVE Roles' /\ ModeIsSet'
  <2>1. t \in Tasks /\ t # "recovery"
    BY TaskNames
  <2>2. at'[t] \in {at[t], "disconnect"} /\ \A u \in Tasks \ {t} : at'[u] = at[u]
    BY <1>0, <1>16, <2>1, GotoFacts DEF OnWifiConnect, Create
  <2> QED
    BY <1>0, <1>16, <2>1, <2>2, TaskNames DEF Roles, ModeIsSet, Calm, OnWifiConnect, manager, radio
<1>17. ASSUME NEW t \in Callers, NEW p \in ApPasswords, OnApSave(t, p) \/ ap_password_handler(t, p)
       PROVE  Roles' /\ ModeIsSet'
  <2>1. t \in Tasks /\ t # "recovery"
    BY TaskNames
  <2>2. at'[t] \in {at[t], "ap_config"} /\ \A u \in Tasks \ {t} : at'[u] = at[u]
    BY <1>0, <1>17, <2>1, GotoFacts DEF OnApSave, ap_password_handler, Create
  <2>3. UNCHANGED <<flags, mode, op>>
    BY <1>17 DEF OnApSave, ap_password_handler, manager, radio
  <2> QED
    BY <1>0, <2>1, <2>2, <2>3, TaskNames DEF Roles, ModeIsSet, Calm
<1>18. ASSUME NEW t \in Callers, ReadPassword(t) \/ SetPassword(t) PROVE Roles' /\ ModeIsSet'
  <2>1. t \in Tasks /\ t # "recovery"
    BY TaskNames
  <2>2. at'[t] \in {"idle", "ap_set"} /\ \A u \in Tasks \ {t} : at'[u] = at[u]
    BY <1>0, <1>18, <2>1, GotoFacts DEF ReadPassword, SetPassword
  <2>3. UNCHANGED <<flags, mode, op>>
    BY <1>18 DEF ReadPassword, SetPassword, manager, radio
  <2> QED
    BY <1>0, <2>1, <2>2, <2>3, TaskNames DEF Roles, ModeIsSet, Calm
<1>19. CASE WebWifi
  BY <1>0, <1>19, TaskNames DEF WebWifi, Roles, ModeIsSet, Calm
<1>20. CASE Joins \/ Refused \/ LinkLost \/ LeaseLost
  BY <1>0, <1>20, TaskNames DEF Joins, Refused, LinkLost, LeaseLost, Environment, manager, Roles, ModeIsSet
<1> QED
  BY <1>1, <1>2, <1>3, <1>4, <1>5, <1>6, <1>7, <1>8, <1>9, <1>10, <1>11, <1>12, <1>13,
     <1>14, <1>15, <1>16, <1>17, <1>18, <1>19, <1>20, ByAction, Zenon

\* An action of calm tasks, or of none, that leaves the radio and the SoftAP
\* flag alone and withdraws no request to tear the SoftAP down.
Calmly ==
    /\ UNCHANGED <<running, mode, beacon, apPass, op>>
    /\ "beacon" \in missed' <=> "beacon" \in missed
    /\ "ap" \in flags' <=> "ap" \in flags
    /\ TearDownDue => "pending" \in flags' \/ (at'["recovery"] = "stop" /\ op["recovery"] = "disable")
    /\ \A t \in Tasks : at'[t] = at[t] \/ {at'[t], at[t]} \subseteq Calm \ {"ap_config", "ap_set"}

LEMMA CalmInStep ==
  ASSUME InStep, Calmly
  PROVE  InStep'
<1>1. OneSwitches'
  <2>1. \A t \in Tasks : Waits(t) => Waits(t)'
    BY DEF Calmly, Waits, Calm
  <2> QED
    BY <2>1 DEF InStep, OneSwitches
<1>2. \A t \in Tasks : Done(t)'
  BY DEF InStep, Calmly, Done, ApUp, Calm
<1>3. FlagIsHonest'
  BY DEF InStep, Calmly, FlagIsHonest, Settled, TearDownDue, ApUp, Calm
<1>4. BeaconFollows'
  <2>1. Applying => Applying'
    BY DEF Calmly, Applying, Calm
  <2>2. at'["recovery"] = at["recovery"] \/ {at'["recovery"], at["recovery"]} \subseteq Calm
    BY TaskNames DEF Calmly
  <2> QED
    BY <2>1, <2>2 DEF InStep, Calmly, BeaconFollows, ApUp, Calm
<1> QED
  BY <1>1, <1>2, <1>3, <1>4 DEF InStep

\* A step of one task while the others are calm.
LEMMA OneMoves ==
  ASSUME NEW t \in Tasks, \A u \in Tasks \ {t} : at[u] \in Calm /\ at'[u] = at[u],
         at[t] \notin {"ap_config", "ap_set"}
  PROVE  OneSwitches' /\ (Applying => Applying')
<1>1. \A u \in Tasks \ {t} : Waits(u)'
  BY DEF Waits
<1> QED
  BY <1>1 DEF OneSwitches, Applying

\* A step of a caller outside the functions, which leaves the password current,
\* says that it does not, or is not done.
LEMMA CommandInStep ==
  ASSUME InStep, Roles, NEW t \in Tasks, t # "recovery",
         UNCHANGED <<flags, running, mode, op>>,
         at[t] \in Calm, at'[t] \in Calm \cup {"disconnect"},
         \A u \in Tasks \ {t} : at'[u] = at[u],
         \/ at'[t] \in {"ap_config", "ap_set"} \/ "beacon" \in missed'
         \/ beacon' = fill_ap_config(apPass)' \/ mode = "sta"
         \/ at[t] = "idle" /\ UNCHANGED <<beacon, apPass, missed>>
  PROVE  InStep'
<1>0. at'["recovery"] = at["recovery"] /\ "recovery" \in Tasks
  BY TaskNames
<1>1. OneSwitches'
  <2>1. \A u \in Tasks : Waits(u) => Waits(u)'
    BY DEF Waits
  <2> QED
    BY <2>1 DEF InStep, OneSwitches
<1>2. \A u \in Tasks : Done(u)'
  BY DEF InStep, Done, ApUp, Calm
<1>3. FlagIsHonest'
  <2>1. Settled' => Settled
    BY DEF Settled, Calm
  <2> QED
    BY <1>0, <2>1 DEF InStep, FlagIsHonest, TearDownDue, ApUp
<1>4. BeaconFollows'
  <2>1. CASE at'[t] \in {"ap_config", "ap_set"} \/ "beacon" \in missed'
    BY <2>1 DEF BeaconFollows, Applying
  <2>2. CASE beacon' = fill_ap_config(apPass)'
    BY <2>2 DEF BeaconFollows
  <2>3. CASE mode = "sta"
    <3>1. at["recovery"] = "start" /\ op["recovery"] = "ap_sta" => mode = "apsta"
      BY <1>0 DEF InStep, Done, TargetMode
    <3> QED
      BY <1>0, <2>3, <3>1 DEF BeaconFollows, ApUp
  <2>4. CASE at[t] = "idle" /\ UNCHANGED <<beacon, apPass, missed>>
    <3>1. Applying => Applying'
      BY <2>4 DEF Applying
    <3>2. fill_ap_config(apPass)' = fill_ap_config(apPass)
      BY <2>4 DEF fill_ap_config
    <3> QED
      BY <1>0, <2>4, <3>1, <3>2 DEF InStep, BeaconFollows, ApUp
  <2> QED
    BY <2>1, <2>2, <2>3, <2>4
<1> QED
  BY <1>1, <1>2, <1>3, <1>4 DEF InStep

LEMMA RadioStep ==
  ASSUME TypeOK, Roles, Radio, Next
  PROVE  Radio'
<1> SUFFICES ASSUME spoiled' = {} PROVE InStep'
  BY DEF Radio
<1>0. /\ at \in [Tasks -> Steps] /\ op \in [Tasks -> Ops] /\ "recovery" \in Tasks
      /\ {"idle", "rpc", "decide", "disconnect", "stop", "mode", "config", "start", "active",
          "publish", "connect", "ap_config", "ap_set"} \subseteq Steps
  BY TaskNames DEF TypeOK, Steps
<1>1. CASE handle_event
  <2>1. InStep
    BY <1>1 DEF handle_event, LosesRetry, Radio
  <2>2. TearDownDue => "pending" \in flags' \/ (at["recovery"] = "stop" /\ op["recovery"] = "disable")
    BY <1>1, HandledFirst DEF TypeOK, TearDownDue, handle_event, LosesRetry, GotIp, Events
  <2> QED
    BY <1>1, <2>1, <2>2, HandlerKeepsAp, CalmInStep DEF Calmly, handle_event, radio, stored
<1>2. CASE RecoveryPass
  <2>1. InStep
    BY <1>2 DEF RecoveryPass, radio, stored, Radio
  <2>2. PICK s \in {"decide", "rpc"} : Goto("recovery", s)
    BY <1>2 DEF RecoveryPass
  <2>3. at'["recovery"] = s /\ \A u \in Tasks \ {"recovery"} : at'[u] = at[u]
    BY <1>0, <2>2, GotoFacts
  <2> QED
    BY <1>0, <1>2, <2>1, <2>3, CalmInStep
       DEF Calmly, TearDownDue, Calm, RecoveryPass, radio, stored
<1>3. CASE refresh_ap_info
  <2>1. InStep
    BY <1>3 DEF refresh_ap_info, manager, radio, stored, Radio
  <2>2. at'["recovery"] = "decide" /\ \A u \in Tasks \ {"recovery"} : at'[u] = at[u]
    BY <1>0, <1>3, GotoFacts DEF refresh_ap_info
  <2> QED
    BY <1>0, <1>3, <2>1, <2>2, CalmInStep
       DEF Calmly, TearDownDue, Calm, refresh_ap_info, manager, radio, stored
<1>4. CASE TearDownAp
  <2>1. InStep
    BY <1>4 DEF TearDownAp, radio, stored, Radio
  <2>2. at'["recovery"] = "stop" /\ \A u \in Tasks \ {"recovery"} : at'[u] = at[u]
    BY <1>0, <1>4, GotoFacts DEF TearDownAp
  <2>3. OneSwitches' /\ (Applying => Applying')
    BY <1>0, <1>4, <2>1, <2>2, TaskNames DEF InStep, OneSwitches, Waits, Calm, Applying, TearDownAp
  <2>4. \A u \in Tasks : Done(u)'
    BY <1>0, <1>4, <2>1, <2>2, TaskNames DEF InStep, Done, ApUp, Calm, Roles, TearDownAp, radio
  <2>5. FlagIsHonest'
    BY <1>0, <1>4, <2>1, <2>2, TaskNames
       DEF InStep, FlagIsHonest, Settled, TearDownDue, ApUp, Calm, Roles, TearDownAp, radio
  <2>6. BeaconFollows'
    BY <1>0, <1>4, <2>1, <2>2, <2>3, TaskNames
       DEF InStep, BeaconFollows, ApUp, Calm, Roles, TearDownAp, radio, stored
  <2> QED
    BY <2>3, <2>4, <2>5, <2>6 DEF InStep
<1>5. CASE RaiseAp
  <2>1. InStep
    BY <1>5 DEF RaiseAp, manager, radio, stored, FallBackDue, Radio
  <2>2. at'["recovery"] = "stop" /\ \A u \in Tasks \ {"recovery"} : at'[u] = at[u]
    BY <1>0, <1>5, GotoFacts DEF RaiseAp
  <2>3. OneSwitches' /\ (Applying => Applying')
    BY <1>0, <1>5, <2>1, <2>2, TaskNames DEF InStep, OneSwitches, Waits, Calm, Applying, RaiseAp
  <2>4. \A u \in Tasks : Done(u)'
    BY <1>0, <1>5, <2>1, <2>2, TaskNames DEF InStep, Done, ApUp, Calm, Roles, RaiseAp, manager, radio,
           FallBackDue
  <2>5. FlagIsHonest'
    BY <1>0, <1>5, <2>1, <2>2, TaskNames
       DEF InStep, FlagIsHonest, Settled, TearDownDue, ApUp, Calm, Roles, RaiseAp, manager,
           radio, FallBackDue
  <2>6. BeaconFollows'
    BY <1>0, <1>5, <2>1, <2>2, <2>3, TaskNames
       DEF InStep, BeaconFollows, ApUp, Calm, Roles, RaiseAp, radio, stored, FallBackDue
  <2> QED
    BY <2>3, <2>4, <2>5, <2>6 DEF InStep
<1>6. CASE RetryStation
  <2>1. InStep
    BY <1>6 DEF RetryStation, stored, Radio
  <2>2. at'["recovery"] = "idle" /\ \A u \in Tasks \ {"recovery"} : at'[u] = at[u]
    BY <1>0, <1>6, GotoFacts DEF RetryStation
  <2>3. "beacon" \in missed' <=> "beacon" \in missed
    BY <1>6 DEF RetryStation, request_connect, Associates, ConnectFails
  <2> QED
    BY <1>0, <1>6, <2>1, <2>2, <2>3, CalmInStep DEF Calmly, TearDownDue, Calm, RetryStation, stored
<1>7. ASSUME NEW t \in Tasks, update_credentials(t) PROVE InStep'
  <2>1. InStep /\ \A u \in Tasks \ {t} : at[u] \in Calm
    BY <1>0, <1>7, StepAlone DEF update_credentials, Step, Radio
  <2>2. at'[t] = "stop" /\ \A u \in Tasks \ {t} : at'[u] = at[u]
    BY <1>0, <1>7, GotoFacts DEF update_credentials, Step
  <2>3. OneSwitches' /\ (Applying => Applying')
    BY <1>0, <1>7, <2>1, <2>2, OneMoves DEF update_credentials, Step
  <2>4. \A u \in Tasks : Done(u)'
    BY <1>0, <1>7, <2>1, <2>2, TaskNames DEF InStep, Done, Calm, Roles, update_credentials, Step, manager
  <2>5. FlagIsHonest'
    BY <1>0, <1>7, <2>1, <2>2, TaskNames
       DEF InStep, FlagIsHonest, Settled, TearDownDue, ApUp, Calm, Roles, update_credentials,
           Step, manager
  <2>6. BeaconFollows'
    BY <1>0, <1>7, <2>1, <2>2, <2>3, TaskNames
       DEF InStep, BeaconFollows, ApUp, Calm, Roles, update_credentials, Step, stored
  <2> QED
    BY <2>3, <2>4, <2>5, <2>6 DEF InStep
<1>8. ASSUME NEW t \in Tasks, StopRadio(t) PROVE InStep'
  <2>1. InStep /\ \A u \in Tasks \ {t} : at[u] \in Calm
    BY <1>0, <1>8, StepAlone DEF StopRadio, Step, Radio
  <2>2. at'[t] = "mode" /\ \A u \in Tasks \ {t} : at'[u] = at[u]
    BY <1>0, <1>8, GotoFacts DEF StopRadio, Step
  <2>3. OneSwitches' /\ (Applying => Applying')
    BY <1>0, <1>8, <2>1, <2>2, OneMoves DEF StopRadio, Step
  <2>4. \A u \in Tasks : Done(u)'
    <3>1. ~running' \/ UNCHANGED running
      BY <1>8 DEF StopRadio
    <3>2. Settled
      BY <1>8, <2>1 DEF Settled, StopRadio, Step
    <3>3. Done(t)'
      BY <1>8, <2>1, <2>2, <3>1, <3>2
         DEF InStep, FlagIsHonest, TearDownDue, ApUp, Done, StopRadio, manager
    <3> QED
      BY <2>1, <2>2, <3>3 DEF Done, Calm
  <2>5. FlagIsHonest'
    BY <1>0, <1>8, <2>1, <2>2, TaskNames
       DEF InStep, FlagIsHonest, Settled, TearDownDue, ApUp, Calm, Roles, StopRadio, Step, manager
  <2>6. BeaconFollows'
    BY <1>0, <1>8, <2>1, <2>2, <2>3, TaskNames
       DEF InStep, BeaconFollows, ApUp, Calm, Roles, StopRadio, Step, stored
  <2> QED
    BY <2>3, <2>4, <2>5, <2>6 DEF InStep
<1>9. ASSUME NEW t \in Tasks, SetMode(t) PROVE InStep'
  <2>1. InStep /\ \A u \in Tasks \ {t} : at[u] \in Calm
    BY <1>0, <1>9, StepAlone DEF SetMode, Step, Radio
  <2>2. PICK s \in {"start", "config"} : Goto(t, s)
    BY <1>9 DEF SetMode, Step
  <2>3. at'[t] = s /\ \A u \in Tasks \ {t} : at'[u] = at[u]
    BY <1>0, <2>2, GotoFacts
  <2>4. OneSwitches' /\ (Applying => Applying')
    BY <1>0, <1>9, <2>1, <2>3, OneMoves DEF SetMode, Step
  <2>5. \A u \in Tasks : Done(u)'
    BY <1>0, <1>9, <2>1, <2>3, TaskNames DEF InStep, Done, Calm, Roles, SetMode, Step, manager, TargetMode
  <2>6. FlagIsHonest'
    BY <1>0, <1>9, <2>1, <2>3, TaskNames
       DEF InStep, FlagIsHonest, Settled, TearDownDue, ApUp, Calm, Roles, SetMode, Step, manager,
           TargetMode
  <2>7. BeaconFollows'
    <3>1. op[t] = "ap_sta" => t = "recovery" /\ at'[t] = "config"
      <4>1. op[t] = "ap_sta" => t = "recovery"
        BY TaskNames DEF Roles
      <4>2. op[t] = "ap_sta" => at'[t] = "config"
        BY <1>0, <1>9, GotoFacts DEF SetMode, Step
      <4> QED
        BY <4>1, <4>2
    <3>2. ApUp' => op[t] = "ap_sta"
      BY <1>9 DEF ApUp, SetMode, TargetMode
    <3>3. ~(at'["recovery"] = "start" /\ op'["recovery"] = "ap_sta")
      BY <1>0, <1>9, <2>1, <2>3, <3>1 DEF SetMode, Step, Calm
    <3> QED
      BY <3>1, <3>2, <3>3 DEF BeaconFollows
  <2> QED
    BY <2>4, <2>5, <2>6, <2>7 DEF InStep
<1>10. ASSUME NEW t \in Tasks, configure_station(t) PROVE InStep'
  <2>1. InStep /\ \A u \in Tasks \ {t} : at[u] \in Calm
    BY <1>0, <1>10, StepAlone DEF configure_station, Step, Radio
  <2>2. at'[t] = "start" /\ \A u \in Tasks \ {t} : at'[u] = at[u]
    BY <1>0, <1>10, GotoFacts DEF configure_station, Step
  <2>3. OneSwitches' /\ (Applying => Applying')
    BY <1>0, <1>10, <2>1, <2>2, OneMoves DEF configure_station, Step
  <2>4. \A u \in Tasks : Done(u)'
    BY <1>0, <1>10, <2>1, <2>2, TaskNames
       DEF InStep, Done, Calm, Roles, configure_station, Step, manager, TargetMode
  <2>5. FlagIsHonest'
    BY <1>0, <1>10, <2>1, <2>2, TaskNames
       DEF InStep, FlagIsHonest, Settled, TearDownDue, ApUp, Calm, Roles, configure_station, Step,
           manager, TargetMode
  <2>6. BeaconFollows'
    <3>1. mode = TargetMode(op[t])
      BY <1>10, <2>1 DEF InStep, Done, configure_station, Step
    <3>2. op[t] = "ap_sta" => t = "recovery"
      BY TaskNames DEF Roles
    <3>3. CASE op[t] = "ap_sta"
      BY <1>10, <3>3 DEF BeaconFollows, configure_station, Step, SetBeacon, stored
    <3>4. CASE op[t] # "ap_sta"
      <4>1. ~ApUp'
        BY <1>10, <3>1, <3>4 DEF ApUp, TargetMode, configure_station
      <4>2. ~(at'["recovery"] = "start" /\ op'["recovery"] = "ap_sta")
        BY <1>0, <1>10, <2>1, <2>2, <3>4 DEF configure_station, Step, Calm
      <4> QED
        BY <4>1, <4>2 DEF BeaconFollows
    <3> QED
      BY <3>3, <3>4
  <2> QED
    BY <2>3, <2>4, <2>5, <2>6 DEF InStep
<1>11. ASSUME NEW t \in Tasks, StartRadio(t) PROVE InStep'
  <2>1. InStep /\ \A u \in Tasks \ {t} : at[u] \in Calm
    BY <1>0, <1>11, StepAlone DEF StartRadio, Step, Radio
  <2>2. at'[t] = "active" /\ \A u \in Tasks \ {t} : at'[u] = at[u]
    BY <1>0, <1>11, GotoFacts DEF StartRadio, Step
  <2>3. OneSwitches' /\ (Applying => Applying')
    BY <1>0, <1>11, <2>1, <2>2, OneMoves DEF StartRadio, Step
  <2>4. \A u \in Tasks : Done(u)'
    BY <1>0, <1>11, <2>1, <2>2, TaskNames
       DEF InStep, Done, Calm, Roles, StartRadio, Step, manager, TargetMode
  <2>5. FlagIsHonest'
    BY <1>0, <1>11, <2>1, <2>2, TaskNames
       DEF InStep, FlagIsHonest, Settled, TearDownDue, ApUp, Calm, Roles, StartRadio, Step,
           manager, TargetMode
  <2>6. BeaconFollows'
    <3>1. mode = TargetMode(op[t])
      BY <1>11, <2>1 DEF InStep, Done, StartRadio, Step
    <3>2. ApUp' => t = "recovery" /\ op["recovery"] = "ap_sta"
      BY <1>11, <3>1, TaskNames DEF ApUp, TargetMode, Roles, StartRadio
    <3> QED
      BY <1>0, <1>11, <2>1, <2>2, <2>3, <3>2, TaskNames
         DEF InStep, BeaconFollows, Roles, StartRadio, Step, stored, Calm
  <2> QED
    BY <2>3, <2>4, <2>5, <2>6 DEF InStep
<1>12. ASSUME NEW t \in Tasks, PublishAp(t) PROVE InStep'
  <2>1. InStep /\ \A u \in Tasks \ {t} : at[u] \in Calm
    BY <1>0, <1>12, StepAlone DEF PublishAp, Step, Radio
  <2>2. at'[t] = "publish" /\ \A u \in Tasks \ {t} : at'[u] = at[u]
    BY <1>0, <1>12, GotoFacts DEF PublishAp, Step
  <2>3. OneSwitches' /\ (Applying => Applying')
    BY <1>0, <1>12, <2>1, <2>2, OneMoves DEF PublishAp, Step
  <2>4. \A u \in Tasks : Done(u)'
    BY <1>0, <1>12, <2>1, <2>2, TaskNames DEF InStep, Done, Calm, Roles, PublishAp, Step, radio, With
  <2>5. FlagIsHonest'
    BY <1>0, <1>12, <2>1, <2>2, TaskNames
       DEF InStep, FlagIsHonest, Settled, TearDownDue, ApUp, Calm, Roles, PublishAp, Step, radio,
           With
  <2>6. BeaconFollows'
    BY <1>0, <1>12, <2>1, <2>2, <2>3, TaskNames
       DEF InStep, BeaconFollows, ApUp, Calm, Roles, PublishAp, Step, radio, stored, With
  <2> QED
    BY <2>3, <2>4, <2>5, <2>6 DEF InStep
<1>13. ASSUME NEW t \in Tasks, Publish(t) PROVE InStep'
  <2>1. InStep /\ \A u \in Tasks \ {t} : at[u] \in Calm
    BY <1>0, <1>13, StepAlone DEF Publish, Step, Radio
  <2>2. at'[t] = "connect" /\ \A u \in Tasks \ {t} : at'[u] = at[u]
    BY <1>0, <1>13, GotoFacts DEF Publish, Step
  <2>3. OneSwitches' /\ (Applying => Applying')
    BY <1>0, <1>13, <2>1, <2>2, OneMoves DEF Publish, Step
  <2>4. \A u \in Tasks : Done(u)'
    BY <1>0, <1>13, <2>1, <2>2, TaskNames DEF InStep, Done, Calm, Roles, Publish, Step, radio
  <2>5. FlagIsHonest'
    BY <1>0, <1>13, <2>1, <2>2, TaskNames
       DEF InStep, FlagIsHonest, Settled, TearDownDue, ApUp, Calm, Roles, Publish, Step, radio
  <2>6. BeaconFollows'
    BY <1>0, <1>13, <2>1, <2>2, <2>3, TaskNames
       DEF InStep, BeaconFollows, ApUp, Calm, Roles, Publish, Step, radio, stored
  <2> QED
    BY <2>3, <2>4, <2>5, <2>6 DEF InStep
<1>14. ASSUME NEW t \in Tasks, Connect(t) PROVE InStep'
  <2>1. InStep /\ \A u \in Tasks \ {t} : at[u] \in Calm
    BY <1>0, <1>14, StepAlone DEF Connect, Step, Radio
  <2>2. at'[t] = "idle" /\ \A u \in Tasks \ {t} : at'[u] = at[u]
    BY <1>0, <1>14, GotoFacts DEF Connect, Step
  <2>3. OneSwitches' /\ (Applying => Applying')
    BY <1>0, <1>14, <2>1, <2>2, OneMoves DEF Connect, Step
  <2>4. \A u \in Tasks : Done(u)'
    BY <1>0, <1>14, <2>1, <2>2, TaskNames DEF InStep, Done, Calm, Roles, Connect, Step, TargetMode
  <2>5. FlagIsHonest'
    <3>1. running /\ mode = TargetMode(op[t]) /\ ("ap" \in flags <=> op[t] = "ap_sta")
      BY <1>14, <2>1 DEF InStep, Done, Connect, Step
    <3> QED
      BY <1>14, <3>1 DEF FlagIsHonest, ApUp, TargetMode, Connect
  <2>6. BeaconFollows'
    <3>1. "beacon" \in missed' <=> "beacon" \in missed
      BY <1>14 DEF Connect, request_connect, Associates, ConnectFails
    <3> QED
      BY <1>0, <1>14, <2>1, <2>2, <2>3, <3>1, TaskNames DEF InStep, BeaconFollows, ApUp, Connect, Step, stored
  <2> QED
    BY <2>3, <2>4, <2>5, <2>6 DEF InStep
<1>15. ASSUME NEW t \in Tasks, SwitchFails(t) PROVE InStep'
  <2>1. InStep /\ ~BreaksOff(t)
    BY <1>15 DEF SwitchFails, Fails, Radio
  <2>2. at'[t] = "idle" /\ \A u \in Tasks \ {t} : at'[u] = at[u]
    BY <1>0, <1>15, GotoFacts DEF SwitchFails, Fails
  <2>3. /\ UNCHANGED <<running, mode, op, apPass, missed>>
        /\ "ap" \in flags' <=> "ap" \in flags
        /\ "pending" \in flags \/ op[t] = "disable" => "pending" \in flags'
        /\ beacon' = beacon \/ (at[t] = "config" /\ op[t] = "ap_sta")
    BY <1>15 DEF SwitchFails, Fails, With, stored
  <2>4. /\ t \in Callers => op[t] = "station" /\ (at[t] # "stop" => "ap" \notin flags)
        /\ t \notin Callers => t = "recovery" /\ (at[t] \in {"config", "start"} => ~running)
    BY <2>1, TaskNames DEF BreaksOff, Roles
  <2>5. OneSwitches'
    <3>1. Waits(t)' /\ \A u \in Tasks : Waits(u) => Waits(u)'
      BY <2>2 DEF Waits, Calm
    <3> QED
      BY <2>1, <3>1 DEF InStep, OneSwitches
  <2>6. \A u \in Tasks : Done(u)'
    BY <2>1, <2>2, <2>3 DEF InStep, Done, ApUp
  <2>7. FlagIsHonest'
    <3> SUFFICES ASSUME Settled' PROVE (ApUp' <=> "ap" \in flags') \/ TearDownDue'
      BY DEF FlagIsHonest
    <3>1. CASE at[t] = "stop"
      <4>1. Settled
        BY <2>2, <3>1 DEF Settled, Calm
      <4>2. TearDownDue => TearDownDue'
        BY <2>2, <2>3, <3>1, TaskNames DEF TearDownDue
      <4> QED
        BY <2>1, <2>3, <4>1, <4>2 DEF InStep, FlagIsHonest, ApUp
    <3>2. CASE at[t] \in {"mode", "config", "start"} /\ (ApUp <=> "ap" \in flags)
      BY <2>3, <3>2 DEF ApUp
    <3>3. CASE at[t] \in {"mode", "config", "start"} /\ ~(ApUp <=> "ap" \in flags)
      <4>1. CASE t \in Callers
        <5>1. ~ApUp
          BY <2>1, <2>4, <3>3, <4>1 DEF InStep, Done, ApUp, TargetMode
        <5> QED
          BY <2>4, <3>3, <4>1, <5>1
      <4>2. CASE t \notin Callers
        <5>1. ~running /\ "ap" \in flags
          BY <2>1, <2>4, <3>3, <4>2 DEF InStep, Done, ApUp
        <5>2. op[t] = "disable"
          BY <2>4, <3>3, <4>2, <5>1 DEF Roles, Calm
        <5> QED
          BY <2>3, <5>1, <5>2 DEF TearDownDue
      <4> QED
        BY <4>1, <4>2
    <3> QED
      BY <1>15, <3>1, <3>2, <3>3 DEF SwitchFails
  <2>8. BeaconFollows'
    <3>1. Applying => Applying'
      BY <1>15, <2>2 DEF Applying, SwitchFails
    <3>2. CASE at[t] = "config" /\ t = "recovery"
      <4>1. ~ApUp'
        BY <2>3, <2>4, <3>2, TaskNames DEF ApUp
      <4> QED
        BY <2>2, <3>2, <4>1 DEF BeaconFollows
    <3>3. CASE ~(at[t] = "config" /\ t = "recovery")
      <4>1. beacon' = beacon
        BY <2>3, <2>4, <3>3
      <4>2. at'["recovery"] = at["recovery"]
            \/ (at'["recovery"] = "idle" /\ at["recovery"] # "config")
        BY <2>2, <3>3, TaskNames
      <4> QED
        BY <2>1, <2>3, <3>1, <4>1, <4>2 DEF InStep, BeaconFollows, ApUp
    <3> QED
      BY <3>2, <3>3
  <2> QED
    BY <2>5, <2>6, <2>7, <2>8 DEF InStep
<1>16. ASSUME NEW t \in Callers, OnWifiConnect(t) PROVE InStep'
  <2>1. InStep /\ t \in Tasks /\ t # "recovery"
    BY <1>16, TaskNames DEF OnWifiConnect, Radio
  <2>2. at[t] = "idle" /\ at'[t] \in {"idle", "disconnect"} /\ \A u \in Tasks \ {t} : at'[u] = at[u]
    BY <1>0, <1>16, <2>1, GotoFacts DEF OnWifiConnect, Command, Create
  <2>3. UNCHANGED <<flags, running, mode, beacon, apPass, op>> /\ missed' = missed
    BY <1>16 DEF OnWifiConnect, Create, manager, radio
  <2> QED
    BY <2>1, <2>2, <2>3, CommandInStep DEF Calm
<1>17. ASSUME NEW t \in Callers, NEW p \in ApPasswords, OnApSave(t, p) \/ ap_password_handler(t, p)
       PROVE  InStep'
  <2>1. InStep /\ t \in Tasks /\ t # "recovery"
    BY <1>17, TaskNames DEF OnApSave, ap_password_handler, Radio
  <2>2. at[t] = "idle" /\ at'[t] \in {"idle", "ap_config"} /\ \A u \in Tasks \ {t} : at'[u] = at[u]
    BY <1>0, <1>17, <2>1, GotoFacts DEF OnApSave, ap_password_handler, Command, Create
  <2>3. UNCHANGED <<flags, running, mode, beacon, op>>
    BY <1>17 DEF OnApSave, ap_password_handler, manager, radio
  <2>4. at'[t] = "ap_config" \/ "beacon" \in missed'
    BY <1>0, <1>17, <2>1, GotoFacts DEF OnApSave, ap_password_handler, Create
  <2> QED
    BY <2>1, <2>2, <2>3, <2>4, CommandInStep DEF Calm, fill_ap_config
<1>18. ASSUME NEW t \in Callers, ReadPassword(t) \/ SetPassword(t) PROVE InStep'
  <2>1. InStep /\ t \in Tasks /\ t # "recovery"
    BY <1>18, TaskNames DEF ReadPassword, SetPassword, Radio
  <2>2. /\ at[t] \in {"ap_config", "ap_set"} /\ at'[t] \in {"idle", "ap_set"}
        /\ \A u \in Tasks \ {t} : at'[u] = at[u]
    BY <1>0, <1>18, <2>1, GotoFacts DEF ReadPassword, SetPassword
  <2>3. UNCHANGED <<flags, running, mode, apPass, op>>
    BY <1>18 DEF ReadPassword, SetPassword, manager, radio, stored
  <2>4. \/ at'[t] = "ap_set" \/ "beacon" \in missed' \/ beacon' = fill_ap_config(apPass)
        \/ mode = "sta"
    <3>1. CASE ReadPassword(t)
      BY <1>0, <2>1, <3>1, GotoFacts DEF ReadPassword
    <3>2. CASE SetPassword(t)
      BY <3>2 DEF SetPassword, SetBeacon
    <3> QED
      BY <1>18, <3>1, <3>2
  <2> QED
    BY <2>1, <2>2, <2>3, <2>4, CommandInStep DEF Calm, fill_ap_config
<1>19. CASE WebWifi
  BY <1>0, <1>19
     DEF WebWifi, InStep, OneSwitches, Waits, Done, FlagIsHonest, Settled, BeaconFollows, ApUp,
         Calm
<1>20. CASE Joins \/ Refused \/ LinkLost \/ LeaseLost
  <2>1. InStep
    BY <1>20 DEF Joins, Refused, LinkLost, LeaseLost, Environment, Radio
  <2> QED
    BY <1>20, <2>1, CalmInStep
       DEF Calmly, TearDownDue, Joins, Refused, LinkLost, LeaseLost, Environment, manager, stored
<1> QED
  BY <1>1, <1>2, <1>3, <1>4, <1>5, <1>6, <1>7, <1>8, <1>9, <1>10, <1>11, <1>12, <1>13,
     <1>14, <1>15, <1>16, <1>17, <1>18, <1>19, <1>20, ByAction, Zenon

-----------------------------------------------------------------------------
(* The theorems.                                                           *)

LEMMA InitInv == Init => Inv
<1> SUFFICES ASSUME Init PROVE Inv
  OBVIOUS
<1>0. "recovery" \in Tasks /\ \A t \in Callers : t \in Tasks
  BY TaskNames
<1>1. TypeOK
  <2>1. /\ at \in [Tasks -> Steps] /\ op \in [Tasks -> Ops]
        /\ filled \in [Tasks -> ApPasswords \cup {"none", "default"}]
    BY DEF Init, Steps, Ops
  <2>2. events \in Seq(Events) /\ Len(events) <= MaxEvents
    BY WifiAssumption DEF Init
  <2>3. /\ flags \subseteq {"connected", "ap", "pending"} /\ mode \in Modes /\ link \in Links
        /\ beacon \in ApPasswords \cup {"none", "default"}
        /\ faults \in 0..MaxFaults /\ missed \subseteq {"connect", "beacon"}
    BY WifiAssumption DEF Init, BootsAp, BootsStation, fill_ap_config, Modes, Links
  <2>4. offline \in -1..ApFallback /\ retry \in 0..RetryInterval /\ info \in -1..ApInfoRefresh
    BY WifiAssumption DEF Init
  <2> QED
    BY <2>1, <2>2, <2>3, <2>4, WifiAssumption DEF Init, TypeOK
<1>2. TellsLink /\ TimerRuns
  BY DEF Init, BootsAp, BootsStation, TellsLink, TimerRuns, Ends
<1>3. Roles /\ ModeIsSet
  BY <1>0 DEF Init, Roles, ModeIsSet, Calm
<1>4. Radio
  <2>1. ApUp <=> "ap" \in flags
    BY DEF Init, BootsAp, BootsStation, ApUp
  <2>2. ApUp => beacon = fill_ap_config(apPass)
    BY DEF Init, BootsAp, BootsStation, ApUp
  <2> QED
    BY <1>0, <2>1, <2>2
       DEF Init, Radio, InStep, OneSwitches, Waits, Calm, Done, FlagIsHonest, BeaconFollows
<1> QED
  BY <1>1, <1>2, <1>3, <1>4 DEF Inv

LEMMA StepInv == Inv /\ [Next]_vars => Inv'
<1> SUFFICES ASSUME Inv, [Next]_vars PROVE Inv'
  OBVIOUS
<1>1. CASE Next
  BY <1>1, TypeStep, TellsStep, TimerStep, RolesStep, RadioStep DEF Inv
<1>2. CASE UNCHANGED vars
  <2>1. UNCHANGED <<flags, offline, retry, cache, info, creds, apPass, mode, running, link, beacon,
                    filled, events, at, op, faults, commands, missed, spoiled>>
    BY <1>2 DEF vars, manager, apInfo, stored, radio, counts
  <2>2. TypeOK'
    BY <2>1 DEF Inv, TypeOK
  <2>3. TellsLink' /\ TimerRuns'
    BY <2>1 DEF Inv, TellsLink, TimerRuns, AboutToConnect
  <2>4. Roles' /\ ModeIsSet'
    BY <2>1 DEF Inv, Roles, ModeIsSet
  <2>5. InStep => InStep'
    BY <2>1
       DEF InStep, OneSwitches, Waits, Done, FlagIsHonest, Settled, TearDownDue, BeaconFollows,
           Applying, ApUp
  <2> QED
    BY <2>1, <2>2, <2>3, <2>4, <2>5 DEF Inv, Radio
<1> QED
  BY <1>1, <1>2

\* The inductive invariant holds: whatever the tasks, the driver and the
\* network do, events, link, timer, flag and beacon stay related as Inv says.
THEOREM AlwaysInv == Spec => []Inv
  BY InitInv, StepInv, PTL DEF Spec

\* handle_event(), disable_access_point() and request_connect(): connected_
\* is not left true on a dead link.  The last event that waits is that of the
\* link's last change, and handle_event() has seen every earlier one.
THEOREM NoLinkIsPhantom == Spec => []NoPhantomLink
<1>1. Inv => NoPhantomLink
  <2> SUFFICES ASSUME Inv, "connected" \in flags, link # "ip"
               PROVE  \E i \in DOMAIN events : events[i] # "got_ip"
    BY DEF NoPhantomLink
  <2>1. events \in Seq(Events) /\ events # <<>> /\ events[Len(events)] # "got_ip"
    BY DEF Inv, TypeOK, TellsLink, Ends
  <2>2. Len(events) \in DOMAIN events
    BY <2>1
  <2> QED
    BY <2>1, <2>2
<1> QED
  BY <1>1, AlwaysInv, PTL

\* switch_radio_mode() and handle_event(): between two switches of the mode
\* the timer of the SoftAP fallback runs when the station is down, and
\* access_point_active_ and the beacon's password say what the radio does, as
\* long as no switch was broken off under the SoftAP and no two overlapped.
THEOREM RadioStaysConsistent == Spec => []RadioConsistent
<1>1. Inv => RadioConsistent
  <2> SUFFICES ASSUME Inv PROVE OfflineIsTimed /\ ApFlagHonest /\ BeaconIsStored
    BY DEF Inv, RadioConsistent
  <2>0. "recovery" \in Tasks
    BY TaskNames
  <2>1. OfflineIsTimed
    BY DEF Inv, TellsLink, TimerRuns, AboutToConnect, OfflineIsTimed, Switching, Calm
  <2>2. ASSUME ~Switching, spoiled = {} PROVE FlagIsHonest /\ Settled /\ at["recovery"] \in Calm
    BY <2>0, <2>2 DEF Inv, Radio, InStep, Switching, Settled
  <2>3. ApFlagHonest
    BY <2>2 DEF ApFlagHonest, FlagIsHonest, TearDownDue, Calm
  <2>4. BeaconIsStored
    BY <2>2 DEF Inv, Radio, InStep, BeaconFollows, BeaconIsStored, Calm
  <2> QED
    BY <2>1, <2>3, <2>4
<1> QED
  BY <1>1, AlwaysInv, PTL
=============================================================================
