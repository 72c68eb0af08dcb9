------------------------------ MODULE NtripPush -------------------------------
(***************************************************************************)
(* One NTRIP push client (main/ntrip_push.cpp): the task that keeps a TCP  *)
(* connection to a caster and sends the queued RTCM packets, against the   *)
(* tasks that call it: set_suspended() from apply_stream_state(),          *)
(* configure() from reload_services(), push() from the base_station task.  *)
(*                                                                         *)
(* Each store to an atomic that another task may act on is a step.  Time   *)
(* is abstracted to what the code compares: whether the stagger since the  *)
(* last resume has passed, whether a streak of sends has lasted long       *)
(* enough.  The caster and the network answer in any way they like.        *)
(***************************************************************************)
EXTENDS Integers, Sequences

CONSTANTS
    Others,       \* tasks besides "base" that call the client
    QueueDepth,   \* kQueueDepth (8 in the firmware)
    Stagger,      \* is connect_stagger_ms_ > 0 (Onocoy, RTKdata; not RTK2go)
    MaxFailures   \* bound: failures saturates here; past the last comparison

ASSUME PushAssumption ==
    /\ QueueDepth \in Nat \ {0}
    /\ Stagger \in BOOLEAN
    /\ MaxFailures \in Nat
    /\ MaxFailures > 3
    /\ "base" \notin Others

Callers == Others \cup {"base"}

AtomicFlags == {"suspended", "reconnect", "connected", "enabled"}
RunLabels  == {"top", "gate_on", "gate_off", "exchange", "stagger", "clear",
               "connect", "creds", "dial", "shake", "response", "headers",
               "receive", "sending", "delay"}
CallLabels == {"idle", "sus_resumed", "sus_reconnect", "res_stamp", "cfg",
               "push_send", "push_drop", "push_resend"}

\* A packet is "fresh" while the connection is up on which push() accepted
\* it, and "stale" afterwards (history only; the code does not know).
Packet == {"fresh", "stale"}

VARIABLES
    flags,       \* suspended_, reconnect_, connected_; enabled_
    resumed,     \* resumed_us_: "none" (0), or how long ago: "recent", "past"
    queue,       \* queue_
    socket,      \* socket_: "closed" (< 0) or "open"
    dns,         \* cached_addr_valid_: "cached" or "none"
    at,          \* what each caller is about to do inside the client
    pushing,     \* the packet push() is about to queue
    run,         \* what the client's task is about to do
    packet,      \* local of run(): the packet being sent, or "none"
    failures,    \* local of run()
    healthy,     \* healthy_since_us: "none" (0), "short" or "long" ago
    \* History.
    old,         \* "yes" once configure() or set_suspended(true) came after
                 \* the task last read its configuration
    sent,        \* set: "stale" once a stale packet went out; "once" after a
                 \* send on this connection, "aged" when that is long ago
    owed,        \* "yes" from a failure until it may be forgiven
    resolved     \* "yes" if this failure streak resolved the address anew

atomics == <<flags, resumed>>
task    == <<socket, dns, run, packet, failures, healthy>>
ghosts  == <<old, sent, owed, resolved>>
vars    == <<atomics, queue, task, at, pushing, ghosts>>

Saturate(n, bound) == IF n < bound THEN n + 1 ELSE bound

Goto(t, label) == at' = [at EXCEPT ![t] = label]

-----------------------------------------------------------------------------
(* set_suspended() and configure().                                        *)

\* A demand that the present connection is given up.
Demand == old' = "yes" /\ owed' = "no" /\ UNCHANGED <<sent, resolved>>

\* set_suspended(true): suspended_.exchange(true) ...
Suspend(t) ==
    /\ at[t] = "idle"
    /\ flags' = flags \cup {"suspended"}
    /\ Goto(t, "sus_resumed")
    /\ Demand
    /\ UNCHANGED <<resumed, queue, task, pushing>>

\* ... resumed_us_ = 0 ...
SuspendResumed(t) ==
    /\ at[t] = "sus_resumed"
    /\ resumed' = "none"
    /\ Goto(t, "sus_reconnect")
    /\ UNCHANGED <<flags, queue, task, pushing, ghosts>>

\* ... reconnect_ = true.
SuspendReconnect(t) ==
    /\ at[t] = "sus_reconnect"
    /\ flags' = flags \cup {"reconnect"}
    /\ Goto(t, "idle")
    /\ UNCHANGED <<resumed, queue, task, pushing, ghosts>>

\* set_suspended(false): only a real change is stamped ...
Resume(t) ==
    /\ at[t] = "idle"
    /\ "suspended" \in flags
    /\ flags' = flags \ {"suspended"}
    /\ Goto(t, "res_stamp")
    /\ UNCHANGED <<resumed, queue, task, pushing, ghosts>>

\* ... after the flag is visible: resumed_us_ = esp_timer_get_time().
ResumeStamp(t) ==
    /\ at[t] = "res_stamp"
    /\ resumed' = "recent"
    /\ Goto(t, "idle")
    /\ UNCHANGED <<flags, queue, task, pushing, ghosts>>

\* configure(): new credentials under config_mutex_ ...
Configure(t, enabled) ==
    /\ at[t] = "idle"
    /\ flags' = IF enabled THEN flags \cup {"enabled"} ELSE flags \ {"enabled"}
    /\ Goto(t, "cfg")
    /\ Demand
    /\ UNCHANGED <<resumed, queue, task, pushing>>

\* ... and reconnect_ = true after it.
ConfigureReconnect(t) ==
    /\ at[t] = "cfg"
    /\ flags' = flags \cup {"reconnect"}
    /\ Goto(t, "idle")
    /\ UNCHANGED <<resumed, queue, task, pushing, ghosts>>

-----------------------------------------------------------------------------
(* push(), called by the base_station task.                                *)

\* The guard: not suspended and connected.
Push ==
    /\ at["base"] = "idle"
    /\ "suspended" \notin flags
    /\ "connected" \in flags
    /\ pushing' = "fresh"
    /\ Goto("base", "push_send")
    /\ UNCHANGED <<atomics, queue, task, ghosts>>

\* Mutant of PushSend: the queue is not checked for room.
PushSend_Unbounded ==
    /\ at["base"] = "push_send"
    /\ queue' = Append(queue, pushing)
    /\ Goto("base", "idle")
    /\ UNCHANGED <<atomics, task, pushing, ghosts>>

\* xQueueSend(), or the queue is full.
PushSend ==
    /\ at["base"] = "push_send"
    /\ \/ /\ Len(queue) < QueueDepth
          /\ queue' = Append(queue, pushing)
          /\ Goto("base", "idle")
       \/ /\ Len(queue) >= QueueDepth
          /\ Goto("base", "push_drop")
          /\ UNCHANGED queue
    /\ UNCHANGED <<atomics, task, pushing, ghosts>>

\* The oldest packet goes; the client's task may have emptied the queue.
PushDrop ==
    /\ at["base"] = "push_drop"
    /\ queue' = IF queue = <<>> THEN queue ELSE Tail(queue)
    /\ Goto("base", "push_resend")
    /\ UNCHANGED <<atomics, task, pushing, ghosts>>

\* The second xQueueSend(), whose result is not looked at.
PushResend ==
    /\ at["base"] = "push_resend"
    /\ queue' = IF Len(queue) < QueueDepth THEN Append(queue, pushing) ELSE queue
    /\ Goto("base", "idle")
    /\ UNCHANGED <<atomics, task, pushing, ghosts>>

-----------------------------------------------------------------------------
(* The task: run().                                                        *)

\* The locals and atomics that most steps of the task leave alone.
Kept == <<resumed, at>>
Quiet == <<queue, socket, dns, packet, failures, healthy, pushing, ghosts>>

\* close_socket(), the flags in gone being cleared with connected_; packets
\* accepted on the connection are stale from now on.
Close(gone) ==
    /\ socket' = "closed"
    /\ flags' = flags \ ({"connected"} \cup gone)
    /\ pushing' = "stale"
    /\ sent' = sent \cap {"stale"}

\* close_socket(), xQueueReset(), failures = 0, healthy_since_us = 0.
StartOver(gone) ==
    /\ Close(gone)
    /\ queue' = <<>>
    /\ failures' = 0
    /\ healthy' = "none"
    /\ owed' = "no"
    /\ resolved' = (IF dns = "none" THEN "yes" ELSE "no")
    /\ UNCHANGED <<dns, packet, old>>

\* The head of the loop reads enabled_ under the mutex.
Top ==
    /\ run = "top"
    /\ run' = (IF "enabled" \in flags THEN "gate_on" ELSE "gate_off")
    /\ UNCHANGED <<flags, Kept, Quiet>>

\* Mutant of StayDown: the socket is kept.
StayDown_KeepsSocket ==
    /\ run \in {"gate_on", "gate_off"}
    /\ run = "gate_off" \/ "suspended" \in flags
    /\ flags' = flags \ {"connected"}
    /\ queue' = <<>>
    /\ failures' = 0
    /\ healthy' = "none"
    /\ run' = "top"
    /\ UNCHANGED <<Kept, socket, dns, packet, pushing, ghosts>>

\* Suspended or disabled: close, empty the queue, sleep.
StayDown ==
    /\ run \in {"gate_on", "gate_off"}
    /\ run = "gate_off" \/ "suspended" \in flags
    /\ StartOver({})
    /\ run' = "top"
    /\ UNCHANGED Kept

\* Neither: go on to reconnect_.exchange(false).
PassGate ==
    /\ run = "gate_on"
    /\ "suspended" \notin flags
    /\ run' = "exchange"
    /\ UNCHANGED <<flags, Kept, Quiet>>

\* A demanded reconnect closes the socket and starts over.
Exchange ==
    /\ run = "exchange"
    /\ \/ "reconnect" \in flags /\ StartOver({"reconnect"})
       \/ "reconnect" \notin flags /\ UNCHANGED <<flags, Quiet>>
    /\ run' = "stagger"
    /\ UNCHANGED Kept

\* Too early after a resume: set_message(..., false), and around the loop.
StaggerWait ==
    /\ run = "stagger"
    /\ Stagger /\ resumed = "recent"
    /\ flags' = flags \ {"connected"}
    /\ run' = "top"
    /\ UNCHANGED <<Kept, Quiet>>

\* The stagger is over, or the client has none, or there was no resume.
StaggerDone ==
    /\ run = "stagger"
    /\ ~Stagger \/ resumed # "recent"
    /\ run' = (IF Stagger /\ resumed = "past" THEN "clear" ELSE "connect")
    /\ UNCHANGED <<flags, Kept, Quiet>>

\* resumed_us_ = 0.
Clear ==
    /\ run = "clear"
    /\ resumed' = "none"
    /\ run' = "connect"
    /\ UNCHANGED <<flags, at, Quiet>>

\* An open socket is used as it is.
UseSocket ==
    /\ run = "connect"
    /\ socket = "open"
    /\ run' = "receive"
    /\ UNCHANGED <<flags, Kept, Quiet>>

\* set_message("connecting", false), and connect_caster() copies the
\* credentials under the mutex.
Creds ==
    /\ run = "connect"
    /\ socket = "closed"
    /\ flags' = flags \ {"connected"}
    /\ old' = "no"
    /\ run' = "dial"
    /\ UNCHANGED <<Kept, queue, socket, dns, packet, failures, healthy, pushing,
                   sent, owed, resolved>>

\* connect_socket(): resolve unless cached, then a non-blocking connect.
DialOk ==
    /\ run = "dial"
    /\ socket' = "open"
    /\ dns' = "cached"
    /\ run' = "shake"
    /\ UNCHANGED <<flags, Kept, queue, packet, failures, healthy, pushing,
                   ghosts>>

\* The request goes out with send_all(), which refuses when suspended.
ShakeOk ==
    /\ run = "shake"
    /\ "suspended" \notin flags
    /\ run' = "response"
    /\ UNCHANGED <<flags, Kept, Quiet>>

\* The caster accepts.
Accepted ==
    /\ run = "response"
    /\ run' = "headers"
    /\ UNCHANGED <<flags, Kept, Quiet>>

\* Mutant of Headers: a new connection takes back a pending reconnect.
Headers_ClearsReconnect ==
    /\ run = "headers"
    /\ flags' = (flags \cup {"connected"}) \ {"reconnect"}
    /\ run' = "receive"
    /\ UNCHANGED <<Kept, Quiet>>

\* After the remaining headers: connected.  failures is kept.
Headers ==
    /\ run = "headers"
    /\ flags' = flags \cup {"connected"}
    /\ run' = "receive"
    /\ UNCHANGED <<Kept, Quiet>>

\* Some step of connect_caster() failed and left the cached address as addr:
\* ++failures, and the third failure drops the address.
ConnectFailed(addr) ==
    /\ run \in {"dial", "shake", "response"}
    /\ Close({})
    /\ failures' = Saturate(failures, MaxFailures)
    /\ healthy' = "none"
    /\ dns' = (IF failures + 1 = 3 THEN "none" ELSE addr)
    /\ owed' = (IF old = "yes" THEN owed ELSE "yes")
    /\ resolved' = (IF dns' = "none" THEN "yes" ELSE resolved)
    /\ run' = "delay"
    /\ UNCHANGED <<Kept, queue, packet, old>>

\* Only connect_socket() drops the cached address by itself, or fills it.
ConnectFails ==
    \/ run = "dial" /\ \E addr \in {"cached", "none"} : ConnectFailed(addr)
    \/ run # "dial" /\ ConnectFailed(dns)

\* xQueueReceive() with a timeout of one second.
Receive ==
    /\ run = "receive"
    /\ queue # <<>>
    /\ packet' = Head(queue)
    /\ queue' = Tail(queue)
    /\ run' = "sending"
    /\ UNCHANGED <<flags, Kept, socket, dns, failures, healthy, pushing, ghosts>>

ReceiveTimeout ==
    /\ run = "receive"
    /\ queue = <<>>
    /\ run' = "top"
    /\ UNCHANGED <<flags, Kept, Quiet>>

\* Mutant of SendOk: any packet that goes out clears failures.
SendOk_ClearsAtOnce ==
    /\ run = "sending"
    /\ "suspended" \notin flags
    /\ healthy' = (IF healthy = "none" THEN "short" ELSE healthy)
    /\ failures' = 0
    /\ sent' = sent \cup {"once"}
    /\ packet' = "none"
    /\ run' = "top"
    /\ UNCHANGED <<flags, Kept, queue, socket, dns, pushing, old, owed,
                   resolved>>

\* send_all() sent the whole packet; a long enough streak clears failures.
SendOk ==
    /\ run = "sending"
    /\ "suspended" \notin flags
    /\ healthy' = (IF healthy = "none" THEN "short" ELSE healthy)
    /\ failures' = (IF healthy = "long" THEN 0 ELSE failures)
    /\ sent' = sent \cup {"once"} \cup (IF packet = "stale" THEN {"stale"}
                                                        ELSE {})
    /\ owed' = (IF "aged" \in sent THEN "no" ELSE owed)
    /\ resolved' = (IF healthy = "long" THEN "no" ELSE resolved)
    /\ packet' = "none"
    /\ run' = "top"
    /\ UNCHANGED <<flags, Kept, queue, socket, dns, pushing, old>>

\* Mutant of SendFailed: connected_ drops and the socket stays.
SendFailed_KeepsSocket ==
    /\ run = "sending"
    /\ failures' = Saturate(failures, MaxFailures)
    /\ healthy' = "none"
    /\ flags' = flags \ {"connected"}
    /\ packet' = "none"
    /\ run' = "delay"
    /\ UNCHANGED <<Kept, queue, socket, dns, pushing, ghosts>>

\* send_all() failed: error, stall, or the stream was suspended meanwhile.
SendFailed ==
    /\ run = "sending"
    /\ failures' = Saturate(failures, MaxFailures)
    /\ healthy' = "none"
    /\ Close({})
    /\ queue' = [i \in DOMAIN queue |-> "stale"]
    /\ owed' = (IF old = "yes" THEN owed ELSE "yes")
    /\ packet' = "none"
    /\ run' = "delay"
    /\ UNCHANGED <<Kept, dns, old, resolved>>

\* vTaskDelay(retry_delay_ms(failures)).
Delay ==
    /\ run = "delay"
    /\ run' = "top"
    /\ UNCHANGED <<flags, Kept, Quiet>>

-----------------------------------------------------------------------------
(* Time, and the specification.                                            *)

\* connect_stagger_ms_ after the last resume.
StaggerElapses ==
    /\ resumed = "recent"
    /\ resumed' = "past"
    /\ UNCHANGED <<flags, queue, task, at, pushing, ghosts>>

\* kHealthyStreakUs after the first send of the streak.
StreakElapses ==
    /\ healthy = "short"
    /\ healthy' = "long"
    /\ sent' = (IF "once" \in sent THEN sent \cup {"aged"} ELSE sent)
    /\ UNCHANGED <<atomics, queue, socket, dns, run, packet, failures, at,
                   pushing, old, owed, resolved>>

\* After start(): configured, suspended, the task created.
Init ==
    /\ flags \in {{"suspended", "reconnect"},
                  {"suspended", "reconnect", "enabled"}}
    /\ resumed = "none"
    /\ queue = <<>>
    /\ socket = "closed"
    /\ dns = "none"
    /\ at = [t \in Callers |-> "idle"]
    /\ pushing = "stale"
    /\ run = "top"
    /\ packet = "none"
    /\ failures = 0
    /\ healthy = "none"
    /\ old = "no"
    /\ sent = {}
    /\ owed = "no"
    /\ resolved = "yes"

CallerContinues(t) ==
    \/ SuspendResumed(t) \/ SuspendReconnect(t) \/ ResumeStamp(t)
    \/ ConfigureReconnect(t)

PushContinues == PushSend \/ PushDrop \/ PushResend

TaskStep ==
    \/ Top \/ StayDown \/ PassGate \/ Exchange
    \/ StaggerWait \/ StaggerDone \/ Clear \/ UseSocket \/ Creds
    \/ DialOk \/ ShakeOk \/ Accepted \/ Headers \/ ConnectFails
    \/ Receive \/ ReceiveTimeout \/ SendOk \/ SendFailed \/ Delay

Next ==
    \/ \E t \in Callers : Suspend(t) \/ Resume(t) \/ CallerContinues(t)
    \/ \E t \in Others, enabled \in BOOLEAN : Configure(t, enabled)
    \/ Push \/ PushContinues
    \/ TaskStep
    \/ StaggerElapses \/ StreakElapses

Spec == Init /\ [][Next]_vars

\* The scheduler runs every ready task and every blocking call of the task
\* has a timeout.  The caster ends its headers, and of infinitely many
\* attempts to connect one gets past each stage of the handshake.
Fairness ==
    /\ \A t \in Callers : WF_vars(CallerContinues(t))
    /\ WF_vars(PushContinues)
    /\ WF_vars(TaskStep)
    /\ SF_vars(DialOk) /\ SF_vars(ShakeOk) /\ SF_vars(Accepted)
    /\ WF_vars(StaggerElapses)

FairSpec == Spec /\ Fairness

-----------------------------------------------------------------------------
(* Properties.                                                             *)

\* Types, and the queue stays within its depth.
TypeOK ==
    /\ flags \subseteq AtomicFlags
    /\ resumed \in {"none", "recent", "past"}
    /\ queue \in Seq(Packet)
    /\ Len(queue) <= QueueDepth
    /\ socket \in {"closed", "open"}
    /\ dns \in {"cached", "none"}
    /\ at \in [Callers -> CallLabels]
    /\ pushing \in Packet
    /\ run \in RunLabels
    /\ packet \in Packet \cup {"none"}
    /\ failures \in 0 .. MaxFailures
    /\ healthy \in {"none", "short", "long"}
    /\ old \in {"yes", "no"}
    /\ sent \subseteq {"stale", "once", "aged"}
    /\ owed \in {"yes", "no"}
    /\ resolved \in {"yes", "no"}

\* A caller is between its change and the reconnect_ = true that follows it.
DemandUnderWay ==
    \E t \in Callers : at[t] \in {"sus_resumed", "sus_reconnect", "cfg"}

\* No connection outlives the demand to give it up: a socket opened with
\* credentials, or before a suspension, that a later configure() or
\* set_suspended(true) replaced is closed already, or reconnect_ is set, or
\* the caller is about to set it.
OldConnectionIsDoomed ==
    (socket = "open" /\ old = "yes") =>
        "reconnect" \in flags \/ DemandUnderWay

\* "Require a sustained healthy streak before trusting the connection": a
\* failure keeps the backoff up until one single connection has carried data
\* for the whole streak, or the user or the gate demanded a fresh start.
BackoffKept == owed = "yes" => failures > 0

\* A suspension that stays ends the connection for good.
SuspensionTakesHold ==
    <>[]("suspended" \in flags) => <>[](socket = "closed")

\* An enabled client that stays resumed gets connected again and again.
ComesBack ==
    <>[](/\ "suspended" \notin flags /\ "enabled" \in flags)
        => []<>("connected" \in flags)
=============================================================================
