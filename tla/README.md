# Verification of the GPS base station firmware

TLA+ models of the ESP32-P4 firmware in `main/`: what is modelled, what TLC
checks on small instances, what TLAPS proves for every instance, and what is
left. Paths are relative to the repository root; `main/base_station.cpp:410`
names a line.

## 1. The system

The firmware drives a UM980 GNSS receiver over a UART. It either surveys its
own position or, with a stored position, sends RTCM corrections to three NTRIP
casters (push clients) and to rovers on the local network (local caster). A web
server and a touch screen control it. In *raw collection* the receiver sends
observations instead, which are logged to SD card as RINEX.

### Inventory

| Component | State | Operations | Who calls it | Hard because | Correct when |
|---|---|---|---|---|---|
| `base_station` | mode, atomic flags of the stream gate, action queue, rate window, RTCM parser, correction mailbox | `run()` loop, mode transitions, `apply_stream_state()`, public API | own task; web, touch screen, `rtk_enable`, `network_gate` | five kinds of task share atomics and no lock | mode, receiver output, logger and gate agree; every client ends up where the flags put it |
| `ntrip_push` (×3) | `suspended_`, `reconnect_`, `connected_`, `resumed_us_`, packet queue, socket, failure count | `run()`, `set_suspended()`, `configure()`, `push()` | own task; whoever runs `apply_stream_state()` or `reload_services()`; base task pushes | callers change atomics in several steps while the task is anywhere in a handshake; caster may do anything | no old connection survives, backoff holds, it comes back |
| `local_caster` | client table, bounded queue, `suspended_` | accept, send, drop slow clients | own task, base task | slow clients, queue at its limit | no client blocks the others |
| `app_main` | `rtk_enable`, `network_gate`, `validate_ota_task` | boot hold-off, WiFi polling | FreeRTOS | runs concurrently with everything | hold-off ends once; WiFi state reaches the gate |
| `storage` | NVS keys | multi-key saves | all tasks | power loss between writes | no mixed record is taken for valid |
| `survey` | accumulators | add fix, result | base task | numeric edges | a result is taken once |
| `rinex_logger` | open file, epoch, rotation | start, stop, feed | base task | rotation and write errors | every epoch in one file |
| `um980` | UART | command sequences | base task | commands fail half-way | output matches the mode |
| `web_server` | session, login throttle, upload, file and export handlers | HTTP handlers | HTTPS and SoftAP gateway tasks | two servers share one session without a lock; power loss during an upload | a good image survives, a bad one is given up; a session is judged by its own use |
| `ui` | widgets, modals, file browser, delete dialog | callbacks, `refresh()`, theme change | LVGL and worker tasks | widgets are deleted under pointers to them; the web server shares the delete job | no deleted widget is used; dialog and job belong together |
| `wifi_manager` | STA/AP state, pending flag, timers | events, recovery loop, commands | recovery and event tasks, a task for each tap, the web servers | no lock; driver calls fail half way | no lock-out: station or SoftAP is reachable again and again |
| `sd_delete`, `sd_manager` | one delete job, its progress and report | start, preview, delete, export checks | web, touch screen, own task | check-then-claim; the logger writes to the same card | one job at a time; the open file is spared |
| `log_buffer` | ring buffer, cursor | append, read since | every task; web, touch screen | wrap-around, cursors overtaken | a reader sees the end of the log without gap or repetition |
| `net_health` | result of a probe | probe | own task | - | - |

How components interact: API calls of the web server and the touch screen set
atomics or queue an action; the base task takes actions from the queue and
runs the transitions; every change of an atomic is followed by
`apply_stream_state()` *on the task that made the change*, which evaluates the
gate and calls `set_suspended()` on the local caster and then on the push
clients; each push client's own task reacts when it next reads its flags.
Frames that the RTCM parser finds in the receiver's output go into the
correction slots and the local batch, and from there into the queues of the
clients. The position travels from a survey or a form through the NVS to the
receiver. The web server and the touch screen start and watch the same delete
job, and look at the logger's open file before they touch the card.

The hazards, each with its line and the properties that cover it, are listed
in `PROJECT.json`.

## 2. Modules

| Module | Models |
|---|---|
| `StreamGate` | control core of `base_station.cpp`, `rtk_enable` and `network_gate` of `app_main.cpp`, API calls and upload of `web_server.cpp`, the NVS switches, which output the UM980 is left with |
| `MCStreamGate` | initial states and specifications of the runs of `StreamGate` |
| `StreamGateProofs` | theorems about `StreamGate` |
| `NtripPush` | one push client and its callers (`ntrip_push.cpp`); its runs use the module itself |
| `NtripPushProofs` | theorems about `NtripPush` |
| `RtcmParser` | `feed_rtcm_byte()`: framing, CRC and resynchronisation |
| `Corrections` | correction slots and their flush, local batch, and `local_caster.cpp`: queue, clients, suspension; extends `RtcmParser` |
| `LatestOnly` | abstract: what the slots promise a caster; `Corrections` implements it |
| `CorrectionsProofs` | theorems about `Corrections`, with its refinement of `LatestOnly` |
| `Position` | survey, the NVS keys of the position (`storage.cpp`), and the transitions that bring it to the receiver |
| `PositionProofs` | theorems about `Position` |
| `Firmware` | upload, boot slots, validation and rollback, restart, coprocessor update (`web_server.cpp`, `app_main.cpp`, `ui.cpp`) |
| `WebAdmin` | session and login of `web_server.cpp` over two servers, saving of services by web and touch screen; extends `Firmware` and runs together with it |
| `WebAdminProofs` | theorems about `WebAdmin` and `Firmware` |
| `SdCard` | `rinex_logger.cpp`, `sd_delete.cpp`, `sd_manager.cpp`, file and export handlers of `web_server.cpp`, the card |
| `MCSdCard` | paths for the run of `SdCard` |
| `SdCardProofs` | theorems about `SdCard` |
| `LogBuffer` | `log_buffer.cpp` and the page that follows the log |
| `Ui` | `ui.cpp`: widget pointers, modals, theme, file browser, delete dialog, WiFi scan; extends `LogBuffer` |
| `UiProofs` | theorems about `Ui` and `LogBuffer` |
| `WifiManager` | `wifi_manager.cpp`: recovery loop, event handler, commands, over an external driver and network |
| `WifiManagerProofs` | theorems about `WifiManager` |

Definitions named `X_Y` and commented "Mutant of X" are deliberately wrong
variants of `X`, one for each checked property: with the variant in place of
`X`, TLC reports the property violated. The newer modules state their types
and the simpler facts about how variables belong together as named parts of
one invariant (`SlotsConsistent`, `PositionConsistent`, `ServicesConsistent`,
`JobsConsistent`, `DialogsConsistent`, `RadioConsistent`).

Variables called `ghost`, `record` or `spoiled` are history: properties read
them, no guard does. They are how a property names the exception it allows.

### StreamGate

* `flags` is the set of the Boolean atomics that are true; `nvs` the set of
  NVS keys stored as true; `suspended` the clients whose `suspended_` is true.
  Client 0 is the local caster.
* Each task has a label `at[t]`. `apply_stream_state()` is split where other
  tasks can see a difference: evaluate the local gate, write client 0, evaluate
  the outbound gate, write each push client. `ret[t]` is where the caller
  continues. The atomics loaded within one evaluation are one step.
* A mode transition is split at each call that blocks (receiver commands,
  `apply_stream_state()`); in between nothing of the base task's state can
  change, but other tasks run.
* `Configured(target)` stands for a command sequence of `Um980`: it ends with
  the output wanted or, with `Faults`, with the previous output or none.
* `window` says whether bytes were counted in the open rate window and
  whether it was open already at the last transition.
* `Reboot` restarts everything but NVS at any moment.
* `stale` and `clobbered` are history: which task holds an evaluation older
  than a later flag write, and which client was last written with one. They
  guard nothing.

### NtripPush

* `flags` holds `suspended_`, `reconnect_`, `connected_` and `enabled_`; each
  store of `set_suspended()` and `configure()` is a step of the caller.
* Time is reduced to what the code compares: `resumed` is "recent" until the
  stagger has passed, `healthy` "short" until the streak has lasted
  `kHealthyStreakUs`. Both elapse at any moment.
* `connect_caster()` is split into credentials, dial, request, response and
  headers. Each may fail, as may each send; `drain_headers()` can only end.
* `failures` saturates at `MaxFailures`, past the last value the model
  compares it with; the length of the retry delay is not modelled.
* A packet is "fresh" while the connection it was accepted on is up. This and
  `old`, `sent`, `owed`, `resolved` are history and guard nothing.
* The three clients differ in host, protocol and stagger only; `Stagger` is a
  constant.
* Status texts, byte and drop counters and `reconnects_` are left out: nothing
  reads them but the status page. `stop()` is reached from the destructor and
  a failed start only.

### RtcmParser, Corrections, LatestOnly

* The frame format is scaled down: four byte values, the largest the preamble,
  one byte each for length and CRC. The parser's branches are those of the
  code: preamble, reserved bits with restart on a preamble in second place,
  length check, CRC, and the fact that a false header swallows what follows.
  `FramesAreFound` feeds it every stream of up to two frames with noise, every
  frame damaged behind its header, and every input of up to six bytes.
* In `Corrections` a frame is the number of its publication. A slot holds the
  newest version of a message and one bit per push client.
  `flush_destination_if_due()` hands a client all it does not have, or a part
  of it when the client goes down meanwhile (`flush_cut`); what becomes of a
  packet in the client's queue is in `NtripPush`. A flush is due whenever the
  model likes.
* The local side is split where tasks meet: `set_suspended()` into its two
  stores, `flush_batch_frames()` into single pushes that look at `suspended_`
  before they queue, and the caster's loop into its rounds.
* `LatestOnly` has two actions: a message gets a new version; a client takes
  newest versions it does not have. `SlotsImplementLatestOnly` says that every
  step of `Corrections` is one of those or none.

### Position

* The three coordinates and `pos_valid` are written by separate steps of
  `save_position()`, with a restart possible between any two and at most one
  failing write or command.
* A survey is counted in blocks. Time, blocks and the stability of the mean
  are required together, as in `survey.cpp`; a fix agrees with the mean or not.
* `configure_base()` and `configure_survey_output()` either reach the end or
  leave the receiver as it was.

### Firmware, WebAdmin

* The flash has two slots; the boot loader tries a new image once and goes
  back unless it was marked valid. Both are ESP-IDF's and external. A power
  loss happens at any step.
* The session is one token with a time of last use. A request is split where
  the other server can run: it is checked, its form is read, its effect is
  stored. Times are counted from the event they are measured from, up to the
  limit they are compared with.
* A saved service is a pair of credentials and switch; saving is split into
  its writes, the load and the call of `configure()` in `reload_services()`.

### SdCard

* A path is the sequence of its names, a trailing slash an empty last name.
  `card` is what the card would hold if the power went now: the epochs of each
  RINEX file and its TIME OF LAST OBS, updated by `fsync()` and `fclose()`.
* The logger's open, write, patch, sync, rotate and close are steps, with the
  publication of the active file's name a step after `fopen()`.
* The delete task walks its list with a stack and removes one entry at a time.
  `start_claim` takes the preview's walk, the store of `kRunning` and
  `xTaskCreate()` (`main/sd_delete.cpp:80` to `:105`) as one step, so
  no other task changes the card during that walk or sees `kRunning` before a
  task that cannot be created.
* When two callers have both passed `busy()`, the second frees the list the
  first is using. What follows is undefined; the model stops the job there
  (`job.freed`).

### Ui, LogBuffer

* A widget pointer is known by its field. `Built` lists what each `build_`
  function assigns, `apply_theme` what the theme change deletes and what it
  resets. Every handler touches the pointers it uses; a touched pointer that
  is null or freed goes into `bad`.
* Handlers and `refresh()` run one at a time on the LVGL task; the scan and
  the delete job run beside it. `scanning` is "stuck" when `xTaskCreate()` has
  failed and `scan_running_` stays true.
* `LogBuffer` has its operators over a log of numbers: what `snapshot_since()`
  returns for a cursor, what the page makes of it when it follows the log and
  when it is loaded in full, and what the console shows of a snapshot longer
  than `kConsoleTailChars` (`ConsoleTail`): its end, cut to that length and
  then behind the next newline.
  `LogIsShown` is judged over every way of logging up to eight bytes into a
  ring of three between reads.

### WifiManager

* Every call of the driver is a step of the task that makes it, so
  `recovery_loop()`, `update_credentials()`, `apply_ap_settings()` and events
  overlap there. Events are delivered in the order they were posted.
* `Screens` are the tasks that `on_wifi_connect()` and `on_ap_save()` create,
  one for each tap, and several may run at once; `Servers` are the web
  servers, whose `ap_password_handler()` applies a password itself. A task is
  one of these names, and takes another command when the last one is done.
* A call of the driver or `xTaskCreate()` may fail, `MaxFaults` times in all.
  A failing `esp_wifi_connect()` posts no event. Writes to the NVS succeed in
  this module.
* `apply_ap_settings()` and `enable_ap_sta()` read the stored password
  (`filled`) a step before they configure it.
* Time is counted in passes of the recovery loop; `offline`, `retry` and
  `info` stop at the value they are compared with.
* `missed` remembers that the driver is without the last request to associate
  or without the stored password, because the call or the task that should
  have brought it failed, or brought a password that had been replaced.
* `spoiled` remembers that two tasks switched the radio at once, or that a
  switch broke off part-way (`BreaksOff`): section 5.

## 3. Runs

| Run | Checks | Shows |
|---|---|---|
| `gate_modes` | `TypeOK`, `DivergesOnlyByRace`, `CollectionOnlyInBaseMode`, `OutputFollowsMode`, `HoldOff` | two touch-screen requests in every order and at every moment, with two push clients: mode, logger, receiver output and gate agree; no stream before the hold-off ends |
| `gate_faults` | `DivergesOnlyByRace` | any API call or upload, WiFi coming up late, failing NVS writes and receiver commands, one restart: every path applies what it changed |
| `gate_live` | `StreamsComeUp`, `RequestsServed` | streams come up once their conditions hold; actions are served in every mode |
| `push_connection` | `TypeOK`, `OldConnectionIsDoomed`, `BackoffKept` | two callers and a client with stagger: no demand to reconnect is lost; short-lived connections do not clear the backoff |
| `push_live` | `SuspensionTakesHold`, `ComesBack` | a lasting suspension closes the socket; an enabled, resumed client is connected again and again |
| `corrections` | `SlotsConsistent`, `SuspensionCutsStream`, `FramesAreFound`, `SlotsImplementLatestOnly`, `DestinationsFollow` | a slot holds its message's newest version and its bits say who took it; no caster gets an older version or one twice; a suspension cuts off the packets queued and the clients connected when it began; a client that stays ready gets everything |
| `position` | `PositionConsistent`, `StoredIsWhole`, `EndsUpTransmitting` | with a failing write or command and restarts anywhere, a position marked valid is one position, and the receiver has the stored one, up to the exceptions in section 5; the base ends up transmitting |
| `web_admin` | `ServicesConsistent`, `RollbackSafe`, `AcceptedUpdateRuns`, `ThrottleHolds`, `SessionJudgedByUse`, `UnhealthyIsGivenUp`, `StreamsComeBack` | requests on two servers beside uploads, restarts and power losses: no upload costs the good image, an accepted image is run, a bad one given up; sessions, throttle and services hold up to the named races |
| `sd_card` | `JobsConsistent`, `ReportMatchesPreview`, `ActiveFileGuarded`, `HeaderCoversData`, `ExportIsWhole` | logging, deleting, renaming and exporting beside each other, with a power loss: one job at a time, the report is true, the open file is spared, headers cover the data |
| `ui_dialogs` | `DialogsConsistent`, `OnlyKnownDangling`, `LogIsShown`, `DialogCloses` | any taps, theme changes, jobs and scans: only two pointers ever dangle; dialog, selection and job belong together; console and log page show the end of the log; the progress view goes away |
| `wifi_recovery` | `RadioConsistent`, `NoPhantomLink`, `Recovers` | with two failing calls, the fallback timer runs whenever it must, unless the last request to associate failed; flag and beacon say what the radio does; the device is reachable again and again |
| `ui_freed_widget` | `NoFreedSwitch` | ends in a violation, see below |

`DivergesOnlyByRace` is the central property of the gate: when no task is
inside `apply_stream_state()`, a client differs from what the flags demand only
if its last write came from an evaluation that a later flag write had made
outdated. It says that no code path forgets to apply, and that the unlocked
read-then-write is the only way for clients to go wrong. That this way exists
is in section 5.

Many properties of the other runs have the same form: what the code keeps,
except through a named race or failure. The exception is part of the formula,
so a second way to break it would be reported.

`ui_freed_widget` states what `main/ui.cpp:3187` says of the switch on the
Position Setup modal: `refresh()` touches it "if built". `apply_theme()`
deletes the modal and means to null what the guards test
(`main/ui.cpp:1713`), but not `sw_ps_rinex_`. TLC's trace is: open Position
Setup, close it, change the theme, `refresh()`, which finds the pointer set and
reads a switch that no longer exists (`main/ui.cpp:3188`).

The other pointer the theme change forgets is `list_wifi_scan_`: the scan's
task fills that list when its networks have arrived, although
`main/ui.cpp:1702` says that worker tasks touch no LVGL object. It has no run
of its own; `OnlyKnownDangling` in `ui_dialogs` says that there is no third.

### Bounds

* `gate_*`: one calling task besides the base, enable and gate tasks (four
  tasks in all; the race needs two), one or two push clients (the second makes
  the loop over clients real), an action queue of one or two entries (full
  after one or two requests, against four in the firmware), one or two API
  calls, at most one WiFi change and one restart. Two requests are enough to
  meet a transition of the first with the second. Safety runs start with a
  stored position, so that raw collection and streams are reached soon; the
  survey is entered through `kSurvey`. `gate_faults` also starts with raw
  collection switched on in NVS, so that its one call meets the collection
  `rtk_enable` resumes. There the WiFi network comes up at any
  moment; in `gate_modes` it is up or down throughout; its loss is
  covered by the theorems. `gate_live` starts with every
  combination of stored switches and positions.
* `push_*`: one caller besides the base task, a packet queue of one or two
  (eight in the firmware), `MaxFailures = 4`. `push_live` has the base task as
  only caller and no stagger: with stagger, `ComesBack` does not hold, see
  `main/ntrip_push.cpp:136` in section 5.
* The theorems in section 4 hold for every value of these constants.
* `corrections`: two messages and two slots (one message overtakes the other;
  the case of no free slot, which loses the frame for the push clients, is not
  reached), one push client, batches of one frame and a queue of two (as in
  the firmware the queue exceeds the batch), one local client, three frames,
  two changes of readiness and three of suspension (suspend, resume and
  suspend, with the caster's loop anywhere).
* `position`: two positions (to tell a mixture), two blocks, three requests,
  one fault and two restarts (one in a save, one in what follows it).
* `web_admin`: one browser, which can hold an old token while the session is a
  new one, limits of one time unit, three requests, two uploads (the second
  meets the first's restart), two power losses or taps.
* `sd_card`: three epochs over two files, one request of the web and one of
  the touch screen, one power loss. A preview stops counting at `WalkCap`,
  four entries (`kPreviewWalkCap`, 4096, in the firmware), which a preview of
  the run reaches; a count that reached it means that many or more, and
  `ReportMatchesPreview` speaks of the counts below it.
* `ui_*`: a file and a directory, two modals opened, one job of the web
  server, a ring of three bytes, of which the console shows two at most, and
  eight bytes logged (two turns).
* `wifi_recovery`: retry after one pass, fallback after two (15 and 120 in the
  firmware, in the same order), two queued events, two failing calls, one
  command, by a task of the touch screen or of a web server. Network events
  are not bounded. Two commands whose tasks overlap are too many states for
  the liveness property; the theorems cover any number of them.

Deadlock checking is off in `position` and `sd_card` only, where the bounded
requests, restarts and epochs run out.

### Fairness

* Weak fairness of `apply_stream_state()`, of started calls, of transitions,
  of `rtk_enable`, `network_gate` and the client's task: FreeRTOS runs ready
  tasks, and every call they block in has a timeout. For an upload this is the
  assumption that the HTTP transfer ends.
* Strong fairness of `Dequeue`: each round of the loop in `run()` looks at the
  queue (`main/base_station.cpp:230`), while the loop also does other things.
* Strong fairness of `Frame` and `RateReached`: assumptions about the receiver,
  which keeps sending valid frames, at the required rate in some window.
* Strong fairness of the handshake stages: assumption about the caster, which
  cannot reject every attempt for ever. Weak fairness of `Headers`, as part of
  the client's task, is the assumption that a caster ends its headers:
  `drain_headers()` has no limit of its own.
* `corrections`: weak fairness of the flushes and of the caster's loop, which
  are polled for ever.
* `position`: weak fairness of the base task and of time; strong fairness of
  fixes that agree with the mean, the assumption that the receiver settles.
* `web_admin`: weak fairness of the servers, of a save that was begun, of the
  upload (its transfer ends or times out), of validation and of restarts.
* `ui_dialogs`: weak fairness of `refresh()`, a periodic timer, of the delete
  job and of the WiFi scan.
* `wifi_recovery`: weak fairness of the event task, of the recovery loop, of
  each caller's task, and of the driver, which answers every association it
  began. Nothing is assumed of the network: it may refuse for ever.

## 4. Proofs

All theorems are of the form `Spec => []P`, but for the refinement, and hold
for every value of the constants that the named assumptions allow. The
assumptions are what the code itself fixes:

* `GateAssumption`, `PushAssumption`, `CorrectionsAssumption`: at least one
  push client and one message, queues with room for at least one entry, a
  local queue deeper than a batch (as `main/local_caster.hpp` demands), and
  callers that are not named like the firmware's own tasks.
* `PositionAssumption`: there is a position, and a survey takes at least two
  blocks (five, `main/app_config.hpp:12`). `WifiAssumption`: the station is
  retried sooner than the SoftAP falls back (15 and 120 passes), and no caller
  is named like the recovery task.
  `FirmwareAssumption`: the bounds are numbers.
* `WebAdminAssumption`: at least one browser, and a login delay no longer than
  a session may idle (30 s and 1 h, `main/web_server.cpp:38`).
* `SdAssumption`: each epoch that can begin a RINEX file gives it a name of its
  own, the paths that a rename or a mkdir makes are given as the file system
  stores them, without a trailing slash, and a preview's cap is a number.
* `ParserAssumption`: a payload of at most three bytes, the largest length that
  the scaled-down header can hold. Streams and inputs may have any length.
* `UiAssumption`, `LogBufferAssumption`: the directories are among the entries,
  the ring holds at least one byte, and the console's length is a number.

Each safety invariant follows from an inductive one that says what every task
still has to do.

Stream gate and push clients:

* `TypeCorrect` and `PushTypes`: types and queue bounds. `TypeOK` is inductive.
* `CollectionSafe`: `CollectionOnlyInBaseMode`, with faults and restarts. It is
  not inductive: `RawOutput` starts the logger some steps after the check of
  the mode. `CollectionInv` adds what each label of the base task implies about
  mode and raw collection, also while the task is inside
  `apply_stream_state()` and will return to that label.
* `GateReachesClients`: `DivergesOnlyByRace`, for any number of tasks and
  clients. The invariant `GateParts` says that an evaluation not outdated
  equals what the flags demand now (`HeldIsCurrent`), that only a writing task
  can hold an outdated one (`StaleIsHeld`), and that for every client which
  differs from the gate and was not clobbered some task is still going to write
  it (`SomeoneWillWrite`). `WillWrite` is the heart: which labels commit a task
  to writing client `c` with a value that is not outdated. Each action either
  leaves flags and clients alone (`GateFrame`, `LabelStep`), writes a flag and
  is on its way to apply (`FlagWrite`), or is a step of the apply itself
  (`ReadStep`, `WriteStep`).
* `NoConnectionOutlivesDemand`: `OldConnectionIsDoomed`. `DoomInv` extends it
  to the moment the credentials are copied, before the socket is open.
* `BackoffSurvives`: `BackoffKept`. `StreakInv` says that a streak of sends
  belongs to the connection it started on, which is what makes a "long" streak
  a proof of one long-lived connection.
* `ReceiverFollowsMode`: `OutputFollowsMode`. A transition changes mode, flag
  and output in three steps with `apply_stream_state()` between them. The
  invariant `OutputInv` states what the output is wherever the base task will
  come back to its loop without touching the receiver again, which includes
  the return labels of the apply it is in.
* `NoStreamBeforeRestore`: `HoldOff`. Several tasks may be inside
  `apply_stream_state()` before `rtk_enable` is done. `HoldInv` says that the
  hold-off flag is set until then, and that every task about to write a client
  holds "suspend", because it evaluated the gate with that flag set.

Corrections:

* `SlotsStayConsistent`: `SlotsConsistent`, for any number of messages, slots,
  clients and frames. The slot part is inductive with `TookIsPublished`:
  nobody took a version that was not published, which is why the version a
  slot is filled with again is new to everybody, also after
  `reset_rtcm_state()` forgot who took what. That a flush into an empty queue
  loses nothing needs `BatchIsAll`: for such a flush the frames in the queue,
  in hand and still in the batch are `FramesPerBatch` at most, which is less
  than the queue holds. The steps of the local caster only shorten the queue
  (`Shorter`).
* `SlotsRefineLatestOnly`: `SlotsImplementLatestOnly`, by step simulation.
  `SlotSteps` sorts the actions into four kinds: publish, take a set of slots,
  empty them all, none of these. `TakenIsNewest` shows from the slot invariant
  that what a client takes is the newest version and one it does not have.
* `SuspensionCuts`: `SuspensionCutsStream`. It is about the packets that were
  in the queue, and the clients that were connected, when `suspended_` was set:
  a turn of the loop that began after that sends none of these packets and
  serves none of these clients, unless the caster was resumed between the two
  stores of `set_suspended()`. It does not cover a turn under way at that
  moment, or a frame still in the batch or past the look of `push()` at
  `suspended_` (section 5). Frames are numbered in the order of
  their publication, so the queue is sorted and everything in it is older than
  what waits in the batch. The invariant says that whatever is left from before
  a suspension, in the queue or in hand, still has `reset_clients_` or the store
  of it before it.
* `ParserFindsFrames`: `FramesAreFound`, for streams of any number of frames
  and inputs of any length, in the scaled-down format. `Takes` says that an
  input takes the parser from one state to another. Such runs can be joined
  (`TakesBoth`) and end in one way only (`FedOnce`), so what a whole frame does
  (`FrameTaken`) and what noise does (`NoiseTaken`) gives what a stream does.
  Noise may leave a stray preamble behind, which is why `FrameTaken` starts
  from either of two states (`NotBegun`). A damaged frame is dropped because of
  `CrcTells`: the sums over two inputs that differ in one byte differ from that
  byte on. That nothing else is published follows from the parser's invariant
  `Collecting`. The recursive functions are dealt with as for the log below.

Position, firmware, sessions:

* `PositionStays`, `StoredStaysWhole`: `PosInv` follows the keys a save has
  still to write (`Todo`): while `pos_valid` is true and no save runs, the
  coordinates are those of one position. That a survey's save never runs over
  a valid position is `SurveyIsNeeded`; what the base transmits is what is
  stored because each transition reads it after the last write
  (`ConfiguresStored`).
* `AlwaysRollbackSafe`, `AcceptedRuns`: what runs is complete and, while on
  trial, has a complete and validated image in the other slot; an upload
  writes to the slot that does not run, and the slot it accepted is complete
  and the one to boot until another upload begins.
* `ThrottleAlwaysHolds`: while logins do not overlap there is at most one
  login past its check, it has no delay left, and the block is at least the
  delay that is due. `SessionsJudgedByUse`: the age of the session is the time
  since its own last use. `ServicesStayConsistent`: between saves what is
  loaded is what is stored, and what a save has still to load is remembered at
  its label.

SD card:

* `HeaderAlwaysCovers`: `LogInv` says of memory and card alike that a file's
  header covers its data, and that nothing is written before its time, which
  is why `sync_epoch` may put memory over card at any moment.
* `JobsStayConsistent`: `JobInv` counts the callers between check and claim and
  the tasks that work; `IsTree` says that every prefix of a path on the card is
  a directory, which every rename, mkdir and delete keeps.
* `ExportStaysWhole`: `ExportIsWhole`. `HourInv` says of every RINEX file that
  still has the name of an epoch that it holds the epochs from that one to the
  next such file (`InHours`), the open one among them (`OpenFile`), so reading
  files in the order of their names reads their epochs in order. It follows an
  export through selection and concatenation (`Selected`, `Streams`) and gives
  what its end has to hold (`Promised`). The named exceptions are an open file
  that was selected before its name was published and a file renamed to the
  name of an epoch (`ghost.planted`).
* `ReportStaysTrue`: `ReportMatchesPreview`. `ReportInv` says that what was
  removed and what is still to be removed make up the promised total
  (`TaskReport`), and that what is left of the job is on the task's stack:
  a frame's directory is there, deeper frames lie inside it, and what it has
  still to remove is what is below it on the card (`Orderly`, `Pending`). The
  promise is a sum of counts, one for each path of the list; it becomes a count
  of pairs of path and entry, and those pairs are in bijection with the entries,
  since two separate paths have no entry in common (`OnePreview`,
  `PreviewCounts`). The preview leaves out a managed directory's shell exactly
  when the task keeps it. The argument needs `IsTree` and that the card is
  finite at all times (`FiniteStep`).
* `ActiveFileStaysGuarded`: every frame on a task's stack lies inside one of
  the trees it was asked to delete. A plainly spelled list that passed
  `blocks_active_file()` has no tree around the file the check saw, so no frame
  reaches it.

WiFi:

* `NoLinkIsPhantom`: the last event that waits is that of the link's last
  change, and the handler has seen all earlier ones.
* `RadioStaysConsistent`: for any number of tasks, commands and failing calls.
  The fallback timer runs unless the SoftAP's flag is set, a task is about to
  connect, or the last request to associate failed; in that case `connected_`
  is false, so that `recovery_loop()` asks again. While nothing is spoiled one
  task at most is past the first step of a switch, and the flag says what the
  radio does or another switch is due, which sets it right. The password on
  air is the stored one when nothing is missed and no task is about to
  configure one.

Touch screen and log:

* `DialogsStayConsistent`: `DialogsConsistent` is inductive by itself.
* `TwoFieldsDangle`: a modal on display has its widgets (`ShownIsBuilt`), and a
  dialog its file browser (`DialogNeedsBrowser`), since the theme changes on
  the bare screen only and takes the dialog along. No two modals share a field
  (`FieldsApart`), so what a handler touches is neither null nor dangling
  (`NoMiss`), but for the two fields the theme change forgets.
* `LogStaysShown`: after `n` bytes the ring holds the last of them at their
  numbers modulo the capacity (`HoldsEnd`), so a reader gets the bytes from its
  cursor, or from the oldest one, to the end (`Answer`), and appending them to
  a page that shows the end of the log and cutting it gives the end again
  (`KeptIsEnd`). What the console cuts off leaves the end of the snapshot
  (`TailIs`), from behind a newline when that part has one. The log is a recursive function; that it is well-defined, and
  what it holds, is shown by the least number for which it would not be
  (`Least`, from the well-foundedness of the naturals), as induction rules with
  an operator parameter are not available.

Only model-checked:

* All liveness properties: liveness under fairness and `ENABLED` are out of the
  prover's reach.
* `NoFreedSwitch` does not hold, see section 3.

## 5. Observed while modelling

What the code does that a reader might not expect. The models contain it;
properties name it as an exception where they need to.

Stream gate and modes:

* A task that evaluated the gate before raw collection began can resume
  streams afterwards (`main/base_station.cpp:410`, against the comment at
  `:341`); the next flag change repairs it.
* The rate window that is open at a transition is not restarted
  (`main/base_station.cpp:267`), so readiness after the transition may rest on
  bytes from before it (`main/base_station.hpp:105`).
* `rtk_enable` ends the hold-off during an upload and clears the upload's
  suspension (`main/base_station.cpp:173`, `README.md:397`).
* `rtk_enable` stores the switch value it loaded before the user turned it
  (`main/base_station.cpp:172`, `main/web_server.cpp:3202`).
* `enter_raw_collection()` drops the resume request of a reboot that comes up
  in survey mode (`main/base_station.cpp:335`); nothing starts collection when
  the survey completes, until the next reboot or request.
* `exit_raw_collection()` clears `raw_collection_` before the readiness flags
  (`main/base_station.cpp:356`), so an evaluation by another task in between
  can start streams until the function applies again.

Push clients:

* The resume is stamped after it is published (`main/ntrip_push.cpp:136`), so
  a client can connect first, be found resumed "recently", and have
  `connected_` cleared on a socket that stays in use (`main/ntrip_push.hpp:46`).
  With stagger, `ComesBack` fails for this reason.
* Packets left in the queue by a failed write, or pushed between the check of
  `connected_` and a reset, go out on the next connection
  (`main/ntrip_push.cpp:141`, `:275`; `README.md:10`): `"stale" \notin sent`
  does not hold.
* `failures == 3` (`main/ntrip_push.cpp:239`) is not seen when a failed write
  takes the count past it, so the cached address is not dropped (`:230`).
* `reconnects_` is incremented by a failed write and again by the connect that
  follows (`main/ntrip_push.cpp:268`, `:334`).

Position:

* A manual position written over a valid one and interrupted leaves a mixture
  that is marked valid; so does a survey whose `clear_position()` failed.
* A survey's result whose save fails is lost: the survey is over and does not
  start again until a request or a restart.

Web server and firmware:

* An image that works is rolled back when validation finds the base task busy:
  `configure_base()` sends about 21 commands of 200 ms, and the heartbeat may
  be two seconds old. Any restart before validation rolls back as well.
* A second upload within the 2.5 s before the restart overwrites the image
  that was just accepted.
* Two open confirmation boxes start two updates of the WiFi coprocessor.
* Logging out, which every page does when it is closed, ends the session of
  whoever holds it; a request that found an old session expired can clear a
  new one (`main/web_server.cpp:1847`).
* Login counters are read and written across the two servers without a lock.
* The touch screen accepts administrator passwords of four characters, the web
  form asks for eight.

Local caster:

* A frame that is in the batch when a suspension begins, or that `push()` is
  about to queue behind its look at `suspended_` (`main/local_caster.cpp:86`),
  may be sent after the resume.

SD card:

* "A delete can't run twice at once" (`main/sd_delete.hpp`) fails when both
  callers pass `busy()` before either claims the job; the second replaces the
  list the first is walking.
* A path with a trailing slash passes `blocks_active_file()`, while
  `check_deletable()` ignores the slash. Deleting a single file or renaming
  does not ask about the active file, and a rename may move `logs` and
  `rawdata`.
* A list with a refused path ends as `kDoneOk` with nothing deleted.
* An export may include a file that is being written, when it was selected
  between `fopen()` and the publication of its name.
* An export orders its files by name: a RINEX file renamed to the name of an
  earlier hour gives one whose TIME OF LAST OBS does not cover its data. The
  property names this exception (`ghost.planted`); the run has no such target.
* `unmount()` is never called.

Touch screen:

* `apply_theme()` leaves the two pointers described in section 3.
* Its comment says a change takes effect at the next rebuild or boot; without
  a rebuild of the modals it is the boot.
* Nothing opens the antenna modal.
* When `xTaskCreate()` fails in `on_wifi_scan()` (`main/ui.cpp:1750`),
  `scan_running_` stays true and the Scan button does nothing until a reboot.

WiFi:

* When `disable_access_point()` fails after `esp_wifi_stop()`, the retry it
  asks for is cancelled by the disconnect event of its own stop, and the radio
  stays off: `Recovers` holds only while `spoiled` stays empty.
* When `update_credentials()` and the recovery loop switch the radio at once,
  or the tasks of two taps do (`main/ui.cpp:1800` creates one for each),
  `access_point_active_` may be wrong afterwards, with the same effect.
* A failing `esp_wifi_connect()` posts no event (`main/wifi_manager.cpp:519`),
  so after a boot or a switch, which reset the fallback timer, it stays
  stopped until a later request to associate was made and has failed. The
  SoftAP comes that much later than `kApFallbackMs`
  (`main/wifi_manager.cpp:105`).
* If such a failure is followed by an `update_credentials()` that breaks off
  behind `esp_wifi_stop()`, the radio stays stopped with the timer at 0, until
  another command or a restart (`BreaksOff`).
* A failing `esp_wifi_set_config()`, or a task that cannot be created, leaves
  the old SoftAP password on air until the next save or switch, although
  "Saved" was shown (`main/wifi_manager.cpp:504`, `main/ui.cpp:1826`,
  `main/web_server.cpp:1722`).
* A password stored while a task is between reading the old one and
  configuring it is overwritten in the driver by the old one, if that task is
  the last to configure.

## 6. Plan

Every safety invariant that a run checks and expects to hold is proved. What is
left:

1. `WifiManager` composed with `StreamGate`, where it replaces the free
   `WifiFlip`; `Corrections` composed with `NtripPush` through `push()`.
2. Abstract specifications: a gate whose clients follow the flags in one step,
   which `StreamGate` without overlapping applies implements; a position store
   that saves in one step.

## 7. Not modelled

* `display` (hardware set-up), vendored components and drivers, scripts: no
  protocol of this project's own.
* The Arduino predecessor under `src/`: not part of the build.
* `bootstrap`, the recovery firmware: its upload handler is the main firmware's
  without streams and session, one request at a time. As a third kind of image
  in `Firmware` it makes the composed run several times larger and adds one
  path, a boot into the recovery slot.
* `net_health`: one task probes an address and stores the result in atomics
  that only the status page reads.
* In the modelled components: pages, JSON and scripts of the web server other
  than the log page's, status getters, the command texts of the receiver, the
  satellite lists (GSV, GSA), the content of a RINEX file beyond its epochs
  and header times, network scans as such, keyboard, text and layout of the
  touch screen, the SoftAP's address, which is taken as reachable at any time.
