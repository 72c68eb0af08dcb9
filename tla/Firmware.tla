------------------------------ MODULE Firmware ------------------------------
(***************************************************************************)
(* Replacing firmware: the upload handler of the web server, the restart   *)
(* and validation tasks, the boot loader that rolls back, and the update   *)
(* of the WiFi coprocessor from the touch screen.  Power is lost at any    *)
(* time.  The flash and the boot loader are ESP-IDF's, modelled from how   *)
(* the code uses them: two slots, and a boot partition that is tried once. *)
(***************************************************************************)
EXTENDS Integers, FiniteSets

CONSTANTS
    MaxUploads,  \* bound on firmware uploads
    MaxEvents    \* bound on power losses and taps on the coprocessor's update button

ASSUME FirmwareAssumption == MaxUploads \in Nat /\ MaxEvents \in Nat

SlotNames == {"app0", "app1"}
Other(s) == CHOOSE o \in SlotNames : o # s

VARIABLES
    slots,          \* per slot: what it holds, completely or not, and its OTA state
    boot, running,  \* the slot in otadata, the slot this firmware runs from
    upload,         \* where update_upload_handler() is
    streams,        \* the streams are suspended by an upload
    restart,        \* a restart_task waits its 2.5 seconds
    validating,     \* validate_ota_task waits its 30 seconds
    boxes, progress, tasks,  \* open update boxes, c6_ota_progress_ (0: any percentage), c6_ota_tasks
    uploads, events,
    record          \* what the properties remember

fwVars == <<slots, boot, running, upload, streams, restart, validating, boxes, progress, tasks,
            uploads, events, record>>
c6Vars == <<boxes, progress, tasks>>
otaVars == <<slots, boot, running, upload, streams, restart, validating, uploads>>

NoUpload == [at |-> "idle", healthy |-> FALSE]

FirmwareInit ==
    /\ slots = [s \in SlotNames |-> [whole |-> s = "app0", healthy |-> s = "app0",
                                     state |-> IF s = "app0" THEN "valid" ELSE "empty"]]
    /\ boot = "app0" /\ running = "app0"
    /\ upload = NoUpload /\ streams = FALSE /\ restart = FALSE /\ validating = TRUE
    /\ boxes = 0 /\ progress = -1 /\ tasks = 0
    /\ uploads = 0 /\ events = 0
    /\ record = [expect |-> "", wrong |-> FALSE, overlap |-> FALSE]

-----------------------------------------------------------------------------
(* update_upload_handler()                                                 *)

\* The handler writes the slot that is not running.
partition_Running == running
partition == Other(running)

upload_start ==
    /\ upload = NoUpload /\ uploads < MaxUploads
    /\ uploads' = uploads + 1 /\ streams' = TRUE
    /\ \E h \in BOOLEAN : upload' = [at |-> "begin", healthy |-> h]
    /\ UNCHANGED <<slots, boot, running, restart, validating, c6Vars, events, record>>

\* Every way out but the last: the answer is an error and the streams go on.
GiveUp_KeepsSuspended == upload' = NoUpload /\ UNCHANGED streams
GiveUp == upload' = NoUpload /\ streams' = FALSE

\* An empty or oversized image, or an esp_ota_begin() that fails, as it does
\* in a firmware that is not validated yet.
upload_refused ==
    /\ upload.at = "begin" /\ GiveUp
    /\ UNCHANGED <<slots, boot, running, restart, validating, uploads, c6Vars, events, record>>

esp_ota_begin ==
    /\ upload.at = "begin" /\ slots[running].state # "pending"
    /\ upload' = [upload EXCEPT !.at = "write"]
    /\ slots' = [slots EXCEPT ![partition].whole = FALSE]
    /\ record' = [record EXCEPT !.expect = ""]
    /\ UNCHANGED <<boot, running, streams, restart, validating, uploads, c6Vars, events>>

\* The connection breaks, a write fails or esp_ota_end() finds a bad image.
upload_fails ==
    /\ upload.at = "write" /\ GiveUp
    /\ UNCHANGED <<slots, boot, running, restart, validating, uploads, c6Vars, events, record>>

esp_ota_end ==
    /\ upload.at = "write"
    /\ upload' = [upload EXCEPT !.at = "end"]
    /\ slots' = [slots EXCEPT ![partition].whole = TRUE, ![partition].healthy = upload.healthy]
    /\ UNCHANGED <<boot, running, streams, restart, validating, uploads, c6Vars, events, record>>

set_boot_fails ==
    /\ upload.at = "end" /\ GiveUp
    /\ UNCHANGED <<slots, boot, running, restart, validating, uploads, c6Vars, events, record>>

\* The new slot is to boot, the answer is sent and the restart is scheduled;
\* the streams stay suspended until then.
Accept == upload' = NoUpload /\ restart' = TRUE /\ record' = [record EXCEPT !.expect = partition]
accept_update_NotSet ==
    /\ upload.at = "end" /\ Accept
    /\ UNCHANGED <<slots, boot, running, streams, validating, uploads, c6Vars, events>>
accept_update ==
    /\ upload.at = "end" /\ Accept
    /\ boot' = partition
    /\ slots' = [slots EXCEPT ![partition].state = "new"]
    /\ UNCHANGED <<running, streams, validating, uploads, c6Vars, events>>

-----------------------------------------------------------------------------
(* Restarts                                                                *)

\* The boot loader takes the boot partition if it is complete and was not
\* tried before without being validated, else the other one.
Pick == IF slots[boot].whole /\ slots[boot].state \in {"new", "valid"} THEN boot ELSE Other(boot)
Tried(s) == CASE slots[s].state = "pending" -> "aborted"
              [] slots[s].state = "new" /\ s = Pick -> "pending"
              [] OTHER -> slots[s].state
Reboot ==
    /\ slots' = [s \in SlotNames |-> [slots[s] EXCEPT !.state = Tried(s)]]
    /\ boot' = Pick /\ running' = Pick
    /\ upload' = NoUpload /\ streams' = FALSE /\ restart' = FALSE /\ validating' = TRUE
    /\ boxes' = 0 /\ progress' = -1 /\ tasks' = 0
    /\ record' = [expect |-> "", wrong |-> record.wrong \/ record.expect \notin {"", Pick}, overlap |-> FALSE]
    /\ UNCHANGED uploads

PowerLoss == events < MaxEvents /\ events' = events + 1 /\ Reboot

restart_task == restart /\ Reboot /\ UNCHANGED events

\* validate_ota_task(), half a minute after the start.  A healthy firmware
\* may still be found busy, with an old heartbeat, and is rolled back too.
healthy_Unasked == TRUE
healthy == slots[running].healthy
mark_app_valid ==
    /\ validating /\ slots[running].state = "pending" /\ healthy
    /\ validating' = FALSE
    /\ slots' = [slots EXCEPT ![running].state = "valid"]
    /\ UNCHANGED <<boot, running, upload, streams, restart, uploads, c6Vars, events, record>>
validation_fails ==
    /\ validating /\ slots[running].state = "pending"
    /\ Reboot /\ UNCHANGED events
nothing_to_validate ==
    /\ validating /\ slots[running].state # "pending"
    /\ validating' = FALSE
    /\ UNCHANGED <<slots, boot, running, upload, streams, restart, uploads, c6Vars, events, record>>

-----------------------------------------------------------------------------
(* The coprocessor's update                                                *)

on_c6_ota_btn ==
    /\ progress < 0 /\ events < MaxEvents
    /\ events' = events + 1 /\ boxes' = boxes + 1
    /\ record' = [record EXCEPT !.overlap = @ \/ boxes > 0]
    /\ UNCHANGED <<otaVars, progress, tasks>>

on_c6_ota_confirm ==
    /\ boxes > 0 /\ boxes' = boxes - 1
    /\ \/ progress' = 0 /\ tasks' = tasks + 1
       \/ UNCHANGED <<progress, tasks>>
    /\ UNCHANGED <<otaVars, events, record>>

\* c6_ota_task(): a chunk is written, a call fails, or the image is complete
\* and the device restarts.
c6_ota_write ==
    /\ tasks > 0 /\ progress' = 0
    /\ UNCHANGED <<otaVars, boxes, tasks, events, record>>
c6_ota_fails ==
    /\ tasks > 0 /\ tasks' = tasks - 1 /\ progress' = -2
    /\ UNCHANGED <<otaVars, boxes, events, record>>
c6_ota_done == tasks > 0 /\ Reboot /\ UNCHANGED events

-----------------------------------------------------------------------------
UploadStep == upload_refused \/ esp_ota_begin \/ upload_fails \/ esp_ota_end \/ set_boot_fails \/ accept_update
Validation == mark_app_valid \/ nothing_to_validate
Coprocessor == on_c6_ota_btn \/ on_c6_ota_confirm \/ c6_ota_write \/ c6_ota_fails
Restarting == PowerLoss \/ restart_task \/ validation_fails \/ c6_ota_done

-----------------------------------------------------------------------------
\* update_upload_handler() and validate_ota_task(): whatever is uploaded, and
\* whenever the power goes, the firmware that runs is complete, and one that
\* is not validated yet has a complete, validated one to fall back to.
RollbackSafe ==
    /\ slots[running].whole
    /\ slots[running].state = "pending" => slots[Other(running)].whole /\ slots[Other(running)].state = "valid"

\* "Update accepted. Restarting.": the firmware that was accepted runs after
\* the restart, unless another upload began to overwrite it before that.
AcceptedUpdateRuns == ~record.wrong

\* c6_ota_progress_: while an update of the coprocessor runs its progress is
\* shown and no other can be started, unless two boxes were open at once.
ProgressIsHonest == tasks > 0 /\ ~record.overlap => progress >= 0 /\ tasks = 1

\* validate_ota_task(): a firmware that never gets healthy is given up.
UnhealthyIsGivenUp == []<>slots[running].healthy

\* update_upload_handler(): an upload, however it ends, gives the streams
\* back or restarts the device.
StreamsComeBack == []<>~streams
=============================================================================
