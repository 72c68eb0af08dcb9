--------------------------- MODULE WebAdminProofs ----------------------------
(***************************************************************************)
(* Theorems about WebAdmin and the Firmware it is composed with, for any   *)
(* number of browsers, requests, uploads and power losses and any delays:  *)
(* an update never leaves the device without firmware to run, the throttle *)
(* and the session hold although two servers share them without a lock,    *)
(* and a client runs with the service that is stored.                      *)
(***************************************************************************)
EXTENDS WebAdmin, TLAPS

-----------------------------------------------------------------------------
(* The inductive invariant of the firmware.                                *)

OtaStates == {"empty", "new", "pending", "valid", "aborted"}
FwTypes ==
    /\ slots \in [SlotNames -> [whole : BOOLEAN, healthy : BOOLEAN, state : OtaStates]]
    /\ boot \in SlotNames /\ running \in SlotNames
    /\ upload \in [at : {"idle", "begin", "write", "end"}, healthy : BOOLEAN]
    /\ record \in [expect : SlotNames \cup {""}, wrong : BOOLEAN, overlap : BOOLEAN]

\* What runs is complete and was tried.
RunningIsWhole == slots[running].whole /\ slots[running].state \in {"pending", "valid"}

\* What is on trial runs alone: nothing is written over its way back, and it is
\* what boots.
TrialIsAlone ==
    slots[running].state = "pending" =>
        /\ slots[partition].whole /\ slots[partition].state = "valid"
        /\ boot = running /\ upload.at \notin {"write", "end"}

WrittenIsWhole == upload.at = "end" => slots[partition].whole

\* An accepted firmware that was not written over is what boots next.
AcceptedBoots ==
    record.expect # "" =>
        /\ record.expect = boot
        /\ slots[boot].whole /\ slots[boot].state = "new"

\* The boxes and tasks of the coprocessor's update.
OneUpdate == ~record.overlap => boxes + tasks <= 1 /\ (tasks > 0 => progress = 0)
C6Types ==
    /\ progress \in -2..0 /\ boxes \in Nat /\ tasks \in Nat /\ events \in Nat
    /\ boxes + tasks <= events /\ events <= MaxEvents

FwInv ==
    /\ FwTypes /\ RunningIsWhole /\ TrialIsAlone /\ WrittenIsWhole /\ AcceptedBoots
    /\ AcceptedUpdateRuns /\ OneUpdate /\ C6Types

-----------------------------------------------------------------------------
(* The inductive invariant of sessions, logins and services.               *)

Bit(c) == IF c THEN 1 ELSE 0
Reading(s) == Bit(srv[s].at = "form")
Minting(s) == Bit(srv[s].at \in {"form", "setup"})

Requesting == [at : {"idle", "form", "wrong", "setup", "token", "expired", "fresh"},
               b : Browsers, what : Handlers \cup {""}, since : 0..MaxDelay, n : Nat]
Remembered == [due : Nat, early : BOOLEAN, idle : Nat, wrong : BOOLEAN, mixed : BOOLEAN,
               rivals : BOOLEAN, tangled : BOOLEAN]
SessionTypes ==
    /\ password \in BOOLEAN
    /\ token \in Nat /\ minted \in Nat /\ token <= minted /\ cookie \in [Browsers -> 0..minted]
    /\ age \in 0..IdleLimit + 1 /\ fails \in Nat /\ block \in 0..MaxDelay
SrvTypes ==
    /\ SessionTypes
    /\ requests \in Nat /\ requests <= MaxRequests
    /\ srv \in [Servers -> Requesting] /\ ghost \in Remembered

Sides == {"old", "https", "touch"}
SaveTypes ==
    /\ stored \in [cred : Sides, enabled : Sides] /\ applied \in [cred : Sides, enabled : Sides]
    /\ saver \in [Savers -> [at : {"idle", "load", "save", "enable", "reload", "configure"}, cred : Sides]]

\* Every token and every failure is counted by a request of its own.
Counted ==
    /\ minted + Minting("https") + Minting("http") <= requests
    /\ fails + Reading("https") + Reading("http") <= requests
    /\ \A s, o \in Servers : srv[s].at = "wrong" /\ o # s => srv[s].n + Reading(o) <= requests

FormNeedsPassword == \A s \in Servers : srv[s].at = "form" => password

\* While logins did not overlap, at most one is under way, with no delay left,
\* and the block covers every delay that is.
OneLogin ==
    ~ghost.rivals => /\ ghost.due <= block
                     /\ \A s \in Servers : LoggingIn(s) => ghost.due = 0 /\ ~Rival(s)

\* The age of the session is the time since its last use.
AgeIsIdle == token # 0 /\ ~ghost.mixed => age = ghost.idle
JudgedToken == \A s \in Servers : srv[s].at = "token" => srv[s].n # 0

\* The credentials a client is about to get are the ones that are stored.
LoadedIsStored ==
    ~ghost.tangled => \A t \in Savers : saver[t].at = "configure" => saver[t].cred = stored.cred

AdminInv ==
    /\ SrvTypes /\ Counted /\ FormNeedsPassword /\ (token # 0 => password)
    /\ OneLogin /\ ThrottleHolds /\ AgeIsIdle /\ JudgedToken /\ SessionJudgedByUse
ServiceInv == SaveTypes /\ LoadedIsStored /\ AppliedIsStored

-----------------------------------------------------------------------------
(* Firmware.                                                               *)

LEMMA OtherFacts ==
  ASSUME NEW s \in SlotNames
  PROVE  /\ Other(s) \in SlotNames /\ Other(s) # s
         /\ \A o \in SlotNames : o = s \/ o = Other(s)
<1>1. \E o \in SlotNames : o # s
  BY DEF SlotNames
<1>2. Other(s) \in SlotNames /\ Other(s) # s
  BY <1>1 DEF Other
<1> QED
  BY <1>2 DEF SlotNames

\* What the invariant says of types, one by one.
LEMMA FwTypeFacts ==
  ASSUME FwInv
  PROVE  /\ slots \in [SlotNames -> [whole : BOOLEAN, healthy : BOOLEAN, state : OtaStates]]
         /\ boot \in SlotNames /\ running \in SlotNames
         /\ partition \in SlotNames /\ partition # running
         /\ \A s \in SlotNames : s = running \/ s = partition
         /\ upload \in [at : {"idle", "begin", "write", "end"}, healthy : BOOLEAN]
         /\ record \in [expect : SlotNames \cup {""}, wrong : BOOLEAN, overlap : BOOLEAN]
         /\ progress \in -2..0 /\ boxes \in Nat /\ tasks \in Nat /\ events \in Nat
BY OtherFacts DEF FwInv, FwTypes, C6Types, partition

LEMMA FwStart == FirmwareInit => FwInv
<1> SUFFICES ASSUME FirmwareInit PROVE FwInv
  OBVIOUS
<1>1. FwTypes
  BY DEF FirmwareInit, FwTypes, SlotNames, OtaStates, NoUpload
<1>2. slots["app0"].whole /\ slots["app0"].state = "valid" /\ running = "app0"
  BY DEF FirmwareInit, SlotNames
<1>3. record.expect = "" /\ ~record.wrong /\ upload.at = "idle"
  BY DEF FirmwareInit, NoUpload
<1>4. C6Types /\ OneUpdate
  <2>1. progress = -1 /\ boxes = 0 /\ tasks = 0 /\ events = 0
    BY DEF FirmwareInit
  <2> QED
    BY <2>1, FirmwareAssumption DEF C6Types, OneUpdate
<1> QED
  BY <1>1, <1>2, <1>3, <1>4
     DEF FwInv, RunningIsWhole, TrialIsAlone, WrittenIsWhole, AcceptedBoots, AcceptedUpdateRuns

\* The steps of an upload write the slot that does not run, and none of them is
\* taken while what runs is on trial but the first.
LEMMA UploadKeeps ==
  ASSUME FwInv, upload_start \/ UploadStep
  PROVE  FwInv'
<1> USE FwTypeFacts
<1>1. UNCHANGED <<running, boxes, progress, tasks, events>> /\ partition' = partition
  BY DEF upload_start, UploadStep, upload_refused, esp_ota_begin, upload_fails, esp_ota_end, set_boot_fails,
         accept_update, Accept, c6Vars, partition
<1>2. CASE upload_start \/ upload_refused \/ upload_fails \/ set_boot_fails
  <2>1. UNCHANGED <<slots, boot, record>>
    BY <1>2 DEF upload_start, upload_refused, upload_fails, set_boot_fails
  <2>2. upload' \in [at : {"idle", "begin", "write", "end"}, healthy : BOOLEAN] /\ upload'.at \in {"idle", "begin"}
    <3>1. upload' = NoUpload \/ \E h \in BOOLEAN : upload' = [at |-> "begin", healthy |-> h]
      BY <1>2 DEF upload_start, upload_refused, upload_fails, set_boot_fails, GiveUp
    <3>2. CASE upload' = NoUpload
      BY <3>2 DEF NoUpload
    <3>3. ASSUME NEW h \in BOOLEAN, upload' = [at |-> "begin", healthy |-> h]
          PROVE  /\ upload' \in [at : {"idle", "begin", "write", "end"}, healthy : BOOLEAN]
                 /\ upload'.at \in {"idle", "begin"}
      BY <3>3
    <3> QED
      BY <3>1, <3>2, <3>3
  <2> QED
    BY <1>1, <2>1, <2>2
       DEF FwInv, FwTypes, RunningIsWhole, TrialIsAlone, WrittenIsWhole, AcceptedBoots, AcceptedUpdateRuns,
           OneUpdate, C6Types
<1>3. CASE esp_ota_begin
  <2>1. /\ slots[running].state # "pending" /\ boot' = boot
        /\ upload' = [upload EXCEPT !.at = "write"]
        /\ slots' = [slots EXCEPT ![partition] = [slots[partition] EXCEPT !.whole = FALSE]]
        /\ record' = [record EXCEPT !.expect = ""]
    BY <1>3 DEF esp_ota_begin
  <2>2. slots' \in [SlotNames -> [whole : BOOLEAN, healthy : BOOLEAN, state : OtaStates]]
        /\ slots'[running] = slots[running]
    BY <2>1
  <2> QED
    BY <1>1, <2>1, <2>2
       DEF FwInv, FwTypes, RunningIsWhole, TrialIsAlone, WrittenIsWhole, AcceptedBoots, AcceptedUpdateRuns,
           OneUpdate, C6Types
<1>4. CASE esp_ota_end
  <2>1. /\ upload.at = "write" /\ boot' = boot /\ record' = record
        /\ upload' = [upload EXCEPT !.at = "end"]
        /\ slots' = [slots EXCEPT ![partition] = [slots[partition] EXCEPT !.whole = TRUE, !.healthy = upload.healthy]]
    BY <1>4 DEF esp_ota_end
  <2>2. /\ slots' \in [SlotNames -> [whole : BOOLEAN, healthy : BOOLEAN, state : OtaStates]]
        /\ slots'[running] = slots[running]
        /\ slots'[partition].whole /\ slots'[partition].state = slots[partition].state
    BY <2>1
  <2>3. slots[running].state # "pending"
    BY <2>1 DEF FwInv, TrialIsAlone
  <2> QED
    BY <1>1, <2>1, <2>2, <2>3
       DEF FwInv, FwTypes, RunningIsWhole, TrialIsAlone, WrittenIsWhole, AcceptedBoots, AcceptedUpdateRuns,
           OneUpdate, C6Types
<1>5. CASE accept_update
  <2>1. /\ upload.at = "end" /\ boot' = partition /\ record' = [record EXCEPT !.expect = partition]
        /\ upload' = NoUpload
        /\ slots' = [slots EXCEPT ![partition] = [slots[partition] EXCEPT !.state = "new"]]
    BY <1>5 DEF accept_update, Accept
  <2>2. /\ slots' \in [SlotNames -> [whole : BOOLEAN, healthy : BOOLEAN, state : OtaStates]]
        /\ slots'[running] = slots[running]
        /\ slots'[partition].whole = slots[partition].whole /\ slots'[partition].state = "new"
    BY <2>1 DEF OtaStates
  <2>3. slots[running].state # "pending" /\ slots[partition].whole
    BY <2>1 DEF FwInv, TrialIsAlone, WrittenIsWhole
  <2>4. upload' \in [at : {"idle", "begin", "write", "end"}, healthy : BOOLEAN] /\ upload'.at = "idle"
    BY <2>1 DEF NoUpload
  <2> QED
    BY <1>1, <2>1, <2>2, <2>3, <2>4
       DEF FwInv, FwTypes, RunningIsWhole, TrialIsAlone, WrittenIsWhole, AcceptedBoots, AcceptedUpdateRuns,
           OneUpdate, C6Types
<1> QED
  BY <1>2, <1>3, <1>4, <1>5 DEF UploadStep

LEMMA NoUpdate ==
  ASSUME events \in Nat, progress' = -1, boxes' = 0, tasks' = 0,
         events' \in {events, events + 1}, events' <= MaxEvents
  PROVE  OneUpdate' /\ C6Types'
BY DEF OneUpdate, C6Types

\* The boot loader never picks an incomplete slot: the boot partition, when it
\* is complete and was not tried in vain, or else the one to go back to.
LEMMA RebootKeeps ==
  ASSUME FwInv, Reboot, events' \in {events, events + 1}, events' <= MaxEvents
  PROVE  FwInv'
<1> USE FwTypeFacts
<1>1. /\ slots' = [s \in SlotNames |-> [slots[s] EXCEPT !.state = Tried(s)]]
      /\ boot' = Pick /\ running' = Pick /\ upload' = NoUpload
      /\ boxes' = 0 /\ progress' = -1 /\ tasks' = 0
      /\ record' = [expect |-> "", wrong |-> record.wrong \/ record.expect \notin {"", Pick}, overlap |-> FALSE]
  BY DEF Reboot
<1>2. \A s \in SlotNames : Tried(s) \in OtaStates
  BY DEF Tried, OtaStates
<1>3. /\ slots' \in [SlotNames -> [whole : BOOLEAN, healthy : BOOLEAN, state : OtaStates]]
      /\ \A s \in SlotNames : slots'[s].whole = slots[s].whole /\ slots'[s].state = Tried(s)
  BY <1>1, <1>2
<1>4. record.expect \in {"", Pick}
  BY DEF FwInv, AcceptedBoots, Pick
<1>5. Pick \in SlotNames /\ Other(Pick) \in SlotNames /\ Other(Pick) # Pick
  BY OtherFacts DEF Pick
<1>6. FwTypes' /\ upload'.at = "idle" /\ ~record'.overlap /\ record'.expect = "" /\ ~record'.wrong
  <2>1. ~record.wrong
    BY DEF FwInv, AcceptedUpdateRuns
  <2>2. record' = [expect |-> "", wrong |-> FALSE, overlap |-> FALSE]
    BY <1>1, <1>4, <2>1
  <2>3. /\ record' \in [expect : SlotNames \cup {""}, wrong : BOOLEAN, overlap : BOOLEAN]
        /\ ~record'.overlap /\ record'.expect = "" /\ ~record'.wrong
    BY <2>2
  <2>4. upload' = [at |-> "idle", healthy |-> FALSE]
    BY <1>1 DEF NoUpload
  <2>5. upload' \in [at : {"idle", "begin", "write", "end"}, healthy : BOOLEAN] /\ upload'.at = "idle"
    BY <2>4
  <2> QED
    BY <1>1, <1>3, <1>5, <2>3, <2>5 DEF FwTypes
<1>7. WrittenIsWhole' /\ AcceptedBoots' /\ AcceptedUpdateRuns' /\ OneUpdate' /\ C6Types'
  <2>1. WrittenIsWhole' /\ AcceptedBoots' /\ AcceptedUpdateRuns'
    BY <1>6 DEF WrittenIsWhole, AcceptedBoots, AcceptedUpdateRuns
  <2>2. OneUpdate' /\ C6Types'
    BY <1>1, NoUpdate
  <2> QED
    BY <2>1, <2>2
<1>8. CASE slots[running].state = "pending"
  <2>1. /\ slots[partition].whole /\ slots[partition].state = "valid" /\ boot = running
    BY <1>8 DEF FwInv, TrialIsAlone
  <2>2. Pick = partition
    BY <1>8, <2>1 DEF Pick, partition
  <2>3. slots'[Pick].whole /\ slots'[Pick].state = "valid"
    BY <1>3, <2>1, <2>2 DEF Tried
  <2> QED
    BY <1>1, <1>6, <1>7, <2>3 DEF FwInv, RunningIsWhole, TrialIsAlone, partition
<1>9. CASE slots[running].state = "valid"
  <2>1. slots[running].whole
    BY DEF FwInv, RunningIsWhole
  <2>2. CASE Pick = running
    <3>1. slots'[Pick].whole /\ slots'[Pick].state = "valid"
      BY <1>3, <1>9, <2>1, <2>2 DEF Tried
    <3> QED
      BY <1>1, <1>6, <1>7, <3>1 DEF FwInv, RunningIsWhole, TrialIsAlone, partition
  <2>3. CASE Pick # running
    <3>1. Pick = boot /\ slots[boot].whole /\ slots[boot].state \in {"new", "valid"}
      BY <1>9, <2>1, <2>3, OtherFacts DEF Pick
    <3>2. slots'[Pick].whole /\ slots'[Pick].state \in {"pending", "valid"}
      BY <1>3, <3>1 DEF Tried
    <3>3. Other(Pick) = running
      BY <1>5, <2>3, OtherFacts
    <3>4. slots'[Other(Pick)].whole /\ slots'[Other(Pick)].state = "valid"
      BY <1>3, <1>9, <2>1, <3>3 DEF Tried
    <3> QED
      BY <1>1, <1>6, <1>7, <3>2, <3>4 DEF FwInv, RunningIsWhole, TrialIsAlone, partition
  <2> QED
    BY <2>2, <2>3
<1> QED
  BY <1>8, <1>9 DEF FwInv, RunningIsWhole

LEMMA ValidationKeeps ==
  ASSUME FwInv, Validation
  PROVE  FwInv'
<1> USE FwTypeFacts
<1>1. UNCHANGED <<boot, running, upload, boxes, progress, tasks, events, record>> /\ partition' = partition
  BY DEF Validation, mark_app_valid, nothing_to_validate, c6Vars, partition
<1>2. CASE mark_app_valid
  <2>1. /\ slots[running].state = "pending"
        /\ slots' = [slots EXCEPT ![running] = [slots[running] EXCEPT !.state = "valid"]]
    BY <1>2 DEF mark_app_valid
  <2>2. /\ slots' \in [SlotNames -> [whole : BOOLEAN, healthy : BOOLEAN, state : OtaStates]]
        /\ slots'[running].whole = slots[running].whole /\ slots'[running].state = "valid"
        /\ slots'[partition] = slots[partition]
    BY <2>1 DEF OtaStates
  <2>3. record.expect = ""
    BY <2>1 DEF FwInv, TrialIsAlone, AcceptedBoots
  <2> QED
    BY <1>1, <2>1, <2>2, <2>3
       DEF FwInv, FwTypes, RunningIsWhole, TrialIsAlone, WrittenIsWhole, AcceptedBoots, AcceptedUpdateRuns,
           OneUpdate, C6Types
<1>3. CASE nothing_to_validate
  <2>1. slots' = slots
    BY <1>3 DEF nothing_to_validate
  <2> QED
    BY <1>1, <2>1
       DEF FwInv, FwTypes, RunningIsWhole, TrialIsAlone, WrittenIsWhole, AcceptedBoots, AcceptedUpdateRuns,
           OneUpdate, C6Types
<1> QED
  BY <1>2, <1>3 DEF Validation

\* At most one box or task of the coprocessor's update, while boxes do not pile up.
LEMMA OneUpdateKept ==
  ASSUME FwTypes, OneUpdate, C6Types, Coprocessor
  PROVE  OneUpdate' /\ C6Types'
<1> USE DEF OneUpdate, C6Types
<1>1. CASE on_c6_ota_btn
  <2>1. /\ progress < 0 /\ events < MaxEvents /\ events' = events + 1 /\ boxes' = boxes + 1
        /\ progress' = progress /\ tasks' = tasks
        /\ ~record'.overlap => ~record.overlap /\ ~(boxes > 0)
    BY <1>1 DEF on_c6_ota_btn, FwTypes
  <2>2. C6Types'
    BY <2>1, FirmwareAssumption
  <2>3. OneUpdate'
    BY <2>1
  <2> QED
    BY <2>2, <2>3
<1>2. CASE on_c6_ota_confirm
  <2>1. /\ boxes > 0 /\ boxes' = boxes - 1 /\ events' = events /\ record' = record
        /\ \/ progress' = 0 /\ tasks' = tasks + 1
           \/ progress' = progress /\ tasks' = tasks
    BY <1>2 DEF on_c6_ota_confirm
  <2>2. C6Types'
    BY <2>1
  <2>3. OneUpdate'
    BY <2>1
  <2> QED
    BY <2>2, <2>3
<1>3. CASE c6_ota_write
  BY <1>3 DEF c6_ota_write
<1>4. CASE c6_ota_fails
  <2>1. /\ tasks > 0 /\ tasks' = tasks - 1 /\ progress' = -2 /\ boxes' = boxes
        /\ events' = events /\ record' = record
    BY <1>4 DEF c6_ota_fails
  <2>2. C6Types'
    BY <2>1
  <2>3. OneUpdate'
    BY <2>1
  <2> QED
    BY <2>2, <2>3
<1> QED
  BY <1>1, <1>2, <1>3, <1>4 DEF Coprocessor

LEMMA CoprocessorKeeps ==
  ASSUME FwInv, Coprocessor
  PROVE  FwInv'
<1> USE FwTypeFacts
<1>1. UNCHANGED <<slots, boot, running, upload>> /\ partition' = partition
  BY DEF Coprocessor, on_c6_ota_btn, on_c6_ota_confirm, c6_ota_write, c6_ota_fails, otaVars, partition
<1>2. /\ record' \in [expect : SlotNames \cup {""}, wrong : BOOLEAN, overlap : BOOLEAN]
      /\ record'.expect = record.expect /\ record'.wrong = record.wrong
      /\ record'.overlap = record.overlap \/ (on_c6_ota_btn /\ record'.overlap = (record.overlap \/ boxes > 0))
  BY DEF Coprocessor, on_c6_ota_btn, on_c6_ota_confirm, c6_ota_write, c6_ota_fails
<1>3. OneUpdate' /\ C6Types'
  BY OneUpdateKept DEF FwInv
<1> QED
  BY <1>1, <1>2, <1>3
     DEF FwInv, FwTypes, RunningIsWhole, TrialIsAlone, WrittenIsWhole, AcceptedBoots, AcceptedUpdateRuns

-----------------------------------------------------------------------------
(* Sessions and logins.                                                    *)

LEMMA IdleFacts == Idle \in Requesting /\ Idle.at = "idle" /\ Idle.n = 0
<1>1. (CHOOSE b \in Browsers : TRUE) \in Browsers
  BY WebAdminAssumption
<1>2. 0 \in 0..MaxDelay
  BY WebAdminAssumption
<1> QED
  BY <1>1, <1>2 DEF Idle, Requesting

\* A server takes a step of its own request.
LEMMA SrvFacts ==
  ASSUME SrvTypes, NEW s \in Servers, NEW r \in Requesting, srv' = [srv EXCEPT ![s] = r]
  PROVE  /\ srv' \in [Servers -> Requesting] /\ srv'[s] = r
         /\ \A o \in Servers : o # s => srv'[o] = srv[o]
BY DEF SrvTypes

\* A step of server s adds to the counts no more than it takes off its own bits.
CountStep(s) ==
    /\ \A o \in Servers : o # s => srv'[o] = srv[o]
    /\ minted' + Bit(srv'[s].at \in {"form", "setup"}) + requests
           <= minted + Bit(srv[s].at \in {"form", "setup"}) + requests'
    /\ \/ fails' + Bit(srv'[s].at = "form") + requests <= fails + Bit(srv[s].at = "form") + requests'
       \/ srv[s].at = "wrong" /\ srv'[s].at = "idle" /\ fails' = srv[s].n /\ requests' = requests
    /\ Bit(srv'[s].at = "form") + requests <= Bit(srv[s].at = "form") + requests'
    /\ srv'[s].at = "wrong" => srv'[s].n + requests <= fails + Bit(srv[s].at = "form") + requests'

LEMMA CountKept ==
  ASSUME SrvTypes, SrvTypes', Counted, NEW s \in Servers, CountStep(s)
  PROVE  Counted'
<1> USE DEF CountStep
<1>0. /\ Minting(s) = Bit(srv[s].at \in {"form", "setup"}) /\ Reading(s) = Bit(srv[s].at = "form")
      /\ Minting(s)' = Bit(srv'[s].at \in {"form", "setup"}) /\ Reading(s)' = Bit(srv'[s].at = "form")
  BY DEF Minting, Reading
<1> DEFINE o == IF s = "https" THEN "http" ELSE "https"
<1>1. o \in Servers /\ o # s /\ \A t \in Servers : t = s \/ t = o
  BY DEF Servers
<1>2. Reading(o)' = Reading(o) /\ Minting(o)' = Minting(o) /\ srv'[o] = srv[o]
  BY <1>1 DEF Reading, Minting
<1>3. \A t \in Servers : Reading(t) \in {0, 1} /\ Minting(t) \in {0, 1} /\ Reading(t)' \in {0, 1} /\ Minting(t)' \in {0, 1}
  BY DEF Reading, Minting, Bit
<1>4. /\ minted + Minting(s) + Minting(o) <= requests
      /\ fails + Reading(s) + Reading(o) <= requests
  BY <1>1, <1>3 DEF Counted, Servers, SrvTypes, SessionTypes
<1>5. /\ minted \in Nat /\ fails \in Nat /\ requests \in Nat /\ minted' \in Nat /\ fails' \in Nat /\ requests' \in Nat
      /\ \A t \in Servers : srv[t].n \in Nat /\ srv'[t].n \in Nat
  BY DEF SrvTypes, SessionTypes, Requesting
<1>6. srv[s].at = "wrong" => srv[s].n + Reading(o) <= requests
  BY <1>1 DEF Counted
<1>7. srv[o].at = "wrong" => srv[o].n + Reading(s) <= requests
  BY <1>1 DEF Counted
<1>8. srv'[s].at = "idle" => Reading(s)' = 0
  BY DEF Reading, Bit
<1> HIDE DEF o
<1>9. minted' + Minting(s)' + Minting(o)' <= requests'
  BY <1>0, <1>1, <1>2, <1>3, <1>4, <1>5
<1>10. fails' + Reading(s)' + Reading(o)' <= requests'
  BY <1>0, <1>1, <1>2, <1>3, <1>4, <1>5, <1>6, <1>8
<1>11. srv'[s].at = "wrong" => srv'[s].n + Reading(o)' <= requests'
  BY <1>0, <1>1, <1>2, <1>3, <1>4, <1>5
<1>12. srv'[o].at = "wrong" => srv'[o].n + Reading(s)' <= requests'
  BY <1>0, <1>1, <1>2, <1>3, <1>5, <1>7
<1>13. /\ minted' + Minting("https")' + Minting("http")' <= requests'
       /\ fails' + Reading("https")' + Reading("http")' <= requests'
  BY <1>1, <1>3, <1>5, <1>9, <1>10 DEF Servers
<1>14. \A t, u \in Servers : srv'[t].at = "wrong" /\ u # t => srv'[t].n + Reading(u)' <= requests'
  BY <1>1, <1>11, <1>12
<1> QED
  BY <1>13, <1>14 DEF Counted

LEMMA DelayFacts ==
  ASSUME NEW n \in Nat, n > FreeFails, NEW k \in Nat
  PROVE  Less(delay(n), k) \in 0..MaxDelay
<1>1. (n - FreeFails) * BaseDelay \in Nat
  BY WebAdminAssumption
<1>2. delay(n) \in 0..MaxDelay
  BY <1>1, WebAdminAssumption DEF delay
<1> QED
  BY <1>2, WebAdminAssumption DEF Less

\* What the invariant says of types, one by one.
LEMMA AdminTypeFacts ==
  ASSUME AdminInv
  PROVE  /\ SrvTypes /\ SessionTypes
         /\ password \in BOOLEAN /\ token \in Nat /\ minted \in Nat /\ token <= minted
         /\ age \in 0..IdleLimit + 1 /\ fails \in Nat /\ block \in 0..MaxDelay
         /\ requests \in Nat /\ requests <= MaxRequests /\ ghost \in Remembered
         /\ \A s \in Servers : srv[s] \in Requesting
BY DEF AdminInv, SrvTypes, SessionTypes

\* A request that begins.
LEMMA AskedFacts ==
  ASSUME NEW b \in Browsers, NEW at \in {"form", "setup", "token"}, NEW what \in Handlers, NEW n \in Nat,
         NEW r, r \in {[Idle EXCEPT !.at = at, !.b = b],
                       [Idle EXCEPT !.at = at, !.b = b, !.what = what, !.n = n]}
  PROVE  r \in Requesting /\ r.at = at
BY IdleFacts DEF Requesting

\* Its server was idle.
LEMMA Begins ==
  ASSUME AdminInv, NEW s \in Servers, Ask(s), NEW b \in Browsers, NEW at \in {"form", "setup", "token"},
         NEW r \in Requesting, r.at = at, srv' = [srv EXCEPT ![s] = r],
         UNCHANGED session, ghost' \in Remembered
  PROVE  /\ SrvTypes' /\ Counted'
         /\ srv[s].at = "idle" /\ srv'[s] = r
         /\ \A o \in Servers : o # s => srv'[o] = srv[o]
         /\ password' = password /\ token' = token /\ age' = age /\ block' = block
<1>1. srv' \in [Servers -> Requesting] /\ srv'[s] = r /\ \A o \in Servers : o # s => srv'[o] = srv[o]
  BY SrvFacts, AdminTypeFacts
<1>2. /\ srv[s].at = "idle" /\ requests < MaxRequests /\ requests' = requests + 1
      /\ UNCHANGED <<password, token, minted, age, fails, block, cookie>>
  BY DEF Ask, Free, session
<1>3. SessionTypes'
  BY <1>2, AdminTypeFacts DEF SessionTypes
<1>4. minted \in Nat /\ fails \in Nat /\ requests \in Nat /\ requests' \in Nat /\ requests' <= MaxRequests
  BY <1>2, AdminTypeFacts, WebAdminAssumption
<1>5. SrvTypes'
  BY <1>1, <1>3, <1>4 DEF SrvTypes
<1>6. /\ Bit(srv[s].at \in {"form", "setup"}) = 0 /\ Bit(srv[s].at = "form") = 0
      /\ Bit(srv'[s].at \in {"form", "setup"}) \in {0, 1} /\ Bit(srv'[s].at = "form") \in {0, 1}
  BY <1>2 DEF Bit
<1>7. /\ minted' + Bit(srv'[s].at \in {"form", "setup"}) + requests
             <= minted + Bit(srv[s].at \in {"form", "setup"}) + requests'
      /\ fails' + Bit(srv'[s].at = "form") + requests <= fails + Bit(srv[s].at = "form") + requests'
      /\ Bit(srv'[s].at = "form") + requests <= Bit(srv[s].at = "form") + requests'
  BY <1>2, <1>4, <1>6
<1>8. srv'[s].at # "wrong"
  BY <1>1
<1>9. Counted'
  <2>1. SrvTypes /\ Counted
    BY AdminTypeFacts DEF AdminInv
  <2>2. CountStep(s)
    BY <1>1, <1>7, <1>8 DEF CountStep
  <2> QED
    BY <1>5, <2>1, <2>2, CountKept
<1> QED
  BY <1>1, <1>2, <1>5, <1>9

LEMMA LoginPostKeeps ==
  ASSUME AdminInv, NEW s \in Servers, NEW b \in Browsers, login_post(s, b)
  PROVE  AdminInv'
<1>0. PICK r : r = [Idle EXCEPT !.at = "form", !.b = b]
  OBVIOUS
<1>1. /\ Ask(s) /\ password /\ block = 0 /\ UNCHANGED session
      /\ srv' = [srv EXCEPT ![s] = r] /\ r \in Requesting /\ r.at = "form"
  <2>1. /\ Ask(s) /\ password /\ block = 0 /\ UNCHANGED session
        /\ srv' = [srv EXCEPT ![s] = r]
    BY <1>0 DEF login_post
  <2>2. "page" \in Handlers /\ 0 \in Nat
    BY DEF Handlers
  <2>3. r \in Requesting /\ r.at = "form"
    BY <1>0, <2>2, AskedFacts
  <2> QED
    BY <2>1, <2>3
<1>2. /\ ghost' \in Remembered
      /\ ghost'.due = ghost.due /\ ghost'.idle = ghost.idle /\ ghost'.wrong = ghost.wrong
      /\ ghost'.mixed = ghost.mixed
      /\ ghost'.rivals = (ghost.rivals \/ Rival(s))
      /\ ghost'.early = (ghost.early \/ (ghost.due > 0 /\ ~ghost.rivals))
  BY AdminTypeFacts DEF login_post, Remembered
<1>3. /\ SrvTypes' /\ Counted'
      /\ srv[s].at = "idle" /\ srv'[s].at = "form"
      /\ \A o \in Servers : o # s => srv'[o] = srv[o]
      /\ password' = password /\ token' = token /\ age' = age /\ block' = block
  BY <1>1, <1>2, Begins
<1>4. ghost.due \in Nat
  BY AdminTypeFacts DEF Remembered
<1>5. ~ghost.rivals => ghost.due = 0
  BY <1>1, <1>4 DEF AdminInv, OneLogin
<1>6. OneLogin'
  <2> SUFFICES ASSUME ~ghost'.rivals
               PROVE  /\ ghost'.due <= block'
                      /\ \A t \in Servers : LoggingIn(t)' => ghost'.due = 0 /\ ~Rival(t)'
    BY DEF OneLogin
  <2>1. ~ghost.rivals /\ \A o \in Servers : o # s => ~LoggingIn(o)
    BY <1>2 DEF Rival
  <2>2. \A o \in Servers : o # s => ~LoggingIn(o)'
    BY <1>3, <2>1 DEF LoggingIn
  <2>3. \A t \in Servers : LoggingIn(t)' => ~Rival(t)'
    BY <2>2 DEF Rival
  <2> QED
    BY <1>1, <1>2, <1>3, <1>5, <2>1, <2>3
<1>7. ThrottleHolds'
  <2>1. ~(ghost.due > 0 /\ ~ghost.rivals)
    BY <1>5
  <2> QED
    BY <1>2, <2>1, Zenon DEF AdminInv, ThrottleHolds
<1> QED
  BY <1>1, <1>2, <1>3, <1>6, <1>7
     DEF AdminInv, FormNeedsPassword, AgeIsIdle, JudgedToken, SessionJudgedByUse

\* Requests that are not logins.
LEMMA OtherRequestKeeps ==
  ASSUME AdminInv, NEW s \in Servers, NEW b \in Browsers,
         setup_post(s, b) \/ \E what \in Handlers : authorize(s, b, what)
  PROVE  AdminInv'
<1>1. /\ Ask(s) /\ UNCHANGED session /\ ghost' = ghost
      /\ \E r \in Requesting : /\ srv' = [srv EXCEPT ![s] = r]
                               /\ r.at \in {"setup", "token"} /\ (r.at = "token" => r.n # 0)
  <2>1. CASE setup_post(s, b)
    <3>1. PICK r : r = [Idle EXCEPT !.at = "setup", !.b = b]
      OBVIOUS
    <3>2. Ask(s) /\ UNCHANGED session /\ ghost' = ghost /\ srv' = [srv EXCEPT ![s] = r]
      BY <2>1, <3>1 DEF setup_post
    <3>3. "page" \in Handlers /\ 0 \in Nat
      BY DEF Handlers
    <3>4. r \in Requesting /\ r.at = "setup"
      BY <3>1, <3>3, AskedFacts
    <3> QED
      BY <3>2, <3>4
  <2>2. ASSUME NEW what \in Handlers, authorize(s, b, what)
        PROVE  /\ Ask(s) /\ UNCHANGED session /\ ghost' = ghost
               /\ \E r \in Requesting : /\ srv' = [srv EXCEPT ![s] = r]
                                        /\ r.at \in {"setup", "token"} /\ (r.at = "token" => r.n # 0)
    <3>1. PICK r : r = [Idle EXCEPT !.at = "token", !.b = b, !.what = what, !.n = token]
      OBVIOUS
    <3>2. /\ Ask(s) /\ UNCHANGED session /\ ghost' = ghost /\ srv' = [srv EXCEPT ![s] = r]
          /\ token \in Nat /\ token # 0
      BY <2>2, <3>1, AdminTypeFacts DEF authorize
    <3>3. r \in Requesting /\ r.at = "token" /\ r.n = token
      BY <3>1, <3>2, IdleFacts DEF Requesting
    <3> QED
      BY <3>2, <3>3
  <2> QED
    BY <2>1, <2>2
<1>2. PICK r \in Requesting : /\ srv' = [srv EXCEPT ![s] = r]
                              /\ r.at \in {"setup", "token"} /\ (r.at = "token" => r.n # 0)
  BY <1>1
<1>3. /\ SrvTypes' /\ Counted'
      /\ srv[s].at = "idle" /\ srv'[s] = r
      /\ \A o \in Servers : o # s => srv'[o] = srv[o]
      /\ password' = password /\ token' = token /\ age' = age /\ block' = block
  BY <1>1, <1>2, Begins, AdminTypeFacts
<1>4. OneLogin'
  <2>1. \A o \in Servers : LoggingIn(o)' = LoggingIn(o)
    <3>1. ~LoggingIn(s) /\ ~LoggingIn(s)'
      BY <1>2, <1>3 DEF LoggingIn
    <3> QED
      BY <1>3, <3>1 DEF LoggingIn
  <2> QED
    BY <1>1, <1>3, <2>1 DEF AdminInv, OneLogin, Rival
<1> QED
  BY <1>1, <1>2, <1>3, <1>4
     DEF AdminInv, FormNeedsPassword, ThrottleHolds, AgeIsIdle, JudgedToken, SessionJudgedByUse

\* A request ends, or goes on: logins do not start, and do not end on another
\* server.
LEMMA LoginsEnd ==
  ASSUME NEW s \in Servers, NEW r \in Requesting, srv'[s] = r,
         \A o \in Servers : o # s => srv'[o] = srv[o],
         r.at \in {"form", "wrong"} => LoggingIn(s)
  PROVE  /\ \A t \in Servers : LoggingIn(t)' => LoggingIn(t)
         /\ \A t \in Servers : Rival(t)' => Rival(t)
<1>1. \A t \in Servers : LoggingIn(t)' => LoggingIn(t)
  BY DEF LoggingIn
<1> QED
  BY <1>1 DEF Rival

LEMMA MintKeeps ==
  ASSUME AdminInv, NEW s \in Servers, srv[s].at \in {"form", "setup"}, Done(s),
         start_session_cookie(srv[s].b), password' = TRUE, requests' = requests,
         ghost' = [ghost EXCEPT !.due = 0, !.idle = 0, !.mixed = FALSE]
  PROVE  AdminInv'
<1>1. /\ srv' \in [Servers -> Requesting] /\ srv'[s] = Idle
      /\ \A o \in Servers : o # s => srv'[o] = srv[o]
  BY SrvFacts, IdleFacts, AdminTypeFacts DEF Done
<1>2. srv[s].b \in Browsers
  BY AdminTypeFacts DEF Requesting
<1>3. /\ minted' = minted + 1 /\ token' = minted + 1 /\ cookie' = [cookie EXCEPT ![srv[s].b] = minted + 1]
      /\ age' = 0 /\ fails' = 0 /\ block' = 0
  BY DEF start_session_cookie
<1>4. SessionTypes'
  <2>1. cookie \in [Browsers -> 0..minted] /\ minted \in Nat
    BY AdminTypeFacts DEF SessionTypes
  <2>2. cookie' \in [Browsers -> 0..minted + 1]
    BY <1>2, <1>3, <2>1
  <2> QED
    BY <1>3, <2>1, <2>2, WebAdminAssumption DEF SessionTypes
<1>5. /\ ghost' \in Remembered /\ ghost'.due = 0 /\ ghost'.idle = 0 /\ ghost'.early = ghost.early
      /\ ghost'.wrong = ghost.wrong /\ ghost'.rivals = ghost.rivals
  BY AdminTypeFacts DEF Remembered
<1>6. SrvTypes'
  BY <1>1, <1>4, <1>5, AdminTypeFacts DEF SrvTypes
<1>7. Counted'
  <2>1. /\ Bit(srv'[s].at \in {"form", "setup"}) = 0 /\ Bit(srv[s].at \in {"form", "setup"}) = 1
        /\ Bit(srv'[s].at = "form") = 0 /\ Bit(srv[s].at = "form") \in {0, 1}
    BY <1>1, IdleFacts DEF Bit
  <2>2. CountStep(s)
    BY <1>1, <1>3, <2>1, IdleFacts, AdminTypeFacts DEF CountStep
  <2> QED
    BY <1>6, <2>2, CountKept, AdminTypeFacts DEF AdminInv
<1>8. OneLogin'
  <2>1. \A t \in Servers : (LoggingIn(t)' => LoggingIn(t)) /\ (Rival(t)' => Rival(t))
    BY <1>1, IdleFacts, LoginsEnd
  <2> QED
    BY <1>3, <1>5, <2>1 DEF AdminInv, OneLogin
<1>9. AgeIsIdle' /\ JudgedToken' /\ FormNeedsPassword'
  BY <1>1, <1>3, <1>5, IdleFacts DEF AdminInv, AgeIsIdle, JudgedToken, FormNeedsPassword
<1> QED
  BY <1>5, <1>6, <1>7, <1>8, <1>9 DEF AdminInv, ThrottleHolds, SessionJudgedByUse

\* Wrong passwords.
LEMMA LoginWrongKeeps ==
  ASSUME AdminInv, NEW s \in Servers, login_wrong(s)
  PROVE  AdminInv'
<1>1. /\ srv[s].at = "form" /\ UNCHANGED <<password, token, minted, age, fails, block, cookie, requests, ghost>>
      /\ srv' = [srv EXCEPT ![s] = [srv[s] EXCEPT !.at = "wrong", !.n = fails + 1]]
  BY DEF login_wrong, session
<1>2. PICK r : r = [srv[s] EXCEPT !.at = "wrong", !.n = fails + 1]
  OBVIOUS
<1>3. r \in Requesting /\ r.at = "wrong" /\ r.n = fails + 1
  <2>1. srv[s] \in Requesting /\ fails + 1 \in Nat
    BY AdminTypeFacts
  <2>2. r.at = "wrong" /\ r.n = fails + 1
    BY <1>2, <2>1 DEF Requesting
  <2>3. r \in Requesting
    BY <1>2, <2>1 DEF Requesting
  <2> QED
    BY <2>2, <2>3
<1>4. srv' \in [Servers -> Requesting] /\ srv'[s] = r /\ \A o \in Servers : o # s => srv'[o] = srv[o]
  BY <1>1, <1>2, <1>3, SrvFacts, AdminTypeFacts
<1>5. SrvTypes'
  BY <1>1, <1>4, AdminTypeFacts DEF SrvTypes, SessionTypes
<1>6. Counted'
  <2>1. /\ Bit(srv'[s].at \in {"form", "setup"}) = 0 /\ Bit(srv[s].at \in {"form", "setup"}) = 1
        /\ Bit(srv'[s].at = "form") = 0 /\ Bit(srv[s].at = "form") = 1
    BY <1>1, <1>3, <1>4 DEF Bit
  <2>2. CountStep(s)
    BY <1>1, <1>3, <1>4, <2>1, AdminTypeFacts DEF CountStep
  <2> QED
    BY <1>5, <2>2, CountKept, AdminTypeFacts DEF AdminInv
<1>7. OneLogin'
  <2>1. LoggingIn(s)
    BY <1>1 DEF LoggingIn
  <2>2. \A t \in Servers : (LoggingIn(t)' => LoggingIn(t)) /\ (Rival(t)' => Rival(t))
    BY <1>3, <1>4, <2>1, LoginsEnd
  <2> QED
    BY <1>1, <2>2 DEF AdminInv, OneLogin
<1> QED
  BY <1>1, <1>3, <1>4, <1>5, <1>6, <1>7
     DEF AdminInv, FormNeedsPassword, ThrottleHolds, AgeIsIdle, JudgedToken, SessionJudgedByUse

\* The only login under way sets the block to the delay that is due.
LEMMA LoginFailedKeeps ==
  ASSUME AdminInv, NEW s \in Servers, login_failed(s)
  PROVE  AdminInv'
<1> DEFINE n == srv[s].n
           until == Less(delay(n), srv[s].since)
<1>1. /\ srv[s].at = "wrong" /\ Done(s) /\ fails' = n
      /\ UNCHANGED <<password, token, minted, age, cookie, requests>>
      /\ block' = IF n > FreeFails THEN until ELSE block
      /\ ghost' = [ghost EXCEPT !.due = IF n > FreeFails THEN Larger(ghost.due, until) ELSE ghost.due]
  BY DEF login_failed
<1>2. n \in Nat /\ srv[s].since \in 0..MaxDelay
  BY AdminTypeFacts DEF Requesting
<1>3. n > FreeFails => until \in 0..MaxDelay
  <2>1. srv[s].since \in Nat
    BY <1>2, WebAdminAssumption
  <2> HIDE DEF n
  <2>2. ASSUME NEW k \in Nat, k = srv[s].since, n > FreeFails PROVE Less(delay(n), k) \in 0..MaxDelay
    BY <1>2, <2>2, DelayFacts
  <2> QED
    BY <2>1, <2>2
<1> HIDE DEF n, until
<1>4. /\ srv' \in [Servers -> Requesting] /\ srv'[s] = Idle
      /\ \A o \in Servers : o # s => srv'[o] = srv[o]
  BY <1>1, SrvFacts, IdleFacts, AdminTypeFacts DEF Done
<1>5. ghost.due \in Nat /\ block \in 0..MaxDelay
  BY AdminTypeFacts DEF Remembered
<1>6. block' \in 0..MaxDelay
  BY <1>1, <1>3, <1>5
<1>7. /\ ghost'.due = (IF n > FreeFails THEN Larger(ghost.due, until) ELSE ghost.due) /\ ghost'.due \in Nat
  BY <1>1, <1>3, <1>5, WebAdminAssumption, AdminTypeFacts DEF Remembered, Larger
<1>8. /\ ghost' \in Remembered
      /\ ghost'.early = ghost.early /\ ghost'.wrong = ghost.wrong /\ ghost'.rivals = ghost.rivals
      /\ ghost'.idle = ghost.idle /\ ghost'.mixed = ghost.mixed
  BY <1>1, <1>7, AdminTypeFacts DEF Remembered
<1>9. SrvTypes'
  <2>1. SessionTypes'
    BY <1>1, <1>2, <1>6, AdminTypeFacts DEF SessionTypes
  <2> QED
    BY <1>1, <1>4, <1>8, <2>1, AdminTypeFacts DEF SrvTypes
<1>10. Counted'
  <2>1. /\ Bit(srv'[s].at \in {"form", "setup"}) = 0 /\ Bit(srv[s].at \in {"form", "setup"}) = 0
        /\ Bit(srv'[s].at = "form") = 0 /\ Bit(srv[s].at = "form") = 0
    BY <1>1, <1>4, IdleFacts DEF Bit
  <2>2. CountStep(s)
    BY <1>1, <1>4, <2>1, IdleFacts, AdminTypeFacts DEF CountStep, n
  <2> QED
    BY <1>9, <2>2, CountKept, AdminTypeFacts DEF AdminInv
<1>11. OneLogin'
  <2> SUFFICES ASSUME ~ghost'.rivals
               PROVE  /\ ghost'.due <= block'
                      /\ \A t \in Servers : LoggingIn(t)' => ghost'.due = 0 /\ ~Rival(t)'
    BY DEF OneLogin
  <2>1. LoggingIn(s)
    BY <1>1 DEF LoggingIn
  <2>2. ghost.due = 0 /\ ~Rival(s)
    BY <1>8, <2>1 DEF AdminInv, OneLogin
  <2>3. \A t \in Servers : ~LoggingIn(t)'
    BY <1>4, <2>2, IdleFacts DEF LoggingIn, Rival
  <2>4. ghost'.due <= block'
    BY <1>1, <1>3, <1>5, <1>7, <2>2, WebAdminAssumption DEF Larger
  <2> QED
    BY <2>3, <2>4
<1>12. AgeIsIdle' /\ JudgedToken' /\ FormNeedsPassword'
  BY <1>1, <1>4, <1>8, IdleFacts DEF AdminInv, AgeIsIdle, JudgedToken, FormNeedsPassword
<1> QED
  BY <1>1, <1>8, <1>9, <1>10, <1>11, <1>12 DEF AdminInv, ThrottleHolds, SessionJudgedByUse

\* A request goes on or ends without a login: what a session is judged by, and
\* whom the throttle counts, change only as its step says.
LEMMA GoesOn ==
  ASSUME AdminInv, NEW s \in Servers, NEW r \in Requesting, srv' = [srv EXCEPT ![s] = r],
         r.at \notin {"form", "wrong", "setup"},
         UNCHANGED <<minted, fails, block, cookie, requests>>,
         password' = password, token' \in {token, 0}, age' \in 0..IdleLimit + 1,
         ghost' \in Remembered, ghost'.due = ghost.due, ghost'.early = ghost.early, ~ghost'.wrong,
         ghost'.rivals = ghost.rivals,
         token' # 0 /\ ~ghost'.mixed => age' = ghost'.idle,
         r.at = "token" => r.n # 0
  PROVE  AdminInv'
<1>1. srv' \in [Servers -> Requesting] /\ srv'[s] = r /\ \A o \in Servers : o # s => srv'[o] = srv[o]
  BY SrvFacts, AdminTypeFacts
<1>2. SrvTypes'
  <2>1. SessionTypes'
    BY AdminTypeFacts DEF SessionTypes
  <2> QED
    BY <1>1, <2>1, AdminTypeFacts DEF SrvTypes
<1>3. Counted'
  <2>1. /\ Bit(srv'[s].at \in {"form", "setup"}) = 0 /\ Bit(srv[s].at \in {"form", "setup"}) \in {0, 1}
        /\ Bit(srv'[s].at = "form") = 0 /\ Bit(srv[s].at = "form") \in {0, 1}
    BY <1>1 DEF Bit
  <2>2. CountStep(s)
    BY <1>1, <2>1, AdminTypeFacts DEF CountStep
  <2> QED
    BY <1>2, <2>2, CountKept, AdminTypeFacts DEF AdminInv
<1>4. OneLogin'
  <2>1. \A t \in Servers : (LoggingIn(t)' => LoggingIn(t)) /\ (Rival(t)' => Rival(t))
    BY <1>1, LoginsEnd
  <2> QED
    BY <2>1 DEF AdminInv, OneLogin
<1>5. AgeIsIdle' /\ JudgedToken' /\ FormNeedsPassword' /\ (token' # 0 => password')
  BY <1>1 DEF AdminInv, AgeIsIdle, JudgedToken, FormNeedsPassword
<1> QED
  BY <1>2, <1>3, <1>4, <1>5 DEF AdminInv, ThrottleHolds, SessionJudgedByUse

LEMMA SetupSaveKeeps ==
  ASSUME AdminInv, NEW s \in Servers, setup_save(s)
  PROVE  AdminInv'
<1>1. /\ srv[s].at = "setup" /\ Done(s) /\ requests' = requests
      /\ \/ /\ password' = TRUE /\ start_session_cookie(srv[s].b)
            /\ ghost' = [ghost EXCEPT !.due = 0, !.idle = 0, !.mixed = FALSE]
         \/ UNCHANGED <<password, token, minted, age, fails, block, cookie, ghost>>
  BY DEF setup_save, session
<1>2. CASE password' = TRUE /\ start_session_cookie(srv[s].b)
           /\ ghost' = [ghost EXCEPT !.due = 0, !.idle = 0, !.mixed = FALSE]
  BY <1>1, <1>2, MintKeeps
<1>3. CASE UNCHANGED <<password, token, minted, age, fails, block, cookie, ghost>>
  <2>1. srv' = [srv EXCEPT ![s] = Idle] /\ Idle \in Requesting /\ Idle.at = "idle"
    BY <1>1, IdleFacts DEF Done
  <2>2. ghost' \in Remembered /\ ~ghost'.wrong /\ age' \in 0..IdleLimit + 1
    BY <1>3, AdminTypeFacts DEF AdminInv, SessionJudgedByUse
  <2>3. token' # 0 /\ ~ghost'.mixed => age' = ghost'.idle
    BY <1>3 DEF AdminInv, AgeIsIdle
  <2> QED
    BY <1>1, <1>3, <2>1, <2>2, <2>3, GoesOn
<1> QED
  BY <1>1, <1>2, <1>3

\* authorize() judges the session by the time since its last use.
LEMMA AgeKeeps ==
  ASSUME AdminInv, NEW s \in Servers, session_age(s)
  PROVE  AdminInv'
<1> DEFINE as == IF expired THEN "expired" ELSE "fresh"
<1>1. /\ srv[s].at = "token" /\ UNCHANGED <<password, token, minted, age, fails, block, cookie, requests>>
      /\ srv' = [srv EXCEPT ![s] = [srv[s] EXCEPT !.at = as, !.since = 0]]
      /\ ghost' = [ghost EXCEPT !.wrong = ghost.wrong \/ (srv[s].n = token /\ ~ghost.mixed
                                                          /\ expired # (ghost.idle > IdleLimit))]
  BY DEF session_age, session
<1>2. as \in {"expired", "fresh"}
  OBVIOUS
<1> HIDE DEF as
<1>3. PICK r : r = [srv[s] EXCEPT !.at = as, !.since = 0]
  OBVIOUS
<1>4. r \in Requesting /\ r.at \in {"expired", "fresh"}
  <2>1. srv[s] \in Requesting /\ 0 \in 0..MaxDelay
    BY AdminTypeFacts, WebAdminAssumption
  <2> QED
    BY <1>2, <1>3, <2>1 DEF Requesting
<1>5. ~(srv[s].n = token /\ ~ghost.mixed /\ expired # (ghost.idle > IdleLimit))
  <2>1. srv[s].n # 0
    BY <1>1 DEF AdminInv, JudgedToken
  <2>2. srv[s].n = token /\ ~ghost.mixed => age = ghost.idle
    BY <2>1 DEF AdminInv, AgeIsIdle
  <2> QED
    BY <2>2 DEF expired
<1>6. ~ghost.wrong
  BY DEF AdminInv, SessionJudgedByUse
<1>7. /\ ghost' = [ghost EXCEPT !.wrong = FALSE]
  BY <1>1, <1>5, <1>6
<1>8. /\ ghost' \in Remembered /\ ghost'.due = ghost.due /\ ghost'.early = ghost.early /\ ~ghost'.wrong
      /\ ghost'.rivals = ghost.rivals /\ ghost'.mixed = ghost.mixed /\ ghost'.idle = ghost.idle
  BY <1>7, AdminTypeFacts DEF Remembered
<1>9. token' # 0 /\ ~ghost'.mixed => age' = ghost'.idle
  BY <1>1, <1>8 DEF AdminInv, AgeIsIdle
<1> QED
  BY <1>1, <1>3, <1>4, <1>8, <1>9, GoesOn, AdminTypeFacts

LEMMA ExpiredKeeps ==
  ASSUME AdminInv, NEW s \in Servers, session_expired(s)
  PROVE  AdminInv'
<1>1. /\ srv' = [srv EXCEPT ![s] = Idle] /\ token' = 0 /\ age' = IdleLimit + 1
      /\ UNCHANGED <<password, minted, fails, block, cookie, requests, ghost>>
  BY DEF session_expired, Done, clear_session
<1>2. age' \in 0..IdleLimit + 1 /\ ghost' \in Remembered /\ ~ghost'.wrong
  BY <1>1, WebAdminAssumption, AdminTypeFacts DEF AdminInv, SessionJudgedByUse
<1> QED
  BY <1>1, <1>2, IdleFacts, GoesOn

\* The request is served, and the session's time set.
LEMMA ServedKeeps ==
  ASSUME AdminInv, NEW s \in Servers, NEW what \in Handlers, Served(s, what)
  PROVE  AdminInv'
<1>1. /\ srv' = [srv EXCEPT ![s] = Idle] /\ age' = srv[s].since
      /\ UNCHANGED <<password, token, minted, fails, block, cookie, requests>>
  BY DEF Served, Done
<1>2. srv[s].since \in 0..MaxDelay /\ srv[s].since \in Nat
  <2>1. srv[s].since \in 0..MaxDelay
    BY AdminTypeFacts DEF Requesting
  <2> QED
    BY <2>1, WebAdminAssumption
<1>3. age' \in 0..IdleLimit + 1
  BY <1>1, <1>2, WebAdminAssumption
<1> DEFINE idle == IF srv[s].n = token THEN srv[s].since ELSE ghost.idle
           mixed == srv[s].n # token \/ srv[s].since > ghost.idle
<1>4. ghost' = [ghost EXCEPT !.idle = idle, !.mixed = mixed]
  BY DEF Served
<1>5. idle \in Nat /\ mixed \in BOOLEAN /\ (~mixed => idle = srv[s].since)
  BY <1>2, AdminTypeFacts DEF Remembered
<1> HIDE DEF idle, mixed
<1>6. /\ ghost' \in Remembered /\ ghost'.due = ghost.due /\ ghost'.early = ghost.early
      /\ ghost'.wrong = ghost.wrong
      /\ ghost'.rivals = ghost.rivals /\ ghost'.mixed = mixed /\ ghost'.idle = idle
  BY <1>4, <1>5, AdminTypeFacts DEF Remembered
<1>7. ~ghost'.wrong /\ (token' # 0 /\ ~ghost'.mixed => age' = ghost'.idle)
  BY <1>1, <1>5, <1>6 DEF AdminInv, SessionJudgedByUse
<1> QED
  BY <1>1, <1>3, <1>6, <1>7, IdleFacts, GoesOn

\* Nothing of a login or a session changes: what both servers do meanwhile, and
\* the touch screen.
Still ==
    /\ srv' = srv /\ requests' \in {requests, requests + 1} /\ requests' <= MaxRequests
    /\ minted' = minted /\ fails' = fails /\ block' = block
    /\ password' \in {password, TRUE} /\ cookie' \in [Browsers -> 0..minted]
    /\ (token' = token /\ age' = age) \/ (token' = 0 /\ age' = IdleLimit + 1)
    /\ ghost' \in Remembered /\ ghost'.due = ghost.due /\ ghost'.early = ghost.early
    /\ ghost'.wrong = ghost.wrong /\ ghost'.rivals = ghost.rivals
    /\ ghost'.idle = ghost.idle /\ ghost'.mixed = ghost.mixed

LEMMA StaysPut ==
  ASSUME AdminInv, Still
  PROVE  AdminInv'
<1> USE DEF Still
<1>1. SrvTypes'
  <2>1. SessionTypes'
    <3>1. age' \in 0..IdleLimit + 1
      BY AdminTypeFacts, WebAdminAssumption
    <3>2. token' \in Nat /\ token' <= minted
      BY AdminTypeFacts
    <3>3. password' \in BOOLEAN
      <4>1. password \in BOOLEAN
        BY AdminTypeFacts
      <4> QED
        BY <4>1
    <3> QED
      BY <3>1, <3>2, <3>3, AdminTypeFacts DEF SessionTypes
  <2> QED
    BY <2>1, AdminTypeFacts DEF SrvTypes
<1>2. Counted'
  <2>1. /\ Bit(srv["https"].at \in {"form", "setup"}) \in {0, 1} /\ Bit(srv["https"].at = "form") \in {0, 1}
        /\ "https" \in Servers
    BY DEF Bit, Servers
  <2>2. srv["https"].at = "wrong" => srv["https"].n <= requests
    <3>1. "http" \in Servers /\ Reading("http") \in {0, 1} /\ srv["https"].n \in Nat /\ requests \in Nat
      BY AdminTypeFacts DEF Servers, Reading, Bit, Requesting
    <3> QED
      BY <2>1, <3>1 DEF AdminInv, Counted
  <2>3. \A s \in Servers : Reading(s)' = Reading(s) /\ Minting(s)' = Minting(s) /\ Reading(s) \in {0, 1} /\ Minting(s) \in {0, 1}
    BY DEF Reading, Minting, Bit
  <2>4. "http" \in Servers /\ requests \in Nat /\ minted \in Nat /\ fails \in Nat /\ \A s \in Servers : srv[s].n \in Nat
    BY AdminTypeFacts DEF Servers, Requesting
  <2>5. /\ minted' + Minting("https")' + Minting("http")' <= requests'
        /\ fails' + Reading("https")' + Reading("http")' <= requests'
    BY <2>1, <2>3, <2>4 DEF AdminInv, Counted
  <2>6. \A s, o \in Servers : srv'[s].at = "wrong" /\ o # s => srv'[s].n + Reading(o)' <= requests'
    BY <2>3, <2>4 DEF AdminInv, Counted
  <2> QED
    BY <2>5, <2>6 DEF Counted
<1>3. OneLogin'
  <2>1. \A t \in Servers : (LoggingIn(t)' <=> LoggingIn(t)) /\ (Rival(t)' <=> Rival(t))
    BY DEF LoggingIn, Rival
  <2> QED
    BY <2>1 DEF AdminInv, OneLogin
<1>4. AgeIsIdle' /\ JudgedToken'
  BY DEF AdminInv, AgeIsIdle, JudgedToken
<1>5. FormNeedsPassword' /\ (token' # 0 => password')
  <2>1. password => password'
    OBVIOUS
  <2>2. token' # 0 => token # 0
    OBVIOUS
  <2> QED
    BY <2>1, <2>2 DEF AdminInv, FormNeedsPassword
<1> QED
  BY <1>1, <1>2, <1>3, <1>4, <1>5 DEF AdminInv, ThrottleHolds, SessionJudgedByUse

LEMMA LogoutKeeps ==
  ASSUME AdminInv, NEW s \in Servers, NEW b \in Browsers, logout(s, b)
  PROVE  AdminInv'
<1>1. /\ requests < MaxRequests /\ requests' = requests + 1 /\ token' = 0 /\ age' = IdleLimit + 1
      /\ cookie' = [cookie EXCEPT ![b] = 0]
      /\ UNCHANGED <<password, minted, fails, block, srv, ghost>>
  BY DEF logout, Ask, clear_session
<1>2. cookie' \in [Browsers -> 0..minted] /\ requests' <= MaxRequests
  <2>1. 0 \in 0..minted /\ cookie \in [Browsers -> 0..minted]
    BY AdminTypeFacts DEF SessionTypes
  <2> QED
    BY <1>1, <2>1, AdminTypeFacts, WebAdminAssumption
<1>3. Still
  BY <1>1, <1>2, AdminTypeFacts DEF Still
<1> QED
  BY <1>3, StaysPut

\* The steps of the services, of the firmware and of the touch screen.
LEMMA QuietKeeps ==
  ASSUME AdminInv, srv' = srv, UNCHANGED <<token, minted, age, fails, block, cookie>>,
         password' \in {password, TRUE},
         requests' \in {requests, requests + 1}, requests' <= MaxRequests,
         ghost' = ghost \/ \E c \in BOOLEAN : ghost' = [ghost EXCEPT !.tangled = c]
  PROVE  AdminInv'
<1>1. ghost \in Remembered /\ cookie \in [Browsers -> 0..minted]
  BY AdminTypeFacts DEF SessionTypes
<1>2. /\ ghost' \in Remembered /\ ghost'.due = ghost.due /\ ghost'.early = ghost.early
      /\ ghost'.wrong = ghost.wrong /\ ghost'.rivals = ghost.rivals
      /\ ghost'.idle = ghost.idle /\ ghost'.mixed = ghost.mixed
  BY <1>1 DEF Remembered
<1>3. /\ UNCHANGED <<minted, fails, block>> /\ cookie' \in [Browsers -> 0..minted]
      /\ token' = token /\ age' = age
  BY <1>1
<1>4. Still
  BY <1>2, <1>3 DEF Still
<1> QED
  BY <1>4, StaysPut

\* A minute of block is a minute of delay, and what a session is judged by ages
\* with it.
LEMMA TickKeeps ==
  ASSUME AdminInv, Tick
  PROVE  AdminInv'
<1>1. /\ age' = (IF age <= IdleLimit THEN age + 1 ELSE age) /\ block' = Less(block, 1)
      /\ srv' = [s \in Servers |-> IF srv[s].at = "idle" \/ srv[s].since >= MaxDelay THEN srv[s]
                                   ELSE [srv[s] EXCEPT !.since = srv[s].since + 1]]
      /\ UNCHANGED <<password, token, minted, fails, cookie, requests>>
  BY DEF Tick
<1>2. /\ srv' \in [Servers -> Requesting]
      /\ \A s \in Servers : srv'[s].at = srv[s].at /\ srv'[s].n = srv[s].n
  <2>1. ASSUME NEW s \in Servers
        PROVE  srv'[s] \in Requesting /\ srv'[s].at = srv[s].at /\ srv'[s].n = srv[s].n
    <3>1. srv[s] \in Requesting /\ srv[s].since \in 0..MaxDelay /\ MaxDelay \in Nat
      <4>1. srv[s] \in Requesting
        BY AdminTypeFacts
      <4>2. srv[s].since \in 0..MaxDelay
        BY <4>1 DEF Requesting
      <4> QED
        BY <4>1, <4>2, WebAdminAssumption
    <3>2. CASE srv[s].at = "idle" \/ srv[s].since >= MaxDelay
      BY <1>1, <3>1, <3>2
    <3>3. CASE ~(srv[s].at = "idle" \/ srv[s].since >= MaxDelay)
      <4>1. srv[s].since + 1 \in 0..MaxDelay
        BY <3>1, <3>3
      <4>2. srv'[s] = [srv[s] EXCEPT !.since = srv[s].since + 1]
        BY <1>1, <3>3
      <4> QED
        BY <3>1, <4>1, <4>2 DEF Requesting
    <3> QED
      BY <3>2, <3>3
  <2> QED
    BY <1>1, <2>1
<1> DEFINE rivals == ghost.rivals /\ (ghost.due > 1 \/ \E s \in Servers : LoggingIn(s))
           idle == IF ghost.idle <= IdleLimit THEN ghost.idle + 1 ELSE ghost.idle
<1>3. ghost' = [ghost EXCEPT !.due = Less(ghost.due, 1), !.rivals = rivals, !.idle = idle]
  BY DEF Tick
<1>4. ghost.due \in Nat /\ ghost.idle \in Nat /\ ghost.rivals \in BOOLEAN /\ block \in Nat /\ age \in Nat
  BY AdminTypeFacts, WebAdminAssumption DEF Remembered
<1>5. Less(ghost.due, 1) \in Nat /\ idle \in Nat /\ rivals \in BOOLEAN
  BY <1>4 DEF Less
<1>6. ~rivals => ~ghost.rivals \/ (ghost.due <= 1 /\ \A s \in Servers : ~LoggingIn(s))
  BY <1>4
<1>7. age = ghost.idle => age' = idle
  BY <1>1
<1> HIDE DEF rivals, idle
<1>8. /\ ghost' \in Remembered /\ ghost'.due = Less(ghost.due, 1) /\ ghost'.early = ghost.early
      /\ ghost'.wrong = ghost.wrong /\ ghost'.rivals = rivals
      /\ ghost'.idle = idle /\ ghost'.mixed = ghost.mixed
  BY <1>3, <1>5, AdminTypeFacts DEF Remembered
<1>9. SrvTypes'
  <2>1. age' \in 0..IdleLimit + 1
    BY <1>1, AdminTypeFacts, WebAdminAssumption
  <2>2. block' \in 0..MaxDelay
    BY <1>1, AdminTypeFacts, WebAdminAssumption DEF Less
  <2>3. SessionTypes'
    BY <1>1, <2>1, <2>2, AdminTypeFacts DEF SessionTypes
  <2> QED
    BY <1>1, <1>2, <1>8, <2>3, AdminTypeFacts DEF SrvTypes
<1>10. Counted'
  <2>1. \A s \in Servers : Reading(s)' = Reading(s) /\ Minting(s)' = Minting(s)
    BY <1>2 DEF Reading, Minting
  <2>2. "https" \in Servers /\ "http" \in Servers
    BY DEF Servers
  <2> QED
    BY <1>1, <1>2, <2>1, <2>2 DEF AdminInv, Counted
<1>11. OneLogin'
  <2> SUFFICES ASSUME ~rivals
               PROVE  /\ ghost'.due <= block'
                      /\ \A t \in Servers : LoggingIn(t)' => ghost'.due = 0 /\ ~Rival(t)'
    BY <1>8 DEF OneLogin
  <2>1. \A t \in Servers : LoggingIn(t)' = LoggingIn(t)
    BY <1>2 DEF LoggingIn
  <2>2. CASE ~ghost.rivals
    <3>1. ghost.due <= block /\ \A t \in Servers : LoggingIn(t) => ghost.due = 0 /\ ~Rival(t)
      BY <2>2 DEF AdminInv, OneLogin
    <3>2. ghost'.due <= block' /\ (ghost.due = 0 => ghost'.due = 0)
      BY <1>1, <1>4, <1>8, <3>1 DEF Less
    <3> QED
      BY <2>1, <3>1, <3>2 DEF Rival
  <2>3. CASE ghost.due <= 1 /\ \A s \in Servers : ~LoggingIn(s)
    <3>1. ghost'.due = 0 /\ block' \in Nat
      BY <1>1, <1>4, <1>8, <2>3 DEF Less
    <3> QED
      BY <2>1, <2>3, <3>1
  <2> QED
    BY <1>6, <2>2, <2>3
<1>12. AgeIsIdle' /\ JudgedToken' /\ FormNeedsPassword' /\ (token' # 0 => password')
  BY <1>1, <1>2, <1>7, <1>8 DEF AdminInv, AgeIsIdle, JudgedToken, FormNeedsPassword
<1> QED
  BY <1>8, <1>9, <1>10, <1>11, <1>12 DEF AdminInv, ThrottleHolds, SessionJudgedByUse

LEMMA RestartKeeps ==
  ASSUME AdminInv, Restart
  PROVE  AdminInv'
<1>1. /\ token' = 0 /\ age' = IdleLimit + 1 /\ fails' = 0 /\ block' = 0 /\ srv' = [s \in Servers |-> Idle]
      /\ UNCHANGED <<password, minted, cookie, requests>>
      /\ ghost' = [ghost EXCEPT !.due = 0, !.idle = 0, !.mixed = FALSE, !.rivals = FALSE, !.tangled = FALSE]
  BY DEF Restart, clear_session
<1>2. /\ ghost' \in Remembered /\ ghost'.due = 0 /\ ghost'.early = ghost.early /\ ghost'.wrong = ghost.wrong
  BY <1>1, AdminTypeFacts DEF Remembered
<1>3. srv' \in [Servers -> Requesting] /\ \A s \in Servers : srv'[s].at = "idle"
  BY <1>1, IdleFacts
<1>4. SrvTypes'
  <2>1. age' \in 0..IdleLimit + 1 /\ block' \in 0..MaxDelay
    BY <1>1, WebAdminAssumption
  <2>2. SessionTypes'
    BY <1>1, <2>1, AdminTypeFacts DEF SessionTypes
  <2> QED
    BY <1>1, <1>2, <1>3, <2>2, AdminTypeFacts DEF SrvTypes
<1>5. Counted'
  <2>1. \A s \in Servers : Reading(s)' = 0 /\ Minting(s)' = 0 /\ Minting(s) \in {0, 1}
    BY <1>3 DEF Reading, Minting, Bit
  <2>2. "https" \in Servers /\ "http" \in Servers /\ minted \in Nat /\ requests \in Nat
    BY AdminTypeFacts DEF Servers
  <2>3. minted <= requests
    BY <2>1, <2>2 DEF AdminInv, Counted
  <2> QED
    BY <1>1, <1>3, <2>1, <2>2, <2>3 DEF Counted
<1>6. OneLogin'
  BY <1>1, <1>2, <1>3 DEF OneLogin, LoggingIn
<1> QED
  BY <1>1, <1>2, <1>3, <1>4, <1>5, <1>6
     DEF AdminInv, FormNeedsPassword, ThrottleHolds, AgeIsIdle, JudgedToken, SessionJudgedByUse

LEMMA AdminStart == Init => AdminInv /\ ServiceInv
<1> SUFFICES ASSUME Init PROVE AdminInv /\ ServiceInv
  OBVIOUS
<1>1. /\ token = 0 /\ minted = 0 /\ age = IdleLimit + 1 /\ fails = 0 /\ block = 0 /\ requests = 0
      /\ password \in BOOLEAN /\ cookie = [b \in Browsers |-> 0] /\ srv = [s \in Servers |-> Idle]
      /\ ghost = [due |-> 0, early |-> FALSE, idle |-> 0, wrong |-> FALSE, mixed |-> FALSE,
                  rivals |-> FALSE, tangled |-> FALSE]
      /\ stored = [cred |-> "old", enabled |-> "old"] /\ applied = stored
      /\ saver = [t \in Savers |-> Quiet]
  BY DEF Init
<1>2. srv \in [Servers -> Requesting] /\ \A s \in Servers : srv[s].at = "idle"
  BY <1>1, IdleFacts
<1>3. SrvTypes
  <2>1. SessionTypes
    BY <1>1, WebAdminAssumption DEF SessionTypes
  <2>2. ghost \in Remembered
    BY <1>1 DEF Remembered
  <2> QED
    BY <1>1, <1>2, <2>1, <2>2, WebAdminAssumption DEF SrvTypes
<1>4. Counted
  <2>1. \A s \in Servers : Reading(s) = 0 /\ Minting(s) = 0
    BY <1>2 DEF Reading, Minting, Bit
  <2>2. "https" \in Servers /\ "http" \in Servers
    BY DEF Servers
  <2> QED
    BY <1>1, <1>2, <2>1, <2>2 DEF Counted
<1>5. OneLogin /\ ThrottleHolds /\ AgeIsIdle /\ SessionJudgedByUse
  BY <1>1, <1>2 DEF OneLogin, LoggingIn, ThrottleHolds, AgeIsIdle, SessionJudgedByUse
<1>6. FormNeedsPassword /\ JudgedToken
  BY <1>2 DEF FormNeedsPassword, JudgedToken
<1>7. SaveTypes
  BY <1>1 DEF SaveTypes, Quiet, Sides
<1>8. LoadedIsStored /\ AppliedIsStored
  BY <1>1 DEF LoadedIsStored, AppliedIsStored, Quiet
<1> QED
  BY <1>1, <1>3, <1>4, <1>5, <1>6, <1>7, <1>8 DEF AdminInv, ServiceInv

-----------------------------------------------------------------------------
(* The services.                                                           *)

Step == [at : {"idle", "load", "save", "enable", "reload", "configure"}, cred : Sides]
LEMMA SaveTypeFacts ==
  ASSUME ServiceInv
  PROVE  /\ stored \in [cred : Sides, enabled : Sides] /\ applied \in [cred : Sides, enabled : Sides]
         /\ saver \in [Savers -> Step]
BY DEF ServiceInv, SaveTypes, Step

\* A saver takes a step on the way to reload_services(): nothing is compared
\* until it is done, and what another one had loaded no longer counts.
GoesOnTo(t, r) ==
    /\ saver' = [saver EXCEPT ![t] = r] /\ r \in Step
    /\ r.at # "idle" /\ (r.at = "configure" => r.cred = stored'.cred)
    /\ stored' \in [cred : Sides, enabled : Sides] /\ applied' = applied
    /\ ghost'.tangled \/ (~ghost.tangled /\ \A o \in Savers \ {t} : saver[o].at = "idle")

LEMMA SaverGoesOn ==
  ASSUME ServiceInv, NEW t \in Savers, NEW r, GoesOnTo(t, r)
  PROVE  ServiceInv'
<1> USE DEF GoesOnTo
<1> USE SaveTypeFacts
<1>1. saver' \in [Savers -> Step] /\ saver'[t] = r /\ \A o \in Savers \ {t} : saver'[o] = saver[o]
  OBVIOUS
<1>2. SaveTypes'
  BY <1>1 DEF SaveTypes, Step
<1>3. AppliedIsStored'
  BY <1>1 DEF AppliedIsStored
<1>4. LoadedIsStored'
  <2> SUFFICES ASSUME ~ghost'.tangled, NEW o \in Savers, saver'[o].at = "configure"
               PROVE  saver'[o].cred = stored'.cred
    BY DEF LoadedIsStored
  <2>1. CASE o = t
    BY <1>1, <2>1
  <2>2. CASE o # t
    BY <1>1, <2>2 DEF ServiceInv, LoadedIsStored
  <2> QED
    BY <2>1, <2>2
<1> QED
  BY <1>2, <1>3, <1>4 DEF ServiceInv

LEMMA TangleFacts ==
  ASSUME AdminInv, NEW t, Tangle(t)
  PROVE  ghost'.tangled \/ (~ghost.tangled /\ \A o \in Savers \ {t} : saver[o].at = "idle")
BY AdminTypeFacts DEF Tangle, Remembered

LEMMA SaverKeeps ==
  ASSUME AdminInv, ServiceInv, SaverStep
  PROVE  ServiceInv'
<1> USE SaveTypeFacts
<1>1. CASE config_load
  <2>1. PICK c \in {stored.cred, "https"} : saver' = [saver EXCEPT !["https"] = [at |-> "save", cred |-> c]]
    BY <1>1 DEF config_load
  <2>2. /\ UNCHANGED <<stored, applied>> /\ Tangle("https") /\ "https" \in Savers
        /\ [at |-> "save", cred |-> c] \in Step
    BY <1>1 DEF config_load, Savers, Step, Sides
  <2>3. GoesOnTo("https", [at |-> "save", cred |-> c])
    BY <2>1, <2>2, TangleFacts DEF GoesOnTo
  <2> QED
    BY <2>2, <2>3, SaverGoesOn
<1>2. CASE config_fails
  <2>1. /\ saver' = [saver EXCEPT !["https"] = Quiet] /\ UNCHANGED <<stored, applied>> /\ ghost'.tangled
    BY <1>2, AdminTypeFacts DEF config_fails, Remembered
  <2>2. saver' \in [Savers -> Step]
    BY <2>1 DEF Quiet, Step, Sides
  <2> QED
    BY <2>1, <2>2 DEF ServiceInv, SaveTypes, Step, LoadedIsStored, AppliedIsStored
<1>3. ASSUME NEW t \in Savers, save_service(t) \/ set_service_enabled(t)
      PROVE  ServiceInv'
  <2>1. PICK r : r = [saver[t] EXCEPT !.at = IF save_service(t) THEN After(t, "save") ELSE After(t, "enable")]
    OBVIOUS
  <2>2. After(t, "save") \in {"enable", "reload"} /\ After(t, "enable") \in {"save", "reload"}
    BY DEF After
  <2>3. r \in Step /\ r.at \in {"save", "enable", "reload"}
    BY <2>1, <2>2 DEF Step
  <2>4. saver' = [saver EXCEPT ![t] = r] /\ applied' = applied /\ Tangle(t)
    BY <1>3, <2>1 DEF save_service, set_service_enabled
  <2>5. stored' \in [cred : Sides, enabled : Sides]
    <3>1. saver[t].cred \in Sides /\ t \in Sides
      BY DEF Step, Sides, Savers
    <3> QED
      BY <1>3, <3>1 DEF save_service, set_service_enabled
  <2>6. GoesOnTo(t, r)
    BY <2>3, <2>4, <2>5, TangleFacts DEF GoesOnTo
  <2> QED
    BY <2>6, SaverGoesOn
<1>4. ASSUME NEW t \in Savers, reload_services(t)
      PROVE  ServiceInv'
  <2>1. PICK r : r = [at |-> "configure", cred |-> stored.cred]
    OBVIOUS
  <2>2. r \in Step /\ r.at = "configure" /\ r.cred = stored.cred
    BY <2>1 DEF Step
  <2>3. saver' = [saver EXCEPT ![t] = r] /\ UNCHANGED <<stored, applied>> /\ Tangle(t)
    BY <1>4, <2>1 DEF reload_services
  <2>4. GoesOnTo(t, r)
    BY <2>2, <2>3, TangleFacts DEF GoesOnTo
  <2> QED
    BY <2>4, SaverGoesOn
<1>5. ASSUME NEW t \in Savers, configure_client(t)
      PROVE  ServiceInv'
  <2>1. /\ saver[t].at = "configure" /\ applied' = configure(t) /\ stored' = stored
        /\ saver' = [saver EXCEPT ![t] = Quiet]
        /\ ghost'.tangled = ((\E o \in Savers \ {t} : saver[o].at # "idle")
                               \/ (ghost.tangled /\ stored # configure(t)))
    BY <1>5, AdminTypeFacts DEF configure_client, Remembered
  <2>2. /\ saver' \in [Savers -> Step] /\ saver'[t].at = "idle"
        /\ \A o \in Savers \ {t} : saver'[o] = saver[o]
    BY <2>1 DEF Quiet, Step, Sides
  <2>3. configure(t) \in [cred : Sides, enabled : Sides] /\ configure(t).cred = saver[t].cred
        /\ configure(t).enabled = stored.enabled
    BY DEF configure, Step
  <2>4. SaveTypes'
    BY <2>1, <2>2, <2>3 DEF SaveTypes, Step
  <2> SUFFICES ASSUME ~ghost'.tangled PROVE AppliedIsStored' /\ LoadedIsStored'
    BY <2>4 DEF ServiceInv, AppliedIsStored, LoadedIsStored
  <2>5. \A o \in Savers \ {t} : saver[o].at = "idle"
    BY <2>1
  <2>6. configure(t) = stored
    <3>1. CASE ghost.tangled
      BY <2>1, <3>1
    <3>2. CASE ~ghost.tangled
      <4>1. saver[t].cred = stored.cred
        BY <2>1, <3>2 DEF ServiceInv, LoadedIsStored
      <4> QED
        BY <4>1 DEF configure
    <3> QED
      BY <3>1, <3>2
  <2> QED
    BY <2>1, <2>2, <2>5, <2>6 DEF AppliedIsStored, LoadedIsStored
<1> QED
  BY <1>1, <1>2, <1>3, <1>4, <1>5 DEF SaverStep

\* A save begins on either side.
LEMMA SaverBegins ==
  ASSUME ServiceInv, NEW t \in Savers, NEW r \in Step, r.at \notin {"idle", "configure"},
         saver' = [saver EXCEPT ![t] = r], UNCHANGED <<stored, applied>>, ghost'.tangled = ghost.tangled
  PROVE  ServiceInv'
<1> USE SaveTypeFacts
<1>1. saver' \in [Savers -> Step] /\ saver'[t] = r /\ \A o \in Savers \ {t} : saver'[o] = saver[o]
  OBVIOUS
<1>2. SaveTypes' /\ AppliedIsStored'
  BY <1>1 DEF SaveTypes, Step, AppliedIsStored
<1>3. \A o \in Savers : saver'[o].at = "configure" => saver'[o] = saver[o]
  BY <1>1
<1>4. LoadedIsStored'
  BY <1>3 DEF ServiceInv, LoadedIsStored
<1> QED
  BY <1>2, <1>4 DEF ServiceInv

LEMMA ServicesQuiet ==
  ASSUME ServiceInv, UNCHANGED services, ghost'.tangled = ghost.tangled
  PROVE  ServiceInv'
BY DEF ServiceInv, services, SaveTypes, LoadedIsStored, AppliedIsStored

-----------------------------------------------------------------------------
(* All steps.                                                              *)

LEMMA FwQuiet ==
  ASSUME FwInv, UNCHANGED <<slots, boot, running, upload, c6Vars, events, record>>
  PROVE  FwInv'
BY DEF c6Vars, FwInv, FwTypes, RunningIsWhole, TrialIsAlone, WrittenIsWhole, AcceptedBoots,
       AcceptedUpdateRuns, OneUpdate, C6Types, partition

LEMMA RestartingKeeps ==
  ASSUME FwInv, Restarting
  PROVE  FwInv'
<1>1. Reboot /\ events' \in {events, events + 1}
  BY DEF Restarting, PowerLoss, restart_task, validation_fails, c6_ota_done
<1>2. events \in Nat /\ events <= MaxEvents
  BY DEF FwInv, C6Types
<1>3. events' <= MaxEvents
  BY <1>2, FirmwareAssumption DEF Restarting, PowerLoss, restart_task, validation_fails, c6_ota_done
<1> QED
  BY <1>1, <1>3, RebootKeeps

Inv == FwInv /\ AdminInv /\ ServiceInv

LEMMA InvStart == Init => Inv
BY FwStart, AdminStart DEF Init, Inv

\* Logins and sessions.
LEMMA BrowserSteps ==
  ASSUME Inv, NEW s \in Servers, NEW b \in Browsers,
         \/ login_post(s, b) \/ logout(s, b) \/ setup_post(s, b)
         \/ \E what \in Handlers : authorize(s, b, what)
  PROVE  Inv'
<1>1. AdminInv'
  BY LoginPostKeeps, LogoutKeeps, OtherRequestKeeps DEF Inv
<1>2. UNCHANGED fwVars /\ UNCHANGED services /\ ghost'.tangled = ghost.tangled
  BY AdminTypeFacts DEF Inv, login_post, logout, setup_post, authorize, Remembered
<1> QED
  BY <1>1, <1>2, FwQuiet, ServicesQuiet DEF Inv, fwVars, c6Vars

LEMMA ServerSteps ==
  ASSUME Inv, NEW s \in Servers, ServerStep(s)
  PROVE  Inv'
<1> USE DEF Inv
<1>1. ghost \in Remembered
  BY AdminTypeFacts
<1>2. CASE password_matches(s)
  <2>1. /\ srv[s].at = "form" /\ Done(s) /\ start_session_cookie(srv[s].b) /\ UNCHANGED <<password, requests>>
        /\ ghost' = [ghost EXCEPT !.due = 0, !.idle = 0, !.mixed = FALSE]
        /\ UNCHANGED fwVars /\ UNCHANGED services
    BY <1>2 DEF password_matches
  <2>2. password' = TRUE
    BY <2>1, AdminTypeFacts DEF AdminInv, FormNeedsPassword
  <2>3. AdminInv'
    BY <2>1, <2>2, MintKeeps
  <2>4. ghost'.tangled = ghost.tangled
    BY <1>1, <2>1 DEF Remembered
  <2> QED
    BY <2>1, <2>3, <2>4, FwQuiet, ServicesQuiet DEF fwVars, c6Vars
<1>3. CASE \/ login_wrong(s) \/ login_failed(s) \/ setup_save(s)
           \/ session_age(s) \/ session_expired(s)
  <2>1. AdminInv'
    BY <1>3, LoginWrongKeeps, LoginFailedKeeps, SetupSaveKeeps, AgeKeeps, ExpiredKeeps
  <2>2. UNCHANGED fwVars /\ UNCHANGED services
    BY <1>3 DEF login_wrong, login_failed, setup_save, session_age, session_expired
  <2>3. ghost'.tangled = ghost.tangled
    BY <1>1, <1>3 DEF login_wrong, login_failed, setup_save, session_age, session_expired, Remembered
  <2> QED
    BY <2>1, <2>2, <2>3, FwQuiet, ServicesQuiet DEF fwVars, c6Vars
<1>4. CASE page(s) \/ wifi_handler(s) \/ config_post(s) \/ update_upload(s)
  <2>1. PICK what \in Handlers : Served(s, what)
    BY <1>4 DEF page, wifi_handler, config_post, update_upload, Handlers
  <2>2. AdminInv'
    BY <2>1, ServedKeeps
  <2>3. ghost'.tangled = ghost.tangled /\ UNCHANGED <<stored, applied>>
    BY <1>1, <2>1 DEF Served, Remembered
  <2>4. FwInv'
    <3>1. CASE page(s) \/ config_post(s)
      BY <3>1, FwQuiet DEF page, config_post, fwVars, c6Vars
    <3>2. CASE wifi_handler(s)
      BY <3>2, FwQuiet DEF wifi_handler, c6Vars
    <3>3. CASE update_upload(s)
      BY <3>3, UploadKeeps DEF update_upload
    <3> QED
      BY <1>4, <3>1, <3>2, <3>3
  <2>5. ServiceInv'
    <3>1. CASE config_post(s)
      <4>1. PICK r : r = [at |-> "load", cred |-> "old"]
        OBVIOUS
      <4>2. saver' = [saver EXCEPT !["https"] = r] /\ r \in Step /\ r.at = "load" /\ "https" \in Savers
        BY <3>1, <4>1 DEF config_post, Step, Sides, Savers
      <4> QED
        BY <2>3, <4>2, SaverBegins
    <3>2. CASE page(s) \/ wifi_handler(s) \/ update_upload(s)
      BY <2>3, <3>2, ServicesQuiet DEF page, wifi_handler, update_upload, services
    <3> QED
      BY <1>4, <3>1, <3>2
  <2> QED
    BY <2>2, <2>4, <2>5
<1> QED
  BY <1>2, <1>3, <1>4 DEF ServerStep

LEMMA ServiceSteps ==
  ASSUME Inv, on_admin_save \/ save_ntrip_config \/ SaverStep
  PROVE  Inv'
<1> USE DEF Inv
<1>1. ghost \in Remembered
  BY AdminTypeFacts
<1>2. /\ srv' = srv /\ UNCHANGED <<token, minted, age, fails, block, cookie>> /\ password' \in {password, TRUE}
      /\ UNCHANGED fwVars
  BY DEF on_admin_save, save_ntrip_config, SaverStep, config_load, config_fails, save_service,
         set_service_enabled, reload_services, configure_client, saveVars, session
<1>3. requests' \in {requests, requests + 1} /\ requests' <= MaxRequests
  <2>1. requests \in Nat /\ requests <= MaxRequests /\ MaxRequests \in Nat
    BY AdminTypeFacts, WebAdminAssumption
  <2> QED
    BY <2>1 DEF on_admin_save, save_ntrip_config, SaverStep, config_load, config_fails, save_service,
           set_service_enabled, reload_services, configure_client, saveVars
<1>4. ghost' = ghost \/ \E c \in BOOLEAN : ghost' = [ghost EXCEPT !.tangled = c]
  <2>1. CASE on_admin_save \/ save_ntrip_config
    BY <2>1 DEF on_admin_save, save_ntrip_config
  <2>2. CASE SaverStep
    <3>1. \E c : ghost' = [ghost EXCEPT !.tangled = c] /\ c \in BOOLEAN
      BY <1>1, <2>2 DEF SaverStep, config_load, config_fails, save_service, set_service_enabled,
             reload_services, configure_client, Tangle, Remembered
    <3> QED
      BY <3>1
  <2> QED
    BY <2>1, <2>2
<1>5. AdminInv'
  BY <1>2, <1>3, <1>4, QuietKeeps
<1>6. FwInv'
  BY <1>2, FwQuiet DEF fwVars, c6Vars
<1>7. ServiceInv'
  <2>1. CASE on_admin_save
    BY <2>1, ServicesQuiet DEF on_admin_save
  <2>2. CASE save_ntrip_config
    <3>1. PICK r : r = [at |-> "enable", cred |-> "touch"]
      OBVIOUS
    <3>2. /\ saver' = [saver EXCEPT !["touch"] = r] /\ UNCHANGED <<stored, applied, ghost>>
          /\ r \in Step /\ r.at = "enable" /\ "touch" \in Savers
      BY <2>2, <3>1 DEF save_ntrip_config, Step, Sides, Savers
    <3> QED
      BY <3>2, SaverBegins
  <2>3. CASE SaverStep
    BY <2>3, SaverKeeps
  <2> QED
    BY <2>1, <2>2, <2>3
<1> QED
  BY <1>5, <1>6, <1>7

LEMMA FirmwareSteps ==
  ASSUME Inv, (UploadStep \/ Validation \/ Coprocessor) /\ UNCHANGED admin
  PROVE  Inv'
<1> USE DEF Inv
<1>1. FwInv'
  BY UploadKeeps, ValidationKeeps, CoprocessorKeeps
<1>2. /\ srv' = srv /\ UNCHANGED <<token, minted, age, fails, block, cookie>> /\ password' = password
      /\ requests' = requests /\ ghost' = ghost /\ UNCHANGED services
  BY DEF admin, session
<1>3. requests' \in {requests, requests + 1} /\ requests' <= MaxRequests
  BY <1>2, AdminTypeFacts
<1>4. AdminInv'
  BY <1>2, <1>3, QuietKeeps
<1> QED
  BY <1>1, <1>2, <1>4, ServicesQuiet

LEMMA RestartSteps ==
  ASSUME Inv, Restart
  PROVE  Inv'
<1> USE DEF Inv
<1>1. FwInv'
  BY RestartingKeeps DEF Restart
<1>2. AdminInv'
  BY RestartKeeps
<1>3. saver' = [t \in Savers |-> Quiet] /\ applied' = stored /\ stored' = stored
  BY DEF Restart
<1>4. ServiceInv'
  BY <1>3, SaveTypeFacts DEF ServiceInv, SaveTypes, LoadedIsStored, AppliedIsStored, Quiet, Sides
<1> QED
  BY <1>1, <1>2, <1>4

LEMMA InvStep == Inv /\ [Next]_vars => Inv'
<1> SUFFICES ASSUME Inv, [Next]_vars PROVE Inv'
  OBVIOUS
<1>1. CASE \E s \in Servers, b \in Browsers :
              \/ login_post(s, b) \/ logout(s, b) \/ setup_post(s, b)
              \/ \E what \in Handlers : authorize(s, b, what)
  BY <1>1, BrowserSteps
<1>2. CASE \E s \in Servers : ServerStep(s)
  BY <1>2, ServerSteps
<1>3. CASE on_admin_save \/ save_ntrip_config \/ SaverStep
  BY <1>3, ServiceSteps
<1>4. CASE Tick
  <2>1. UNCHANGED fwVars /\ UNCHANGED services /\ ghost'.tangled = ghost.tangled
    BY <1>4, AdminTypeFacts DEF Tick, Inv, Remembered
  <2> QED
    BY <1>4, <2>1, TickKeeps, FwQuiet, ServicesQuiet DEF Inv, fwVars, c6Vars
<1>5. CASE (UploadStep \/ Validation \/ Coprocessor) /\ UNCHANGED admin
  BY <1>5, FirmwareSteps
<1>6. CASE Restart
  BY <1>6, RestartSteps
<1>7. CASE UNCHANGED vars
  <2>1. /\ srv' = srv /\ UNCHANGED <<token, minted, age, fails, block, cookie>> /\ password' = password
        /\ requests' = requests /\ ghost' = ghost /\ UNCHANGED services /\ UNCHANGED fwVars
    BY <1>7 DEF vars, session
  <2>2. requests' \in {requests, requests + 1} /\ requests' <= MaxRequests
    BY <2>1, AdminTypeFacts DEF Inv
  <2>3. AdminInv'
    BY <2>1, <2>2, QuietKeeps DEF Inv
  <2> QED
    BY <2>1, <2>3, FwQuiet, ServicesQuiet DEF Inv, fwVars, c6Vars
<1> QED
  BY <1>1, <1>2, <1>3, <1>4, <1>5, <1>6, <1>7 DEF Next

-----------------------------------------------------------------------------
(* The theorems.                                                           *)

\* update_upload_handler(), validate_ota_task() and the boot loader: whatever
\* is uploaded and whenever the power goes, the firmware that runs is complete,
\* and one on trial has a complete, validated one to fall back to.
THEOREM AlwaysRollbackSafe == Spec => []RollbackSafe
<1>1. Inv => RollbackSafe
  BY DEF Inv, FwInv, RunningIsWhole, TrialIsAlone, RollbackSafe, partition
<1> QED
  BY InvStart, InvStep, <1>1, PTL DEF Spec

\* update_upload_handler() and the boot loader: the firmware that was accepted
\* runs after the restart, unless another upload wrote over it.
THEOREM AcceptedRuns == Spec => []AcceptedUpdateRuns
<1>1. Inv => AcceptedUpdateRuns
  BY DEF Inv, FwInv
<1> QED
  BY InvStart, InvStep, <1>1, PTL DEF Spec

\* login_post_handler(), with its counter and its block shared by two servers
\* and no lock: no form is read before every delay is over, while logins do not
\* overlap.
THEOREM ThrottleAlwaysHolds == Spec => []ThrottleHolds
<1>1. Inv => ThrottleHolds
  BY DEF Inv, AdminInv
<1> QED
  BY InvStart, InvStep, <1>1, PTL DEF Spec

\* authorize(): what a session is judged by is the time since its own last use.
THEOREM SessionsJudgedByUse == Spec => []SessionJudgedByUse
<1>1. Inv => SessionJudgedByUse
  BY DEF Inv, AdminInv
<1> QED
  BY InvStart, InvStep, <1>1, PTL DEF Spec

\* config_post_handler(), save_ntrip_config(), reload_services() and
\* c6_ota_task(): a client runs with what is stored and the coprocessor's
\* progress is honest, while saves and boxes do not overlap.
THEOREM ServicesStayConsistent == Spec => []ServicesConsistent
<1>1. Inv => ServicesConsistent
  <2> SUFFICES ASSUME Inv PROVE ServicesConsistent
    OBVIOUS
  <2>1. /\ tasks \in 0..MaxEvents /\ boxes \in 0..MaxEvents /\ progress \in -2..0
    BY FirmwareAssumption DEF Inv, FwInv, C6Types
  <2>2. minted <= MaxRequests /\ fails \in 0..MaxRequests
    <3>1. \A s \in Servers : Reading(s) \in {0, 1} /\ Minting(s) \in {0, 1}
      BY DEF Reading, Minting, Bit
    <3>2. "https" \in Servers /\ "http" \in Servers
      BY DEF Servers
    <3>3. minted <= requests /\ fails <= requests
      BY <3>1, <3>2, AdminTypeFacts DEF Inv, AdminInv, Counted
    <3> QED
      BY <3>3, AdminTypeFacts, WebAdminAssumption DEF Inv
  <2>3. token \in 0..minted /\ age \in 0..IdleLimit + 1 /\ block \in 0..MaxDelay /\ (token # 0 => password)
        /\ \A b \in Browsers : cookie[b] \in 0..minted
    BY AdminTypeFacts DEF Inv, AdminInv, SessionTypes
  <2>4. ProgressIsHonest
    <3>1. boxes \in Nat /\ tasks \in Nat /\ (~record.overlap => boxes + tasks <= 1 /\ (tasks > 0 => progress = 0))
      BY DEF Inv, FwInv, OneUpdate, C6Types
    <3> QED
      BY <3>1 DEF ProgressIsHonest
  <2> QED
    BY <2>1, <2>2, <2>3, <2>4 DEF Inv, ServiceInv, ServicesConsistent, TypeOK
<1> QED
  BY InvStart, InvStep, <1>1, PTL DEF Spec
=============================================================================
