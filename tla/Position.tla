------------------------------ MODULE Position ------------------------------
(***************************************************************************)
(* The base position on its way from a survey or a form, through four keys *)
(* of the NVS, to the receiver: SurveyManager, Storage and the transitions *)
(* of BaseStation.  All of it runs on the base_station task; a failing     *)
(* write or receiver command, and a restart, come between any two steps.   *)
(*                                                                         *)
(* A position is a model value; its three coordinates are stored one by    *)
(* one, so a stored position may be a mixture.  Streams are in StreamGate. *)
(***************************************************************************)
EXTENDS Naturals, Sequences, FiniteSets

CONSTANTS
    Places, None, \* positions, and none
    MinBlocks,    \* kSurveyMinBlocks
    MinTime,      \* kSurveyMinTimeSec, in blocks of kSurveyBlockTimeSec
    MaxRequests,  \* bound on the requests of the user
    MaxFaults,    \* bound on failing writes and commands
    MaxReboots    \* bound on restarts

ASSUME PositionAssumption ==
    /\ Places # {} /\ None \notin Places /\ MinBlocks \in Nat \ {0, 1} /\ MinTime \in Nat
    /\ MaxRequests \in Nat /\ MaxFaults \in Nat /\ MaxReboots \in Nat

Coordinates == {"lat", "lon", "hgt"}
Everywhere(p) == [c \in Coordinates |-> p]

VARIABLES
    stored, valid,  \* the keys lat, lon and hgt, and pos_valid
    rx,             \* the coordinates of the last MODE BASE command
    mode, raw,      \* mode_, raw_collection_
    at,             \* where BaseStation::run() is
    target,         \* what it saves or configures
    left,           \* the writes save_position() has left
    survey,         \* SurveyManager
    queue,          \* actions_
    requests, faults, reboots,
    spoiled         \* the kinds of faults so far, for the properties

vars == <<stored, valid, rx, mode, raw, at, target, left, survey, queue, requests, faults, reboots, spoiled>>

NoSurvey == [state |-> "idle", elapsed |-> 0, moved |-> FALSE, open |-> FALSE, blocks |-> 0, pending |-> None]
\* SurveyManager::start()
Collecting == [NoSurvey EXCEPT !.state = "collecting"]

Init ==
    /\ stored = Everywhere(None) /\ valid = FALSE /\ rx = Everywhere(None)
    /\ mode = "survey" /\ raw = FALSE /\ at = "boot"
    /\ target = Everywhere(None) /\ left = <<>> /\ survey = NoSurvey
    /\ queue = <<>> /\ requests = 0 /\ faults = 0 /\ reboots = 0 /\ spoiled = {}

Fault(kind) ==
    /\ faults < MaxFaults /\ faults' = faults + 1
    /\ spoiled' = spoiled \cup {kind}
NoFault == UNCHANGED <<faults, spoiled>>

-----------------------------------------------------------------------------
(* BaseStation's transitions                                               *)

\* enter_transmit(): the mode is set, the survey forgotten, and the receiver
\* configured, which takes longer than the two seconds healthy() allows.
enter_transmit_ModeOnly(p) ==
    /\ mode' = "transmit" /\ survey' = NoSurvey
    /\ at' = "loop" /\ target' = p
enter_transmit(p) ==
    /\ mode' = "transmit" /\ survey' = NoSurvey
    /\ at' = "config" /\ target' = p

\* enter_survey()
enter_survey ==
    /\ mode' = "survey" /\ survey' = Collecting
    /\ at' = "config" /\ UNCHANGED target

configured == at' = "loop" /\ UNCHANGED <<stored, valid, mode, raw, target, left, survey, queue, requests>>

\* configure_base() gives the receiver the position, and may fail before or
\* after that.
configure_base ==
    /\ at = "config" /\ mode = "transmit" /\ configured
    /\ \/ rx' = target /\ NoFault
       \/ rx' \in {rx, target} /\ Fault("config")

\* configure_survey_output() leaves the position alone.
configure_survey_output ==
    /\ at = "config" /\ mode = "survey" /\ configured
    /\ UNCHANGED rx
    /\ NoFault \/ Fault("config")

\* run() before its loop.
run_start ==
    /\ at = "boot"
    /\ IF valid THEN enter_transmit(stored)
                ELSE enter_survey
    /\ UNCHANGED <<stored, valid, rx, raw, left, queue, requests>> /\ NoFault

Request(r) ==
    /\ requests < MaxRequests /\ requests' = requests + 1
    /\ queue' = Append(queue, r)
    /\ UNCHANGED <<stored, valid, rx, mode, raw, at, target, left, survey, faults, spoiled>>

\* exit_raw_collection() configures the base again with the stored position.
exit_raw_collection == raw' = FALSE /\ rx' \in IF raw THEN {rx, stored} ELSE {rx}

Keys == <<"lat", "lon", "hgt", "pos_valid", "commit">>
save_position(p, by) == at' = by /\ target' = Everywhere(p) /\ left' = Keys
Saving == at \in {"manual", "result"}

\* A new survey makes the stored position invalid.
clear_position_Never == UNCHANGED valid /\ NoFault
clear_position ==
    \/ valid' = FALSE /\ NoFault
    \/ UNCHANGED valid /\ Fault("clear")
handle_survey ==
    /\ exit_raw_collection /\ clear_position /\ enter_survey
    /\ UNCHANGED <<stored, left>>
enter_raw_collection ==
    /\ raw' = (raw \/ mode = "transmit")
    /\ UNCHANGED <<stored, valid, rx, mode, at, target, left, survey>> /\ NoFault
handle_stop ==
    /\ IF raw THEN raw' = FALSE /\ at' = "config" /\ target' = stored
              ELSE UNCHANGED <<raw, at, target>>
    /\ UNCHANGED <<stored, valid, rx, mode, left, survey>> /\ NoFault
reset_um980 ==
    /\ IF mode = "transmit" /\ ~raw THEN at' = "config" /\ target' = stored
                                    ELSE UNCHANGED <<at, target>>
    /\ UNCHANGED <<stored, valid, rx, mode, raw, left, survey>> /\ NoFault
handle_position(p) ==
    /\ exit_raw_collection /\ save_position(p, "manual")
    /\ UNCHANGED <<stored, valid, mode, survey>> /\ NoFault

\* The loop drains actions_ first.
handle_action ==
    /\ at = "loop" /\ queue # <<>> /\ queue' = Tail(queue)
    /\ CASE Head(queue) = "survey" -> handle_survey
         [] Head(queue) = "raw" -> enter_raw_collection
         [] Head(queue) = "stop" -> handle_stop
         [] Head(queue) = "reset" -> reset_um980
         [] OTHER -> handle_position(Head(queue))
    /\ UNCHANGED requests

\* A finished survey is taken once, and saved.
take_completed_result ==
    /\ at = "loop" /\ queue = <<>> /\ mode = "survey" /\ survey.pending # None
    /\ survey' = [survey EXCEPT !.pending = None]
    /\ save_position(survey.pending, "result")
    /\ UNCHANGED <<stored, valid, rx, mode, raw, queue, requests, faults, spoiled>>

\* One write of save_position(), in its order.  A write that fails ends the
\* save; with every key written and committed the base starts to transmit.
SaveKey ==
    /\ Saving /\ left # <<>> /\ left' = Tail(left)
    /\ stored' = [c \in Coordinates |-> IF c = Head(left) THEN target[c] ELSE stored[c]]
    /\ valid' = (valid \/ Head(left) = "pos_valid")
    /\ UNCHANGED <<rx, mode, raw, at, target, survey, queue, requests, faults, spoiled>>
SaveFails ==
    /\ Saving /\ left # <<>> /\ left' = <<>> /\ at' = "loop"
    /\ Fault(IF at = "manual" /\ ~valid THEN "refused" ELSE at)
    /\ UNCHANGED <<stored, valid, rx, mode, raw, target, survey, queue, requests>>
Saved ==
    /\ Saving /\ left = <<>>
    /\ enter_transmit(target)
    /\ UNCHANGED <<stored, valid, rx, raw, left, queue, requests, faults, spoiled>>

-----------------------------------------------------------------------------
(* SurveyManager                                                           *)

Minute ==
    /\ survey.state = "collecting"
    /\ ~survey.moved \/ survey.elapsed < MinTime
    /\ survey' = [survey EXCEPT !.moved = TRUE,
                                !.elapsed = IF survey.elapsed < MinTime THEN @ + 1 ELSE @]
    /\ UNCHANGED <<stored, valid, rx, mode, raw, at, target, left, queue, requests, faults, spoiled>>

\* commit_block(): the first fix after a block boundary closes the block
\* before it.
commit_block_Never == survey.blocks
commit_block == IF survey.open /\ survey.moved /\ survey.blocks < MinBlocks
                THEN survey.blocks + 1 ELSE survey.blocks

\* parse_best_position(): the survey is done when it was long enough, has
\* enough blocks and these agree.
parse_best_position(p, stable) ==
    LET done == survey.elapsed >= MinTime /\ commit_block >= MinBlocks /\ stable IN
    /\ survey.state = "collecting" /\ at = "loop"
    /\ survey' = [survey EXCEPT !.open = TRUE, !.moved = FALSE, !.blocks = commit_block,
                                !.state = IF done THEN "done" ELSE @,
                                !.pending = IF done THEN p ELSE @]
    /\ UNCHANGED <<stored, valid, rx, mode, raw, at, target, left, queue, requests, faults, spoiled>>

-----------------------------------------------------------------------------
BaseTask ==
    \/ run_start \/ configure_base \/ configure_survey_output \/ handle_action \/ take_completed_result
    \/ SaveKey \/ SaveFails \/ Saved

Requests == Places \cup {"survey", "raw", "stop", "reset"}

\* A restart: the NVS and the receiver keep what they have.
Reboot ==
    /\ reboots < MaxReboots /\ reboots' = reboots + 1
    /\ at' = "boot" /\ mode' = "survey" /\ raw' = FALSE
    /\ target' = Everywhere(None) /\ left' = <<>>
    /\ survey' = NoSurvey /\ queue' = <<>>
    /\ spoiled' = IF at = "manual" /\ valid THEN spoiled \cup {"manual"} ELSE spoiled
    /\ UNCHANGED <<stored, valid, rx, requests, faults>>

Fix == \E p \in Places, stable \in BOOLEAN : parse_best_position(p, stable)
Next ==
    \/ (BaseTask \/ Minute \/ Fix \/ \E r \in Requests : Request(r)) /\ UNCHANGED reboots
    \/ Reboot

\* The task runs, time passes, and the receiver delivers fixes that agree.
Spec ==
    /\ Init /\ [][Next]_vars
    /\ WF_vars(BaseTask /\ UNCHANGED reboots)
    /\ WF_vars(Minute /\ UNCHANGED reboots)
    /\ SF_vars(\E p \in Places : parse_best_position(p, TRUE) /\ UNCHANGED reboots)

-----------------------------------------------------------------------------
Coordinate == Places \cup {None}
TypeOK ==
    /\ stored \in [Coordinates -> Coordinate] /\ rx \in [Coordinates -> Coordinate]
    /\ target \in [Coordinates -> Coordinate]
    /\ valid \in BOOLEAN /\ raw \in BOOLEAN /\ mode \in {"survey", "transmit"}
    /\ at \in {"boot", "loop", "config", "manual", "result"}
    /\ survey.elapsed \in 0..MinTime /\ survey.blocks \in 0..MinBlocks
    /\ raw => mode = "transmit"

Whole(p) == \E q \in Places : p = Everywhere(q)

\* save_position() and clear_position(): a position marked valid is one
\* position and not a mixture, whatever write fails and whenever the device
\* restarts, unless a manual position was being written over a valid one or
\* the old position could not be cleared before a survey.
StoredIsWhole ==
    valid /\ ~Saving => Whole(stored) \/ spoiled \cap {"manual", "clear"} # {}

\* enter_transmit(), exit_raw_collection(), reset_um980(): in its loop, the
\* base transmits the position that is stored, unless a save or a receiver
\* command failed.
TransmitsStored ==
    mode = "transmit" /\ at = "loop" => rx = stored \/ spoiled \cap {"manual", "config"} # {}

\* run() and the transitions: types, and that store and receiver agree.
PositionConsistent == TypeOK /\ TransmitsStored

\* run() and take_completed_result(): when nobody asks for anything any more,
\* the base ends up transmitting, unless a survey's result was not saved.
EndsUpTransmitting == <>[](mode = "transmit" \/ "result" \in spoiled)
=============================================================================
