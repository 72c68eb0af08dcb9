--------------------------- MODULE PositionProofs ----------------------------
(***************************************************************************)
(* Theorems about Position, for any positions, any number of blocks, and   *)
(* any number of requests, faults and restarts: a position marked valid is *)
(* one position, and the base transmits the one that is stored.            *)
(***************************************************************************)
EXTENDS Position, Integers, TLAPS

-----------------------------------------------------------------------------
(* The inductive invariant.                                                *)

Surveys == [state : {"idle", "collecting", "done"}, elapsed : 0..MinTime, moved : BOOLEAN,
            open : BOOLEAN, blocks : 0..MinBlocks, pending : Coordinate]

\* What save_position() may have left to write: the last of its keys.
Names == Coordinates \cup {"pos_valid", "commit"}
Rest == {l \in Seq(Names) : Len(l) <= 5 /\ \A i \in 1..Len(l) : l[i] = Keys[5 - Len(l) + i]}
Todo(l) == {Keys[i] : i \in 6 - Len(l)..5}

PosTypes ==
    /\ TypeOK
    /\ survey \in Surveys /\ left \in Rest /\ queue \in Seq(Requests)

\* The exceptions of the two properties.
Mixed == spoiled \cap {"manual", "clear"} # {}
Astray == spoiled \cap {"manual", "config"} # {}

\* A save writes one position, key by key.
SaveWrites ==
    Saving => /\ Whole(target)
              /\ \A c \in Coordinates : c \notin Todo(left) => stored[c] = target[c]
              /\ "pos_valid" \notin Todo(left) => valid

\* A survey's result is saved in survey mode, once, and over no valid position:
\* what is marked valid meanwhile was marked by this save.
ResultInSurvey == at = "result" => mode = "survey" /\ survey.state = "done" /\ survey.pending = None
ResultMarks == at = "result" /\ valid => "pos_valid" \notin Todo(left) \/ Mixed

\* A survey that runs, or whose result is not taken yet, runs because there is
\* no valid position.
SurveyIsNeeded ==
    /\ survey.pending # None => survey.state = "done"
    /\ at \notin {"boot", "manual"} /\ (survey.state = "collecting" \/ survey.pending # None)
            => ~valid \/ Mixed

\* The base transmits, and configures the receiver with, a valid position that
\* is stored.
TransmitNeedsValid == mode = "transmit" => valid
ConfiguresStored == at = "config" /\ mode = "transmit" => target = stored

PosInv ==
    /\ PosTypes /\ SaveWrites /\ ResultInSurvey /\ ResultMarks /\ SurveyIsNeeded
    /\ TransmitNeedsValid /\ ConfiguresStored
    /\ StoredIsWhole /\ TransmitsStored

-----------------------------------------------------------------------------
(* Operators.                                                              *)

\* The keys in the order save_position() writes them: pos_valid after all
\* three coordinates.
LEMMA TodoFacts ==
  ASSUME NEW l \in Rest
  PROVE  /\ "pos_valid" \notin Todo(l) => Todo(l) \cap Coordinates = {}
         /\ l = <<>> => Todo(l) = {}
         /\ l # <<>> => /\ Tail(l) \in Rest
                        /\ Todo(l) = Todo(Tail(l)) \cup {Head(l)}
                        /\ Head(l) = "pos_valid" => "pos_valid" \notin Todo(Tail(l))
<1>1. /\ Keys[1] = "lat" /\ Keys[2] = "lon" /\ Keys[3] = "hgt" /\ Keys[4] = "pos_valid"
      /\ Keys[5] = "commit"
  BY DEF Keys
<1> DEFINE n == Len(l)
<1>2. /\ l \in Seq(Names) /\ n \in Nat /\ n <= 5
      /\ \A i \in 1..n : l[i] = Keys[5 - n + i]
      /\ Todo(l) = {Keys[i] : i \in 6 - n..5}
      /\ l = <<>> => n = 0
  BY DEF Rest, Todo
<1>3. l # <<>> => /\ n # 0 /\ Tail(l) \in Seq(Names) /\ Len(Tail(l)) = n - 1
                  /\ \A i \in 1..n - 1 : Tail(l)[i] = l[i + 1]
                  /\ Head(l) = l[1]
                  /\ Todo(Tail(l)) = {Keys[i] : i \in 6 - (n - 1)..5}
  BY <1>2 DEF Todo
<1> HIDE DEF n
<1>4. ASSUME "pos_valid" \notin Todo(l) PROVE Todo(l) \cap Coordinates = {}
  <2>1. 4 \notin 6 - n..5
    BY <1>1, <1>2, <1>4
  <2>2. 6 - n..5 \subseteq {5}
    BY <1>2, <2>1
  <2> QED
    BY <1>1, <1>2, <2>2 DEF Coordinates
<1>5. ASSUME l = <<>> PROVE Todo(l) = {}
  <2>1. 6 - n..5 = {}
    BY <1>2, <1>5
  <2> QED
    BY <1>2, <2>1
<1>6. ASSUME l # <<>>
      PROVE  /\ Tail(l) \in Rest
             /\ Todo(l) = Todo(Tail(l)) \cup {Head(l)}
             /\ Head(l) = "pos_valid" => "pos_valid" \notin Todo(Tail(l))
  <2>1. n \in {1, 2, 3, 4, 5}
    BY <1>2, <1>3, <1>6
  <2>2. Tail(l) \in Rest
    <3> SUFFICES ASSUME NEW i \in 1..n - 1 PROVE Tail(l)[i] = Keys[5 - (n - 1) + i]
      <4>1. n - 1 <= 5
        BY <2>1
      <4> QED
        BY <1>3, <1>6, <4>1 DEF Rest
    <3>1. i + 1 \in 1..n /\ 5 - n + (i + 1) = 5 - (n - 1) + i
      BY <2>1
    <3> QED
      BY <1>2, <1>3, <1>6, <3>1
  <2>3. Head(l) = Keys[6 - n]
    <3>1. 1 \in 1..n /\ 5 - n + 1 = 6 - n
      BY <2>1
    <3> QED
      BY <1>2, <1>3, <1>6, <3>1
  <2>4. 6 - n..5 = (6 - (n - 1)..5) \cup {6 - n}
    BY <2>1
  <2>5. Todo(l) = Todo(Tail(l)) \cup {Head(l)}
    BY <1>2, <1>3, <1>6, <2>3, <2>4
  <2>6. ASSUME Head(l) = "pos_valid" PROVE "pos_valid" \notin Todo(Tail(l))
    <3>1. n = 2
      BY <1>1, <2>1, <2>3, <2>6
    <3>2. 6 - (n - 1)..5 = {5}
      BY <3>1
    <3> QED
      BY <1>1, <1>3, <1>6, <3>2
  <2> QED
    BY <2>2, <2>5, <2>6
<1> QED
  BY <1>4, <1>5, <1>6

LEMMA KeysFacts == Keys \in Rest /\ <<>> \in Rest /\ Coordinates \cup {"pos_valid"} \subseteq Todo(Keys)
<1>1. /\ Keys[1] = "lat" /\ Keys[2] = "lon" /\ Keys[3] = "hgt" /\ Keys[4] = "pos_valid"
      /\ Keys \in Seq(Names) /\ Len(Keys) = 5
  <2>1. {"lat", "lon", "hgt", "pos_valid", "commit"} \subseteq Names
    BY DEF Names, Coordinates
  <2>2. ASSUME NEW a \in Names, NEW b \in Names, NEW c \in Names, NEW d \in Names, NEW e \in Names
        PROVE  <<a, b, c, d, e>> \in Seq(Names) /\ Len(<<a, b, c, d, e>>) = 5
    OBVIOUS
  <2>3. /\ Keys[1] = "lat" /\ Keys[2] = "lon" /\ Keys[3] = "hgt" /\ Keys[4] = "pos_valid"
    BY DEF Keys
  <2> QED
    BY <2>1, <2>2, <2>3 DEF Keys
<1>2. <<>> \in Rest
  BY DEF Rest
<1>3. Keys \in Rest
  <2>1. /\ \A i \in 1..Len(Keys) : Keys[i] = Keys[5 - Len(Keys) + i]
        /\ Len(Keys) <= 5
    BY <1>1
  <2> QED
    BY <1>1, <2>1 DEF Rest
<1>4. {1, 2, 3, 4} \subseteq 6 - Len(Keys)..5
  BY <1>1
<1> QED
  BY <1>1, <1>2, <1>3, <1>4 DEF Todo, Coordinates

LEMMA EverywhereFacts ==
  ASSUME NEW p \in Coordinate
  PROVE  Everywhere(p) \in [Coordinates -> Coordinate] /\ (p \in Places => Whole(Everywhere(p)))
BY DEF Everywhere, Whole

\* The surveys the base starts with, and runs.
LEMMA SurveyFacts ==
  /\ NoSurvey \in Surveys /\ NoSurvey.pending = None /\ NoSurvey.state = "idle"
  /\ Collecting \in Surveys /\ Collecting.pending = None /\ Collecting.state = "collecting"
<1>1. 0 \in 0..MinTime /\ 0 \in 0..MinBlocks /\ None \in Coordinate
  BY PositionAssumption DEF Coordinate
<1>2. NoSurvey \in Surveys /\ NoSurvey.pending = None /\ NoSurvey.state = "idle"
  BY <1>1 DEF NoSurvey, Surveys
<1>3. Collecting \in Surveys /\ Collecting.pending = None /\ Collecting.state = "collecting"
  BY <1>2 DEF Collecting, Surveys
<1> QED
  BY <1>2, <1>3

LEMMA PosStart == Init => PosInv
<1> SUFFICES ASSUME Init PROVE PosInv
  OBVIOUS
<1>1. Everywhere(None) \in [Coordinates -> Coordinate]
  BY EverywhereFacts DEF Coordinate
<1>2. PosTypes
  <2>1. survey \in Surveys /\ survey.elapsed \in 0..MinTime /\ survey.blocks \in 0..MinBlocks
    BY SurveyFacts DEF Init, Surveys
  <2>2. left \in Rest /\ queue \in Seq(Requests)
    BY KeysFacts DEF Init
  <2> QED
    BY <1>1, <2>1, <2>2 DEF Init, PosTypes, TypeOK
<1> QED
  BY <1>2, SurveyFacts DEF Init, PosInv, SaveWrites, ResultInSurvey, ResultMarks, SurveyIsNeeded, Saving,
         TransmitNeedsValid, ConfiguresStored, StoredIsWhole, TransmitsStored

-----------------------------------------------------------------------------
(* The steps.                                                              *)

\* Steps between two saves that store nothing and start no survey.
LEMMA PosKept ==
  ASSUME PosInv, PosTypes', UNCHANGED <<stored, left>>, ~Saving, ~Saving',
         spoiled \subseteq spoiled',
         valid' = valid \/ valid' = FALSE,
         mode' = "transmit" => valid' /\ (mode = "transmit" \/ at' # "loop"),
         at' = "config" /\ mode' = "transmit" => target' = stored,
         \/ survey'.state # "collecting" /\ survey'.pending = None
         \/ valid' = FALSE
         \/ spoiled' \cap {"manual", "clear"} # {}
         \/ survey' = survey /\ at # "boot",
         survey'.pending # None => survey'.state = "done",
         \/ rx' = rx /\ at = "loop"
         \/ rx' = stored \/ "config" \in spoiled' \/ mode' = "survey" \/ at' # "loop"
  PROVE  PosInv'
<1>1. SaveWrites' /\ ResultInSurvey' /\ ResultMarks' /\ TransmitNeedsValid' /\ ConfiguresStored'
  BY DEF SaveWrites, ResultInSurvey, ResultMarks, TransmitNeedsValid, ConfiguresStored, Saving
<1>2. SurveyIsNeeded'
  BY DEF PosInv, SurveyIsNeeded, Mixed, Saving
<1>3. StoredIsWhole'
  BY DEF PosInv, StoredIsWhole, Whole, PosTypes, TypeOK
<1>4. TransmitsStored'
  <2> SUFFICES ASSUME mode' = "transmit", at' = "loop", ~Astray'
               PROVE  rx' = stored'
    BY DEF TransmitsStored, Astray
  <2>1. mode = "transmit"
    OBVIOUS
  <2>2. at = "loop" => rx = stored
    BY <2>1 DEF PosInv, TransmitsStored, Astray
  <2> QED
    BY <2>2, PosTypes' DEF Astray, PosTypes, TypeOK
<1> QED
  BY <1>1, <1>2, <1>3, <1>4 DEF PosInv

\* What the invariant says of types, one by one.
LEMMA TypeFacts ==
  ASSUME PosInv
  PROVE  /\ stored \in [Coordinates -> Coordinate] /\ rx \in [Coordinates -> Coordinate]
         /\ target \in [Coordinates -> Coordinate]
         /\ valid \in BOOLEAN /\ raw \in BOOLEAN /\ mode \in {"survey", "transmit"}
         /\ at \in {"boot", "loop", "config", "manual", "result"}
         /\ survey \in Surveys /\ left \in Rest /\ queue \in Seq(Requests)
         /\ raw => mode = "transmit"
BY DEF PosInv, PosTypes, TypeOK

LEMMA TypesBack ==
  ASSUME /\ stored' \in [Coordinates -> Coordinate] /\ rx' \in [Coordinates -> Coordinate]
         /\ target' \in [Coordinates -> Coordinate]
         /\ valid' \in BOOLEAN /\ raw' \in BOOLEAN /\ mode' \in {"survey", "transmit"}
         /\ at' \in {"boot", "loop", "config", "manual", "result"}
         /\ survey' \in Surveys /\ left' \in Rest /\ queue' \in Seq(Requests)
         /\ raw' => mode' = "transmit"
  PROVE  PosTypes'
BY DEF PosTypes, TypeOK, Surveys

\* The transitions at the start, and from and to the receiver.
LEMMA ConfigSteps ==
  ASSUME PosInv, run_start \/ configure_base \/ configure_survey_output
  PROVE  PosInv'
<1> USE TypeFacts, SurveyFacts
<1>1. CASE run_start /\ valid
  <2>1. /\ at = "boot" /\ mode' = "transmit" /\ survey' = NoSurvey /\ at' = "config" /\ target' = stored
        /\ UNCHANGED <<stored, valid, rx, raw, left, queue, spoiled>>
    BY <1>1 DEF run_start, enter_transmit, NoFault
  <2>2. PosTypes'
    BY <2>1, TypesBack
  <2> QED
    BY <1>1, <2>1, <2>2, PosKept DEF Saving
<1>2. CASE run_start /\ ~valid
  <2>1. /\ at = "boot" /\ mode' = "survey" /\ survey' = Collecting /\ at' = "config"
        /\ UNCHANGED <<stored, valid, rx, raw, left, queue, spoiled, target>>
    BY <1>2 DEF run_start, enter_survey, NoFault
  <2>2. ~raw
    BY <1>2 DEF PosInv, TransmitNeedsValid
  <2>3. PosTypes'
    BY <2>1, <2>2, TypesBack
  <2> QED
    BY <1>2, <2>1, <2>3, PosKept DEF Saving
<1>3. CASE configure_base
  <2>1. /\ at = "config" /\ mode = "transmit" /\ at' = "loop"
        /\ UNCHANGED <<stored, valid, mode, raw, target, left, survey, queue>>
        /\ rx' \in {rx, target} /\ spoiled \subseteq spoiled'
        /\ rx' = target \/ "config" \in spoiled'
    BY <1>3 DEF configure_base, configured, NoFault, Fault
  <2>2. target = stored /\ valid
    BY <2>1 DEF PosInv, ConfiguresStored, TransmitNeedsValid
  <2>3. PosTypes'
    BY <2>1, TypesBack
  <2>4. survey.pending # None => survey.state = "done"
    BY DEF PosInv, SurveyIsNeeded
  <2> QED
    BY <2>1, <2>2, <2>3, <2>4, PosKept DEF Saving
<1>4. CASE configure_survey_output
  <2>1. /\ at = "config" /\ mode = "survey" /\ at' = "loop"
        /\ UNCHANGED <<stored, valid, mode, raw, target, left, survey, queue, rx>>
        /\ spoiled \subseteq spoiled'
    BY <1>4 DEF configure_survey_output, configured, NoFault, Fault
  <2>2. PosTypes'
    BY <2>1, TypesBack
  <2>3. survey.pending # None => survey.state = "done"
    BY DEF PosInv, SurveyIsNeeded
  <2> QED
    BY <2>1, <2>2, <2>3, PosKept DEF Saving
<1> QED
  BY <1>1, <1>2, <1>3, <1>4 DEF run_start

\* The loop takes an action from the queue.
LEMMA HandleCases ==
  ASSUME PosInv, handle_action
  PROVE  /\ at = "loop" /\ queue' \in Seq(Requests)
         /\ \/ handle_survey \/ enter_raw_collection \/ handle_stop \/ reset_um980
            \/ \E p \in Places : handle_position(p)
<1>1. queue \in Seq(Requests) /\ at = "loop" /\ queue # <<>> /\ queue' = Tail(queue)
  BY TypeFacts DEF handle_action
<1>2. queue' \in Seq(Requests) /\ Head(queue) \in Requests
  BY <1>1
<1>3. CASE Head(queue) \in {"survey", "raw", "stop", "reset"}
  BY <1>1, <1>2, <1>3 DEF handle_action
<1>4. CASE Head(queue) \notin {"survey", "raw", "stop", "reset"}
  <2>1. Head(queue) \in Places
    BY <1>2, <1>4 DEF Requests
  <2>2. handle_position(Head(queue))
    BY <1>4 DEF handle_action
  <2> QED
    BY <1>1, <1>2, <2>1, <2>2
<1> QED
  BY <1>1, <1>3, <1>4

LEMMA ActionSteps ==
  ASSUME PosInv, handle_action
  PROVE  PosInv'
<1> USE TypeFacts, SurveyFacts
<1>1. at = "loop" /\ queue' \in Seq(Requests) /\ (survey.pending # None => survey.state = "done")
  BY HandleCases DEF PosInv, SurveyIsNeeded
<1>2. CASE handle_survey
  <2>1. /\ mode' = "survey" /\ survey' = Collecting /\ at' = "config" /\ raw' = FALSE
        /\ UNCHANGED <<stored, left, target>>
        /\ rx' \in {rx, stored} /\ spoiled \subseteq spoiled'
        /\ valid' = FALSE \/ (valid' = valid /\ "clear" \in spoiled')
    BY <1>2 DEF handle_survey, exit_raw_collection, clear_position, enter_survey, NoFault, Fault
  <2>2. PosTypes'
    BY <1>1, <2>1, TypesBack
  <2> QED
    BY <1>1, <2>1, <2>2, PosKept DEF Saving
<1>3. CASE enter_raw_collection
  <2>1. /\ raw' = (raw \/ mode = "transmit") /\ UNCHANGED <<stored, valid, rx, mode, at, target, left, survey, spoiled>>
    BY <1>3 DEF enter_raw_collection, NoFault
  <2>2. PosTypes'
    BY <1>1, <2>1, TypesBack
  <2>3. mode = "transmit" => valid
    BY DEF PosInv, TransmitNeedsValid
  <2> QED
    BY <1>1, <2>1, <2>2, <2>3, PosKept DEF Saving
<1>4. CASE handle_stop \/ reset_um980
  <2>1. /\ UNCHANGED <<stored, valid, rx, mode, left, survey, spoiled>> /\ (raw' = raw \/ raw' = FALSE)
        /\ (at' = at /\ target' = target) \/ (at' = "config" /\ target' = stored)
    BY <1>4 DEF handle_stop, reset_um980, NoFault
  <2>2. PosTypes'
    <3>1. raw' \in BOOLEAN /\ (raw' => mode' = "transmit")
      <4>1. raw \in BOOLEAN /\ (raw => mode = "transmit") /\ mode' = mode
        BY <2>1
      <4>2. CASE raw' = raw
        BY <4>1, <4>2, Zenon
      <4>3. CASE raw' = FALSE
        BY <4>3
      <4> QED
        BY <2>1, <4>2, <4>3, Zenon
    <3>2. /\ at' \in {"boot", "loop", "config", "manual", "result"}
          /\ target' \in [Coordinates -> Coordinate]
      BY <2>1
    <3>3. stored' \in [Coordinates -> Coordinate] /\ rx' \in [Coordinates -> Coordinate]
      BY <2>1
    <3>4. valid' \in BOOLEAN /\ mode' \in {"survey", "transmit"} /\ survey' \in Surveys /\ left' \in Rest
      BY <2>1
    <3> QED
      BY <1>1, <3>1, <3>2, <3>3, <3>4, TypesBack
  <2>3. mode = "transmit" => valid
    BY DEF PosInv, TransmitNeedsValid
  <2> QED
    BY <1>1, <2>1, <2>2, <2>3, PosKept DEF Saving
<1>5. ASSUME NEW p \in Places, handle_position(p) PROVE PosInv'
  <2>1. /\ at' = "manual" /\ target' = Everywhere(p) /\ left' = Keys /\ raw' = FALSE
        /\ rx' \in {rx, stored} /\ UNCHANGED <<stored, valid, mode, survey, spoiled>>
    BY <1>5 DEF handle_position, save_position, exit_raw_collection, NoFault
  <2>2. Everywhere(p) \in [Coordinates -> Coordinate] /\ Whole(Everywhere(p))
    BY EverywhereFacts DEF Coordinate
  <2>3. PosTypes'
    BY <1>1, <2>1, <2>2, KeysFacts, TypesBack
  <2>4. SaveWrites'
    <3>1. Whole(target)'
      BY <2>1, <2>2 DEF Whole
    <3>2. Coordinates \cup {"pos_valid"} \subseteq Todo(left')
      BY <2>1, KeysFacts
    <3> QED
      BY <3>1, <3>2 DEF SaveWrites
  <2> QED
    BY <1>1, <2>1, <2>3, <2>4
       DEF PosInv, ResultInSurvey, ResultMarks, SurveyIsNeeded, TransmitNeedsValid, ConfiguresStored,
           StoredIsWhole, TransmitsStored, Saving
<1> QED
  BY HandleCases, <1>2, <1>3, <1>4, <1>5

\* Of what a save has written when it is cut short after pos_valid, all three
\* coordinates are written; before that a survey's result is not marked valid.
LEMMA ResultIsWhole ==
  ASSUME PosInv, at = "result", valid, ~Mixed
  PROVE  Whole(stored)
<1>1. "pos_valid" \notin Todo(left) /\ left \in Rest
  BY TypeFacts DEF PosInv, ResultMarks
<1>2. Todo(left) \cap Coordinates = {}
  BY <1>1, TodoFacts
<1>3. Whole(target) /\ \A c \in Coordinates : stored[c] = target[c]
  BY <1>2 DEF PosInv, SaveWrites, Saving
<1>4. stored = target
  BY <1>3, TypeFacts
<1> QED
  BY <1>3, <1>4

\* A save: how it begins with a survey's result, its writes, and its ends.
LEMMA SaveSteps ==
  ASSUME PosInv, take_completed_result \/ SaveKey \/ SaveFails \/ Saved
  PROVE  PosInv'
<1> USE TypeFacts, SurveyFacts
<1>1. CASE take_completed_result
  <2>1. /\ at = "loop" /\ mode = "survey" /\ survey.pending # None
        /\ survey' = [survey EXCEPT !.pending = None]
        /\ at' = "result" /\ target' = Everywhere(survey.pending) /\ left' = Keys
        /\ UNCHANGED <<stored, valid, rx, mode, raw, queue, spoiled>>
    BY <1>1 DEF take_completed_result, save_position
  <2>2. survey.pending \in Places /\ survey.state = "done"
    BY <2>1 DEF Surveys, Coordinate, PosInv, SurveyIsNeeded
  <2>3. survey' \in Surveys /\ survey'.state = "done" /\ survey'.pending = None
    BY <2>1, <2>2 DEF Surveys, Coordinate
  <2>4. target' \in [Coordinates -> Coordinate] /\ Whole(target')
    BY <2>1, <2>2, EverywhereFacts DEF Coordinate
  <2>5. PosTypes'
    BY <2>1, <2>3, <2>4, KeysFacts, TypesBack
  <2>6. SaveWrites'
    <3>1. Whole(target)'
      BY <2>4 DEF Whole
    <3>2. Coordinates \cup {"pos_valid"} \subseteq Todo(left')
      BY <2>1, KeysFacts
    <3> QED
      BY <3>1, <3>2 DEF SaveWrites
  <2>7. ~valid \/ Mixed
    BY <2>1 DEF PosInv, SurveyIsNeeded
  <2> QED
    BY <2>1, <2>3, <2>5, <2>6, <2>7
       DEF PosInv, ResultInSurvey, ResultMarks, SurveyIsNeeded, TransmitNeedsValid, ConfiguresStored,
           StoredIsWhole, TransmitsStored, Saving, Mixed
<1>2. CASE SaveKey
  <2>1. /\ Saving /\ left # <<>> /\ left' = Tail(left)
        /\ stored' = [c \in Coordinates |-> IF c = Head(left) THEN target[c] ELSE stored[c]]
        /\ valid' = (valid \/ Head(left) = "pos_valid")
        /\ UNCHANGED <<rx, mode, raw, at, target, survey, queue, spoiled>>
    BY <1>2 DEF SaveKey
  <2>2. /\ left' \in Rest /\ Todo(left) = Todo(left') \cup {Head(left)}
        /\ Head(left) = "pos_valid" => "pos_valid" \notin Todo(left')
    BY <2>1, TodoFacts
  <2>3. stored' \in [Coordinates -> Coordinate]
    BY <2>1
  <2>4. PosTypes'
    BY <2>1, <2>2, <2>3, TypesBack
  <2>5. SaveWrites'
    <3>1. /\ Whole(target) /\ \A c \in Coordinates : c \notin Todo(left) => stored[c] = target[c]
          /\ "pos_valid" \notin Todo(left) => valid
      BY <2>1 DEF PosInv, SaveWrites
    <3>2. Whole(target)'
      BY <2>1, <3>1 DEF Whole
    <3>3. \A c \in Coordinates : c \notin Todo(left') => stored'[c] = target'[c]
      BY <2>1, <2>2, <3>1
    <3>4. "pos_valid" \notin Todo(left') => valid'
      BY <2>1, <2>2, <3>1
    <3> QED
      BY <3>2, <3>3, <3>4 DEF SaveWrites
  <2>6. ResultMarks'
    BY <2>1, <2>2 DEF PosInv, ResultMarks, Mixed
  <2> QED
    BY <2>1, <2>4, <2>5, <2>6
       DEF PosInv, ResultInSurvey, SurveyIsNeeded, TransmitNeedsValid, ConfiguresStored,
           StoredIsWhole, TransmitsStored, Saving, Mixed
<1>3. CASE SaveFails
  <2>1. /\ Saving /\ left' = <<>> /\ at' = "loop"
        /\ spoiled' = spoiled \cup {IF at = "manual" /\ ~valid THEN "refused" ELSE at}
        /\ UNCHANGED <<stored, valid, rx, mode, raw, target, survey, queue>>
    BY <1>3 DEF SaveFails, Fault
  <2>2. PosTypes'
    BY <2>1, KeysFacts, TypesBack
  <2>3. valid => Whole(stored) \/ Mixed'
    <3>1. CASE at = "manual"
      BY <2>1, <3>1 DEF Mixed
    <3>2. CASE at = "result" /\ valid /\ ~Mixed
      BY <3>2, ResultIsWhole
    <3> QED
      BY <2>1, <3>1, <3>2 DEF Saving, Mixed
  <2>4. StoredIsWhole'
    BY <2>1, <2>3 DEF StoredIsWhole, Mixed, Whole
  <2>5. SurveyIsNeeded'
    BY <2>1 DEF PosInv, SurveyIsNeeded, ResultInSurvey, Saving, Mixed
  <2>6. TransmitsStored'
    BY <2>1 DEF PosInv, TransmitsStored, ResultInSurvey, TransmitNeedsValid, Saving
  <2> QED
    BY <2>1, <2>2, <2>4, <2>5, <2>6
       DEF PosInv, SaveWrites, ResultInSurvey, ResultMarks, TransmitNeedsValid, ConfiguresStored, Saving
<1>4. CASE Saved
  <2>1. /\ Saving /\ left = <<>> /\ mode' = "transmit" /\ survey' = NoSurvey
        /\ at' = "config" /\ target' = target
        /\ UNCHANGED <<stored, valid, rx, raw, left, queue, spoiled>>
    BY <1>4 DEF Saved, enter_transmit
  <2>2. Todo(left) = {}
    BY <2>1, TodoFacts
  <2>3. Whole(target) /\ (\A c \in Coordinates : stored[c] = target[c]) /\ valid
    BY <2>1, <2>2 DEF PosInv, SaveWrites
  <2>4. stored = target
    BY <2>3
  <2>5. PosTypes'
    BY <2>1, TypesBack
  <2>6. StoredIsWhole'
    BY <2>1, <2>3, <2>4 DEF StoredIsWhole, Whole
  <2> QED
    BY <2>1, <2>3, <2>4, <2>5, <2>6
       DEF PosInv, SaveWrites, ResultInSurvey, ResultMarks, SurveyIsNeeded, TransmitNeedsValid,
           ConfiguresStored, TransmitsStored, Saving
<1> QED
  BY <1>1, <1>2, <1>3, <1>4

\* Time and requests pass while the base does something else.
LEMMA MinuteSteps ==
  ASSUME PosInv, Minute
  PROVE  PosInv'
<1> USE TypeFacts
<1>1. /\ survey.state = "collecting"
      /\ survey' = [survey EXCEPT !.moved = TRUE,
                     !.elapsed = IF survey.elapsed < MinTime THEN survey.elapsed + 1 ELSE survey.elapsed]
      /\ UNCHANGED <<stored, valid, rx, mode, raw, at, target, left, queue, requests, faults, spoiled>>
  BY DEF Minute
<1>2. /\ survey' \in Surveys /\ survey'.state = survey.state /\ survey'.pending = survey.pending
  <2>1. survey.elapsed \in 0..MinTime /\ MinTime \in Nat
    BY PositionAssumption DEF Surveys
  <2>2. (IF survey.elapsed < MinTime THEN survey.elapsed + 1 ELSE survey.elapsed) \in 0..MinTime
    BY <2>1
  <2> HIDE DEF Surveys
  <2>3. ASSUME NEW n \in 0..MinTime
        PROVE  LET s == [survey EXCEPT !.moved = TRUE, !.elapsed = n]
               IN  s \in Surveys /\ s.state = survey.state /\ s.pending = survey.pending
    BY DEF Surveys
  <2> QED
    BY <1>1, <2>2, <2>3
<1>3. PosTypes'
  BY <1>1, <1>2, TypesBack
<1> QED
  BY <1>1, <1>2, <1>3
     DEF PosInv, SaveWrites, ResultInSurvey, ResultMarks, SurveyIsNeeded, TransmitNeedsValid,
         ConfiguresStored, StoredIsWhole, TransmitsStored, Saving, Mixed, Todo, Whole

LEMMA RequestSteps ==
  ASSUME PosInv, NEW r \in Requests, Request(r)
  PROVE  PosInv'
<1> USE TypeFacts
<1>1. /\ queue' = Append(queue, r)
      /\ UNCHANGED <<stored, valid, rx, mode, raw, at, target, left, survey, faults, spoiled>>
  BY DEF Request
<1>2. PosTypes'
  BY <1>1, TypesBack
<1> QED
  BY <1>1, <1>2
     DEF PosInv, SaveWrites, ResultInSurvey, ResultMarks, SurveyIsNeeded, TransmitNeedsValid,
         ConfiguresStored, StoredIsWhole, TransmitsStored, Saving, Mixed, Todo, Whole

\* A fix: only a survey that runs takes it, and only a finished one has a result.
LEMMA FixSteps ==
  ASSUME PosInv, NEW p \in Places, NEW stable \in BOOLEAN, parse_best_position(p, stable)
  PROVE  PosInv'
<1> USE TypeFacts
<1> DEFINE done == survey.elapsed >= MinTime /\ commit_block >= MinBlocks /\ stable
           After(n, t, q) == [survey EXCEPT !.open = TRUE, !.moved = FALSE, !.blocks = n,
                                            !.state = t, !.pending = q]
<1>1. /\ survey.state = "collecting" /\ at = "loop"
      /\ survey' = After(commit_block, IF done THEN "done" ELSE survey.state,
                                        IF done THEN p ELSE survey.pending)
      /\ UNCHANGED <<stored, valid, rx, mode, raw, at, target, left, queue, requests, faults, spoiled>>
  BY DEF parse_best_position
<1>2. commit_block \in 0..MinBlocks
  BY PositionAssumption DEF commit_block, Surveys
<1>3. survey.pending # None => survey.state = "done"
  BY DEF PosInv, SurveyIsNeeded
<1>4. survey.pending = None
  BY <1>1, <1>3
<1>5. /\ survey' \in Surveys
      /\ survey'.pending # None => survey'.state = "done"
  <2>1. ASSUME NEW n \in 0..MinBlocks, NEW t \in {"collecting", "done"}, NEW q \in Coordinate
        PROVE  After(n, t, q) \in Surveys /\ After(n, t, q).state = t /\ After(n, t, q).pending = q
    BY DEF Surveys
  <2> HIDE DEF done, After
  <2>2. CASE done
    <3>1. survey' = After(commit_block, "done", p) /\ p \in Coordinate
      BY <1>1, <2>2 DEF Coordinate
    <3> QED
      BY <1>2, <2>1, <3>1
  <2>3. CASE ~done
    <3>1. survey' = After(commit_block, "collecting", None) /\ None \in Coordinate
      BY <1>1, <1>4, <2>3 DEF Coordinate
    <3> QED
      BY <1>2, <2>1, <3>1
  <2> QED
    BY <2>2, <2>3
<1> HIDE DEF done, After
<1>6. PosTypes'
  BY <1>1, <1>5, TypesBack
<1>7. ~valid \/ Mixed
  BY <1>1 DEF PosInv, SurveyIsNeeded
<1> QED
  BY <1>1, <1>5, <1>6, <1>7
     DEF PosInv, SaveWrites, ResultInSurvey, ResultMarks, SurveyIsNeeded, TransmitNeedsValid,
         ConfiguresStored, StoredIsWhole, TransmitsStored, Saving, Mixed, Whole

\* A restart between any two writes.
LEMMA RebootSteps ==
  ASSUME PosInv, Reboot
  PROVE  PosInv'
<1> USE TypeFacts, SurveyFacts
<1>1. /\ at' = "boot" /\ mode' = "survey" /\ raw' = FALSE /\ left' = <<>> /\ queue' = <<>>
      /\ target' = Everywhere(None) /\ survey' = NoSurvey
      /\ spoiled' = (IF at = "manual" /\ valid THEN spoiled \cup {"manual"} ELSE spoiled)
      /\ UNCHANGED <<stored, valid, rx>>
  BY DEF Reboot
<1>2. PosTypes'
  <2>1. Everywhere(None) \in [Coordinates -> Coordinate]
    BY EverywhereFacts DEF Coordinate
  <2>2. left' \in Rest /\ queue' \in Seq(Requests)
    BY <1>1, KeysFacts
  <2>3. /\ stored' \in [Coordinates -> Coordinate] /\ rx' \in [Coordinates -> Coordinate]
        /\ valid' \in BOOLEAN
    BY <1>1
  <2> QED
    BY <1>1, <2>1, <2>2, <2>3, TypesBack
<1>3. valid => Whole(stored) \/ Mixed'
  <2>1. CASE at = "manual"
    BY <1>1, <2>1 DEF Mixed
  <2>2. CASE at = "result"
    <3>1. valid /\ ~Mixed => Whole(stored)
      BY <2>2, ResultIsWhole
    <3> QED
      BY <1>1, <2>2, <3>1 DEF Mixed
  <2>3. CASE ~Saving
    BY <1>1, <2>3 DEF PosInv, StoredIsWhole, Saving, Mixed
  <2> QED
    BY <2>1, <2>2, <2>3 DEF Saving
<1>4. StoredIsWhole'
  BY <1>1, <1>3 DEF StoredIsWhole, Mixed, Whole
<1> QED
  BY <1>1, <1>2, <1>4
     DEF PosInv, SaveWrites, ResultInSurvey, ResultMarks, SurveyIsNeeded, TransmitNeedsValid,
         ConfiguresStored, TransmitsStored, Saving

LEMMA PosStep == PosInv /\ [Next]_vars => PosInv'
<1> SUFFICES ASSUME PosInv, [Next]_vars PROVE PosInv'
  OBVIOUS
<1>1. CASE run_start \/ configure_base \/ configure_survey_output
  BY <1>1, ConfigSteps
<1>2. CASE handle_action
  BY <1>2, ActionSteps
<1>3. CASE take_completed_result \/ SaveKey \/ SaveFails \/ Saved
  BY <1>3, SaveSteps
<1>4. CASE Minute
  BY <1>4, MinuteSteps
<1>5. CASE Fix
  BY <1>5, FixSteps DEF Fix
<1>6. CASE \E r \in Requests : Request(r)
  BY <1>6, RequestSteps
<1>7. CASE Reboot
  BY <1>7, RebootSteps
<1>8. CASE UNCHANGED vars
  BY <1>8
     DEF vars, PosInv, PosTypes, TypeOK, Surveys, Rest, SaveWrites, ResultInSurvey, ResultMarks,
         SurveyIsNeeded, TransmitNeedsValid, ConfiguresStored, StoredIsWhole, TransmitsStored, Saving,
         Mixed, Todo, Whole
<1> QED
  BY <1>1, <1>2, <1>3, <1>4, <1>5, <1>6, <1>7, <1>8 DEF Next, BaseTask

-----------------------------------------------------------------------------
(* The theorems.                                                           *)

\* run() and its transitions: in its loop the base transmits the position that
\* is stored, whatever was surveyed, entered, stopped, reset or restarted,
\* unless a manual save over a valid position or a receiver command failed.
THEOREM PositionStays == Spec => []PositionConsistent
<1>1. PosInv => PositionConsistent
  BY DEF PosInv, PosTypes, PositionConsistent
<1> QED
  BY PosStart, PosStep, <1>1, PTL DEF Spec

\* save_position() writes pos_valid after the coordinates, and a survey only
\* runs over no valid position: a position marked valid is one position,
\* whichever write fails and whenever the device restarts, with the two
\* exceptions StoredIsWhole names.
THEOREM StoredStaysWhole == Spec => []StoredIsWhole
<1>1. PosInv => StoredIsWhole
  BY DEF PosInv
<1> QED
  BY PosStart, PosStep, <1>1, PTL DEF Spec
=============================================================================
