--------------------------- MODULE StreamGateProofs ---------------------------
(***************************************************************************)
(* Theorems about StreamGate, for any number of callers and push clients   *)
(* and any bounds.                                                         *)
(***************************************************************************)
EXTENDS StreamGate, TLAPS

\* Task t will still write client c from an evaluation of the gate that no
\* flag write has outdated yet.
WillWrite(t, c) ==
    \/ at[t] \in {"read", "tx_cfg", "ex_reset", "ex_cfg"}
    \/ at[t] = "readOut" /\ c # 0
    \/ /\ at[t] = "write"
       /\ next[t] <= c
       /\ t \in stale => next[t] = 0 /\ c # 0

\* A value that no flag write has outdated is what the flags demand.
HeldIsCurrent ==
    \A t \in Tasks \ stale :
        at[t] = "write" => (t \in held <=> Gate(next[t]))

\* Only a task inside the writing half of apply_stream_state() is stale.
StaleIsHeld == \A t \in stale : at[t] = "write"

\* A client that differs from the gate was clobbered, or somebody is still
\* going to write it.
SomeoneWillWrite ==
    \A c \in Clients \ clobbered :
        \/ c \in suspended <=> Gate(c)
        \/ \E t \in Tasks : WillWrite(t, c)

\* The base task is at label, or will be once what it is inside returns.
BaseAt(label) ==
    \/ at["base"] = label
    \/ /\ at["base"] \in ApplyLabels \cup {"ex_reset", "ex_cfg"}
       /\ ret["base"] = label

\* What the labels of the base task imply about mode and raw collection.
CollectionInv ==
    /\ "raw_collection" \in flags => mode = "transmit"
    /\ logger = "active" => "raw_collection" \in flags
    /\ survey = "collecting" => mode = "survey"
    /\ BaseAt("boot") => "raw_collection" \notin flags
    /\ BaseAt("raw_cfg") => "raw_collection" \in flags
    /\ BaseAt("sv_keep") \/ BaseAt("sv_clear") => mode = "survey"

-----------------------------------------------------------------------------
(* The steps.                                                              *)

\* Every step of Next is a step of exactly these kinds.
LEMMA NextCases ==
  ASSUME Next
  PROVE  \/ \E t \in Tasks : ApplyRead(t) \/ ApplyReadOut(t) \/ ApplyWrite(t)
         \/ Boot
         \/ SurveyOutput
         \/ TransmitOutput
         \/ HandleSurvey
         \/ HandlePosition
         \/ HandleStopRaw
         \/ ResetUm980
         \/ EnterRaw
         \/ RawOutput
         \/ ExitRawReset
         \/ ExitRawOutput
         \/ ResetOutput
         \/ Dequeue
         \/ SurveyCompleted
         \/ Frame
         \/ RateReached
         \/ RateTooLow
         \/ EnableLoad
         \/ EnableStore
         \/ EnableResume
         \/ GatePoll
         \/ WifiFlip
         \/ \E t \in Callers, b \in BOOLEAN :
                SetStreamsEnabled(t, b) \/ RequestRaw(t, b)
         \/ \E t \in Callers, a \in ActionType : Request(t, a)
         \/ \E t \in Callers :
                \/ ReloadServices(t) \/ StoreUser(t) \/ EnqueueRaw(t)
                \/ ("ota" \in Api /\ OtaBegin(t)) \/ OtaFailed(t) \/ OtaAccepted(t)
         \/ Reboot
  BY DEF Next, ApplyStep, BaseStep, EnableStep, CallStart, WebStart, CallStep,
         Callers, ActionType

-----------------------------------------------------------------------------
(* Type correctness.                                                       *)

\* The labels a task can be sent to, and the tasks named by constants.
LEMMA Names ==
  /\ BaseLabels \cup CallLabels \cup EnableLabels \subseteq Labels \ ApplyLabels
  /\ ApplyLabels \subseteq Labels
  /\ ActionType \subseteq BaseLabels
  /\ {"boot", "loop", "sv_keep", "sv_clear", "tx_cfg", "raw_cfg", "ex_reset",
      "ex_cfg", "um_cfg", "kSurvey", "kPosition"} \subseteq BaseLabels
  /\ {"idle", "setUser", "enqRaw", "ota"} \subseteq CallLabels
  /\ {"wait", "en_user", "en_rinex", "dead"} \subseteq EnableLabels
  /\ {"read", "write", "readOut"} \subseteq ApplyLabels
  /\ {"kStartRaw", "kStopRaw"} \subseteq ActionType
  /\ {"base", "enable", "gate"} \subseteq Tasks
  /\ Callers \subseteq Tasks
  BY DEF Labels, ApplyLabels, BaseLabels, CallLabels, EnableLabels,
         ActionType, Tasks

\* Helpers of the control flow preserve the types of what they write.
LEMMA GotoType ==
  ASSUME TypeOK, NEW t \in Tasks, NEW label \in Labels, Goto(t, label)
  PROVE  at' \in [Tasks -> Labels]
  BY DEF Goto, TypeOK

LEMMA CallApplyType ==
  ASSUME TypeOK, NEW t \in Tasks, NEW label \in Labels \ ApplyLabels,
         CallApply(t, label)
  PROVE  /\ at' \in [Tasks -> Labels]
         /\ ret' \in [Tasks -> Labels \ ApplyLabels]
  BY GotoType, Names DEF CallApply, TypeOK

LEMMA OutdatesType ==
  ASSUME TypeOK, NEW t \in Tasks, Outdates(t)
  PROVE  /\ stale' \subseteq Tasks
         /\ clobbered' \subseteq Clients
  BY DEF Outdates, TypeOK

LEMMA SendType ==
  ASSUME TypeOK, NEW a \in ActionType, Send(a)
  PROVE  /\ actions' \in Seq(ActionType)
         /\ Len(actions') <= QueueDepth
  BY GateAssumption DEF Send, TypeOK

LEMMA BeginHoldType ==
  ASSUME TypeOK, NEW t \in Tasks, NEW value, NEW first \in Clients,
         BeginHold(t, value, first)
  PROVE  TypeOK'
<1>1. at' \in [Tasks -> Labels]
  BY GotoType, Names DEF BeginHold
<1>2. held' \subseteq Tasks
  BY DEF BeginHold, Put, TypeOK
<1>3. next' \in [Tasks -> Clients]
  BY DEF BeginHold, TypeOK
<1> QED
  BY <1>1, <1>2, <1>3 DEF BeginHold, device, world, ghosts, TypeOK

LEMMA PersistType ==
  ASSUME TypeOK, NEW key \in NvsKeys, NEW value, Persist(key, value)
  PROVE  nvs' \subseteq NvsKeys
  BY DEF Persist, Put, TypeOK

\* The parts of handlers that several handlers share preserve TypeOK.
LEMMA EnterSurveyType ==
  ASSUME TypeOK, NEW b \in BOOLEAN, EnterSurvey(b)
  PROVE  TypeOK'
<1>1. at' \in [Tasks -> Labels] /\ ret' \in [Tasks -> Labels \ ApplyLabels]
  BY CallApplyType, Names DEF EnterSurvey
<1>2. stale' \subseteq Tasks /\ clobbered' \subseteq Clients
  BY OutdatesType, Names DEF EnterSurvey
<1> QED
  BY <1>1, <1>2 DEF EnterSurvey, KeepWindow, Put, world, TypeOK

LEMMA EnterTransmitType ==
  ASSUME TypeOK, EnterTransmit, nvs' \subseteq NvsKeys
  PROVE  TypeOK'
<1>1. at' \in [Tasks -> Labels]
  BY GotoType, Names DEF EnterTransmit
<1>2. stale' \subseteq Tasks /\ clobbered' \subseteq Clients
  BY OutdatesType, Names DEF EnterTransmit
<1> QED
  BY <1>1, <1>2 DEF EnterTransmit, KeepWindow, Put, TypeOK

LEMMA ExitRawType ==
  ASSUME TypeOK, NEW label \in Labels \ ApplyLabels, ExitRaw(label)
  PROVE  TypeOK'
<1>1. at' \in [Tasks -> Labels] /\ ret' \in [Tasks -> Labels \ ApplyLabels]
  BY GotoType, Names DEF ExitRaw, TypeOK
<1>2. stale' \subseteq Tasks /\ clobbered' \subseteq Clients
  BY OutdatesType, Names DEF ExitRaw
<1> QED
  BY <1>1, <1>2 DEF ExitRaw, world, TypeOK

LEMMA BackToLoopType ==
  ASSUME TypeOK, BackToLoop
  PROVE  TypeOK'
  BY GotoType, Names DEF BackToLoop, device, world, ghosts, TypeOK

\* One step preserves the types.
LEMMA TypeStep ==
  ASSUME TypeOK, [Next]_vars
  PROVE  TypeOK'
<1> USE GateAssumption
<1>1. ASSUME NEW t \in Tasks, ApplyRead(t) PROVE TypeOK'
  BY <1>1, BeginHoldType DEF ApplyRead, Clients
<1>2. ASSUME NEW t \in Tasks, ApplyReadOut(t) PROVE TypeOK'
  BY <1>2, BeginHoldType DEF ApplyReadOut, Clients
<1>3. ASSUME NEW t \in Tasks, ApplyWrite(t) PROVE TypeOK'
  <2>1. suspended' \subseteq Clients /\ clobbered' \subseteq Clients
    BY <1>3 DEF ApplyWrite, Put, TypeOK
  <2>2. next' \in [Tasks -> Clients]
    BY <1>3 DEF ApplyWrite, Release, Clients, TypeOK
  <2>3. at' \in [Tasks -> Labels]
    BY <1>3, Names DEF ApplyWrite, Goto, TypeOK
  <2>4. ret' \in [Tasks -> Labels \ ApplyLabels]
    BY <1>3, Names DEF ApplyWrite, TypeOK
  <2>5. held' \subseteq Tasks /\ stale' \subseteq Tasks
    BY <1>3 DEF ApplyWrite, Release, TypeOK
  <2> QED
    BY <1>3, <2>1, <2>2, <2>3, <2>4, <2>5 DEF ApplyWrite, device, world,
        TypeOK
<1>4. CASE Boot
  BY <1>4, EnterSurveyType, EnterTransmitType DEF Boot, TypeOK
<1>5. CASE SurveyOutput
  <2>1. at' \in [Tasks -> Labels]
    BY <1>5, GotoType, Names DEF SurveyOutput
  <2> QED
    BY <1>5, <2>1, Names DEF SurveyOutput, Configured, Persist, AtomicFlags,
        NvsKeys, Output, Clients, Put, locals, device, world, ghosts, TypeOK
<1>6. CASE TransmitOutput
  <2>1. at' \in [Tasks -> Labels] /\ ret' \in [Tasks -> Labels \ ApplyLabels]
    BY <1>6, CallApplyType, Names DEF TransmitOutput, TypeOK
  <2> QED
    BY <1>6, <2>1, Names DEF TransmitOutput, Configured, AtomicFlags,
        NvsKeys, Output, Clients, Put, locals, device, world, ghosts, TypeOK
<1>7. CASE HandleSurvey
  BY <1>7, EnterSurveyType, ExitRawType, Names DEF HandleSurvey
<1>8. CASE HandlePosition
  <2>1. CASE ExitRaw("kPosition")
    BY <2>1, ExitRawType, Names
  <2>2. CASE PositionSaved /\ EnterTransmit
    BY <2>2, EnterTransmitType DEF PositionSaved, NvsKeys, TypeOK
  <2>3. CASE SaveFailed /\ ~(PositionSaved /\ EnterTransmit) /\ ~ExitRaw("kPosition")
    <3>1. at' \in [Tasks -> Labels]
      BY <1>8, <2>3, GotoType, Names DEF HandlePosition
    <3> QED
      BY <1>8, <2>3, <3>1 DEF HandlePosition, SaveFailed, NvsKeys, device,
          ghosts, TypeOK
  <2> QED
    BY <1>8, <2>1, <2>2, <2>3 DEF HandlePosition
<1>9. CASE HandleStopRaw
  BY <1>9, BackToLoopType, ExitRawType, Names DEF HandleStopRaw
<1>10. CASE ResetUm980
  <2>1. CASE BackToLoop
    BY <2>1, BackToLoopType
  <2>2. CASE ~BackToLoop
    <3>1. at' \in [Tasks -> Labels] /\ ret' \in [Tasks -> Labels \ ApplyLabels]
      BY <1>10, <2>2, CallApplyType, Names DEF ResetUm980
    <3>2. stale' \subseteq Tasks /\ clobbered' \subseteq Clients
      BY <1>10, <2>2, OutdatesType, Names DEF ResetUm980
    <3> QED
      BY <1>10, <2>2, <3>1, <3>2 DEF ResetUm980, Readiness, KeepWindow,
          AtomicFlags, Put, device, world, TypeOK
  <2> QED
    BY <2>1, <2>2
<1>11. CASE EnterRaw
  <2>1. CASE BackToLoop
    BY <2>1, BackToLoopType
  <2>2. CASE ~BackToLoop
    <3>1. at' \in [Tasks -> Labels] /\ ret' \in [Tasks -> Labels \ ApplyLabels]
      BY <1>11, <2>2, CallApplyType, Names DEF EnterRaw
    <3>2. stale' \subseteq Tasks /\ clobbered' \subseteq Clients
      BY <1>11, <2>2, OutdatesType, Names DEF EnterRaw
    <3> QED
      BY <1>11, <2>2, <3>1, <3>2 DEF EnterRaw, AtomicFlags, Put, device,
          world, TypeOK
  <2> QED
    BY <2>1, <2>2
<1>12. CASE RawOutput
  <2>1. at' \in [Tasks -> Labels]
    BY <1>12, GotoType, Names DEF RawOutput
  <2> QED
    BY <1>12, <2>1, Names DEF RawOutput, Configured, AtomicFlags, NvsKeys,
        Output, Clients, Put, locals, device, world, ghosts, TypeOK
<1>13. CASE ExitRawReset
  <2>1. at' \in [Tasks -> Labels]
    BY <1>13, GotoType, Names DEF ExitRawReset
  <2>2. stale' \subseteq Tasks /\ clobbered' \subseteq Clients
    BY <1>13, OutdatesType, Names DEF ExitRawReset
  <2> QED
    BY <1>13, <2>1, <2>2, Names DEF ExitRawReset, Readiness, KeepWindow,
        AtomicFlags, NvsKeys, Output, Clients, Put, locals, device, world,
        ghosts, TypeOK
<1>14. CASE ExitRawOutput
  <2>1. at' \in [Tasks -> Labels]
    BY <1>14, GotoType, Names DEF ExitRawOutput
  <2> QED
    BY <1>14, <2>1, Names DEF ExitRawOutput, Configured, AtomicFlags,
        NvsKeys, Output, Clients, Put, locals, device, world, ghosts, TypeOK
<1>15. CASE ResetOutput
  <2>1. at' \in [Tasks -> Labels] /\ ret' \in [Tasks -> Labels \ ApplyLabels]
    BY <1>15, CallApplyType, Names DEF ResetOutput, TypeOK
  <2> QED
    BY <1>15, <2>1, Names DEF ResetOutput, Configured, AtomicFlags, NvsKeys,
        Output, Clients, Put, locals, device, world, ghosts, TypeOK
<1>16. CASE Dequeue
  <2>1. at' \in [Tasks -> Labels]
    BY <1>16, GotoType, Names DEF Dequeue, TypeOK
  <2> QED
    BY <1>16, <2>1, Names DEF Dequeue, AtomicFlags, NvsKeys, Output, Clients,
        Put, locals, device, world, ghosts, TypeOK
<1>17. CASE SurveyCompleted
  <2>1. CASE PositionSaved /\ EnterTransmit
    BY <2>1, EnterTransmitType DEF PositionSaved, NvsKeys, TypeOK
  <2>2. CASE ~(PositionSaved /\ EnterTransmit)
    BY <1>17, <2>2 DEF SurveyCompleted, SaveFailed, NvsKeys, locals, ghosts,
        TypeOK
  <2> QED
    BY <2>1, <2>2
<1>18. CASE Frame
  <2>1. at' \in [Tasks -> Labels] /\ ret' \in [Tasks -> Labels \ ApplyLabels]
    BY <1>18, CallApplyType, Names DEF Frame, Raise, TypeOK
  <2>2. stale' \subseteq Tasks /\ clobbered' \subseteq Clients
    BY <1>18, OutdatesType, Names DEF Frame, Raise, ghosts, TypeOK
  <2> QED
    BY <1>18, <2>1, <2>2, Names DEF Frame, Raise, AtomicFlags, NvsKeys,
        Output, Clients, Put, locals, device, world, ghosts, TypeOK
<1>19. CASE RateReached
  <2>1. at' \in [Tasks -> Labels] /\ ret' \in [Tasks -> Labels \ ApplyLabels]
    BY <1>19, CallApplyType, Names DEF RateReached, Raise, TypeOK
  <2>2. stale' \subseteq Tasks /\ clobbered' \subseteq Clients
    BY <1>19, OutdatesType, Names DEF RateReached, Raise, ghosts, TypeOK
  <2> QED
    BY <1>19, <2>1, <2>2, Names DEF RateReached, Raise, AtomicFlags, NvsKeys,
        Output, Clients, Put, locals, device, world, ghosts, TypeOK
<1>20. CASE RateTooLow
  BY <1>20, Names DEF RateTooLow, AtomicFlags, NvsKeys, Output, Clients, Put,
      locals, device, world, ghosts, TypeOK
<1>21. CASE EnableLoad
  <2>1. at' \in [Tasks -> Labels]
    BY <1>21, GotoType, Names DEF EnableLoad
  <2> QED
    BY <1>21, <2>1, Names DEF EnableLoad, AtomicFlags, NvsKeys, Output,
        Clients, Put, locals, device, world, ghosts, TypeOK
<1>22. CASE EnableStore
  <2>1. at' \in [Tasks -> Labels] /\ ret' \in [Tasks -> Labels \ ApplyLabels]
    BY <1>22, CallApplyType, Names DEF EnableStore, TypeOK
  <2>2. stale' \subseteq Tasks /\ clobbered' \subseteq Clients
    BY <1>22, OutdatesType, Names DEF EnableStore
  <2> QED
    BY <1>22, <2>1, <2>2, Names DEF EnableStore, AtomicFlags, NvsKeys,
        Output, Clients, Put, locals, device, world, ghosts, TypeOK
<1>23. CASE EnableResume
  <2>1. at' \in [Tasks -> Labels]
    BY <1>23, GotoType, Names DEF EnableResume
  <2>2. actions' \in Seq(ActionType) /\ Len(actions') <= QueueDepth
    BY <1>23, SendType, Names DEF EnableResume, TypeOK
  <2> QED
    BY <1>23, <2>1, <2>2, Names DEF EnableResume, AtomicFlags, NvsKeys,
        Output, Clients, Put, locals, device, world, ghosts, TypeOK
<1>24. CASE GatePoll
  <2>1. at' \in [Tasks -> Labels] /\ ret' \in [Tasks -> Labels \ ApplyLabels]
    BY <1>24, CallApplyType, Names DEF GatePoll, TypeOK
  <2>2. stale' \subseteq Tasks /\ clobbered' \subseteq Clients
    BY <1>24, OutdatesType, Names DEF GatePoll
  <2> QED
    BY <1>24, <2>1, <2>2, Names DEF GatePoll, AtomicFlags, NvsKeys, Output,
        Clients, Put, locals, device, world, ghosts, TypeOK
<1>25. CASE WifiFlip
  BY <1>25, Names DEF WifiFlip, AtomicFlags, NvsKeys, Output, Clients, Put,
      locals, device, world, ghosts, TypeOK
<1>26. ASSUME NEW t \in Callers, NEW b \in BOOLEAN, SetStreamsEnabled(t, b)
       PROVE  TypeOK'
  <2>1. at' \in [Tasks -> Labels]
    BY <1>26, GotoType, Names DEF SetStreamsEnabled
  <2>2. nvs' \subseteq NvsKeys
    BY <1>26, PersistType DEF SetStreamsEnabled, NvsKeys
  <2>3. arg' \subseteq Tasks
    BY <1>26, Names DEF SetStreamsEnabled, Put, TypeOK
  <2> QED
    BY <1>26, <2>1, <2>2, <2>3 DEF SetStreamsEnabled, Calls, device, ghosts, TypeOK
<1>27. ASSUME NEW t \in Callers, NEW b \in BOOLEAN, RequestRaw(t, b)
       PROVE  TypeOK'
  <2>1. at' \in [Tasks -> Labels]
    BY <1>27, GotoType, Names DEF RequestRaw
  <2>2. nvs' \subseteq NvsKeys
    BY <1>27, PersistType DEF RequestRaw, NvsKeys
  <2>3. arg' \subseteq Tasks
    BY <1>27, Names DEF RequestRaw, Put, TypeOK
  <2> QED
    BY <1>27, <2>1, <2>2, <2>3 DEF RequestRaw, Calls, device, ghosts, TypeOK
<1>28. ASSUME NEW t \in Callers, ReloadServices(t)
       PROVE  TypeOK'
  <2>1. at' \in [Tasks -> Labels] /\ ret' \in [Tasks -> Labels \ ApplyLabels]
    BY <1>28, CallApplyType, Names DEF ReloadServices, TypeOK
  <2> QED
    BY <1>28, <2>1, Names DEF ReloadServices, Calls, AtomicFlags, NvsKeys,
        Output, Clients, Put, locals, device, world, ghosts, TypeOK
<1>29. ASSUME NEW t \in Callers, NEW a \in ActionType, Request(t, a)
       PROVE  TypeOK'
  <2>1. actions' \in Seq(ActionType) /\ Len(actions') <= QueueDepth
    BY <1>29, SendType, Names DEF Request, TypeOK
  <2> QED
    BY <1>29, <2>1, Names DEF Request, Calls, AtomicFlags, NvsKeys, Output,
        Clients, Put, locals, device, world, ghosts, TypeOK
<1>30. ASSUME NEW t \in Callers, StoreUser(t)
       PROVE  TypeOK'
  <2>1. at' \in [Tasks -> Labels] /\ ret' \in [Tasks -> Labels \ ApplyLabels]
    BY <1>30, CallApplyType, Names DEF StoreUser, TypeOK
  <2>2. stale' \subseteq Tasks /\ clobbered' \subseteq Clients
    BY <1>30, OutdatesType, Names DEF StoreUser
  <2> QED
    BY <1>30, <2>1, <2>2, Names DEF StoreUser, AtomicFlags, NvsKeys, Output,
        Clients, Put, locals, device, world, ghosts, TypeOK
<1>31. ASSUME NEW t \in Callers, EnqueueRaw(t)
       PROVE  TypeOK'
  <2>1. at' \in [Tasks -> Labels]
    BY <1>31, GotoType, Names DEF EnqueueRaw
  <2>2. actions' \in Seq(ActionType) /\ Len(actions') <= QueueDepth
    BY <1>31, SendType, Names DEF EnqueueRaw, TypeOK
  <2> QED
    BY <1>31, <2>1, <2>2, Names DEF EnqueueRaw, AtomicFlags, NvsKeys, Output,
        Clients, Put, locals, device, world, ghosts, TypeOK
<1>32. ASSUME NEW t \in Callers, OtaBegin(t)
       PROVE  TypeOK'
  <2>1. at' \in [Tasks -> Labels] /\ ret' \in [Tasks -> Labels \ ApplyLabels]
    BY <1>32, CallApplyType, Names DEF OtaBegin, TypeOK
  <2>2. stale' \subseteq Tasks /\ clobbered' \subseteq Clients
    BY <1>32, OutdatesType, Names DEF OtaBegin
  <2> QED
    BY <1>32, <2>1, <2>2, Names DEF OtaBegin, Calls, AtomicFlags, NvsKeys,
        Output, Clients, Put, locals, device, world, ghosts, TypeOK
<1>33. ASSUME NEW t \in Callers, OtaFailed(t)
       PROVE  TypeOK'
  <2>1. at' \in [Tasks -> Labels] /\ ret' \in [Tasks -> Labels \ ApplyLabels]
    BY <1>33, CallApplyType, Names DEF OtaFailed, TypeOK
  <2>2. stale' \subseteq Tasks /\ clobbered' \subseteq Clients
    BY <1>33, OutdatesType, Names DEF OtaFailed
  <2> QED
    BY <1>33, <2>1, <2>2, Names DEF OtaFailed, AtomicFlags, NvsKeys, Output,
        Clients, Put, locals, device, world, ghosts, TypeOK
<1>34. ASSUME NEW t \in Callers, OtaAccepted(t)
       PROVE  TypeOK'
  <2>1. at' \in [Tasks -> Labels]
    BY <1>34, GotoType, Names DEF OtaAccepted
  <2> QED
    BY <1>34, <2>1, Names DEF OtaAccepted, AtomicFlags, NvsKeys, Output,
        Clients, Put, locals, device, world, ghosts, TypeOK
<1>35. CASE Reboot
  BY <1>35, Names DEF Reboot, StartLabel, StartFlags, Clients, AtomicFlags,
      NvsKeys, TypeOK
<1>36. CASE UNCHANGED vars
  BY <1>36 DEF vars, locals, device, world, ghosts, TypeOK
<1> QED
  BY <1>1, <1>2, <1>3, <1>4, <1>5, <1>6, <1>7, <1>8, <1>9, <1>10, <1>11,
      <1>12, <1>13, <1>14, <1>15, <1>16, <1>17, <1>18, <1>19, <1>20, <1>21,
      <1>22, <1>23, <1>24, <1>25, <1>26, <1>27, <1>28, <1>29, <1>30, <1>31,
      <1>32, <1>33, <1>34, <1>35, <1>36, NextCases

\* Every variable keeps its type, apply_stream_state() never returns into
\* itself and actions_ never holds more than its capacity, whatever the
\* tasks do (TypeOK).
THEOREM TypeCorrect == Spec => []TypeOK
<1>1. Init => TypeOK
  BY GateAssumption, Names DEF Init, StartLabel, StartFlags, Clients,
      AtomicFlags, NvsKeys, TypeOK
<1>2. TypeOK /\ [Next]_vars => TypeOK'
  BY TypeStep
<1> QED
  BY <1>1, <1>2, PTL DEF Spec

-----------------------------------------------------------------------------
(* Raw collection.                                                         *)

\* The steps that leave the base task, its mode and raw_collection_ alone.
LEMMA CollectionFrame ==
  ASSUME CollectionInv,
         "raw_collection" \in flags' <=> "raw_collection" \in flags,
         mode' = mode, logger' = logger, survey' = survey,
         at'["base"] = at["base"], ret'["base"] = ret["base"]
  PROVE  CollectionInv'
  BY DEF CollectionInv, BaseAt

\* One step preserves CollectionInv.
LEMMA CollectionStep ==
  ASSUME TypeOK, CollectionInv, [Next]_vars
  PROVE  CollectionInv'
<1> USE GateAssumption, Names
<1>1. ASSUME NEW t \in Tasks, ApplyRead(t) PROVE CollectionInv'
  BY <1>1 DEF ApplyRead, BeginHold, Goto, BaseAt, ApplyLabels, CollectionInv,
      device, TypeOK
<1>2. ASSUME NEW t \in Tasks, ApplyReadOut(t) PROVE CollectionInv'
  BY <1>2 DEF ApplyReadOut, BeginHold, Goto, BaseAt, ApplyLabels, CollectionInv,
      device, TypeOK
<1>3. ASSUME NEW t \in Tasks, ApplyWrite(t) PROVE CollectionInv'
  BY <1>3 DEF ApplyWrite, Goto, BaseAt, ApplyLabels, CollectionInv, device,
      TypeOK
<1>4. CASE Boot
  BY <1>4 DEF Boot, EnterTransmit, EnterSurvey, CallApply, Readiness, Goto, BaseAt, ApplyLabels, ActionType,
      CollectionInv, locals, device, TypeOK
<1>5. CASE SurveyOutput
  BY <1>5 DEF SurveyOutput, Readiness, Goto, BaseAt, ApplyLabels, ActionType,
      CollectionInv, locals, device, TypeOK
<1>6. CASE TransmitOutput
  BY <1>6 DEF TransmitOutput, CallApply, Readiness, Goto, BaseAt, ApplyLabels, ActionType,
      CollectionInv, locals, device, TypeOK
<1>7. CASE HandleSurvey
  BY <1>7 DEF HandleSurvey, ExitRaw, EnterSurvey, CallApply, Readiness, Goto, BaseAt, ApplyLabels, ActionType,
      CollectionInv, locals, device, TypeOK
<1>8. CASE HandlePosition
  BY <1>8 DEF HandlePosition, ExitRaw, EnterTransmit, Readiness, Goto, BaseAt, ApplyLabels, ActionType,
      CollectionInv, locals, device, TypeOK
<1>9. CASE HandleStopRaw
  BY <1>9 DEF HandleStopRaw, ExitRaw, BackToLoop, Readiness, Goto, BaseAt, ApplyLabels, ActionType,
      CollectionInv, locals, device, TypeOK
<1>10. CASE ResetUm980
  BY <1>10 DEF ResetUm980, CallApply, BackToLoop, Readiness, Goto, BaseAt, ApplyLabels, ActionType,
      CollectionInv, locals, device, TypeOK
<1>11. CASE EnterRaw
  BY <1>11 DEF EnterRaw, CallApply, BackToLoop, Readiness, Goto, BaseAt, ApplyLabels, ActionType,
      CollectionInv, locals, device, TypeOK
<1>12. CASE RawOutput
  BY <1>12 DEF RawOutput, Readiness, Goto, BaseAt, ApplyLabels, ActionType,
      CollectionInv, locals, device, TypeOK
<1>13. CASE ExitRawReset
  BY <1>13 DEF ExitRawReset, Readiness, Goto, BaseAt, ApplyLabels, ActionType,
      CollectionInv, locals, device, TypeOK
<1>14. CASE ExitRawOutput
  BY <1>14 DEF ExitRawOutput, Readiness, Goto, BaseAt, ApplyLabels, ActionType,
      CollectionInv, locals, device, TypeOK
<1>15. CASE ResetOutput
  BY <1>15 DEF ResetOutput, CallApply, Readiness, Goto, BaseAt, ApplyLabels, ActionType,
      CollectionInv, locals, device, TypeOK
<1>16. CASE Dequeue
  BY <1>16 DEF Dequeue, Readiness, Goto, BaseAt, ApplyLabels, ActionType,
      CollectionInv, locals, device, TypeOK
<1>17. CASE SurveyCompleted
  BY <1>17 DEF SurveyCompleted, EnterTransmit, Readiness, Goto, BaseAt, ApplyLabels, ActionType,
      CollectionInv, locals, device, TypeOK
<1>18. CASE Frame
  BY <1>18 DEF Frame, Raise, CallApply, Readiness, Goto, BaseAt, ApplyLabels, ActionType,
      CollectionInv, locals, device, TypeOK
<1>19. CASE RateReached
  BY <1>19 DEF RateReached, Raise, CallApply, Readiness, Goto, BaseAt, ApplyLabels, ActionType,
      CollectionInv, locals, device, TypeOK
<1>20. CASE RateTooLow
  BY <1>20 DEF RateTooLow, Readiness, Goto, BaseAt, ApplyLabels, ActionType,
      CollectionInv, locals, device, TypeOK
<1>21. CASE EnableLoad
  BY <1>21, CollectionFrame DEF EnableLoad, CallApply, Goto, Put, locals, device,
      TypeOK
<1>22. CASE EnableStore
  BY <1>22, CollectionFrame DEF EnableStore, CallApply, Goto, Put, locals, device,
      TypeOK
<1>23. CASE EnableResume
  BY <1>23, CollectionFrame DEF EnableResume, CallApply, Goto, Put, locals, device,
      TypeOK
<1>24. CASE GatePoll
  BY <1>24, CollectionFrame DEF GatePoll, CallApply, Goto, Put, locals, device,
      TypeOK
<1>25. CASE WifiFlip
  BY <1>25, CollectionFrame DEF WifiFlip, CallApply, Goto, Put, locals, device,
      TypeOK
<1>26. ASSUME NEW t \in Callers, NEW b \in BOOLEAN, SetStreamsEnabled(t, b)
       PROVE  CollectionInv'
  BY <1>26, CollectionFrame DEF SetStreamsEnabled, CallApply, Goto, Callers, Put, locals,
      device, TypeOK
<1>27. ASSUME NEW t \in Callers, NEW b \in BOOLEAN, RequestRaw(t, b)
       PROVE  CollectionInv'
  BY <1>27, CollectionFrame DEF RequestRaw, CallApply, Goto, Callers, Put, locals,
      device, TypeOK
<1>28. ASSUME NEW t \in Callers, NEW a \in ActionType, Request(t, a)
       PROVE  CollectionInv'
  BY <1>28, CollectionFrame DEF Request, CallApply, Goto, Callers, Put, locals,
      device, TypeOK
<1>29. ASSUME NEW t \in Callers, ReloadServices(t)
       PROVE  CollectionInv'
  BY <1>29, CollectionFrame DEF ReloadServices, CallApply, Goto, Callers, Put, locals,
      device, TypeOK
<1>30. ASSUME NEW t \in Callers, StoreUser(t)
       PROVE  CollectionInv'
  BY <1>30, CollectionFrame DEF StoreUser, CallApply, Goto, Callers, Put, locals,
      device, TypeOK
<1>31. ASSUME NEW t \in Callers, EnqueueRaw(t)
       PROVE  CollectionInv'
  BY <1>31, CollectionFrame DEF EnqueueRaw, CallApply, Goto, Callers, Put, locals,
      device, TypeOK
<1>32. ASSUME NEW t \in Callers, OtaBegin(t)
       PROVE  CollectionInv'
  BY <1>32, CollectionFrame DEF OtaBegin, CallApply, Goto, Callers, Put, locals,
      device, TypeOK
<1>33. ASSUME NEW t \in Callers, OtaFailed(t)
       PROVE  CollectionInv'
  BY <1>33, CollectionFrame DEF OtaFailed, CallApply, Goto, Callers, Put, locals,
      device, TypeOK
<1>34. ASSUME NEW t \in Callers, OtaAccepted(t)
       PROVE  CollectionInv'
  BY <1>34, CollectionFrame DEF OtaAccepted, CallApply, Goto, Callers, Put, locals,
      device, TypeOK
<1>35. CASE Reboot
  BY <1>35 DEF Reboot, StartLabel, StartFlags, BaseAt, ApplyLabels,
      CollectionInv
<1>36. CASE UNCHANGED vars
  BY <1>36, CollectionFrame DEF vars, locals, device
<1> QED
  BY <1>1, <1>2, <1>3, <1>4, <1>5, <1>6, <1>7, <1>8, <1>9, <1>10, <1>11,
      <1>12, <1>13, <1>14, <1>15, <1>16, <1>17, <1>18, <1>19, <1>20, <1>21,
      <1>22, <1>23, <1>24, <1>25, <1>26, <1>27, <1>28, <1>29, <1>30, <1>31,
      <1>32, <1>33, <1>34, <1>35, <1>36, NextCases

\* Raw collection and the RINEX logger run in base mode only
\* (CollectionOnlyInBaseMode), whatever requests, failing writes and restarts
\* meet: kSurvey and kPosition leave raw collection first.
THEOREM CollectionSafe == Spec => []CollectionOnlyInBaseMode
<1>1. Init => CollectionInv
  BY Names DEF Init, StartLabel, StartFlags, BaseAt, ApplyLabels, CollectionInv
<1>2. TypeOK /\ CollectionInv /\ [Next]_vars => CollectionInv'
  BY CollectionStep
<1>3. TypeOK /\ CollectionInv => CollectionOnlyInBaseMode
  BY DEF TypeOK, CollectionInv, CollectionOnlyInBaseMode
<1> QED
  BY <1>1, <1>2, <1>3, TypeCorrect, PTL DEF Spec

-----------------------------------------------------------------------------
(* The gate.                                                               *)

\* The labels from which a task is going to evaluate the whole gate anew.
Pending == {"read", "tx_cfg", "ex_reset", "ex_cfg"}

\* The inductive part of GateInv.
GateParts == HeldIsCurrent /\ StaleIsHeld /\ SomeoneWillWrite

\* A task stores into the flags and is on its way to apply_stream_state():
\* all values held by others are stale now, and it will write every client.
LEMMA FlagWrite ==
  ASSUME TypeOK, GateParts, NEW t \in Tasks, at[t] # "write", Outdates(t),
         NEW label \in Pending, Goto(t, label)
  PROVE  GateParts'
<1>1. at'[t] = label /\ \A u \in Tasks \ {t} : at'[u] = at[u]
  BY DEF Goto, TypeOK
<1>2. HeldIsCurrent'
  BY <1>1 DEF HeldIsCurrent, Outdates, Pending
<1>3. StaleIsHeld'
  BY <1>1 DEF GateParts, StaleIsHeld, Outdates, TypeOK
<1>4. SomeoneWillWrite'
  BY <1>1 DEF SomeoneWillWrite, WillWrite, Pending
<1> QED
  BY <1>2, <1>3, <1>4 DEF GateParts

\* What the gate demands depends on the flags and the mode only.
LEMMA GateFrame ==
  ASSUME flags' = flags, mode' = mode, NEW c
  PROVE  Gate(c)' <=> Gate(c)
  BY DEF Gate, effective_streams_suspended, effective_outbound_streams_suspended

\* A task moves on outside apply_stream_state(), or into it, and touches
\* nothing of the gate.
LEMMA LabelStep ==
  ASSUME TypeOK, GateParts, NEW t \in Tasks, NEW label, Goto(t, label),
         at[t] # "write", label # "write",
         at[t] \in Pending \cup {"readOut"} => label \in Pending,
         flags' = flags, mode' = mode, suspended' = suspended, next' = next,
         held' = held, stale' = stale, clobbered' = clobbered
  PROVE  GateParts'
<1>1. at'[t] = label /\ \A u \in Tasks \ {t} : at'[u] = at[u]
  BY DEF Goto, TypeOK
<1>2. \A c : Gate(c)' <=> Gate(c)
  BY GateFrame
<1>3. HeldIsCurrent'
  BY <1>1, <1>2 DEF GateParts, HeldIsCurrent
<1>4. StaleIsHeld'
  BY <1>1 DEF GateParts, StaleIsHeld, TypeOK
<1>5. ASSUME NEW c \in Clients, NEW u \in Tasks, WillWrite(u, c)
      PROVE  WillWrite(u, c)'
  BY <1>1, <1>5 DEF WillWrite, Pending
<1>6. SomeoneWillWrite'
  BY <1>2, <1>5 DEF GateParts, SomeoneWillWrite
<1> QED
  BY <1>3, <1>4, <1>6 DEF GateParts

\* Nothing the gate depends on changes.
LEMMA NoStep ==
  ASSUME TypeOK, GateParts, at' = at,
         flags' = flags, mode' = mode, suspended' = suspended, next' = next,
         held' = held, stale' = stale, clobbered' = clobbered
  PROVE  GateParts'
<1>1. \A c : Gate(c)' <=> Gate(c)
  BY GateFrame
<1>2. HeldIsCurrent'
  BY <1>1 DEF GateParts, HeldIsCurrent
<1>3. StaleIsHeld'
  BY DEF GateParts, StaleIsHeld
<1>4. \A c \in Clients, u \in Tasks : WillWrite(u, c) => WillWrite(u, c)'
  BY DEF WillWrite
<1>5. SomeoneWillWrite'
  BY <1>1, <1>4 DEF GateParts, SomeoneWillWrite
<1> QED
  BY <1>2, <1>3, <1>5 DEF GateParts

\* An evaluation of the gate for the clients from first on.
LEMMA ReadStep ==
  ASSUME TypeOK, GateParts, NEW t \in Tasks, NEW first \in {0, 1},
         at[t] = (IF first = 0 THEN "read" ELSE "readOut"),
         BeginHold(t, Gate(first), first)
  PROVE  GateParts'
<1> USE GateAssumption
<1>1. at'[t] = "write" /\ \A u \in Tasks \ {t} : at'[u] = at[u]
  BY DEF BeginHold, Goto, TypeOK
<1>2. next'[t] = first /\ \A u \in Tasks \ {t} : next'[u] = next[u]
  BY DEF BeginHold, TypeOK
<1>3. /\ t \in held' <=> Gate(first)
      /\ \A u \in Tasks \ {t} : u \in held' <=> u \in held
  BY DEF BeginHold, Put
<1>4. \A c : Gate(c)' <=> Gate(c)
  BY GateFrame DEF BeginHold
<1>5. stale' = stale /\ clobbered' = clobbered /\ suspended' = suspended
  BY DEF BeginHold, ghosts
<1>6. t \notin stale
  BY DEF GateParts, StaleIsHeld
<1>7. HeldIsCurrent'
  <2> SUFFICES ASSUME NEW u \in Tasks, u \notin stale, at'[u] = "write"
               PROVE  (u \in held <=> Gate(next[u]))'
    BY <1>5 DEF HeldIsCurrent
  <2>1. CASE u = t
    BY <2>1, <1>2, <1>3, <1>4
  <2>2. CASE u # t
    BY <2>2, <1>1, <1>2, <1>3, <1>4 DEF GateParts, HeldIsCurrent
  <2> QED
    BY <2>1, <2>2
<1>8. StaleIsHeld'
  BY <1>1, <1>5, <1>6 DEF GateParts, StaleIsHeld, TypeOK
<1>9. ASSUME NEW c \in Clients, first <= c
      PROVE  WillWrite(t, c)'
  BY <1>9, <1>1, <1>2, <1>5, <1>6 DEF WillWrite
<1>10. ASSUME NEW c \in Clients, NEW u \in Tasks, u # t, WillWrite(u, c)
       PROVE  WillWrite(u, c)'
  BY <1>10, <1>1, <1>2, <1>5 DEF WillWrite
<1>11. ASSUME NEW c \in Clients, ~(first <= c)
       PROVE  ~WillWrite(t, c)
  BY <1>11 DEF WillWrite, Clients
<1>12. SomeoneWillWrite'
  BY <1>4, <1>5, <1>9, <1>10, <1>11 DEF GateParts, SomeoneWillWrite
<1> QED
  BY <1>7, <1>8, <1>12 DEF GateParts

\* One write of apply_stream_state().  The client written now either agrees
\* with the gate or is clobbered; for the others the tasks that were going to
\* write them still are.
LEMMA WriteStep ==
  ASSUME TypeOK, GateParts, NEW t \in Tasks, ApplyWrite(t)
  PROVE  GateParts'
<1> USE GateAssumption
<1> DEFINE n == next[t]
<1>1. n \in Clients /\ n \in 0 .. NumPush
  BY DEF TypeOK, Clients
<1>2. \A c : Gate(c)' <=> Gate(c)
  BY GateFrame DEF ApplyWrite
<1>3. /\ n \in suspended' <=> t \in held
      /\ \A c \in Clients \ {n} : c \in suspended' <=> c \in suspended
  BY DEF ApplyWrite, Put
<1>4. /\ n \in clobbered' <=> t \in stale
      /\ \A c \in Clients \ {n} : c \in clobbered' <=> c \in clobbered
  BY DEF ApplyWrite, Put
<1>5. \A u \in Tasks \ {t} : /\ at'[u] = at[u]
                             /\ next'[u] = next[u]
                             /\ u \in held' <=> u \in held
                             /\ u \in stale' <=> u \in stale
  BY DEF ApplyWrite, Goto, Release, TypeOK
<1>6. t \notin stale => (t \in held <=> Gate(n))
  BY DEF GateParts, HeldIsCurrent, ApplyWrite
<1>7. n = 0 \/ n = NumPush =>
          /\ at'[t] # "write"
          /\ t \notin stale'
          /\ n = 0 => at'[t] = "readOut"
  BY DEF ApplyWrite, Goto, Release, ApplyLabels, TypeOK
<1>8. n \in 1 .. NumPush - 1 =>
          /\ at'[t] = "write"
          /\ next'[t] = n + 1
          /\ held' = held
          /\ stale' = stale
  BY DEF ApplyWrite, TypeOK
<1>9. n = 0 \/ n = NumPush \/ n \in 1 .. NumPush - 1
  BY <1>1
<1>10. \A c \in Clients \ {0} : Gate(c) <=> Gate(1)
  BY DEF Gate
<1>11. HeldIsCurrent'
  <2> SUFFICES ASSUME NEW u \in Tasks, u \notin stale', at'[u] = "write"
               PROVE  (u \in held <=> Gate(next[u]))'
    BY DEF HeldIsCurrent
  <2>1. CASE u = t
    <3>1. n \in 1 .. NumPush - 1
      BY <2>1, <1>7, <1>9
    <3>2. n \in Clients \ {0} /\ n + 1 \in Clients \ {0}
      BY <3>1 DEF Clients
    <3>3. u \in held' <=> Gate(n)
      BY <2>1, <3>1, <1>6, <1>8
    <3>4. next'[u] = n + 1
      BY <2>1, <3>1, <1>8
    <3>5. Gate(next[u])' <=> Gate(n + 1)
      BY <3>4, <1>2
    <3> QED
      BY <3>2, <3>3, <3>5, <1>10
  <2>2. CASE u # t
    BY <2>2, <1>2, <1>5 DEF GateParts, HeldIsCurrent
  <2> QED
    BY <2>1, <2>2
<1>12. StaleIsHeld'
  <2>1. stale' \subseteq Tasks
    BY DEF ApplyWrite, Release, TypeOK
  <2> QED
    BY <2>1, <1>5, <1>7, <1>8, <1>9 DEF GateParts, StaleIsHeld
<1>13. ASSUME NEW c \in Clients, NEW u \in Tasks, u # t, WillWrite(u, c)
       PROVE  WillWrite(u, c)'
  BY <1>13, <1>5 DEF WillWrite
<1>14. ASSUME NEW c \in Clients, c # n, WillWrite(t, c)
       PROVE  WillWrite(t, c)'
  <2>1. at[t] = "write" /\ n <= c /\ (t \in stale => n = 0 /\ c # 0)
    BY <1>14 DEF WillWrite, ApplyWrite
  <2>2. CASE n = 0
    BY <2>2, <1>14, <1>7 DEF WillWrite
  <2>3. CASE n # 0
    <3>1. n \in 1 .. NumPush - 1 /\ n + 1 <= c
      BY <2>1, <2>3, <1>1, <1>14 DEF Clients
    <3>2. at'[t] = "write" /\ next'[t] = n + 1 /\ t \notin stale'
      BY <3>1, <2>1, <2>3, <1>8
    <3> QED
      BY <3>1, <3>2 DEF WillWrite
  <2> QED
    BY <2>2, <2>3
<1>15. SomeoneWillWrite'
  <2> SUFFICES ASSUME NEW c \in Clients, c \notin clobbered'
               PROVE  \/ c \in suspended' <=> Gate(c)'
                      \/ \E u \in Tasks : WillWrite(u, c)'
    BY DEF SomeoneWillWrite
  <2>1. CASE c = n
    BY <2>1, <1>2, <1>3, <1>4, <1>6
  <2>2. CASE c # n
    BY <2>2, <1>2, <1>3, <1>4, <1>13, <1>14 DEF GateParts, SomeoneWillWrite
  <2> QED
    BY <2>1, <2>2
<1> QED
  BY <1>11, <1>12, <1>15 DEF GateParts

\* A restart suspends every client, and the hold-off demands just that.
LEMMA RebootStep ==
  ASSUME Reboot
  PROVE  GateParts'
<1>1. HeldIsCurrent' /\ StaleIsHeld'
  BY DEF Reboot, StartLabel, HeldIsCurrent, StaleIsHeld
<1>2. \A c : Gate(c)'
  BY DEF Reboot, StartFlags, Gate, effective_streams_suspended,
         effective_outbound_streams_suspended
<1>3. SomeoneWillWrite'
  BY <1>2 DEF Reboot, SomeoneWillWrite
<1> QED
  BY <1>1, <1>3 DEF GateParts

LEMMA EnterSurveyGate ==
  ASSUME TypeOK, GateParts, at["base"] # "write", NEW b \in BOOLEAN,
         EnterSurvey(b)
  PROVE  GateParts'
  BY FlagWrite, Names DEF EnterSurvey, CallApply, Pending

LEMMA EnterTransmitGate ==
  ASSUME TypeOK, GateParts, at["base"] # "write", EnterTransmit
  PROVE  GateParts'
  BY FlagWrite, Names DEF EnterTransmit, Pending

LEMMA ExitRawGate ==
  ASSUME TypeOK, GateParts, at["base"] # "write", NEW label, ExitRaw(label)
  PROVE  GateParts'
  BY FlagWrite, Names DEF ExitRaw, Pending

LEMMA BackToLoopGate ==
  ASSUME TypeOK, GateParts, at["base"] \in ActionType, BackToLoop
  PROVE  GateParts'
  BY LabelStep, Names DEF BackToLoop, ActionType, Pending, ghosts

\* One step preserves the inductive part.
LEMMA GateStep ==
  ASSUME TypeOK, GateParts, [Next]_vars
  PROVE  GateParts'
<1> USE Names
<1>1. ASSUME NEW t \in Tasks, ApplyRead(t) PROVE GateParts'
  BY <1>1, ReadStep DEF ApplyRead, Gate
<1>2. ASSUME NEW t \in Tasks, ApplyReadOut(t) PROVE GateParts'
  BY <1>2, ReadStep DEF ApplyReadOut, Gate
<1>3. ASSUME NEW t \in Tasks, ApplyWrite(t) PROVE GateParts'
  BY <1>3, WriteStep
<1>4. CASE Boot
  BY <1>4, EnterSurveyGate, EnterTransmitGate DEF Boot
<1>5. CASE SurveyOutput
  BY <1>5, LabelStep DEF SurveyOutput, Pending, ghosts
<1>6. CASE RawOutput
  BY <1>6, LabelStep DEF RawOutput, Pending, ghosts
<1>7. CASE Dequeue
  <2>1. Head(actions) \in ActionType
    BY <1>7 DEF Dequeue, TypeOK
  <2> QED
    BY <1>7, <2>1, LabelStep DEF Dequeue, ActionType, Pending, ghosts
<1>8. CASE TransmitOutput
  BY <1>8, LabelStep DEF TransmitOutput, CallApply, Pending, ghosts
<1>9. CASE ResetOutput
  BY <1>9, LabelStep DEF ResetOutput, CallApply, Pending, ghosts
<1>10. CASE ExitRawOutput
  BY <1>10, LabelStep DEF ExitRawOutput, CallApply, Pending, ghosts
<1>11. CASE HandleSurvey
  BY <1>11, ExitRawGate, EnterSurveyGate DEF HandleSurvey
<1>12. CASE HandlePosition
  <2>1. CASE ExitRaw("kPosition") \/ EnterTransmit
    BY <1>12, <2>1, ExitRawGate, EnterTransmitGate DEF HandlePosition
  <2>2. CASE ~(ExitRaw("kPosition") \/ EnterTransmit)
    BY <1>12, <2>2, LabelStep DEF HandlePosition, Pending, ghosts
  <2> QED
    BY <2>1, <2>2
<1>13. CASE HandleStopRaw
  BY <1>13, ExitRawGate, BackToLoopGate DEF HandleStopRaw, ActionType
<1>14. CASE ResetUm980
  <2>1. CASE BackToLoop
    BY <1>14, <2>1, BackToLoopGate DEF ResetUm980, ActionType
  <2>2. CASE ~BackToLoop
    BY <1>14, <2>2, FlagWrite DEF ResetUm980, CallApply, Pending
  <2> QED
    BY <2>1, <2>2
<1>15. CASE EnterRaw
  <2>1. CASE BackToLoop
    BY <1>15, <2>1, BackToLoopGate DEF EnterRaw, ActionType
  <2>2. CASE ~BackToLoop
    BY <1>15, <2>2, FlagWrite DEF EnterRaw, CallApply, Pending
  <2> QED
    BY <2>1, <2>2
<1>16. CASE ExitRawReset
  BY <1>16, FlagWrite DEF ExitRawReset, Pending
<1>17. CASE SurveyCompleted
  <2>1. CASE EnterTransmit
    BY <1>17, <2>1, EnterTransmitGate DEF SurveyCompleted
  <2>2. CASE ~EnterTransmit
    BY <1>17, <2>2, NoStep DEF SurveyCompleted, locals, ghosts
  <2> QED
    BY <2>1, <2>2
<1>18. CASE Frame
  <2>1. CASE "has_rtcm_data" \in flags
    BY <1>18, <2>1, NoStep DEF Frame, Raise, ghosts
  <2>2. CASE "has_rtcm_data" \notin flags
    BY <1>18, <2>2, FlagWrite DEF Frame, Raise, CallApply, Pending
  <2> QED
    BY <2>1, <2>2
<1>19. CASE RateReached
  <2>1. CASE "outbound_rate_ready" \in flags
    BY <1>19, <2>1, NoStep DEF RateReached, Raise, ghosts
  <2>2. CASE "outbound_rate_ready" \notin flags
    BY <1>19, <2>2, FlagWrite DEF RateReached, Raise, CallApply, Pending
  <2> QED
    BY <2>1, <2>2
<1>20. CASE RateTooLow
  BY <1>20, NoStep DEF RateTooLow, locals, ghosts
<1>21. CASE EnableLoad
  BY <1>21, LabelStep DEF EnableLoad, Pending, ghosts
<1>22. CASE EnableResume
  BY <1>22, LabelStep DEF EnableResume, Pending, ghosts
<1>23. CASE EnableStore
  BY <1>23, FlagWrite DEF EnableStore, CallApply, Pending
<1>24. CASE GatePoll
  BY <1>24, FlagWrite DEF GatePoll, CallApply, Pending
<1>25. CASE WifiFlip
  BY <1>25, NoStep DEF WifiFlip, locals, ghosts
<1>26. ASSUME NEW t \in Callers, NEW b \in BOOLEAN, SetStreamsEnabled(t, b)
       PROVE  GateParts'
  BY <1>26, LabelStep DEF SetStreamsEnabled, Calls, Pending, ghosts
<1>27. ASSUME NEW t \in Callers, NEW b \in BOOLEAN, RequestRaw(t, b)
       PROVE  GateParts'
  BY <1>27, LabelStep DEF RequestRaw, Calls, Pending, ghosts
<1>28. ASSUME NEW t \in Callers, NEW a \in ActionType, Request(t, a)
       PROVE  GateParts'
  BY <1>28, NoStep DEF Request, locals, ghosts
<1>29. ASSUME NEW t \in Callers, ReloadServices(t)
       PROVE  GateParts'
  BY <1>29, LabelStep DEF ReloadServices, Calls, CallApply, Pending,
      ghosts
<1>30. ASSUME NEW t \in Callers, StoreUser(t)
       PROVE  GateParts'
  BY <1>30, FlagWrite DEF StoreUser, CallApply, Pending
<1>31. ASSUME NEW t \in Callers, EnqueueRaw(t)
       PROVE  GateParts'
  BY <1>31, LabelStep DEF EnqueueRaw, Pending, ghosts
<1>32. ASSUME NEW t \in Callers, OtaBegin(t)
       PROVE  GateParts'
  BY <1>32, FlagWrite DEF OtaBegin, Calls, CallApply, Pending
<1>33. ASSUME NEW t \in Callers, OtaFailed(t)
       PROVE  GateParts'
  BY <1>33, FlagWrite DEF OtaFailed, CallApply, Pending
<1>34. ASSUME NEW t \in Callers, OtaAccepted(t)
       PROVE  GateParts'
  BY <1>34, LabelStep DEF OtaAccepted, Pending, ghosts
<1>35. CASE Reboot
  BY <1>35, RebootStep
<1>36. CASE UNCHANGED vars
  BY <1>36, NoStep DEF vars, locals, ghosts
<1> QED
  BY <1>1, <1>2, <1>3, <1>4, <1>5, <1>6, <1>7, <1>8, <1>9, <1>10, <1>11,
      <1>12, <1>13, <1>14, <1>15, <1>16, <1>17, <1>18, <1>19, <1>20, <1>21,
      <1>22, <1>23, <1>24, <1>25, <1>26, <1>27, <1>28, <1>29, <1>30, <1>31,
      <1>32, <1>33, <1>34, <1>35, <1>36, NextCases

\* The gate reaches every client (DivergesOnlyByRace): whatever the tasks and
\* their interleaving, once all of them are out of apply_stream_state() a
\* client that differs from the flags was last written with a value computed
\* before another task's flag write.
THEOREM GateReachesClients == Spec => []DivergesOnlyByRace
<1>1. Init => GateParts
  <2> SUFFICES ASSUME Init PROVE GateParts
    OBVIOUS
  <2>1. \A c : Gate(c)
    BY DEF Init, StartFlags, Gate, effective_streams_suspended,
           effective_outbound_streams_suspended
  <2>2. SomeoneWillWrite
    BY <2>1 DEF Init, SomeoneWillWrite
  <2>3. HeldIsCurrent /\ StaleIsHeld
    BY DEF Init, StartLabel, HeldIsCurrent, StaleIsHeld
  <2> QED
    BY <2>2, <2>3 DEF GateParts
<1>2. TypeOK /\ GateParts /\ [Next]_vars => GateParts'
  BY GateStep
<1>3. GateParts => DivergesOnlyByRace
  BY DEF GateParts, SomeoneWillWrite, WillWrite, DivergesOnlyByRace, Quiet,
         ApplyLabels
<1> QED
  BY <1>1, <1>2, <1>3, TypeCorrect, PTL DEF Spec

-----------------------------------------------------------------------------
(* The receiver's output.                                                  *)

\* What the main loop is going to parse, and what the receiver has been told
\* to send once the base task is at the loop or about to handle an action.
Demanded == IF "raw_collection" \in flags THEN "raw"
            ELSE IF mode = "transmit" THEN "rtcm" ELSE "none"

AtLoop == \E label \in {"loop"} \cup ActionType :
             \/ at["base"] = label
             \/ at["base"] \in ApplyLabels /\ ret["base"] = label

OutputInv ==
    /\ ~Faults /\ AtLoop => output = Demanded
    /\ ret["base"] \notin {"tx_cfg", "ex_reset", "ex_cfg"}
    /\ at["base"] \in {"tx_cfg", "ex_reset", "ex_cfg"} \/ BaseAt("um_cfg") =>
          mode = "transmit" /\ "raw_collection" \notin flags

\* The steps of the other tasks.
LEMMA OutputFrame ==
  ASSUME OutputInv,
         "raw_collection" \in flags' <=> "raw_collection" \in flags,
         mode' = mode, output' = output,
         at'["base"] = at["base"], ret'["base"] = ret["base"]
  PROVE  OutputInv'
  BY DEF OutputInv, AtLoop, BaseAt, Demanded

LEMMA OutputStep ==
  ASSUME TypeOK, CollectionInv, OutputInv, [Next]_vars
  PROVE  OutputInv'
<1> USE GateAssumption, Names
<1>1. ASSUME NEW t \in Tasks, ApplyRead(t) \/ ApplyReadOut(t) PROVE OutputInv'
  BY <1>1 DEF ApplyRead, ApplyReadOut, BeginHold, Goto, OutputInv, AtLoop, BaseAt, Demanded,
      ApplyLabels, ActionType, device, TypeOK
<1>2. ASSUME NEW t \in Tasks, ApplyWrite(t) PROVE OutputInv'
  <2>1. CASE t # "base"
    BY <1>2, <2>1, OutputFrame DEF ApplyWrite, Goto, device, TypeOK
  <2>2. CASE t = "base"
    <3>1. /\ output' = output /\ Demanded' = Demanded
          /\ flags' = flags /\ mode' = mode
      BY <1>2 DEF ApplyWrite, device, Demanded
    <3>2. CASE at'["base"] \in ApplyLabels /\ ret' = ret
      <4>1. at["base"] = "write" /\ ret'["base"] = ret["base"]
        BY <1>2, <2>2, <3>2 DEF ApplyWrite
      <4>2. AtLoop' <=> AtLoop
        BY <3>2, <4>1 DEF AtLoop, ApplyLabels, ActionType
      <4>3. BaseAt("um_cfg")' <=> BaseAt("um_cfg")
        BY <3>2, <4>1 DEF BaseAt, ApplyLabels
      <4> QED
        BY <3>1, <3>2, <4>2, <4>3 DEF OutputInv, ApplyLabels
    <3>3. CASE at'["base"] = ret["base"]
      <4>1. /\ at["base"] = "write" /\ ret'["base"] \in {"idle", ret["base"]}
            /\ ret["base"] \notin ApplyLabels
        BY <1>2, <2>2 DEF ApplyWrite, TypeOK
      <4>2. at'["base"] \notin ApplyLabels \cup {"tx_cfg", "ex_reset", "ex_cfg"}
        BY <3>3, <4>1 DEF OutputInv
      <4>3. AtLoop' <=> AtLoop
        BY <3>3, <4>1, <4>2 DEF AtLoop, ApplyLabels, ActionType
      <4>4. BaseAt("um_cfg")' <=> BaseAt("um_cfg")
        BY <3>3, <4>1, <4>2 DEF BaseAt, ApplyLabels
      <4> QED
        BY <3>1, <4>1, <4>2, <4>3, <4>4 DEF OutputInv
    <3> QED
      BY <1>2, <2>2, <3>2, <3>3 DEF ApplyWrite, Goto, ApplyLabels, TypeOK
  <2> QED
    BY <2>1, <2>2
<1>3. CASE Boot
  BY <1>3 DEF Boot, EnterTransmit, EnterSurvey, CallApply, Readiness, Goto, BaseAt,
      ApplyLabels, ActionType, CollectionInv, OutputInv, AtLoop, TypeOK
<1>4. CASE SurveyOutput
  BY <1>4 DEF SurveyOutput, Configured, Goto, BaseAt, ApplyLabels, ActionType,
      CollectionInv, OutputInv, AtLoop, Demanded, TypeOK
<1>5. CASE TransmitOutput \/ ResetOutput
  BY <1>5 DEF TransmitOutput, ResetOutput, Configured, CallApply, Goto, BaseAt, ApplyLabels,
      ActionType, OutputInv, AtLoop, Demanded, TypeOK
<1>6. CASE HandleSurvey
  BY <1>6 DEF HandleSurvey, ExitRaw, EnterSurvey, CallApply, Readiness, Goto, BaseAt,
      ApplyLabels, ActionType, CollectionInv, OutputInv, AtLoop, TypeOK
<1>7. CASE HandlePosition
  BY <1>7 DEF HandlePosition, SaveFailed, ExitRaw, EnterTransmit, Readiness, Goto, BaseAt,
      ApplyLabels, ActionType, CollectionInv, OutputInv, AtLoop, device, TypeOK
<1>8. CASE HandleStopRaw
  BY <1>8 DEF HandleStopRaw, ExitRaw, BackToLoop, Goto, BaseAt, ApplyLabels, ActionType,
      CollectionInv, OutputInv, AtLoop, Demanded, device, TypeOK
<1>9. CASE ResetUm980
  BY <1>9 DEF ResetUm980, CallApply, BackToLoop, Readiness, Goto, BaseAt, ApplyLabels,
      ActionType, OutputInv, AtLoop, Demanded, device, TypeOK
<1>10. CASE EnterRaw
  BY <1>10 DEF EnterRaw, CallApply, BackToLoop, Goto, BaseAt, ApplyLabels, ActionType,
      OutputInv, AtLoop, Demanded, device, TypeOK
<1>11. CASE RawOutput
  BY <1>11 DEF RawOutput, Configured, Goto, BaseAt, ApplyLabels, ActionType,
      CollectionInv, OutputInv, AtLoop, Demanded, TypeOK
<1>12. CASE ExitRawReset \/ ExitRawOutput
  BY <1>12 DEF ExitRawReset, ExitRawOutput, Configured, Readiness, Goto, BaseAt, ApplyLabels,
      ActionType, OutputInv, AtLoop, Demanded, TypeOK
<1>13. CASE Dequeue
  <2>1. Head(actions) \in ActionType
    BY <1>13 DEF Dequeue, TypeOK
  <2> QED
    BY <1>13, <2>1 DEF Dequeue, Goto, BaseAt, ApplyLabels, ActionType, OutputInv, AtLoop,
        Demanded, TypeOK
<1>14. CASE SurveyCompleted
  BY <1>14 DEF SurveyCompleted, SaveFailed, EnterTransmit, Readiness, Goto, BaseAt,
      ApplyLabels, ActionType, CollectionInv, OutputInv, AtLoop, locals, TypeOK
<1>15. CASE Frame \/ RateReached
  BY <1>15 DEF Frame, RateReached, Raise, CallApply, Goto, BaseAt, ApplyLabels, ActionType,
      OutputInv, AtLoop, Demanded, TypeOK
<1>16. CASE RateTooLow \/ WifiFlip \/ \E t \in Callers, a \in ActionType : Request(t, a)
  BY <1>16, OutputFrame DEF RateTooLow, WifiFlip, Request, locals, device
<1>17. CASE EnableLoad \/ EnableStore \/ EnableResume \/ GatePoll
  BY <1>17, OutputFrame DEF EnableLoad, EnableStore, EnableResume, GatePoll, CallApply, Goto,
      Put, device, TypeOK
<1>18. ASSUME NEW t \in Callers, NEW b \in BOOLEAN, SetStreamsEnabled(t, b) \/ RequestRaw(t, b)
       PROVE  OutputInv'
  BY <1>18, OutputFrame DEF SetStreamsEnabled, RequestRaw, Goto, Callers, device, TypeOK
<1>19. ASSUME NEW t \in Callers,
              ReloadServices(t) \/ StoreUser(t) \/ OtaBegin(t) \/ OtaFailed(t)
       PROVE  OutputInv'
  BY <1>19, OutputFrame DEF ReloadServices, StoreUser, OtaBegin, OtaFailed, CallApply, Goto,
      Callers, Put, device, TypeOK
<1>20. ASSUME NEW t \in Callers, EnqueueRaw(t) \/ OtaAccepted(t)
       PROVE  OutputInv'
  BY <1>20, OutputFrame DEF EnqueueRaw, OtaAccepted, Goto, Callers, device, TypeOK
<1>21. CASE Reboot
  BY <1>21 DEF Reboot, StartLabel, BaseAt, ApplyLabels, ActionType, OutputInv, AtLoop
<1>22. CASE UNCHANGED vars
  BY <1>22, OutputFrame DEF vars, locals, device
<1> QED
  BY <1>1, <1>2, <1>3, <1>4, <1>5, <1>6, <1>7, <1>8, <1>9, <1>10, <1>11,
      <1>12, <1>13, <1>14, <1>15, <1>16, <1>17, <1>18, <1>19, <1>20, <1>21,
      <1>22, NextCases

\* Whenever the main loop runs, the receiver sends what the loop parses
\* (OutputFollowsMode), however transitions, requests and restarts follow
\* each other, as long as no command to it fails.
THEOREM ReceiverFollowsMode == Spec => []OutputFollowsMode
<1>1. Init => CollectionInv /\ OutputInv
  BY Names DEF Init, StartLabel, StartFlags, BaseAt, AtLoop, ApplyLabels, ActionType,
      CollectionInv, OutputInv
<1>2. TypeOK /\ CollectionInv /\ OutputInv /\ [Next]_vars => CollectionInv' /\ OutputInv'
  BY CollectionStep, OutputStep
<1>3. OutputInv => OutputFollowsMode
  BY DEF OutputInv, AtLoop, Demanded, OutputFollowsMode
<1> QED
  BY <1>1, <1>2, <1>3, TypeCorrect, PTL DEF Spec

-----------------------------------------------------------------------------
(* The boot hold-off.                                                      *)

\* Until rtk_enable has restored the persisted state: the flag of the hold-off
\* is set, every client is suspended, and whoever is about to write one has
\* found that it must be.
Holding ==
    /\ "transient_streams_suspended" \in flags
    /\ suspended = Clients
    /\ \A t \in Tasks : at[t] = "write" => t \in held

\* Nobody returns into rtk_enable's start or into an upload that did not begin.
HoldInv ==
    /\ \A t \in Tasks : ret[t] \notin {"wait", "en_user", "ota"} \/ "ota" \in Api
    /\ "ota" \notin Api =>
          /\ \A t \in Tasks : at[t] # "ota"
          /\ at["enable"] \in {"wait", "en_user"} => Holding

\* A task moves on outside apply_stream_state(), or into it, and neither ends
\* the hold-off nor writes a client.
LEMMA HoldMove ==
  ASSUME TypeOK, HoldInv, NEW t \in Tasks, NEW label, Goto(t, label),
         label \notin {"write", "wait", "en_user", "ota"},
         ret' = ret \/ \E l : l \notin {"wait", "en_user", "ota"} /\ ret' = [ret EXCEPT ![t] = l],
         "transient_streams_suspended" \in flags => "transient_streams_suspended" \in flags',
         suspended' = suspended, held' = held
  PROVE  HoldInv'
<1>1. at'[t] = label /\ \A u \in Tasks \ {t} : at'[u] = at[u]
  BY DEF Goto, TypeOK
<1>2. \A u \in Tasks : ret'[u] \notin {"wait", "en_user", "ota"} \/ "ota" \in Api
  BY DEF HoldInv, TypeOK
<1> QED
  BY <1>1, <1>2, Names DEF HoldInv, Holding

LEMMA HoldStay ==
  ASSUME HoldInv, UNCHANGED <<at, ret, flags, suspended, held>>
  PROVE  HoldInv'
  BY DEF HoldInv, Holding

LEMMA HoldRead ==
  ASSUME TypeOK, HoldInv, NEW t \in Tasks, ApplyRead(t) \/ ApplyReadOut(t)
  PROVE  HoldInv'
<1>1. CASE "ota" \in Api
  BY <1>1 DEF HoldInv
<1>2. CASE "ota" \notin Api
  <2>1. /\ at'[t] = "write" /\ \A u \in Tasks \ {t} : at'[u] = at[u]
        /\ UNCHANGED <<flags, suspended, ret>>
    BY DEF ApplyRead, ApplyReadOut, BeginHold, Goto, TypeOK
  <2>2. "transient_streams_suspended" \in flags => t \in held'
    BY DEF ApplyRead, ApplyReadOut, BeginHold, Put, effective_outbound_streams_suspended,
           effective_streams_suspended
  <2>3. \A u \in Tasks \ {t} : u \in held => u \in held'
    BY DEF ApplyRead, ApplyReadOut, BeginHold, Put
  <2> QED
    BY <1>2, <2>1, <2>2, <2>3, Names DEF HoldInv, Holding
<1> QED
  BY <1>1, <1>2

LEMMA HoldWrite ==
  ASSUME TypeOK, HoldInv, NEW t \in Tasks, ApplyWrite(t)
  PROVE  HoldInv'
<1>1. CASE "ota" \in Api
  BY <1>1 DEF HoldInv
<1>2. CASE "ota" \notin Api
  <2>1. /\ \A u \in Tasks \ {t} : at'[u] = at[u] /\ ret'[u] = ret[u]
        /\ at'[t] \in {"readOut", "write", ret[t]} /\ ret'[t] \in {ret[t], "idle"}
        /\ at[t] = "write" /\ UNCHANGED flags
    BY DEF ApplyWrite, Goto, TypeOK
  <2>2. ret[t] \notin {"wait", "en_user", "ota", "write"}
    BY <1>2 DEF HoldInv, TypeOK, ApplyLabels
  <2>3. \A u \in Tasks : ret'[u] \notin {"wait", "en_user", "ota"}
    BY <1>2, <2>1 DEF HoldInv
  <2>4. \A u \in Tasks : at'[u] # "ota"
    BY <1>2, <2>1, <2>2 DEF HoldInv
  <2>5. ASSUME at'["enable"] \in {"wait", "en_user"} PROVE Holding'
    <3>1. at["enable"] \in {"wait", "en_user"}
      BY <2>1, <2>2, <2>5, Names
    <3>2. Holding /\ t \in held
      BY <1>2, <2>1, <3>1 DEF HoldInv, Holding
    <3>3. suspended' = Clients
      BY <3>2 DEF ApplyWrite, Put, Holding, TypeOK
    <3>4. ASSUME NEW u \in Tasks, at'[u] = "write" PROVE u \in held'
      <4>1. u # t => u \in held'
        BY <2>1, <3>2, <3>4 DEF Holding, ApplyWrite, Release
      <4>2. u = t => u \in held'
        BY <2>2, <3>2, <3>4 DEF ApplyWrite, Goto, TypeOK
      <4> QED
        BY <4>1, <4>2
    <3> QED
      BY <2>1, <3>2, <3>3, <3>4 DEF Holding
  <2> QED
    BY <1>2, <2>3, <2>4, <2>5 DEF HoldInv
<1> QED
  BY <1>1, <1>2

LEMMA HoldStep ==
  ASSUME TypeOK, HoldInv, "ota" \notin Api, [Next]_vars
  PROVE  HoldInv'
<1> USE Names
<1>1. ASSUME NEW t \in Tasks, ApplyRead(t) \/ ApplyReadOut(t) \/ ApplyWrite(t) PROVE HoldInv'
  BY <1>1, HoldRead, HoldWrite
<1>2. CASE Boot
  BY <1>2, HoldMove DEF Boot, EnterTransmit, EnterSurvey, CallApply, Readiness
<1>3. CASE SurveyOutput \/ RawOutput \/ ExitRawOutput
  BY <1>3, HoldMove DEF SurveyOutput, RawOutput, ExitRawOutput
<1>4. CASE TransmitOutput \/ ResetOutput
  BY <1>4, HoldMove DEF TransmitOutput, ResetOutput, CallApply
<1>5. CASE HandleSurvey
  BY <1>5, HoldMove DEF HandleSurvey, ExitRaw, EnterSurvey, CallApply, Readiness
<1>6. CASE HandlePosition
  BY <1>6, HoldMove DEF HandlePosition, ExitRaw, EnterTransmit, Readiness
<1>7. CASE HandleStopRaw
  BY <1>7, HoldMove DEF HandleStopRaw, ExitRaw, BackToLoop
<1>8. CASE ResetUm980 \/ EnterRaw
  BY <1>8, HoldMove DEF ResetUm980, EnterRaw, CallApply, BackToLoop, Readiness
<1>9. CASE ExitRawReset
  BY <1>9, HoldMove DEF ExitRawReset, Readiness
<1>10. CASE Dequeue
  <2>1. Head(actions) \in ActionType
    BY <1>10 DEF Dequeue, TypeOK
  <2> QED
    BY <1>10, <2>1, HoldMove DEF Dequeue, ActionType
<1>11. CASE SurveyCompleted
  BY <1>11, HoldMove, HoldStay DEF SurveyCompleted, EnterTransmit, Readiness, locals
<1>12. CASE Frame \/ RateReached
  <2>1. CASE UNCHANGED <<at, ret>>
    BY <1>12, <2>1 DEF Frame, RateReached, Raise, HoldInv, Holding
  <2>2. CASE CallApply("base", "loop")
    BY <1>12, <2>2, HoldMove DEF Frame, RateReached, Raise, CallApply
  <2> QED
    BY <1>12, <2>1, <2>2 DEF Frame, RateReached, Raise
<1>13. CASE RateTooLow \/ WifiFlip \/ \E t \in Callers, a \in ActionType : Request(t, a)
  BY <1>13, HoldStay DEF RateTooLow, WifiFlip, Request, locals
<1>14. CASE EnableLoad
  BY <1>14 DEF EnableLoad, Goto, HoldInv, Holding, TypeOK
<1>15. CASE EnableStore
  BY <1>15 DEF EnableStore, CallApply, Goto, HoldInv, TypeOK
<1>16. CASE EnableResume
  BY <1>16, HoldMove DEF EnableResume
<1>17. CASE GatePoll
  BY <1>17, HoldMove DEF GatePoll, CallApply, Put
<1>18. ASSUME NEW t \in Callers, NEW b \in BOOLEAN, SetStreamsEnabled(t, b) \/ RequestRaw(t, b)
       PROVE  HoldInv'
  BY <1>18, HoldMove DEF SetStreamsEnabled, RequestRaw
<1>19. ASSUME NEW t \in Callers, ReloadServices(t) \/ StoreUser(t) PROVE HoldInv'
  BY <1>19, HoldMove DEF ReloadServices, StoreUser, CallApply, Put
<1>20. ASSUME NEW t \in Callers, EnqueueRaw(t) PROVE HoldInv'
  BY <1>20, HoldMove DEF EnqueueRaw
<1>21. ASSUME NEW t \in Callers, OtaFailed(t) \/ OtaAccepted(t) PROVE FALSE
  BY <1>21 DEF OtaFailed, OtaAccepted, HoldInv
<1>22. CASE Reboot
  BY <1>22 DEF Reboot, StartLabel, StartFlags, HoldInv, Holding
<1>23. CASE UNCHANGED vars
  BY <1>23, HoldStay DEF vars, locals
<1> QED
  BY <1>1, <1>2, <1>3, <1>4, <1>5, <1>6, <1>7, <1>8, <1>9, <1>10, <1>11,
      <1>12, <1>13, <1>14, <1>15, <1>16, <1>17, <1>18, <1>19, <1>20, <1>21,
      <1>22, <1>23, NextCases

\* No stream runs before rtk_enable has restored the persisted state
\* (HoldOff), whichever tasks have entered apply_stream_state() by then.
THEOREM NoStreamBeforeRestore == Spec => []HoldOff
<1>1. Init => HoldInv
  BY Names DEF Init, StartLabel, StartFlags, HoldInv, Holding
<1>2. TypeOK /\ HoldInv /\ [Next]_vars => HoldInv'
  <2>1. CASE "ota" \in Api
    BY <2>1 DEF HoldInv
  <2> QED
    BY <2>1, HoldStep
<1>3. HoldInv => HoldOff
  BY DEF HoldInv, Holding, HoldOff
<1> QED
  BY <1>1, <1>2, <1>3, TypeCorrect, PTL DEF Spec
=============================================================================
