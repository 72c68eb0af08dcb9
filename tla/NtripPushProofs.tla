---------------------------- MODULE NtripPushProofs ----------------------------
(***************************************************************************)
(* Theorems about NtripPush, for any set of calling tasks, any queue depth *)
(* and any bounds.                                                         *)
(***************************************************************************)
EXTENDS NtripPush, TLAPS

\* The task has read its configuration for a connection it holds or makes.
Committed == socket = "open" \/ run = "dial"

\* OldConnectionIsDoomed from the moment the credentials are read.
DoomInv ==
    (Committed /\ old = "yes") => "reconnect" \in flags \/ DemandUnderWay

\* A streak of sends belongs to one connection.
StreakInv ==
    /\ healthy # "none" => "once" \in sent
    /\ healthy = "long" => "aged" \in sent
    /\ owed = "yes" => failures > 0

\* Every step of Next is one of these.
LEMMA NextCases ==
  ASSUME Next
  PROVE  \/ \E t \in Callers : Suspend(t) \/ SuspendResumed(t) \/ SuspendReconnect(t)
         \/ \E t \in Callers : Resume(t) \/ ResumeStamp(t) \/ ConfigureReconnect(t)
         \/ \E t \in Others, e \in BOOLEAN : Configure(t, e)
         \/ Push \/ PushSend \/ PushDrop \/ PushResend
         \/ Top \/ StayDown \/ PassGate \/ Exchange
         \/ StaggerWait \/ StaggerDone \/ Clear \/ UseSocket
         \/ Creds \/ DialOk \/ ShakeOk \/ Accepted
         \/ Headers \/ ConnectFails \/ Receive \/ ReceiveTimeout
         \/ SendOk \/ SendFailed \/ Delay \/ StaggerElapses
         \/ StreakElapses
  BY DEF Next, CallerContinues, PushContinues, TaskStep

-----------------------------------------------------------------------------
(* Type correctness.                                                       *)

\* Marking every queued packet stale keeps the queue a queue of packets.
LEMMA StaleQueue ==
  ASSUME NEW q \in Seq(Packet), NEW r, r = [i \in DOMAIN q |-> "stale"]
  PROVE  r \in Seq(Packet) /\ Len(r) = Len(q)
<1>1. DOMAIN q = 1 .. Len(q) /\ Len(q) \in Nat
  OBVIOUS
<1>2. r \in [1 .. Len(q) -> Packet]
  BY <1>1 DEF Packet
<1> QED
  BY <1>1, <1>2

\* One step preserves the types.
LEMMA TypeStep ==
  ASSUME TypeOK, [Next]_vars
  PROVE  TypeOK'
<1> USE PushAssumption
<1>1. ASSUME NEW t \in Callers, Suspend(t) PROVE TypeOK'
  BY <1>1 DEF Suspend, Demand, Goto, Callers, CallLabels, AtomicFlags,
      TypeOK, atomics, task, ghosts
<1>2. ASSUME NEW t \in Callers, SuspendResumed(t) PROVE TypeOK'
  BY <1>2 DEF SuspendResumed, Goto, Callers, CallLabels, AtomicFlags,
      TypeOK, atomics, task, ghosts
<1>3. ASSUME NEW t \in Callers, SuspendReconnect(t) PROVE TypeOK'
  BY <1>3 DEF SuspendReconnect, Goto, Callers, CallLabels, AtomicFlags,
      TypeOK, atomics, task, ghosts
<1>4. ASSUME NEW t \in Callers, Resume(t) PROVE TypeOK'
  BY <1>4 DEF Resume, Goto, Callers, CallLabels, AtomicFlags, TypeOK,
      atomics, task, ghosts
<1>5. ASSUME NEW t \in Callers, ResumeStamp(t) PROVE TypeOK'
  BY <1>5 DEF ResumeStamp, Goto, Callers, CallLabels, AtomicFlags, TypeOK,
      atomics, task, ghosts
<1>6. ASSUME NEW t \in Callers, ConfigureReconnect(t) PROVE TypeOK'
  BY <1>6 DEF ConfigureReconnect, Goto, Callers, CallLabels, AtomicFlags,
      TypeOK, atomics, task, ghosts
<1>7. ASSUME NEW t \in Others, NEW e \in BOOLEAN, Configure(t, e)
      PROVE  TypeOK'
  BY <1>7 DEF Configure, Demand, Goto, Callers, CallLabels, AtomicFlags,
      TypeOK, atomics, task, ghosts
<1>8. CASE Push
  BY <1>8 DEF Push, Goto, Callers, CallLabels, Packet, TypeOK, atomics,
      task, ghosts
<1>9. CASE PushSend
  BY <1>9 DEF PushSend, Goto, Callers, CallLabels, Packet, TypeOK, atomics,
      task, ghosts
<1>10. CASE PushDrop
  BY <1>10 DEF PushDrop, Goto, Callers, CallLabels, Packet, TypeOK, atomics,
      task, ghosts
<1>11. CASE PushResend
  BY <1>11 DEF PushResend, Goto, Callers, CallLabels, Packet, TypeOK,
      atomics, task, ghosts
<1>12. CASE Top
  BY <1>12 DEF Top, RunLabels, AtomicFlags, Packet, TypeOK, atomics, task,
      ghosts, Kept, Quiet
<1>13. CASE StayDown
  BY <1>13 DEF StayDown, StartOver, Close, RunLabels, AtomicFlags, Packet,
      TypeOK, atomics, task, ghosts, Kept, Quiet
<1>14. CASE PassGate
  BY <1>14 DEF PassGate, RunLabels, AtomicFlags, Packet, TypeOK, atomics,
      task, ghosts, Kept, Quiet
<1>15. CASE Exchange
  <2>1. CASE "reconnect" \in flags
    <3>1. StartOver({"reconnect"}) /\ run' = "stagger" /\ UNCHANGED Kept
      BY <1>15, <2>1 DEF Exchange
    <3>2. queue' \in Seq(Packet) /\ Len(queue') <= QueueDepth
      BY <3>1 DEF StartOver
    <3> QED
      BY <3>1, <3>2 DEF StartOver, Close, RunLabels, Packet, TypeOK, Kept
  <2>2. CASE "reconnect" \notin flags
    BY <1>15, <2>2 DEF Exchange, RunLabels, TypeOK, ghosts, Kept, Quiet
  <2> QED
    BY <2>1, <2>2
<1>16. CASE StaggerWait
  BY <1>16 DEF StaggerWait, RunLabels, AtomicFlags, Packet, TypeOK, atomics,
      task, ghosts, Kept, Quiet
<1>17. CASE StaggerDone
  BY <1>17 DEF StaggerDone, RunLabels, AtomicFlags, Packet, TypeOK, atomics,
      task, ghosts, Kept, Quiet
<1>18. CASE Clear
  BY <1>18 DEF Clear, RunLabels, AtomicFlags, Packet, TypeOK, atomics, task,
      ghosts, Kept, Quiet
<1>19. CASE UseSocket
  BY <1>19 DEF UseSocket, RunLabels, AtomicFlags, Packet, TypeOK, atomics,
      task, ghosts, Kept, Quiet
<1>20. CASE Creds
  BY <1>20 DEF Creds, RunLabels, AtomicFlags, Packet, TypeOK, atomics, task,
      ghosts, Kept, Quiet
<1>21. CASE DialOk
  BY <1>21 DEF DialOk, RunLabels, AtomicFlags, Packet, TypeOK, atomics,
      task, ghosts, Kept, Quiet
<1>22. CASE ShakeOk
  BY <1>22 DEF ShakeOk, RunLabels, AtomicFlags, Packet, TypeOK, atomics,
      task, ghosts, Kept, Quiet
<1>23. CASE Accepted
  BY <1>23 DEF Accepted, RunLabels, AtomicFlags, Packet, TypeOK, atomics,
      task, ghosts, Kept, Quiet
<1>24. CASE Headers
  BY <1>24 DEF Headers, RunLabels, AtomicFlags, Packet, TypeOK,
      atomics, task, ghosts, Kept, Quiet
<1>25. CASE ConnectFails
  <2>1. PICK addr \in {"cached", "none"} : ConnectFailed(addr)
    BY <1>25 DEF ConnectFails, TypeOK
  <2>2. failures' \in 0 .. MaxFailures
    BY <2>1 DEF ConnectFailed, Saturate, TypeOK
  <2>3. dns' \in {"cached", "none"} /\ resolved' \in {"yes", "no"}
    BY <2>1 DEF ConnectFailed, TypeOK
  <2> QED
    BY <2>1, <2>2, <2>3 DEF ConnectFailed, Close, RunLabels, Packet, TypeOK,
        Kept
<1>26. CASE Receive
  BY <1>26 DEF Receive, RunLabels, AtomicFlags, Packet, TypeOK, atomics,
      task, ghosts, Kept, Quiet
<1>27. CASE ReceiveTimeout
  BY <1>27 DEF ReceiveTimeout, RunLabels, AtomicFlags, Packet, TypeOK,
      atomics, task, ghosts, Kept, Quiet
<1>28. CASE SendOk
  BY <1>28 DEF SendOk, RunLabels, AtomicFlags, Packet, TypeOK, atomics,
      task, ghosts, Kept, Quiet
<1>29. CASE SendFailed
  <2>1. queue' \in Seq(Packet) /\ Len(queue') = Len(queue)
    BY <1>29, StaleQueue DEF SendFailed, TypeOK
  <2> QED
    BY <1>29, <2>1 DEF SendFailed, Close, Saturate, RunLabels, Packet,
        TypeOK, Kept
<1>30. CASE Delay
  BY <1>30 DEF Delay, RunLabels, AtomicFlags, Packet, TypeOK, atomics, task,
      ghosts, Kept, Quiet
<1>31. CASE StaggerElapses
  BY <1>31 DEF StaggerElapses, RunLabels, AtomicFlags, Packet, TypeOK,
      atomics, task, ghosts, Kept, Quiet
<1>32. CASE StreakElapses
  BY <1>32 DEF StreakElapses, RunLabels, AtomicFlags, Packet, TypeOK,
      atomics, task, ghosts, Kept, Quiet
<1>33. CASE UNCHANGED vars
  BY <1>33 DEF vars, TypeOK, atomics, task, ghosts, Kept, Quiet
<1> QED
  BY <1>1, <1>2, <1>3, <1>4, <1>5, <1>6, <1>7, <1>8, <1>9, <1>10, <1>11,
      <1>12, <1>13, <1>14, <1>15, <1>16, <1>17, <1>18, <1>19, <1>20, <1>21,
      <1>22, <1>23, <1>24, <1>25, <1>26, <1>27, <1>28, <1>29, <1>30, <1>31,
      <1>32, <1>33, NextCases

\* Every variable keeps its type and the packet queue its depth, whatever the
\* callers, the caster and the timing do (TypeOK).
THEOREM PushTypes == Spec => []TypeOK
<1>1. Init => TypeOK
  BY PushAssumption DEF Init, TypeOK, AtomicFlags, Packet, CallLabels, RunLabels
<1>2. TypeOK /\ [Next]_vars => TypeOK'
  BY TypeStep
<1> QED
  BY <1>1, <1>2, PTL DEF Spec

-----------------------------------------------------------------------------
(* Connections and demands.                                                *)

\* One step preserves DoomInv.
LEMMA DoomStep ==
  ASSUME TypeOK, DoomInv, [Next]_vars
  PROVE  DoomInv'
<1> USE PushAssumption
<1>1. ASSUME NEW t \in Callers, Suspend(t) PROVE DoomInv'
  BY <1>1 DEF Suspend, Demand, Goto, Callers, TypeOK, DoomInv, Committed,
      DemandUnderWay, atomics, task, ghosts
<1>2. ASSUME NEW t \in Callers, SuspendResumed(t) PROVE DoomInv'
  BY <1>2 DEF SuspendResumed, Goto, Callers, TypeOK, DoomInv, Committed,
      DemandUnderWay, atomics, task, ghosts
<1>3. ASSUME NEW t \in Callers, SuspendReconnect(t) PROVE DoomInv'
  BY <1>3 DEF SuspendReconnect, Goto, Callers, TypeOK, DoomInv, Committed,
      DemandUnderWay, atomics, task, ghosts
<1>4. ASSUME NEW t \in Callers, Resume(t) PROVE DoomInv'
  BY <1>4 DEF Resume, Goto, Callers, TypeOK, DoomInv, Committed,
      DemandUnderWay, atomics, task, ghosts
<1>5. ASSUME NEW t \in Callers, ResumeStamp(t) PROVE DoomInv'
  BY <1>5 DEF ResumeStamp, Goto, Callers, TypeOK, DoomInv, Committed,
      DemandUnderWay, atomics, task, ghosts
<1>6. ASSUME NEW t \in Callers, ConfigureReconnect(t) PROVE DoomInv'
  BY <1>6 DEF ConfigureReconnect, Goto, Callers, TypeOK, DoomInv, Committed,
      DemandUnderWay, atomics, task, ghosts
<1>7. ASSUME NEW t \in Others, NEW e \in BOOLEAN, Configure(t, e)
      PROVE  DoomInv'
  BY <1>7 DEF Configure, Demand, Goto, Callers, TypeOK, DoomInv, Committed,
      DemandUnderWay, atomics, task, ghosts
<1>8. CASE Push
  BY <1>8 DEF Push, Goto, Callers, TypeOK, DoomInv, Committed,
      DemandUnderWay, atomics, task, ghosts
<1>9. CASE PushSend
  BY <1>9 DEF PushSend, Goto, Callers, TypeOK, DoomInv, Committed,
      DemandUnderWay, atomics, task, ghosts
<1>10. CASE PushDrop
  BY <1>10 DEF PushDrop, Goto, Callers, TypeOK, DoomInv, Committed,
      DemandUnderWay, atomics, task, ghosts
<1>11. CASE PushResend
  BY <1>11 DEF PushResend, Goto, Callers, TypeOK, DoomInv, Committed,
      DemandUnderWay, atomics, task, ghosts
<1>12. CASE Top
  BY <1>12 DEF Top, DoomInv, Committed, DemandUnderWay, atomics, task,
      ghosts, Kept, Quiet
<1>13. CASE StayDown
  BY <1>13 DEF StayDown, StartOver, Close, DoomInv, Committed,
      DemandUnderWay, atomics, task, ghosts, Kept, Quiet
<1>14. CASE PassGate
  BY <1>14 DEF PassGate, DoomInv, Committed, DemandUnderWay, atomics, task,
      ghosts, Kept, Quiet
<1>15. CASE Exchange
  BY <1>15 DEF Exchange, StartOver, Close, DoomInv, Committed,
      DemandUnderWay, atomics, task, ghosts, Kept, Quiet
<1>16. CASE StaggerWait
  BY <1>16 DEF StaggerWait, DoomInv, Committed, DemandUnderWay, atomics,
      task, ghosts, Kept, Quiet
<1>17. CASE StaggerDone
  BY <1>17 DEF StaggerDone, DoomInv, Committed, DemandUnderWay, atomics,
      task, ghosts, Kept, Quiet
<1>18. CASE Clear
  BY <1>18 DEF Clear, DoomInv, Committed, DemandUnderWay, atomics, task,
      ghosts, Kept, Quiet
<1>19. CASE UseSocket
  BY <1>19 DEF UseSocket, DoomInv, Committed, DemandUnderWay, atomics, task,
      ghosts, Kept, Quiet
<1>20. CASE Creds
  BY <1>20 DEF Creds, DoomInv, Committed, DemandUnderWay, atomics, task,
      ghosts, Kept, Quiet
<1>21. CASE DialOk
  BY <1>21 DEF DialOk, DoomInv, Committed, DemandUnderWay, atomics, task,
      ghosts, Kept, Quiet
<1>22. CASE ShakeOk
  BY <1>22 DEF ShakeOk, DoomInv, Committed, DemandUnderWay, atomics, task,
      ghosts, Kept, Quiet
<1>23. CASE Accepted
  BY <1>23 DEF Accepted, DoomInv, Committed, DemandUnderWay, atomics, task,
      ghosts, Kept, Quiet
<1>24. CASE Headers
  BY <1>24 DEF Headers, DoomInv, Committed, DemandUnderWay, atomics, task,
      ghosts, Kept, Quiet
<1>25. CASE ConnectFails
  BY <1>25 DEF ConnectFails, ConnectFailed, Close, DoomInv, Committed,
      DemandUnderWay, atomics, task, ghosts, Kept, Quiet
<1>26. CASE Receive
  BY <1>26 DEF Receive, DoomInv, Committed, DemandUnderWay, atomics, task,
      ghosts, Kept, Quiet
<1>27. CASE ReceiveTimeout
  BY <1>27 DEF ReceiveTimeout, DoomInv, Committed, DemandUnderWay, atomics,
      task, ghosts, Kept, Quiet
<1>28. CASE SendOk
  BY <1>28 DEF SendOk, DoomInv, Committed, DemandUnderWay, atomics, task,
      ghosts, Kept, Quiet
<1>29. CASE SendFailed
  BY <1>29 DEF SendFailed, Close, DoomInv, Committed, DemandUnderWay,
      atomics, task, ghosts, Kept, Quiet
<1>30. CASE Delay
  BY <1>30 DEF Delay, DoomInv, Committed, DemandUnderWay, atomics, task,
      ghosts, Kept, Quiet
<1>31. CASE StaggerElapses
  BY <1>31 DEF StaggerElapses, DoomInv, Committed, DemandUnderWay, atomics,
      task, ghosts, Kept, Quiet
<1>32. CASE StreakElapses
  BY <1>32 DEF StreakElapses, DoomInv, Committed, DemandUnderWay, atomics,
      task, ghosts, Kept, Quiet
<1>33. CASE UNCHANGED vars
  BY <1>33 DEF vars, DoomInv, Committed, DemandUnderWay, atomics, task,
      ghosts, Kept, Quiet
<1> QED
  BY <1>1, <1>2, <1>3, <1>4, <1>5, <1>6, <1>7, <1>8, <1>9, <1>10, <1>11,
      <1>12, <1>13, <1>14, <1>15, <1>16, <1>17, <1>18, <1>19, <1>20, <1>21,
      <1>22, <1>23, <1>24, <1>25, <1>26, <1>27, <1>28, <1>29, <1>30, <1>31,
      <1>32, <1>33, NextCases

\* No connection outlives the demand to give it up (OldConnectionIsDoomed):
\* reconnect_ is set after the change it announces and cleared before the
\* credentials are read, so no interleaving loses a demand.
THEOREM NoConnectionOutlivesDemand == Spec => []OldConnectionIsDoomed
<1>1. Init => DoomInv
  BY DEF Init, DoomInv, Committed
<1>2. TypeOK /\ DoomInv /\ [Next]_vars => DoomInv'
  BY DoomStep
<1>3. DoomInv => OldConnectionIsDoomed
  BY DEF DoomInv, Committed, OldConnectionIsDoomed
<1> QED
  BY <1>1, <1>2, <1>3, PushTypes, PTL DEF Spec

-----------------------------------------------------------------------------
(* Backoff.                                                                *)

\* One step preserves StreakInv.
LEMMA StreakStep ==
  ASSUME TypeOK, StreakInv, [Next]_vars
  PROVE  StreakInv'
<1> USE PushAssumption
<1>1. ASSUME NEW t \in Callers, Suspend(t) PROVE StreakInv'
  BY <1>1 DEF Suspend, Demand, StreakInv, task, ghosts
<1>2. ASSUME NEW t \in Callers, SuspendResumed(t) PROVE StreakInv'
  BY <1>2 DEF SuspendResumed, StreakInv, task, ghosts
<1>3. ASSUME NEW t \in Callers, SuspendReconnect(t) PROVE StreakInv'
  BY <1>3 DEF SuspendReconnect, StreakInv, task, ghosts
<1>4. ASSUME NEW t \in Callers, Resume(t) PROVE StreakInv'
  BY <1>4 DEF Resume, StreakInv, task, ghosts
<1>5. ASSUME NEW t \in Callers, ResumeStamp(t) PROVE StreakInv'
  BY <1>5 DEF ResumeStamp, StreakInv, task, ghosts
<1>6. ASSUME NEW t \in Callers, ConfigureReconnect(t) PROVE StreakInv'
  BY <1>6 DEF ConfigureReconnect, StreakInv, task, ghosts
<1>7. ASSUME NEW t \in Others, NEW e \in BOOLEAN, Configure(t, e)
      PROVE  StreakInv'
  BY <1>7 DEF Configure, Demand, StreakInv, task, ghosts
<1>8. CASE Push
  BY <1>8 DEF Push, StreakInv, task, ghosts
<1>9. CASE PushSend
  BY <1>9 DEF PushSend, StreakInv, task, ghosts
<1>10. CASE PushDrop
  BY <1>10 DEF PushDrop, StreakInv, task, ghosts
<1>11. CASE PushResend
  BY <1>11 DEF PushResend, StreakInv, task, ghosts
<1>12. CASE Top
  BY <1>12 DEF Top, StreakInv, TypeOK, atomics, task, ghosts, Kept, Quiet
<1>13. CASE StayDown
  BY <1>13 DEF StayDown, StartOver, Close, StreakInv, TypeOK, atomics, task,
      ghosts, Kept, Quiet
<1>14. CASE PassGate
  BY <1>14 DEF PassGate, StreakInv, TypeOK, atomics, task, ghosts, Kept,
      Quiet
<1>15. CASE Exchange
  BY <1>15 DEF Exchange, StartOver, Close, StreakInv, TypeOK, atomics, task,
      ghosts, Kept, Quiet
<1>16. CASE StaggerWait
  BY <1>16 DEF StaggerWait, StreakInv, TypeOK, atomics, task, ghosts, Kept,
      Quiet
<1>17. CASE StaggerDone
  BY <1>17 DEF StaggerDone, StreakInv, TypeOK, atomics, task, ghosts, Kept,
      Quiet
<1>18. CASE Clear
  BY <1>18 DEF Clear, StreakInv, TypeOK, atomics, task, ghosts, Kept, Quiet
<1>19. CASE UseSocket
  BY <1>19 DEF UseSocket, StreakInv, TypeOK, atomics, task, ghosts, Kept,
      Quiet
<1>20. CASE Creds
  BY <1>20 DEF Creds, StreakInv, TypeOK, atomics, task, ghosts, Kept, Quiet
<1>21. CASE DialOk
  BY <1>21 DEF DialOk, StreakInv, TypeOK, atomics, task, ghosts, Kept, Quiet
<1>22. CASE ShakeOk
  BY <1>22 DEF ShakeOk, StreakInv, TypeOK, atomics, task, ghosts, Kept,
      Quiet
<1>23. CASE Accepted
  BY <1>23 DEF Accepted, StreakInv, TypeOK, atomics, task, ghosts, Kept,
      Quiet
<1>24. CASE Headers
  BY <1>24 DEF Headers, StreakInv, TypeOK, atomics, task, ghosts, Kept,
      Quiet
<1>25. CASE ConnectFails
  BY <1>25 DEF ConnectFails, ConnectFailed, Close, Saturate, StreakInv,
      TypeOK, atomics, task, ghosts, Kept, Quiet
<1>26. CASE Receive
  BY <1>26 DEF Receive, StreakInv, TypeOK, atomics, task, ghosts, Kept,
      Quiet
<1>27. CASE ReceiveTimeout
  BY <1>27 DEF ReceiveTimeout, StreakInv, TypeOK, atomics, task, ghosts,
      Kept, Quiet
<1>28. CASE SendOk
  BY <1>28 DEF SendOk, StreakInv, TypeOK, atomics, task, ghosts, Kept, Quiet
<1>29. CASE SendFailed
  BY <1>29 DEF SendFailed, Close, Saturate, StreakInv, TypeOK, atomics,
      task, ghosts, Kept, Quiet
<1>30. CASE Delay
  BY <1>30 DEF Delay, StreakInv, TypeOK, atomics, task, ghosts, Kept, Quiet
<1>31. CASE StaggerElapses
  BY <1>31 DEF StaggerElapses, StreakInv, TypeOK, atomics, task, ghosts,
      Kept, Quiet
<1>32. CASE StreakElapses
  BY <1>32 DEF StreakElapses, StreakInv, TypeOK, atomics, task, ghosts,
      Kept, Quiet
<1>33. CASE UNCHANGED vars
  BY <1>33 DEF vars, StreakInv, atomics, task, ghosts, Kept, Quiet
<1> QED
  BY <1>1, <1>2, <1>3, <1>4, <1>5, <1>6, <1>7, <1>8, <1>9, <1>10, <1>11,
      <1>12, <1>13, <1>14, <1>15, <1>16, <1>17, <1>18, <1>19, <1>20, <1>21,
      <1>22, <1>23, <1>24, <1>25, <1>26, <1>27, <1>28, <1>29, <1>30, <1>31,
      <1>32, <1>33, NextCases

\* The backoff survives reconnects (BackoffKept): healthy_since_us is reset on
\* every path that closes the socket, so no streak spans two connections and
\* failures is cleared by one long-lived connection or by a demand only.
THEOREM BackoffSurvives == Spec => []BackoffKept
<1>1. Init => StreakInv
  BY DEF Init, StreakInv
<1>2. TypeOK /\ StreakInv /\ [Next]_vars => StreakInv'
  BY StreakStep
<1>3. StreakInv => BackoffKept
  BY DEF StreakInv, BackoffKept
<1> QED
  BY <1>1, <1>2, <1>3, PushTypes, PTL DEF Spec
=============================================================================
