-------------------------- MODULE CorrectionsProofs --------------------------
(***************************************************************************)
(* Theorems about Corrections, for any messages, destinations, clients and *)
(* any sizes of slots, batch and queue: slots and queues stay consistent,  *)
(* the slots implement LatestOnly, a suspension cuts the local stream, and *)
(* the parser finds the frames of a stream of any length.                  *)
(***************************************************************************)
EXTENDS Corrections, WellFoundedInduction, TLAPS

\* A set of numbers has a least one: what every induction below comes from.
LEMMA LeastNumber ==
  ASSUME NEW T \in SUBSET Nat, T # {}
  PROVE  \E x \in T : \A y \in T : x <= y
<1> DEFINE Less == OpToRel(<, Nat)
<1>1. Less = {ss \in Nat \X Nat : ss[1] < ss[2]}
  BY DEF OpToRel
<1>2. IsWellFoundedOn(Less, Nat)
  BY NatLessThanWellFounded
<1> HIDE DEF Less
<1>3. PICK x \in T : \A y \in T : <<y, x>> \notin Less
  BY <1>2, WFMin
<1>4. \A y \in T : ~ (y < x)
  BY <1>1, <1>3
<1> QED
  BY <1>4

-----------------------------------------------------------------------------
(* The slots.                                                              *)

SlotTypes ==
    /\ newest \in [Messages -> Nat]
    /\ took \in [Dests -> [Messages -> Nat]]
    /\ slots \in [SlotIds -> SlotRecord]

\* Nobody took a version that was not published: what makes the version of a
\* slot that is filled again new to everybody.
TookIsPublished == \A d \in Dests, m \in Messages : took[d][m] <= newest[m]

SlotInv == SlotTypes /\ TookIsPublished /\ SlotsAreNewest

\* A step of the slots is one of these; all other actions leave them alone.
TakeSlots(d, S) ==
    /\ slots' = taken(d, S)
    /\ took' = [took EXCEPT ![d] = TakenVersions(d, S)]
    /\ UNCHANGED newest
EmptySlots == slots' = [i \in SlotIds |-> Free] /\ UNCHANGED <<newest, took>>

LEMMA SlotSteps ==
  ASSUME [Next]_vars
  PROVE  \/ \E m \in Messages : publish_to_corrections(m)
         \/ \E d \in Dests : \E S \in SUBSET Pending(d) : TakeSlots(d, S)
         \/ EmptySlots
         \/ UNCHANGED slotVars
<1> USE DEF slotVars, local, baseVars
<1>1. CASE reset_rtcm_state
  BY <1>1 DEF reset_rtcm_state, EmptySlots
<1>2. ASSUME NEW m \in Messages, publish_rtcm_frame(m)
      PROVE  publish_to_corrections(m)
  BY <1>2 DEF publish_rtcm_frame
<1>3. ASSUME NEW d \in Dests, flush_destination_if_due(d)
      PROVE  \E S \in SUBSET Pending(d) : TakeSlots(d, S)
  <2> DEFINE S == IF ready[d] THEN Pending(d) ELSE {}
  <2>1. S \in SUBSET Pending(d)
    OBVIOUS
  <2>2. TakeSlots(d, S)
    BY <1>3 DEF flush_destination_if_due, TakeSlots
  <2> QED
    BY <2>1, <2>2
<1>4. ASSUME NEW d \in Dests, ClientFlips(d) PROVE UNCHANGED slotVars
  BY <1>4 DEF ClientFlips
<1>5. ASSUME NEW d \in Dests, NEW S \in SUBSET Pending(d), flush_cut(d, S)
      PROVE  TakeSlots(d, S)
  BY <1>5 DEF flush_cut, TakeSlots
<1>6. ASSUME NEW b \in BOOLEAN, set_suspended(b) PROVE UNCHANGED slotVars
  BY <1>6 DEF set_suspended
<1>7. CASE flush_due_batch \/ BaseStationPushes \/ store_reset
  BY <1>7 DEF flush_due_batch, BaseStationPushes, push_check, push_send, flush_done, store_reset
<1>8. CASE LocalCasterRuns
  BY <1>8 DEF LocalCasterRuns, run_suspended, run_active, accept_client, run_receive, broadcast
<1>9. CASE UNCHANGED vars
  BY <1>9 DEF vars
<1> QED
  BY <1>1, <1>2, <1>3, <1>4, <1>5, <1>6, <1>7, <1>8, <1>9 DEF Next

\* first free slot: a set of slots has a least one.
LEMMA FirstIsLeast ==
  ASSUME NEW S, S \subseteq SlotIds, S # {}
  PROVE  First(S) \in S
<1>1. S \in SUBSET Nat
  BY CorrectionsAssumption DEF SlotIds
<1> QED
  BY <1>1, LeastNumber DEF First

\* Publishing fills the slot of the message, or a free one when there is none.
LEMMA PublishedSlot ==
  ASSUME NEW m \in Messages, Candidates(m) # {}, SlotsAreNewest
  PROVE  /\ First(Candidates(m)) \in SlotIds
         /\ \A i \in SlotIds : slots[i].used /\ slots[i].message = m => i = First(Candidates(m))
<1>1. Candidates(m) \subseteq SlotIds
  BY DEF Candidates, SlotsOf, FreeSlots
<1>2. First(Candidates(m)) \in Candidates(m)
  BY <1>1, FirstIsLeast
<1>3. ASSUME NEW i \in SlotIds, slots[i].used, slots[i].message = m
      PROVE  i = First(Candidates(m))
  <2>1. Candidates(m) = SlotsOf(m)
    BY <1>3 DEF Candidates, SlotsOf
  <2> QED
    BY <1>2, <1>3, <2>1 DEF SlotsOf, SlotsAreNewest
<1> QED
  BY <1>1, <1>2, <1>3

LEMMA PublishKeeps ==
  ASSUME SlotInv, NEW m \in Messages, publish_to_corrections(m)
  PROVE  SlotInv'
<1> DEFINE k == First(Candidates(m))
           filled == [used |-> TRUE, message |-> m, version |-> newest[m] + 1, sent |-> {}]
<1>1. newest' = [newest EXCEPT ![m] = @ + 1] /\ took' = took
  BY DEF publish_to_corrections
<1>2. newest' \in [Messages -> Nat] /\ newest'[m] = newest[m] + 1 /\ newest[m] \in Nat
  BY <1>1 DEF SlotInv, SlotTypes
<1>3. \A n \in Messages \ {m} : newest'[n] = newest[n]
  BY <1>1 DEF SlotInv, SlotTypes
<1>4. \A d \in Dests, n \in Messages : took[d][n] \in Nat /\ newest[n] \in Nat
  BY DEF SlotInv, SlotTypes
<1>5. TookIsPublished'
  BY <1>1, <1>2, <1>3, <1>4 DEF SlotInv, TookIsPublished
<1>6. CASE Candidates(m) = {}
  <2>1. slots' = slots
    BY <1>6 DEF publish_to_corrections
  <2>2. \A i \in SlotIds : slots[i].used => slots[i].message \in Messages \ {m}
    BY <1>6 DEF Candidates, SlotsOf, SlotInv, SlotTypes, SlotRecord
  <2>3. SlotsAreNewest'
    BY <1>1, <1>3, <2>1, <2>2 DEF SlotInv, SlotsAreNewest
  <2> QED
    BY <1>1, <1>2, <1>5, <2>1, <2>3 DEF SlotInv, SlotTypes
<1>7. CASE Candidates(m) # {}
  <2>1. k \in SlotIds /\ \A i \in SlotIds : slots[i].used /\ slots[i].message = m => i = k
    BY <1>7, PublishedSlot DEF SlotInv
  <2>2. slots' = [slots EXCEPT ![k] = filled]
    BY <1>7 DEF publish_to_corrections
  <2>3. filled \in SlotRecord
    BY <1>2 DEF SlotRecord
  <2> HIDE DEF k
  <2>4. slots' \in [SlotIds -> SlotRecord] /\ slots'[k] = filled
    BY <2>1, <2>2, <2>3 DEF SlotInv, SlotTypes
  <2>5. \A i \in SlotIds \ {k} : slots'[i] = slots[i]
    BY <2>1, <2>2 DEF SlotInv, SlotTypes
  <2>6. \A i \in SlotIds \ {k} : slots[i].used => slots[i].message \in Messages \ {m}
    BY <2>1 DEF SlotInv, SlotTypes, SlotRecord
  <2>7. ASSUME NEW i \in SlotIds, slots'[i].used, i # k
        PROVE  /\ \A j \in SlotIds : slots'[j].used /\ slots'[j].message = slots'[i].message => j = i
               /\ slots'[i].version = newest'[slots'[i].message]
               /\ \A d \in Dests : IF d \in slots'[i].sent
                                   THEN took'[d][slots'[i].message] = slots'[i].version
                                   ELSE took'[d][slots'[i].message] < slots'[i].version
    <3>1. slots'[i] = slots[i] /\ slots[i].used /\ slots[i].message \in Messages \ {m}
      BY <2>5, <2>6, <2>7
    <3>2. newest'[slots[i].message] = newest[slots[i].message]
      BY <1>3, <3>1
    <3>3. ASSUME NEW j \in SlotIds, slots'[j].used, slots'[j].message = slots[i].message PROVE j = i
      <4>1. j # k
        BY <2>4, <3>1, <3>3
      <4> QED
        BY <2>5, <3>1, <3>3, <4>1 DEF SlotInv, SlotsAreNewest
    <3> QED
      BY <1>1, <3>1, <3>2, <3>3 DEF SlotInv, SlotsAreNewest
  <2>8. /\ \A j \in SlotIds : slots'[j].used /\ slots'[j].message = slots'[k].message => j = k
        /\ slots'[k].version = newest'[slots'[k].message]
        /\ \A d \in Dests : IF d \in slots'[k].sent
                            THEN took'[d][slots'[k].message] = slots'[k].version
                            ELSE took'[d][slots'[k].message] < slots'[k].version
    <3>1. slots'[k].message = m /\ slots'[k].version = newest[m] + 1 /\ slots'[k].sent = {}
      BY <2>4
    <3>2. ASSUME NEW d \in Dests PROVE took'[d][m] < newest[m] + 1
      BY <1>1, <1>2, <1>4 DEF SlotInv, TookIsPublished
    <3> QED
      BY <1>2, <2>5, <2>6, <3>1, <3>2
  <2>9. SlotsAreNewest'
    BY <2>1, <2>7, <2>8 DEF SlotsAreNewest
  <2> QED
    BY <1>1, <1>2, <1>5, <2>4, <2>9 DEF SlotInv, SlotTypes
<1> QED
  BY <1>6, <1>7

\* A destination that takes slots takes the newest versions, and new ones.
Offered(S, m) == \E i \in S : slots[i].message = m

LEMMA TakenIsNewest ==
  ASSUME SlotInv, NEW d \in Dests, NEW S \in SUBSET Pending(d)
  PROVE  /\ TakenVersions(d, S) = [m \in Messages |-> IF Offered(S, m) THEN newest[m] ELSE took[d][m]]
         /\ \A m \in Messages : Offered(S, m) => took[d][m] < newest[m]
<1>1. ASSUME NEW i \in S
      PROVE  /\ i \in SlotIds /\ slots[i].used /\ slots[i].message \in Messages
             /\ slots[i].version = newest[slots[i].message]
             /\ took[d][slots[i].message] < slots[i].version
  <2>1. i \in SlotIds /\ slots[i].used /\ d \notin slots[i].sent
    BY DEF Pending
  <2> QED
    BY <2>1 DEF SlotInv, SlotTypes, SlotRecord, SlotsAreNewest
<1>2. ASSUME NEW m \in Messages, Offered(S, m)
      PROVE  slots[CHOOSE i \in S : slots[i].message = m].version = newest[m]
  <2>1. (CHOOSE i \in S : slots[i].message = m) \in S
        /\ slots[CHOOSE i \in S : slots[i].message = m].message = m
    BY <1>2 DEF Offered
  <2> QED
    BY <1>1, <2>1
<1>3. ASSUME NEW m \in Messages
      PROVE  (IF \E i \in S : slots[i].message = m
              THEN slots[CHOOSE i \in S : slots[i].message = m].version ELSE took[d][m])
             = (IF Offered(S, m) THEN newest[m] ELSE took[d][m])
  BY <1>2 DEF Offered
<1>4. \A m \in Messages : Offered(S, m) => took[d][m] < newest[m]
  BY <1>1 DEF Offered
<1> QED
  BY <1>3, <1>4 DEF TakenVersions

LEMMA TakeKeeps ==
  ASSUME SlotInv, NEW d \in Dests, NEW S \in SUBSET Pending(d), TakeSlots(d, S)
  PROVE  SlotInv'
<1>1. newest' = newest /\ slots' = taken(d, S)
  BY DEF TakeSlots
<1>2. \A m \in Messages : newest[m] \in Nat /\ \A e \in Dests : took[e][m] \in Nat
  BY DEF SlotInv, SlotTypes
<1>3. /\ took' \in [Dests -> [Messages -> Nat]]
      /\ \A m \in Messages : took'[d][m] = IF Offered(S, m) THEN newest[m] ELSE took[d][m]
      /\ \A e \in Dests \ {d} : took'[e] = took[e]
  <2> DEFINE now == [m \in Messages |-> IF Offered(S, m) THEN newest[m] ELSE took[d][m]]
  <2>1. took' = [took EXCEPT ![d] = now]
    BY TakenIsNewest DEF TakeSlots
  <2>2. now \in [Messages -> Nat]
    BY <1>2
  <2>3. \A m \in Messages : now[m] = IF Offered(S, m) THEN newest[m] ELSE took[d][m]
    OBVIOUS
  <2> HIDE DEF now
  <2>4. took \in [Dests -> [Messages -> Nat]]
    BY DEF SlotInv, SlotTypes
  <2> QED
    BY <2>1, <2>2, <2>3, <2>4
<1>4. \A i \in SlotIds : /\ slots[i] \in SlotRecord
                         /\ slots'[i] = IF i \in S THEN [slots[i] EXCEPT !.sent = @ \cup {d}] ELSE slots[i]
  BY <1>1 DEF taken, SlotInv, SlotTypes
<1>5. \A i \in SlotIds : /\ slots'[i] \in SlotRecord
                         /\ slots'[i].used = slots[i].used
                         /\ slots'[i].message = slots[i].message
                         /\ slots'[i].version = slots[i].version
                         /\ slots'[i].sent = IF i \in S THEN slots[i].sent \cup {d} ELSE slots[i].sent
  <2> TAKE i \in SlotIds
  <2>1. CASE i \notin S
    BY <1>4, <2>1 DEF SlotRecord
  <2>2. CASE i \in S
    <3>1. slots[i] \in SlotRecord /\ slots'[i] = [slots[i] EXCEPT !.sent = @ \cup {d}]
      BY <1>4, <2>2
    <3>2. slots[i].sent \cup {d} \in SUBSET Dests
      BY <3>1 DEF SlotRecord
    <3> QED
      BY <2>2, <3>1, <3>2 DEF SlotRecord
  <2> QED
    BY <2>1, <2>2
<1>6. SlotTypes'
  BY <1>1, <1>3, <1>5 DEF SlotInv, SlotTypes, taken
<1>7. TookIsPublished'
  <2> SUFFICES ASSUME NEW e \in Dests, NEW m \in Messages
               PROVE  took'[e][m] <= newest[m]
    BY <1>1 DEF TookIsPublished
  <2>1. took[e][m] <= newest[m]
    BY DEF SlotInv, TookIsPublished
  <2> QED
    BY <1>2, <1>3, <2>1
<1>8. ASSUME NEW i \in SlotIds, slots'[i].used
      PROVE  /\ \A j \in SlotIds : slots'[j].used /\ slots'[j].message = slots'[i].message => j = i
             /\ slots'[i].version = newest'[slots'[i].message]
  <2>1. /\ \A j \in SlotIds : slots[j].used /\ slots[j].message = slots[i].message => j = i
        /\ slots[i].version = newest[slots[i].message]
    BY <1>5, <1>8 DEF SlotInv, SlotsAreNewest
  <2>2. \A j \in SlotIds : slots'[j].used = slots[j].used /\ slots'[j].message = slots[j].message
    BY <1>5
  <2> QED
    BY <1>1, <1>5, <2>1, <2>2
<1>9. ASSUME NEW i \in SlotIds, slots'[i].used, NEW e \in Dests
      PROVE  IF e \in slots'[i].sent
             THEN took'[e][slots'[i].message] = slots'[i].version
             ELSE took'[e][slots'[i].message] < slots'[i].version
  <2>1. slots[i].used /\ slots[i].message \in Messages /\ slots[i].version = newest[slots[i].message]
    BY <1>4, <1>5, <1>9 DEF SlotInv, SlotsAreNewest, SlotRecord
  <2>2. IF e \in slots[i].sent
        THEN took[e][slots[i].message] = slots[i].version
        ELSE took[e][slots[i].message] < slots[i].version
    BY <2>1 DEF SlotInv, SlotsAreNewest
  <2> DEFINE m == slots[i].message
  <2>0. slots'[i].message = m /\ slots'[i].version = slots[i].version
    BY <1>5
  <2>3. CASE e # d
    <3>1. took'[e] = took[e]
      BY <1>3, <2>3
    <3>2. e \in slots'[i].sent <=> e \in slots[i].sent
      BY <1>5, <2>3
    <3> QED
      BY <2>0, <2>2, <3>1, <3>2
  <2>4. CASE e = d /\ i \in S
    <3>1. Offered(S, slots[i].message)
      BY <2>4 DEF Offered
    <3> QED
      BY <1>3, <1>5, <2>1, <2>4, <3>1
  <2>5. CASE e = d /\ i \notin S
    <3>1. ~ Offered(S, slots[i].message)
      <4>1. \A j \in S : j \in SlotIds /\ slots[j].used
        BY DEF Pending
      <4> QED
        BY <2>1, <2>5, <4>1 DEF Offered, SlotInv, SlotsAreNewest
    <3> QED
      BY <1>3, <1>5, <2>1, <2>2, <2>5, <3>1
  <2> QED
    BY <2>3, <2>4, <2>5
<1>10. SlotsAreNewest'
  BY <1>8, <1>9 DEF SlotsAreNewest
<1> QED
  BY <1>6, <1>7, <1>10 DEF SlotInv

LEMMA EmptyKeeps ==
  ASSUME SlotInv, EmptySlots
  PROVE  SlotInv'
<1>1. Free \in SlotRecord /\ ~ Free.used
  <2>1. (CHOOSE m \in Messages : TRUE) \in Messages
    BY CorrectionsAssumption
  <2> QED
    BY <2>1 DEF Free, SlotRecord
<1>2. \A i \in SlotIds : slots'[i] = Free
  BY DEF EmptySlots
<1>3. slots' \in [SlotIds -> SlotRecord] /\ newest' = newest /\ took' = took
  BY <1>1 DEF EmptySlots
<1> QED
  BY <1>1, <1>2, <1>3 DEF SlotInv, SlotTypes, TookIsPublished, SlotsAreNewest

LEMMA SlotStep ==
  ASSUME SlotInv, [Next]_vars
  PROVE  SlotInv'
<1>1. ASSUME UNCHANGED slotVars PROVE SlotInv'
  BY <1>1 DEF slotVars, SlotInv, SlotTypes, TookIsPublished, SlotsAreNewest
<1> QED
  BY <1>1, SlotSteps, PublishKeeps, TakeKeeps, EmptyKeeps

LEMMA SlotStart == Init => SlotInv
<1> SUFFICES ASSUME Init PROVE SlotInv
  OBVIOUS
<1>1. Free \in SlotRecord /\ ~ Free.used
  <2>1. (CHOOSE m \in Messages : TRUE) \in Messages
    BY CorrectionsAssumption
  <2> QED
    BY <2>1 DEF Free, SlotRecord
<1>2. \A i \in SlotIds : slots[i] = Free
  BY DEF Init
<1>3. SlotTypes /\ TookIsPublished
  BY <1>1 DEF Init, SlotTypes, TookIsPublished
<1> QED
  BY <1>1, <1>2, <1>3 DEF SlotInv, SlotsAreNewest

LEMMA SlotsSafe == Spec => []SlotInv
<1> QED
  BY SlotStart, SlotStep, PTL DEF Spec

-----------------------------------------------------------------------------
(* The refinement.                                                         *)

LEMMA StepImplements ==
  ASSUME SlotInv, [Next]_vars
  PROVE  [Latest!LatestNext]_<<newest, took>>
<1>1. ASSUME NEW m \in Messages, publish_to_corrections(m)
      PROVE  Latest!Publish(m)
  BY <1>1 DEF publish_to_corrections, Latest!Publish
<1>2. ASSUME NEW d \in Dests, NEW S \in SUBSET Pending(d), TakeSlots(d, S)
      PROVE  \E T \in SUBSET Messages : Latest!Take(d, T)
  <2> DEFINE T == {m \in Messages : Offered(S, m)}
  <2>1. TakenVersions(d, S) = [m \in Messages |-> IF m \in T THEN newest[m] ELSE took[d][m]]
    BY TakenIsNewest
  <2>2. took' = [took EXCEPT ![d] = [m \in Messages |-> IF m \in T THEN newest[m] ELSE took[d][m]]]
    BY <1>2, <2>1 DEF TakeSlots
  <2>3. Latest!Take(d, T)
    BY <1>2, <2>2, TakenIsNewest DEF Latest!Take, TakeSlots
  <2> QED
    BY <2>3
<1>3. ASSUME EmptySlots \/ UNCHANGED slotVars PROVE UNCHANGED <<newest, took>>
  BY <1>3 DEF EmptySlots, slotVars
<1> QED
  BY <1>1, <1>2, <1>3, SlotSteps DEF Latest!LatestNext

\* The correction slots of publish_to_corrections() and
\* flush_destination_if_due() implement LatestOnly for any messages, any
\* number of slots and any push clients: no caster gets an older version of a
\* message than it has, or one twice, whenever clients go down.
THEOREM SlotsRefineLatestOnly == Spec => SlotsImplementLatestOnly
<1>1. Init => Latest!LatestInit
  BY DEF Init, Latest!LatestInit
<1> QED
  BY <1>1, SlotsSafe, StepImplements, PTL DEF Spec, SlotsImplementLatestOnly, Latest!LatestSpec

-----------------------------------------------------------------------------
(* The local batch and queue.                                              *)

History == [stale : SUBSET Nat, old : SUBSET Clients, armed : BOOLEAN,
            overlap : BOOLEAN, empty : BOOLEAN, dropped : BOOLEAN]
LocalTypes ==
    /\ frames \in 0..MaxFrames /\ ready \in [Dests -> BOOLEAN]
    /\ batch \in Seq(Nat) /\ Len(batch) <= FramesPerBatch
    /\ queue \in Seq(Nat) /\ Len(queue) <= QueueDepth
    /\ push \in [at : {"idle", "flush", "send"}, frame : Nat, next : Nat]
    /\ storing \in BOOLEAN
    /\ clients \subseteq Clients /\ loop \in {"top", "accept", "recv", "send"}
    /\ ghost \in History

\* A flush that found the queue empty has never more on its way than a batch:
\* what is queued, in hand, and left in the batch.
InHand == IF push.at = "send" THEN 1 ELSE 0
BatchIsAll == push.at # "idle" /\ ghost.empty => Len(queue) + InHand + Len(batch) <= FramesPerBatch

LocalInv == LocalTypes /\ BatchIsAll /\ FlushFitsEmptyQueue

LEMMA QueueFacts ==
  ASSUME NEW s \in Seq(Nat), NEW x \in Nat
  PROVE  /\ Len(s) \in Nat
         /\ Append(s, x) \in Seq(Nat) /\ Len(Append(s, x)) = Len(s) + 1
         /\ s # <<>> => /\ Head(s) \in Nat /\ Tail(s) \in Seq(Nat) /\ Len(Tail(s)) = Len(s) - 1
                        /\ Len(s) # 0
         /\ s = <<>> => Len(s) = 0
         /\ <<x>> \in Seq(Nat) /\ Len(<<x>>) = 1
         /\ <<>> \in Seq(Nat) /\ Len(<<>>) = 0
  OBVIOUS

LEMMA LocalStart == Init => LocalInv
<1> SUFFICES ASSUME Init PROVE LocalInv
  OBVIOUS
<1>1. ghost \in History /\ ~ ghost.dropped
  BY DEF Init, History
<1>2. push \in [at : {"idle", "flush", "send"}, frame : Nat, next : Nat] /\ push.at = "idle"
  BY DEF Init, Idle
<1>3. batch \in Seq(Nat) /\ Len(batch) = 0 /\ queue \in Seq(Nat) /\ Len(queue) = 0
  BY QueueFacts DEF Init
<1>4. frames \in 0..MaxFrames /\ Len(batch) <= FramesPerBatch /\ Len(queue) <= QueueDepth
  BY <1>3, CorrectionsAssumption DEF Init
<1>5. ready \in [Dests -> BOOLEAN] /\ storing \in BOOLEAN /\ clients \subseteq Clients /\ loop = "top"
  BY DEF Init
<1> QED
  BY <1>1, <1>2, <1>3, <1>4, <1>5 DEF LocalInv, LocalTypes, BatchIsAll, FlushFitsEmptyQueue

\* What a step makes of the caster's queue and of push, batch and ghost
\* suffices for all but the types of the other variables.
Others ==
    /\ frames \in 0..MaxFrames /\ ready \in [Dests -> BOOLEAN]
    /\ storing \in BOOLEAN
    /\ clients \subseteq Clients /\ loop \in {"top", "accept", "recv", "send"}

LEMMA BaseStep ==
  ASSUME LocalInv, flush_due_batch \/ push_check \/ push_send \/ flush_done
         \/ \E m \in Messages : publish_rtcm_frame(m)
  PROVE  LocalInv'
<1> DEFINE Push == [at : {"idle", "flush", "send"}, frame : Nat, next : Nat]
           Fits == Len(queue) + InHand + Len(batch) <= FramesPerBatch
<1> USE CorrectionsAssumption
<1>0. /\ push \in Push /\ ghost \in History /\ ~ ghost.dropped
      /\ batch \in Seq(Nat) /\ queue \in Seq(Nat) /\ Len(batch) \in Nat /\ Len(queue) \in Nat
      /\ Len(batch) <= FramesPerBatch /\ Len(queue) <= QueueDepth
      /\ frames \in Nat /\ frames <= MaxFrames
  BY QueueFacts DEF LocalInv, LocalTypes, FlushFitsEmptyQueue
<1>1. ASSUME NEW n \in Nat, Flushing(n), UNCHANGED <<batch, queue, frames, ready, local>>
      PROVE  LocalInv'
  <2>1. push' \in Push /\ push'.at = "flush"
    BY <1>1 DEF Flushing
  <2>2. ghost' \in History /\ ghost'.dropped = ghost.dropped /\ (ghost'.empty => queue = <<>>)
    BY <1>0, <1>1 DEF Flushing, History
  <2>3. ghost'.empty => Len(queue) = 0
    BY <1>0, <2>2, QueueFacts
  <2> QED
    BY <1>0, <1>1, <2>1, <2>2, <2>3
       DEF LocalInv, LocalTypes, BatchIsAll, InHand, FlushFitsEmptyQueue, local
<1>2. CASE flush_due_batch
  BY <1>1, <1>2 DEF flush_due_batch
<1>3. ASSUME NEW m \in Messages, publish_rtcm_frame(m) PROVE LocalInv'
  <2>1. /\ frames' = frames + 1 /\ frames' \in 0..MaxFrames /\ publish_to_batch(frames + 1)
        /\ UNCHANGED <<ready, queue, local>> /\ push.at = "idle"
    BY <1>0, <1>3 DEF publish_rtcm_frame, Idle
  <2>2. CASE ~ frames_full /\ batch' = Append(batch, frames + 1) /\ UNCHANGED <<push, ghost>>
    <3>1. batch' \in Seq(Nat) /\ Len(batch') <= FramesPerBatch
      BY <1>0, <2>2, QueueFacts DEF frames_full
    <3> QED
      BY <2>1, <2>2, <3>1 DEF LocalInv, LocalTypes, BatchIsAll, InHand, FlushFitsEmptyQueue, local
  <2>3. CASE Flushing(frames + 1) /\ UNCHANGED batch
    <3>1. push' \in Push /\ push'.at = "flush"
      BY <1>0, <2>3 DEF Flushing
    <3>2. ghost' \in History /\ ghost'.dropped = ghost.dropped /\ (ghost'.empty => queue = <<>>)
      BY <1>0, <2>3 DEF Flushing, History
    <3>3. ghost'.empty => Len(queue) = 0
      BY <1>0, <3>2, QueueFacts
    <3> QED
      BY <1>0, <2>1, <2>3, <3>1, <3>2, <3>3
         DEF LocalInv, LocalTypes, BatchIsAll, InHand, FlushFitsEmptyQueue, local
  <2> QED
    BY <2>1, <2>2, <2>3 DEF publish_to_batch
<1>4. CASE push_check
  <2>1. /\ batch # <<>> /\ batch' = Tail(batch) /\ push.at = "flush"
        /\ UNCHANGED <<frames, ready, queue, local, ghost>>
    BY <1>4 DEF push_check
  <2>2. batch' \in Seq(Nat) /\ Len(batch') = Len(batch) - 1 /\ Len(batch') \in Nat /\ Head(batch) \in Nat
    BY <1>0, <2>1, QueueFacts
  <2>3. push' \in Push /\ push'.at \in {"flush", "send"}
    BY <1>0, <1>4, <2>1, <2>2 DEF push_check
  <2> QED
    BY <1>0, <2>1, <2>2, <2>3 DEF LocalInv, LocalTypes, BatchIsAll, InHand, FlushFitsEmptyQueue, local
<1>5. CASE push_send
  <2>1. push.at = "send" /\ push' = [push EXCEPT !.at = "flush", !.frame = 0]
        /\ UNCHANGED <<frames, ready, batch, local>>
    BY <1>5 DEF push_send
  <2>2. push' \in Push /\ push'.at = "flush"
    BY <1>0, <2>1
  <2>3. CASE Len(queue) < QueueDepth /\ queue' = Append(queue, push.frame) /\ UNCHANGED ghost
    <3>1. queue' \in Seq(Nat) /\ Len(queue') = Len(queue) + 1
      BY <1>0, <2>3, QueueFacts
    <3> QED
      BY <1>0, <2>1, <2>2, <2>3, <3>1
         DEF LocalInv, LocalTypes, BatchIsAll, InHand, FlushFitsEmptyQueue, local
  <2>4. CASE /\ Len(queue) = QueueDepth /\ UNCHANGED queue
             /\ ghost' = [ghost EXCEPT !.dropped = @ \/ ghost.empty]
    <3>1. ~ ghost.empty
      BY <1>0, <2>1, <2>4 DEF LocalInv, BatchIsAll, InHand
    <3>2. ghost' \in History /\ ~ ghost'.dropped /\ ~ ghost'.empty
      BY <1>0, <2>4, <3>1 DEF History
    <3> QED
      BY <1>0, <2>1, <2>2, <2>4, <3>2
         DEF LocalInv, LocalTypes, BatchIsAll, InHand, FlushFitsEmptyQueue, local
  <2> QED
    BY <1>5, <2>3, <2>4 DEF push_send
<1>6. CASE flush_done
  <2>1. /\ batch' = IF push.next = 0 THEN <<>> ELSE <<push.next>>
        /\ push' = Idle /\ ghost' = [ghost EXCEPT !.empty = TRUE]
        /\ UNCHANGED <<frames, ready, queue, local>>
    BY <1>6 DEF flush_done
  <2>2. push.next \in Nat /\ push' \in Push /\ push'.at = "idle"
    BY <1>0, <2>1 DEF Idle
  <2>3. ghost' \in History /\ ghost'.dropped = ghost.dropped
    BY <1>0, <2>1 DEF History
  <2>4. batch' \in Seq(Nat) /\ Len(batch') <= FramesPerBatch
    BY <2>1, <2>2, QueueFacts
  <2> QED
    BY <1>0, <2>1, <2>2, <2>3, <2>4
       DEF LocalInv, LocalTypes, BatchIsAll, InHand, FlushFitsEmptyQueue, local
<1> QED
  BY <1>2, <1>3, <1>4, <1>5, <1>6

\* The other steps leave the flush alone, and the queue or shorten it.
LEMMA Shorter ==
  ASSUME LocalInv, UNCHANGED push, batch' = batch \/ (batch' = <<>> /\ push = Idle),
         queue' \in Seq(Nat), Len(queue') <= Len(queue),
         ghost' \in History, ghost'.dropped = ghost.dropped, ghost'.empty = ghost.empty,
         Others'
  PROVE  LocalInv'
<1>1. /\ Len(batch) \in Nat /\ Len(queue) \in Nat /\ Len(queue') \in Nat
      /\ batch' \in Seq(Nat) /\ Len(batch') \in Nat /\ Len(batch') <= Len(batch)
  <2>1. Len(batch) \in Nat /\ Len(queue) \in Nat /\ batch \in Seq(Nat)
    BY QueueFacts DEF LocalInv, LocalTypes
  <2>2. Len(queue') \in Nat
    BY QueueFacts
  <2>3. <<>> \in Seq(Nat) /\ Len(<<>>) = 0
    BY QueueFacts
  <2>4. CASE batch' = batch
    <3>1. Len(batch') = Len(batch)
      BY <2>4
    <3> QED
      BY <2>1, <2>2, <2>4, <3>1
  <2>5. CASE batch' = <<>>
    <3>1. Len(batch') = 0 /\ batch' \in Seq(Nat)
      BY <2>3, <2>5
    <3> QED
      BY <2>1, <2>2, <3>1
  <2> QED
    BY <2>4, <2>5
<1>2. /\ push \in [at : {"idle", "flush", "send"}, frame : Nat, next : Nat]
      /\ Len(batch) <= FramesPerBatch /\ Len(queue) <= QueueDepth
  BY DEF LocalInv, LocalTypes
<1>3. LocalTypes'
  BY <1>1, <1>2, CorrectionsAssumption DEF LocalTypes, Others
<1>4. BatchIsAll'
  <2>1. InHand' = InHand /\ InHand \in 0..1
    BY DEF InHand
  <2> QED
    BY <1>1, <2>1, CorrectionsAssumption DEF LocalInv, BatchIsAll
<1> QED
  BY <1>3, <1>4 DEF LocalInv, FlushFitsEmptyQueue

LEMMA CasterStep ==
  ASSUME LocalInv, LocalCasterRuns
  PROVE  LocalInv'
<1> USE DEF baseVars, slotVars
<1>1. /\ ghost \in History /\ queue \in Seq(Nat) /\ Len(queue) \in Nat /\ Others
  BY QueueFacts DEF LocalInv, LocalTypes, Others
<1>2. <<>> \in Seq(Nat) /\ Len(<<>>) = 0
  BY QueueFacts
<1>3. [ghost EXCEPT !.old = {}] \in History
  BY <1>1 DEF History
<1>4. /\ [ghost EXCEPT !.old = {}].dropped = ghost.dropped
      /\ [ghost EXCEPT !.old = {}].empty = ghost.empty
  BY <1>1 DEF History
<1>5. CASE run_suspended
  <2>1. /\ UNCHANGED <<push, batch, frames, ready, storing, loop>> /\ clients' = {} /\ queue' = <<>>
        /\ ghost' = [ghost EXCEPT !.old = {}]
    BY <1>5 DEF run_suspended, close_clients
  <2> QED
    BY <1>1, <1>2, <1>3, <1>4, <2>1, Shorter DEF Others
<1>6. CASE run_active
  <2>1. /\ UNCHANGED <<push, batch, frames, ready, storing>> /\ loop' \in {"top", "accept"}
        /\ \/ clients' = {} /\ queue' = <<>> /\ ghost' = [ghost EXCEPT !.old = {}]
           \/ UNCHANGED <<clients, queue, ghost>>
    BY <1>6 DEF run_active, close_clients
  <2>2. queue' \in Seq(Nat) /\ Len(queue') <= Len(queue) /\ clients' \subseteq Clients
    <3>1. (clients' = {} /\ queue' = <<>>) \/ (clients' = clients /\ queue' = queue)
      BY <2>1, Zenon
    <3>2. CASE clients' = {} /\ queue' = <<>>
      <4>1. queue' \in Seq(Nat) /\ Len(queue') = 0
        BY <1>2, <3>2
      <4> QED
        BY <1>1, <3>2, <4>1
    <3>3. CASE clients' = clients /\ queue' = queue
      <4>1. Len(queue') = Len(queue)
        BY <3>3
      <4> QED
        BY <1>1, <3>3, <4>1 DEF Others
    <3> QED
      BY <3>1, <3>2, <3>3
  <2>3. ghost' \in History /\ ghost'.dropped = ghost.dropped /\ ghost'.empty = ghost.empty
    BY <1>1, <1>3, <1>4, <2>1
  <2> QED
    BY <1>1, <2>1, <2>2, <2>3, Shorter DEF Others
<1>7. CASE accept_client
  <2>1. /\ UNCHANGED <<push, batch, frames, ready, storing, queue, ghost>> /\ loop' = "recv"
        /\ clients' \subseteq Clients
    BY <1>1, <1>7 DEF accept_client, Others
  <2> QED
    BY <1>1, <2>1, Shorter DEF Others
<1>8. CASE run_receive
  <2>1. /\ UNCHANGED <<push, batch, frames, ready, storing, clients>> /\ loop' \in {"top", "send"}
        /\ \/ queue # <<>> /\ queue' = Tail(queue) /\ UNCHANGED ghost
           \/ queue' = queue /\ ghost' = [ghost EXCEPT !.armed = TRUE]
    BY <1>8 DEF run_receive, Top
  <2>2. queue' \in Seq(Nat) /\ Len(queue') <= Len(queue)
    BY <1>1, <2>1, QueueFacts
  <2>3. ghost' \in History /\ ghost'.dropped = ghost.dropped /\ ghost'.empty = ghost.empty
    BY <1>1, <2>1 DEF History
  <2> QED
    BY <1>1, <2>1, <2>2, <2>3, Shorter DEF Others
<1>9. CASE broadcast
  <2>1. PICK gone \in SUBSET clients :
          /\ clients' = clients \ gone
          /\ ghost' = [ghost EXCEPT !.armed = TRUE, !.old = @ \ gone]
    BY <1>9 DEF broadcast
  <2>2. ghost' \in History /\ ghost'.dropped = ghost.dropped /\ ghost'.empty = ghost.empty
    BY <1>1, <2>1 DEF History
  <2>3. UNCHANGED <<push, batch, frames, ready, storing, queue>> /\ loop' = "top"
    BY <1>9 DEF broadcast, Top
  <2> QED
    BY <1>1, <2>1, <2>2, <2>3, Shorter DEF Others
<1> QED
  BY <1>5, <1>6, <1>7, <1>8, <1>9 DEF LocalCasterRuns

LEMMA LocalStep ==
  ASSUME LocalInv, [Next]_vars
  PROVE  LocalInv'
<1> USE DEF local, baseVars, slotVars
<1>1. /\ ghost \in History /\ queue \in Seq(Nat) /\ Len(queue) \in Nat /\ Others
  BY QueueFacts DEF LocalInv, LocalTypes, Others
<1>2. ASSUME UNCHANGED <<push, queue, ghost, frames, storing, clients, loop>>, ready' \in [Dests -> BOOLEAN],
             batch' = batch \/ (batch' = <<>> /\ push = Idle)
      PROVE  LocalInv'
  BY <1>1, <1>2, Shorter DEF Others
<1>3. CASE reset_rtcm_state
  BY <1>1, <1>2, <1>3 DEF reset_rtcm_state, Others
<1>4. ASSUME NEW d \in Dests, flush_destination_if_due(d) \/ ClientFlips(d) PROVE LocalInv'
  <2>1. ready' \in [Dests -> BOOLEAN]
    BY <1>1, <1>4 DEF flush_destination_if_due, ClientFlips, Others
  <2> QED
    BY <1>2, <1>4, <2>1 DEF flush_destination_if_due, ClientFlips
<1>5. ASSUME NEW d \in Dests, NEW S \in SUBSET Pending(d), flush_cut(d, S) PROVE LocalInv'
  <2>1. ready' \in [Dests -> BOOLEAN]
    BY <1>1, <1>5 DEF flush_cut, Others
  <2> QED
    BY <1>2, <1>5, <2>1 DEF flush_cut
<1>6. ASSUME NEW b \in BOOLEAN, set_suspended(b) PROVE LocalInv'
  <2>1. /\ UNCHANGED <<push, batch, queue, frames, ready, clients, loop>> /\ storing' \in BOOLEAN
    BY <1>1, <1>6 DEF set_suspended, Others
  <2>2. {queue[i] : i \in DOMAIN queue} \subseteq Nat /\ clients \subseteq Clients /\ (loop = "top") \in BOOLEAN
    BY <1>1 DEF Others
  <2>3. ghost' \in History /\ ghost'.dropped = ghost.dropped /\ ghost'.empty = ghost.empty
    <3>1. CASE b
      <4>1. ghost' = [ghost EXCEPT !.stale = {queue[i] : i \in DOMAIN queue}, !.old = clients,
                                   !.armed = loop = "top", !.overlap = FALSE]
        BY <1>6, <3>1 DEF set_suspended
      <4> QED
        BY <1>1, <2>2, <4>1 DEF History
    <3>2. CASE ~b
      <4>1. ghost' = [ghost EXCEPT !.overlap = @ \/ storing]
        BY <1>6, <3>2 DEF set_suspended
      <4> QED
        BY <1>1, <4>1 DEF History
    <3> QED
      BY <3>1, <3>2
  <2> QED
    BY <1>1, <2>1, <2>3, Shorter DEF Others
<1>7. CASE store_reset
  <2>1. /\ UNCHANGED <<push, batch, queue, frames, ready, clients, loop, ghost>> /\ storing' \in BOOLEAN
    BY <1>7 DEF store_reset
  <2> QED
    BY <1>1, <2>1, Shorter DEF Others
<1>8. CASE UNCHANGED vars
  BY <1>1, <1>2, <1>8 DEF vars, Others
<1> QED
  BY <1>3, <1>4, <1>5, <1>6, <1>7, <1>8, BaseStep, CasterStep DEF Next, BaseStationPushes

\* publish_to_corrections(), flush_destination_if_due(), flush_batch_frames()
\* and push(): types and bounds hold, a slot holds the newest version of its
\* message and says who took it, and a flush into an empty queue loses nothing
\* because the queue is deeper than a batch, for any such sizes.
THEOREM SlotsStayConsistent == Spec => []SlotsConsistent
<1>1. Spec => []LocalInv
  BY LocalStart, LocalStep, PTL DEF Spec
<1>2. SlotInv /\ LocalInv => SlotsConsistent
  BY DEF SlotInv, SlotTypes, LocalInv, LocalTypes, SlotsConsistent, TypeOK
<1> QED
  BY <1>1, <1>2, SlotsSafe, PTL

-----------------------------------------------------------------------------
(* The suspension of the caster.                                           *)

Elements(s) == {s[i] : i \in DOMAIN s}
Increasing(s) == \A i, j \in DOMAIN s : i < j => s[i] < s[j]

\* The frame in push()'s hand, and those that are still to come to it.
Hand == IF push.at = "send" THEN {push.frame} ELSE {}
NextUp == IF push.next # 0 THEN {push.next} ELSE {}
Waiting == Elements(batch) \cup Hand \cup NextUp

\* Frames are numbered in the order they are published, and get into the queue
\* in that order: what a suspension found queued is older than anything that
\* is queued later.
InOrder ==
    /\ Elements(queue) \cup ghost.stale \cup Waiting \subseteq 1..frames
    /\ \A x \in Elements(queue) \cup ghost.stale, y \in Waiting : x < y
    /\ Increasing(batch)
    /\ \A x \in Hand, y \in Elements(batch) : x < y
    /\ \A x \in Elements(batch) \cup Hand, y \in NextUp : x < y

\* As long as something from before a suspension is left, and the caster was
\* not resumed between its two stores, the loop will notice it at its top.
OldIsLeft == Elements(queue) \cap ghost.stale # {} \/ ghost.old # {}
CutIsDue == ~ghost.overlap /\ OldIsLeft => reset \/ (suspended /\ storing)

\* A round that began after the suspension works on nothing from before it.
CutIsDone ==
    ghost.armed /\ loop # "top" /\ ~ghost.overlap =>
        ~OldIsLeft /\ (loop = "send" => packet \notin ghost.stale)

CutInv == InOrder /\ CutIsDue /\ CutIsDone

LEMMA ElementFacts ==
  ASSUME NEW s \in Seq(Nat), NEW x \in Nat
  PROVE  /\ Elements(s) \subseteq Nat
         /\ Elements(Append(s, x)) = Elements(s) \cup {x}
         /\ s # <<>> => /\ Head(s) \in Elements(s)
                        /\ Elements(Tail(s)) \subseteq Elements(s)
         /\ Elements(<<>>) = {} /\ Elements(<<x>>) = {x}
<1>1. Elements(s) \subseteq Nat
  BY DEF Elements
<1>2. Elements(Append(s, x)) = Elements(s) \cup {x}
  <2> DEFINE t == Append(s, x)
  <2>1. /\ DOMAIN t = 1..(Len(s) + 1) /\ DOMAIN s = 1..Len(s) /\ Len(s) \in Nat
        /\ \A i \in 1..Len(s) : t[i] = s[i]
        /\ t[Len(s) + 1] = x
    OBVIOUS
  <2> HIDE DEF t
  <2>2. DOMAIN t = DOMAIN s \cup {Len(s) + 1}
    BY <2>1
  <2> QED
    BY <2>1, <2>2 DEF Elements
<1>3. ASSUME s # <<>>
      PROVE  Head(s) \in Elements(s) /\ Elements(Tail(s)) \subseteq Elements(s)
  <2>1. /\ Len(s) \in Nat \ {0} /\ DOMAIN s = 1..Len(s) /\ Head(s) = s[1]
        /\ DOMAIN Tail(s) = 1..(Len(s) - 1) /\ \A i \in 1..(Len(s) - 1) : Tail(s)[i] = s[i + 1]
    BY <1>3
  <2>2. \A i \in 1..(Len(s) - 1) : i + 1 \in 1..Len(s)
    BY <2>1
  <2>3. 1 \in DOMAIN s
    BY <2>1
  <2> QED
    BY <2>1, <2>2, <2>3 DEF Elements
<1>4. Elements(<<>>) = {} /\ Elements(<<x>>) = {x}
  <2>1. DOMAIN <<x>> = {1} /\ <<x>>[1] = x
    OBVIOUS
  <2>2. DOMAIN <<>> = {}
    OBVIOUS
  <2> QED
    BY <2>1, <2>2 DEF Elements
<1> QED
  BY <1>1, <1>2, <1>3, <1>4

LEMMA IncreasingFacts ==
  ASSUME NEW s \in Seq(Nat), Increasing(s), NEW x \in Nat
  PROVE  /\ (\A y \in Elements(s) : y < x) => Increasing(Append(s, x))
         /\ s # <<>> => /\ Increasing(Tail(s))
                        /\ \A y \in Elements(Tail(s)) : Head(s) < y
<1>1. ASSUME \A y \in Elements(s) : y < x
      PROVE  Increasing(Append(s, x))
  <2> DEFINE t == Append(s, x)
  <2>1. /\ DOMAIN t = 1..(Len(s) + 1) /\ DOMAIN s = 1..Len(s) /\ Len(s) \in Nat
        /\ \A i \in 1..Len(s) : t[i] = s[i]
        /\ t[Len(s) + 1] = x
    OBVIOUS
  <2> HIDE DEF t
  <2>2. SUFFICES ASSUME NEW i \in 1..(Len(s) + 1), NEW j \in 1..(Len(s) + 1), i < j
                 PROVE  t[i] < t[j]
    BY <2>1 DEF Increasing
  <2>3. i \in 1..Len(s) /\ t[i] = s[i] /\ s[i] \in Elements(s)
    BY <2>1, <2>2 DEF Elements
  <2>4. CASE j = Len(s) + 1
    BY <1>1, <2>1, <2>3, <2>4
  <2>5. CASE j \in 1..Len(s)
    BY <2>1, <2>2, <2>3, <2>5 DEF Increasing
  <2> QED
    BY <2>1, <2>4, <2>5
<1>2. ASSUME s # <<>>
      PROVE  Increasing(Tail(s)) /\ \A y \in Elements(Tail(s)) : Head(s) < y
  <2>1. /\ Len(s) \in Nat \ {0} /\ DOMAIN s = 1..Len(s) /\ Head(s) = s[1]
        /\ DOMAIN Tail(s) = 1..(Len(s) - 1) /\ \A i \in 1..(Len(s) - 1) : Tail(s)[i] = s[i + 1]
    BY <1>2
  <2>2. \A i \in 1..(Len(s) - 1) : i + 1 \in 1..Len(s) /\ 1 < i + 1
    BY <2>1
  <2>3. \A i \in 1..(Len(s) - 1) : s[1] < s[i + 1]
    BY <2>1, <2>2 DEF Increasing
  <2>4. \A i, j \in 1..(Len(s) - 1) : i < j => s[i + 1] < s[j + 1]
    BY <2>1, <2>2 DEF Increasing
  <2> QED
    BY <2>1, <2>3, <2>4 DEF Increasing, Elements
<1> QED
  BY <1>1, <1>2

\* Steps that move nothing towards the queue.
LEMMA OrderKept ==
  ASSUME InOrder, UNCHANGED <<push, batch, frames>>,
         Elements(queue') \subseteq Elements(queue),
         ghost'.stale \subseteq Elements(queue) \cup ghost.stale
  PROVE  InOrder'
<1>1. Waiting' = Waiting /\ Hand' = Hand /\ NextUp' = NextUp /\ Elements(batch)' = Elements(batch)
  BY DEF Waiting, Hand, NextUp, Elements
<1>2. Increasing(batch)'
  BY DEF InOrder, Increasing
<1> QED
  BY <1>1, <1>2 DEF InOrder

\* The five steps that take a frame from its publication to the queue.
LEMMA OrderMoves ==
  ASSUME LocalInv, InOrder,
         flush_due_batch \/ push_check \/ push_send \/ flush_done
         \/ \E m \in Messages : publish_rtcm_frame(m)
  PROVE  InOrder'
<1> DEFINE Old == Elements(queue) \cup ghost.stale
<1>1. /\ batch \in Seq(Nat) /\ queue \in Seq(Nat) /\ ghost \in History /\ frames \in Nat
      /\ push \in [at : {"idle", "flush", "send"}, frame : Nat, next : Nat]
  BY CorrectionsAssumption DEF LocalInv, LocalTypes
<1>2. Old \cup Waiting \subseteq 1..frames /\ \A x \in Old, y \in Waiting : x < y
  BY DEF InOrder
<1>3. /\ Increasing(batch)
      /\ \A x \in Hand, y \in Elements(batch) : x < y
      /\ \A x \in Elements(batch) \cup Hand, y \in NextUp : x < y
  BY DEF InOrder
<1>4. ASSUME NEW next \in Nat, push = Idle, Flushing(next), UNCHANGED <<batch, queue>>, frames' \in Nat,
             \/ next = 0 /\ frames' = frames
             \/ next = frames + 1 /\ frames' = frames + 1
      PROVE  InOrder'
  <2>1. push'.at = "flush" /\ push'.next = next /\ ghost'.stale = ghost.stale
    BY <1>1, <1>4 DEF Flushing, History
  <2>2. Hand = {} /\ NextUp = {} /\ Hand' = {} /\ NextUp' = IF next = 0 THEN {} ELSE {next}
    BY <1>4, <2>1 DEF Hand, NextUp, Idle
  <2>3. /\ Elements(batch)' = Elements(batch) /\ Elements(queue)' = Elements(queue)
        /\ Increasing(batch)'
    BY <1>3, <1>4 DEF Elements, Increasing
  <2>4. Waiting = Elements(batch) /\ Waiting' = Elements(batch) \cup NextUp'
    BY <2>2, <2>3 DEF Waiting
  <2> QED
    BY <1>1, <1>2, <1>4, <2>1, <2>2, <2>3, <2>4 DEF InOrder
<1>5. ASSUME NEW m \in Messages, publish_rtcm_frame(m) PROVE InOrder'
  <2>1. push = Idle /\ frames' = frames + 1 /\ UNCHANGED queue
    BY <1>5 DEF publish_rtcm_frame
  <2>2. CASE batch' = Append(batch, frames + 1) /\ UNCHANGED <<push, ghost>>
    <3>1. Hand = {} /\ NextUp = {} /\ Hand' = {} /\ NextUp' = {}
      BY <2>1, <2>2 DEF Hand, NextUp, Idle
    <3>2. /\ Elements(batch)' = Elements(batch) \cup {frames + 1} /\ Elements(queue)' = Elements(queue)
      <4>1. frames + 1 \in Nat /\ batch' = Append(batch, frames + 1)
        BY <1>1, <2>2
      <4>2. Elements(Append(batch, frames + 1)) = Elements(batch) \cup {frames + 1}
        BY <1>1, <4>1, ElementFacts
      <4> QED
        BY <2>1, <4>1, <4>2
    <3>3. Elements(batch) \subseteq 1..frames
      BY <1>2 DEF Waiting
    <3>4. Increasing(batch)'
      <4>1. frames + 1 \in Nat /\ batch' = Append(batch, frames + 1)
        BY <1>1, <2>2
      <4>2. \A y \in Elements(batch) : y < frames + 1
        BY <1>1, <3>3
      <4>3. Increasing(Append(batch, frames + 1))
        BY <1>1, <1>3, <4>1, <4>2, IncreasingFacts
      <4> QED
        BY <4>1, <4>3
    <3>5. Waiting = Elements(batch) /\ Waiting' = Elements(batch) \cup {frames + 1}
      BY <3>1, <3>2 DEF Waiting
    <3> QED
      BY <1>1, <1>2, <2>1, <2>2, <3>1, <3>2, <3>4, <3>5 DEF InOrder
  <2>3. CASE Flushing(frames + 1) /\ UNCHANGED batch
    BY <1>1, <1>4, <2>1, <2>3
  <2> QED
    BY <1>5, <2>2, <2>3 DEF publish_rtcm_frame, publish_to_batch
<1>6. CASE flush_due_batch
  BY <1>1, <1>4, <1>6 DEF flush_due_batch
<1>7. CASE push_check
  <2>1. /\ push.at = "flush" /\ batch # <<>> /\ batch' = Tail(batch) /\ UNCHANGED <<frames, queue, ghost>>
        /\ push'.next = push.next
        /\ push' = push \/ (push'.at = "send" /\ push'.frame = Head(batch))
    BY <1>1, <1>7 DEF push_check
  <2>2. /\ Head(batch) \in Elements(batch) /\ Elements(batch)' \subseteq Elements(batch)
        /\ Increasing(batch)' /\ \A y \in Elements(batch)' : Head(batch) < y
    <3>1. /\ Head(batch) \in Elements(batch) /\ Elements(Tail(batch)) \subseteq Elements(batch)
      BY <1>1, <2>1, ElementFacts
    <3>2. Increasing(Tail(batch)) /\ \A y \in Elements(Tail(batch)) : Head(batch) < y
      BY <1>1, <1>3, <2>1, IncreasingFacts
    <3> QED
      BY <2>1, <3>1, <3>2
  <2>3. Hand = {} /\ Hand' \subseteq {Head(batch)} /\ NextUp' = NextUp /\ Elements(queue)' = Elements(queue)
    BY <2>1 DEF Hand, NextUp, Elements
  <2>4. Waiting' \subseteq Waiting
    BY <2>2, <2>3 DEF Waiting
  <2> QED
    BY <1>2, <1>3, <2>1, <2>2, <2>3, <2>4 DEF InOrder
<1>8. CASE push_send
  <2>1. /\ push.at = "send" /\ push'.at = "flush" /\ push'.next = push.next /\ push.frame \in Nat
        /\ UNCHANGED <<frames, batch>>
        /\ queue' = queue \/ queue' = Append(queue, push.frame)
        /\ ghost'.stale = ghost.stale
    BY <1>1, <1>8 DEF push_send, History
  <2>2. Hand = {push.frame} /\ Hand' = {} /\ NextUp' = NextUp /\ Elements(batch)' = Elements(batch)
    BY <2>1 DEF Hand, NextUp, Elements
  <2>3. Elements(queue)' \subseteq Elements(queue) \cup {push.frame}
    <3>1. Elements(Append(queue, push.frame)) = Elements(queue) \cup {push.frame}
      BY <1>1, <2>1, ElementFacts
    <3> QED
      BY <2>1, <3>1
  <2>4. Waiting' = Elements(batch) \cup NextUp /\ Waiting = Elements(batch) \cup {push.frame} \cup NextUp
    BY <2>2 DEF Waiting
  <2>5. Increasing(batch)'
    BY <1>3, <2>1 DEF Increasing
  <2> QED
    BY <1>2, <1>3, <2>1, <2>2, <2>3, <2>4, <2>5 DEF InOrder
<1>9. CASE flush_done
  <2>1. /\ push.at = "flush" /\ batch = <<>> /\ batch' = (IF push.next = 0 THEN <<>> ELSE <<push.next>>)
        /\ push' = Idle /\ UNCHANGED <<frames, queue>> /\ ghost'.stale = ghost.stale /\ push.next \in Nat
    BY <1>1, <1>9 DEF flush_done, History
  <2>2. Hand' = {} /\ NextUp' = {} /\ Elements(queue)' = Elements(queue)
    BY <2>1 DEF Hand, NextUp, Idle, Elements
  <2>3. Elements(batch)' = NextUp
    BY <1>1, <2>1, ElementFacts DEF NextUp, Elements
  <2>4. Increasing(batch)'
    <3>1. \A i, j \in DOMAIN batch' : i = j
      BY <2>1
    <3> QED
      BY <2>1, <3>1 DEF Increasing
  <2>5. Waiting' \subseteq Waiting
    BY <2>2, <2>3 DEF Waiting
  <2> QED
    BY <1>2, <2>1, <2>2, <2>3, <2>4, <2>5 DEF InOrder
<1> QED
  BY <1>5, <1>6, <1>7, <1>8, <1>9

\* Steps that touch neither the caster's loop nor its suspension.
LEMMA CutKept ==
  ASSUME CutIsDue, CutIsDone, UNCHANGED <<suspended, reset, storing, loop, packet>>,
         Elements(queue') \cap ghost'.stale \subseteq Elements(queue) \cap ghost.stale,
         ghost'.stale = ghost.stale, ghost'.old = ghost.old,
         ghost'.armed = ghost.armed, ghost'.overlap = ghost.overlap
  PROVE  CutIsDue' /\ CutIsDone'
<1>1. OldIsLeft' => OldIsLeft
  BY DEF OldIsLeft
<1> QED
  BY <1>1 DEF CutIsDue, CutIsDone

\* BaseStation's steps: what push() queues is not from before a suspension.
LEMMA CutBase ==
  ASSUME LocalInv, CutInv,
         flush_due_batch \/ push_check \/ push_send \/ flush_done
         \/ \E m \in Messages : publish_rtcm_frame(m)
  PROVE  CutInv'
<1>1. /\ queue \in Seq(Nat) /\ ghost \in History
      /\ push \in [at : {"idle", "flush", "send"}, frame : Nat, next : Nat]
  BY DEF LocalInv, LocalTypes
<1>2. UNCHANGED <<suspended, reset, storing, loop, packet>>
  BY DEF flush_due_batch, push_check, push_send, flush_done, publish_rtcm_frame, local
<1>3. /\ ghost'.stale = ghost.stale /\ ghost'.old = ghost.old
      /\ ghost'.armed = ghost.armed /\ ghost'.overlap = ghost.overlap
  BY <1>1 DEF flush_due_batch, push_check, push_send, flush_done, publish_rtcm_frame,
              publish_to_batch, Flushing, History
<1>4. Elements(queue') \cap ghost'.stale \subseteq Elements(queue) \cap ghost.stale
  <2>1. CASE UNCHANGED queue
    BY <1>3, <2>1
  <2>2. CASE push.at = "send" /\ queue' = Append(queue, push.frame)
    <3>1. push.frame \in Nat /\ push.frame \in Waiting
      BY <1>1, <2>2 DEF Waiting, Hand
    <3>2. push.frame \notin ghost.stale
      BY <3>1 DEF CutInv, InOrder
    <3>3. Elements(Append(queue, push.frame)) = Elements(queue) \cup {push.frame}
      BY <1>1, <3>1, ElementFacts
    <3> QED
      BY <1>3, <2>2, <3>2, <3>3
  <2> QED
    BY <2>1, <2>2 DEF flush_due_batch, push_check, push_send, flush_done, publish_rtcm_frame
<1>5. InOrder'
  BY OrderMoves DEF CutInv
<1> QED
  BY <1>2, <1>3, <1>4, <1>5, CutKept DEF CutInv

\* The caster's steps.
LEMMA CutCaster ==
  ASSUME LocalInv, CutInv, LocalCasterRuns
  PROVE  CutInv'
<1> USE DEF baseVars, slotVars
<1>1. queue \in Seq(Nat) /\ ghost \in History /\ Elements(<<>>) = {}
  BY ElementFacts DEF LocalInv, LocalTypes
<1>2. /\ InOrder
      /\ ~ghost.overlap /\ OldIsLeft => reset \/ (suspended /\ storing)
      /\ ghost.armed /\ loop # "top" /\ ~ghost.overlap =>
            ~OldIsLeft /\ (loop = "send" => packet \notin ghost.stale)
  BY DEF CutInv, CutIsDue, CutIsDone
<1>3. [ghost EXCEPT !.old = {}].stale = ghost.stale /\ [ghost EXCEPT !.old = {}].old = {}
  BY <1>1 DEF History
<1>4. CASE run_suspended
  <2>1. /\ UNCHANGED <<push, batch, frames, suspended, reset, storing, loop, packet>>
        /\ loop = "top" /\ queue' = <<>> /\ ghost' = [ghost EXCEPT !.old = {}]
    BY <1>4 DEF run_suspended, close_clients
  <2>2. ~OldIsLeft'
    BY <1>1, <1>3, <2>1 DEF OldIsLeft
  <2>3. InOrder'
    BY <1>1, <1>2, <1>3, <2>1, OrderKept
  <2> QED
    BY <2>1, <2>2, <2>3 DEF CutInv, CutIsDue, CutIsDone
<1>5. CASE run_active
  <2>1. /\ UNCHANGED <<push, batch, frames, suspended, storing, packet>>
        /\ loop = "top" /\ ~suspended /\ loop' \in {"top", "accept"}
    BY <1>5 DEF run_active
  <2>2. CASE reset
    <3>1. queue' = <<>> /\ ghost' = [ghost EXCEPT !.old = {}]
      BY <1>5, <2>2 DEF run_active, close_clients
    <3>2. ~OldIsLeft'
      BY <1>1, <1>3, <3>1 DEF OldIsLeft
    <3>3. InOrder'
      BY <1>1, <1>2, <1>3, <2>1, <3>1, OrderKept
    <3> QED
      BY <2>1, <3>2, <3>3 DEF CutInv, CutIsDue, CutIsDone
  <2>3. CASE ~reset
    <3>1. UNCHANGED <<queue, ghost>>
      BY <1>5, <2>3 DEF run_active
    <3>2. ~ghost.overlap => ~OldIsLeft'
      BY <1>2, <2>1, <2>3, <3>1 DEF OldIsLeft
    <3>3. InOrder'
      BY <1>2, <2>1, <3>1, OrderKept
    <3> QED
      BY <2>1, <3>1, <3>2, <3>3 DEF CutInv, CutIsDue, CutIsDone
  <2> QED
    BY <2>2, <2>3
<1>6. CASE accept_client
  <2>1. /\ UNCHANGED <<push, batch, frames, suspended, reset, storing, packet, queue, ghost>>
        /\ loop = "accept" /\ loop' = "recv"
    BY <1>6 DEF accept_client
  <2>2. InOrder' /\ OldIsLeft' = OldIsLeft
    BY <1>2, <2>1, OrderKept DEF OldIsLeft
  <2> QED
    BY <1>2, <2>1, <2>2 DEF CutInv, CutIsDue, CutIsDone
<1>7. CASE run_receive
  <2>1. UNCHANGED <<push, batch, frames, suspended, reset, storing>> /\ loop = "recv"
    BY <1>7 DEF run_receive
  <2>2. CASE /\ queue # <<>> /\ packet' = Head(queue) /\ queue' = Tail(queue) /\ loop' = "send"
             /\ UNCHANGED ghost
    <3>1. Head(queue) \in Elements(queue) /\ Elements(queue') \subseteq Elements(queue)
      BY <1>1, <2>2, ElementFacts
    <3>2. OldIsLeft' => OldIsLeft
      BY <2>2, <3>1 DEF OldIsLeft
    <3>3. InOrder'
      BY <1>2, <2>1, <2>2, <3>1, OrderKept
    <3>4. ghost.armed /\ ~ghost.overlap => packet' \notin ghost.stale
      BY <1>2, <2>1, <2>2, <3>1 DEF OldIsLeft
    <3> QED
      BY <1>2, <2>1, <2>2, <3>2, <3>3, <3>4 DEF CutInv, CutIsDue, CutIsDone
  <2>3. CASE loop' = "top" /\ UNCHANGED queue /\ ghost' = [ghost EXCEPT !.armed = TRUE]
    <3>1. ghost'.stale = ghost.stale /\ ghost'.old = ghost.old /\ ghost'.overlap = ghost.overlap
      BY <1>1, <2>3 DEF History
    <3>2. InOrder' /\ OldIsLeft' = OldIsLeft
      BY <1>2, <2>1, <2>3, <3>1, OrderKept DEF OldIsLeft
    <3> QED
      BY <1>2, <2>1, <2>3, <3>1, <3>2 DEF CutInv, CutIsDue, CutIsDone
  <2> QED
    BY <1>7, <2>2, <2>3 DEF run_receive, Top
<1>8. CASE broadcast
  <2>1. /\ UNCHANGED <<push, batch, frames, suspended, reset, storing, queue>> /\ loop' = "top"
    BY <1>8 DEF broadcast, Top
  <2>2. PICK gone \in SUBSET clients : ghost' = [ghost EXCEPT !.armed = TRUE, !.old = @ \ gone]
    BY <1>8 DEF broadcast
  <2>3. ghost'.stale = ghost.stale /\ ghost'.old \subseteq ghost.old /\ ghost'.overlap = ghost.overlap
    BY <1>1, <2>2 DEF History
  <2>4. InOrder' /\ (OldIsLeft' => OldIsLeft)
    BY <1>2, <2>1, <2>3, OrderKept DEF OldIsLeft
  <2> QED
    BY <1>2, <2>1, <2>3, <2>4 DEF CutInv, CutIsDue, CutIsDone
<1> QED
  BY <1>4, <1>5, <1>6, <1>7, <1>8 DEF LocalCasterRuns

\* set_suspended() promises the cut with its first store, as long as the
\* second is to come, and keeps it with the second.
LEMMA CutSuspend ==
  ASSUME LocalInv, CutInv, NEW b \in BOOLEAN, set_suspended(b)
  PROVE  CutInv'
<1> USE DEF baseVars, slotVars
<1>1. ghost \in History /\ storing \in BOOLEAN
  BY DEF LocalInv, LocalTypes
<1>2. /\ UNCHANGED <<push, batch, frames, queue, reset, loop, packet>>
      /\ suspended' = b /\ storing' = (b \/ storing)
  BY DEF set_suspended
<1>3. Elements(queue') = Elements(queue)
  BY <1>2
<1>4. CASE b
  <2>1. ghost' = [ghost EXCEPT !.stale = {queue[i] : i \in DOMAIN queue}, !.old = clients,
                               !.armed = loop = "top", !.overlap = FALSE]
    BY <1>4 DEF set_suspended
  <2>2. ghost'.stale = Elements(queue) /\ ghost'.armed = (loop = "top")
    BY <1>1, <2>1 DEF History, Elements
  <2>3. InOrder'
    BY <1>2, <1>3, <2>2, OrderKept DEF CutInv
  <2> QED
    BY <1>1, <1>2, <1>4, <2>2, <2>3 DEF CutInv, CutIsDue, CutIsDone
<1>5. CASE ~b
  <2>1. ghost' = [ghost EXCEPT !.overlap = @ \/ storing]
    BY <1>5 DEF set_suspended
  <2>2. /\ ghost'.stale = ghost.stale /\ ghost'.old = ghost.old /\ ghost'.armed = ghost.armed
        /\ ghost'.overlap = (ghost.overlap \/ storing)
    BY <1>1, <2>1 DEF History
  <2>3. InOrder' /\ OldIsLeft' = OldIsLeft
    BY <1>2, <1>3, <2>2, OrderKept DEF CutInv, OldIsLeft
  <2> QED
    BY <1>1, <1>2, <1>5, <2>2, <2>3 DEF CutInv, CutIsDue, CutIsDone
<1> QED
  BY <1>4, <1>5

LEMMA CutStep ==
  ASSUME LocalInv, CutInv, [Next]_vars
  PROVE  CutInv'
<1> USE DEF baseVars, slotVars
<1>1. ASSUME UNCHANGED <<push, frames, queue, ghost, local>>, batch' \in {batch, <<>>}, batch' = batch \/ push = Idle
      PROVE  CutInv'
  <2>1. CASE batch' = batch
    BY <1>1, <2>1, OrderKept, CutKept DEF CutInv, local
  <2>2. CASE batch' = <<>> /\ push = Idle
    <3>1. Elements(batch)' = {} /\ Increasing(batch)' /\ Hand' = {} /\ NextUp' = {} /\ Waiting' = {}
      <4>1. Elements(<<>>) = {} /\ Increasing(<<>>)
        BY ElementFacts DEF Increasing, Elements
      <4> QED
        BY <1>1, <2>2, <4>1 DEF Hand, NextUp, Idle, Waiting
    <3>2. InOrder'
      BY <1>1, <3>1 DEF CutInv, InOrder
    <3> QED
      BY <1>1, <3>2, CutKept DEF CutInv, local
  <2> QED
    BY <1>1, <2>1, <2>2
<1>2. CASE reset_rtcm_state
  BY <1>1, <1>2 DEF reset_rtcm_state
<1>3. ASSUME NEW d \in Dests, flush_destination_if_due(d) \/ ClientFlips(d) PROVE CutInv'
  BY <1>1, <1>3 DEF flush_destination_if_due, ClientFlips
<1>4. ASSUME NEW d \in Dests, NEW S \in SUBSET Pending(d), flush_cut(d, S) PROVE CutInv'
  BY <1>1, <1>4 DEF flush_cut
<1>5. CASE store_reset
  <2>1. UNCHANGED <<push, batch, frames, queue, ghost, loop, packet>> /\ reset' = TRUE
    BY <1>5 DEF store_reset
  <2>2. InOrder'
    BY <2>1, OrderKept DEF CutInv
  <2>3. OldIsLeft' = OldIsLeft
    BY <2>1 DEF OldIsLeft
  <2> QED
    BY <2>1, <2>2, <2>3 DEF CutInv, CutIsDue, CutIsDone
<1>6. CASE UNCHANGED vars
  BY <1>1, <1>6 DEF vars
<1> QED
  BY <1>2, <1>3, <1>4, <1>5, <1>6, CutBase, CutCaster, CutSuspend DEF Next, BaseStationPushes

\* set_suspended() and run(), for any queue, any frames and any number of
\* suspensions: a turn of the loop that began after suspended_ was set sends no
\* packet that was in the queue at that moment and serves no client that was
\* connected at it, unless the caster was resumed between the two stores.  A
\* frame of the batch, or one that push() was about to queue, is not in it.
THEOREM SuspensionCuts == Spec => []SuspensionCutsStream
<1>1. Init => CutInv
  <2> SUFFICES ASSUME Init PROVE CutInv
    OBVIOUS
  <2>1. /\ ghost.stale = {} /\ ghost.old = {} /\ queue = <<>> /\ batch = <<>> /\ loop = "top" /\ push = Idle
    BY DEF Init
  <2>2. Elements(<<>>) = {} /\ Increasing(<<>>)
    BY ElementFacts DEF Increasing, Elements
  <2>3. Hand = {} /\ NextUp = {} /\ Waiting = {}
    BY <2>1, <2>2 DEF Hand, NextUp, Idle, Waiting
  <2>4. InOrder
    BY <2>1, <2>2, <2>3 DEF InOrder
  <2> QED
    BY <2>1, <2>2, <2>4 DEF CutInv, CutIsDue, CutIsDone, OldIsLeft
<1>2. CutInv => SuspensionCutsStream
  BY DEF CutInv, CutIsDone, OldIsLeft, SuspensionCutsStream
<1> QED
  BY <1>1, <1>2, LocalStart, LocalStep, CutStep, PTL DEF Spec

-----------------------------------------------------------------------------
(* The parser.  Fed byte by byte, it comes from one state to another.      *)

Fed(g, p, s) ==
    /\ g[0] = p
    /\ \A n \in 1..Len(s) : g[n] = feed_rtcm_byte(g[n - 1], s[n])
Takes(p, s, q) == \E g : Fed(g, p, s) /\ g[Len(s)] = q

Start == Parser(<<>>, 0, <<>>)

LEMMA FedOnce ==
  ASSUME NEW s, Len(s) \in Nat, NEW p, NEW g, NEW h, Fed(g, p, s), Fed(h, p, s)
  PROVE  \A n \in 0..Len(s) : g[n] = h[n]
<1> DEFINE T == {n \in 0..Len(s) : g[n] # h[n]}
<1> SUFFICES ASSUME T # {} PROVE FALSE
  OBVIOUS
<1>1. PICK n \in T : \A m \in T : n <= m
  <2>1. T \in SUBSET Nat
    OBVIOUS
  <2> HIDE DEF T
  <2> QED
    BY <2>1, LeastNumber
<1>2. CASE n = 0
  BY <1>2 DEF Fed
<1>3. CASE n # 0
  <2>1. n \in 1..Len(s) /\ n - 1 \in 0..Len(s) /\ n - 1 \notin T
    BY <1>1, <1>3
  <2>2. g[n - 1] = h[n - 1]
    BY <2>1
  <2>3. g[n] = feed_rtcm_byte(g[n - 1], s[n]) /\ h[n] = feed_rtcm_byte(h[n - 1], s[n])
    BY <2>1 DEF Fed
  <2> QED
    BY <2>2, <2>3
<1> QED
  BY <1>2, <1>3

LEMMA ReadIs ==
  ASSUME NEW s, Len(s) \in Nat, NEW q, Takes(Start, s, q)
  PROVE  read_data_uart(s) = q.out
<1> DEFINE Whole(f) == f = [n \in 0..Len(s) |-> IF n = 0 THEN Parser(<<>>, 0, <<>>)
                                               ELSE feed_rtcm_byte(f[n - 1], s[n])]
           fed == CHOOSE f : Whole(f)
<1>1. PICK g : Fed(g, Start, s) /\ g[Len(s)] = q
  BY DEF Takes
<1> DEFINE f == [n \in 0..Len(s) |-> g[n]]
<1>2. ASSUME NEW n \in 0..Len(s)
      PROVE  f[n] = IF n = 0 THEN Parser(<<>>, 0, <<>>) ELSE feed_rtcm_byte(f[n - 1], s[n])
  <2>1. CASE n = 0
    BY <1>1, <2>1 DEF Fed, Start
  <2>2. CASE n # 0
    <3>1. n \in 1..Len(s) /\ n - 1 \in 0..Len(s)
      BY <2>2
    <3>2. f[n] = g[n] /\ f[n - 1] = g[n - 1]
      BY <3>1
    <3> QED
      BY <1>1, <2>2, <3>1, <3>2 DEF Fed
  <2> QED
    BY <2>1, <2>2
<1>3. f = [n \in 0..Len(s) |-> f[n]]
  OBVIOUS
<1> HIDE DEF f
<1>4. Whole(f)
  BY <1>2, <1>3
<1>5. Whole(fed)
  BY <1>4
<1>6. read_data_uart(s) = fed[Len(s)].out
  BY DEF read_data_uart
<1> HIDE DEF fed
<1>7. ASSUME NEW n \in 0..Len(s)
      PROVE  fed[n] = IF n = 0 THEN Parser(<<>>, 0, <<>>) ELSE feed_rtcm_byte(fed[n - 1], s[n])
  BY <1>5
<1>8. Fed(fed, Start, s)
  <2>1. fed[0] = Start
    BY <1>7 DEF Start
  <2>2. ASSUME NEW n \in 1..Len(s) PROVE fed[n] = feed_rtcm_byte(fed[n - 1], s[n])
    BY <1>7
  <2> QED
    BY <2>1, <2>2 DEF Fed
<1>9. fed[Len(s)] = g[Len(s)]
  BY <1>1, <1>8, FedOnce
<1> QED
  BY <1>1, <1>6, <1>9

LEMMA TakesNone ==
  ASSUME NEW p PROVE Takes(p, <<>>, p)
<1> DEFINE g == [n \in 0..0 |-> p]
<1>1. Fed(g, p, <<>>) /\ g[Len(<<>>)] = p
  BY DEF Fed
<1> QED
  BY <1>1 DEF Takes

LEMMA TakesOne ==
  ASSUME NEW p, NEW b PROVE Takes(p, <<b>>, feed_rtcm_byte(p, b))
<1> DEFINE g == [n \in 0..1 |-> IF n = 0 THEN p ELSE feed_rtcm_byte(p, b)]
<1>1. Len(<<b>>) = 1 /\ <<b>>[1] = b
  OBVIOUS
<1>2. g[0] = p /\ g[1] = feed_rtcm_byte(p, b)
  OBVIOUS
<1>3. \A n \in 1..1 : n = 1 /\ n - 1 = 0
  OBVIOUS
<1> HIDE DEF g
<1>4. Fed(g, p, <<b>>) /\ g[Len(<<b>>)] = feed_rtcm_byte(p, b)
  BY <1>1, <1>2, <1>3 DEF Fed
<1> QED
  BY <1>4 DEF Takes

LEMMA TakesBoth ==
  ASSUME NEW S, NEW a \in Seq(S), NEW b \in Seq(S), NEW p, NEW q, NEW r, Takes(p, a, q), Takes(q, b, r)
  PROVE  Takes(p, a \o b, r)
<1>1. PICK g : Fed(g, p, a) /\ g[Len(a)] = q
  BY DEF Takes
<1>2. PICK h : Fed(h, q, b) /\ h[Len(b)] = r
  BY DEF Takes
<1> DEFINE s == a \o b
           w == [n \in 0..Len(s) |-> IF n <= Len(a) THEN g[n] ELSE h[n - Len(a)]]
<1>3. Len(a) \in Nat /\ Len(b) \in Nat /\ Len(s) = Len(a) + Len(b)
  OBVIOUS
<1>4. \A n \in 0..Len(s) : w[n] = IF n <= Len(a) THEN g[n] ELSE h[n - Len(a)]
  OBVIOUS
<1>5. \A n \in 1..Len(s) : s[n] = IF n <= Len(a) THEN a[n] ELSE b[n - Len(a)]
  OBVIOUS
<1> HIDE DEF w, s
<1>6. w[0] = p
  BY <1>1, <1>3, <1>4 DEF Fed
<1>7. w[Len(s)] = r
  <2>1. CASE Len(b) = 0
    BY <1>1, <1>2, <1>3, <1>4, <2>1 DEF Fed
  <2>2. CASE Len(b) # 0
    BY <1>2, <1>3, <1>4, <2>2
  <2> QED
    BY <2>1, <2>2
<1>8. ASSUME NEW n \in 1..Len(s) PROVE w[n] = feed_rtcm_byte(w[n - 1], s[n])
  <2>1. CASE n <= Len(a)
    <3>1. n \in 1..Len(a) /\ n \in 0..Len(s) /\ n - 1 \in 0..Len(s) /\ n - 1 <= Len(a)
      BY <1>3, <2>1
    <3>2. w[n] = g[n] /\ w[n - 1] = g[n - 1] /\ s[n] = a[n]
      BY <1>4, <1>5, <2>1, <3>1
    <3> QED
      BY <1>1, <3>1, <3>2 DEF Fed
  <2>2. CASE n > Len(a)
    <3> DEFINE m == n - Len(a)
    <3>1. m \in 1..Len(b) /\ n \in 0..Len(s) /\ n - 1 \in 0..Len(s) /\ ~ (n <= Len(a))
      BY <1>3, <2>2
    <3>2. w[n] = h[m] /\ s[n] = b[m]
      BY <1>4, <1>5, <3>1
    <3>3. w[n - 1] = h[m - 1]
      <4>1. CASE n - 1 <= Len(a)
        <5>1. n - 1 = Len(a) /\ m - 1 = 0
          BY <1>3, <2>2, <4>1
        <5>2. w[n - 1] = g[Len(a)] /\ h[m - 1] = q
          BY <1>2, <1>4, <3>1, <5>1 DEF Fed
        <5> QED
          BY <1>1, <5>2
      <4>2. CASE ~ (n - 1 <= Len(a))
        <5>1. w[n - 1] = h[(n - 1) - Len(a)] /\ (n - 1) - Len(a) = m - 1
          BY <1>3, <1>4, <3>1, <4>2
        <5> QED
          BY <5>1
      <4> QED
        BY <4>1, <4>2
    <3> HIDE DEF m
    <3> QED
      BY <1>2, <3>1, <3>2, <3>3 DEF Fed
  <2> QED
    BY <1>3, <2>1, <2>2
<1> QED
  BY <1>6, <1>7, <1>8 DEF Fed, Takes, s

-----------------------------------------------------------------------------
(* The CRC: a value of one byte, and one byte less or more changes it.     *)

Sums(g, d) ==
    /\ g[0] = 1
    /\ \A n \in 1..Len(d) : g[n] = (g[n - 1] + d[n]) % (Preamble + 1)

LEMMA SumsExist ==
  ASSUME NEW d
  PROVE  \A n \in Nat : \E g : g = [m \in 0..n |-> IF m = 0 THEN 1 ELSE (g[m - 1] + d[m]) % (Preamble + 1)]
<1> DEFINE Whole(g, n) == g = [m \in 0..n |-> IF m = 0 THEN 1 ELSE (g[m - 1] + d[m]) % (Preamble + 1)]
           T == {n \in Nat : ~ \E g : Whole(g, n)}
<1> SUFFICES ASSUME T # {} PROVE FALSE
  OBVIOUS
<1>1. PICK n \in T : \A m \in T : n <= m
  <2> HIDE DEF Whole
  <2> QED
    BY LeastNumber
<1>2. CASE n = 0
  <2> DEFINE g == [m \in 0..0 |-> 1]
  <2>1. Whole(g, 0)
    OBVIOUS
  <2> QED
    BY <1>2, <2>1
<1>3. CASE n # 0
  <2>1. n - 1 \in Nat /\ n - 1 \notin T
    BY <1>1, <1>3
  <2>2. PICK f : Whole(f, n - 1)
    BY <2>1
  <2> DEFINE g == [m \in 0..n |-> IF m < n THEN f[m] ELSE (f[n - 1] + d[n]) % (Preamble + 1)]
  <2>3. ASSUME NEW m \in 0..n
        PROVE  g[m] = IF m = 0 THEN 1 ELSE (g[m - 1] + d[m]) % (Preamble + 1)
    <3>1. CASE m = n
      <4>1. n - 1 \in 0..n /\ g[n - 1] = f[n - 1] /\ g[n] = (f[n - 1] + d[n]) % (Preamble + 1)
        BY <2>1
      <4> QED
        BY <1>3, <3>1, <4>1
    <3>2. CASE m < n
      <4>1. m \in 0..n - 1 /\ g[m] = f[m]
        BY <2>1, <3>2
      <4>2. f[m] = IF m = 0 THEN 1 ELSE (f[m - 1] + d[m]) % (Preamble + 1)
        BY <2>2, <4>1
      <4>3. m # 0 => m - 1 \in 0..n /\ g[m - 1] = f[m - 1]
        BY <2>1, <3>2
      <4> HIDE DEF g
      <4> QED
        BY <4>1, <4>2, <4>3
    <3> QED
      BY <2>1, <3>1, <3>2
  <2>4. g = [m \in 0..n |-> g[m]]
    OBVIOUS
  <2> HIDE DEF g
  <2>5. Whole(g, n)
    BY <2>3, <2>4
  <2> QED
    BY <2>5
<1> QED
  BY <1>2, <1>3

LEMMA CrcSums ==
  ASSUME NEW d, Len(d) \in Nat
  PROVE  \E g : Sums(g, d) /\ rtcm_crc24q(d) = g[Len(d)]
<1> DEFINE Whole(g) == g = [n \in 0..Len(d) |-> IF n = 0 THEN 1 ELSE (g[n - 1] + d[n]) % (Preamble + 1)]
           crc == CHOOSE g : Whole(g)
<1>1. \E g : Whole(g)
  BY SumsExist
<1>2. Whole(crc)
  BY <1>1
<1>3. rtcm_crc24q(d) = crc[Len(d)]
  BY DEF rtcm_crc24q
<1> HIDE DEF crc
<1>4. ASSUME NEW n \in 0..Len(d)
      PROVE  crc[n] = IF n = 0 THEN 1 ELSE (crc[n - 1] + d[n]) % (Preamble + 1)
  BY <1>2
<1>5. crc[0] = 1
  BY <1>4
<1>6. ASSUME NEW n \in 1..Len(d) PROVE crc[n] = (crc[n - 1] + d[n]) % (Preamble + 1)
  <2>1. n \in 0..Len(d) /\ n # 0
    OBVIOUS
  <2> QED
    BY <1>4, <2>1
<1>7. Sums(crc, d)
  BY <1>5, <1>6 DEF Sums
<1> QED
  BY <1>3, <1>7

LEMMA SumsAreBytes ==
  ASSUME NEW d \in Seq(Bytes), NEW g, Sums(g, d)
  PROVE  \A n \in 0..Len(d) : g[n] \in Bytes
<1> DEFINE T == {n \in 0..Len(d) : g[n] \notin Bytes}
<1> SUFFICES ASSUME T # {} PROVE FALSE
  OBVIOUS
<1>1. PICK n \in T : \A m \in T : n <= m
  <2>1. T \in SUBSET Nat
    OBVIOUS
  <2> HIDE DEF T
  <2> QED
    BY <2>1, LeastNumber
<1>2. CASE n = 0
  BY <1>2 DEF Sums, Bytes, Preamble
<1>3. CASE n # 0
  <2>1. n \in 1..Len(d) /\ n - 1 \in 0..Len(d) /\ n - 1 \notin T
    BY <1>1, <1>3
  <2>2. g[n - 1] \in Bytes /\ d[n] \in Bytes
    BY <2>1
  <2>3. g[n] = (g[n - 1] + d[n]) % (Preamble + 1)
    BY <2>1 DEF Sums
  <2> QED
    BY <2>2, <2>3 DEF Bytes, Preamble
<1> QED
  BY <1>2, <1>3

LEMMA CrcIsByte ==
  ASSUME NEW d \in Seq(Bytes) PROVE rtcm_crc24q(d) \in Bytes
<1>1. Len(d) \in Nat
  OBVIOUS
<1>2. PICK g : Sums(g, d) /\ rtcm_crc24q(d) = g[Len(d)]
  BY <1>1, CrcSums
<1> QED
  BY <1>1, <1>2, SumsAreBytes

LEMMA SameRest ==
  ASSUME NEW x \in Bytes, NEW y \in Bytes, NEW a \in Bytes, NEW b \in Bytes
  PROVE  /\ a = b /\ x # y => (x + a) % (Preamble + 1) # (y + b) % (Preamble + 1)
         /\ x = y /\ a # b => (x + a) % (Preamble + 1) # (y + b) % (Preamble + 1)
BY DEF Bytes, Preamble

LEMMA CrcTells ==
  ASSUME NEW d \in Seq(Bytes), NEW e \in Seq(Bytes), Len(d) = Len(e), NEW i \in 1..Len(d), d[i] # e[i],
         \A n \in 1..Len(d) : n # i => d[n] = e[n]
  PROVE  rtcm_crc24q(d) # rtcm_crc24q(e)
<1>0. Len(d) \in Nat
  OBVIOUS
<1>1. PICK g : Sums(g, d) /\ rtcm_crc24q(d) = g[Len(d)]
  BY <1>0, CrcSums
<1>2. PICK h : Sums(h, e) /\ rtcm_crc24q(e) = h[Len(e)]
  BY <1>0, CrcSums
<1>3. \A n \in 0..Len(d) : g[n] \in Bytes /\ h[n] \in Bytes
  BY <1>1, <1>2, SumsAreBytes
<1> DEFINE Right(n) == IF n < i THEN g[n] = h[n] ELSE g[n] # h[n]
           T == {n \in 0..Len(d) : ~ Right(n)}
<1>4. T = {}
  <2> SUFFICES ASSUME T # {} PROVE FALSE
    OBVIOUS
  <2>1. PICK n \in T : \A m \in T : n <= m
    <3>1. T \in SUBSET Nat
      OBVIOUS
    <3> HIDE DEF T
    <3> QED
      BY <3>1, LeastNumber
  <2>2. CASE n = 0
    BY <1>1, <1>2, <2>1, <2>2 DEF Sums
  <2>3. CASE n # 0
    <3>1. n \in 1..Len(d) /\ n - 1 \in 0..Len(d) /\ n - 1 \notin T
      BY <2>1, <2>3
    <3>2. Right(n - 1)
      BY <3>1
    <3>3. /\ g[n] = (g[n - 1] + d[n]) % (Preamble + 1)
          /\ h[n] = (h[n - 1] + e[n]) % (Preamble + 1)
      BY <1>1, <1>2, <3>1 DEF Sums
    <3>4. g[n - 1] \in Bytes /\ h[n - 1] \in Bytes /\ d[n] \in Bytes /\ e[n] \in Bytes
      BY <1>3, <3>1
    <3>5. CASE n < i
      <4>1. g[n - 1] = h[n - 1] /\ d[n] = e[n]
        BY <3>1, <3>2, <3>5
      <4> QED
        BY <2>1, <3>3, <3>5, <4>1
    <3>6. CASE n = i
      <4>1. g[n - 1] = h[n - 1] /\ d[n] # e[n]
        BY <3>1, <3>2, <3>6
      <4>2. g[n] # h[n]
        BY <3>3, <3>4, <4>1, SameRest
      <4> QED
        BY <2>1, <3>6, <4>2
    <3>7. CASE n > i
      <4>1. g[n - 1] # h[n - 1] /\ d[n] = e[n]
        BY <3>1, <3>2, <3>7
      <4>2. g[n] # h[n]
        BY <3>3, <3>4, <4>1, SameRest
      <4> QED
        BY <2>1, <3>7, <4>2
    <3> QED
      BY <3>1, <3>5, <3>6, <3>7
  <2> QED
    BY <2>2, <2>3
<1>5. Len(d) \in 0..Len(d) /\ ~ (Len(d) < i)
  OBVIOUS
<1>6. Right(Len(d))
  BY <1>4, <1>5
<1> QED
  BY <1>1, <1>2, <1>5, <1>6

-----------------------------------------------------------------------------
(* A frame, whole.                                                         *)

\* A preamble, a clear byte, the length of what is between header and CRC.
Shaped(f) ==
    /\ f \in Seq(Bytes) /\ Len(f) >= HeaderSize + CrcSize
    /\ f[1] = Preamble /\ f[2] = 0 /\ Len(f) = f[3] + HeaderSize + CrcSize

LEMMA PrefixGrows ==
  ASSUME NEW f \in Seq(Bytes), NEW n \in 1..Len(f)
  PROVE  /\ SubSeq(f, 1, n) \in Seq(Bytes) /\ Len(SubSeq(f, 1, n)) = n
         /\ SubSeq(f, 1, n) = Append(SubSeq(f, 1, n - 1), f[n])
         /\ Len(SubSeq(f, 1, n - 1)) = n - 1
<1>1. n \in Nat /\ n - 1 \in Nat /\ n - 1 <= Len(f) /\ n <= Len(f) /\ Len(f) \in Nat
  OBVIOUS
<1>2. SubSeq(f, 1, n) \in Seq(Bytes) /\ Len(SubSeq(f, 1, n)) = n
  BY <1>1
<1>3. SubSeq(f, 1, n - 1) \in Seq(Bytes) /\ Len(SubSeq(f, 1, n - 1)) = n - 1
  BY <1>1
<1>4. \A k \in 1..n : SubSeq(f, 1, n)[k] = f[k]
  BY <1>1
<1>5. \A k \in 1..n - 1 : SubSeq(f, 1, n - 1)[k] = f[k]
  BY <1>1
<1> DEFINE a == SubSeq(f, 1, n)
           b == SubSeq(f, 1, n - 1)
<1>6. f[n] \in Bytes
  OBVIOUS
<1> HIDE DEF a, b
<1>7. a \in Seq(Bytes) /\ Len(a) = n /\ b \in Seq(Bytes) /\ Len(b) = n - 1
      /\ (\A k \in 1..n : a[k] = f[k]) /\ (\A k \in 1..n - 1 : b[k] = f[k])
  BY <1>2, <1>3, <1>4, <1>5 DEF a, b
<1>8. a = Append(b, f[n])
  BY <1>1, <1>6, <1>7
<1> QED
  BY <1>2, <1>3, <1>8 DEF a, b

LEMMA FrameTaken ==
  ASSUME NEW f, Shaped(f), NEW F \in {<<>>, <<Preamble>>}, NEW out
  PROVE  Takes(Parser(F, 0, out), f, Parser(<<>>, 0, IF CrcHolds(f) THEN Append(out, f) ELSE out))
<1> DEFINE p == Parser(F, 0, out)
           q == Parser(<<>>, 0, IF CrcHolds(f) THEN Append(out, f) ELSE out)
           part(n) == Parser(SubSeq(f, 1, n), IF n < 3 THEN 0 ELSE Len(f), out)
           g == [n \in 0..Len(f) |-> IF n = 0 THEN p ELSE IF n < Len(f) THEN part(n) ELSE q]
<1>1. f \in Seq(Bytes) /\ Len(f) \in Nat /\ Len(f) >= 4
  BY DEF Shaped, HeaderSize, CrcSize
<1>2. /\ f[1] = 3 /\ f[2] = 0 /\ f[3] \in 0..3 /\ Len(f) = f[3] + 4
      /\ \A n \in 1..Len(f) : f[n] \in Bytes
  BY <1>1 DEF Shaped, HeaderSize, CrcSize, Bytes, Preamble
<1>3. g[0] = p /\ g[Len(f)] = q /\ \A n \in 1..Len(f) : n < Len(f) => g[n] = part(n)
  BY <1>1
<1> HIDE DEF g
<1>4. g[1] = feed_rtcm_byte(p, f[1])
  <2>0. p.frame = F /\ p.out = out
    BY DEF Parser
  <2>1. g[1] = Parser(<<Preamble>>, 0, out)
    <3> DEFINE a == SubSeq(f, 1, 1)
    <3>1. a \in Seq(Bytes) /\ Len(a) = 1 /\ a[1] = f[1]
      BY <1>1
    <3> HIDE DEF a
    <3>2. a = <<f[1]>>
      BY <3>1
    <3>3. 1 \in 1..Len(f) /\ 1 < Len(f) /\ 1 < 3
      BY <1>1
    <3>4. g[1] = part(1)
      BY <1>3, <3>3
    <3>5. part(1) = Parser(a, 0, out)
      BY <3>3 DEF a
    <3> HIDE DEF part
    <3>6. f[1] = Preamble
      BY DEF Shaped
    <3> QED
      BY <3>2, <3>4, <3>5, <3>6
  <2>2. f[1] = Preamble /\ Preamble \in Nat /\ ~ reserved_clear(Preamble)
    BY <1>2 DEF reserved_clear, Preamble
  <2> HIDE DEF p
  <2>3. CASE F = <<>>
    <3>1. Append(F, Preamble) = <<Preamble>> /\ Len(<<Preamble>>) = 1
      BY <2>2, <2>3
    <3>2. feed_rtcm_byte(p, Preamble) = Parser(<<Preamble>>, 0, out)
      BY <2>0, <3>1 DEF feed_rtcm_byte
    <3> QED
      BY <2>1, <2>2, <3>2
  <2>4. CASE F = <<Preamble>>
    <3> DEFINE h == Append(<<Preamble>>, Preamble)
    <3>1. <<Preamble>> \in Seq(Nat) /\ Len(<<Preamble>>) = 1
      BY <2>2
    <3>2. Append(p.frame, Preamble) = h /\ Len(h) = 2
      BY <2>0, <2>2, <2>4, <3>1
    <3> HIDE DEF h
    <3>3. feed_rtcm_byte(p, Preamble) = Parser(<<Preamble>>, 0, out)
      BY <2>0, <2>2, <3>2 DEF feed_rtcm_byte
    <3> QED
      BY <2>1, <2>2, <3>3
  <2> QED
    BY <2>3, <2>4
<1>5. ASSUME NEW n \in 2..Len(f)
      PROVE  g[n] = feed_rtcm_byte(g[n - 1], f[n])
  <2>1. n - 1 \in 1..Len(f) /\ n - 1 < Len(f) /\ n \in 1..Len(f)
    BY <1>1
  <2>2. g[n - 1] = part(n - 1)
    BY <1>3, <2>1
  <2> DEFINE h == SubSeq(f, 1, n)
             b == SubSeq(f, 1, n - 1)
             expected == IF n - 1 < 3 THEN 0 ELSE Len(f)
  <2>3. h = Append(b, f[n]) /\ Len(h) = n
    BY <1>1, <2>1, PrefixGrows
  <2>4. /\ part(n - 1).frame = b /\ part(n - 1).out = out
        /\ part(n - 1).expected = expected
    BY DEF Parser
  <2>5. n < Len(f) => g[n] = Parser(h, IF n < 3 THEN 0 ELSE Len(f), out)
    BY <1>3, <2>1
  <2> HIDE DEF part, h, b, p, q
  <2>6. CASE n = 2
    <3>1. reserved_clear(f[n]) /\ n < Len(f)
      BY <1>1, <1>2, <2>6 DEF reserved_clear
    <3> QED
      BY <2>2, <2>3, <2>4, <2>5, <2>6, <3>1 DEF feed_rtcm_byte
  <2>7. CASE n = 3
    <3>1. /\ f[n] + HeaderSize + CrcSize = Len(f) /\ n < Len(f)
          /\ ~ (f[n] + HeaderSize + CrcSize > BufferSize)
      BY <1>1, <1>2, <2>7 DEF HeaderSize, CrcSize, BufferSize, Preamble
    <3> QED
      BY <2>2, <2>3, <2>4, <2>5, <2>7, <3>1 DEF feed_rtcm_byte
  <2>8. CASE n > 3 /\ n < Len(f)
    <3>1. expected = Len(f) /\ ~ (n < 3) /\ n # 1 /\ n # 2 /\ n # 3
      BY <2>1, <2>8
    <3> HIDE DEF expected
    <3> QED
      BY <2>2, <2>3, <2>4, <2>5, <2>8, <3>1 DEF feed_rtcm_byte
  <2>9. CASE n = Len(f)
    <3>1. expected = Len(f) /\ ~ (n < Len(f)) /\ n # 1 /\ n # 2 /\ n # 3
      BY <1>1, <2>1, <2>9
    <3>2. h = f
      BY <1>1, <2>9 DEF h
    <3> HIDE DEF expected
    <3>3. feed_rtcm_byte(g[n - 1], f[n]) = end_of_frame(part(n - 1), f)
      BY <2>2, <2>3, <2>4, <3>1, <3>2 DEF feed_rtcm_byte
    <3>4. end_of_frame(part(n - 1), f) = q
      <4>1. [part(n - 1) EXCEPT !.out = IF CrcHolds(f) THEN Append(@, f) ELSE @].out
            = IF CrcHolds(f) THEN Append(out, f) ELSE out
        BY DEF part, Parser
      <4> QED
        BY <4>1 DEF end_of_frame, reset_rtcm_parser, q
    <3> QED
      BY <1>3, <2>9, <3>3, <3>4
  <2> QED
    BY <1>1, <2>6, <2>7, <2>8, <2>9
<1>6. ASSUME NEW n \in 1..Len(f) PROVE g[n] = feed_rtcm_byte(g[n - 1], f[n])
  <2>1. CASE n = 1
    BY <1>3, <1>4, <2>1
  <2>2. CASE n # 1
    BY <1>5, <2>2
  <2> QED
    BY <2>1, <2>2
<1> HIDE DEF p, q
<1>7. Fed(g, p, f)
  BY <1>3, <1>6 DEF Fed
<1> QED
  BY <1>3, <1>7 DEF Takes, p, q

LEMMA Joined ==
  ASSUME NEW a \in Seq(Bytes), NEW b \in Seq(Bytes)
  PROVE  /\ a \o b \in Seq(Bytes) /\ Len(a \o b) = Len(a) + Len(b)
         /\ \A i \in 1..Len(a) : (a \o b)[i] = a[i]
         /\ \A i \in 1..Len(b) : (a \o b)[Len(a) + i] = b[i]
OBVIOUS

LEMMA FunctionIsSeq ==
  ASSUME NEW S, NEW k \in Nat, NEW s \in [1..k -> S]
  PROVE  s \in Seq(S) /\ Len(s) = k
OBVIOUS

\* What the sender made: the payload between the header and the CRC.
LEMMA FramedFacts ==
  ASSUME NEW payload \in Inputs(Bytes, Preamble)
  PROVE  Shaped(Framed(payload)) /\ CrcHolds(Framed(payload))
<1> DEFINE n == Len(payload)
           data == Header(n) \o payload
           f == Framed(payload)
<1>1. PICK k \in 0..Preamble : payload \in [1..k -> Bytes]
  BY DEF Inputs
<1>2. payload \in Seq(Bytes) /\ n = k /\ k \in Bytes
  BY <1>1 DEF Bytes, Preamble
<1>3. /\ Header(n) \in Seq(Bytes) /\ Len(Header(n)) = 3
      /\ Header(n)[1] = Preamble /\ Header(n)[2] = 0 /\ Header(n)[3] = n
  BY <1>2 DEF Header, Bytes, Preamble
<1> HIDE DEF n
<1>4. /\ data \in Seq(Bytes) /\ Len(data) = 3 + Len(payload)
      /\ \A i \in 1..3 : data[i] = Header(n)[i]
  <2>1. /\ data \in Seq(Bytes) /\ Len(data) = Len(Header(n)) + Len(payload)
        /\ \A i \in 1..Len(Header(n)) : data[i] = Header(n)[i]
    BY <1>2, <1>3, Joined
  <2> HIDE DEF data
  <2> QED
    BY <1>3, <2>1
<1>5. data[1] = Preamble /\ data[2] = 0 /\ data[3] = n
  <2> HIDE DEF data
  <2>1. data[1] = Header(n)[1] /\ data[2] = Header(n)[2] /\ data[3] = Header(n)[3]
    BY <1>4
  <2> QED
    BY <1>3, <2>1
<1> DEFINE crc == rtcm_crc24q(data)
<1>6. crc \in Bytes
  BY <1>4, CrcIsByte
<1>7. f = Append(data, crc)
  BY DEF Framed, n
<1> HIDE DEF f, data, crc, n
<1>8. n \in Nat /\ Len(data) = n + 3
  BY <1>2, <1>4 DEF n, Bytes
<1>9. f \in Seq(Bytes) /\ Len(f) = n + 4 /\ f[n + 4] = crc
  BY <1>4, <1>6, <1>7, <1>8
<1>10. \A i \in 1..n + 3 : f[i] = data[i]
  BY <1>4, <1>6, <1>7, <1>8
<1>11. f[1] = Preamble /\ f[2] = 0 /\ f[3] = n
  BY <1>5, <1>8, <1>10
<1>12. SubSeq(f, 1, n + 3) = data
  <2> DEFINE a == SubSeq(f, 1, n + 3)
  <2>1. n + 3 \in 1..Len(f)
    BY <1>8, <1>9
  <2>2. a \in Seq(Bytes) /\ Len(a) = n + 3
    BY <1>9, <2>1, PrefixGrows
  <2>3. \A i \in 1..n + 3 : a[i] = f[i]
    BY <1>8, <1>9
  <2> HIDE DEF a
  <2>4. \A i \in 1..n + 3 : a[i] = data[i]
    BY <1>10, <2>3
  <2>5. a = data
    BY <1>4, <1>8, <2>2, <2>4
  <2> QED
    BY <2>5 DEF a
<1>13. CrcHolds(f)
  <2>1. Len(f) - CrcSize = n + 3
    BY <1>8, <1>9 DEF CrcSize
  <2> QED
    BY <1>9, <1>12, <2>1 DEF CrcHolds, crc
<1>14. Shaped(f)
  BY <1>8, <1>9, <1>11 DEF Shaped, HeaderSize, CrcSize
<1> QED
  BY <1>13, <1>14 DEF f

LEMMA ShapedIsFramed ==
  ASSUME NEW f, Shaped(f), CrcHolds(f)
  PROVE  \E payload \in Inputs(Bytes, Preamble) : f = Framed(payload)
<1>1. /\ f \in Seq(Bytes) /\ Len(f) \in Nat /\ f[1] = Preamble /\ f[2] = 0 
      /\ f[3] \in 0..3 /\ Len(f) = f[3] + 4
  BY DEF Shaped, HeaderSize, CrcSize, Bytes, Preamble
<1> DEFINE n == f[3]
           payload == [i \in 1..n |-> f[i + 3]]
           data == Header(n) \o payload
           d == SubSeq(f, 1, n + 3)
<1>2. n \in 0..3 /\ n \in Nat /\ n + 3 \in 1..Len(f)
  BY <1>1
<1>3. d \in Seq(Bytes) /\ Len(d) = n + 3 /\ f = Append(d, f[n + 4])
  <2>1. d \in Seq(Bytes) /\ Len(d) = n + 3
    BY <1>1, <1>2, PrefixGrows
  <2>2. Len(f) = n + 4 /\ Len(f) \in 1..Len(f) /\ Len(f) - 1 = n + 3
    BY <1>1
  <2>3. SubSeq(f, 1, Len(f)) = Append(SubSeq(f, 1, Len(f) - 1), f[Len(f)])
    BY <1>1, <2>2, PrefixGrows
  <2>4. SubSeq(f, 1, Len(f)) = f
    BY <1>1
  <2> QED
    BY <2>1, <2>2, <2>3, <2>4
<1>4. \A i \in 1..n + 3 : d[i] = f[i]
  BY <1>1, <1>2
<1>5. payload \in [1..n -> Bytes]
  BY <1>1, <1>2
<1>6. payload \in Seq(Bytes) /\ Len(payload) = n
  <2> HIDE DEF payload
  <2> QED
    BY <1>2, <1>5, FunctionIsSeq
<1>7. payload \in Inputs(Bytes, Preamble)
  BY <1>2, <1>5 DEF Inputs, Preamble
<1>8. \A i \in 1..n : payload[i] = f[i + 3]
  OBVIOUS
<1> HIDE DEF d, payload
<1>9. /\ Header(n) \in Seq(Bytes) /\ Len(Header(n)) = 3
      /\ Header(n)[1] = Preamble /\ Header(n)[2] = 0 /\ Header(n)[3] = n
  BY <1>2 DEF Header, Bytes, Preamble
<1> HIDE DEF n
<1>10. /\ data \in Seq(Bytes) /\ Len(data) = n + 3
       /\ \A i \in 1..3 : data[i] = Header(n)[i]
       /\ \A i \in 1..n : data[3 + i] = payload[i]
  <2>1. /\ data \in Seq(Bytes) /\ Len(data) = Len(Header(n)) + Len(payload)
        /\ \A i \in 1..Len(Header(n)) : data[i] = Header(n)[i]
        /\ \A i \in 1..Len(payload) : data[Len(Header(n)) + i] = payload[i]
    BY <1>6, <1>9, Joined
  <2> HIDE DEF data
  <2>2. 3 + n = n + 3
    BY <1>2
  <2> QED
    BY <1>6, <1>9, <2>1, <2>2
<1> HIDE DEF data
<1>11. ASSUME NEW i \in 1..n + 3 PROVE data[i] = d[i]
  <2>1. CASE i <= 3
    <3>1. data[i] = Header(n)[i]
      BY <1>2, <1>10, <2>1
    <3>2. i = 1 \/ i = 2 \/ i = 3
      BY <1>2, <2>1
    <3> QED
      BY <1>1, <1>4, <1>9, <3>1, <3>2 DEF n
  <2>2. CASE i > 3
    <3>1. i - 3 \in 1..n /\ (i - 3) + 3 = i /\ 3 + (i - 3) = i
      BY <1>2, <2>2
    <3>2. data[i] = payload[i - 3]
      BY <1>10, <3>1
    <3> QED
      BY <1>4, <1>8, <3>1, <3>2
  <2> QED
    BY <1>2, <2>1, <2>2
<1>12. data = d
  BY <1>3, <1>10, <1>11
<1>13. f[n + 4] = rtcm_crc24q(d)
  <2>1. Len(f) = n + 4 /\ Len(f) - CrcSize = n + 3
    BY <1>1, <1>2 DEF CrcSize, n
  <2> QED
    BY <2>1 DEF CrcHolds, d
<1>14. Framed(payload) = Append(data, rtcm_crc24q(data))
  BY <1>6 DEF Framed, data
<1> QED
  BY <1>3, <1>7, <1>12, <1>13, <1>14

-----------------------------------------------------------------------------
(* DamageIsContained.                                                      *)

LEMMA FramesAreShaped ==
  ASSUME NEW f \in Frames PROVE Shaped(f) /\ CrcHolds(f) /\ f \in Seq(Bytes)
<1>1. PICK payload \in Inputs(Bytes, MaxPayload) : f = Framed(payload)
  BY DEF Frames
<1>2. payload \in Inputs(Bytes, Preamble)
  <2>1. PICK k \in 0..MaxPayload : payload \in [1..k -> Bytes]
    BY DEF Inputs
  <2>2. k \in 0..Preamble
    BY ParserAssumption DEF Preamble
  <2> QED
    BY <2>1, <2>2 DEF Inputs
<1>3. Shaped(f) /\ CrcHolds(f)
  BY <1>1, <1>2, FramedFacts
<1> QED
  BY <1>3 DEF Shaped

LEMMA DamageIsSeen ==
  ASSUME NEW f, Shaped(f), CrcHolds(f), NEW d \in Damaged(f)
  PROVE  Shaped(d) /\ ~ CrcHolds(d)
<1> DEFINE n == Len(f)
<1>0. f \in Seq(Bytes) /\ n \in Nat /\ n >= 4
  BY DEF Shaped, HeaderSize, CrcSize
<1>1. /\ f \in Seq(Bytes) /\ n \in Nat /\ n >= 4
      /\ f[1] = Preamble /\ f[2] = 0 /\ f[3] \in 0..3 /\ n = f[3] + 4
  BY <1>0 DEF Shaped, HeaderSize, CrcSize, Bytes, Preamble
<1>2. PICK i \in 4..n : \E b \in Bytes : d = [f EXCEPT ![i] = b]
  BY DEF Damaged, HeaderSize
<1>3. PICK b \in Bytes : d = [f EXCEPT ![i] = b]
  BY <1>2
<1>4. d # f
  BY DEF Damaged
<1>5. d \in Seq(Bytes) /\ Len(d) = n
  BY <1>1, <1>3
<1>6. i \in 1..n /\ \A k \in 1..n : d[k] = IF k = i THEN b ELSE f[k]
  BY <1>1, <1>3
<1>7. d[i] # f[i]
  <2> SUFFICES ASSUME d[i] = f[i] PROVE FALSE
    OBVIOUS
  <2>1. \A k \in 1..n : d[k] = f[k]
    BY <1>6
  <2>2. d = f
    BY <1>1, <1>5, <2>1
  <2> QED
    BY <1>4, <2>2
<1>8. Shaped(d)
  <2>1. d[1] = f[1] /\ d[2] = f[2] /\ d[3] = f[3]
    BY <1>1, <1>6
  <2> HIDE DEF n
  <2> QED
    BY <1>1, <1>5, <2>1 DEF Shaped, HeaderSize, CrcSize
<1> DEFINE a == SubSeq(f, 1, n - 1)
           c == SubSeq(d, 1, n - 1)
<1>9. /\ a \in Seq(Bytes) /\ Len(a) = n - 1 /\ c \in Seq(Bytes) /\ Len(c) = n - 1
      /\ (\A k \in 1..n - 1 : a[k] = f[k]) /\ (\A k \in 1..n - 1 : c[k] = d[k])
  <2>1. n - 1 \in 1..Len(f) /\ n - 1 \in 1..Len(d)
    BY <1>1, <1>5
  <2>2. a \in Seq(Bytes) /\ Len(a) = n - 1 /\ c \in Seq(Bytes) /\ Len(c) = n - 1
    BY <1>1, <1>5, <2>1, PrefixGrows
  <2>3. \A k \in 1..n - 1 : a[k] = f[k]
    BY <1>1
  <2>4. \A k \in 1..n - 1 : c[k] = d[k]
    BY <1>1, <1>5
  <2> QED
    BY <2>2, <2>3, <2>4
<1>10. f[n] = rtcm_crc24q(a)
  BY DEF CrcHolds, CrcSize
<1>11. CrcHolds(d) <=> d[n] = rtcm_crc24q(c)
  BY <1>5 DEF CrcHolds, CrcSize
<1> HIDE DEF a, c, n
<1>12. CASE i = n
  <2>1. \A k \in 1..n - 1 : c[k] = a[k]
    BY <1>1, <1>6, <1>9, <1>12
  <2>2. a = c
    BY <1>1, <1>9, <2>1
  <2> QED
    BY <1>7, <1>8, <1>10, <1>11, <1>12, <2>2
<1>13. CASE i # n
  <2>1. i \in 1..n - 1 /\ n \in 1..n /\ n # i
    BY <1>1, <1>6, <1>13
  <2>2. \A k \in 1..n - 1 : k # i => a[k] = c[k]
    BY <1>1, <1>6, <1>9
  <2>3. a[i] # c[i]
    BY <1>7, <1>9, <2>1
  <2>4. rtcm_crc24q(a) # rtcm_crc24q(c)
    BY <1>9, <2>1, <2>2, <2>3, CrcTells
  <2>5. d[n] = f[n]
    BY <1>6, <2>1
  <2> QED
    BY <1>8, <1>10, <1>11, <2>4, <2>5
<1> QED
  BY <1>12, <1>13

LEMMA DamageContained == DamageIsContained
<1> SUFFICES ASSUME NEW f \in Frames, NEW g \in Frames, NEW d \in Damaged(f)
             PROVE  read_data_uart(d \o g) = <<g>>
  BY DEF DamageIsContained
<1>1. Shaped(f) /\ CrcHolds(f) /\ Shaped(g) /\ CrcHolds(g) /\ g \in Seq(Bytes)
  BY FramesAreShaped
<1>2. Shaped(d) /\ ~ CrcHolds(d) /\ d \in Seq(Bytes)
  <2>1. Shaped(d) /\ ~ CrcHolds(d)
    BY <1>1, DamageIsSeen
  <2> QED
    BY <2>1 DEF Shaped
<1>3. Takes(Parser(<<>>, 0, <<>>), d, Parser(<<>>, 0, <<>>))
  BY <1>2, FrameTaken
<1>4. Takes(Parser(<<>>, 0, <<>>), g, Parser(<<>>, 0, Append(<<>>, g)))
  BY <1>1, FrameTaken
<1>5. Takes(Start, d \o g, Parser(<<>>, 0, Append(<<>>, g)))
  BY <1>1, <1>2, <1>3, <1>4, TakesBoth DEF Start
<1>6. Len(d \o g) \in Nat
  BY <1>1, <1>2
<1>7. read_data_uart(d \o g) = Parser(<<>>, 0, Append(<<>>, g)).out
  BY <1>5, <1>6, ReadIs
<1>8. Append(<<>>, g) = <<g>>
  OBVIOUS
<1> QED
  BY <1>7, <1>8 DEF Parser

-----------------------------------------------------------------------------
(* AllFound.                                                               *)

\* What of a frame can be collected when no frame has begun.
NotBegun == {<<>>, <<Preamble>>}

LEMMA NoiseTaken ==
  ASSUME NEW noise \in Noise, NEW out
  PROVE  /\ noise \in Seq(Bytes)
         /\ \E F \in NotBegun : Takes(Parser(<<>>, 0, out), noise, Parser(F, 0, out))
<1> DEFINE p == Parser(<<>>, 0, out)
<1>1. noise = <<>> \/ \E b \in Bytes : noise = <<b>>
  <2>1. CASE noise \in Inputs(Bytes \ {Preamble}, 1)
    <3>1. PICK k \in 0..1 : noise \in [1..k -> Bytes \ {Preamble}]
      BY <2>1 DEF Inputs
    <3>2. noise \in Seq(Bytes \ {Preamble}) /\ Len(noise) = k
      BY <3>1, FunctionIsSeq
    <3>3. CASE k = 0
      BY <3>2, <3>3
    <3>4. CASE k = 1
      <4>1. noise[1] \in Bytes
        BY <3>1, <3>4
      <4>2. noise = <<noise[1]>>
        BY <3>2, <3>4
      <4> QED
        BY <4>1, <4>2
    <3> QED
      BY <3>3, <3>4
  <2>2. CASE noise = <<Preamble>>
    BY <2>2 DEF Bytes, Preamble
  <2> QED
    BY <2>1, <2>2 DEF Noise
<1>2. CASE noise = <<>>
  <2>1. Takes(p, noise, p)
    BY <1>2, TakesNone
  <2> QED
    BY <1>2, <2>1 DEF NotBegun
<1>3. ASSUME NEW b \in Bytes, noise = <<b>>
      PROVE  /\ noise \in Seq(Bytes)
             /\ \E F \in NotBegun : Takes(p, noise, Parser(F, 0, out))
  <2>1. Takes(p, noise, feed_rtcm_byte(p, b))
    BY <1>3, TakesOne
  <2>2. p.frame = <<>> /\ p.out = out
    BY DEF Parser
  <2>3. Append(p.frame, b) = <<b>> /\ Len(<<b>>) = 1
    <3> HIDE DEF p
    <3>1. Append(<<>>, b) = <<b>> /\ Len(<<b>>) = 1
      OBVIOUS
    <3> QED
      BY <2>2, <3>1
  <2>4. feed_rtcm_byte(p, b) = IF b = Preamble THEN Parser(<<b>>, 0, out) ELSE p
    <3> HIDE DEF p
    <3> QED
      BY <2>2, <2>3 DEF feed_rtcm_byte
  <2>5. noise \in Seq(Bytes)
    BY <1>3
  <2>6. CASE b = Preamble
    BY <2>1, <2>4, <2>5, <2>6 DEF NotBegun
  <2>7. CASE b # Preamble
    BY <2>1, <2>4, <2>5, <2>7 DEF NotBegun
  <2> QED
    BY <2>6, <2>7
<1> HIDE DEF p
<1> QED
  BY <1>1, <1>2, <1>3 DEF p

LEMMA StreamsAre ==
  \A k \in 0..MaxStream : Streams[k] = IF k = 0 THEN NoiseOnly ELSE OneMore(Streams[k - 1])
<1> DEFINE Whole(g, n) == g = [k \in 0..n |-> IF k = 0 THEN NoiseOnly ELSE OneMore(g[k - 1])]
<1>1. \A n \in Nat : \E g : Whole(g, n)
  <2> DEFINE T == {n \in Nat : ~ \E g : Whole(g, n)}
  <2> SUFFICES ASSUME T # {} PROVE FALSE
    OBVIOUS
  <2>1. PICK n \in T : \A m \in T : n <= m
    <3> HIDE DEF Whole
    <3> QED
      BY LeastNumber
  <2>2. CASE n = 0
    <3> DEFINE g == [k \in 0..0 |-> NoiseOnly]
    <3>1. Whole(g, 0)
      OBVIOUS
    <3> QED
      BY <2>2, <3>1
  <2>3. CASE n # 0
    <3>1. n - 1 \in Nat /\ n - 1 \notin T
      <4>1. n \in Nat
        OBVIOUS
      <4> HIDE DEF T
      <4> QED
        BY <2>1, <2>3, <4>1
    <3>2. PICK f : Whole(f, n - 1)
      BY <3>1
    <3> DEFINE g == [k \in 0..n |-> IF k < n THEN f[k] ELSE OneMore(f[n - 1])]
    <3>3. ASSUME NEW k \in 0..n
          PROVE  g[k] = IF k = 0 THEN NoiseOnly ELSE OneMore(g[k - 1])
      <4>1. CASE k = n
        <5>1. n - 1 \in 0..n /\ g[n - 1] = f[n - 1] /\ g[n] = OneMore(f[n - 1])
          BY <3>1
        <5> QED
          BY <2>3, <4>1, <5>1
      <4>2. CASE k < n
        <5>1. k \in 0..n - 1 /\ g[k] = f[k]
          BY <3>1, <4>2
        <5>2. f[k] = IF k = 0 THEN NoiseOnly ELSE OneMore(f[k - 1])
          BY <3>2, <5>1
        <5>3. k # 0 => k - 1 \in 0..n /\ g[k - 1] = f[k - 1]
          BY <3>1, <4>2
        <5> HIDE DEF g
        <5> QED
          BY <5>1, <5>2, <5>3
      <4> QED
        BY <3>1, <4>1, <4>2
    <3>4. g = [k \in 0..n |-> g[k]]
      OBVIOUS
    <3> HIDE DEF g
    <3>5. Whole(g, n)
      BY <3>3, <3>4
    <3> QED
      BY <3>5
  <2> QED
    BY <2>2, <2>3
<1>2. PICK g : Whole(g, MaxStream)
  BY <1>1, ParserAssumption
<1>3. Whole(Streams, MaxStream)
  BY <1>2 DEF Streams
<1> QED
  BY <1>3

\* The parser is through with all frames of a stream.
Read(s) ==
    /\ s.bytes \in Seq(Bytes)
    /\ \E F \in NotBegun : Takes(Start, s.bytes, Parser(F, 0, s.frames))

LEMMA ReadMore ==
  ASSUME NEW s, Read(s), NEW f \in Frames, NEW noise \in Noise
  PROVE  Read(Longer(s, f, noise))
<1> DEFINE out == Append(s.frames, f)
<1>1. PICK F \in NotBegun : Takes(Start, s.bytes, Parser(F, 0, s.frames))
  BY DEF Read
<1>2. Shaped(f) /\ CrcHolds(f) /\ f \in Seq(Bytes) /\ s.bytes \in Seq(Bytes)
  BY FramesAreShaped DEF Read
<1>3. Takes(Parser(F, 0, s.frames), f, Parser(<<>>, 0, out))
  BY <1>2, FrameTaken DEF NotBegun
<1>4. Takes(Start, s.bytes \o f, Parser(<<>>, 0, out)) /\ s.bytes \o f \in Seq(Bytes)
  BY <1>1, <1>2, <1>3, TakesBoth
<1>5. noise \in Seq(Bytes)
  BY NoiseTaken
<1>6. PICK G \in NotBegun : Takes(Parser(<<>>, 0, out), noise, Parser(G, 0, out))
  BY NoiseTaken
<1> DEFINE a == s.bytes \o f
<1> HIDE DEF a, out
<1>8. Takes(Start, a, Parser(<<>>, 0, out)) /\ a \in Seq(Bytes)
  BY <1>4 DEF a
<1>7. Takes(Start, a \o noise, Parser(G, 0, out)) /\ a \o noise \in Seq(Bytes)
  BY <1>8, <1>5, <1>6, TakesBoth
<1> QED
  BY <1>7 DEF Read, Longer, out, a

LEMMA StreamsRead == \A k \in 0..MaxStream : \A s \in Streams[k] : Read(s)
<1> DEFINE T == {k \in 0..MaxStream : ~ \A s \in Streams[k] : Read(s)}
<1> SUFFICES ASSUME T # {} PROVE FALSE
  OBVIOUS
<1>1. PICK k \in T : \A m \in T : k <= m
  <2>1. T \in SUBSET Nat
    BY ParserAssumption
  <2> HIDE DEF T
  <2> QED
    BY <2>1, LeastNumber
<1>2. CASE k = 0
  <2>1. ASSUME NEW noise \in Noise PROVE Read([bytes |-> noise, frames |-> <<>>])
    BY NoiseTaken DEF Read, Start
  <2>2. Streams[k] = NoiseOnly
    BY <1>2, StreamsAre
  <2> QED
    BY <2>1, <2>2 DEF NoiseOnly
<1>3. CASE k # 0
  <2>1. k - 1 \in 0..MaxStream /\ k - 1 \notin T
    BY <1>1, <1>3, ParserAssumption
  <2>2. \A s \in Streams[k - 1] : Read(s)
    BY <2>1
  <2>3. Streams[k] = OneMore(Streams[k - 1])
    BY <1>3, StreamsAre
  <2>4. ASSUME NEW s \in Streams[k] PROVE Read(s)
    <3>1. PICK r \in Streams[k - 1], f \in Frames, noise \in Noise : s = Longer(r, f, noise)
      BY <2>3 DEF OneMore
    <3> QED
      BY <2>2, <3>1, ReadMore
  <2> QED
    BY <2>4
<1> QED
  BY <1>2, <1>3

LEMMA StreamsFound == \A k \in 0..MaxStream : AllFound[k]
<1>1. ASSUME NEW k \in 0..MaxStream, NEW s \in Streams[k] PROVE read_data_uart(s.bytes) = s.frames
  <2>1. Read(s)
    BY StreamsRead
  <2>2. PICK F \in NotBegun : Takes(Start, s.bytes, Parser(F, 0, s.frames))
    BY <2>1 DEF Read
  <2>3. Len(s.bytes) \in Nat
    BY <2>1 DEF Read
  <2>4. read_data_uart(s.bytes) = Parser(F, 0, s.frames).out
    BY <2>2, <2>3, ReadIs
  <2> QED
    BY <2>4 DEF Parser
<1> QED
  BY <1>1 DEF AllFound

-----------------------------------------------------------------------------
(* OnlyFrames, from an invariant of the parser.                            *)

IsFrame(f) == \E payload \in Inputs(Bytes, Preamble) : f = Framed(payload)
Published(out) == out \in Seq({f \in Seq(Bytes) : IsFrame(f)})

\* What is collected may still become a frame, and is not one yet.
Collecting(p) ==
    /\ p = Parser(p.frame, p.expected, p.out) /\ Published(p.out)
    /\ p.frame \in Seq(Bytes)
    /\ Len(p.frame) >= 1 => p.frame[1] = Preamble
    /\ Len(p.frame) >= 2 => p.frame[2] = 0
    /\ Len(p.frame) >= 3 => p.expected = p.frame[3] + HeaderSize + CrcSize /\ Len(p.frame) < p.expected

LEMMA Started ==
  ASSUME NEW out, Published(out), NEW F \in NotBegun, NEW e
  PROVE  Collecting(Parser(F, e, out))
<1> DEFINE p == Parser(F, e, out)
<1>1. p.frame = F /\ p.expected = e /\ p.out = out
  BY DEF Parser
<1>2. Preamble \in Bytes
  BY DEF Bytes, Preamble
<1>3. <<Preamble>> \in Seq(Bytes) /\ Len(<<Preamble>>) = 1 /\ <<Preamble>>[1] = Preamble
  BY <1>2
<1>4. <<>> \in Seq(Bytes) /\ Len(<<>>) = 0
  OBVIOUS
<1>5. p = Parser(p.frame, p.expected, p.out)
  BY <1>1
<1> HIDE DEF p
<1>6. CASE F = <<>>
  BY <1>1, <1>4, <1>5, <1>6 DEF Collecting, p
<1>7. CASE F = <<Preamble>>
  BY <1>1, <1>3, <1>5, <1>7 DEF Collecting, p
<1> QED
  BY <1>6, <1>7 DEF NotBegun

LEMMA CollectingStep ==
  ASSUME NEW p, Collecting(p), NEW b \in Bytes
  PROVE  Collecting(feed_rtcm_byte(p, b))
<1> DEFINE f == Append(p.frame, b)
           n == Len(p.frame)
           expected == b + HeaderSize + CrcSize
<1>1. p.frame \in Seq(Bytes) /\ n \in Nat /\ Published(p.out) /\ p = Parser(p.frame, p.expected, p.out)
  BY DEF Collecting
<1>2. /\ f \in Seq(Bytes) /\ Len(f) = n + 1 /\ f[n + 1] = b
      /\ \A i \in 1..n : f[i] = p.frame[i]
  BY <1>1
<1>3. <<>> \in NotBegun /\ <<Preamble>> \in NotBegun
  BY DEF NotBegun
<1>4. /\ n >= 1 => f[1] = Preamble
      /\ n >= 2 => f[2] = 0
      /\ n >= 3 => p.expected = f[3] + HeaderSize + CrcSize /\ n < p.expected
  BY <1>1, <1>2 DEF Collecting
<1>5. /\ feed_rtcm_byte(p, b) =
         CASE Len(f) = 1 -> IF b = Preamble THEN Parser(f, 0, p.out) ELSE p
           [] Len(f) = 2 -> IF reserved_clear(b) THEN Parser(f, 0, p.out)
                            ELSE Parser(IF b = Preamble THEN <<b>> ELSE <<>>, 0, p.out)
           [] Len(f) = 3 -> IF expected > BufferSize THEN reset_rtcm_parser(p) ELSE Parser(f, expected, p.out)
           [] OTHER -> IF Len(f) < p.expected THEN Parser(f, p.expected, p.out) ELSE end_of_frame(p, f)
  BY DEF feed_rtcm_byte
<1>6. ASSUME NEW e PROVE Parser(f, e, p.out).frame = f /\ Parser(f, e, p.out).expected = e
                         /\ Parser(f, e, p.out).out = p.out
  BY DEF Parser
<1> HIDE DEF f, n, expected
<1>7. CASE n = 0
  <2>1. Len(f) = 1 /\ f[1] = b
    BY <1>2, <1>7
  <2>2. CASE b = Preamble
    <3>1. feed_rtcm_byte(p, b) = Parser(f, 0, p.out)
      BY <1>5, <2>1, <2>2
    <3> QED
      BY <1>1, <1>2, <1>6, <2>1, <2>2, <3>1 DEF Collecting
  <2>3. CASE b # Preamble
    <3>1. feed_rtcm_byte(p, b) = p
      BY <1>5, <2>1, <2>3
    <3> QED
      BY <3>1
  <2> QED
    BY <2>2, <2>3
<1>8. CASE n = 1
  <2>1. Len(f) = 2 /\ f[2] = b /\ f[1] = Preamble
    BY <1>2, <1>4, <1>8
  <2>2. CASE reserved_clear(b)
    <3>1. feed_rtcm_byte(p, b) = Parser(f, 0, p.out)
      BY <1>5, <2>1, <2>2
    <3>2. f[2] = 0
      BY <2>1, <2>2 DEF reserved_clear
    <3> DEFINE q == Parser(f, 0, p.out)
    <3>3. q.frame = f /\ q.expected = 0 /\ q.out = p.out /\ q = Parser(q.frame, q.expected, q.out)
      BY <1>6
    <3> HIDE DEF q
    <3>4. Collecting(q)
      <4>1. f \in Seq(Bytes) /\ Published(p.out)
        BY <1>1, <1>2
      <4>2. ~ (Len(f) >= 3)
        BY <2>1
      <4> QED
        BY <2>1, <3>2, <3>3, <4>1, <4>2 DEF Collecting
    <3> QED
      BY <3>1, <3>4 DEF q
  <2>3. CASE ~ reserved_clear(b)
    <3> DEFINE F == IF b = Preamble THEN <<b>> ELSE <<>>
    <3>1. feed_rtcm_byte(p, b) = Parser(F, 0, p.out)
      BY <1>5, <2>1, <2>3
    <3>2. F \in NotBegun
      BY <1>3
    <3> HIDE DEF F
    <3> QED
      BY <1>1, <3>1, <3>2, Started
  <2> QED
    BY <2>2, <2>3
<1>9. CASE n = 2
  <2>1. Len(f) = 3 /\ f[3] = b /\ f[1] = Preamble /\ f[2] = 0
    BY <1>2, <1>4, <1>9
  <2>2. ~ (expected > BufferSize) /\ Len(f) < expected /\ expected = f[3] + HeaderSize + CrcSize
    BY <2>1 DEF expected, BufferSize, HeaderSize, CrcSize, Bytes, Preamble
  <2>3. feed_rtcm_byte(p, b) = Parser(f, expected, p.out)
    BY <1>5, <2>1, <2>2
  <2> QED
    BY <1>1, <1>2, <1>6, <2>1, <2>2, <2>3 DEF Collecting
<1>10. CASE n >= 3
  <2>1. /\ Len(f) # 1 /\ Len(f) # 2 /\ Len(f) # 3 /\ Len(f) >= 3
        /\ f[1] = Preamble /\ f[2] = 0 /\ p.expected = f[3] + HeaderSize + CrcSize /\ n < p.expected
    BY <1>1, <1>2, <1>4, <1>10
  <2>2. feed_rtcm_byte(p, b) = IF Len(f) < p.expected THEN Parser(f, p.expected, p.out) ELSE end_of_frame(p, f)
    BY <1>5, <2>1
  <2>3. CASE Len(f) < p.expected
    <3>1. feed_rtcm_byte(p, b) = Parser(f, p.expected, p.out)
      BY <2>2, <2>3
    <3> QED
      BY <1>1, <1>2, <1>6, <2>1, <2>3, <3>1 DEF Collecting
  <2>4. CASE ~ (Len(f) < p.expected)
    <3> DEFINE out == IF CrcHolds(f) THEN Append(p.out, f) ELSE p.out
    <3>1. feed_rtcm_byte(p, b) = Parser(<<>>, 0, out)
      <4>1. feed_rtcm_byte(p, b) = end_of_frame(p, f)
        BY <2>2, <2>4
      <4>2. [p EXCEPT !.out = IF CrcHolds(f) THEN Append(@, f) ELSE @].out = out
        BY <1>1 DEF Parser
      <4> QED
        BY <4>1, <4>2 DEF end_of_frame, reset_rtcm_parser
    <3>2. Shaped(f)
      <4>1. f[3] \in 0..3
        BY <1>2, <2>1 DEF Bytes, Preamble
      <4>2. p.expected = f[3] + 4
        BY <2>1, <4>1 DEF HeaderSize, CrcSize
      <4>3. Len(f) = f[3] + 4
        BY <1>1, <1>2, <2>1, <2>4, <4>1, <4>2
      <4>4. f[3] + HeaderSize + CrcSize = f[3] + 4 /\ HeaderSize + CrcSize = 4
        BY <4>1 DEF HeaderSize, CrcSize
      <4>5. Len(f) >= 4
        BY <4>1, <4>3
      <4> QED
        BY <1>2, <2>1, <4>3, <4>4, <4>5 DEF Shaped
    <3>3. CrcHolds(f) => IsFrame(f)
      BY <3>2, ShapedIsFramed DEF IsFrame
    <3>4. Published(out)
      <4>1. CASE CrcHolds(f)
        <5>1. f \in {h \in Seq(Bytes) : IsFrame(h)}
          BY <1>2, <3>3, <4>1
        <5> QED
          BY <1>1, <4>1, <5>1 DEF Published
      <4>2. CASE ~ CrcHolds(f)
        BY <1>1, <4>2
      <4> QED
        BY <4>1, <4>2
    <3> HIDE DEF out
    <3> QED
      BY <1>3, <3>1, <3>4, Started
  <2> QED
    BY <2>3, <2>4
<1> QED
  BY <1>1, <1>7, <1>8, <1>9, <1>10

LEMMA AnyInput ==
  \A n \in Nat : \A s \in [1..n -> Bytes] : \E p : Collecting(p) /\ Takes(Start, s, p)
<1> DEFINE T == {n \in Nat : ~ \A s \in [1..n -> Bytes] : \E p : Collecting(p) /\ Takes(Start, s, p)}
<1> SUFFICES ASSUME T # {} PROVE FALSE
  OBVIOUS
<1>1. PICK n \in T : \A m \in T : n <= m
  <2>1. T \in SUBSET Nat
    OBVIOUS
  <2> HIDE DEF T
  <2> QED
    BY <2>1, LeastNumber
<1>2. PICK s \in [1..n -> Bytes] : ~ \E p : Collecting(p) /\ Takes(Start, s, p)
  OBVIOUS
<1>3. s \in Seq(Bytes) /\ Len(s) = n
  BY FunctionIsSeq
<1>4. CASE n = 0
  <2>1. s = <<>>
    BY <1>3, <1>4
  <2>2. Takes(Start, s, Start)
    BY <2>1, TakesNone
  <2>3. Published(<<>>)
    BY DEF Published
  <2>4. Collecting(Start)
    BY <2>3, Started DEF Start, NotBegun
  <2> QED
    BY <1>2, <2>2, <2>4
<1>5. CASE n # 0
  <2> DEFINE a == SubSeq(s, 1, n - 1)
             b == s[n]
  <2>1. n - 1 \in Nat /\ n - 1 \notin T
    <3>1. n \in Nat
      OBVIOUS
    <3> HIDE DEF T
    <3> QED
      BY <1>1, <1>5, <3>1
  <2>2. n \in 1..Len(s) /\ b \in Bytes
    BY <1>3, <1>5
  <2>3. a \in [1..n - 1 -> Bytes] /\ a \in Seq(Bytes)
    <3>1. a \in Seq(Bytes) /\ Len(a) = n - 1
      BY <1>3, <2>1
    <3> HIDE DEF a
    <3> QED
      BY <2>1, <3>1
  <2>4. \A r \in [1..n - 1 -> Bytes] : \E p : Collecting(p) /\ Takes(Start, r, p)
    BY <2>1
  <2>5. s = a \o <<b>>
    <3>1. SubSeq(s, 1, n) = Append(a, b)
      BY <1>3, <2>2, PrefixGrows
    <3>2. SubSeq(s, 1, n) = s
      BY <1>3
    <3> HIDE DEF a, b
    <3>3. Append(a, b) = a \o <<b>>
      BY <2>2, <2>3
    <3> QED
      BY <3>1, <3>2, <3>3
  <2> HIDE DEF a, b
  <2>6. PICK p : Collecting(p) /\ Takes(Start, a, p)
    BY <2>3, <2>4
  <2>7. Collecting(feed_rtcm_byte(p, b)) /\ Takes(p, <<b>>, feed_rtcm_byte(p, b))
    BY <2>2, <2>6, CollectingStep, TakesOne
  <2>8. <<b>> \in Seq(Bytes)
    BY <2>2
  <2>9. Takes(Start, a \o <<b>>, feed_rtcm_byte(p, b))
    BY <2>3, <2>6, <2>7, <2>8, TakesBoth
  <2> QED
    BY <1>2, <2>5, <2>7, <2>9
<1> QED
  BY <1>4, <1>5

LEMMA NothingElse == OnlyFrames
<1> SUFFICES ASSUME NEW input \in Inputs(Bytes, MaxInput), NEW i \in DOMAIN read_data_uart(input)
             PROVE  IsFrame(read_data_uart(input)[i])
  BY DEF OnlyFrames, IsFrame
<1>1. PICK n \in 0..MaxInput : input \in [1..n -> Bytes]
  BY DEF Inputs
<1>2. n \in Nat /\ Len(input) \in Nat
  <2>1. n \in Nat
    BY ParserAssumption
  <2> QED
    BY <1>1, <2>1, FunctionIsSeq
<1>3. PICK p : Collecting(p) /\ Takes(Start, input, p)
  BY <1>1, <1>2, AnyInput
<1>4. read_data_uart(input) = p.out
  BY <1>2, <1>3, ReadIs
<1>5. read_data_uart(input) \in Seq({f \in Seq(Bytes) : IsFrame(f)})
  BY <1>3, <1>4 DEF Collecting, Published
<1> DEFINE out == read_data_uart(input)
<1>6. \A G : \A o \in Seq(G) : \A j \in DOMAIN o : o[j] \in G
  OBVIOUS
<1>7. read_data_uart(input)[i] \in {f \in Seq(Bytes) : IsFrame(f)}
  BY <1>5, <1>6
<1> QED
  BY <1>7

-----------------------------------------------------------------------------
\* feed_rtcm_byte(), on its way from bytes to frames: in a stream of any
\* number of frames with noise between them each frame is found; a frame
\* damaged behind its header is dropped and the next one found; and whatever
\* the input, what is published was framed.
THEOREM ParserFindsFrames == Spec => []FramesAreFound
<1>1. TypeOK => FramesAreFound
  <2>1. ASSUME frames \in 0..MaxFrames, frames <= MaxStream PROVE AllFound[frames]
    <3>1. frames \in 0..MaxStream
      BY <2>1, CorrectionsAssumption, ParserAssumption
    <3> QED
      BY <3>1, StreamsFound
  <2> QED
    BY <2>1, DamageContained, NothingElse DEF TypeOK, FramesAreFound
<1>2. Spec => []TypeOK
  BY SlotsStayConsistent, PTL DEF SlotsConsistent
<1> QED
  BY <1>1, <1>2, PTL
=============================================================================
