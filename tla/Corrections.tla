---------------------------- MODULE Corrections -----------------------------
(***************************************************************************)
(* From an RTCM frame to the casters: the correction slots and their flush *)
(* to the push clients, and the local batch, queue and clients of          *)
(* LocalCaster.  BaseStation fills and flushes on its own task; the        *)
(* "local_ntrip" task serves the clients; other tasks suspend the caster   *)
(* at any time.                                                            *)
(*                                                                         *)
(* A frame that RtcmParser found is the number of its publication.  Times  *)
(* are left out: a flush is due whenever the model likes.                  *)
(***************************************************************************)
EXTENDS RtcmParser, FiniteSets

CONSTANTS
    Messages,        \* RTCM message numbers
    Dests,           \* the push clients
    Slots,           \* kMaxCorrectionSlots
    FramesPerBatch,  \* kMaxFramesPerBatch
    QueueDepth,      \* LocalCaster::kQueueDepth
    Clients,         \* clients of the local caster, kMaxClients at most
    MaxFrames,       \* bound on the frames published
    MaxFlips,        \* bound on the changes of readiness and of mode
    MaxSuspends      \* bound on the calls of set_suspended()

ASSUME CorrectionsAssumption ==
    /\ Messages # {} /\ Slots \in Nat /\ FramesPerBatch \in Nat \ {0}
    /\ MaxFrames \in Nat /\ MaxFlips \in Nat /\ MaxSuspends \in Nat
    /\ QueueDepth \in Nat /\ FramesPerBatch < QueueDepth

VARIABLES
    frames,            \* frames published so far
    newest,            \* the newest version of each message
    slots,             \* correction_slots_
    took,              \* the version each push client took last of each message
    ready,             \* which push clients are connected and not suspended
    batch,             \* local_batch_
    push,              \* where BaseStation is in flush_batch_frames() and LocalCaster::push()
    queue,             \* LocalCaster::queue_
    suspended, reset,  \* suspended_, reset_clients_
    storing,           \* a set_suspended() between its two stores
    listener, clients, \* listener_ is open; clients_
    loop, packet,      \* where LocalCaster::run() is, and the packet it received
    flips, suspends,   \* counters of the bounds
    ghost              \* what the properties remember

slotVars == <<newest, slots, took>>
local == <<suspended, reset, storing, listener, clients, loop, packet, suspends>>
vars == <<frames, slotVars, ready, batch, push, queue, local, flips, ghost>>

SlotIds == 1..Slots
Free == [used |-> FALSE, message |-> CHOOSE m \in Messages : TRUE, version |-> 0, sent |-> {}]
Idle == [at |-> "idle", frame |-> 0, next |-> 0]

Init ==
    /\ frames = 0
    /\ newest = [m \in Messages |-> 0]
    /\ slots = [i \in SlotIds |-> Free]
    /\ took = [d \in Dests |-> [m \in Messages |-> 0]]
    /\ ready = [d \in Dests |-> FALSE]
    /\ batch = <<>> /\ push = Idle /\ queue = <<>>
    /\ suspended = TRUE /\ reset = FALSE /\ storing = FALSE
    /\ listener = FALSE /\ clients = {} /\ loop = "top" /\ packet = 0
    /\ flips = 0 /\ suspends = 0
    /\ ghost = [stale |-> {}, old |-> {}, armed |-> TRUE, overlap |-> FALSE,
                empty |-> TRUE, dropped |-> FALSE]

-----------------------------------------------------------------------------
(* BaseStation: slots, batch and flushes                                   *)

\* publish_to_corrections(): the slot of this message, else the first free
\* one, else the frame is dropped for the push clients.
SlotsOf(m) == {i \in SlotIds : slots[i].used /\ slots[i].message = m}
FreeSlots == {i \in SlotIds : ~slots[i].used}
First(S) == CHOOSE i \in S : \A j \in S : i <= j
Candidates_FreeFirst(m) == IF FreeSlots # {} THEN FreeSlots ELSE SlotsOf(m)
Candidates(m) == IF SlotsOf(m) # {} THEN SlotsOf(m) ELSE FreeSlots
publish_to_corrections(m) ==
    /\ newest' = [newest EXCEPT ![m] = @ + 1]
    /\ slots' = IF Candidates(m) = {} THEN slots
                ELSE [slots EXCEPT ![First(Candidates(m))] =
                        [used |-> TRUE, message |-> m, version |-> newest[m] + 1, sent |-> {}]]
    /\ UNCHANGED took

\* publish_to_batch(): the batch is flushed first when it has no room for the
\* frame, by count or by bytes.
frames_full == Len(batch) >= FramesPerBatch
Flushing(next) ==
    /\ push' = [at |-> "flush", frame |-> 0, next |-> next]
    /\ ghost' = [ghost EXCEPT !.empty = queue = <<>>]
publish_to_batch(f) ==
    \/ /\ ~frames_full
       /\ batch' = Append(batch, f)
       /\ UNCHANGED <<push, ghost>>
    \/ /\ batch # <<>>
       /\ Flushing(f) /\ UNCHANGED batch

\* A frame with a good CRC.
publish_rtcm_frame(m) ==
    /\ push = Idle /\ frames < MaxFrames
    /\ frames' = frames + 1
    /\ publish_to_corrections(m)
    /\ publish_to_batch(frames + 1)
    /\ UNCHANGED <<ready, queue, local, flips>>

flush_due_batch ==
    /\ push = Idle /\ batch # <<>>
    /\ Flushing(0)
    /\ UNCHANGED <<frames, slotVars, ready, batch, queue, local, flips>>

\* flush_batch_frames(): one frame after the other to LocalCaster::push(),
\* which looks at suspended_ before it queues.
push_check ==
    /\ push.at = "flush" /\ batch # <<>>
    /\ batch' = Tail(batch)
    /\ push' = IF suspended THEN push ELSE [push EXCEPT !.at = "send", !.frame = Head(batch)]
    /\ UNCHANGED <<frames, slotVars, ready, queue, local, flips, ghost>>

push_send ==
    /\ push.at = "send"
    /\ push' = [push EXCEPT !.at = "flush", !.frame = 0]
    /\ \/ /\ Len(queue) < QueueDepth
          /\ queue' = Append(queue, push.frame)
          /\ UNCHANGED ghost
       \/ /\ Len(queue) = QueueDepth
          /\ ghost' = [ghost EXCEPT !.dropped = @ \/ ghost.empty]
          /\ UNCHANGED queue
    /\ UNCHANGED <<frames, slotVars, ready, batch, local, flips>>

flush_done ==
    /\ push.at = "flush" /\ batch = <<>>
    /\ batch' = IF push.next = 0 THEN <<>> ELSE <<push.next>>
    /\ push' = Idle
    /\ ghost' = [ghost EXCEPT !.empty = TRUE]
    /\ UNCHANGED <<frames, slotVars, ready, queue, local, flips>>

\* flush_destination_if_due(): every slot the client does not have yet is
\* offered, and is done with when the client took it.
Pending(d) == {i \in SlotIds : slots[i].used /\ d \notin slots[i].sent}
taken_Always(d, S) == [i \in SlotIds |-> IF i \in Pending(d) THEN [slots[i] EXCEPT !.sent = @ \cup {d}]
                                                             ELSE slots[i]]
taken(d, S) == [i \in SlotIds |-> IF i \in S THEN [slots[i] EXCEPT !.sent = @ \cup {d}] ELSE slots[i]]
TakenVersions(d, S) ==
    [m \in Messages |-> IF \E i \in S : slots[i].message = m
                        THEN slots[CHOOSE i \in S : slots[i].message = m].version ELSE took[d][m]]
flush_destination_if_due(d) ==
    LET S == IF ready[d] THEN Pending(d) ELSE {} IN
    /\ push = Idle
    /\ slots' = taken(d, S)
    /\ took' = [took EXCEPT ![d] = TakenVersions(d, S)]
    /\ UNCHANGED <<frames, newest, ready, batch, push, queue, local, flips, ghost>>

\* The client goes down between two slots of a flush.
flush_cut(d, S) ==
    /\ push = Idle /\ ready[d] /\ flips < MaxFlips
    /\ ready' = [ready EXCEPT ![d] = FALSE]
    /\ flips' = flips + 1
    /\ slots' = taken(d, S)
    /\ took' = [took EXCEPT ![d] = TakenVersions(d, S)]
    /\ UNCHANGED <<frames, newest, batch, push, queue, local, ghost>>

ClientFlips(d) ==
    /\ flips < MaxFlips /\ flips' = flips + 1
    /\ ready' = [ready EXCEPT ![d] = ~@]
    /\ UNCHANGED <<frames, slotVars, batch, push, queue, local, ghost>>

\* reset_rtcm_state(), on every change of mode.
reset_rtcm_state ==
    /\ push = Idle /\ flips < MaxFlips /\ flips' = flips + 1
    /\ batch' = <<>>
    /\ slots' = [i \in SlotIds |-> Free]
    /\ UNCHANGED <<frames, newest, took, ready, push, queue, local, ghost>>

-----------------------------------------------------------------------------
(* LocalCaster                                                             *)

baseVars == <<frames, slotVars, ready, batch, push>>

\* set_suspended(): two stores when the caster is suspended.
set_suspended(b) ==
    /\ suspends < MaxSuspends /\ suspends' = suspends + 1
    /\ suspended # b /\ (b => ~storing)
    /\ suspended' = b
    /\ storing' = (b \/ storing)
    /\ ghost' = IF b THEN [ghost EXCEPT !.stale = {queue[i] : i \in DOMAIN queue}, !.old = clients,
                                        !.armed = loop = "top", !.overlap = FALSE]
                     ELSE [ghost EXCEPT !.overlap = @ \/ storing]
    /\ UNCHANGED <<baseVars, flips, queue, reset, listener, clients, loop, packet>>

store_reset_Never ==
    /\ storing
    /\ storing' = FALSE
    /\ UNCHANGED <<baseVars, queue, suspended, reset, listener, clients, loop, packet, flips, suspends, ghost>>
store_reset ==
    /\ storing
    /\ storing' = FALSE /\ reset' = TRUE
    /\ UNCHANGED <<baseVars, queue, suspended, listener, clients, loop, packet, flips, suspends, ghost>>

close_clients == clients' = {} /\ queue' = <<>>
Top == loop' = "top" /\ packet' = 0

\* run() at the top of its loop: suspended, everything is closed.
run_suspended_KeepsClients ==
    /\ loop = "top" /\ suspended
    /\ listener' = FALSE /\ queue' = <<>>
    /\ UNCHANGED <<baseVars, suspended, reset, storing, clients, loop, packet, flips, suspends, ghost>>
run_suspended ==
    /\ loop = "top" /\ suspended
    /\ close_clients /\ listener' = FALSE
    /\ ghost' = [ghost EXCEPT !.old = {}]
    /\ UNCHANGED <<baseVars, suspended, reset, storing, loop, packet, flips, suspends>>

\* Not suspended: a reset closes the clients, and the listener is opened, or
\* the loop waits to try again.
run_active ==
    /\ loop = "top" /\ ~suspended
    /\ reset' = FALSE
    /\ IF reset THEN close_clients /\ ghost' = [ghost EXCEPT !.old = {}]
                ELSE UNCHANGED <<clients, queue, ghost>>
    /\ \/ listener' = TRUE /\ loop' = "accept"
       \/ ~listener /\ listener' = FALSE /\ loop' = "top"
    /\ UNCHANGED <<baseVars, suspended, storing, packet, flips, suspends>>

\* accept_client(): nobody, somebody who is not given a place, or a client.
accept_client ==
    /\ loop = "accept"
    /\ clients' \in {clients} \cup {clients \cup {c} : c \in Clients}
    /\ loop' = "recv"
    /\ UNCHANGED <<baseVars, queue, suspended, reset, storing, listener, packet, flips, suspends, ghost>>

run_receive ==
    /\ loop = "recv"
    /\ \/ /\ queue # <<>>
          /\ packet' = Head(queue) /\ queue' = Tail(queue) /\ loop' = "send"
          /\ UNCHANGED ghost
       \/ /\ queue = <<>>
          /\ Top
          /\ ghost' = [ghost EXCEPT !.armed = TRUE]
          /\ UNCHANGED queue
    /\ UNCHANGED <<baseVars, suspended, reset, storing, listener, clients, flips, suspends>>

\* broadcast(): a client that does not take the whole packet is closed.
broadcast ==
    /\ loop = "send" /\ Top
    /\ \E gone \in SUBSET clients :
          /\ clients' = clients \ gone
          /\ ghost' = [ghost EXCEPT !.armed = TRUE, !.old = @ \ gone]
    /\ UNCHANGED <<baseVars, queue, suspended, reset, storing, listener, flips, suspends>>

-----------------------------------------------------------------------------
BaseStationPushes == push_check \/ push_send \/ flush_done
LocalCasterRuns == run_suspended \/ run_active \/ accept_client \/ run_receive \/ broadcast

Next ==
    \/ flush_due_batch \/ BaseStationPushes \/ reset_rtcm_state
    \/ \E m \in Messages : publish_rtcm_frame(m)
    \/ \E d \in Dests : flush_destination_if_due(d) \/ ClientFlips(d)
    \/ \E d \in Dests : \E S \in SUBSET Pending(d) : flush_cut(d, S)
    \/ \E b \in BOOLEAN : set_suspended(b)
    \/ store_reset \/ LocalCasterRuns

\* The tasks keep running: a flush falls due every kRtcmBatchUs, and run()
\* never waits longer than its delays.
Spec ==
    /\ Init /\ [][Next]_vars
    /\ WF_vars(BaseStationPushes) /\ WF_vars(store_reset) /\ WF_vars(LocalCasterRuns)
    /\ \A d \in Dests : WF_vars(flush_destination_if_due(d))

-----------------------------------------------------------------------------
SlotRecord == [used : BOOLEAN, message : Messages, version : Nat, sent : SUBSET Dests]
TypeOK ==
    /\ frames \in 0..MaxFrames
    /\ newest \in [Messages -> Nat] /\ took \in [Dests -> [Messages -> Nat]]
    /\ slots \in [SlotIds -> SlotRecord]
    /\ ready \in [Dests -> BOOLEAN]
    /\ Len(batch) <= FramesPerBatch /\ Len(queue) <= QueueDepth
    /\ clients \subseteq Clients /\ loop \in {"top", "accept", "recv", "send"}

\* feed_rtcm_byte(): as many frames as were published so far are found in
\* any stream of so many with noise between them, even a stray preamble; a
\* frame damaged behind its header costs none but itself; and out of
\* arbitrary input nothing comes that is not a frame.
FramesAreFound == (frames <= MaxStream => AllFound[frames]) /\ DamageIsContained /\ OnlyFrames

\* publish_to_corrections(), flush_destination_if_due(): a message has one
\* slot at most; the slot holds its newest version; and a client's bit in it
\* says exactly that the client took that version.
SlotsAreNewest ==
    \A i \in SlotIds : slots[i].used =>
        /\ \A j \in SlotIds : slots[j].used /\ slots[j].message = slots[i].message => j = i
        /\ slots[i].version = newest[slots[i].message]
        /\ \A d \in Dests : IF d \in slots[i].sent
                            THEN took[d][slots[i].message] = slots[i].version
                            ELSE took[d][slots[i].message] < slots[i].version

\* What the slots promise the casters.
Latest == INSTANCE LatestOnly WITH newest <- newest, took <- took
SlotsImplementLatestOnly == Latest!LatestSpec

\* set_suspended() and run(): once the loop has finished the turn in which a
\* suspension found it, no packet that was in the queue when suspended_ was set
\* is sent and no client that was connected then is served, unless the caster
\* was resumed between the two stores.  Nothing is said of a frame that was
\* still in the batch or past push()'s look at suspended_: it is queued later,
\* and may be sent after a resume.
SuspensionCutsStream ==
    loop = "send" /\ ghost.armed /\ ~ghost.overlap =>
        packet \notin ghost.stale /\ ghost.old \cap clients = {}

\* local_caster.hpp: "Must exceed ... kMaxFramesPerBatch": a flush that finds
\* the queue empty loses no frame.
FlushFitsEmptyQueue == ~ghost.dropped

\* publish_to_corrections(), flush_destination_if_due() and push(): types and
\* bounds, and how slots, destinations, batch and queue belong together.
SlotsConsistent == TypeOK /\ SlotsAreNewest /\ FlushFitsEmptyQueue

\* flush_destination_if_due(): a push client that stays ready has taken every
\* slot again and again.
CorrectionsAreTaken == \A d \in Dests : <>[]ready[d] => []<>(Pending(d) = {})

\* run(): a caster that stays suspended ends up with no client.
ClientsLeave == <>[]suspended => <>[](clients = {})

\* set_suspended() and what runs after it: a destination that stays up gets
\* everything, one that stays suspended serves nobody.
DestinationsFollow == CorrectionsAreTaken /\ ClientsLeave
=============================================================================
