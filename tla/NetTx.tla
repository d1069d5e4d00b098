-------------------------------- MODULE NetTx --------------------------------
(***************************************************************************)
(* The transmit half of the network driver (xennet/xennet_tx.c, the NDIS 6 *)
(* build) with the suspend and resume of xennet_common.c.                  *)
(*                                                                         *)
(* NDIS hands down NET_BUFFER_LISTs; their NET_BUFFERs (here packets) wait *)
(* in tx_waiting_pkt_list until the ring has room, take one ring slot per  *)
(* fragment (plus one for GSO information) and are given back when the     *)
(* backend has answered.  Senders, instances of the DPC and the thread     *)
(* that suspends the device run concurrently.                              *)
(*                                                                         *)
(* The shared ring is kept as the set of requests whose response has not   *)
(* been harvested yet, each with its stage: how far the two ends have come *)
(* with it.  rsp_prod is ahead of rsp_cons when one is answered, and       *)
(* rsp_event, which only matters as "the next response raises an event",   *)
(* is the flag armed.                                                      *)
(***************************************************************************)
EXTENDS Naturals, FiniteSets, Sequences, SequencesExt, Functions

CONSTANTS
  RING_SIZE,     \* NET_TX_RING_SIZE
  Packets, Nbls,
  NetBuffers,    \* per NET_BUFFER_LIST, the sequence of its packets
  Frags,         \* per packet, the slots with data it takes (header included)
  Gso,           \* packets that need a slot of extra information
  Senders, Dpcs, \* threads in SendNetBufferLists; instances of rxtx_dpc that run at once
  NoOne, NoId, NoPacket,
  MaxSuspends, MaxFailures, MaxQuota   \* bounds

Ids == 0 .. RING_SIZE - 1

ASSUME NetTxAssumption ==
  /\ RING_SIZE \in Nat \ {0}
  /\ NetBuffers \in [Nbls -> Seq(Packets)]
  /\ \A n \in Nbls : NetBuffers[n] # <<>> /\ IsInjective(NetBuffers[n])
  /\ \A p \in Packets : \E n \in Nbls : \A m \in Nbls : p \in ToSet(NetBuffers[m]) <=> m = n
  /\ Frags \in [Packets -> Nat \ {0}]
  /\ \A p \in Packets : Frags[p] + 1 <= RING_SIZE
  /\ Gso \subseteq Packets
  /\ Senders \cap Dpcs = {} /\ NoOne \notin Senders \cup Dpcs
  /\ IsFiniteSet(Packets) /\ NoPacket \notin Packets /\ NoId \notin Ids

\* NB_NBL
NB_NBL(p) == CHOOSE n \in Nbls : p \in ToSet(NetBuffers[n])

Actors == Senders \cup Dpcs

VARIABLES
  device_state, tx_lock, tx_waiting_pkt_list, tx_ring_free, tx_id_list,
  tx_shadows,     \* per id: packet, and whether a grant (and its buffer) is held
  tx_outstanding,
  nbl_ref,        \* NBL_REF
  ring, armed,    \* the shared ring
  awake,          \* the backend looks for requests without being notified
  pending, bound, \* the event channel: an event is pending, it is bound
  dpcqueued,      \* rxtx_dpc is in a DPC queue
  pc,             \* per actor: the next step
  dont_set_event, chain, tx_packets,  \* locals of TxBufferGC, per DPC instance
  pm,             \* the next step of the suspending thread
  accepted, completed, forgotten, late,  \* history, see the properties
  suspends, failures, quota                       \* counters for the bounds

driver  == <<tx_lock, tx_waiting_pkt_list, tx_ring_free, tx_id_list, tx_shadows,
             tx_outstanding, nbl_ref>>
shared  == <<ring, armed, awake, pending, bound>>
locals  == <<dont_set_event, chain, tx_packets>>
history == <<accepted, completed, forgotten, late>>
bounds  == <<suspends, failures, quota>>
vars    == <<device_state, driver, shared, dpcqueued, pc, locals, pm, history, bounds>>

NoShadow == [packet |-> NoPacket, gref |-> FALSE]
\* nth is the place of a slot among those of its packet.
Entries  == [id : Ids \cup {NoId}, packet : Packets, nth : 1 .. 2 * RING_SIZE + 1,
             stage : {"private", "pushed", "taken", "answered"}]

TypeOK ==
  /\ device_state \in {"initialising", "active", "disconnecting", "disconnected"}
  /\ tx_lock \in Actors \cup {NoOne}
  /\ tx_waiting_pkt_list \in Seq(Packets)
  /\ tx_ring_free \in 0 .. RING_SIZE
  /\ tx_id_list \in Seq(Ids) /\ Len(tx_id_list) <= RING_SIZE
  /\ tx_shadows \in [Ids -> [packet : Packets \cup {NoPacket}, gref : BOOLEAN]]
  /\ tx_outstanding \in 0 .. Cardinality(Packets)
  /\ nbl_ref \in [Nbls -> 0 .. Cardinality(Packets)]
  /\ ring \subseteq Entries
  /\ armed \in BOOLEAN /\ awake \in BOOLEAN /\ pending \in BOOLEAN /\ bound \in BOOLEAN
  /\ dpcqueued \in BOOLEAN
  /\ pc \in [Actors -> {"idle", "check", "send", "push", "gc", "harvest", "arm",
                        "recheck", "complete", "relock"}]
  /\ dont_set_event \in [Dpcs -> BOOLEAN]
  /\ chain \in [Dpcs -> SUBSET Nbls] /\ tx_packets \in [Dpcs -> Nat]
  /\ pm \in {"on", "closing", "unbind", "wait", "drain", "off",
                  "connect", "activate", "failed"}

Init ==
  /\ device_state = "active" /\ tx_lock = NoOne /\ tx_waiting_pkt_list = <<>>
  /\ tx_ring_free = RING_SIZE /\ tx_id_list = [i \in 1 .. RING_SIZE |-> i - 1]
  /\ tx_shadows = [id \in Ids |-> NoShadow]
  /\ tx_outstanding = 0 /\ nbl_ref = [n \in Nbls |-> 0]
  /\ ring = {} /\ armed = TRUE /\ awake = TRUE
  /\ pending = FALSE /\ bound = TRUE /\ dpcqueued = FALSE
  /\ pc = [a \in Actors |-> "idle"]
  /\ dont_set_event = [d \in Dpcs |-> FALSE]
  /\ chain = [d \in Dpcs |-> {}] /\ tx_packets = [d \in Dpcs |-> 0]
  /\ pm = "on"
  /\ accepted = {} /\ completed = [n \in Nbls |-> 0]
  /\ forgotten = {} /\ late = {}
  /\ suspends = 0 /\ failures = 0 /\ quota = 0

Goto(a, from, to) == pc[a] = from /\ pc' = [pc EXCEPT ![a] = to]
-----------------------------------------------------------------------------
(* XenNet_SendQueuedPackets, called with tx_lock held by actor a, and the
   release of the lock that follows it in both callers *)

AfterSend(a) == IF a \in Senders THEN "idle" ELSE "complete"

NotActive(a) ==
  /\ device_state # "active"
  /\ Goto(a, "check", AfterSend(a))
  /\ tx_lock' = NoOne
  /\ UNCHANGED <<device_state, tx_waiting_pkt_list, tx_ring_free, tx_id_list, tx_shadows,
                 tx_outstanding, nbl_ref, shared, dpcqueued, locals, pm, history, bounds>>

Active(a) ==
  /\ device_state = "active"
  /\ Goto(a, "check", "send")
  /\ UNCHANGED <<device_state, driver, shared, dpcqueued, locals, pm, history, bounds>>

\* HWSendPacket returned FALSE (the packet is put back at the head), or the list
\* is empty.
Stop(a) ==
  /\ Goto(a, "send", "push")
  /\ \/ tx_waiting_pkt_list = <<>> /\ UNCHANGED failures
     \/ /\ tx_waiting_pkt_list # <<>>
        /\ tx_ring_free < Frags[Head(tx_waiting_pkt_list)] + 1
        /\ UNCHANGED failures
     \/ \* no grant reference, or no memory
        /\ tx_waiting_pkt_list # <<>>
        /\ failures < MaxFailures /\ failures' = failures + 1
  /\ UNCHANGED <<device_state, driver, shared, dpcqueued, locals, pm, history, suspends, quota>>

\* get_id_from_freelist takes the last one: the ids of k slots of data, in order.
GetIds(k) == [i \in 1 .. k |-> tx_id_list[Len(tx_id_list) + 1 - i]]

Private(p, id, nth) == [id |-> id, packet |-> p, nth |-> nth, stage |-> "private"]

\* (A) 1st request, then (B) optional extra_info, then (C) rest of requests
Requests(p, k) == {Private(p, GetIds(k)[i], 2 * i) : i \in 1 .. k}
                    \cup {Private(p, NoId, 3) : q \in Gso \cap {p}}

\* Each slot of data holds a grant; the shadow of the last one holds the packet.
Hold(p, k) == [id \in Ids |->
  IF id \notin ToSet(GetIds(k)) THEN tx_shadows[id]
  ELSE [packet |-> IF id = GetIds(k)[k] THEN p ELSE NoPacket, gref |-> TRUE]]

\* XenNet_HWSendPacket: all the slots go on the ring, or, when the grant references
\* or the memory run out on the way, only the first k ("partial send").
HWSendPacket(a, k) ==
  /\ pc[a] = "send" /\ tx_waiting_pkt_list # <<>>
  /\ LET p == Head(tx_waiting_pkt_list) IN
     /\ tx_ring_free >= Frags[p] + 1
     /\ \/ k = Frags[p] /\ UNCHANGED failures
        \/ k < Frags[p] /\ failures < MaxFailures /\ failures' = failures + 1
     /\ ring' = ring \cup Requests(p, k)
     /\ tx_ring_free' = tx_ring_free - Cardinality(Requests(p, k))
     /\ tx_id_list' = SubSeq(tx_id_list, 1, Len(tx_id_list) - k)
     /\ tx_shadows' = Hold(p, k)
  /\ tx_waiting_pkt_list' = Tail(tx_waiting_pkt_list)
  /\ tx_outstanding' = tx_outstanding + 1
  /\ UNCHANGED <<device_state, tx_lock, nbl_ref, armed, awake, pending, bound, dpcqueued,
                 pc, locals, pm, accepted, completed, forgotten, late, suspends, quota>>

At(stage) == {e \in ring : e.stage = stage}

\* The slots of S go to a stage.
Move(S, stage) == (ring \ S) \cup {[e EXCEPT !.stage = stage] : e \in S}

\* RING_PUSH_REQUESTS_AND_CHECK_NOTIFY, XnNotify
Push(a) ==
  /\ Goto(a, "push", AfterSend(a))
  /\ ring' = Move(At("private"), "pushed")
  /\ awake' = (awake \/ At("private") # {})
  /\ tx_lock' = NoOne
  /\ UNCHANGED <<device_state, tx_waiting_pkt_list, tx_ring_free, tx_id_list, tx_shadows,
                 tx_outstanding, nbl_ref, armed, pending, bound, dpcqueued, locals, pm,
                 history, bounds>>

SendQueuedPackets(a) ==
  \/ NotActive(a) \/ Active(a) \/ Stop(a) \/ Push(a)
  \/ \E k \in 1 .. RING_SIZE : HWSendPacket(a, k)
-----------------------------------------------------------------------------
(* XenNet_SendNetBufferLists, up to the call of SendQueuedPackets; the device is
   never INACTIVE here *)

SendNetBufferLists(s, n) ==
  /\ n \notin accepted
  /\ tx_lock = NoOne /\ tx_lock' = s
  /\ Goto(s, "idle", "check")
  /\ tx_waiting_pkt_list' = tx_waiting_pkt_list \o NetBuffers[n]
  /\ nbl_ref' = [nbl_ref EXCEPT ![n] = Len(NetBuffers[n])]
  /\ accepted' = accepted \cup {n}
  /\ late' = IF device_state = "active" THEN late ELSE late \cup ToSet(NetBuffers[n])
  /\ UNCHANGED <<device_state, tx_ring_free, tx_id_list, tx_shadows, tx_outstanding, shared,
                 dpcqueued, locals, pm, completed, forgotten, bounds>>
-----------------------------------------------------------------------------
(* XenNet_RxTxDpc and XenNet_TxBufferGC *)

\* XenNet_HandleEvent_DIRQL
HandleEvent_DIRQL ==
  /\ pending /\ pending' = FALSE
  /\ dpcqueued' = (dpcqueued \/ device_state \in {"active", "disconnecting"})
  /\ UNCHANGED <<device_state, driver, ring, armed, awake, bound, pc, locals, pm, history, bounds>>

\* RxBufferCheck asks for no event, and queues the DPC again, when it is over its
\* quota.
RxTxDpc(d) ==
  /\ dpcqueued
  /\ Goto(d, "idle", "gc")
  /\ \E over \in BOOLEAN :
       /\ over => device_state = "active" /\ quota < MaxQuota
       /\ quota' = quota + (IF over THEN 1 ELSE 0)
       /\ dpcqueued' = over
       /\ dont_set_event' = [dont_set_event EXCEPT ![d] = over]
  /\ UNCHANGED <<device_state, driver, shared, chain, tx_packets, pm, history, suspends, failures>>

\* "our Dpc had been queued just before the shutdown"
TooLate(d) ==
  /\ tx_lock = NoOne
  /\ device_state # "active" /\ tx_outstanding = 0
  /\ Goto(d, "gc", "idle")
  /\ UNCHANGED <<device_state, driver, shared, dpcqueued, locals, pm, history, bounds>>

Enter(d) ==
  /\ tx_lock = NoOne /\ tx_lock' = d
  /\ device_state = "active" \/ tx_outstanding # 0
  /\ Goto(d, "gc", "harvest")
  /\ UNCHANGED <<device_state, tx_waiting_pkt_list, tx_ring_free, tx_id_list, tx_shadows,
                 tx_outstanding, nbl_ref, shared, dpcqueued, locals, pm, history, bounds>>

\* The ids answered up to rsp_prod; extra information has status NETIF_RSP_NULL.
AnsweredIds == {e.id : e \in At("answered")} \ {NoId}

DonePackets == {tx_shadows[id].packet : id \in AnsweredIds} \ {NoPacket}
DoneOf(n)   == DonePackets \cap ToSet(NetBuffers[n])

\* put_id_on_freelist, in the order of the responses, which is up to the backend.
GiveBack == {tx_id_list \o ids : ids \in SetToSeqs(AnsweredIds)}

\* Mutant: a list is given back with its first packet.
ChainAny == {n \in Nbls : DoneOf(n) # {}}

\* The lists whose last packet is done.
ChainDone == {n \in Nbls : DoneOf(n) # {} /\ nbl_ref[n] = Cardinality(DoneOf(n))}

\* The loop over the responses, from rsp_cons to rsp_prod.
Harvest(d) ==
  /\ Goto(d, "harvest", IF dont_set_event[d] THEN "recheck" ELSE "arm")
  /\ tx_ring_free' = tx_ring_free + Cardinality(At("answered"))
  /\ tx_id_list' \in GiveBack
  /\ tx_shadows' = [id \in Ids |-> IF id \in AnsweredIds THEN NoShadow ELSE tx_shadows[id]]
  /\ nbl_ref' = [n \in Nbls |-> nbl_ref[n] - Cardinality(DoneOf(n))]
  /\ chain' = [chain EXCEPT ![d] = @ \cup ChainDone]
  /\ tx_packets' = [tx_packets EXCEPT ![d] = @ + Cardinality(DonePackets)]
  /\ ring' = ring \ At("answered")
  /\ UNCHANGED <<device_state, tx_lock, tx_waiting_pkt_list, tx_outstanding, armed, awake,
                 pending, bound, dpcqueued, dont_set_event, pm, history, bounds>>

\* rsp_event = prod + 1
Arm(d) ==
  /\ Goto(d, "arm", "recheck")
  /\ armed' = (At("answered") = {})
  /\ UNCHANGED <<device_state, driver, ring, awake, pending, bound, dpcqueued, locals, pm,
                 history, bounds>>

\* Mutant: responses that arrived meanwhile are not looked at.
RecheckNot(d) ==
  /\ Goto(d, "recheck", "check")
  /\ UNCHANGED <<device_state, driver, shared, dpcqueued, locals, pm, history, bounds>>

\* while (prod != rsp_prod)
Recheck(d) ==
  /\ Goto(d, "recheck", IF At("answered") = {} THEN "check" ELSE "harvest")
  /\ UNCHANGED <<device_state, driver, shared, dpcqueued, locals, pm, history, bounds>>

\* NdisMSendNetBufferListsComplete, without holding any locks
Complete(d) ==
  /\ Goto(d, "complete", "relock")
  /\ completed' = [n \in Nbls |-> completed[n] + (IF n \in chain[d] THEN 1 ELSE 0)]
  /\ chain' = [chain EXCEPT ![d] = {}]
  /\ UNCHANGED <<device_state, driver, shared, dpcqueued, dont_set_event, tx_packets, pm,
                 accepted, forgotten, late, bounds>>

\* "must be done after we have truly given back all packets"
Relock(d) ==
  /\ tx_lock = NoOne
  /\ Goto(d, "relock", "idle")
  /\ tx_outstanding' = tx_outstanding - tx_packets[d]
  /\ tx_packets' = [tx_packets EXCEPT ![d] = 0]
  /\ UNCHANGED <<device_state, tx_lock, tx_waiting_pkt_list, tx_ring_free, tx_id_list, tx_shadows,
                 nbl_ref, shared, dpcqueued, dont_set_event, chain, pm, history, bounds>>

TxBufferGC(d) == TooLate(d) \/ Enter(d) \/ Harvest(d) \/ Arm(d) \/ Recheck(d) \/ Complete(d) \/ Relock(d)
-----------------------------------------------------------------------------
(* The backend.  It answers the slots of a packet in order, packets in any order. *)

Connected == pm \in {"on", "closing"}

BackendTake ==
  /\ Connected /\ awake
  /\ At("pushed") # {}
  /\ ring' = Move(At("pushed"), "taken")
  /\ UNCHANGED <<device_state, driver, armed, awake, pending, bound, dpcqueued, pc, locals, pm,
                 history, bounds>>

\* It asks to be notified of the next request and finds none now.
BackendSleep ==
  /\ Connected /\ awake /\ awake' = FALSE
  /\ At("pushed") = {}
  /\ UNCHANGED <<device_state, driver, ring, armed, pending, bound, dpcqueued, pc, locals, pm,
                 history, bounds>>

BackendAnswer ==
  /\ Connected
  /\ \E e \in At("taken") :
       /\ \A f \in ring : f.packet = e.packet /\ f.nth < e.nth => f.stage = "answered"
       /\ ring' = Move({e}, "answered")
  /\ armed' = FALSE /\ pending' = (pending \/ armed)
  /\ UNCHANGED <<device_state, driver, awake, bound, dpcqueued, pc, locals, pm, history, bounds>>

\* The backend has answered what it was given when it goes to Closed.
BackendClosed ==
  /\ pm = "closing" /\ pm' = "unbind"
  /\ At("pushed") = {} /\ At("taken") = {}
  /\ UNCHANGED <<device_state, driver, shared, dpcqueued, pc, locals, history, bounds>>
-----------------------------------------------------------------------------
(* XenNet_Disconnect and XenNet_TxShutdown, when the domain suspends *)

Disconnect ==
  /\ pm = "on" /\ suspends < MaxSuspends /\ suspends' = suspends + 1
  /\ pm' = "closing" /\ device_state' = "disconnecting"
  /\ UNCHANGED <<driver, shared, dpcqueued, pc, locals, history, failures, quota>>

UnbindEvent ==
  /\ pm = "unbind" /\ pm' = "wait"
  /\ bound' = FALSE /\ pending' = FALSE
  /\ UNCHANGED <<device_state, driver, ring, armed, awake, dpcqueued, pc, locals, history, bounds>>

\* Mutant: nobody waits for outstanding packets.
ShutdownNoWait ==
  /\ pm = "wait" /\ pm' = "drain"
  /\ tx_lock = NoOne
  /\ UNCHANGED <<device_state, driver, shared, dpcqueued, pc, locals, history, bounds>>

\* while (xi->tx_outstanding): the wait on tx_idle_event times out every second
ShutdownWait ==
  /\ pm = "wait" /\ pm' = "drain"
  /\ tx_lock = NoOne /\ tx_outstanding = 0
  /\ UNCHANGED <<device_state, driver, shared, dpcqueued, pc, locals, history, bounds>>

\* Free packets in tx queue, without the lock; then the rings and the lookaside
\* list are freed.
FreePackets ==
  /\ pm = "drain"
  /\ \/ /\ tx_waiting_pkt_list # <<>>
        /\ tx_waiting_pkt_list' = Tail(tx_waiting_pkt_list)
        /\ LET n == NB_NBL(Head(tx_waiting_pkt_list)) IN
           /\ nbl_ref' = [nbl_ref EXCEPT ![n] = @ - 1]
           /\ completed' = [completed EXCEPT ![n] = @ + (IF nbl_ref[n] = 1 THEN 1 ELSE 0)]
        /\ UNCHANGED <<pm, device_state>>
     \/ /\ tx_waiting_pkt_list = <<>>
        /\ pm' = "off" /\ device_state' = "disconnected"
        /\ UNCHANGED <<tx_waiting_pkt_list, nbl_ref, completed>>
  /\ UNCHANGED <<tx_lock, tx_ring_free, tx_id_list, tx_shadows, tx_outstanding, shared, dpcqueued,
                 pc, locals, accepted, forgotten, late, bounds>>

Resume ==
  /\ pm = "off" /\ pm' = "connect" /\ device_state' = "initialising"
  /\ UNCHANGED <<driver, shared, dpcqueued, pc, locals, history, bounds>>

\* XenNet_Connect: new rings, and XenNet_TxInit, which initialises the list and the
\* lock without looking at them.
Connect ==
  /\ pm = "connect" /\ pm' = "activate"
  /\ ring' = {} /\ armed' = TRUE /\ awake' = TRUE
  /\ bound' = TRUE /\ pending' = FALSE
  /\ tx_lock' = NoOne
  /\ tx_waiting_pkt_list' = <<>> /\ forgotten' = forgotten \cup ToSet(tx_waiting_pkt_list)
  /\ tx_ring_free' = RING_SIZE /\ tx_id_list' = [i \in 1 .. RING_SIZE |-> i - 1]
  /\ tx_shadows' = [id \in Ids |-> [tx_shadows[id] EXCEPT !.gref = FALSE]]
  /\ tx_outstanding' = 0
  /\ UNCHANGED <<device_state, nbl_ref, dpcqueued, pc, locals, accepted, completed, late, bounds>>

\* A timeout or a failed allocation.  The code then makes the device ACTIVE on the
\* freed ring ("what to do here if not success?"); the model goes no further.
ConnectFails ==
  /\ pm = "connect" /\ pm' = "failed"
  /\ failures < MaxFailures /\ failures' = failures + 1
  /\ UNCHANGED <<device_state, driver, shared, dpcqueued, pc, locals, history, suspends, quota>>

Activate ==
  /\ pm = "activate" /\ pm' = "on"
  /\ device_state' = "active" /\ dpcqueued' = TRUE
  /\ UNCHANGED <<driver, shared, pc, locals, history, bounds>>

SuspendResume == Disconnect \/ UnbindEvent \/ ShutdownWait \/ FreePackets \/ Resume
                 \/ Connect \/ ConnectFails \/ Activate
Backend == BackendTake \/ BackendSleep \/ BackendAnswer \/ BackendClosed

Next ==
  \/ \E s \in Senders, n \in Nbls : SendNetBufferLists(s, n)
  \/ \E a \in Actors : SendQueuedPackets(a)
  \/ HandleEvent_DIRQL
  \/ \E d \in Dpcs : RxTxDpc(d) \/ TxBufferGC(d)
  \/ Backend \/ SuspendResume

Spec == Init /\ [][Next]_vars

\* Interrupts, queued DPCs and running code get to run, the backend serves its ring.
\* Nobody has to send anything or to suspend.
FairSpec ==
  /\ Spec
  /\ \A a \in Actors : WF_vars(SendQueuedPackets(a))
  /\ \A d \in Dpcs : WF_vars(TxBufferGC(d))
  /\ WF_vars(\E d \in Dpcs : RxTxDpc(d))
  /\ WF_vars(HandleEvent_DIRQL)
  /\ WF_vars(BackendTake) /\ WF_vars(BackendAnswer)
-----------------------------------------------------------------------------
(* Properties *)

DataSlots == {e \in ring : e.id # NoId}

\* "if we have enough space on the ring then we have enough id's": free slots and
\* slots in flight add up to the ring, ids are missing only for data in flight, no
\* id is free twice, and a free id has no grant or packet in its shadow.
EnoughIds ==
  /\ tx_ring_free + Cardinality(ring) = RING_SIZE
  /\ Len(tx_id_list) + Cardinality(DataSlots) = RING_SIZE
  /\ IsInjective(tx_id_list)
  /\ \A id \in ToSet(tx_id_list) : tx_shadows[id] = NoShadow

\* A NET_BUFFER_LIST is given back once, and then no packet of it waits or is on the
\* ring: its pages are not granted to the backend any more.
GivenBackOnce ==
  \A n \in Nbls :
    /\ completed[n] <= 1
    /\ completed[n] = 1 =>
         \A p \in ToSet(NetBuffers[n]) :
           /\ p \notin ToSet(tx_waiting_pkt_list)
           /\ \A e \in DataSlots : e.packet # p

\* From the moment TxShutdown stops waiting, no grant and no packet is left on the
\* ring and nobody is about to touch it: the ring pages and the lookaside list that
\* Disconnect frees are not used any more.
QuietAfterShutdown ==
  pm \in {"drain", "off", "connect"} =>
    /\ \A id \in Ids : tx_shadows[id] = NoShadow
    /\ \A a \in Actors : pc[a] \notin {"harvest", "arm", "recheck", "send", "push"}
    /\ \A d \in Dpcs : chain[d] = {}

\* A suspend never loses a packet that was queued while the device was ACTIVE.
\* (Packets queued later are lost when TxInit initialises the list.)
OnlyLateForgotten == forgotten \subseteq late

\* Ids, slots and grants add up while the device works and are all back when it is shut down.
SlotsSound == TypeOK /\ EnoughIds /\ QuietAfterShutdown

\* No list is given back twice, or with packets on the ring, or forgotten for another reason.
ListsSound == GivenBackOnce /\ OnlyLateForgotten

\* Every list sent is given back, as long as nothing runs out and no suspend cuts in:
\* between rsp_event, the events it raises and the DPC, no answer is missed, and a
\* full ring is retried.
\* (Each list is sent once, so all of them together are given back in the end.)
SendCompletes == []<>(\A n \in accepted : completed[n] = 1 \/ suspends > 0 \/ failures > 0)
=============================================================================
