---------------------------------- MODULE MCLive ----------------------------
(***************************************************************************)
(* Two rings on which both sides sleep and wake each other: the xenstore   *)
(* client and xenstored, and the transmit path and its backend.  The modules *)
(* have no state in common: the first state chooses one, which then runs   *)
(* under its own fairness, while the other stays where it begins.          *)
(***************************************************************************)
EXTENDS XenBus, TLC

CONSTANTS RING_SIZE, Senders, Dpcs, NoId, NoPacket, MaxQuota, n1, n2, p1, p2, p3

\* Two lists: one of two packets, the first of two fragments and with GSO information,
\* and one of a single packet.  With RING_SIZE = 4 the ring fills up.
TwoLists == (n1 :> <<p1, p2>>) @@ (n2 :> <<p3>>)
Fragments == (p1 :> 2) @@ (p2 :> 1) @@ (p3 :> 2)

VARIABLE runs   \* the module that runs
VARIABLES device_state, tx_lock, tx_waiting_pkt_list, tx_ring_free, tx_id_list, tx_shadows,
          tx_outstanding, nbl_ref, ring, armed, tx_awake, pending, bound, dpcqueued,
          tx_pc, dont_set_event, chain, tx_packets, pm, accepted, completed, forgotten,
          late, tx_suspends, tx_failures, quota

Tx == INSTANCE NetTx WITH
    Packets <- {p1, p2, p3}, Nbls <- {n1, n2}, NetBuffers <- TwoLists, Frags <- Fragments,
    Gso <- {p1}, awake <- tx_awake, pc <- tx_pc, suspends <- tx_suspends,
    failures <- tx_failures

asking == <<pc, arg, xb_request_mutex, xb_request_complete_event, xb_reply, Active,
            ServiceRoutine, Path, callee, workitems, connected, evt, dpc, xb_msg, xb_msg_offset,
            req, rsp, registered, out, awake, fired, failures, suspends, halted, removed>>
sending == <<device_state, tx_lock, tx_waiting_pkt_list, tx_ring_free, tx_id_list,
             tx_shadows, tx_outstanding, nbl_ref, ring, armed, tx_awake, pending,
             bound, dpcqueued, tx_pc, dont_set_event, chain, tx_packets, pm, accepted,
             completed, forgotten, late, tx_suspends, tx_failures, quota>>
all == <<runs, asking, sending>>

Asks(A) == runs = "XenBus" /\ A /\ UNCHANGED <<runs, sending>>
Sends(A) == runs = "NetTx" /\ A /\ UNCHANGED <<runs, asking>>

MCInit ==
  /\ runs \in {"XenBus", "NetTx"}
  /\ Init /\ Tx!Init

MCNext ==
  \/ Asks(Next) \/ Sends(Tx!Next)

MCSpec ==
  /\ MCInit /\ [][MCNext]_all
  /\ \A c \in Clients : SF_all(Asks(Requesting(c)))
  /\ WF_all(Asks(Dpc)) /\ SF_all(Asks(Working)) /\ WF_all(Asks(Power)) /\ WF_all(Asks(Xenstored))
  /\ \A a \in Senders \cup Dpcs : WF_all(Sends(Tx!SendQueuedPackets(a)))
  /\ \A d \in Dpcs : WF_all(Sends(Tx!TxBufferGC(d)))
  /\ WF_all(Sends(\E d \in Dpcs : Tx!RxTxDpc(d)))
  /\ WF_all(Sends(Tx!HandleEvent_DIRQL))
  /\ WF_all(Sends(Tx!BackendTake)) /\ WF_all(Sends(Tx!BackendAnswer))
-----------------------------------------------------------------------------
\* The request of a thread is answered, and every watch event gets to a work item.  The
\* threads are alike, so one stands for all (XenBus).
XenstoreAnswers == Answered(CHOOSE t \in Threads : TRUE) /\ EventDelivered

\* Every list sent is given back, as long as nothing runs out and no suspend cuts in
\* (NetTx).
SendCompletes == Tx!SendCompletes
=============================================================================
