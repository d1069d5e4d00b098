-------------------------------- MODULE Usb --------------------------------
(***************************************************************************)
(* The USB front end, xenusb.  The Windows hub driver sends it URBs.  An   *)
(* URB for a device becomes a pvurb, the pvurb a partial_pvurb that goes   *)
(* through a queue onto the urb ring; a DPC takes the answers, completes   *)
(* the requests and moves the queue on (xenusb_fdo.c, xenusb_devurb.c).    *)
(* An URB for the root hub is answered from the table of ports, which the  *)
(* same DPC fills from the conn ring; the interrupt transfer of the hub    *)
(* waits in the queue of its endpoint until a port has changed             *)
(* (xenusb_huburb.c, xenusb_hub.c).                                        *)
(*                                                                         *)
(* The stack of request ids is taken to exist: the lines that made it are  *)
(* in a block that is compiled out (xenusb_fdo.c:385), see the README.     *)
(***************************************************************************)
EXTENDS Integers, Sequences, FiniteSets, SequencesExt, Functions

CONSTANTS Urbs,          \* URBs for devices, one pvurb and one request each
          Ids,           \* what req_id_ss holds, natural numbers
          Ports,         \* the ports of the root hub
          NoUrb, NoPort, \* none
          MaxCancels, MaxSuspends,    \* bounds on what Windows does
          MaxPlugs, MaxFeatures       \* bounds on the hub's traffic

ASSUME UsbAssumption == /\ NoUrb \notin Urbs
                        /\ NoPort \notin Ports
                        /\ Ids \subseteq Nat /\ IsFiniteSet(Ids) /\ IsFiniteSet(Ports)
                        /\ {MaxCancels, MaxSuspends, MaxPlugs, MaxFeatures}
                             \subseteq Nat

(***************************************************************************)
(* A partial_pvurb: the one of an URB, or the request to unlink it.        *)
(***************************************************************************)
Urb(r) == [of |-> r, unlink |-> FALSE]
Unlink(r) == [of |-> r, unlink |-> TRUE]
Partials == {Urb(r) : r \in Urbs} \union {Unlink(r) : r \in Urbs}
NoPartial == [of |-> NoUrb, unlink |-> FALSE]

VARIABLES
  device_state,
  queue,        \* partial_pvurb_queue
  ring,         \* partial_pvurb_ring
  ids,          \* req_id_ss
  partials,     \* partial_pvurbs, by id
  other,        \* other_partial_pvurb of an URB's partial: is there one
  freed,        \* the partial_pvurbs given back to the pool
  pvurb,        \* for every URB, [state, ref, granted]
  cancelling,   \* the request whose cancel routine has been called
  cancels,      \* the requests ever cancelled
  requests,     \* urb_ring: requests the backend has not seen
  working,      \* ids the backend is busy with
  responses,    \* urb_ring: responses not consumed
  event,        \* is event_dpc queued
  dpc,          \* XenUsb_HandleEventDpc
  status, change,       \* port_status and port_change of every port
  plugged,      \* what the backend last said of a port, told or not
  conn,         \* conn_ring: responses not consumed
  interrupt,    \* the hub's interrupt transfer
  hub,          \* the thread that sends the hub's URBs
  raced, missed,        \* history: an update was overwritten, see below
  suspends, plugs, features, \* counters for the bounds
  corrupt       \* history: memory was used that is no longer ours

usb == <<device_state, queue, ring, ids, partials, other, freed, pvurb,
         cancelling, cancels, requests, working, responses, suspends>>
ports == <<status, change, plugged, conn, interrupt, hub, raced, missed,
           plugs, features>>
usbVars == <<usb, ports, event, dpc, corrupt>>

Bits == {"CONNECTION", "ENABLE", "RESET"}

(***************************************************************************)
(* The DPC: where it is, the requests to complete, whether a port changed, *)
(* the port at hand with what was read of it.                              *)
(***************************************************************************)
DpcIdle == [pc |-> "idle", complete |-> << >>, portChanged |-> FALSE,
            port |-> NoPort, old |-> {}, tmp |-> {}]

(***************************************************************************)
(* The hub's thread: the feature it changes, the port, what it read.       *)
(***************************************************************************)
HubIdle == [pc |-> "idle", op |-> "none", port |-> NoPort, tmp |-> {},
            found |-> FALSE]

UsbTypeOK ==
  /\ device_state \in {"ACTIVE", "DISCONNECTING", "DISCONNECTED"}
  /\ queue \in Seq(Partials) /\ ring \in Seq(Partials)
  /\ ids \subseteq Ids
  /\ partials \in [Ids -> Partials \union {NoPartial}]
  /\ other \subseteq Urbs /\ freed \subseteq Partials
  /\ pvurb \in [Urbs -> [state : {"new", "sent", "done"}, ref : Int,
                         granted : BOOLEAN]]
  /\ cancelling \in Urbs \union {NoUrb} /\ cancels \subseteq Urbs
  /\ requests \in Seq(Ids) /\ responses \in Seq(Ids) /\ working \subseteq Ids
  /\ status \in [Ports -> SUBSET Bits] /\ change \in [Ports -> SUBSET Bits]
  /\ interrupt \in {"none", "queued", "hub", "dpc"}
  /\ {event, raced, missed, corrupt} \subseteq BOOLEAN

UsbInit ==
  /\ device_state = "ACTIVE"
  /\ queue = << >> /\ ring = << >>
  /\ ids = Ids
  /\ partials = [i \in Ids |-> NoPartial]
  /\ other = {} /\ freed = {}
  /\ pvurb = [r \in Urbs |-> [state |-> "new", ref |-> 0, granted |-> FALSE]]
  /\ cancelling = NoUrb /\ cancels = {}
  /\ requests = << >> /\ working = {} /\ responses = << >>
  /\ event = FALSE /\ dpc = DpcIdle
  /\ plugged \in [Ports -> BOOLEAN] /\ change = [p \in Ports |-> {}]
  /\ status = [p \in Ports |-> IF plugged[p] THEN {"CONNECTION"} ELSE {}]
  /\ conn = << >>
  /\ interrupt = "none" /\ hub = HubIdle
  /\ raced = FALSE /\ missed = FALSE
  /\ suspends = 0 /\ plugs = 0 /\ features = 0
  /\ corrupt = FALSE

LockFree == dpc.pc # "urbs"        \* urb_ring_lock: only the DPC keeps it
On(p, list) == \E i \in DOMAIN list : list[i] = p
\* RemoveEntryList
Without(p, list) ==
  IF On(p, list) THEN RemoveAt(list, CHOOSE i \in DOMAIN list : list[i] = p) ELSE list
Owner(p) == IF p.unlink THEN CHOOSE r \in cancels : TRUE ELSE p.of

Corrupt == corrupt' = TRUE /\ UNCHANGED <<usb, ports, event, dpc>>

-----------------------------------------------------------------------------
\* get_id_from_freelist: what is left of the free ids when some are taken.
\* Mutant: the id stays on the stack when it is given to a request.
LeftAll(free, taken) == free
Left(free, taken) == free \ taken

(***************************************************************************)
(* PutRequestsOnRing, under urb_ring_lock: as long as there is an id, the  *)
(* first of the queue goes to the ring.                                    *)
(***************************************************************************)
PutRequestsOnRing(q, r, free) ==
  \E n \in {IF Len(q) < Cardinality(free) THEN Len(q) ELSE Cardinality(free)} :
    \E id \in {f \in [1 .. n -> free] : IsInjective(f)} :
      /\ queue' = SubSeq(q, n + 1, Len(q))
      /\ ring' = r \o SubSeq(q, 1, n)
      /\ ids' = Left(free, ToSet(id))
      /\ partials' = [i \in Ids |-> IF i \in ToSet(id) THEN q[CHOOSE k \in 1 .. n : id[k] = i]
                                   ELSE partials[i]]
      /\ requests' = requests \o id

(***************************************************************************)
(* XenUsb_EvtIoInternalDeviceControl_PVURB.  The pages of the URB are      *)
(* granted one by one and the request is cancelable from here on.          *)
(***************************************************************************)
PvUrb == [state |-> "sent", ref |-> 1, granted |-> TRUE]

(***************************************************************************)
(* An URB of a device is made a pvurb and sent to the FDO.  Nothing asks   *)
(* whether the ring exists: between Disconnect and Connect it does not.    *)
(***************************************************************************)
Submit(r) ==
  /\ LockFree
  /\ pvurb[r].state = "new"
  /\ IF device_state = "DISCONNECTED" THEN Corrupt
     ELSE /\ pvurb' = [pvurb EXCEPT ![r] = PvUrb]
          /\ PutRequestsOnRing(Append(queue, Urb(r)), ring, ids)
          /\ UNCHANGED <<device_state, other, freed, cancelling, cancels,
                         working, responses, suspends, ports, event, dpc,
                         corrupt>>

(***************************************************************************)
(* The backend: it takes a request, and answers when it is done.  To       *)
(* unlink a request it is busy with, it answers that one too.              *)
(***************************************************************************)
BackendTakes ==
  /\ requests # << >>
  /\ requests' = Tail(requests)
  /\ LET id == Head(requests)
         hit == {i \in working : /\ partials[id].unlink
                                 /\ partials[i] = Urb(partials[id].of)}
     IN IF partials[id].unlink
        THEN /\ \/ \E i \in hit : responses' = responses \o <<i, id>>
                \/ hit = {} /\ responses' = Append(responses, id)
             /\ working' = working \ hit
             /\ event' = TRUE
        ELSE /\ working' = working \union {id}
             /\ UNCHANGED <<responses, event>>
  /\ UNCHANGED <<device_state, queue, ring, ids, partials, other, freed,
                 pvurb, cancelling, cancels, suspends, ports, dpc, corrupt>>

BackendAnswers ==
  \E id \in working :
    /\ working' = working \ {id}
    /\ responses' = Append(responses, id)
    /\ event' = TRUE
    /\ UNCHANGED <<device_state, queue, ring, ids, partials, other, freed,
                   pvurb, cancelling, cancels, requests, suspends, ports,
                   dpc, corrupt>>

-----------------------------------------------------------------------------
(***************************************************************************)
(* XenUsb_HandleEvent_DIRQL has queued the DPC; it takes the lock.         *)
(***************************************************************************)
DpcStart ==
  /\ event /\ dpc.pc = "idle"
  /\ event' = FALSE
  /\ dpc' = [dpc EXCEPT !.pc = "urbs"]
  /\ UNCHANGED <<usb, ports, corrupt>>

(***************************************************************************)
(* One response.  The partial leaves the list it is on, the grants of its  *)
(* pages end, a partial linked with it that is "not on the ring" is freed, *)
(* and so are the references they hold on their pvurb.  on_ring is FALSE   *)
(* for ever, so that the linked partial is always taken to be waiting.     *)
(***************************************************************************)
Linked(p) == IF p.unlink THEN Urb(p.of)
             ELSE IF p.of \in other THEN Unlink(p.of) ELSE NoPartial

DpcResponse ==
  /\ dpc.pc = "urbs"
  /\ responses # << >>
  /\ LET id == Head(responses)
         p == partials[id]
         o == Linked(p)
         r == Owner(p)
         refs == IF o = NoPartial THEN 1 ELSE 2
     IN IF \/ p \in freed \/ ~(On(p, queue) \/ On(p, ring))
           \/ pvurb[r].state = "done"
           \/ o # NoPartial /\ (o \in freed \/ ~(On(o, queue) \/ On(o, ring)))
        THEN Corrupt
        ELSE /\ responses' = Tail(responses)
             /\ queue' = Without(p, Without(o, queue))
             /\ ring' = Without(p, Without(o, ring))
             /\ freed' = freed \union ({o} \ {NoPartial})
             /\ pvurb' = [pvurb EXCEPT ![r].ref = @ - refs,
                                       ![p.of].granted = @ /\ p.unlink]
             /\ ids' = ids \union {id}
             /\ dpc' = [dpc EXCEPT !.complete =
                          IF pvurb[r].ref = refs THEN Append(@, r) ELSE @]
             /\ UNCHANGED <<device_state, partials, other, cancelling, cancels,
                            requests, working, suspends, ports, event, corrupt>>

(***************************************************************************)
(* Mutant: the DPC frees the ids but does not move the queue on.           *)
(***************************************************************************)
DpcPutForgotten ==
  /\ dpc.pc = "urbs"
  /\ responses = << >>
  /\ dpc' = [dpc EXCEPT !.pc = "complete"]
  /\ UNCHANGED <<usb, ports, event, corrupt>>

(***************************************************************************)
(* No response is left: the queue moves on and the lock is released.       *)
(***************************************************************************)
DpcPut ==
  /\ dpc.pc = "urbs"
  /\ responses = << >>
  /\ PutRequestsOnRing(queue, ring, ids)
  /\ dpc' = [dpc EXCEPT !.pc = "complete"]
  /\ UNCHANGED <<device_state, other, freed, pvurb, cancelling, cancels,
                 working, responses, suspends, ports, event, corrupt>>

(***************************************************************************)
(* A request is completed, and the completion routine of its URB makes the *)
(* status of the backend one of Windows and completes the hub driver's.    *)
(***************************************************************************)
Done(r, p) == [p EXCEPT ![r].state = "done"]

(***************************************************************************)
(* Complete the requests collected, without the lock and without asking    *)
(* what WdfRequestUnmarkCancelable said.                                   *)
(***************************************************************************)
DpcComplete ==
  /\ dpc.pc = "complete"
  /\ dpc.complete # << >>
  /\ LET r == Head(dpc.complete)
     IN IF pvurb[r].state = "done" THEN Corrupt
        ELSE /\ pvurb' = Done(r, pvurb)
             /\ dpc' = [dpc EXCEPT !.complete = Tail(@)]
             /\ UNCHANGED <<device_state, queue, ring, ids, partials, other,
                            freed, cancelling, cancels, requests, working,
                            responses, suspends, ports, event, corrupt>>

-----------------------------------------------------------------------------
(***************************************************************************)
(* Windows calls the cancel routine of a request that is still cancelable: *)
(* its sender gave up, or the ten seconds of a control transfer are over.  *)
(***************************************************************************)
Cancel(r) ==
  /\ Cardinality(cancels) < MaxCancels
  /\ cancelling = NoUrb
  /\ pvurb[r].state = "sent"
  /\ cancelling' = r
  /\ cancels' = cancels \union {r}
  /\ UNCHANGED <<device_state, queue, ring, ids, partials, other, freed,
                 pvurb, requests, working, responses, suspends, ports, event,
                 dpc, corrupt>>

(***************************************************************************)
(* XenUsb_EvtRequestCancelPvUrb, which waited for urb_ring_lock.  It frees *)
(* every partial of the queue and sends an unlink for every one of the     *)
(* ring, whosever they are.                                                *)
(***************************************************************************)
CancelRoutine ==
  /\ cancelling # NoUrb
  /\ LockFree
  /\ LET r == cancelling
         unlinks == [i \in 1 .. Len(ring) |-> Unlink(ring[Len(ring) + 1 - i].of)]
         ref == pvurb[r].ref - Len(queue) + Len(ring)
     IN IF \/ pvurb[r].state = "done"
           \/ device_state = "DISCONNECTED" /\ ref # 0
        THEN Corrupt
        ELSE /\ cancelling' = NoUrb
             /\ freed' = freed \union {queue[i] : i \in DOMAIN queue}
             /\ other' = other \union {ring[i].of : i \in DOMAIN ring}
             /\ \E p \in {[pvurb EXCEPT ![r].ref = ref]} :
                  pvurb' = IF ref = 0 THEN Done(r, p) ELSE p
             /\ IF ref # 0 THEN PutRequestsOnRing(unlinks, ring, ids)
                ELSE /\ queue' = << >>
                     /\ UNCHANGED <<ring, ids, partials, requests>>
             /\ UNCHANGED <<device_state, cancels, working, responses,
                            suspends, ports, event, dpc, corrupt>>

-----------------------------------------------------------------------------
(***************************************************************************)
(* XenUsb_Disconnect for a suspend.  The rings are freed once the backend  *)
(* has closed; the requests that were on the urb ring stay in              *)
(* partial_pvurb_ring with their ids, and nothing ever answers them.  No   *)
(* DPC is taken to be running when the rings are freed: KeFlushQueuedDpcs  *)
(* is compiled for old systems only.                                       *)
(***************************************************************************)
Disconnect ==
  /\ device_state = "ACTIVE"
  /\ suspends < MaxSuspends
  /\ suspends' = suspends + 1
  /\ device_state' = "DISCONNECTING"
  /\ UNCHANGED <<queue, ring, ids, partials, other, freed, pvurb, cancelling,
                 cancels, requests, working, responses, ports, event, dpc,
                 corrupt>>

FreeRings ==
  /\ device_state = "DISCONNECTING"
  /\ dpc.pc = "idle"
  /\ device_state' = "DISCONNECTED"
  /\ requests' = << >> /\ working' = {} /\ responses' = << >> /\ conn' = << >>
  /\ event' = FALSE
  /\ UNCHANGED <<queue, ring, ids, partials, other, freed, pvurb, cancelling,
                 cancels, suspends, status, change, plugged, interrupt, hub,
                 raced, missed, plugs, features, dpc, corrupt>>

(***************************************************************************)
(* XenUsb_Connect: two new rings, the conn ring filled with requests.  The *)
(* backend says again of every port what is plugged into it; its event is  *)
(* lost if it comes before device_state is ACTIVE, and nothing kicks the   *)
(* DPC afterwards.                                                         *)
(***************************************************************************)
Connect ==
  /\ device_state = "DISCONNECTED"
  /\ device_state' = "ACTIVE"
  /\ \E order \in {f \in [1 .. Cardinality(Ports) -> Ports] :
                     \A i, j \in DOMAIN f : f[i] = f[j] => i = j} :
       conn' = [i \in DOMAIN order |-> [port |-> order[i],
                                        speed |-> plugged[order[i]]]]
  /\ event' \in BOOLEAN
  /\ UNCHANGED <<queue, ring, ids, partials, other, freed, pvurb, cancelling,
                 cancels, requests, working, responses, suspends, status,
                 change, plugged, interrupt, hub, raced, missed, plugs,
                 features, dpc, corrupt>>

-----------------------------------------------------------------------------
(***************************************************************************)
(* A device comes or goes: the backend answers a request of the conn ring. *)
(***************************************************************************)
Plug(p) ==
  /\ device_state = "ACTIVE"
  /\ plugs < MaxPlugs
  /\ plugs' = plugs + 1
  /\ plugged' = [plugged EXCEPT ![p] = ~@]
  /\ conn' = Append(conn, [port |-> p, speed |-> ~plugged[p]])
  /\ event' = TRUE
  /\ UNCHANGED <<usb, status, change, interrupt, hub, raced, missed, features,
                 dpc, corrupt>>

\* The status of a port after a device was found there, or none.
NewStatus(old, speed) == IF speed THEN old \union {"CONNECTION"}
                         ELSE old \ {"CONNECTION", "ENABLE"}

(***************************************************************************)
(* The DPC takes one response of the conn ring: first the status of the    *)
(* port ...                                                                *)
(***************************************************************************)
DpcConn ==
  /\ dpc.pc = "complete" /\ dpc.complete = << >>
  /\ conn # << >>
  /\ LET p == Head(conn).port
     IN /\ status' = [status EXCEPT ![p] = NewStatus(@, Head(conn).speed)]
        /\ dpc' = [dpc EXCEPT !.pc = "change", !.port = p, !.old = status[p],
                              !.tmp = change[p]]
  /\ conn' = Tail(conn)
  /\ UNCHANGED <<usb, change, plugged, interrupt, hub, raced, missed, plugs,
                 features, event, corrupt>>

(***************************************************************************)
(* ... then its change bits, a read and a write.  conn_ring_lock is held,  *)
(* but nobody else who writes the table takes it: raced remembers that a   *)
(* write put back what had changed since the read.                         *)
(***************************************************************************)
Differs(p, old) == ((status[p] \ old) \union (old \ status[p]))
                     \intersect {"CONNECTION", "ENABLE"}

DpcChange ==
  /\ dpc.pc = "change"
  /\ \E new \in {dpc.tmp \union Differs(dpc.port, dpc.old)} :
       /\ change' = [change EXCEPT ![dpc.port] = new]
       /\ dpc' = [dpc EXCEPT !.pc = "complete", !.port = NoPort, !.old = {},
                             !.tmp = {},
                             !.portChanged = @ \/ new # {}]
  /\ raced' = (raced \/ change[dpc.port] # dpc.tmp)
  /\ UNCHANGED <<usb, status, plugged, conn, interrupt, hub, missed, plugs,
                 features, event, corrupt>>

DpcConnEnd ==
  /\ dpc.pc = "complete" /\ dpc.complete = << >>
  /\ conn = << >>
  /\ dpc' = IF dpc.portChanged THEN [dpc EXCEPT !.pc = "process"] ELSE DpcIdle
  /\ UNCHANGED <<usb, ports, event, corrupt>>

-----------------------------------------------------------------------------
(***************************************************************************)
(* XenUsbHub_ProcessHubInterruptEvent, by the DPC or by the hub's thread.  *)
(* Under the endpoint's lock it takes the waiting transfer and looks for a *)
(* changed port; the transfer is completed, or put back, after the lock is *)
(* released.  missed remembers that it found the queue empty while the     *)
(* other had the transfer in its hands.                                    *)
(***************************************************************************)
SomeChange == \E p \in Ports : change[p] # {}

Retrieve(who) ==
  /\ interrupt' = IF interrupt = "queued" THEN who ELSE interrupt
  /\ missed' = (missed \/ interrupt \in {"hub", "dpc"})

(***************************************************************************)
(* Mutant: a port whose change is seen is not reported, the transfer goes  *)
(* back to the queue.                                                      *)
(***************************************************************************)
CompletedNever(found) == "queued"

Completed(found) == IF found THEN "none" ELSE "queued"

DpcRetrieve ==
  /\ dpc.pc = "process"
  /\ Retrieve("dpc")
  /\ dpc' = IF interrupt = "queued"
            THEN [dpc EXCEPT !.pc = "requeue", !.portChanged = SomeChange]
            ELSE DpcIdle
  /\ UNCHANGED <<usb, status, change, plugged, conn, hub, raced, plugs,
                 features, event, corrupt>>

DpcRequeue ==
  /\ dpc.pc = "requeue"
  /\ interrupt' = Completed(dpc.portChanged)
  /\ dpc' = DpcIdle
  /\ UNCHANGED <<usb, status, change, plugged, conn, hub, raced, missed, plugs,
                 features, event, corrupt>>

(***************************************************************************)
(* The hub's interrupt transfer: into the queue of the endpoint first, and *)
(* then a look at the ports.  usbhub keeps one such transfer outstanding.  *)
(***************************************************************************)
HubInterrupt ==
  /\ hub.pc = "idle"
  /\ interrupt = "none"
  /\ interrupt' = "queued"
  /\ hub' = [hub EXCEPT !.pc = "process"]
  /\ UNCHANGED <<usb, status, change, plugged, conn, raced, missed, plugs,
                 features, event, dpc, corrupt>>

HubRetrieve ==
  /\ hub.pc = "process"
  /\ Retrieve("hub")
  /\ hub' = IF interrupt = "queued"
            THEN [hub EXCEPT !.pc = "requeue", !.found = SomeChange]
            ELSE HubIdle
  /\ UNCHANGED <<usb, status, change, plugged, conn, raced, plugs, features,
                 event, dpc, corrupt>>

HubRequeue ==
  /\ hub.pc = "requeue"
  /\ interrupt' = Completed(hub.found)
  /\ hub' = HubIdle
  /\ UNCHANGED <<usb, status, change, plugged, conn, raced, missed, plugs,
                 features, event, dpc, corrupt>>

(***************************************************************************)
(* CLEAR_FEATURE of a change bit or of PORT_ENABLE, SET_FEATURE of         *)
(* PORT_RESET: a field of the table is read ...                            *)
(***************************************************************************)
HubFeature(p, op) ==
  /\ hub.pc = "idle"
  /\ features < MaxFeatures
  /\ features' = features + 1
  /\ hub' = [hub EXCEPT !.pc = "write", !.op = op, !.port = p,
                        !.tmp = IF op \in Bits THEN change[p] ELSE status[p]]
  /\ UNCHANGED <<usb, status, change, plugged, conn, interrupt, raced, missed,
                 plugs, event, dpc, corrupt>>

(***************************************************************************)
(* ... and written.  A reset is over at once: the port is enabled, a       *)
(* change is noted, and the interrupt transfer is looked at.               *)
(***************************************************************************)
HubWrite ==
  /\ hub.pc = "write"
  /\ LET p == hub.port
     IN /\ IF hub.op \in Bits
           THEN /\ change' = [change EXCEPT ![p] = hub.tmp \ {hub.op}]
                /\ raced' = (raced \/ change[p] # hub.tmp)
                /\ UNCHANGED status
           ELSE /\ status' = [status EXCEPT ![p] =
                     IF hub.op = "reset" THEN hub.tmp \union {"ENABLE"}
                     ELSE hub.tmp \ {"ENABLE"}]
                /\ change' = IF hub.op = "reset"
                             THEN [change EXCEPT ![p] = @ \union {"RESET"}]
                             ELSE change
                /\ raced' = \/ raced
                            \/ status[p] # hub.tmp
                            \/ dpc.pc = "change" /\ hub.op = "reset"
  /\ hub' = IF hub.op = "reset" THEN [HubIdle EXCEPT !.pc = "process"] ELSE HubIdle
  /\ UNCHANGED <<usb, plugged, conn, interrupt, missed, plugs, features, event,
                 dpc, corrupt>>

-----------------------------------------------------------------------------
Dpc == \/ DpcStart \/ DpcResponse \/ DpcPut \/ DpcComplete
       \/ DpcConn \/ DpcChange \/ DpcConnEnd \/ DpcRetrieve \/ DpcRequeue

HubStep == HubRetrieve \/ HubRequeue \/ HubWrite

UsbNext == /\ ~corrupt
           /\ \/ \E r \in Urbs : Submit(r) \/ Cancel(r)
              \/ CancelRoutine
              \/ BackendTakes \/ BackendAnswers
              \/ Disconnect \/ FreeRings \/ Connect
              \/ Dpc
              \/ \E p \in Ports : \/ Plug(p)
                                  \/ \E op \in Bits \union {"disable", "reset"} :
                                       HubFeature(p, op)
              \/ HubInterrupt \/ HubStep

UsbSpec == UsbInit /\ [][UsbNext]_usbVars

(***************************************************************************)
(* The DPC and the backend run; a transfer the backend has is answered,    *)
(* sooner or later, as a control transfer or one from a hub driver is.     *)
(***************************************************************************)
UsbFairSpec == /\ UsbSpec
               /\ WF_usbVars(~corrupt /\ Dpc)
               /\ WF_usbVars(~corrupt /\ (BackendTakes \/ BackendAnswers))

-----------------------------------------------------------------------------
(***************************************************************************)
(* As long as nobody cancels and the ring is not taken away under a        *)
(* caller, no partial_pvurb is used after it was freed, and no request is  *)
(* completed twice.  A cancel does both: see the README.                   *)
(***************************************************************************)
MemoryOurs == corrupt => cancels # {} \/ device_state = "DISCONNECTED"

(***************************************************************************)
(* An id is free or belongs to one partial that is on the ring, through    *)
(* exhaustion of the ids and across a suspend: an answer is never given to *)
(* another request.                                                        *)
(***************************************************************************)
IdsAccounted ==
  cancels = {} =>
    /\ \A i \in Ids : i \in ids \/ On(partials[i], ring)
    /\ \A i, j \in Ids \ ids : partials[i] = partials[j] => i = j
    /\ Cardinality(Ids \ ids) = Len(ring)
    /\ (queue # << >> => ids = {} \/ ~LockFree)

(***************************************************************************)
(* A request is completed after the backend has let go of its pages: their *)
(* grants have ended, no id belongs to it any more, and the backend        *)
(* neither works on it nor will.                                           *)
(***************************************************************************)
CompletedIsReleased ==
  cancels = {} => \A r \in Urbs : pvurb[r].state = "done" =>
    /\ ~pvurb[r].granted
    /\ \A i \in (Ids \ ids) \union working : partials[i] # Urb(r)
    /\ \A k \in DOMAIN requests : partials[requests[k]] # Urb(r)

(***************************************************************************)
(* A changed port and a waiting interrupt transfer: somebody is on the way *)
(* to report it.  Not so after missed: a look at the ports that began      *)
(* before the change puts its transfer back after the one that came with   *)
(* the change found none.                                                  *)
(***************************************************************************)
ChangeReported ==
  SomeChange /\ interrupt \in {"queued", "hub", "dpc"} =>
    \/ missed
    \/ hub.pc \in {"process", "write"}
    \/ hub.pc = "requeue" /\ hub.found
    \/ dpc.pc \notin {"idle", "requeue"}
    \/ dpc.pc = "requeue" /\ dpc.portChanged

(***************************************************************************)
(* When the conn ring is empty and nobody is at work on the table, it says *)
(* of every port what the backend said last, unless an update was lost.    *)
(***************************************************************************)
PortsTrue ==
  device_state = "ACTIVE" /\ conn = << >> /\ hub.pc = "idle" =>
    raced \/ \A p \in Ports : plugged[p] <=> "CONNECTION" \in status[p]

(***************************************************************************)
(* A request is completed even when it had to wait for an id.  Not when a  *)
(* suspend took it from the ring, or a cancel took it for another's.       *)
(***************************************************************************)
RequestCompleted ==
  \A r \in Urbs : pvurb[r].state = "sent"
    ~> pvurb[r].state = "done" \/ suspends > 0 \/ cancels # {}

(***************************************************************************)
(* Requests, ids and the memory of both agree until the last of them is    *)
(* released.                                                               *)
(***************************************************************************)
RequestsSound == UsbTypeOK /\ MemoryOurs /\ IdsAccounted /\ CompletedIsReleased

(***************************************************************************)
(* The hub driver learns of every change and finds the ports as they are.  *)
(***************************************************************************)
PortsSound == ChangeReported /\ PortsTrue
=============================================================================
