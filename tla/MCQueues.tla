------------------------------ MODULE MCQueues ------------------------------
(***************************************************************************)
(* What waits in a queue for somebody else to go on with it: packets for   *)
(* room on the transmit ring, reads of the xenbus device for data.  The    *)
(* modules have no state in common: the first state chooses the one that   *)
(* runs, while the other stays where it begins.                            *)
(***************************************************************************)
EXTENDS NetTx, TLC

CONSTANTS n1, n2, p1, p2, p3

\* Two lists: one of two packets, the first with two fragments and GSO information, and
\* one of a single packet.  With RING_SIZE = 4 the second packet waits for answers to the first.
MCNetBuffers == (n1 :> <<p1, p2>>) @@ (n2 :> <<p3>>)
MCFrags      == (p1 :> 2) @@ (p2 :> 1) @@ (p3 :> 1)

CONSTANTS Threads, Writer, Script, Lengths, MaxWrite, MAX_WATCH_ENTRIES, MaxEvents, Nobody
VARIABLES reading, entering, io_queue, read_list, result, w, buffer, len, written, watch_list,
          freed, refs, table, callee, owed, cleanup, key, fired, refusals, queued, given,
          overrun, stranded
VARIABLE runs   \* the module that runs

\* A watch, then a message that goes to XenBus_Raw.
MCScript == <<"WATCH", "READ">>

\* Instances of the DPC are interchangeable, and so are the threads that read.
Symmetry == Permutations(Dpcs) \cup Permutations(Threads \ {Writer})

Device == INSTANCE XenbusDevice WITH failures <- refusals

ASSUME MCQueuesAssumption == Device!XenbusDeviceAssumption

device == <<reading, entering, io_queue, read_list, result, w, buffer, len, written, watch_list,
            freed, refs, table, callee, owed, cleanup, key, fired, refusals, queued, given,
            overrun, stranded>>

MCInit == runs \in {"NetTx", "XenbusDevice"} /\ Init /\ Device!Init

MCNext ==
  \/ runs = "NetTx" /\ Next /\ UNCHANGED <<runs, device>>
  \/ runs = "XenbusDevice" /\ Device!Next /\ UNCHANGED <<runs, vars>>

MCSpec == MCInit /\ [][MCNext]_<<runs, vars, device>>
-----------------------------------------------------------------------------
\* Reads of the xenbus device get every message once and in order, none waits beside data
\* that came before it, and an event finds its watch in place (XenbusDevice).
DeviceSound == Device!DeviceSound
=============================================================================
