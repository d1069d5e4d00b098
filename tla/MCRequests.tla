----------------------------- MODULE MCRequests -----------------------------
(***************************************************************************)
(* What is made of requests from above: xenstore requests, OIDs, URBs and  *)
(* SRBs.  The modules have no state in common: the first state chooses     *)
(* one, which then runs, while the others stay where they begin.           *)
(***************************************************************************)
EXTENDS XenBus

\* VbdScsi: one command of each kind, as in MCVbdScsi.
Kinds == {[op |-> o] : o \in {"READ", "READ_CAPACITY", "REQUEST_SENSE", "UNKNOWN", "FLUSH", "RESET_BUS"}}
             \cup {[op |-> "INQUIRY", page |-> "BLOCK_LIMITS"]}

\* NdisMiniport: with and without scatter/gather and large sends, in the registry and in
\* the backend, and a MAC address that cannot be read.
Configurations == {[sg |-> s, gso |-> 70000, csum |-> s] : s \in BOOLEAN}
BackendFeatures == {[sg |-> s, gso |-> TRUE, macParses |-> TRUE] : s \in BOOLEAN}
                   \cup {[sg |-> TRUE, gso |-> FALSE, macParses |-> FALSE]}
BufferLengths == {0, 4, 200}
PacketFilters == {{"directed"}, {"functional"}}
Checksums == {{"rxIp", "txTcp"}, {"rxIpOptions"}}
LargeSendTasks == {[max |-> 3000, segments |-> 4, options |-> FALSE]}
MulticastBytes == {7, 12}

\* UsbHub: a device of two configurations, the first of two interfaces.
Devices == {<< <<2, 0>>, <<1>> >>}

CONSTANTS Srbs, Commands, DeviceType, Shadows, MaxSectors, Limit, SerialNumber
CONSTANTS Configs, Backends, Lengths, Filters, CsumTasks, LargeSends, Lists
CONSTANTS Handles, DevIds, Ports, Shapes, Urbs, Buffers

VARIABLE runs   \* the module that runs
VARIABLES xvdd, xvsd, srb, list, answers, filter, scsi_pc, untold
VARIABLES os, xi, backend, resumed, reply
VARIABLES hub, addresses, dev, plugged, urb, misused

Scsi == INSTANCE VbdScsi WITH pc <- scsi_pc
Ndis == INSTANCE NdisMiniport
Usb == INSTANCE UsbHub

ASSUME MCRequestsAssumption ==
  Scsi!VbdScsiAssumption /\ Ndis!NdisMiniportAssumption /\ Usb!UsbHubAssumption

scsi == <<xvdd, xvsd, srb, list, answers, filter, scsi_pc, untold>>
xenstore == <<pc, arg, xb_request_mutex, xb_request_complete_event, xb_reply, Active,
              ServiceRoutine, Path, callee, workitems, connected, evt, dpc, xb_msg, xb_msg_offset,
              req, rsp, registered, out, awake, fired, failures, suspends, halted, removed>>
ndis == <<os, xi, backend, resumed, reply>>
usb == <<hub, addresses, dev, plugged, urb, misused>>
all == <<runs, scsi, xenstore, ndis, usb>>

Blocks(A) == runs = "VbdScsi" /\ A /\ UNCHANGED <<runs, xenstore, ndis, usb>>
Asks(A) == runs = "XenBus" /\ A /\ UNCHANGED <<runs, scsi, ndis, usb>>
Queries(A) == runs = "NdisMiniport" /\ A /\ UNCHANGED <<runs, scsi, xenstore, usb>>
Plugs(A) == runs = "UsbHub" /\ A /\ UNCHANGED <<runs, scsi, xenstore, ndis>>

MCInit ==
  /\ runs \in {"VbdScsi", "XenBus", "NdisMiniport", "UsbHub"}
  /\ Init /\ Scsi!Init /\ Ndis!Init /\ Usb!Init
  /\ runs # "NdisMiniport" => os = "NDIS5" /\ backend.sg /\ backend.gso
  /\ runs # "UsbHub" => \A p \in DOMAIN plugged : plugged[p] = <<>>
  /\ runs # "VbdScsi" => xvdd.state = "ACTIVE"

MCNext ==
  \/ Blocks(Scsi!Next)
  \/ Asks(Next)
  \/ Queries(Ndis!Next)
  \/ Plugs(Usb!Next)

MCSpec == MCInit /\ [][MCNext]_all
-----------------------------------------------------------------------------
\* Every answer to an OID request fits NDIS's buffer and can be had with the room it asks for,
\* and a refused request changes nothing (NdisMiniport).
OidsSound == Ndis!OidsSound

\* The adapter is never left with a large send that it cannot send (NdisMiniport).
AdapterSound == Ndis!AdapterSound

\* No two USB devices share an address, every URB is answered once, and no descriptor goes
\* beyond its buffer (UsbHub).
HubSound == Usb!HubSound

\* What a command is answered does not depend on the state: TLC works this out once.
AnswersFit == Scsi!Fits

\* The miniport loses no sense data and counts the requests it has; what it answers fits
\* (VbdScsi!ScsiSound).
ScsiSound ==
  Scsi!SenseSound /\ Scsi!OutstandingExact /\ (Scsi!Processing => AnswersFit)
=============================================================================
