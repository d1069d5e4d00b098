---------------------------- MODULE NdisMiniport ----------------------------
(***************************************************************************)
(* The NDIS side of xennet (xennet.c and xennet_oid.c): what the adapter   *)
(* reads from the registry, what it tells NDIS, and the OID requests NDIS  *)
(* sends it one at a time, for the NDIS 5 build and the NDIS 6 build (on   *)
(* Windows with NDIS 6.0, which has no scatter/gather, and later).  What   *)
(* Connect and Disconnect do with the backend is module Frontend; here     *)
(* Connect only reads the backend's features.                              *)
(***************************************************************************)
EXTENDS Integers, FiniteSets

CONSTANTS Configs,     \* registry settings: records [sg, gso, csum]
          Backends,    \* features of a backend: records [sg, gso, macParses]
          Lengths,     \* lengths of an information buffer
          Filters,     \* packet filters: sets of packet types
          CsumTasks,   \* checksum tasks: sets of flags
          LargeSends,  \* large-send tasks: records [max, segments, options]
          Lists        \* lengths in bytes of multicast lists

NdisMiniportAssumption ==
    /\ \A c \in Configs : c.sg \in BOOLEAN /\ c.csum \in BOOLEAN /\ c.gso \in Nat
    /\ \A b \in Backends : b.sg \in BOOLEAN /\ b.gso \in BOOLEAN /\ b.macParses \in BOOLEAN
    /\ \A t \in LargeSends : t.max \in Nat
    /\ Lengths \subseteq Nat /\ Lists \subseteq Nat

VARIABLES os,          \* "NDIS5", "NDIS60" or "NDIS61"
          xi,          \* the adapter's information, or NoAdapter
          backend,     \* what the backend's directory says now
          resumed,     \* xi went through a suspend since Initialize
          reply        \* the answer to the last OID request, or NoReply

vars == <<os, xi, backend, resumed, reply>>

NoAdapter == [state |-> "none"]
NoReply == [status |-> "none"]
PageSize == 4096
MaxHeader == 134
MinSegments == 4
MaxLargeSend == 61440
MulticastMax == 32
SupportedFilters == {"directed", "multicast", "broadcast", "promiscuous", "all_multicast"}

Least(a, b) == IF a < b THEN a ELSE b
Vista == os # "NDIS5"
OldNdis == os = "NDIS60"

TypeOK ==
    /\ os \in {"NDIS5", "NDIS60", "NDIS61"} /\ backend \in Backends /\ resumed \in BOOLEAN
    /\ xi.state \in {"none", "ACTIVE", "INACTIVE", "DISCONNECTED"}
    /\ xi.state # "none" => xi.gso \in Nat /\ xi.beGso \in Nat /\ xi.filter \subseteq SupportedFilters
    /\ reply.status \in {"none", "SUCCESS", "NOT_SUPPORTED", "TOO_SHORT", "INVALID_DATA", "MULTICAST_FULL"}
-----------------------------------------------------------------------------
(***************************************************************************)
(* Start and stop of the adapter.                                          *)
(***************************************************************************)
FrontendSg(c) == c.sg /\ ~OldNdis

\* A large send is clipped to what one page holds when the adapter has no scatter/gather.
ClipToPage(gso, sg) == IF sg THEN gso ELSE Least(gso, PageSize - MaxHeader)
FrontendGso(c) == ClipToPage(Least(c.gso, MaxLargeSend), FrontendSg(c))

\* What Connect reads from the backend's directory (a value the front end does not want counts as 0).
BackendGso(b, frontendGso) == IF b.gso THEN frontendGso ELSE 0

\* Mutant: the backend's scatter/gather is not looked at.
ClippedNot(beGso, b) == beGso
Clipped(beGso, b) == ClipToPage(beGso, b.sg)

Adapter(c, active) ==
    LET sg == FrontendSg(c) /\ backend.sg
        beGso == Clipped(BackendGso(backend, FrontendGso(c)), backend)
    IN  [state |-> IF active THEN "ACTIVE" ELSE "INACTIVE",
         feGso |-> FrontendGso(c), feCsum |-> c.csum, beSg |-> backend.sg, beGso |-> beGso,
         sg |-> sg,
         csum |-> Vista /\ c.csum,
         gso |-> IF Vista THEN beGso ELSE 0,
         advertised |-> IF Vista THEN beGso ELSE 0,
         tasks |-> {}, filter |-> {}, lookahead |-> 120, multicast |-> 0]

\* On any failure the memory of xi is freed again (the device stays open: see module Frontend).
Initialize ==
    /\ xi = NoAdapter
    /\ \E c \in Configs, active \in BOOLEAN, registered \in BOOLEAN :
         xi' = IF backend.macParses /\ registered THEN Adapter(c, active) ELSE NoAdapter
    /\ resumed' = FALSE
    /\ UNCHANGED <<os, backend, reply>>

Halt ==
    /\ xi # NoAdapter
    /\ xi' = NoAdapter /\ reply' = NoReply
    /\ UNCHANGED <<os, backend, resumed>>

\* XN_DEVICE_CALLBACK_SUSPEND and RESUME, perhaps on a host whose backend has other features: Connect
\* reads them again, but what was made of them in Initialize is not made again.
Suspend ==
    /\ xi # NoAdapter /\ xi.state = "ACTIVE"
    /\ xi' = [xi EXCEPT !.state = "DISCONNECTED"]
    /\ resumed' = TRUE
    /\ backend' \in Backends
    /\ UNCHANGED <<os, reply>>

Resume ==
    /\ xi # NoAdapter /\ xi.state = "DISCONNECTED"
    /\ xi' = [xi EXCEPT !.state = "ACTIVE", !.beSg = backend.sg, !.beGso = BackendGso(backend, xi.feGso)]
    /\ UNCHANGED <<os, backend, resumed, reply>>

\* Pause, Restart, Reset, CheckForHang, Shutdown, the PnP notices and CancelOidRequest change nothing.
Notices == xi # NoAdapter /\ UNCHANGED vars
-----------------------------------------------------------------------------
(***************************************************************************)
(* The table of OIDs, and the sizes of the structures of the DDK.          *)
(***************************************************************************)
ULong == 4
ULong64 == 8
AddressLength == 6
SizeOf == [VENDOR_DESC |-> 10, PNP_CAPABILITIES |-> 16, LINK_PARAMETERS |-> 32, MODERATION |-> 12,
           ENCAPSULATION |-> 28, STATISTICS |-> 200, ADDRESS_LIST |-> 6, TASK_HEADER |-> 20,
           CSUM_TASK |-> 32, LSO_TASK |-> 36]

ULongQueries == {"HARDWARE_STATUS", "TRANSMIT_BUFFER_SPACE", "RECEIVE_BUFFER_SPACE", "TRANSMIT_BLOCK_SIZE",
                 "RECEIVE_BLOCK_SIZE", "VENDOR_ID", "VENDOR_DRIVER_VERSION", "MAXIMUM_TOTAL_SIZE",
                 "MAXIMUM_SEND_PACKETS", "MEDIA_SUPPORTED", "MEDIA_IN_USE", "MAXIMUM_LOOKAHEAD",
                 "MAXIMUM_LIST_SIZE"}
                \cup (IF Vista THEN {} ELSE {"MAXIMUM_FRAME_SIZE", "LINK_SPEED", "MAC_OPTIONS", "MEDIA_CONNECT_STATUS"})
ULongQuerySets == {"CURRENT_PACKET_FILTER", "CURRENT_LOOKAHEAD"}
Stats == {"XMIT_OK", "RCV_OK", "XMIT_ERROR", "RCV_ERROR", "RCV_NO_BUFFER", "RCV_ERROR_ALIGNMENT",
          "XMIT_ONE_COLLISION", "XMIT_MORE_COLLISIONS"}
Addresses == {"PERMANENT_ADDRESS", "CURRENT_ADDRESS"}
Silent == {"IP4_OFFLOAD_STATS", "IP6_OFFLOAD_STATS"}
Queries5 == {"SUPPORTED_LIST", "DRIVER_VERSION", "PNP_CAPABILITIES", "PNP_QUERY_POWER"}
Queries6 == {"INTERRUPT_MODERATION", "STATISTICS"}
Sets6 == {"LINK_PARAMETERS", "INTERRUPT_MODERATION", "OFFLOAD_ENCAPSULATION"}

Queried == ULongQueries \cup ULongQuerySets \cup Stats \cup Addresses
           \cup {"VENDOR_DESCRIPTION", "MULTICAST_LIST"}
           \cup (IF Vista THEN Queries6 ELSE Queries5 \cup {"TASK_OFFLOAD"})
Settable == ULongQuerySets \cup {"NETWORK_LAYER_ADDRESSES", "MACHINE_NAME", "SET_POWER", "MULTICAST_LIST"}
            \cup (IF Vista THEN Sets6 ELSE {"TASK_OFFLOAD", "PROTOCOL_OPTIONS"})
Oids == Queried \cup Settable \cup Silent

MinLength(oid) ==
    CASE oid \in ULongQueries \cup ULongQuerySets \cup {"SET_POWER"} -> ULong
      [] oid \in Addresses -> AddressLength
      [] oid = "VENDOR_DESCRIPTION" -> SizeOf.VENDOR_DESC
      [] oid = "NETWORK_LAYER_ADDRESSES" -> SizeOf.ADDRESS_LIST
      [] oid = "DRIVER_VERSION" -> 2
      [] oid = "PNP_CAPABILITIES" -> SizeOf.PNP_CAPABILITIES
      [] oid = "LINK_PARAMETERS" -> SizeOf.LINK_PARAMETERS
      [] oid = "INTERRUPT_MODERATION" -> SizeOf.MODERATION
      [] oid = "OFFLOAD_ENCAPSULATION" -> SizeOf.ENCAPSULATION
      [] oid = "STATISTICS" -> SizeOf.STATISTICS
      [] OTHER -> 0

Fails(status) == [status |-> status, needed |-> 0, written |-> 0]
TooShort(n) == [status |-> "TOO_SHORT", needed |-> n, written |-> 0]
Writes(n) == [status |-> "SUCCESS", needed |-> 0, written |-> n]

\* The table is searched, then the length is tested, then the routine.
Dispatch(oid, length, routines, answer) ==
    IF oid \notin Oids THEN Fails("NOT_SUPPORTED")
    ELSE IF length < MinLength(oid) THEN TooShort(MinLength(oid))
    ELSE IF oid \notin routines THEN Fails("NOT_SUPPORTED")
    ELSE answer
-----------------------------------------------------------------------------
(***************************************************************************)
(* Queries.                                                                *)
(***************************************************************************)
Exactly(length, n) == IF length < n THEN TooShort(n) ELSE Writes(n)

\* A counter is given with 64 bits if there is room, with 32 otherwise.
Stat(length) ==
    IF length >= ULong64 THEN Writes(ULong64)
    ELSE IF length >= ULong THEN [Writes(ULong) EXCEPT !.needed = ULong64]
    ELSE TooShort(ULong64)

\* The offload tasks the NDIS 5 adapter offers: a checksum task and a large send task.
OfferedTasks == {"txTcp", "txTcpOptions", "txUdp", "rxIp", "rxIpOptions", "rxTcp", "rxTcpOptions", "rxUdp"}
OfferedLargeSend == [max |-> xi.beGso, segments |-> MinSegments, options |-> FALSE]
TaskOffload(length) ==
    Exactly(length, SizeOf.TASK_HEADER + SizeOf.CSUM_TASK + (IF xi.beGso > 0 THEN SizeOf.LSO_TASK ELSE 0))

QueryRoutine(oid, length) ==
    CASE oid \in Stats -> Stat(length)
      [] oid = "MULTICAST_LIST" -> Exactly(length, xi.multicast * AddressLength)
      [] oid = "SUPPORTED_LIST" -> [Exactly(length, ULong * Cardinality(Oids)) EXCEPT !.written = 0]
      [] oid = "TASK_OFFLOAD" -> TaskOffload(length)
      [] OTHER -> Exactly(length, MinLength(oid))

Query(oid, length) == Dispatch(oid, length, Queried, QueryRoutine(oid, length))
-----------------------------------------------------------------------------
(***************************************************************************)
(* Sets: each routine returns its answer and the adapter it leaves.        *)
(***************************************************************************)
Leaves(status, adapter) == [answer |-> Fails(status), adapter |-> adapter]
Refuses(status) == Leaves(status, xi)
Succeeds(adapter) == Leaves("SUCCESS", adapter)

SetMulticastList(length) ==
    IF length > MulticastMax * AddressLength \/ length % AddressLength # 0
    THEN Refuses("MULTICAST_FULL")
    ELSE Succeeds([xi EXCEPT !.multicast = length \div AddressLength])

SetPacketFilter(filter) ==
    IF filter \subseteq SupportedFilters THEN Succeeds([xi EXCEPT !.filter = filter])
    ELSE Refuses("NOT_SUPPORTED")

SetLookahead(n) == Succeeds([xi EXCEPT !.lookahead = n])

AcceptsCsum(task) ==
    /\ task \cap {"v6", "txIp", "txIpOptions"} = {}
    /\ "rxIpOptions" \in task => "rxIp" \in task
    /\ "txTcpOptions" \in task => "txTcp" \in task
    /\ "rxTcpOptions" \in task => "rxTcp" \in task
AcceptsLargeSend(task) == task.segments = MinSegments /\ ~task.options

\* Mutant: a programmer who follows the comment in this routine disables first and then checks.
SetTaskOffloadDisable(version, csum, lso) ==
    IF ~version \/ (\E t \in csum : ~AcceptsCsum(t)) \/ (\E t \in lso : ~AcceptsLargeSend(t))
    THEN Leaves("INVALID_DATA", [xi EXCEPT !.tasks = {}, !.gso = 0])
    ELSE Succeeds([xi EXCEPT !.csum = @ \/ csum # {}, !.tasks = UNION csum,
                             !.gso = IF lso = {} THEN 0 ELSE (CHOOSE t \in lso : TRUE).max])

\* OID_TCP_TASK_OFFLOAD: all tasks are checked before any of them is taken; a task that is not in the
\* list is switched off (but current_csum_supported stays as it is).  csum, lso: sets of at most one.
SetTaskOffload(version, csum, lso) ==
    IF ~version \/ (\E t \in csum : ~AcceptsCsum(t)) \/ (\E t \in lso : ~AcceptsLargeSend(t))
    THEN Refuses("INVALID_DATA")
    ELSE Succeeds([xi EXCEPT !.csum = @ \/ csum # {}, !.tasks = UNION csum,
                             !.gso = IF lso = {} THEN 0 ELSE (CHOOSE t \in lso : TRUE).max])

SetOffloadEncapsulation(ethernet, enabled) ==
    IF ~ethernet THEN Refuses("NOT_SUPPORTED")
    ELSE CASE enabled = "ON" -> Succeeds([xi EXCEPT !.csum = xi.feCsum, !.gso = IF xi.feCsum THEN 1 ELSE 0])
           [] enabled = "OFF" -> Succeeds([xi EXCEPT !.csum = FALSE, !.gso = 0])
           [] OTHER -> Succeeds(xi)

\* An address that does not fit in the buffer is refused; the addresses are only logged.
SetNetworkLayerAddresses(fits) == IF fits THEN Succeeds(xi) ELSE Refuses("INVALID_DATA")

\* What the routine of oid may do with the buffers NDIS may pass.
SetResults(oid, length) ==
    CASE oid = "MULTICAST_LIST" -> {SetMulticastList(length)}
      [] oid = "CURRENT_PACKET_FILTER" -> {SetPacketFilter(f) : f \in Filters}
      [] oid = "CURRENT_LOOKAHEAD" -> {SetLookahead(120)}
      [] oid = "TASK_OFFLOAD" ->
           {SetTaskOffload(v, c, l) : v \in BOOLEAN, c \in {{}} \cup {{t} : t \in CsumTasks},
                                      l \in {{}} \cup {{t} : t \in {u \in LargeSends : u.max <= xi.beGso}}}
      [] oid = "OFFLOAD_ENCAPSULATION" ->
           {SetOffloadEncapsulation(e, on) : e \in BOOLEAN, on \in {"ON", "OFF", "NO_CHANGE"}}
      [] oid = "NETWORK_LAYER_ADDRESSES" -> {SetNetworkLayerAddresses(f) : f \in BOOLEAN}
      [] oid \in {"SET_POWER", "LINK_PARAMETERS", "INTERRUPT_MODERATION"} -> {Refuses("NOT_SUPPORTED")}
      [] OTHER -> {Succeeds(xi)}

SetAnswers(oid, length) ==
    LET early == Dispatch(oid, length, Settable, Fails("SUCCESS"))
    IN  IF early.status = "SUCCESS" THEN SetResults(oid, length)
        ELSE {[answer |-> early, adapter |-> xi]}
-----------------------------------------------------------------------------
(***************************************************************************)
(* NDIS sends one request at a time and takes its answer.                  *)
(***************************************************************************)
RequestOids == Oids \cup {"unknown"}

QueryInformation ==
    /\ xi # NoAdapter /\ reply = NoReply
    /\ \E oid \in RequestOids, length \in Lengths :
       \E a \in {Query(oid, length)} :
         reply' = [kind |-> "query", oid |-> oid, length |-> length,
                   status |-> a.status, needed |-> a.needed, written |-> a.written]
    /\ UNCHANGED <<os, xi, backend, resumed>>

SetInformation ==
    /\ xi # NoAdapter /\ reply = NoReply
    /\ \E oid \in RequestOids, length \in Lengths \cup Lists : \E r \in SetAnswers(oid, length) :
         /\ reply' = [kind |-> "set", oid |-> oid, length |-> length, status |-> r.answer.status,
                      needed |-> r.answer.needed, written |-> 0]
         /\ xi' = r.adapter
    /\ UNCHANGED <<os, backend, resumed>>

TakeReply ==
    /\ reply # NoReply
    /\ reply' = NoReply
    /\ UNCHANGED <<os, xi, backend, resumed>>

Init ==
    /\ os \in {"NDIS5", "NDIS60", "NDIS61"}
    /\ xi = NoAdapter /\ resumed = FALSE /\ reply = NoReply
    /\ backend \in Backends

Next ==
    \/ Initialize \/ Halt \/ Suspend \/ Resume \/ Notices
    \/ QueryInformation \/ SetInformation \/ TakeReply

Spec == Init /\ [][Next]_vars
-----------------------------------------------------------------------------
(***************************************************************************)
(* Properties.                                                             *)
(***************************************************************************)
\* NDIS sizes its buffers by what it is told: no answer says that more bytes were written than the
\* buffer holds, and one that asks for more room is satisfied with the room it asked for.
RepliesSound ==
    [][reply = NoReply /\ reply' # NoReply =>
         /\ reply'.written <= reply'.length
         /\ reply'.status = "TOO_SHORT" => reply'.needed > reply'.length
         /\ reply'.kind = "query" /\ reply'.status = "TOO_SHORT"
              => Query(reply'.oid, reply'.needed).status # "TOO_SHORT"]_vars

\* A request that is refused leaves the adapter as it was: a list of tasks of which one is invalid
\* does not switch some of the others.
RefusedChangesNothing ==
    [][reply = NoReply /\ reply'.status \notin {"none", "SUCCESS"} => xi' = xi]_vars

\* The send path asserts that a packet ends in its first page when there is no scatter/gather
\* (xennet_tx.c:281): NDIS is never told of, and can never switch on, a large send that does not fit,
\* whatever the registry, the version of NDIS and the backend say; and the tasks that are offered are
\* accepted.  For NDIS 5 this is lost with the first resume, which reads the backend's value again
\* and does not clip it.
LargestSend == IF Vista THEN xi.advertised ELSE xi.gso
SendsFit ==
    xi # NoAdapter /\ (Vista \/ ~resumed) =>
      /\ xi.sg \/ LargestSend + MaxHeader <= PageSize
      /\ SetTaskOffload(TRUE, {OfferedTasks}, {OfferedLargeSend}).answer.status = "SUCCESS"

\* What every OID request does to the adapter and to NDIS's buffer.
OidsSound == RepliesSound /\ RefusedChangesNothing

\* The adapter is never left with more than it can send.
AdapterSound == TypeOK /\ SendsFit
=============================================================================
