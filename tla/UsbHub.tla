------------------------------- MODULE UsbHub -------------------------------
(***************************************************************************)
(* The root hub of xenusb as the Windows hub driver sees it: the hub's PDO *)
(* and the interface it hands out (xenusb_hub.c), how a device is created, *)
(* given an address, read descriptor by descriptor and removed again, and  *)
(* what becomes of an URB for the hub or for a device (xenusb_decode.c,    *)
(* xenusb_huburb.c, xenusb_devurb.c).  The ring the requests go through    *)
(* and the table of ports are module Usb; here the backend just answers.   *)
(*                                                                         *)
(* Where the driver frees or reads what was never written, the model stops *)
(* with the reason in misused.                                             *)
(***************************************************************************)
EXTENDS Integers, FiniteSets, Sequences

CONSTANTS Handles,     \* device handles
          DevIds,      \* what dev_id_ss holds: 2 .. DEV_ID_COUNT - 1
          Ports,       \* ports a device may be plugged into
          Shapes,      \* devices: the number of endpoints of every interface of every configuration
          Urbs,        \* URBs, used once
          Buffers      \* lengths of the hub driver's buffers, at least a configuration descriptor

VARIABLES hub,         \* the PDO: "none", "created" (interface not handed out), "open"
          addresses,   \* dev_id_ss: how often every address is on it
          dev,         \* the devices, by handle
          plugged,     \* what is plugged into every port
          urb,         \* the URBs
          misused      \* why memory was used that holds nothing, see above

vars == <<hub, addresses, dev, plugged, urb, misused>>

NoDevice == [state |-> "none"]
NewUrb == [state |-> "new"]
Root == "root"
NothingPlugged == << >>

Fine == misused = {}
Misuse(why) == misused' = {why} /\ UNCHANGED <<hub, addresses, dev, plugged, urb>>
-----------------------------------------------------------------------------
(***************************************************************************)
(* The hub's PDO.                                                          *)
(***************************************************************************)
\* XenUsb_EvtChildListCreateDevice: a full stack of addresses, the root hub's own descriptors, queues;
\* when the framework refuses a call there is no PDO.
CreateHub ==
    /\ Fine /\ hub = "none"
    /\ \E created \in BOOLEAN : hub' = IF created THEN "created" ELSE "none"
    /\ addresses' = [a \in DevIds |-> 1]
    /\ UNCHANGED <<dev, plugged, urb, misused>>

\* An interface is handed out in a version that is known and only with the size of its structure; the
\* others of the hub change nothing.
QueryInterface ==
    /\ Fine /\ hub # "none"
    /\ \E guid \in {"HUB", "USBDI"}, known \in BOOLEAN :
         hub' = IF guid = "HUB" /\ known THEN "open" ELSE hub
    /\ UNCHANGED <<addresses, dev, plugged, urb, misused>>

(***************************************************************************)
(* Operations of the hub that leave everything as it is.                   *)
(***************************************************************************)
Unchanged == Fine /\ hub = "open" /\ UNCHANGED vars

\* Every IOCTL of an application is refused.
DeviceControl == Unchanged

\* Those of a driver, but for SUBMIT_URB, are answered with constants (names, the hub's own handle, a port
\* that is enabled and connected whatever the port) or refused.
InternalDeviceControl == Unchanged

\* D0Entry writes a name to the registry, D0Exit and the resource callbacks nothing; the queue of URBs
\* is power managed by the framework.
Power == Unchanged

\* Routines about the controller (refused even when they answer) and the hub, which always has 8 ports.
HubInformation == Unchanged

\* Routines for root hub notifications, wake-up, container ids and the like, and those of the USBDI
\* interface: constants, refusals and void routines.
OtherRoutines == Unchanged

Routines == DeviceControl \/ InternalDeviceControl \/ Power \/ HubInformation \/ OtherRoutines

-----------------------------------------------------------------------------
(***************************************************************************)
(* A device is created and initialised, by calls of the hub driver.  Every *)
(* request waits for the backend, at most ten seconds.                     *)
(***************************************************************************)
Plug(p) ==
    /\ Fine
    /\ \E s \in Shapes \cup {NothingPlugged} : s # plugged[p] /\ plugged' = [plugged EXCEPT ![p] = s]
    /\ UNCHANGED <<hub, addresses, dev, urb, misused>>

CreateUsbDevice(h, p) ==
    /\ Fine /\ hub = "open" /\ dev[h] = NoDevice /\ plugged[p] # NothingPlugged
    /\ dev' = [dev EXCEPT ![h] = [state |-> "created", port |-> p, address |-> 0,
                                  answered |-> FALSE, tree |-> << >>, configs |-> 0]]
    /\ UNCHANGED <<hub, addresses, plugged, urb, misused>>

Moves(h, state) == [dev EXCEPT ![h].state = state]

Takes(a) == [addresses EXCEPT ![a] = @ - 1]

\* The address is taken before anything can fail.
InitializeUsbDevice(h) ==
    /\ Fine /\ dev[h].state = "created"
    /\ \E a \in {b \in DevIds : addresses[b] > 0}, allocated \in BOOLEAN :
         /\ addresses' = Takes(a)
         /\ dev' = [dev EXCEPT ![h].address = a, ![h].state = IF allocated THEN "addressing" ELSE "failed"]
    /\ UNCHANGED <<hub, plugged, urb, misused>>

\* A request that is not answered in time fails; that the device answered with an error is not seen.
SetAddress(h) ==
    /\ Fine /\ dev[h].state = "addressing"
    /\ \/ dev' = Moves(h, "failed")
       \/ dev' = [Moves(h, "describing") EXCEPT ![h].answered = plugged[dev[h].port] # NothingPlugged]
    /\ UNCHANGED <<hub, addresses, plugged, urb, misused>>

Answers(h) == dev[h].answered /\ plugged[dev[h].port] # NothingPlugged

GetDeviceDescriptor(h) ==
    /\ Fine /\ dev[h].state = "describing"
    /\ \/ dev' = Moves(h, "failed") /\ UNCHANGED <<hub, addresses, plugged, urb, misused>>
       \/ ~Answers(h) /\ Misuse("unread descriptor")
       \/ /\ Answers(h)
          /\ dev' = [Moves(h, "configuring") EXCEPT ![h].configs = Len(plugged[dev[h].port])]
          /\ UNCHANGED <<hub, addresses, plugged, urb, misused>>

\* One configuration after the other, with its interfaces and endpoints.
Built(h) == Len(dev[h].tree)
GetConfiguration(h) ==
    /\ Fine /\ dev[h].state = "configuring" /\ Built(h) < dev[h].configs
    /\ \/ dev' = Moves(h, "failed") /\ UNCHANGED <<hub, addresses, plugged, urb, misused>>
       \/ /\ ~(Answers(h) /\ Built(h) < Len(plugged[dev[h].port]))
          /\ Misuse("unread descriptor")
       \/ /\ Answers(h) /\ Built(h) < Len(plugged[dev[h].port])
          /\ dev' = [dev EXCEPT ![h].tree = Append(@, plugged[dev[h].port][Built(h) + 1])]
          /\ UNCHANGED <<hub, addresses, plugged, urb, misused>>

\* The first configuration is the active one; the queue comes last.
CreateUrbQueue(h) ==
    /\ Fine /\ dev[h].state = "configuring" /\ Built(h) = dev[h].configs
    /\ \/ dev' = Moves(h, "ready")
       \/ dev' = Moves(h, "failed")
    /\ UNCHANGED <<hub, addresses, plugged, urb, misused>>
-----------------------------------------------------------------------------
(***************************************************************************)
(* The device is removed, ready or not.  What is freed is what the device  *)
(* descriptor, the configurations and the interfaces count: a device whose *)
(* initialisation failed half way counts what was never written.           *)
(***************************************************************************)
Whole(h) == dev[h].configs > 0 /\ Built(h) = dev[h].configs
Queued(h) == {u \in Urbs : urb[u].state = "queued" /\ urb[u].to = h}

\* Mutant: the address goes back to the stack only with a device that was ready.
PutBackIfReady(h) == IF dev[h].state = "ready" THEN [addresses EXCEPT ![dev[h].address] = @ + 1] ELSE addresses
PutBack(h) == [addresses EXCEPT ![dev[h].address] = @ + 1]

\* The hub driver removes a device none of whose URBs is still in its queue; those the backend has may
\* be there: the driver does not look ("check if there are no pending requests").
RemoveUsbDevice(h) ==
    /\ Fine /\ dev[h].state \in {"ready", "failed"} /\ Queued(h) = {}
    /\ \/ ~Whole(h) /\ Misuse("half built")
       \/ /\ Whole(h)
          /\ addresses' = PutBack(h)
          /\ dev' = [dev EXCEPT ![h] = NoDevice]
          /\ UNCHANGED <<hub, plugged, urb, misused>>

(***************************************************************************)
(* Answers about a device that is ready.                                   *)
(***************************************************************************)
HeaderOf == [device |-> 18, configuration |-> 9, interface |-> 9, endpoint |-> 7, information |-> 44, pipe |-> 16]
Least(a, b) == IF a < b THEN a ELSE b
EndpointsOf(config) == LET sum[i \in 0 .. Len(config)] == IF i = 0 THEN 0 ELSE sum[i - 1] + config[i]
                       IN  sum[Len(config)]
TotalLength(config) == HeaderOf.configuration + HeaderOf.interface * Len(config)
                       + HeaderOf.endpoint * EndpointsOf(config)

\* A device has interfaces in every configuration; that their endpoints add up to a number follows from
\* that by induction.
UsbHubAssumption ==
    /\ IsFiniteSet(Handles) /\ Buffers \subseteq Nat
    /\ \A s \in Shapes : /\ s \in Seq(Seq(Nat) \ {<< >>})
                         /\ \A i \in 1 .. Len(s) : EndpointsOf(s[i]) \in Nat

\* What is written to the caller's buffer and what the caller is told was.
GetUsbDescriptors(h, length) ==
    [written |-> Least(TotalLength(dev[h].tree[1]), length), told |-> TotalLength(dev[h].tree[1])]
RequiredSize(h) == HeaderOf.information + HeaderOf.pipe * dev[h].tree[1][1]
QueryDeviceInformation(h, length) ==
    [written |-> IF length < RequiredSize(h) THEN 0 ELSE RequiredSize(h), told |-> RequiredSize(h)]
-----------------------------------------------------------------------------
(***************************************************************************)
(* URBs.  The functions of usb.h: control transfers with a setup packet of *)
(* their own or one made from the function; vendor requests and those for  *)
(* an endpoint, which are decoded and not served; GET_STATUS, which would  *)
(* be served and is not decoded; the others.                               *)
(***************************************************************************)
Functions == {"SELECT_CONFIGURATION", "SELECT_INTERFACE", "CONTROL", "VENDOR", "GET_STATUS", "BULK",
              "RESET_PIPE", "ABORT_PIPE", "OTHER"}

Decode(f) ==
    CASE f \in {"CONTROL", "VENDOR"} -> "COMPLETE"
      [] f \in {"SELECT_CONFIGURATION", "SELECT_INTERFACE"} -> "INCOMPLETE"
      [] f \in {"BULK", "RESET_PIPE", "ABORT_PIPE"} -> "NOT_CONTROL"
      [] OTHER -> "UNKNOWN"

\* A bulk transfer and a reset name an endpoint of the device, by a handle they got with SELECT_CONFIGURATION.
SubmitUrb(u, to, f) ==
    /\ Fine /\ hub = "open" /\ urb[u] = NewUrb
    /\ to # Root => dev[to].state = "ready"
    /\ urb' = [urb EXCEPT ![u] = [state |-> "queued", to |-> to, f |-> f, pipe |-> << >>, setup |-> FALSE,
                                  ok |-> FALSE, answers |-> 0]]
    /\ UNCHANGED <<hub, addresses, dev, plugged, misused>>

Answered(u, ok) == [urb EXCEPT ![u].state = "done", ![u].ok = ok, ![u].answers = @ + 1]

\* The root hub selects its only configuration whatever it is asked for; it has no other interface.
HubSelect(u) ==
    \/ urb[u].f = "SELECT_CONFIGURATION" /\ urb' = Answered(u, TRUE)
    \/ urb[u].f = "SELECT_INTERFACE" /\ urb' = Answered(u, FALSE)

\* Status, descriptors and features of the hub and its ports, if the request is one of those.
HubControl(u) == urb[u].f = "CONTROL" /\ \E known \in BOOLEAN : urb' = Answered(u, known)

HubPipe(u) == urb[u].f \in {"RESET_PIPE", "ABORT_PIPE"} /\ urb' = Answered(u, TRUE)
HubRefuses(u) == (urb[u].f = "VENDOR" \/ Decode(urb[u].f) = "UNKNOWN") /\ urb' = Answered(u, FALSE)

\* All that is answered at once; the interrupt transfer waits in its queue until a port has changed.
\* The decoder reads the configuration before it is known that there is one.
HubUrb(u) ==
    /\ Fine /\ urb[u].state = "queued" /\ urb[u].to = Root
    /\ \/ /\ \/ HubSelect(u) \/ HubControl(u) \/ HubPipe(u) \/ HubRefuses(u)
             \/ urb[u].f = "BULK" /\ urb' = [urb EXCEPT ![u].state = "waiting"]
          /\ UNCHANGED <<hub, addresses, dev, plugged, misused>>
       \/ urb[u].f = "SELECT_CONFIGURATION" /\ Misuse("no configuration")

\* Pipes are made when the device is read, from the address it was given.
PipeOf(h) == <<dev[h].address, dev[h].port>>
Sent(u, setup) == [urb EXCEPT ![u].state = "waiting", ![u].pipe = PipeOf(urb[u].to), ![u].setup = setup]

\* A configuration is looked up by its value, and its interfaces and their pipes are handed out.
Select(u) ==
    /\ urb[u].f = "SELECT_CONFIGURATION"
    /\ \/ Misuse("no configuration")
       \/ urb' = Sent(u, TRUE) /\ UNCHANGED <<hub, addresses, dev, plugged, misused>>

Control(u) ==
    /\ urb[u].f \in {"SELECT_INTERFACE", "RESET_PIPE", "CONTROL", "GET_STATUS"}
    /\ urb' = Sent(u, urb[u].f # "GET_STATUS" \/ Decode("GET_STATUS") = "COMPLETE")
    /\ UNCHANGED <<hub, addresses, dev, plugged, misused>>

\* A request that cannot be formatted is completed and sent all the same.
Bulk(u) ==
    /\ urb[u].f = "BULK"
    /\ \/ Misuse("completed and sent")
       \/ urb' = Sent(u, TRUE) /\ UNCHANGED <<hub, addresses, dev, plugged, misused>>
       \/ urb' = Answered(u, FALSE) /\ UNCHANGED <<hub, addresses, dev, plugged, misused>>

\* Aborting a pipe is faked; the rest is not served.
Refuse(u) ==
    /\ urb[u].f \in {"ABORT_PIPE", "VENDOR", "OTHER"}
    /\ urb' = Answered(u, urb[u].f = "ABORT_PIPE")
    /\ UNCHANGED <<hub, addresses, dev, plugged, misused>>

DeviceUrb(u) ==
    /\ Fine /\ urb[u].state = "queued" /\ urb[u].to # Root
    /\ \/ Decode(urb[u].f) = "UNKNOWN" /\ urb' = Answered(u, FALSE) /\ UNCHANGED <<hub, addresses, dev, plugged, misused>>
       \/ Decode(urb[u].f) # "UNKNOWN" /\ (Select(u) \/ Control(u) \/ Bulk(u) \/ Refuse(u))

\* The backend's answer, the ten seconds, or a change of a port: the completion uses the request only.
Answer(u) ==
    /\ Fine /\ urb[u].state = "waiting"
    /\ \E ok \in BOOLEAN : urb' = Answered(u, ok)
    /\ UNCHANGED <<hub, addresses, dev, plugged, misused>>

Stopped == ~Fine /\ UNCHANGED vars

Init ==
    /\ hub = "none" /\ misused = {}
    /\ addresses = [a \in DevIds |-> 0]
    /\ dev = [h \in Handles |-> NoDevice]
    /\ plugged \in [Ports -> Shapes \cup {NothingPlugged}]
    /\ urb = [u \in Urbs |-> NewUrb]

Next ==
    \/ CreateHub \/ QueryInterface \/ Routines \/ Stopped
    \/ \E p \in Ports : Plug(p) \/ \E h \in Handles : CreateUsbDevice(h, p)
    \/ \E h \in Handles :
         \/ InitializeUsbDevice(h) \/ SetAddress(h) \/ GetDeviceDescriptor(h) \/ GetConfiguration(h)
         \/ CreateUrbQueue(h) \/ RemoveUsbDevice(h)
    \/ \E u \in Urbs :
         \/ \E to \in Handles \cup {Root}, f \in Functions : SubmitUrb(u, to, f)
         \/ HubUrb(u) \/ DeviceUrb(u) \/ Answer(u)

Spec == Init /\ [][Next]_vars
-----------------------------------------------------------------------------
Live == {h \in Handles : dev[h].state \notin {"none", "created"}}

(***************************************************************************)
(* Every device address is either on dev_id_ss, once, or belongs to one    *)
(* device from the start of its initialisation to its removal, however far *)
(* the initialisation came: no two devices are ever addressed alike, and   *)
(* none is lost to a failure (InitializeUsbDevice, RemoveUsbDevice).       *)
(***************************************************************************)
AddressesSound ==
    hub # "none" =>
        \A a \in DevIds : addresses[a] + Cardinality({h \in Live : dev[h].address = a}) = 1

(***************************************************************************)
(* An URB is answered exactly once, whatever its device went through, and  *)
(* never well if its function is one the decoder does not know; what is    *)
(* sent to the backend carries a setup packet the decoder filled in        *)
(* (decode_data is not initialised); and no descriptor is written beyond   *)
(* the buffer it is for, while the size told is enough for a second call.  *)
(***************************************************************************)
AnswersSound ==
    /\ \A u \in Urbs :
         /\ urb[u].state \in {"queued", "waiting"} => urb[u].answers = 0
         /\ urb[u].state = "done" => urb[u].answers = 1
         /\ urb[u].state = "waiting" /\ urb[u].to # Root => urb[u].setup
         /\ urb[u].state = "done" /\ urb[u].f \in {"VENDOR", "GET_STATUS", "OTHER"} => ~urb[u].ok
    /\ \A h \in Handles : dev[h].state = "ready" => \A length \in Buffers :
         LET first == GetUsbDescriptors(h, length)
             query == QueryDeviceInformation(h, length)
         IN  /\ first.written <= length /\ GetUsbDescriptors(h, first.told).written = first.told
             /\ query.written <= length /\ QueryDeviceInformation(h, query.told).written = query.told

(***************************************************************************)
(* Addresses and answers, in whatever order devices come, fail and go.     *)
(***************************************************************************)
HubSound == AddressesSound /\ AnswersSound
=============================================================================
