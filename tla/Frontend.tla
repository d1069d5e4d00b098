------------------------------ MODULE Frontend ------------------------------
(***************************************************************************)
(* A child device of the bus driver through its life: the network          *)
(* (xennet/xennet_common.c, xennet.c) or block (xenvbd_common/common_xen.h,*)
(* xenvbd_filter) front end connects to its backend, is suspended and      *)
(* resumed by the bus driver (xenpci_fdo.c, xenpci_pdo.c) and halted.      *)
(*                                                                         *)
(* Four actors share the state of the device: the Plug and Play thread,    *)
(* the work items that suspend the domain, the xenbus thread that runs the *)
(* watch on the backend's state, and the backend.  Front and back end      *)
(* follow each other's "state" key.                                        *)
(*                                                                         *)
(* The Plug and Play thread does nothing with the device during a suspend  *)
(* and none begins while it works: nothing in the code ensures this (the   *)
(* comment at xenpci_fdo.c:473 asks how), so it is an assumption here.     *)
(* The rings' contents are those of NetTx, NetRx and VbdRing; RemWatch and *)
(* AddWatch wait for a running callback, as XenBus shows.                  *)
(***************************************************************************)
EXTENDS Naturals, FiniteSets

CONSTANTS
  Items,            \* work items running XenPci_SuspendResume
  Pnp, NoOne,
  MAX_TRIES,        \* how often XenNet_Connect waits a second: 6
  MaxHalts, MaxSleeps, MaxFailures  \* bounds: halts of the device; sleeps; faults of the
                    \* backend or of the initialisation

ASSUME FrontendAssumption ==
  MAX_TRIES \in Nat /\ Pnp \notin Items /\ NoOne \notin Items \cup {Pnp}

VARIABLES
  kind,             \* which driver runs the device
  hidden,           \* qemu keeps the emulated device: the front end stays inactive
  fe, be, mapped,   \* the state keys in xenstore; the backend has the rings mapped
  watch, fired,     \* the watch on be is registered; xenstored has an event for it
  cb,               \* XenPci_BackendStateCallback: next step, the state it read
  device_callback,  \* XnOpenDevice has set it
  xi,               \* the context of the callback is allocated
  device_state, backend_state, backend_event,
  rings, bound,     \* the rings are granted; the event channel is bound
  pnp,              \* where the device is in its life
  item, suspend_state, mutex, xenbus,  \* the work items; the bus driver
  by, pc, tries,    \* the thread inside the driver, its next step
  eject, ejectable, \* WdfPdoRequestEject called; the backend began a closing (history)
  faults,           \* what went wrong so far (history)
  halts, sleeps, failures

store  == <<fe, be, mapped, watch, fired>>
driver == <<device_callback, xi, device_state, backend_state, backend_event, rings, bound>>
bus    == <<item, suspend_state, mutex, xenbus>>
thread == <<by, pc, tries>>
config == <<kind, hidden>>
bounds == <<halts, sleeps, failures>>
past   == <<eject, ejectable, faults>>
vars   == <<config, store, cb, driver, pnp, bus, thread, past, bounds>>

XenbusStates == {"Unknown", "Initialising", "InitWait", "Initialised", "Connected",
                 "Closing", "Closed"}
InitXxx == {"Initialising", "InitWait", "Initialised"}
Faults  == {"backendClosed", "connectFailed", "initFailed", "cancelled", "watchLost"}

Net == kind = "net"
Vbd == kind = "vbd"
Suspending == by \in Items   \* the parameter suspend of Connect and Disconnect

Init ==
  /\ kind \in {"net", "vbd"} /\ hidden \in BOOLEAN
  /\ fe = "Initialising" /\ be = "Initialising" /\ mapped = FALSE
  /\ watch = FALSE /\ fired = FALSE
  /\ cb = [pc |-> "idle", state |-> "Unknown"]
  /\ device_callback = FALSE /\ xi = FALSE
  /\ device_state = "DISCONNECTED" /\ backend_state = "Unknown" /\ backend_event = FALSE
  /\ rings = FALSE /\ bound = FALSE
  /\ pnp = "out"
  /\ item = [s \in Items |-> "idle"] /\ suspend_state = "NONE" /\ mutex = NoOne
  /\ xenbus = TRUE
  /\ by = NoOne /\ pc = "idle" /\ tries = 0
  /\ eject = FALSE /\ ejectable = FALSE /\ faults = {}
  /\ halts = 0 /\ sleeps = 0 /\ failures = 0

Goto(at, to) == pc = at /\ pc' = to
Idle == by = NoOne /\ \A s \in Items : item[s] \in {"idle", "done"}
-----------------------------------------------------------------------------
(* The watch on the backend's state *)

\* Xenstored fires a watch once when it is added and at every change.
AddWatch == watch' = TRUE /\ fired' = TRUE
RemWatch == cb.pc = "idle" /\ watch' = FALSE /\ fired' = FALSE

\* A backend unmaps the rings before it says Closed.
SetBackend(state) ==
  /\ be' = state /\ fired' = (fired \/ watch)
  /\ mapped' = (state = "Connected" \/ (mapped /\ state # "Closed"))

\* A new domain finds new keys and backends that know nothing of the old rings.
NewBackend == fe' = "Initialising" /\ be' = "Initialising" /\ mapped' = FALSE

\* XenPci_BackendStateCallback: the backend's state is read first.
ReadBackend ==
  /\ cb.pc = "idle" /\ watch /\ fired /\ fired' = FALSE
  /\ cb' = [pc |-> IF be = "Closing" THEN "frontend" ELSE "call", state |-> be]
  /\ UNCHANGED <<config, fe, be, mapped, watch, driver, pnp, bus, thread, past, bounds>>

\* A front end that is still connected did not begin the closing: WdfPdoRequestEject.
ReadFrontend ==
  /\ cb.pc = "frontend" /\ cb' = [cb EXCEPT !.pc = "call"]
  /\ eject' = (eject \/ fe = "Connected")
  /\ UNCHANGED <<config, store, driver, pnp, bus, thread, ejectable, faults, bounds>>

\* XenNet_DeviceCallback, XenVbd_DeviceCallback: the state, then the event.
DeviceCallback ==
  /\ cb.pc = "call" /\ cb' = [cb EXCEPT !.pc = "set"]
  /\ backend_state' = cb.state
  /\ UNCHANGED <<config, store, device_callback, xi, device_state, backend_event, rings, bound,
                 pnp, bus, thread, past, bounds>>

\* Mutant of SetEvent: the state changes and no one is woken.
SetEventLost ==
  /\ cb.pc = "set" /\ cb' = [cb EXCEPT !.pc = "idle"]
  /\ UNCHANGED <<config, store, driver, pnp, bus, thread, past, bounds>>

SetEvent ==
  /\ cb.pc = "set" /\ cb' = [cb EXCEPT !.pc = "idle"]
  /\ backend_event' = TRUE
  /\ UNCHANGED <<config, store, device_callback, xi, device_state, backend_state, rings, bound,
                 pnp, bus, thread, past, bounds>>

WatchThread == ReadBackend \/ ReadFrontend \/ DeviceCallback \/ SetEvent

\* The device's thread changes these; the rest of its state stays.
Leave == UNCHANGED <<config, cb, pnp, bus, past, bounds, by>>
-----------------------------------------------------------------------------
(* XnOpenDevice, XnCloseDevice *)

Open ==
  /\ Goto("open", IF Net THEN "initialising" ELSE "grant")
  /\ IF Suspending
     THEN UNCHANGED <<watch, fired, device_callback, backend_state>>
     ELSE /\ cb.pc = "idle"
          /\ device_callback' = TRUE /\ AddWatch
          /\ backend_state' = IF Vbd THEN "Unknown" ELSE backend_state
  /\ Leave /\ UNCHANGED <<fe, be, mapped, xi, device_state, backend_event, rings, bound, tries>>

\* Mutant of Close: a running callback is not waited for.
CloseNoWait ==
  /\ Goto("close", "disconnected")
  /\ IF Suspending THEN UNCHANGED <<watch, fired, device_callback>>
     ELSE watch' = FALSE /\ fired' = FALSE /\ device_callback' = FALSE
  /\ Leave /\ UNCHANGED <<fe, be, mapped, xi, device_state, backend_state, backend_event, rings, bound,
                          tries>>

Close ==
  /\ Goto("close", "disconnected")
  /\ IF Suspending THEN UNCHANGED <<watch, fired, device_callback>>
     ELSE RemWatch /\ device_callback' = FALSE
  /\ Leave /\ UNCHANGED <<fe, be, mapped, xi, device_state, backend_state, backend_event, rings, bound,
                          tries>>

WriteState(at, state, to) ==
  /\ Goto(at, to) /\ fe' = state
  /\ Leave /\ UNCHANGED <<be, mapped, watch, fired, driver, tries>>

\* The loops around KeWaitForSingleObject(&backend_event): the network driver's wait
\* also ends after a second.
Wait(at, sleep, states, to) ==
  \/ /\ Goto(at, IF backend_state \in states THEN to ELSE sleep)
     /\ Leave /\ UNCHANGED <<store, driver, tries>>
  \/ /\ Goto(sleep, at) /\ (backend_event \/ Net)
     /\ backend_event' = FALSE
     /\ Leave /\ UNCHANGED <<store, device_callback, xi, device_state, backend_state, rings,
                             bound, tries>>

\* XnBindEvent, XnGrantAccess and the keys that name them
Bind(at, to) ==
  /\ Goto(at, to) /\ rings' = TRUE /\ bound' = TRUE
  /\ Leave /\ UNCHANGED <<store, device_callback, xi, device_state, backend_state,
                          backend_event, tries>>
-----------------------------------------------------------------------------
(* XenNet_Connect *)

\* The state key still says Closed when the adapter is restarted.
Initialising ==
  /\ Net /\ Goto("initialising", IF hidden THEN "mac" ELSE "waitInit")
  /\ device_state' = IF hidden THEN "INACTIVE" ELSE device_state
  /\ fe' = "Initialising" /\ tries' = 0
  /\ Leave /\ UNCHANGED <<be, mapped, watch, fired, device_callback, xi, backend_state, backend_event,
                          rings, bound>>

\* One turn of a loop of at most MAX_TRIES waits of a second
NetWait(at, states, to) ==
  /\ Net /\ pc = at
  /\ \/ backend_state \in states /\ pc' = to /\ tries' = 0 /\ UNCHANGED <<fe, backend_event>>
     \/ /\ backend_state \notin states /\ tries < MAX_TRIES
        /\ fe' = IF at = "waitInit" /\ backend_state = "Closed" THEN "Initialising" ELSE fe
        /\ backend_event' = FALSE /\ tries' = tries + 1 /\ pc' = at
     \/ /\ backend_state \notin states /\ tries = MAX_TRIES
        /\ pc' = "failed" /\ UNCHANGED <<fe, backend_event, tries>>
  /\ Leave /\ UNCHANGED <<be, mapped, watch, fired, device_callback, xi, device_state, backend_state,
                          rings, bound>>

\* Parsing the backend's "mac" fails if the key is malformed.
Mac ==
  /\ Net /\ pc = "mac"
  /\ \/ pc' = (IF device_state = "INACTIVE" THEN "connected" ELSE "connect")
        /\ UNCHANGED failures
     \/ failures < MaxFailures /\ failures' = failures + 1 /\ pc' = "failed"
  /\ UNCHANGED <<config, cb, pnp, bus, past, halts, sleeps, by, store, driver, tries>>

NetConnect ==
  \/ Initialising
  \/ NetWait("waitInit", InitXxx, "bind")
  \/ Net /\ Bind("bind", "mac")
  \/ Mac
  \/ Net /\ WriteState("connect", "Connected", "waitConn")
  \/ NetWait("waitConn", {"Connected"}, "connected")
-----------------------------------------------------------------------------
(* XenVbd_Connect *)

\* Nothing to do unless the device is DISCONNECTED.
VbdTest ==
  /\ Vbd /\ Goto("test", IF device_state = "DISCONNECTED" THEN "open" ELSE "connected")
  /\ Leave /\ UNCHANGED <<store, driver, tries>>

GrantRing ==
  /\ Vbd /\ Goto("grant", "waitInit") /\ rings' = TRUE
  /\ Leave /\ UNCHANGED <<store, device_callback, xi, device_state, backend_state,
                          backend_event, bound, tries>>

\* An inactive device is closed at once; its ring stays granted.
VbdInactive ==
  /\ Vbd /\ pc = "hidden"
  /\ IF hidden
     THEN /\ pc' = "connected" /\ RemWatch
          /\ device_callback' = FALSE /\ device_state' = "INACTIVE"
     ELSE pc' = "bind" /\ UNCHANGED <<watch, fired, device_callback, device_state>>
  /\ Leave /\ UNCHANGED <<fe, be, mapped, xi, backend_state, backend_event, rings, bound, tries>>

\* DEVICE_STATE_ACTIVE, then XenVbd_StartRing
VbdActive ==
  /\ Vbd /\ Goto("active", "connected") /\ device_state' = "ACTIVE"
  /\ Leave /\ UNCHANGED <<store, device_callback, xi, backend_state, backend_event, rings,
                          bound, tries>>

VbdConnect ==
  \/ VbdTest
  \/ GrantRing
  \/ Vbd /\ Wait("waitInit", "sleepInit", InitXxx \cup {"Connected"}, "hidden")
  \/ VbdInactive
  \/ Vbd /\ Bind("bind", "initialised")
  \/ Vbd /\ WriteState("initialised", "Initialised", "waitConn")
  \/ Vbd /\ Wait("waitConn", "sleepConn", {"Connected"}, "writeConn")
  \/ Vbd /\ WriteState("writeConn", "Connected", "active")
  \/ VbdActive
-----------------------------------------------------------------------------
(* XenNet_Disconnect, XenVbd_Disconnect *)

\* The early returns leave the device open.  For a suspend the block driver's state is
\* changed by the miniport, in StopRing.
DisconnectTest ==
  /\ pc = "disconnect"
  /\ pc' = CASE device_state = "ACTIVE" -> "closing"
             [] Net /\ device_state = "INACTIVE" -> "close"
             [] OTHER -> "returned"
  /\ device_state' = IF device_state = "ACTIVE" /\ (Net \/ Suspending) THEN "DISCONNECTING"
                     ELSE device_state
  /\ Leave /\ UNCHANGED <<store, device_callback, xi, backend_state, backend_event, rings,
                          bound, tries>>

\* The block driver waits for exactly Closing.
ClosingStates == IF Net THEN {"Closing", "Closed"} ELSE {"Closing"}

\* Mutant of WaitClosed: the ring is freed once Closed is written.
WaitClosedNot ==
  /\ Goto("waitClosed", "unbind")
  /\ Leave /\ UNCHANGED <<store, driver, tries>>

WaitClosed == Wait("waitClosed", "sleepClosed", {"Closed"}, "unbind")

Unbind ==
  /\ Goto("unbind", "free") /\ bound' = FALSE
  /\ Leave /\ UNCHANGED <<store, device_callback, xi, device_state, backend_state,
                          backend_event, rings, tries>>

\* XenNet_TxShutdown, XenNet_RxShutdown, XnEndAccess, ExFreePoolWithTag
Free ==
  /\ Goto("free", "close") /\ rings' = FALSE
  /\ Leave /\ UNCHANGED <<store, device_callback, xi, device_state, backend_state,
                          backend_event, bound, tries>>

Disconnected ==
  /\ Goto("disconnected", "returned") /\ device_state' = "DISCONNECTED"
  /\ Leave /\ UNCHANGED <<store, device_callback, xi, backend_state, backend_event, rings,
                          bound, tries>>

Disconnect ==
  \/ DisconnectTest
  \/ WriteState("closing", "Closing", "waitClosing")  \* the block driver: in StopRing
  \/ Wait("waitClosing", "sleepClosing", ClosingStates, "closed")
  \/ WriteState("closed", "Closed", "waitClosed")
  \/ WaitClosed
  \/ Unbind \/ Free \/ Close \/ Disconnected
-----------------------------------------------------------------------------
(* Plug and Play: XenNet_Initialize, XenNet_Halt, the filter's D0Entry, D0Exit *)

Begin(from, to, at) ==
  /\ Idle /\ pnp = from /\ pnp' = to /\ "initFailed" \notin faults
  /\ by' = Pnp /\ pc' = at

\* Initialize zeroes a new context; that of the block driver is the filter's.
Start ==
  /\ Begin("out", "starting", IF Net THEN "open" ELSE "test")
  /\ xi' = TRUE
  /\ device_state' = IF Net THEN "INITIALISING" ELSE device_state
  /\ backend_state' = IF Net THEN "Unknown" ELSE backend_state
  /\ backend_event' = IF Net THEN FALSE ELSE backend_event
  /\ UNCHANGED <<config, store, cb, device_callback, rings, bound, bus, tries, past, bounds>>

\* The device becomes ACTIVE once NDIS has been told of it.
Started ==
  /\ by = Pnp /\ Goto("connected", "idle") /\ pnp \in {"starting", "waking"}
  /\ by' = NoOne /\ pnp' = "up"
  /\ device_state' = IF Net /\ device_state # "INACTIVE" THEN "ACTIVE" ELSE device_state
  /\ UNCHANGED <<config, store, cb, device_callback, xi, backend_state, backend_event, rings,
                 bound, bus, tries, past, bounds>>

\* After an error the context is freed and the device stays open.
StartFails ==
  /\ Net /\ by = Pnp /\ pnp = "starting"
  /\ \/ pc = "failed" /\ UNCHANGED failures
     \/ pc = "connected" /\ failures < MaxFailures /\ failures' = failures + 1
  /\ by' = NoOne /\ pc' = "idle" /\ pnp' = "failed"
  /\ xi' = FALSE /\ faults' = faults \cup {"initFailed"}
  /\ UNCHANGED <<config, store, cb, device_callback, device_state, backend_state,
                 backend_event, rings, bound, bus, tries, eject, ejectable, halts, sleeps>>

Halt ==
  /\ halts < MaxHalts /\ halts' = halts + 1
  /\ Begin("up", "halting", "disconnect")
  /\ UNCHANGED <<config, store, cb, driver, bus, tries, past, sleeps, failures>>

Halted ==
  /\ by = Pnp /\ pnp = "halting" /\ Goto("returned", "idle")
  /\ by' = NoOne /\ pnp' = "out" /\ xi' = FALSE
  /\ UNCHANGED <<config, store, cb, device_callback, device_state, backend_state,
                 backend_event, rings, bound, bus, tries, past, bounds>>

\* The filter disconnects unless the system hibernates.  xennet.c does nothing.
Sleep(hibernate) ==
  /\ sleeps < MaxSleeps /\ sleeps' = sleeps + 1
  /\ Begin("up", "pausing", IF Vbd /\ ~hibernate THEN "disconnect" ELSE "returned")
  /\ UNCHANGED <<config, store, cb, driver, bus, tries, past, halts, failures>>

\* XenPciPdo_EvtDeviceD0Exit removes the watch of an open device.
PdoD0Exit ==
  /\ by = Pnp /\ pnp = "pausing" /\ Goto("returned", "idle")
  /\ by' = NoOne /\ pnp' = "asleep"
  /\ IF device_callback THEN RemWatch ELSE UNCHANGED <<watch, fired>>
  /\ UNCHANGED <<config, fe, be, mapped, cb, driver, bus, tries, past, bounds>>

\* XenPciPdo_EvtDeviceD0Entry restores it if the device was open during a hibernation
\* and hiber_usage_kludge tells that the system hibernated to this disk.  Hibernation
\* ends in a new domain.
PdoD0Entry(hiber_usage_kludge) ==
  /\ Begin("asleep", "waking", IF Net THEN "connected" ELSE "test")
  /\ hiber_usage_kludge => Vbd
  /\ IF hiber_usage_kludge /\ device_callback THEN AddWatch ELSE UNCHANGED <<watch, fired>>
  /\ faults' = IF device_callback /\ ~watch' THEN faults \cup {"watchLost"} ELSE faults
  /\ IF Vbd /\ device_callback THEN NewBackend
     ELSE UNCHANGED <<fe, be, mapped>>
  /\ UNCHANGED <<config, cb, driver, bus, tries, eject, ejectable, bounds>>

PnpThread ==
  \/ Start \/ Started \/ StartFails \/ Halt \/ Halted
  \/ PdoD0Exit
  \/ \E flag \in BOOLEAN : Sleep(flag) \/ PdoD0Entry(flag)
-----------------------------------------------------------------------------
(* The bus driver: XenPci_SuspendResume *)

ItemStep(s, from, to) == item[s] = from /\ item' = [item EXCEPT ![s] = to]
Holds(s) == by = s /\ mutex = s

\* The state is tested before the mutex is taken.
SuspendTest(s) ==
  /\ by \in Items \cup {NoOne} /\ "initFailed" \notin faults /\ pnp \notin {"pausing", "asleep"}
  /\ suspend_state = "NONE" /\ ItemStep(s, "idle", "acquire")
  /\ UNCHANGED <<config, store, cb, driver, pnp, suspend_state, mutex, xenbus, thread, past,
                 bounds>>

\* XenPci_SuspendPdo calls the driver of an open device.
SuspendBegin(s) ==
  /\ mutex = NoOne /\ mutex' = s
  /\ ItemStep(s, "acquire", "running")
  /\ suspend_state' = "SCHEDULED"
  /\ by' = s /\ pc' = IF device_callback THEN "disconnect" ELSE "suspend"
  /\ UNCHANGED <<config, store, cb, driver, pnp, xenbus, tries, past, bounds>>

\* Mutant of SuspendPdo: the watch stays.
SuspendPdoWatched(s) ==
  /\ Holds(s) /\ Goto("returned", "suspend")
  /\ UNCHANGED <<config, store, cb, driver, pnp, bus, by, tries, past, bounds>>

SuspendPdo(s) ==
  /\ Holds(s) /\ Goto("returned", "suspend") /\ RemWatch
  /\ UNCHANGED <<config, fe, be, mapped, cb, driver, pnp, bus, by, tries, past, bounds>>

\* XenBus_Suspend, EvtChn_Suspend
BusDown(s) ==
  /\ Holds(s) /\ Goto("suspend", "hvm_shutdown") /\ xenbus' = FALSE
  /\ UNCHANGED <<config, store, cb, driver, pnp, item, suspend_state, mutex, by, tries, past,
                 bounds>>

\* XenPci_HighSync: in a new domain the toolstack has prepared new backends; a
\* cancelled suspend returns to the old ones.
HvmShutdown(s) ==
  /\ Holds(s) /\ Goto("hvm_shutdown", "resuming")
  /\ suspend_state' = "RESUMING"
  /\ \/ NewBackend /\ UNCHANGED faults
     \/ faults' = faults \cup {"cancelled"} /\ UNCHANGED <<fe, be, mapped>>
  /\ UNCHANGED <<config, watch, fired, cb, driver, pnp, item, mutex, xenbus, by, tries, eject,
                 ejectable, bounds>>

\* XenBus_Resume, XenPci_ConnectSuspendEvt, then XenPci_ResumePdo: the watch, and for
\* the network driver DEVICE_STATE_INITIALISING
ResumePdo(s) ==
  /\ Holds(s)
  /\ Goto("resuming", IF device_callback THEN IF Net THEN "open" ELSE "test" ELSE "resumed")
  /\ xenbus' = TRUE
  /\ IF device_callback THEN AddWatch ELSE UNCHANGED <<watch, fired>>
  /\ device_state' = IF Net /\ device_callback THEN "INITIALISING" ELSE device_state
  /\ UNCHANGED <<config, fe, be, mapped, cb, device_callback, xi, backend_state, backend_event, rings,
                 bound, pnp, item, suspend_state, mutex, by, tries, past, bounds>>

\* The network driver becomes ACTIVE even if XenNet_Connect failed.
Resumed(s) ==
  /\ Holds(s) /\ pc \in {"connected", "failed"} /\ pc' = "resumed"
  /\ device_state' = IF Net /\ device_state # "INACTIVE" THEN "ACTIVE" ELSE device_state
  /\ faults' = IF pc = "failed" THEN faults \cup {"connectFailed"} ELSE faults
  /\ UNCHANGED <<config, store, cb, device_callback, xi, backend_state, backend_event, rings,
                 bound, pnp, bus, by, tries, eject, ejectable, bounds>>

SuspendEnd(s) ==
  /\ Holds(s) /\ Goto("resumed", "idle") /\ by' = NoOne
  /\ ItemStep(s, "running", "done")
  /\ suspend_state' = "NONE" /\ mutex' = NoOne
  /\ UNCHANGED <<config, store, cb, driver, pnp, xenbus, tries, past, bounds>>

SuspendResume(s) ==
  SuspendBegin(s) \/ SuspendPdo(s) \/ BusDown(s) \/ HvmShutdown(s) \/ ResumePdo(s)
    \/ Resumed(s) \/ SuspendEnd(s)
-----------------------------------------------------------------------------
(* The backend *)

Leaves == UNCHANGED <<config, cb, driver, pnp, bus, thread, past, bounds, fe, watch>>

\* The state in which a front end has written where its rings are
Ready == IF Net THEN {"Connected"} ELSE {"Initialised", "Connected"}

BackendFollows ==
  /\ \/ be = "Initialising" /\ SetBackend("InitWait")
     \/ be = "InitWait" /\ fe \in Ready /\ SetBackend("Connected")
     \/ be \notin {"Closing", "Closed"} /\ fe = "Closing" /\ SetBackend("Closing")
     \/ be # "Closed" /\ fe = "Closed" /\ SetBackend("Closed")
     \/ be = "Closed" /\ fe = "Initialising" /\ SetBackend("InitWait")
  /\ Leaves

\* The device is detached, or its backend dies, while it is in use.
BackendCloses ==
  /\ failures < MaxFailures /\ failures' = failures + 1
  /\ be \in {"InitWait", "Connected"} /\ fe \in {"Initialised", "Connected"}
  /\ \E state \in {"Closing", "Closed"} : SetBackend(state)
  /\ ejectable' = TRUE /\ faults' = faults \cup {"backendClosed"}
  /\ UNCHANGED <<config, fe, watch, cb, driver, pnp, bus, thread, eject, halts, sleeps>>

\* The toolstack attaches a device again.
Attach ==
  /\ pnp \in {"out", "asleep"} /\ be = "Closed" /\ ~device_callback
  /\ NewBackend /\ UNCHANGED <<watch, fired>>
  /\ UNCHANGED <<config, cb, driver, pnp, bus, thread, past, bounds>>

Backend == BackendFollows \/ BackendCloses \/ Attach
-----------------------------------------------------------------------------
DriverStep == Open \/ NetConnect \/ VbdConnect \/ Disconnect

Next ==
  \/ WatchThread \/ DriverStep \/ PnpThread \/ Backend
  \/ \E s \in Items : SuspendTest(s) \/ SuspendResume(s)

Spec == Init /\ [][Next]_vars

\* The threads run and the backend follows the front end; no one has to start, halt,
\* suspend or detach the device.
FairSpec ==
  /\ Spec
  /\ WF_vars(WatchThread) /\ WF_vars(DriverStep) /\ WF_vars(BackendFollows)
  /\ WF_vars(Started \/ StartFails)
  /\ \A s \in Items : WF_vars(SuspendResume(s))
-----------------------------------------------------------------------------
(* Properties *)

TypeOK ==
  /\ kind \in {"net", "vbd"} /\ mapped \in BOOLEAN /\ fe \in XenbusStates /\ be \in XenbusStates
  /\ cb \in [pc : {"idle", "frontend", "call", "set"}, state : XenbusStates]
  /\ backend_state \in XenbusStates
  /\ device_state \in {"DISCONNECTED", "INITIALISING", "INACTIVE", "ACTIVE", "DISCONNECTING"}
  /\ hidden \in BOOLEAN /\ watch \in BOOLEAN /\ fired \in BOOLEAN /\ device_callback \in BOOLEAN
  /\ xi \in BOOLEAN /\ backend_event \in BOOLEAN /\ rings \in BOOLEAN /\ bound \in BOOLEAN
  /\ xenbus \in BOOLEAN /\ eject \in BOOLEAN /\ ejectable \in BOOLEAN
  /\ by \in Items \cup {Pnp, NoOne} /\ mutex \in Items \cup {NoOne}
  /\ item \in [Items -> {"idle", "acquire", "running", "done"}]
  /\ tries \in 0 .. MAX_TRIES /\ faults \subseteq Faults

\* XenNet_Connect failed after a suspend and the device became ACTIVE all the same: its
\* next disconnection finds the backend_state of the one before.
Unconnected == "connectFailed" \in faults

\* Rings a backend has mapped are granted and the event channel it notifies is bound,
\* whatever the order in which the two sides read and write their states, unless the device is
\* ACTIVE without a connection.
BackendHasRing == mapped => (rings /\ bound) \/ Unconnected

\* While the domain is suspended the device holds nothing of the old domain: no watch,
\* no running callback, no event channel, no granted ring but that of a block device
\* that was never activated.
QuietAtSuspend ==
  ~xenbus =>
    /\ ~watch /\ cb.pc = "idle" /\ ~bound
    /\ rings => Vbd /\ device_state = "INACTIVE"

\* The driver is called back, by the watch and for a suspend, only between XnOpenDevice
\* and XnCloseDevice and with a context that is still allocated, unless
\* XenNet_Initialize failed with the device open.
NoCallbackToFreed ==
  cb.pc # "idle" \/ (Suspending /\ pc = "disconnect")
    => (device_callback /\ xi) \/ "initFailed" \in faults

\* The device is ejected only when the backend began the closing, never for the Closing
\* with which it answers the front end (unless the device is ACTIVE without a connection).
EjectOnlyByBackend == eject => ejectable \/ Unconnected

\* A ring is freed and an event channel unbound once for each connection, unless the
\* device is ACTIVE without one.
FreedOnce ==
  /\ pc = "unbind" => bound \/ Unconnected
  /\ pc = "free" => rings \/ Unconnected

\* A ring is there as long as the backend uses it and freed once.
RingsSound == TypeOK /\ BackendHasRing /\ FreedOnce

\* A driver is called, and asked to go, only when it is there and has to.
CallbacksSound == NoCallbackToFreed /\ EjectOnlyByBackend

\* A suspend ends and the device is up again, unless the backend closed by itself, the
\* device lost its watch in a sleep, or the suspend was cancelled with a block device.
SuspendEnds ==
  \A s \in Items :
    item[s] = "running" ~>
      \/ item[s] = "done"
      \/ faults \cap {"backendClosed", "watchLost"} # {}
      \/ Vbd /\ "cancelled" \in faults
=============================================================================
