--------------------------- MODULE FrontendProofs ---------------------------
(***************************************************************************)
(* Proofs about Frontend for every number of suspends that are tried at    *)
(* once, every length of XenNet_Connect's wait and any number of halts,    *)
(* sleeps and faults.                                                      *)
(*                                                                         *)
(* The invariant says for each step of the driver what the device then     *)
(* has (a watch, a ring, an event channel), which states the two ends can  *)
(* have written, and what the driver can have read of them: the state a    *)
(* callback is about to report may be old, but after a connection a        *)
(* backend seen Closed is Closed.                                          *)
(***************************************************************************)
EXTENDS Frontend, TLAPS

\* The steps of the two drivers: of a connect, of a disconnect, and of a suspend.
NetLabels == {"open", "initialising", "waitInit", "bind", "mac", "connect", "waitConn"}
VbdLabels == {"test", "open", "grant", "waitInit", "sleepInit", "hidden", "bind", "initialised",
              "waitConn", "sleepConn", "writeConn", "active"}
Closing   == {"waitClosing", "sleepClosing", "closed"}
LastWait  == {"waitClosed", "sleepClosed"}
Leaving   == {"disconnect", "closing", "close", "disconnected", "unbind", "free"}
               \cup Closing \cup LastWait
Down      == {"suspend", "hvm_shutdown", "resuming"}

Connecting == IF Net THEN NetLabels ELSE VbdLabels

\* Types and the fields TypeOK leaves open
Types ==
  /\ TypeOK
  /\ pnp \in {"out", "starting", "up", "failed", "halting", "pausing", "asleep", "waking"}
  /\ pc \in NetLabels \cup VbdLabels \cup Leaving \cup Down
              \cup {"idle", "connected", "failed", "returned", "resumed"}
  /\ failures \in Nat /\ halts \in Nat /\ sleeps \in Nat

\* Who is inside the driver, and where.
Threads ==
  /\ by = NoOne <=> pc = "idle"
  /\ mutex = IF by \in Items THEN by ELSE NoOne
  /\ \A s \in Items : item[s] = "running" <=> by = s
  /\ by = Pnp => \A s \in Items : item[s] \in {"idle", "done"}
  /\ \A s \in Items : item[s] \in {"acquire", "running"} => pnp \in {"out", "up"}
  /\ by = Pnp <=> pnp \in {"starting", "halting", "pausing", "waking"}
  /\ pnp = "failed" <=> "initFailed" \in faults
  /\ pnp = "starting" => pc \in Connecting \cup {"connected", "failed"}
  /\ pnp = "waking" => pc \in (IF Net THEN {} ELSE VbdLabels) \cup {"connected"}
  /\ pnp = "halting" => pc \in Leaving \cup {"returned"}
  /\ pnp = "pausing" => pc \in (IF Net THEN {} ELSE Leaving) \cup {"returned"}
  /\ by \in Items => pc \in Connecting \cup Leaving \cup Down
                              \cup {"connected", "failed", "returned", "resumed"}
  /\ by \in Items /\ pnp = "out" => pc \in Down \cup {"resumed"}
  /\ pc = "failed" => Net
  /\ pnp = "failed" => Net
  /\ Unconnected => Net
  /\ xenbus <=> pc \notin {"hvm_shutdown", "resuming"}

\* The device is shut before XnOpenDevice, after XnCloseDevice, and as long as the block
\* device is inactive.
ShutAt ==
  \/ pnp = "out"
  \/ pnp = "starting" /\ pc \in {"test", "open"}
  \/ pnp = "halting" /\ pc \in {"disconnected", "returned"}
  \/ Vbd /\ \/ device_state = "INACTIVE"
            \/ pnp = "waking" /\ pc \in {"test", "open"} /\ device_state # "ACTIVE"
            \/ pnp = "pausing" /\ pc = "disconnected"
            \/ pnp \in {"pausing", "asleep"} /\ device_state = "DISCONNECTED"

Opened ==
  /\ xi <=> pnp \notin {"out", "failed"}
  /\ cb.pc # "idle" \/ fired => watch
  /\ watch => device_callback
  /\ device_callback <=> ~ShutAt
  /\ pc \in Down \/ pnp = "asleep" => ~watch

\* The state of the device at each step
States ==
  /\ pc \in {"idle", "resumed"} \cup Down => device_state \in
       CASE pnp = "out" \/ pc \in Down -> {"DISCONNECTED"} \cup (IF Net THEN {} ELSE {"INACTIVE"})
         [] pc \notin Down /\ pnp = "failed" -> {"INITIALISING", "INACTIVE"}
         [] pc \notin Down /\ pnp = "asleep" -> {"ACTIVE", "INACTIVE"}
                                                  \cup (IF Net THEN {} ELSE {"DISCONNECTED"})
         [] OTHER -> {"ACTIVE", "INACTIVE"}
  /\ Net /\ pc \in NetLabels \cup {"failed"} => device_state \in {"INITIALISING", "INACTIVE"}
  /\ pc = "connected" => device_state \in
       IF Net /\ pnp # "waking" THEN {"INITIALISING", "INACTIVE"} ELSE {"ACTIVE", "INACTIVE"}
  /\ Vbd /\ pc \in VbdLabels \ {"test"} => device_state = "DISCONNECTED"
  /\ pc = "test" => device_state \in
       CASE Suspending -> {"DISCONNECTED"}
         [] ~Suspending /\ pnp = "starting" -> {"DISCONNECTED", "INACTIVE"}
         [] OTHER -> {"ACTIVE", "DISCONNECTED", "INACTIVE"}
  /\ pc = "disconnect" => device_state \in IF Suspending /\ Vbd THEN {"ACTIVE"}
                                           ELSE {"ACTIVE", "INACTIVE"}
  /\ pc \in Leaving \ {"disconnect"} => device_state \in
       IF Vbd /\ ~Suspending THEN {"ACTIVE"} ELSE {"DISCONNECTING", "INACTIVE"}
  /\ pc \in Closing \cup LastWait \cup {"closing", "unbind", "free"} => device_state # "INACTIVE"
  /\ Vbd /\ Suspending => device_state # "INACTIVE" \/ pc \in {"resumed", "connected"} \cup Down
  /\ pc = "returned" => device_state \in
       CASE pnp = "pausing" -> {"ACTIVE", "INACTIVE"} \cup (IF Net THEN {} ELSE {"DISCONNECTED"})
         [] pnp = "halting" -> {"DISCONNECTED"} \cup (IF Net THEN {} ELSE {"INACTIVE"})
         [] OTHER -> {"DISCONNECTED"}
  /\ Net => (device_state = "INACTIVE" => hidden)
  /\ Net /\ hidden => pc \notin {"waitInit", "bind", "connect", "waitConn"}
  /\ Net /\ hidden /\ device_state # "INACTIVE" =>
       device_state \in {"INITIALISING", "DISCONNECTED"} /\ pc \notin {"mac", "connected", "failed"}

\* At these steps the ring is granted, and the channel bound.
HasRing ==
  IF Net THEN ~hidden /\ (\/ pc \in {"mac", "connect", "waitConn", "connected", "disconnect",
                                     "closing", "unbind", "free"} \cup Closing \cup LastWait
                          \/ /\ pc \in {"idle", "returned", "resumed"}
                             /\ pnp \in {"up", "asleep", "pausing"}
                             /\ device_state = "ACTIVE")
  ELSE \/ device_state \in {"ACTIVE", "INACTIVE"}
          /\ pc \notin {"close", "disconnected"}
       \/ device_state = "DISCONNECTING" /\ pc \notin {"close", "disconnected"}
       \/ device_state = "DISCONNECTED" /\ pc \in VbdLabels \ {"test", "open", "grant"}

IsBound ==
  /\ HasRing /\ pc # "free" /\ (Vbd => device_state # "INACTIVE")
  /\ Vbd => pc \notin {"waitInit", "sleepInit", "hidden", "bind"}

Rings ==
  /\ Unconnected \/ pc = "failed" \/ pnp = "failed" \/ ((rings <=> HasRing) /\ (bound <=> IsBound))
  /\ ~HasRing /\ (hidden \/ (pc # "failed" /\ pnp # "failed")) => ~rings
  /\ ~IsBound /\ (hidden \/ (pc # "failed" /\ pnp # "failed")) => ~bound

\* What the front end has written in its state key at each step
FeAt ==
  /\ device_state = "INACTIVE" => fe = "Initialising"
  /\ fe \in
       CASE \/ pc \in {"hidden", "bind", "mac", "connect", "initialised"}
            \/ Net /\ pc = "waitInit"
            \/ pc = "test" /\ device_state # "DISCONNECTED" -> {"Initialising"}
         [] pc \in {"waitConn", "sleepConn", "writeConn"} ->
              {IF Net THEN "Connected" ELSE "Initialised"}
         [] pc = "active" -> {"Connected"}
         [] pc \in Closing -> {"Closing"}
         [] pc \in LastWait \cup {"unbind", "free"} -> {"Closed"}
         [] \/ pc \in {"failed", "connected", "disconnect", "closing"}
            \/ pc = "idle" /\ pnp = "failed"
            \/ pc \in {"idle", "resumed"} /\ pnp = "up"
            \/ /\ pc \in {"idle", "returned"} /\ pnp \in {"asleep", "pausing"}
               /\ device_state # "DISCONNECTED" -> {"Initialising", "Connected"}
         [] OTHER -> {"Initialising", "Closed"}

\* The callback that has read the backend's state and is about to report it; the states a
\* backend can have before the front end has left Initialising.
Reading == cb.pc \in {"frontend", "call"}
Fresh   == {"Closed", "Initialising", "InitWait"}

\* The watch's work item goes on to read the front end's key only for a backend it saw
\* Closing, and a backend maps the ring only once it is connected.
BackendStates ==
  /\ cb.pc = "frontend" => cb.state = "Closing"
  /\ mapped => be \in {"Connected", "Closing"}

\* The backend is Closed and whatever is about to be reported says so; or neither.
AllClosed == be = "Closed" /\ (Reading => cb.state = "Closed")
NoneClosed == be # "Closed" /\ (Reading => cb.state # "Closed")

\* The block driver has seen nothing of a new backend yet, or its first states.
BeforeInit ==
  \/ pc \in {"close", "disconnected", "grant", "waitInit", "sleepInit"}
  \/ /\ Suspending /\ pnp = "up" /\ device_state = "DISCONNECTED"
     /\ pc \in Down \cup {"returned", "test", "open"}

\* What each end has written against what the other can have read of it: while the front
\* end is Initialising a backend seen in an Init state has not closed; once it has gone on,
\* a report of Closed is true; after WriteClosed's wait the backend is Closed; a mapped ring
\* is granted; and a backend that closes by itself is the one an eject may be due to.
Agree ==
  /\ fe = "Initialising" => /\ be \in Fresh
                            /\ Reading => cb.state \in IF be = "Closed" THEN {"Closed"} ELSE Fresh
  /\ fe = "Initialising" /\ backend_state \in InitXxx => NoneClosed
  /\ fe # "Initialising" /\ Reading /\ cb.state = "Closed" => be = "Closed"
  /\ fe = "Closed" /\ pc \notin LastWait => AllClosed /\ backend_state \in {"Closed", "Unknown"}
  /\ backend_state = "Closed" /\ fe # "Initialising" /\ (Vbd => pc = "closed" \/ fe = "Closed")
       => AllClosed
  /\ Vbd /\ BeforeInit => backend_state \in InitXxx \cup {"Unknown", "Closed"}
  /\ pc \in {"hidden", "bind", "mac", "connect", "initialised"} /\ (Net => ~hidden)
       => backend_state \in InitXxx
  /\ Net /\ fe = "Initialising" => /\ device_state # "ACTIVE" /\ pc # "closing"
                                   /\ pc = "connected" => device_state = "INACTIVE"
  /\ Vbd /\ (device_state = "ACTIVE" \/ pc = "closing") /\ fe = "Initialising" => NoneClosed
  /\ mapped \/ fe \in {"Initialised", "Connected"} => rings /\ bound
  /\ (be = "Closing" \/ cb.pc = "frontend") /\ ~ejectable => fe \in {"Closing", "Closed"}
  /\ eject => ejectable

\* A connect that was given up leaves a device of which none of this holds (xennet_common.c:585).
Agreed == Unconnected \/ Agree

IInv == Types /\ Threads /\ Opened /\ States /\ Rings /\ FeAt /\ BackendStates /\ Agreed

-----------------------------------------------------------------------------
(***************************************************************************)
(* Every action keeps the invariant, one lemma for each.                   *)
(***************************************************************************)
LEMMA ReadBackendKeeps ==
  ASSUME IInv, ReadBackend
  PROVE  IInv'
<1> USE FrontendAssumption DEF IInv, ReadBackend, Goto, Leave, Leaves, Idle, Begin, Holds, store,
                               driver, bus, thread, config, bounds, past, Net, Vbd, Suspending,
                               Unconnected
<1>1. Types'
  <2>1. fired' \in BOOLEAN
    BY Zenon DEF Types, TypeOK
  <2> QED BY <2>1 DEF Types, TypeOK, Threads, XenbusStates, Faults, NetLabels, VbdLabels,
                      Leaving, Closing, LastWait, Down
<1>2. Threads'
  BY DEF Threads, Types, TypeOK, Connecting, NetLabels, VbdLabels, Leaving, Closing, LastWait,
         Down
<1>3. Opened'
  BY DEF Opened, ShutAt, Types, TypeOK, Threads, States, Connecting, NetLabels, VbdLabels,
         Leaving, Closing, LastWait, Down
<1>4. States'
  BY DEF States, Types, TypeOK, Threads, Connecting, NetLabels, VbdLabels, Leaving, Closing,
         LastWait, Down
<1>5. Rings'
  BY DEF Rings, HasRing, IsBound, Types, TypeOK, Threads, States, Connecting, NetLabels,
         VbdLabels, Leaving, Closing, LastWait, Down
<1>6. FeAt'
  BY DEF FeAt, Types, TypeOK, Threads, States, Connecting, NetLabels, VbdLabels, Leaving,
         Closing, LastWait, Down
<1>7. BackendStates'
  BY DEF BackendStates, Types, TypeOK, Opened
<1>8. Agreed'
  BY DEF Agreed, Agree, BeforeInit, AllClosed, NoneClosed, Reading, Fresh, InitXxx, Types,
         TypeOK, Threads, States, FeAt, BackendStates, Connecting, NetLabels, VbdLabels, Leaving,
         Closing, LastWait, Down
<1> QED BY <1>1, <1>2, <1>3, <1>4, <1>5, <1>6, <1>7, <1>8

LEMMA ReadFrontendKeeps ==
  ASSUME IInv, ReadFrontend
  PROVE  IInv'
<1> USE FrontendAssumption DEF IInv, ReadFrontend, Goto, Leave, Leaves, Idle, Begin, Holds,
                               store, driver, bus, thread, config, bounds, past, Net, Vbd,
                               Suspending, Unconnected
<1>1. Types'
  BY DEF Types, TypeOK, Threads, XenbusStates, Faults, NetLabels, VbdLabels, Leaving, Closing,
         LastWait, Down
<1>2. Threads'
  BY DEF Threads, Types, TypeOK, Connecting, NetLabels, VbdLabels, Leaving, Closing, LastWait,
         Down
<1>3. Opened'
  BY DEF Opened, ShutAt, Types, TypeOK, Threads, States, Connecting, NetLabels, VbdLabels,
         Leaving, Closing, LastWait, Down
<1>4. States'
  BY DEF States, Types, TypeOK, Threads, Connecting, NetLabels, VbdLabels, Leaving, Closing,
         LastWait, Down
<1>5. Rings'
  BY DEF Rings, HasRing, IsBound, Types, TypeOK, Threads, States, Connecting, NetLabels,
         VbdLabels, Leaving, Closing, LastWait, Down
<1>6. FeAt'
  BY DEF FeAt, Types, TypeOK, Threads, States, Connecting, NetLabels, VbdLabels, Leaving,
         Closing, LastWait, Down
<1>7. BackendStates'
  BY DEF BackendStates, Types, TypeOK, Opened
<1>8. Agreed'
  BY DEF Agreed, Agree, BeforeInit, AllClosed, NoneClosed, Reading, Fresh, InitXxx, Types,
         TypeOK, Threads, States, FeAt, BackendStates, Connecting, NetLabels, VbdLabels, Leaving,
         Closing, LastWait, Down
<1> QED BY <1>1, <1>2, <1>3, <1>4, <1>5, <1>6, <1>7, <1>8

LEMMA DeviceCallbackKeeps ==
  ASSUME IInv, DeviceCallback
  PROVE  IInv'
<1> USE FrontendAssumption DEF IInv, DeviceCallback, Goto, Leave, Leaves, Idle, Begin, Holds,
                               store, driver, bus, thread, config, bounds, past, Net, Vbd,
                               Suspending, Unconnected
<1>1. Types'
  BY DEF Types, TypeOK, Threads, XenbusStates, Faults, NetLabels, VbdLabels, Leaving, Closing,
         LastWait, Down
<1>2. Threads'
  BY DEF Threads, Types, TypeOK, Connecting, NetLabels, VbdLabels, Leaving, Closing, LastWait,
         Down
<1>3. Opened'
  BY DEF Opened, ShutAt, Types, TypeOK, Threads, States, Connecting, NetLabels, VbdLabels,
         Leaving, Closing, LastWait, Down
<1>4. States'
  BY DEF States, Types, TypeOK, Threads, Connecting, NetLabels, VbdLabels, Leaving, Closing,
         LastWait, Down
<1>5. Rings'
  BY DEF Rings, HasRing, IsBound, Types, TypeOK, Threads, States, Connecting, NetLabels,
         VbdLabels, Leaving, Closing, LastWait, Down
<1>6. FeAt'
  BY DEF FeAt, Types, TypeOK, Threads, States, Connecting, NetLabels, VbdLabels, Leaving,
         Closing, LastWait, Down
<1>7. BackendStates'
  BY DEF BackendStates, Types, TypeOK, Opened
<1>8. Agreed'
  BY DEF Agreed, Agree, BeforeInit, AllClosed, NoneClosed, Reading, Fresh, InitXxx, Types,
         TypeOK, Threads, States, FeAt, BackendStates, Connecting, NetLabels, VbdLabels, Leaving,
         Closing, LastWait, Down
<1> QED BY <1>1, <1>2, <1>3, <1>4, <1>5, <1>6, <1>7, <1>8

LEMMA SetEventKeeps ==
  ASSUME IInv, SetEvent
  PROVE  IInv'
<1> USE FrontendAssumption DEF IInv, SetEvent, Goto, Leave, Leaves, Idle, Begin, Holds, store,
                               driver, bus, thread, config, bounds, past, Net, Vbd, Suspending,
                               Unconnected
<1>1. Types'
  BY DEF Types, TypeOK, Threads, XenbusStates, Faults, NetLabels, VbdLabels, Leaving, Closing,
         LastWait, Down
<1>2. Threads'
  BY DEF Threads, Types, TypeOK, Connecting, NetLabels, VbdLabels, Leaving, Closing, LastWait,
         Down
<1>3. Opened'
  BY DEF Opened, ShutAt, Types, TypeOK, Threads, States, Connecting, NetLabels, VbdLabels,
         Leaving, Closing, LastWait, Down
<1>4. States'
  BY DEF States, Types, TypeOK, Threads, Connecting, NetLabels, VbdLabels, Leaving, Closing,
         LastWait, Down
<1>5. Rings'
  BY DEF Rings, HasRing, IsBound, Types, TypeOK, Threads, States, Connecting, NetLabels,
         VbdLabels, Leaving, Closing, LastWait, Down
<1>6. FeAt'
  BY DEF FeAt, Types, TypeOK, Threads, States, Connecting, NetLabels, VbdLabels, Leaving,
         Closing, LastWait, Down
<1>7. BackendStates'
  BY DEF BackendStates, Types, TypeOK, Opened
<1>8. Agreed'
  BY DEF Agreed, Agree, BeforeInit, AllClosed, NoneClosed, Reading, Fresh, InitXxx, Types,
         TypeOK, Threads, States, FeAt, BackendStates, Connecting, NetLabels, VbdLabels, Leaving,
         Closing, LastWait, Down
<1> QED BY <1>1, <1>2, <1>3, <1>4, <1>5, <1>6, <1>7, <1>8

LEMMA OpenKeeps ==
  ASSUME IInv, Open
  PROVE  IInv'
<1> USE FrontendAssumption DEF IInv, Open, AddWatch, Goto, Leave, Leaves, Idle, Begin, Holds,
                               store, driver, bus, thread, config, bounds, past, Net, Vbd,
                               Suspending, Unconnected
<1>1. Types'
  <2>1. watch' \in BOOLEAN
    BY Zenon DEF Types, TypeOK
  <2>2. fired' \in BOOLEAN
    BY Zenon DEF Types, TypeOK
  <2>3. device_callback' \in BOOLEAN
    BY Zenon DEF Types, TypeOK
  <2> QED BY <2>1, <2>2, <2>3 DEF Types, TypeOK, Threads, XenbusStates, Faults, NetLabels,
                                  VbdLabels, Leaving, Closing, LastWait, Down
<1>2. Threads'
  BY DEF Threads, Types, TypeOK, Connecting, NetLabels, VbdLabels, Leaving, Closing, LastWait,
         Down
<1>3. Opened'
  BY DEF Opened, ShutAt, Types, TypeOK, Threads, States, Connecting, NetLabels, VbdLabels,
         Leaving, Closing, LastWait, Down
<1>4. States'
  BY DEF States, Types, TypeOK, Threads, Connecting, NetLabels, VbdLabels, Leaving, Closing,
         LastWait, Down
<1>5. Rings'
  BY DEF Rings, HasRing, IsBound, Types, TypeOK, Threads, States, Connecting, NetLabels,
         VbdLabels, Leaving, Closing, LastWait, Down
<1>6. FeAt'
  BY DEF FeAt, Types, TypeOK, Threads, States, Connecting, NetLabels, VbdLabels, Leaving,
         Closing, LastWait, Down
<1>7. BackendStates'
  BY DEF BackendStates, Types, TypeOK, Opened
<1>8. Agreed'
  BY DEF Agreed, Agree, BeforeInit, AllClosed, NoneClosed, Reading, Fresh, InitXxx, Types,
         TypeOK, Threads, States, FeAt, BackendStates, Connecting, NetLabels, VbdLabels, Leaving,
         Closing, LastWait, Down, Opened, ShutAt
<1> QED BY <1>1, <1>2, <1>3, <1>4, <1>5, <1>6, <1>7, <1>8

LEMMA CloseKeeps ==
  ASSUME IInv, Close
  PROVE  IInv'
<1> USE FrontendAssumption DEF IInv, Close, RemWatch, Goto, Leave, Leaves, Idle, Begin, Holds,
                               store, driver, bus, thread, config, bounds, past, Net, Vbd,
                               Suspending, Unconnected
<1>1. Types'
  <2>1. watch' \in BOOLEAN
    BY Zenon DEF Types, TypeOK
  <2>2. fired' \in BOOLEAN
    BY Zenon DEF Types, TypeOK
  <2>3. device_callback' \in BOOLEAN
    BY Zenon DEF Types, TypeOK
  <2> QED BY <2>1, <2>2, <2>3 DEF Types, TypeOK, Threads, XenbusStates, Faults, NetLabels,
                                  VbdLabels, Leaving, Closing, LastWait, Down
<1>2. Threads'
  BY DEF Threads, Types, TypeOK, Connecting, NetLabels, VbdLabels, Leaving, Closing, LastWait,
         Down
<1>3. Opened'
  BY DEF Opened, ShutAt, Types, TypeOK, Threads, States, Connecting, NetLabels, VbdLabels,
         Leaving, Closing, LastWait, Down
<1>4. States'
  BY DEF States, Types, TypeOK, Threads, Connecting, NetLabels, VbdLabels, Leaving, Closing,
         LastWait, Down
<1>5. Rings'
  BY DEF Rings, HasRing, IsBound, Types, TypeOK, Threads, States, Connecting, NetLabels,
         VbdLabels, Leaving, Closing, LastWait, Down
<1>6. FeAt'
  BY DEF FeAt, Types, TypeOK, Threads, States, Connecting, NetLabels, VbdLabels, Leaving,
         Closing, LastWait, Down
<1>7. BackendStates'
  BY DEF BackendStates, Types, TypeOK, Opened
<1>8. Agreed'
  BY DEF Agreed, Agree, BeforeInit, AllClosed, NoneClosed, Reading, Fresh, InitXxx, Types,
         TypeOK, Threads, States, FeAt, BackendStates, Connecting, NetLabels, VbdLabels, Leaving,
         Closing, LastWait, Down
<1> QED BY <1>1, <1>2, <1>3, <1>4, <1>5, <1>6, <1>7, <1>8

LEMMA NetConnectedKeeps ==
  ASSUME IInv, Net, WriteState("connect", "Connected", "waitConn")
  PROVE  IInv'
<1> USE FrontendAssumption DEF IInv, WriteState, Goto, Leave, Leaves, Idle, Begin, Holds, store,
                               driver, bus, thread, config, bounds, past, Net, Vbd, Suspending,
                               Unconnected
<1>1. Types'
  BY DEF Types, TypeOK, Threads, XenbusStates, Faults, NetLabels, VbdLabels, Leaving, Closing,
         LastWait, Down
<1>2. Threads'
  BY DEF Threads, Types, TypeOK, Connecting, NetLabels, VbdLabels, Leaving, Closing, LastWait,
         Down
<1>3. Opened'
  BY DEF Opened, ShutAt, Types, TypeOK, Threads, States, Connecting, NetLabels, VbdLabels,
         Leaving, Closing, LastWait, Down
<1>4. States'
  BY DEF States, Types, TypeOK, Threads, Connecting, NetLabels, VbdLabels, Leaving, Closing,
         LastWait, Down
<1>5. Rings'
  BY DEF Rings, HasRing, IsBound, Types, TypeOK, Threads, States, Connecting, NetLabels,
         VbdLabels, Leaving, Closing, LastWait, Down
<1>6. FeAt'
  BY DEF FeAt, Types, TypeOK, Threads, States, Connecting, NetLabels, VbdLabels, Leaving,
         Closing, LastWait, Down
<1>7. BackendStates'
  BY DEF BackendStates, Types, TypeOK, Opened
<1>8. Agreed'
  BY DEF Agreed, Agree, BeforeInit, AllClosed, NoneClosed, Reading, Fresh, InitXxx, Types,
         TypeOK, Threads, States, FeAt, BackendStates, Connecting, NetLabels, VbdLabels, Leaving,
         Closing, LastWait, Down, Rings, HasRing, IsBound
<1> QED BY <1>1, <1>2, <1>3, <1>4, <1>5, <1>6, <1>7, <1>8

LEMMA VbdInitialisedKeeps ==
  ASSUME IInv, Vbd, WriteState("initialised", "Initialised", "waitConn")
  PROVE  IInv'
<1> USE FrontendAssumption DEF IInv, WriteState, Goto, Leave, Leaves, Idle, Begin, Holds, store,
                               driver, bus, thread, config, bounds, past, Net, Vbd, Suspending,
                               Unconnected
<1>1. Types'
  BY DEF Types, TypeOK, Threads, XenbusStates, Faults, NetLabels, VbdLabels, Leaving, Closing,
         LastWait, Down
<1>2. Threads'
  BY DEF Threads, Types, TypeOK, Connecting, NetLabels, VbdLabels, Leaving, Closing, LastWait,
         Down
<1>3. Opened'
  BY DEF Opened, ShutAt, Types, TypeOK, Threads, States, Connecting, NetLabels, VbdLabels,
         Leaving, Closing, LastWait, Down
<1>4. States'
  BY DEF States, Types, TypeOK, Threads, Connecting, NetLabels, VbdLabels, Leaving, Closing,
         LastWait, Down
<1>5. Rings'
  BY DEF Rings, HasRing, IsBound, Types, TypeOK, Threads, States, Connecting, NetLabels,
         VbdLabels, Leaving, Closing, LastWait, Down
<1>6. FeAt'
  BY DEF FeAt, Types, TypeOK, Threads, States, Connecting, NetLabels, VbdLabels, Leaving,
         Closing, LastWait, Down
<1>7. BackendStates'
  BY DEF BackendStates, Types, TypeOK, Opened
<1>8. Agreed'
  BY DEF Agreed, Agree, BeforeInit, AllClosed, NoneClosed, Reading, Fresh, InitXxx, Types,
         TypeOK, Threads, States, FeAt, BackendStates, Connecting, NetLabels, VbdLabels, Leaving,
         Closing, LastWait, Down, Rings, HasRing, IsBound
<1> QED BY <1>1, <1>2, <1>3, <1>4, <1>5, <1>6, <1>7, <1>8

LEMMA VbdConnectedKeeps ==
  ASSUME IInv, Vbd, WriteState("writeConn", "Connected", "active")
  PROVE  IInv'
<1> USE FrontendAssumption DEF IInv, WriteState, Goto, Leave, Leaves, Idle, Begin, Holds, store,
                               driver, bus, thread, config, bounds, past, Net, Vbd, Suspending,
                               Unconnected
<1>1. Types'
  BY DEF Types, TypeOK, Threads, XenbusStates, Faults, NetLabels, VbdLabels, Leaving, Closing,
         LastWait, Down
<1>2. Threads'
  BY DEF Threads, Types, TypeOK, Connecting, NetLabels, VbdLabels, Leaving, Closing, LastWait,
         Down
<1>3. Opened'
  BY DEF Opened, ShutAt, Types, TypeOK, Threads, States, Connecting, NetLabels, VbdLabels,
         Leaving, Closing, LastWait, Down
<1>4. States'
  BY DEF States, Types, TypeOK, Threads, Connecting, NetLabels, VbdLabels, Leaving, Closing,
         LastWait, Down
<1>5. Rings'
  BY DEF Rings, HasRing, IsBound, Types, TypeOK, Threads, States, Connecting, NetLabels,
         VbdLabels, Leaving, Closing, LastWait, Down
<1>6. FeAt'
  BY DEF FeAt, Types, TypeOK, Threads, States, Connecting, NetLabels, VbdLabels, Leaving,
         Closing, LastWait, Down
<1>7. BackendStates'
  BY DEF BackendStates, Types, TypeOK, Opened
<1>8. Agreed'
  BY DEF Agreed, Agree, BeforeInit, AllClosed, NoneClosed, Reading, Fresh, InitXxx, Types,
         TypeOK, Threads, States, FeAt, BackendStates, Connecting, NetLabels, VbdLabels, Leaving,
         Closing, LastWait, Down
<1> QED BY <1>1, <1>2, <1>3, <1>4, <1>5, <1>6, <1>7, <1>8

LEMMA WriteClosingKeeps ==
  ASSUME IInv, WriteState("closing", "Closing", "waitClosing")
  PROVE  IInv'
<1> USE FrontendAssumption DEF IInv, WriteState, Goto, Leave, Leaves, Idle, Begin, Holds, store,
                               driver, bus, thread, config, bounds, past, Net, Vbd, Suspending,
                               Unconnected
<1>1. Types'
  BY DEF Types, TypeOK, Threads, XenbusStates, Faults, NetLabels, VbdLabels, Leaving, Closing,
         LastWait, Down
<1>2. Threads'
  BY DEF Threads, Types, TypeOK, Connecting, NetLabels, VbdLabels, Leaving, Closing, LastWait,
         Down
<1>3. Opened'
  BY DEF Opened, ShutAt, Types, TypeOK, Threads, States, Connecting, NetLabels, VbdLabels,
         Leaving, Closing, LastWait, Down
<1>4. States'
  BY DEF States, Types, TypeOK, Threads, Connecting, NetLabels, VbdLabels, Leaving, Closing,
         LastWait, Down
<1>5. Rings'
  BY DEF Rings, HasRing, IsBound, Types, TypeOK, Threads, States, Connecting, NetLabels,
         VbdLabels, Leaving, Closing, LastWait, Down
<1>6. FeAt'
  BY DEF FeAt, Types, TypeOK, Threads, States, Connecting, NetLabels, VbdLabels, Leaving,
         Closing, LastWait, Down
<1>7. BackendStates'
  BY DEF BackendStates, Types, TypeOK, Opened
<1>8. Agreed'
  BY DEF Agreed, Agree, BeforeInit, AllClosed, NoneClosed, Reading, Fresh, InitXxx, Types,
         TypeOK, Threads, States, FeAt, BackendStates, Connecting, NetLabels, VbdLabels, Leaving,
         Closing, LastWait, Down
<1> QED BY <1>1, <1>2, <1>3, <1>4, <1>5, <1>6, <1>7, <1>8

LEMMA WriteClosedKeeps ==
  ASSUME IInv, WriteState("closed", "Closed", "waitClosed")
  PROVE  IInv'
<1> USE FrontendAssumption DEF IInv, WriteState, Goto, Leave, Leaves, Idle, Begin, Holds, store,
                               driver, bus, thread, config, bounds, past, Net, Vbd, Suspending,
                               Unconnected
<1>1. Types'
  BY DEF Types, TypeOK, Threads, XenbusStates, Faults, NetLabels, VbdLabels, Leaving, Closing,
         LastWait, Down
<1>2. Threads'
  BY DEF Threads, Types, TypeOK, Connecting, NetLabels, VbdLabels, Leaving, Closing, LastWait,
         Down
<1>3. Opened'
  BY DEF Opened, ShutAt, Types, TypeOK, Threads, States, Connecting, NetLabels, VbdLabels,
         Leaving, Closing, LastWait, Down
<1>4. States'
  BY DEF States, Types, TypeOK, Threads, Connecting, NetLabels, VbdLabels, Leaving, Closing,
         LastWait, Down
<1>5. Rings'
  BY DEF Rings, HasRing, IsBound, Types, TypeOK, Threads, States, Connecting, NetLabels,
         VbdLabels, Leaving, Closing, LastWait, Down
<1>6. FeAt'
  BY DEF FeAt, Types, TypeOK, Threads, States, Connecting, NetLabels, VbdLabels, Leaving,
         Closing, LastWait, Down
<1>7. BackendStates'
  BY DEF BackendStates, Types, TypeOK, Opened
<1>8. Agreed'
  BY DEF Agreed, Agree, BeforeInit, AllClosed, NoneClosed, Reading, Fresh, InitXxx, Types,
         TypeOK, Threads, States, FeAt, BackendStates, Connecting, NetLabels, VbdLabels, Leaving,
         Closing, LastWait, Down
<1> QED BY <1>1, <1>2, <1>3, <1>4, <1>5, <1>6, <1>7, <1>8

LEMMA VbdWaitInitKeeps ==
  ASSUME IInv, Vbd, Wait("waitInit", "sleepInit", InitXxx \cup {"Connected"}, "hidden")
  PROVE  IInv'
<1> USE FrontendAssumption DEF IInv, Wait, InitXxx, Goto, Leave, Leaves, Idle, Begin, Holds,
                               store, driver, bus, thread, config, bounds, past, Net, Vbd,
                               Suspending, Unconnected
<1>1. Types'
  <2>1. backend_event' \in BOOLEAN
    BY Zenon DEF Types, TypeOK
  <2>2. UNCHANGED <<config, cb, pnp, bus, past, bounds, by, store, device_callback, xi,
  device_state, backend_state, rings, bound, tries>>
    BY Zenon
  <2>3. pc' \in {"waitInit", "sleepInit", "hidden"}
    BY DEF Types, TypeOK, XenbusStates
  <2> HIDE DEF Wait
  <2> QED BY <2>1, <2>2, <2>3 DEF Types, TypeOK, Threads, XenbusStates, Faults, NetLabels,
                                  VbdLabels, Leaving, Closing, LastWait, Down
<1>2. Threads'
  BY DEF Threads, Types, TypeOK, Connecting, NetLabels, VbdLabels, Leaving, Closing, LastWait,
         Down
<1>3. Opened'
  BY DEF Opened, ShutAt, Types, TypeOK, Threads, States, Connecting, NetLabels, VbdLabels,
         Leaving, Closing, LastWait, Down
<1>4. States'
  BY DEF States, Types, TypeOK, Threads, Connecting, NetLabels, VbdLabels, Leaving, Closing,
         LastWait, Down
<1>5. Rings'
  BY DEF Rings, HasRing, IsBound, Types, TypeOK, Threads, States, Connecting, NetLabels,
         VbdLabels, Leaving, Closing, LastWait, Down
<1>6. FeAt'
  BY DEF FeAt, Types, TypeOK, Threads, States, Connecting, NetLabels, VbdLabels, Leaving,
         Closing, LastWait, Down, Agreed, Agree, BeforeInit, InitXxx
<1>7. BackendStates'
  BY DEF BackendStates, Types, TypeOK, Opened
<1>8. Agreed'
  BY DEF Agreed, Agree, BeforeInit, AllClosed, NoneClosed, Reading, Fresh, InitXxx, Types,
         TypeOK, Threads, States, FeAt, BackendStates, Connecting, NetLabels, VbdLabels, Leaving,
         Closing, LastWait, Down
<1> QED BY <1>1, <1>2, <1>3, <1>4, <1>5, <1>6, <1>7, <1>8

LEMMA VbdWaitConnKeeps ==
  ASSUME IInv, Vbd, Wait("waitConn", "sleepConn", {"Connected"}, "writeConn")
  PROVE  IInv'
<1> USE FrontendAssumption DEF IInv, Wait, Goto, Leave, Leaves, Idle, Begin, Holds, store,
                               driver, bus, thread, config, bounds, past, Net, Vbd, Suspending,
                               Unconnected
<1>1. Types'
  <2>1. backend_event' \in BOOLEAN
    BY Zenon DEF Types, TypeOK
  <2>2. UNCHANGED <<config, cb, pnp, bus, past, bounds, by, store, device_callback, xi,
  device_state, backend_state, rings, bound, tries>>
    BY Zenon
  <2>3. pc' \in {"waitConn", "sleepConn", "writeConn"}
    BY DEF Types, TypeOK, XenbusStates
  <2> HIDE DEF Wait
  <2> QED BY <2>1, <2>2, <2>3 DEF Types, TypeOK, Threads, XenbusStates, Faults, NetLabels,
                                  VbdLabels, Leaving, Closing, LastWait, Down
<1>2. Threads'
  BY DEF Threads, Types, TypeOK, Connecting, NetLabels, VbdLabels, Leaving, Closing, LastWait,
         Down
<1>3. Opened'
  BY DEF Opened, ShutAt, Types, TypeOK, Threads, States, Connecting, NetLabels, VbdLabels,
         Leaving, Closing, LastWait, Down
<1>4. States'
  BY DEF States, Types, TypeOK, Threads, Connecting, NetLabels, VbdLabels, Leaving, Closing,
         LastWait, Down
<1>5. Rings'
  BY DEF Rings, HasRing, IsBound, Types, TypeOK, Threads, States, Connecting, NetLabels,
         VbdLabels, Leaving, Closing, LastWait, Down
<1>6. FeAt'
  BY DEF FeAt, Types, TypeOK, Threads, States, Connecting, NetLabels, VbdLabels, Leaving,
         Closing, LastWait, Down
<1>7. BackendStates'
  BY DEF BackendStates, Types, TypeOK, Opened
<1>8. Agreed'
  BY DEF Agreed, Agree, BeforeInit, AllClosed, NoneClosed, Reading, Fresh, InitXxx, Types,
         TypeOK, Threads, States, FeAt, BackendStates, Connecting, NetLabels, VbdLabels, Leaving,
         Closing, LastWait, Down
<1> QED BY <1>1, <1>2, <1>3, <1>4, <1>5, <1>6, <1>7, <1>8

LEMMA WaitClosingKeeps ==
  ASSUME IInv, Wait("waitClosing", "sleepClosing", ClosingStates, "closed")
  PROVE  IInv'
<1> USE FrontendAssumption DEF IInv, Wait, ClosingStates, Goto, Leave, Leaves, Idle, Begin,
                               Holds, store, driver, bus, thread, config, bounds, past, Net, Vbd,
                               Suspending, Unconnected
<1>1. Types'
  <2>1. backend_event' \in BOOLEAN
    BY Zenon DEF Types, TypeOK
  <2>2. UNCHANGED <<config, cb, pnp, bus, past, bounds, by, store, device_callback, xi,
  device_state, backend_state, rings, bound, tries>>
    BY Zenon
  <2>3. pc' \in {"waitClosing", "sleepClosing", "closed"}
    BY DEF Types, TypeOK, XenbusStates
  <2> HIDE DEF Wait
  <2> QED BY <2>1, <2>2, <2>3 DEF Types, TypeOK, Threads, XenbusStates, Faults, NetLabels,
                                  VbdLabels, Leaving, Closing, LastWait, Down
<1>2. Threads'
  BY DEF Threads, Types, TypeOK, Connecting, NetLabels, VbdLabels, Leaving, Closing, LastWait,
         Down
<1>3. Opened'
  BY DEF Opened, ShutAt, Types, TypeOK, Threads, States, Connecting, NetLabels, VbdLabels,
         Leaving, Closing, LastWait, Down
<1>4. States'
  BY DEF States, Types, TypeOK, Threads, Connecting, NetLabels, VbdLabels, Leaving, Closing,
         LastWait, Down
<1>5. Rings'
  BY DEF Rings, HasRing, IsBound, Types, TypeOK, Threads, States, Connecting, NetLabels,
         VbdLabels, Leaving, Closing, LastWait, Down
<1>6. FeAt'
  BY DEF FeAt, Types, TypeOK, Threads, States, Connecting, NetLabels, VbdLabels, Leaving,
         Closing, LastWait, Down
<1>7. BackendStates'
  BY DEF BackendStates, Types, TypeOK, Opened
<1>8. Agreed'
  BY DEF Agreed, Agree, BeforeInit, AllClosed, NoneClosed, Reading, Fresh, InitXxx, Types,
         TypeOK, Threads, States, FeAt, BackendStates, Connecting, NetLabels, VbdLabels, Leaving,
         Closing, LastWait, Down
<1> QED BY <1>1, <1>2, <1>3, <1>4, <1>5, <1>6, <1>7, <1>8

LEMMA WaitClosedKeeps ==
  ASSUME IInv, WaitClosed
  PROVE  IInv'
<1> USE FrontendAssumption DEF IInv, WaitClosed, Wait, Goto, Leave, Leaves, Idle, Begin, Holds,
                               store, driver, bus, thread, config, bounds, past, Net, Vbd,
                               Suspending, Unconnected
<1>1. Types'
  <2>1. backend_event' \in BOOLEAN
    BY Zenon DEF Types, TypeOK
  <2>2. UNCHANGED <<config, cb, pnp, bus, past, bounds, by, store, device_callback, xi,
  device_state, backend_state, rings, bound, tries>>
    BY Zenon
  <2>3. pc' \in {"waitClosed", "sleepClosed", "unbind"}
    BY DEF Types, TypeOK, XenbusStates
  <2> HIDE DEF Wait, WaitClosed
  <2> QED BY <2>1, <2>2, <2>3 DEF Types, TypeOK, Threads, XenbusStates, Faults, NetLabels,
                                  VbdLabels, Leaving, Closing, LastWait, Down
<1>2. Threads'
  BY DEF Threads, Types, TypeOK, Connecting, NetLabels, VbdLabels, Leaving, Closing, LastWait,
         Down
<1>3. Opened'
  BY DEF Opened, ShutAt, Types, TypeOK, Threads, States, Connecting, NetLabels, VbdLabels,
         Leaving, Closing, LastWait, Down
<1>4. States'
  BY DEF States, Types, TypeOK, Threads, Connecting, NetLabels, VbdLabels, Leaving, Closing,
         LastWait, Down
<1>5. Rings'
  BY DEF Rings, HasRing, IsBound, Types, TypeOK, Threads, States, Connecting, NetLabels,
         VbdLabels, Leaving, Closing, LastWait, Down
<1>6. FeAt'
  BY DEF FeAt, Types, TypeOK, Threads, States, Connecting, NetLabels, VbdLabels, Leaving,
         Closing, LastWait, Down
<1>7. BackendStates'
  BY DEF BackendStates, Types, TypeOK, Opened
<1>8. Agreed'
  BY DEF Agreed, Agree, BeforeInit, AllClosed, NoneClosed, Reading, Fresh, InitXxx, Types,
         TypeOK, Threads, States, FeAt, BackendStates, Connecting, NetLabels, VbdLabels, Leaving,
         Closing, LastWait, Down
<1> QED BY <1>1, <1>2, <1>3, <1>4, <1>5, <1>6, <1>7, <1>8

LEMMA NetBindKeeps ==
  ASSUME IInv, Net, Bind("bind", "mac")
  PROVE  IInv'
<1> USE FrontendAssumption DEF IInv, Bind, Goto, Leave, Leaves, Idle, Begin, Holds, store,
                               driver, bus, thread, config, bounds, past, Net, Vbd, Suspending,
                               Unconnected
<1>1. Types'
  BY DEF Types, TypeOK, Threads, XenbusStates, Faults, NetLabels, VbdLabels, Leaving, Closing,
         LastWait, Down
<1>2. Threads'
  BY DEF Threads, Types, TypeOK, Connecting, NetLabels, VbdLabels, Leaving, Closing, LastWait,
         Down
<1>3. Opened'
  BY DEF Opened, ShutAt, Types, TypeOK, Threads, States, Connecting, NetLabels, VbdLabels,
         Leaving, Closing, LastWait, Down
<1>4. States'
  BY DEF States, Types, TypeOK, Threads, Connecting, NetLabels, VbdLabels, Leaving, Closing,
         LastWait, Down
<1>5. Rings'
  BY DEF Rings, HasRing, IsBound, Types, TypeOK, Threads, States, Connecting, NetLabels,
         VbdLabels, Leaving, Closing, LastWait, Down
<1>6. FeAt'
  BY DEF FeAt, Types, TypeOK, Threads, States, Connecting, NetLabels, VbdLabels, Leaving,
         Closing, LastWait, Down
<1>7. BackendStates'
  BY DEF BackendStates, Types, TypeOK, Opened
<1>8. Agreed'
  BY DEF Agreed, Agree, BeforeInit, AllClosed, NoneClosed, Reading, Fresh, InitXxx, Types,
         TypeOK, Threads, States, FeAt, BackendStates, Connecting, NetLabels, VbdLabels, Leaving,
         Closing, LastWait, Down
<1> QED BY <1>1, <1>2, <1>3, <1>4, <1>5, <1>6, <1>7, <1>8

LEMMA VbdBindKeeps ==
  ASSUME IInv, Vbd, Bind("bind", "initialised")
  PROVE  IInv'
<1> USE FrontendAssumption DEF IInv, Bind, Goto, Leave, Leaves, Idle, Begin, Holds, store,
                               driver, bus, thread, config, bounds, past, Net, Vbd, Suspending,
                               Unconnected
<1>1. Types'
  BY DEF Types, TypeOK, Threads, XenbusStates, Faults, NetLabels, VbdLabels, Leaving, Closing,
         LastWait, Down
<1>2. Threads'
  BY DEF Threads, Types, TypeOK, Connecting, NetLabels, VbdLabels, Leaving, Closing, LastWait,
         Down
<1>3. Opened'
  BY DEF Opened, ShutAt, Types, TypeOK, Threads, States, Connecting, NetLabels, VbdLabels,
         Leaving, Closing, LastWait, Down
<1>4. States'
  BY DEF States, Types, TypeOK, Threads, Connecting, NetLabels, VbdLabels, Leaving, Closing,
         LastWait, Down
<1>5. Rings'
  BY DEF Rings, HasRing, IsBound, Types, TypeOK, Threads, States, Connecting, NetLabels,
         VbdLabels, Leaving, Closing, LastWait, Down
<1>6. FeAt'
  BY DEF FeAt, Types, TypeOK, Threads, States, Connecting, NetLabels, VbdLabels, Leaving,
         Closing, LastWait, Down
<1>7. BackendStates'
  BY DEF BackendStates, Types, TypeOK, Opened
<1>8. Agreed'
  BY DEF Agreed, Agree, BeforeInit, AllClosed, NoneClosed, Reading, Fresh, InitXxx, Types,
         TypeOK, Threads, States, FeAt, BackendStates, Connecting, NetLabels, VbdLabels, Leaving,
         Closing, LastWait, Down
<1> QED BY <1>1, <1>2, <1>3, <1>4, <1>5, <1>6, <1>7, <1>8

LEMMA InitialisingKeeps ==
  ASSUME IInv, Initialising
  PROVE  IInv'
<1> USE FrontendAssumption DEF IInv, Initialising, Goto, Leave, Leaves, Idle, Begin, Holds,
                               store, driver, bus, thread, config, bounds, past, Net, Vbd,
                               Suspending, Unconnected
<1>1. Types'
  BY DEF Types, TypeOK, Threads, XenbusStates, Faults, NetLabels, VbdLabels, Leaving, Closing,
         LastWait, Down
<1>2. Threads'
  BY DEF Threads, Types, TypeOK, Connecting, NetLabels, VbdLabels, Leaving, Closing, LastWait,
         Down
<1>3. Opened'
  BY DEF Opened, ShutAt, Types, TypeOK, Threads, States, Connecting, NetLabels, VbdLabels,
         Leaving, Closing, LastWait, Down
<1>4. States'
  BY DEF States, Types, TypeOK, Threads, Connecting, NetLabels, VbdLabels, Leaving, Closing,
         LastWait, Down
<1>5. Rings'
  BY DEF Rings, HasRing, IsBound, Types, TypeOK, Threads, States, Connecting, NetLabels,
         VbdLabels, Leaving, Closing, LastWait, Down
<1>6. FeAt'
  BY DEF FeAt, Types, TypeOK, Threads, States, Connecting, NetLabels, VbdLabels, Leaving,
         Closing, LastWait, Down
<1>7. BackendStates'
  BY DEF BackendStates, Types, TypeOK, Opened
<1>8. Agreed'
  BY DEF Agreed, Agree, BeforeInit, AllClosed, NoneClosed, Reading, Fresh, InitXxx, Types,
         TypeOK, Threads, States, FeAt, BackendStates, Connecting, NetLabels, VbdLabels, Leaving,
         Closing, LastWait, Down
<1> QED BY <1>1, <1>2, <1>3, <1>4, <1>5, <1>6, <1>7, <1>8

LEMMA NetWaitInitKeeps ==
  ASSUME IInv, NetWait("waitInit", InitXxx, "bind")
  PROVE  IInv'
<1> USE FrontendAssumption DEF IInv, NetWait, InitXxx, Goto, Leave, Leaves, Idle, Begin, Holds,
                               store, driver, bus, thread, config, bounds, past, Net, Vbd,
                               Suspending, Unconnected
<1>1. Types'
  <2>1. backend_event' \in BOOLEAN
    BY Zenon DEF Types, TypeOK
  <2> QED BY <2>1 DEF Types, TypeOK, Threads, XenbusStates, Faults, NetLabels, VbdLabels,
                      Leaving, Closing, LastWait, Down
<1>2. Threads'
  BY DEF Threads, Types, TypeOK, Connecting, NetLabels, VbdLabels, Leaving, Closing, LastWait,
         Down
<1>3. Opened'
  BY DEF Opened, ShutAt, Types, TypeOK, Threads, States, Connecting, NetLabels, VbdLabels,
         Leaving, Closing, LastWait, Down
<1>4. States'
  BY DEF States, Types, TypeOK, Threads, Connecting, NetLabels, VbdLabels, Leaving, Closing,
         LastWait, Down
<1>5. Rings'
  BY DEF Rings, HasRing, IsBound, Types, TypeOK, Threads, States, Connecting, NetLabels,
         VbdLabels, Leaving, Closing, LastWait, Down
<1>6. FeAt'
  BY DEF FeAt, Types, TypeOK, Threads, States, Connecting, NetLabels, VbdLabels, Leaving,
         Closing, LastWait, Down
<1>7. BackendStates'
  BY DEF BackendStates, Types, TypeOK, Opened
<1>8. Agreed'
  BY DEF Agreed, Agree, BeforeInit, AllClosed, NoneClosed, Reading, Fresh, InitXxx, Types,
         TypeOK, Threads, States, FeAt, BackendStates, Connecting, NetLabels, VbdLabels, Leaving,
         Closing, LastWait, Down
<1> QED BY <1>1, <1>2, <1>3, <1>4, <1>5, <1>6, <1>7, <1>8

LEMMA NetWaitConnKeeps ==
  ASSUME IInv, NetWait("waitConn", {"Connected"}, "connected")
  PROVE  IInv'
<1> USE FrontendAssumption DEF IInv, NetWait, Goto, Leave, Leaves, Idle, Begin, Holds, store,
                               driver, bus, thread, config, bounds, past, Net, Vbd, Suspending,
                               Unconnected
<1>1. Types'
  <2>1. backend_event' \in BOOLEAN
    BY Zenon DEF Types, TypeOK
  <2> QED BY <2>1 DEF Types, TypeOK, Threads, XenbusStates, Faults, NetLabels, VbdLabels,
                      Leaving, Closing, LastWait, Down
<1>2. Threads'
  BY DEF Threads, Types, TypeOK, Connecting, NetLabels, VbdLabels, Leaving, Closing, LastWait,
         Down
<1>3. Opened'
  BY DEF Opened, ShutAt, Types, TypeOK, Threads, States, Connecting, NetLabels, VbdLabels,
         Leaving, Closing, LastWait, Down
<1>4. States'
  BY DEF States, Types, TypeOK, Threads, Connecting, NetLabels, VbdLabels, Leaving, Closing,
         LastWait, Down
<1>5. Rings'
  BY DEF Rings, HasRing, IsBound, Types, TypeOK, Threads, States, Connecting, NetLabels,
         VbdLabels, Leaving, Closing, LastWait, Down
<1>6. FeAt'
  BY DEF FeAt, Types, TypeOK, Threads, States, Connecting, NetLabels, VbdLabels, Leaving,
         Closing, LastWait, Down
<1>7. BackendStates'
  BY DEF BackendStates, Types, TypeOK, Opened
<1>8. Agreed'
  BY DEF Agreed, Agree, BeforeInit, AllClosed, NoneClosed, Reading, Fresh, InitXxx, Types,
         TypeOK, Threads, States, FeAt, BackendStates, Connecting, NetLabels, VbdLabels, Leaving,
         Closing, LastWait, Down
<1> QED BY <1>1, <1>2, <1>3, <1>4, <1>5, <1>6, <1>7, <1>8

LEMMA MacKeeps ==
  ASSUME IInv, Mac
  PROVE  IInv'
<1> USE FrontendAssumption DEF IInv, Mac, Goto, Leave, Leaves, Idle, Begin, Holds, store, driver,
                               bus, thread, config, bounds, past, Net, Vbd, Suspending,
                               Unconnected
<1>1. Types'
  BY DEF Types, TypeOK, Threads, XenbusStates, Faults, NetLabels, VbdLabels, Leaving, Closing,
         LastWait, Down
<1>2. Threads'
  BY DEF Threads, Types, TypeOK, Connecting, NetLabels, VbdLabels, Leaving, Closing, LastWait,
         Down
<1>3. Opened'
  BY DEF Opened, ShutAt, Types, TypeOK, Threads, States, Connecting, NetLabels, VbdLabels,
         Leaving, Closing, LastWait, Down
<1>4. States'
  BY DEF States, Types, TypeOK, Threads, Connecting, NetLabels, VbdLabels, Leaving, Closing,
         LastWait, Down
<1>5. Rings'
  BY DEF Rings, HasRing, IsBound, Types, TypeOK, Threads, States, Connecting, NetLabels,
         VbdLabels, Leaving, Closing, LastWait, Down
<1>6. FeAt'
  BY DEF FeAt, Types, TypeOK, Threads, States, Connecting, NetLabels, VbdLabels, Leaving,
         Closing, LastWait, Down
<1>7. BackendStates'
  BY DEF BackendStates, Types, TypeOK, Opened
<1>8. Agreed'
  BY DEF Agreed, Agree, BeforeInit, AllClosed, NoneClosed, Reading, Fresh, InitXxx, Types,
         TypeOK, Threads, States, FeAt, BackendStates, Connecting, NetLabels, VbdLabels, Leaving,
         Closing, LastWait, Down
<1> QED BY <1>1, <1>2, <1>3, <1>4, <1>5, <1>6, <1>7, <1>8

LEMMA VbdTestKeeps ==
  ASSUME IInv, VbdTest
  PROVE  IInv'
<1> USE FrontendAssumption DEF IInv, VbdTest, Goto, Leave, Leaves, Idle, Begin, Holds, store,
                               driver, bus, thread, config, bounds, past, Net, Vbd, Suspending,
                               Unconnected
<1>1. Types'
  BY DEF Types, TypeOK, Threads, XenbusStates, Faults, NetLabels, VbdLabels, Leaving, Closing,
         LastWait, Down
<1>2. Threads'
  BY DEF Threads, Types, TypeOK, Connecting, NetLabels, VbdLabels, Leaving, Closing, LastWait,
         Down
<1>3. Opened'
  BY DEF Opened, ShutAt, Types, TypeOK, Threads, States, Connecting, NetLabels, VbdLabels,
         Leaving, Closing, LastWait, Down
<1>4. States'
  BY DEF States, Types, TypeOK, Threads, Connecting, NetLabels, VbdLabels, Leaving, Closing,
         LastWait, Down
<1>5. Rings'
  BY DEF Rings, HasRing, IsBound, Types, TypeOK, Threads, States, Connecting, NetLabels,
         VbdLabels, Leaving, Closing, LastWait, Down
<1>6. FeAt'
  BY DEF FeAt, Types, TypeOK, Threads, States, Connecting, NetLabels, VbdLabels, Leaving,
         Closing, LastWait, Down
<1>7. BackendStates'
  BY DEF BackendStates, Types, TypeOK, Opened
<1>8. Agreed'
  BY DEF Agreed, Agree, BeforeInit, AllClosed, NoneClosed, Reading, Fresh, InitXxx, Types,
         TypeOK, Threads, States, FeAt, BackendStates, Connecting, NetLabels, VbdLabels, Leaving,
         Closing, LastWait, Down
<1> QED BY <1>1, <1>2, <1>3, <1>4, <1>5, <1>6, <1>7, <1>8

LEMMA GrantRingKeeps ==
  ASSUME IInv, GrantRing
  PROVE  IInv'
<1> USE FrontendAssumption DEF IInv, GrantRing, Goto, Leave, Leaves, Idle, Begin, Holds, store,
                               driver, bus, thread, config, bounds, past, Net, Vbd, Suspending,
                               Unconnected
<1>1. Types'
  BY DEF Types, TypeOK, Threads, XenbusStates, Faults, NetLabels, VbdLabels, Leaving, Closing,
         LastWait, Down
<1>2. Threads'
  BY DEF Threads, Types, TypeOK, Connecting, NetLabels, VbdLabels, Leaving, Closing, LastWait,
         Down
<1>3. Opened'
  BY DEF Opened, ShutAt, Types, TypeOK, Threads, States, Connecting, NetLabels, VbdLabels,
         Leaving, Closing, LastWait, Down
<1>4. States'
  BY DEF States, Types, TypeOK, Threads, Connecting, NetLabels, VbdLabels, Leaving, Closing,
         LastWait, Down
<1>5. Rings'
  BY DEF Rings, HasRing, IsBound, Types, TypeOK, Threads, States, Connecting, NetLabels,
         VbdLabels, Leaving, Closing, LastWait, Down
<1>6. FeAt'
  BY DEF FeAt, Types, TypeOK, Threads, States, Connecting, NetLabels, VbdLabels, Leaving,
         Closing, LastWait, Down
<1>7. BackendStates'
  BY DEF BackendStates, Types, TypeOK, Opened
<1>8. Agreed'
  BY DEF Agreed, Agree, BeforeInit, AllClosed, NoneClosed, Reading, Fresh, InitXxx, Types,
         TypeOK, Threads, States, FeAt, BackendStates, Connecting, NetLabels, VbdLabels, Leaving,
         Closing, LastWait, Down
<1> QED BY <1>1, <1>2, <1>3, <1>4, <1>5, <1>6, <1>7, <1>8

LEMMA VbdInactiveKeeps ==
  ASSUME IInv, VbdInactive
  PROVE  IInv'
<1> USE FrontendAssumption DEF IInv, VbdInactive, RemWatch, Goto, Leave, Leaves, Idle, Begin,
                               Holds, store, driver, bus, thread, config, bounds, past, Net, Vbd,
                               Suspending, Unconnected
<1>1. Types'
  <2>1. watch' \in BOOLEAN
    BY Zenon DEF Types, TypeOK
  <2>2. fired' \in BOOLEAN
    BY Zenon DEF Types, TypeOK
  <2>3. device_callback' \in BOOLEAN
    BY Zenon DEF Types, TypeOK
  <2> QED BY <2>1, <2>2, <2>3 DEF Types, TypeOK, Threads, XenbusStates, Faults, NetLabels,
                                  VbdLabels, Leaving, Closing, LastWait, Down
<1>2. Threads'
  BY DEF Threads, Types, TypeOK, Connecting, NetLabels, VbdLabels, Leaving, Closing, LastWait,
         Down
<1>3. Opened'
  BY DEF Opened, ShutAt, Types, TypeOK, Threads, States, Connecting, NetLabels, VbdLabels,
         Leaving, Closing, LastWait, Down
<1>4. States'
  BY DEF States, Types, TypeOK, Threads, Connecting, NetLabels, VbdLabels, Leaving, Closing,
         LastWait, Down
<1>5. Rings'
  BY DEF Rings, HasRing, IsBound, Types, TypeOK, Threads, States, Connecting, NetLabels,
         VbdLabels, Leaving, Closing, LastWait, Down
<1>6. FeAt'
  BY DEF FeAt, Types, TypeOK, Threads, States, Connecting, NetLabels, VbdLabels, Leaving,
         Closing, LastWait, Down
<1>7. BackendStates'
  BY DEF BackendStates, Types, TypeOK, Opened
<1>8. Agreed'
  BY DEF Agreed, Agree, BeforeInit, AllClosed, NoneClosed, Reading, Fresh, InitXxx, Types,
         TypeOK, Threads, States, FeAt, BackendStates, Connecting, NetLabels, VbdLabels, Leaving,
         Closing, LastWait, Down
<1> QED BY <1>1, <1>2, <1>3, <1>4, <1>5, <1>6, <1>7, <1>8

LEMMA VbdActiveKeeps ==
  ASSUME IInv, VbdActive
  PROVE  IInv'
<1> USE FrontendAssumption DEF IInv, VbdActive, Goto, Leave, Leaves, Idle, Begin, Holds, store,
                               driver, bus, thread, config, bounds, past, Net, Vbd, Suspending,
                               Unconnected
<1>1. Types'
  BY DEF Types, TypeOK, Threads, XenbusStates, Faults, NetLabels, VbdLabels, Leaving, Closing,
         LastWait, Down
<1>2. Threads'
  BY DEF Threads, Types, TypeOK, Connecting, NetLabels, VbdLabels, Leaving, Closing, LastWait,
         Down
<1>3. Opened'
  BY DEF Opened, ShutAt, Types, TypeOK, Threads, States, Connecting, NetLabels, VbdLabels,
         Leaving, Closing, LastWait, Down
<1>4. States'
  BY DEF States, Types, TypeOK, Threads, Connecting, NetLabels, VbdLabels, Leaving, Closing,
         LastWait, Down
<1>5. Rings'
  BY DEF Rings, HasRing, IsBound, Types, TypeOK, Threads, States, Connecting, NetLabels,
         VbdLabels, Leaving, Closing, LastWait, Down
<1>6. FeAt'
  BY DEF FeAt, Types, TypeOK, Threads, States, Connecting, NetLabels, VbdLabels, Leaving,
         Closing, LastWait, Down
<1>7. BackendStates'
  BY DEF BackendStates, Types, TypeOK, Opened
<1>8. Agreed'
  BY DEF Agreed, Agree, BeforeInit, AllClosed, NoneClosed, Reading, Fresh, InitXxx, Types,
         TypeOK, Threads, States, FeAt, BackendStates, Connecting, NetLabels, VbdLabels, Leaving,
         Closing, LastWait, Down
<1> QED BY <1>1, <1>2, <1>3, <1>4, <1>5, <1>6, <1>7, <1>8

LEMMA DisconnectTestKeeps ==
  ASSUME IInv, DisconnectTest
  PROVE  IInv'
<1> USE FrontendAssumption DEF IInv, DisconnectTest, Goto, Leave, Leaves, Idle, Begin, Holds,
                               store, driver, bus, thread, config, bounds, past, Net, Vbd,
                               Suspending, Unconnected
<1>1. Types'
  BY DEF Types, TypeOK, Threads, XenbusStates, Faults, NetLabels, VbdLabels, Leaving, Closing,
         LastWait, Down
<1>2. Threads'
  BY DEF Threads, Types, TypeOK, Connecting, NetLabels, VbdLabels, Leaving, Closing, LastWait,
         Down
<1>3. Opened'
  BY DEF Opened, ShutAt, Types, TypeOK, Threads, States, Connecting, NetLabels, VbdLabels,
         Leaving, Closing, LastWait, Down
<1>4. States'
  BY DEF States, Types, TypeOK, Threads, Connecting, NetLabels, VbdLabels, Leaving, Closing,
         LastWait, Down
<1>5. Rings'
  BY DEF Rings, HasRing, IsBound, Types, TypeOK, Threads, States, Connecting, NetLabels,
         VbdLabels, Leaving, Closing, LastWait, Down
<1>6. FeAt'
  BY DEF FeAt, Types, TypeOK, Threads, States, Connecting, NetLabels, VbdLabels, Leaving,
         Closing, LastWait, Down
<1>7. BackendStates'
  BY DEF BackendStates, Types, TypeOK, Opened
<1>8. Agreed'
  BY DEF Agreed, Agree, BeforeInit, AllClosed, NoneClosed, Reading, Fresh, InitXxx, Types,
         TypeOK, Threads, States, FeAt, BackendStates, Connecting, NetLabels, VbdLabels, Leaving,
         Closing, LastWait, Down
<1> QED BY <1>1, <1>2, <1>3, <1>4, <1>5, <1>6, <1>7, <1>8

LEMMA UnbindKeeps ==
  ASSUME IInv, Unbind
  PROVE  IInv'
<1> USE FrontendAssumption DEF IInv, Unbind, Goto, Leave, Leaves, Idle, Begin, Holds, store,
                               driver, bus, thread, config, bounds, past, Net, Vbd, Suspending,
                               Unconnected
<1>1. Types'
  <2>1. bound' \in BOOLEAN
    BY Zenon DEF Types, TypeOK
  <2> QED BY <2>1 DEF Types, TypeOK, Threads, XenbusStates, Faults, NetLabels, VbdLabels,
                      Leaving, Closing, LastWait, Down
<1>2. Threads'
  BY DEF Threads, Types, TypeOK, Connecting, NetLabels, VbdLabels, Leaving, Closing, LastWait,
         Down
<1>3. Opened'
  BY DEF Opened, ShutAt, Types, TypeOK, Threads, States, Connecting, NetLabels, VbdLabels,
         Leaving, Closing, LastWait, Down
<1>4. States'
  BY DEF States, Types, TypeOK, Threads, Connecting, NetLabels, VbdLabels, Leaving, Closing,
         LastWait, Down
<1>5. Rings'
  BY DEF Rings, HasRing, IsBound, Types, TypeOK, Threads, States, Connecting, NetLabels,
         VbdLabels, Leaving, Closing, LastWait, Down
<1>6. FeAt'
  BY DEF FeAt, Types, TypeOK, Threads, States, Connecting, NetLabels, VbdLabels, Leaving,
         Closing, LastWait, Down
<1>7. BackendStates'
  BY DEF BackendStates, Types, TypeOK, Opened
<1>8. Agreed'
  BY DEF Agreed, Agree, BeforeInit, AllClosed, NoneClosed, Reading, Fresh, InitXxx, Types,
         TypeOK, Threads, States, FeAt, BackendStates, Connecting, NetLabels, VbdLabels, Leaving,
         Closing, LastWait, Down
<1> QED BY <1>1, <1>2, <1>3, <1>4, <1>5, <1>6, <1>7, <1>8

LEMMA FreeKeeps ==
  ASSUME IInv, Free
  PROVE  IInv'
<1> USE FrontendAssumption DEF IInv, Free, Goto, Leave, Leaves, Idle, Begin, Holds, store,
                               driver, bus, thread, config, bounds, past, Net, Vbd, Suspending,
                               Unconnected
<1>1. Types'
  <2>1. rings' \in BOOLEAN
    BY Zenon DEF Types, TypeOK
  <2> QED BY <2>1 DEF Types, TypeOK, Threads, XenbusStates, Faults, NetLabels, VbdLabels,
                      Leaving, Closing, LastWait, Down
<1>2. Threads'
  BY DEF Threads, Types, TypeOK, Connecting, NetLabels, VbdLabels, Leaving, Closing, LastWait,
         Down
<1>3. Opened'
  BY DEF Opened, ShutAt, Types, TypeOK, Threads, States, Connecting, NetLabels, VbdLabels,
         Leaving, Closing, LastWait, Down
<1>4. States'
  BY DEF States, Types, TypeOK, Threads, Connecting, NetLabels, VbdLabels, Leaving, Closing,
         LastWait, Down
<1>5. Rings'
  BY DEF Rings, HasRing, IsBound, Types, TypeOK, Threads, States, Connecting, NetLabels,
         VbdLabels, Leaving, Closing, LastWait, Down
<1>6. FeAt'
  BY DEF FeAt, Types, TypeOK, Threads, States, Connecting, NetLabels, VbdLabels, Leaving,
         Closing, LastWait, Down
<1>7. BackendStates'
  BY DEF BackendStates, Types, TypeOK, Opened
<1>8. Agreed'
  BY DEF Agreed, Agree, BeforeInit, AllClosed, NoneClosed, Reading, Fresh, InitXxx, Types,
         TypeOK, Threads, States, FeAt, BackendStates, Connecting, NetLabels, VbdLabels, Leaving,
         Closing, LastWait, Down
<1> QED BY <1>1, <1>2, <1>3, <1>4, <1>5, <1>6, <1>7, <1>8

LEMMA DisconnectedKeeps ==
  ASSUME IInv, Disconnected
  PROVE  IInv'
<1> USE FrontendAssumption DEF IInv, Disconnected, Goto, Leave, Leaves, Idle, Begin, Holds,
                               store, driver, bus, thread, config, bounds, past, Net, Vbd,
                               Suspending, Unconnected
<1>1. Types'
  BY DEF Types, TypeOK, Threads, XenbusStates, Faults, NetLabels, VbdLabels, Leaving, Closing,
         LastWait, Down
<1>2. Threads'
  BY DEF Threads, Types, TypeOK, Connecting, NetLabels, VbdLabels, Leaving, Closing, LastWait,
         Down
<1>3. Opened'
  BY DEF Opened, ShutAt, Types, TypeOK, Threads, States, Connecting, NetLabels, VbdLabels,
         Leaving, Closing, LastWait, Down
<1>4. States'
  BY DEF States, Types, TypeOK, Threads, Connecting, NetLabels, VbdLabels, Leaving, Closing,
         LastWait, Down
<1>5. Rings'
  BY DEF Rings, HasRing, IsBound, Types, TypeOK, Threads, States, Connecting, NetLabels,
         VbdLabels, Leaving, Closing, LastWait, Down
<1>6. FeAt'
  BY DEF FeAt, Types, TypeOK, Threads, States, Connecting, NetLabels, VbdLabels, Leaving,
         Closing, LastWait, Down
<1>7. BackendStates'
  BY DEF BackendStates, Types, TypeOK, Opened
<1>8. Agreed'
  BY DEF Agreed, Agree, BeforeInit, AllClosed, NoneClosed, Reading, Fresh, InitXxx, Types,
         TypeOK, Threads, States, FeAt, BackendStates, Connecting, NetLabels, VbdLabels, Leaving,
         Closing, LastWait, Down
<1> QED BY <1>1, <1>2, <1>3, <1>4, <1>5, <1>6, <1>7, <1>8

LEMMA StartKeeps ==
  ASSUME IInv, Start
  PROVE  IInv'
<1> USE FrontendAssumption DEF IInv, Start, Goto, Leave, Leaves, Idle, Begin, Holds, store,
                               driver, bus, thread, config, bounds, past, Net, Vbd, Suspending,
                               Unconnected
<1>1. Types'
  <2>1. backend_event' \in BOOLEAN
    BY Zenon DEF Types, TypeOK
  <2>2. UNCHANGED <<config, store, cb, device_callback, rings, bound, bus, tries, past, bounds>>
    BY Zenon
  <2>3. device_state' \in {"INITIALISING", device_state}
    BY DEF Types, TypeOK, XenbusStates
  <2>4. backend_state' \in XenbusStates
    BY DEF Types, TypeOK, XenbusStates
  <2>5. pc' \in {"open", "test"}
    BY DEF Types, TypeOK, XenbusStates
  <2>6. by' = Pnp /\ pnp' = "starting" /\ xi'
    BY DEF Types, TypeOK, XenbusStates
  <2> HIDE DEF Start
  <2> QED BY <2>1, <2>2, <2>3, <2>4, <2>5, <2>6 DEF Types, TypeOK, Threads, XenbusStates, Faults,
                                                    NetLabels, VbdLabels, Leaving, Closing,
                                                    LastWait, Down
<1>2. Threads'
  BY DEF Threads, Types, TypeOK, Connecting, NetLabels, VbdLabels, Leaving, Closing, LastWait,
         Down
<1>3. Opened'
  BY DEF Opened, ShutAt, Types, TypeOK, Threads, States, Connecting, NetLabels, VbdLabels,
         Leaving, Closing, LastWait, Down
<1>4. States'
  BY DEF States, Types, TypeOK, Threads, Connecting, NetLabels, VbdLabels, Leaving, Closing,
         LastWait, Down
<1>5. Rings'
  BY DEF Rings, HasRing, IsBound, Types, TypeOK, Threads, States, Connecting, NetLabels,
         VbdLabels, Leaving, Closing, LastWait, Down
<1>6. FeAt'
  BY DEF FeAt, Types, TypeOK, Threads, States, Connecting, NetLabels, VbdLabels, Leaving,
         Closing, LastWait, Down
<1>7. BackendStates'
  BY DEF BackendStates, Types, TypeOK, Opened
<1>8. Agreed'
  BY DEF Agreed, Agree, BeforeInit, AllClosed, NoneClosed, Reading, Fresh, InitXxx, Types,
         TypeOK, Threads, States, FeAt, BackendStates, Connecting, NetLabels, VbdLabels, Leaving,
         Closing, LastWait, Down
<1> QED BY <1>1, <1>2, <1>3, <1>4, <1>5, <1>6, <1>7, <1>8

LEMMA StartedKeeps ==
  ASSUME IInv, Started
  PROVE  IInv'
<1> USE FrontendAssumption DEF IInv, Started, Goto, Leave, Leaves, Idle, Begin, Holds, store,
                               driver, bus, thread, config, bounds, past, Net, Vbd, Suspending,
                               Unconnected
<1>1. Types'
  BY DEF Types, TypeOK, Threads, XenbusStates, Faults, NetLabels, VbdLabels, Leaving, Closing,
         LastWait, Down
<1>2. Threads'
  BY DEF Threads, Types, TypeOK, Connecting, NetLabels, VbdLabels, Leaving, Closing, LastWait,
         Down
<1>3. Opened'
  BY DEF Opened, ShutAt, Types, TypeOK, Threads, States, Connecting, NetLabels, VbdLabels,
         Leaving, Closing, LastWait, Down
<1>4. States'
  BY DEF States, Types, TypeOK, Threads, Connecting, NetLabels, VbdLabels, Leaving, Closing,
         LastWait, Down
<1>5. Rings'
  BY DEF Rings, HasRing, IsBound, Types, TypeOK, Threads, States, Connecting, NetLabels,
         VbdLabels, Leaving, Closing, LastWait, Down
<1>6. FeAt'
  BY DEF FeAt, Types, TypeOK, Threads, States, Connecting, NetLabels, VbdLabels, Leaving,
         Closing, LastWait, Down
<1>7. BackendStates'
  BY DEF BackendStates, Types, TypeOK, Opened
<1>8. Agreed'
  BY DEF Agreed, Agree, BeforeInit, AllClosed, NoneClosed, Reading, Fresh, InitXxx, Types,
         TypeOK, Threads, States, FeAt, BackendStates, Connecting, NetLabels, VbdLabels, Leaving,
         Closing, LastWait, Down
<1> QED BY <1>1, <1>2, <1>3, <1>4, <1>5, <1>6, <1>7, <1>8

LEMMA StartFailsKeeps ==
  ASSUME IInv, StartFails
  PROVE  IInv'
<1> USE FrontendAssumption DEF IInv, StartFails, Goto, Leave, Leaves, Idle, Begin, Holds, store,
                               driver, bus, thread, config, bounds, past, Net, Vbd, Suspending,
                               Unconnected
<1>1. Types'
  <2>1. xi' \in BOOLEAN
    BY Zenon DEF Types, TypeOK
  <2> QED BY <2>1 DEF Types, TypeOK, Threads, XenbusStates, Faults, NetLabels, VbdLabels,
                      Leaving, Closing, LastWait, Down
<1>2. Threads'
  BY DEF Threads, Types, TypeOK, Connecting, NetLabels, VbdLabels, Leaving, Closing, LastWait,
         Down
<1>3. Opened'
  BY DEF Opened, ShutAt, Types, TypeOK, Threads, States, Connecting, NetLabels, VbdLabels,
         Leaving, Closing, LastWait, Down
<1>4. States'
  BY DEF States, Types, TypeOK, Threads, Connecting, NetLabels, VbdLabels, Leaving, Closing,
         LastWait, Down
<1>5. Rings'
  BY DEF Rings, HasRing, IsBound, Types, TypeOK, Threads, States, Connecting, NetLabels,
         VbdLabels, Leaving, Closing, LastWait, Down
<1>6. FeAt'
  BY DEF FeAt, Types, TypeOK, Threads, States, Connecting, NetLabels, VbdLabels, Leaving,
         Closing, LastWait, Down
<1>7. BackendStates'
  BY DEF BackendStates, Types, TypeOK, Opened
<1>8. Agreed'
  BY DEF Agreed, Agree, BeforeInit, AllClosed, NoneClosed, Reading, Fresh, InitXxx, Types,
         TypeOK, Threads, States, FeAt, BackendStates, Connecting, NetLabels, VbdLabels, Leaving,
         Closing, LastWait, Down
<1> QED BY <1>1, <1>2, <1>3, <1>4, <1>5, <1>6, <1>7, <1>8

LEMMA HaltKeeps ==
  ASSUME IInv, Halt
  PROVE  IInv'
<1> USE FrontendAssumption DEF IInv, Halt, Goto, Leave, Leaves, Idle, Begin, Holds, store,
                               driver, bus, thread, config, bounds, past, Net, Vbd, Suspending,
                               Unconnected
<1>1. Types'
  BY DEF Types, TypeOK, Threads, XenbusStates, Faults, NetLabels, VbdLabels, Leaving, Closing,
         LastWait, Down
<1>2. Threads'
  BY DEF Threads, Types, TypeOK, Connecting, NetLabels, VbdLabels, Leaving, Closing, LastWait,
         Down
<1>3. Opened'
  BY DEF Opened, ShutAt, Types, TypeOK, Threads, States, Connecting, NetLabels, VbdLabels,
         Leaving, Closing, LastWait, Down
<1>4. States'
  BY DEF States, Types, TypeOK, Threads, Connecting, NetLabels, VbdLabels, Leaving, Closing,
         LastWait, Down
<1>5. Rings'
  BY DEF Rings, HasRing, IsBound, Types, TypeOK, Threads, States, Connecting, NetLabels,
         VbdLabels, Leaving, Closing, LastWait, Down
<1>6. FeAt'
  BY DEF FeAt, Types, TypeOK, Threads, States, Connecting, NetLabels, VbdLabels, Leaving,
         Closing, LastWait, Down
<1>7. BackendStates'
  BY DEF BackendStates, Types, TypeOK, Opened
<1>8. Agreed'
  BY DEF Agreed, Agree, BeforeInit, AllClosed, NoneClosed, Reading, Fresh, InitXxx, Types,
         TypeOK, Threads, States, FeAt, BackendStates, Connecting, NetLabels, VbdLabels, Leaving,
         Closing, LastWait, Down
<1> QED BY <1>1, <1>2, <1>3, <1>4, <1>5, <1>6, <1>7, <1>8

LEMMA HaltedKeeps ==
  ASSUME IInv, Halted
  PROVE  IInv'
<1> USE FrontendAssumption DEF IInv, Halted, Goto, Leave, Leaves, Idle, Begin, Holds, store,
                               driver, bus, thread, config, bounds, past, Net, Vbd, Suspending,
                               Unconnected
<1>1. Types'
  <2>1. xi' \in BOOLEAN
    BY Zenon DEF Types, TypeOK
  <2> QED BY <2>1 DEF Types, TypeOK, Threads, XenbusStates, Faults, NetLabels, VbdLabels,
                      Leaving, Closing, LastWait, Down
<1>2. Threads'
  BY DEF Threads, Types, TypeOK, Connecting, NetLabels, VbdLabels, Leaving, Closing, LastWait,
         Down
<1>3. Opened'
  BY DEF Opened, ShutAt, Types, TypeOK, Threads, States, Connecting, NetLabels, VbdLabels,
         Leaving, Closing, LastWait, Down
<1>4. States'
  BY DEF States, Types, TypeOK, Threads, Connecting, NetLabels, VbdLabels, Leaving, Closing,
         LastWait, Down
<1>5. Rings'
  BY DEF Rings, HasRing, IsBound, Types, TypeOK, Threads, States, Connecting, NetLabels,
         VbdLabels, Leaving, Closing, LastWait, Down
<1>6. FeAt'
  BY DEF FeAt, Types, TypeOK, Threads, States, Connecting, NetLabels, VbdLabels, Leaving,
         Closing, LastWait, Down
<1>7. BackendStates'
  BY DEF BackendStates, Types, TypeOK, Opened
<1>8. Agreed'
  BY DEF Agreed, Agree, BeforeInit, AllClosed, NoneClosed, Reading, Fresh, InitXxx, Types,
         TypeOK, Threads, States, FeAt, BackendStates, Connecting, NetLabels, VbdLabels, Leaving,
         Closing, LastWait, Down
<1> QED BY <1>1, <1>2, <1>3, <1>4, <1>5, <1>6, <1>7, <1>8

LEMMA SleepKeeps ==
  ASSUME IInv, NEW h \in BOOLEAN, Sleep(h)
  PROVE  IInv'
<1> USE FrontendAssumption DEF IInv, Sleep, Goto, Leave, Leaves, Idle, Begin, Holds, store,
                               driver, bus, thread, config, bounds, past, Net, Vbd, Suspending,
                               Unconnected
<1>1. Types'
  BY DEF Types, TypeOK, Threads, XenbusStates, Faults, NetLabels, VbdLabels, Leaving, Closing,
         LastWait, Down
<1>2. Threads'
  BY DEF Threads, Types, TypeOK, Connecting, NetLabels, VbdLabels, Leaving, Closing, LastWait,
         Down
<1>3. Opened'
  BY DEF Opened, ShutAt, Types, TypeOK, Threads, States, Connecting, NetLabels, VbdLabels,
         Leaving, Closing, LastWait, Down
<1>4. States'
  BY DEF States, Types, TypeOK, Threads, Connecting, NetLabels, VbdLabels, Leaving, Closing,
         LastWait, Down
<1>5. Rings'
  BY DEF Rings, HasRing, IsBound, Types, TypeOK, Threads, States, Connecting, NetLabels,
         VbdLabels, Leaving, Closing, LastWait, Down
<1>6. FeAt'
  BY DEF FeAt, Types, TypeOK, Threads, States, Connecting, NetLabels, VbdLabels, Leaving,
         Closing, LastWait, Down
<1>7. BackendStates'
  BY DEF BackendStates, Types, TypeOK, Opened
<1>8. Agreed'
  BY DEF Agreed, Agree, BeforeInit, AllClosed, NoneClosed, Reading, Fresh, InitXxx, Types,
         TypeOK, Threads, States, FeAt, BackendStates, Connecting, NetLabels, VbdLabels, Leaving,
         Closing, LastWait, Down
<1> QED BY <1>1, <1>2, <1>3, <1>4, <1>5, <1>6, <1>7, <1>8

LEMMA PdoD0ExitKeeps ==
  ASSUME IInv, PdoD0Exit
  PROVE  IInv'
<1> USE FrontendAssumption DEF IInv, PdoD0Exit, RemWatch, Goto, Leave, Leaves, Idle, Begin,
                               Holds, store, driver, bus, thread, config, bounds, past, Net, Vbd,
                               Suspending, Unconnected
<1>1. Types'
  <2>1. watch' \in BOOLEAN
    BY Zenon DEF Types, TypeOK
  <2>2. fired' \in BOOLEAN
    BY Zenon DEF Types, TypeOK
  <2> QED BY <2>1, <2>2 DEF Types, TypeOK, Threads, XenbusStates, Faults, NetLabels, VbdLabels,
                            Leaving, Closing, LastWait, Down
<1>2. Threads'
  BY DEF Threads, Types, TypeOK, Connecting, NetLabels, VbdLabels, Leaving, Closing, LastWait,
         Down
<1>3. Opened'
  BY DEF Opened, ShutAt, Types, TypeOK, Threads, States, Connecting, NetLabels, VbdLabels,
         Leaving, Closing, LastWait, Down
<1>4. States'
  BY DEF States, Types, TypeOK, Threads, Connecting, NetLabels, VbdLabels, Leaving, Closing,
         LastWait, Down
<1>5. Rings'
  BY DEF Rings, HasRing, IsBound, Types, TypeOK, Threads, States, Connecting, NetLabels,
         VbdLabels, Leaving, Closing, LastWait, Down
<1>6. FeAt'
  BY DEF FeAt, Types, TypeOK, Threads, States, Connecting, NetLabels, VbdLabels, Leaving,
         Closing, LastWait, Down
<1>7. BackendStates'
  BY DEF BackendStates, Types, TypeOK, Opened
<1>8. Agreed'
  BY DEF Agreed, Agree, BeforeInit, AllClosed, NoneClosed, Reading, Fresh, InitXxx, Types,
         TypeOK, Threads, States, FeAt, BackendStates, Connecting, NetLabels, VbdLabels, Leaving,
         Closing, LastWait, Down
<1> QED BY <1>1, <1>2, <1>3, <1>4, <1>5, <1>6, <1>7, <1>8

LEMMA PdoD0EntryKeeps ==
  ASSUME IInv, NEW h \in BOOLEAN, PdoD0Entry(h)
  PROVE  IInv'
<1> USE FrontendAssumption DEF IInv, PdoD0Entry, AddWatch, NewBackend, Goto, Leave, Leaves, Idle,
                               Begin, Holds, store, driver, bus, thread, config, bounds, past,
                               Net, Vbd, Suspending, Unconnected
<1>1. Types'
  <2>1. watch' \in BOOLEAN
    BY Zenon DEF Types, TypeOK
  <2>2. fired' \in BOOLEAN
    BY Zenon DEF Types, TypeOK
  <2>3. mapped' \in BOOLEAN
    BY Zenon DEF Types, TypeOK
  <2> QED BY <2>1, <2>2, <2>3 DEF Types, TypeOK, Threads, XenbusStates, Faults, NetLabels,
                                  VbdLabels, Leaving, Closing, LastWait, Down
<1>2. Threads'
  BY DEF Threads, Types, TypeOK, Connecting, NetLabels, VbdLabels, Leaving, Closing, LastWait,
         Down
<1>3. Opened'
  BY DEF Opened, ShutAt, Types, TypeOK, Threads, States, Connecting, NetLabels, VbdLabels,
         Leaving, Closing, LastWait, Down
<1>4. States'
  BY DEF States, Types, TypeOK, Threads, Connecting, NetLabels, VbdLabels, Leaving, Closing,
         LastWait, Down
<1>5. Rings'
  BY DEF Rings, HasRing, IsBound, Types, TypeOK, Threads, States, Connecting, NetLabels,
         VbdLabels, Leaving, Closing, LastWait, Down
<1>6. FeAt'
  BY DEF FeAt, Types, TypeOK, Threads, States, Connecting, NetLabels, VbdLabels, Leaving,
         Closing, LastWait, Down, Opened, ShutAt
<1>7. BackendStates'
  BY DEF BackendStates, Types, TypeOK, Opened
<1>8. Agreed'
  BY DEF Agreed, Agree, BeforeInit, AllClosed, NoneClosed, Reading, Fresh, InitXxx, Types,
         TypeOK, Threads, States, FeAt, BackendStates, Connecting, NetLabels, VbdLabels, Leaving,
         Closing, LastWait, Down, Opened, ShutAt
<1> QED BY <1>1, <1>2, <1>3, <1>4, <1>5, <1>6, <1>7, <1>8

LEMMA SuspendTestKeeps ==
  ASSUME IInv, NEW s \in Items, SuspendTest(s)
  PROVE  IInv'
<1> USE FrontendAssumption DEF IInv, SuspendTest, ItemStep, Goto, Leave, Leaves, Idle, Begin,
                               Holds, store, driver, bus, thread, config, bounds, past, Net, Vbd,
                               Suspending, Unconnected
<1>1. Types'
  BY DEF Types, TypeOK, Threads, XenbusStates, Faults, NetLabels, VbdLabels, Leaving, Closing,
         LastWait, Down
<1>2. Threads'
  BY DEF Threads, Types, TypeOK, Connecting, NetLabels, VbdLabels, Leaving, Closing, LastWait,
         Down
<1>3. Opened'
  BY DEF Opened, ShutAt, Types, TypeOK, Threads, States, Connecting, NetLabels, VbdLabels,
         Leaving, Closing, LastWait, Down
<1>4. States'
  BY DEF States, Types, TypeOK, Threads, Connecting, NetLabels, VbdLabels, Leaving, Closing,
         LastWait, Down
<1>5. Rings'
  BY DEF Rings, HasRing, IsBound, Types, TypeOK, Threads, States, Connecting, NetLabels,
         VbdLabels, Leaving, Closing, LastWait, Down
<1>6. FeAt'
  BY DEF FeAt, Types, TypeOK, Threads, States, Connecting, NetLabels, VbdLabels, Leaving,
         Closing, LastWait, Down
<1>7. BackendStates'
  BY DEF BackendStates, Types, TypeOK, Opened
<1>8. Agreed'
  BY DEF Agreed, Agree, BeforeInit, AllClosed, NoneClosed, Reading, Fresh, InitXxx, Types,
         TypeOK, Threads, States, FeAt, BackendStates, Connecting, NetLabels, VbdLabels, Leaving,
         Closing, LastWait, Down
<1> QED BY <1>1, <1>2, <1>3, <1>4, <1>5, <1>6, <1>7, <1>8

LEMMA SuspendBeginKeeps ==
  ASSUME IInv, NEW s \in Items, SuspendBegin(s)
  PROVE  IInv'
<1> USE FrontendAssumption DEF IInv, SuspendBegin, ItemStep, Goto, Leave, Leaves, Idle, Begin,
                               Holds, store, driver, bus, thread, config, bounds, past, Net, Vbd,
                               Suspending, Unconnected
<1>a. by = NoOne /\ pc = "idle" /\ pnp \in {"out", "up"} /\ by' = s /\ mutex' = s
  BY DEF Threads, Types, TypeOK, ItemStep
<1>1. Types'
  BY DEF Types, TypeOK, Threads, XenbusStates, Faults, NetLabels, VbdLabels, Leaving, Closing,
         LastWait, Down
<1>2. Threads'
  BY <1>a DEF Threads, Opened, ShutAt, Types, TypeOK, Connecting, NetLabels, VbdLabels, Leaving,
              Closing, LastWait, Down
<1>3. Opened'
  BY DEF Opened, ShutAt, Types, TypeOK, Threads, States, Connecting, NetLabels, VbdLabels,
         Leaving, Closing, LastWait, Down
<1>4. States'
  BY <1>a DEF States, Opened, ShutAt, Types, TypeOK, Threads, Connecting, NetLabels, VbdLabels,
              Leaving, Closing, LastWait, Down
<1>5. Rings'
  BY <1>a DEF Rings, HasRing, IsBound, Opened, ShutAt, Types, TypeOK, Threads, States,
              Connecting, NetLabels, VbdLabels, Leaving, Closing, LastWait, Down
<1>6. FeAt'
  BY <1>a DEF FeAt, Opened, ShutAt, Types, TypeOK, Threads, States, Connecting, NetLabels,
              VbdLabels, Leaving, Closing, LastWait, Down
<1>7. BackendStates'
  BY DEF BackendStates, Types, TypeOK, Opened
<1>8. Agreed'
  BY DEF Agreed, Agree, BeforeInit, AllClosed, NoneClosed, Reading, Fresh, InitXxx, Types,
         TypeOK, Threads, States, FeAt, BackendStates, Connecting, NetLabels, VbdLabels, Leaving,
         Closing, LastWait, Down
<1> QED BY <1>1, <1>2, <1>3, <1>4, <1>5, <1>6, <1>7, <1>8

LEMMA SuspendPdoKeeps ==
  ASSUME IInv, NEW s \in Items, SuspendPdo(s)
  PROVE  IInv'
<1> USE FrontendAssumption DEF IInv, SuspendPdo, RemWatch, Goto, Leave, Leaves, Idle, Begin,
                               Holds, store, driver, bus, thread, config, bounds, past, Net, Vbd,
                               Suspending, Unconnected
<1>1. Types'
  <2>1. watch' \in BOOLEAN
    BY Zenon DEF Types, TypeOK
  <2>2. fired' \in BOOLEAN
    BY Zenon DEF Types, TypeOK
  <2> QED BY <2>1, <2>2 DEF Types, TypeOK, Threads, XenbusStates, Faults, NetLabels, VbdLabels,
                            Leaving, Closing, LastWait, Down
<1>2. Threads'
  BY DEF Threads, Types, TypeOK, Connecting, NetLabels, VbdLabels, Leaving, Closing, LastWait,
         Down
<1>3. Opened'
  BY DEF Opened, ShutAt, Types, TypeOK, Threads, States, Connecting, NetLabels, VbdLabels,
         Leaving, Closing, LastWait, Down
<1>4. States'
  BY DEF States, Types, TypeOK, Threads, Connecting, NetLabels, VbdLabels, Leaving, Closing,
         LastWait, Down
<1>5. Rings'
  BY DEF Rings, HasRing, IsBound, Types, TypeOK, Threads, States, Connecting, NetLabels,
         VbdLabels, Leaving, Closing, LastWait, Down
<1>6. FeAt'
  BY DEF FeAt, Types, TypeOK, Threads, States, Connecting, NetLabels, VbdLabels, Leaving,
         Closing, LastWait, Down
<1>7. BackendStates'
  BY DEF BackendStates, Types, TypeOK, Opened
<1>8. Agreed'
  BY DEF Agreed, Agree, BeforeInit, AllClosed, NoneClosed, Reading, Fresh, InitXxx, Types,
         TypeOK, Threads, States, FeAt, BackendStates, Connecting, NetLabels, VbdLabels, Leaving,
         Closing, LastWait, Down
<1> QED BY <1>1, <1>2, <1>3, <1>4, <1>5, <1>6, <1>7, <1>8

LEMMA BusDownKeeps ==
  ASSUME IInv, NEW s \in Items, BusDown(s)
  PROVE  IInv'
<1> USE FrontendAssumption DEF IInv, BusDown, Goto, Leave, Leaves, Idle, Begin, Holds, store,
                               driver, bus, thread, config, bounds, past, Net, Vbd, Suspending,
                               Unconnected
<1>1. Types'
  <2>1. xenbus' \in BOOLEAN
    BY Zenon DEF Types, TypeOK
  <2> QED BY <2>1 DEF Types, TypeOK, Threads, XenbusStates, Faults, NetLabels, VbdLabels,
                      Leaving, Closing, LastWait, Down
<1>2. Threads'
  BY DEF Threads, Types, TypeOK, Connecting, NetLabels, VbdLabels, Leaving, Closing, LastWait,
         Down
<1>3. Opened'
  BY DEF Opened, ShutAt, Types, TypeOK, Threads, States, Connecting, NetLabels, VbdLabels,
         Leaving, Closing, LastWait, Down
<1>4. States'
  BY DEF States, Types, TypeOK, Threads, Connecting, NetLabels, VbdLabels, Leaving, Closing,
         LastWait, Down
<1>5. Rings'
  BY DEF Rings, HasRing, IsBound, Types, TypeOK, Threads, States, Connecting, NetLabels,
         VbdLabels, Leaving, Closing, LastWait, Down
<1>6. FeAt'
  BY DEF FeAt, Types, TypeOK, Threads, States, Connecting, NetLabels, VbdLabels, Leaving,
         Closing, LastWait, Down
<1>7. BackendStates'
  BY DEF BackendStates, Types, TypeOK, Opened
<1>8. Agreed'
  BY DEF Agreed, Agree, BeforeInit, AllClosed, NoneClosed, Reading, Fresh, InitXxx, Types,
         TypeOK, Threads, States, FeAt, BackendStates, Connecting, NetLabels, VbdLabels, Leaving,
         Closing, LastWait, Down
<1> QED BY <1>1, <1>2, <1>3, <1>4, <1>5, <1>6, <1>7, <1>8

LEMMA HvmShutdownKeeps ==
  ASSUME IInv, NEW s \in Items, HvmShutdown(s)
  PROVE  IInv'
<1> USE FrontendAssumption DEF IInv, HvmShutdown, NewBackend, Goto, Leave, Leaves, Idle, Begin,
                               Holds, store, driver, bus, thread, config, bounds, past, Net, Vbd,
                               Suspending, Unconnected
<1>1. Types'
  <2>1. mapped' \in BOOLEAN
    BY Zenon DEF Types, TypeOK
  <2>2. fe' \in XenbusStates /\ be' \in XenbusStates
    BY DEF Types, TypeOK, XenbusStates, Faults
  <2>3. faults' \subseteq Faults
    BY DEF Types, TypeOK, XenbusStates, Faults
  <2> QED BY <2>1, <2>2, <2>3 DEF Types, TypeOK, Threads, XenbusStates, Faults, NetLabels,
                                  VbdLabels, Leaving, Closing, LastWait, Down
<1>2. Threads'
  BY DEF Threads, Types, TypeOK, Connecting, NetLabels, VbdLabels, Leaving, Closing, LastWait,
         Down
<1>3. Opened'
  BY DEF Opened, ShutAt, Types, TypeOK, Threads, States, Connecting, NetLabels, VbdLabels,
         Leaving, Closing, LastWait, Down
<1>4. States'
  BY DEF States, Types, TypeOK, Threads, Connecting, NetLabels, VbdLabels, Leaving, Closing,
         LastWait, Down
<1>5. Rings'
  BY DEF Rings, HasRing, IsBound, Types, TypeOK, Threads, States, Connecting, NetLabels,
         VbdLabels, Leaving, Closing, LastWait, Down
<1>6. FeAt'
  BY DEF FeAt, Types, TypeOK, Threads, States, Connecting, NetLabels, VbdLabels, Leaving,
         Closing, LastWait, Down
<1>7. BackendStates'
  BY DEF BackendStates, Types, TypeOK, Opened
<1>8. Agreed'
  BY DEF Agreed, Agree, BeforeInit, AllClosed, NoneClosed, Reading, Fresh, InitXxx, Types,
         TypeOK, Threads, States, FeAt, BackendStates, Connecting, NetLabels, VbdLabels, Leaving,
         Closing, LastWait, Down
<1> QED BY <1>1, <1>2, <1>3, <1>4, <1>5, <1>6, <1>7, <1>8

LEMMA ResumeShutKeeps ==
  ASSUME IInv, NEW s \in Items, ResumePdo(s), ~device_callback
  PROVE  IInv'
<1> USE FrontendAssumption DEF IInv, ResumePdo, AddWatch, Goto, Leave, Leaves, Idle, Begin,
                               Holds, store, driver, bus, thread, config, bounds, past, Net, Vbd,
                               Suspending, Unconnected
<1>a. pc' = "resumed" /\ device_state' = device_state
  BY DEF Types, TypeOK
<1>b. by = s /\ mutex = s /\ pc = "resuming"
  OBVIOUS
<1>c. xenbus'
  OBVIOUS
<1>1. Types'
  <2>1. watch' \in BOOLEAN /\ fired' \in BOOLEAN
    BY Zenon DEF Types, TypeOK
  <2> QED BY <1>a, <1>c, <2>1 DEF Types, TypeOK, Threads, XenbusStates, Faults, NetLabels,
                                  VbdLabels, Leaving, Closing, LastWait, Down
<1>2. Threads'
  BY <1>a, <1>b, <1>c DEF Threads, Types, TypeOK, Connecting, NetLabels, VbdLabels, Leaving,
                          Closing, LastWait, Down, Opened, ShutAt
<1>3. Opened'
  BY DEF Opened, ShutAt, Types, TypeOK, Threads, States, Connecting, NetLabels, VbdLabels,
         Leaving, Closing, LastWait, Down
<1>4. States'
  BY <1>a, <1>b, <1>c DEF States, Types, TypeOK, Threads, Connecting, NetLabels, VbdLabels,
                          Leaving, Closing, LastWait, Down, Opened, ShutAt
<1>5. Rings'
  BY DEF Rings, HasRing, IsBound, Types, TypeOK, Threads, States, Connecting, NetLabels,
         VbdLabels, Leaving, Closing, LastWait, Down
<1>6. FeAt'
  BY <1>a, <1>b, <1>c DEF FeAt, Types, TypeOK, Threads, States, Connecting, NetLabels, VbdLabels,
                          Leaving, Closing, LastWait, Down, Opened, ShutAt
<1>7. BackendStates'
  BY DEF BackendStates, Types, TypeOK, Opened
<1>8. Agreed'
  BY DEF Agreed, Agree, BeforeInit, AllClosed, NoneClosed, Reading, Fresh, InitXxx, Types,
         TypeOK, Threads, States, FeAt, BackendStates, Connecting, NetLabels, VbdLabels, Leaving,
         Closing, LastWait, Down
<1> QED BY <1>1, <1>2, <1>3, <1>4, <1>5, <1>6, <1>7, <1>8

LEMMA ResumeNetKeeps ==
  ASSUME IInv, NEW s \in Items, ResumePdo(s), device_callback, Net
  PROVE  IInv'
<1> USE FrontendAssumption DEF IInv, ResumePdo, AddWatch, Goto, Leave, Leaves, Idle, Begin,
                               Holds, store, driver, bus, thread, config, bounds, past, Net, Vbd,
                               Suspending, Unconnected
<1>a. pc' = "open" /\ device_state' = "INITIALISING"
  BY DEF Types, TypeOK
<1>b. by = s /\ mutex = s /\ pc = "resuming"
  OBVIOUS
<1>c. xenbus'
  OBVIOUS
<1>1. Types'
  <2>1. watch' \in BOOLEAN /\ fired' \in BOOLEAN
    BY Zenon DEF Types, TypeOK
  <2> QED BY <1>a, <1>c, <2>1 DEF Types, TypeOK, Threads, XenbusStates, Faults, NetLabels,
                                  VbdLabels, Leaving, Closing, LastWait, Down
<1>2. Threads'
  BY <1>a, <1>b, <1>c DEF Threads, Types, TypeOK, Connecting, NetLabels, VbdLabels, Leaving,
                          Closing, LastWait, Down, Opened, ShutAt
<1>3. Opened'
  BY DEF Opened, ShutAt, Types, TypeOK, Threads, States, Connecting, NetLabels, VbdLabels,
         Leaving, Closing, LastWait, Down
<1>4. States'
  BY <1>a, <1>b, <1>c DEF States, Types, TypeOK, Threads, Connecting, NetLabels, VbdLabels,
                          Leaving, Closing, LastWait, Down, Opened, ShutAt
<1>5. Rings'
  BY DEF Rings, HasRing, IsBound, Types, TypeOK, Threads, States, Connecting, NetLabels,
         VbdLabels, Leaving, Closing, LastWait, Down
<1>6. FeAt'
  BY <1>a, <1>b, <1>c DEF FeAt, Types, TypeOK, Threads, States, Connecting, NetLabels, VbdLabels,
                          Leaving, Closing, LastWait, Down, Opened, ShutAt
<1>7. BackendStates'
  BY DEF BackendStates, Types, TypeOK, Opened
<1>8. Agreed'
  BY DEF Agreed, Agree, BeforeInit, AllClosed, NoneClosed, Reading, Fresh, InitXxx, Types,
         TypeOK, Threads, States, FeAt, BackendStates, Connecting, NetLabels, VbdLabels, Leaving,
         Closing, LastWait, Down
<1> QED BY <1>1, <1>2, <1>3, <1>4, <1>5, <1>6, <1>7, <1>8

LEMMA ResumeVbdKeeps ==
  ASSUME IInv, NEW s \in Items, ResumePdo(s), device_callback, Vbd
  PROVE  IInv'
<1> USE FrontendAssumption DEF IInv, ResumePdo, AddWatch, Goto, Leave, Leaves, Idle, Begin,
                               Holds, store, driver, bus, thread, config, bounds, past, Net, Vbd,
                               Suspending, Unconnected
<1>a. pc' = "test" /\ device_state' = device_state
  BY DEF Types, TypeOK
<1>b. by = s /\ mutex = s /\ pc = "resuming"
  OBVIOUS
<1>c. xenbus'
  OBVIOUS
<1>1. Types'
  <2>1. watch' \in BOOLEAN /\ fired' \in BOOLEAN
    BY Zenon DEF Types, TypeOK
  <2> QED BY <1>a, <1>c, <2>1 DEF Types, TypeOK, Threads, XenbusStates, Faults, NetLabels,
                                  VbdLabels, Leaving, Closing, LastWait, Down
<1>2. Threads'
  BY <1>a, <1>b, <1>c DEF Threads, Types, TypeOK, Connecting, NetLabels, VbdLabels, Leaving,
                          Closing, LastWait, Down, Opened, ShutAt
<1>3. Opened'
  BY DEF Opened, ShutAt, Types, TypeOK, Threads, States, Connecting, NetLabels, VbdLabels,
         Leaving, Closing, LastWait, Down
<1>4. States'
  BY <1>a, <1>b, <1>c DEF States, Types, TypeOK, Threads, Connecting, NetLabels, VbdLabels,
                          Leaving, Closing, LastWait, Down, Opened, ShutAt
<1>5. Rings'
  BY DEF Rings, HasRing, IsBound, Types, TypeOK, Threads, States, Connecting, NetLabels,
         VbdLabels, Leaving, Closing, LastWait, Down
<1>6. FeAt'
  BY <1>a, <1>b, <1>c DEF FeAt, Types, TypeOK, Threads, States, Connecting, NetLabels, VbdLabels,
                          Leaving, Closing, LastWait, Down, Opened, ShutAt
<1>7. BackendStates'
  BY DEF BackendStates, Types, TypeOK, Opened
<1>8. Agreed'
  BY DEF Agreed, Agree, BeforeInit, AllClosed, NoneClosed, Reading, Fresh, InitXxx, Types,
         TypeOK, Threads, States, FeAt, BackendStates, Connecting, NetLabels, VbdLabels, Leaving,
         Closing, LastWait, Down
<1> QED BY <1>1, <1>2, <1>3, <1>4, <1>5, <1>6, <1>7, <1>8

LEMMA ResumedKeeps ==
  ASSUME IInv, NEW s \in Items, Resumed(s)
  PROVE  IInv'
<1> USE FrontendAssumption DEF IInv, Resumed, Goto, Leave, Leaves, Idle, Begin, Holds, store,
                               driver, bus, thread, config, bounds, past, Net, Vbd, Suspending,
                               Unconnected
<1>a. pnp = "up" /\ by = s /\ by \in Items
  BY DEF Threads, Types, TypeOK, Down
<1>1. Types'
  BY DEF Types, TypeOK, Threads, XenbusStates, Faults, NetLabels, VbdLabels, Leaving, Closing,
         LastWait, Down
<1>2. Threads'
  BY DEF Threads, Types, TypeOK, Connecting, NetLabels, VbdLabels, Leaving, Closing, LastWait,
         Down
<1>3. Opened'
  BY DEF Opened, ShutAt, Types, TypeOK, Threads, States, Connecting, NetLabels, VbdLabels,
         Leaving, Closing, LastWait, Down
<1>4. States'
  BY <1>a DEF States, Types, TypeOK, Threads, Connecting, NetLabels, VbdLabels, Leaving, Closing,
              LastWait, Down
<1>5. Rings'
  BY <1>a DEF Rings, HasRing, IsBound, Types, TypeOK, Threads, States, Connecting, NetLabels,
              VbdLabels, Leaving, Closing, LastWait, Down
<1>6. FeAt'
  BY <1>a DEF FeAt, Types, TypeOK, Threads, States, Connecting, NetLabels, VbdLabels, Leaving,
              Closing, LastWait, Down
<1>7. BackendStates'
  BY DEF BackendStates, Types, TypeOK, Opened
<1>8. Agreed'
  BY DEF Agreed, Agree, BeforeInit, AllClosed, NoneClosed, Reading, Fresh, InitXxx, Types,
         TypeOK, Threads, States, FeAt, BackendStates, Connecting, NetLabels, VbdLabels, Leaving,
         Closing, LastWait, Down
<1> QED BY <1>1, <1>2, <1>3, <1>4, <1>5, <1>6, <1>7, <1>8

LEMMA SuspendEndKeeps ==
  ASSUME IInv, NEW s \in Items, SuspendEnd(s)
  PROVE  IInv'
<1> USE FrontendAssumption DEF IInv, SuspendEnd, ItemStep, Goto, Leave, Leaves, Idle, Begin,
                               Holds, store, driver, bus, thread, config, bounds, past, Net, Vbd,
                               Suspending, Unconnected
<1>1. Types'
  BY DEF Types, TypeOK, Threads, XenbusStates, Faults, NetLabels, VbdLabels, Leaving, Closing,
         LastWait, Down
<1>2. Threads'
  BY DEF Threads, Types, TypeOK, Connecting, NetLabels, VbdLabels, Leaving, Closing, LastWait,
         Down
<1>3. Opened'
  BY DEF Opened, ShutAt, Types, TypeOK, Threads, States, Connecting, NetLabels, VbdLabels,
         Leaving, Closing, LastWait, Down
<1>4. States'
  BY DEF States, Types, TypeOK, Threads, Connecting, NetLabels, VbdLabels, Leaving, Closing,
         LastWait, Down
<1>5. Rings'
  BY DEF Rings, HasRing, IsBound, Types, TypeOK, Threads, States, Connecting, NetLabels,
         VbdLabels, Leaving, Closing, LastWait, Down
<1>6. FeAt'
  BY DEF FeAt, Types, TypeOK, Threads, States, Connecting, NetLabels, VbdLabels, Leaving,
         Closing, LastWait, Down
<1>7. BackendStates'
  BY DEF BackendStates, Types, TypeOK, Opened
<1>8. Agreed'
  BY DEF Agreed, Agree, BeforeInit, AllClosed, NoneClosed, Reading, Fresh, InitXxx, Types,
         TypeOK, Threads, States, FeAt, BackendStates, Connecting, NetLabels, VbdLabels, Leaving,
         Closing, LastWait, Down
<1> QED BY <1>1, <1>2, <1>3, <1>4, <1>5, <1>6, <1>7, <1>8

LEMMA BackendFollowsKeeps ==
  ASSUME IInv, BackendFollows
  PROVE  IInv'
<1> USE FrontendAssumption DEF IInv, BackendFollows, SetBackend, Ready, Goto, Leave, Leaves,
                               Idle, Begin, Holds, store, driver, bus, thread, config, bounds,
                               past, Net, Vbd, Suspending, Unconnected
<1>1. Types'
  <2>1. fired' \in BOOLEAN
    BY Zenon DEF Types, TypeOK
  <2>2. mapped' \in BOOLEAN
    BY Zenon DEF Types, TypeOK
  <2> QED BY <2>1, <2>2 DEF Types, TypeOK, Threads, XenbusStates, Faults, NetLabels, VbdLabels,
                            Leaving, Closing, LastWait, Down
<1>2. Threads'
  BY DEF Threads, Types, TypeOK, Connecting, NetLabels, VbdLabels, Leaving, Closing, LastWait,
         Down
<1>3. Opened'
  BY DEF Opened, ShutAt, Types, TypeOK, Threads, States, Connecting, NetLabels, VbdLabels,
         Leaving, Closing, LastWait, Down
<1>4. States'
  BY DEF States, Types, TypeOK, Threads, Connecting, NetLabels, VbdLabels, Leaving, Closing,
         LastWait, Down
<1>5. Rings'
  BY DEF Rings, HasRing, IsBound, Types, TypeOK, Threads, States, Connecting, NetLabels,
         VbdLabels, Leaving, Closing, LastWait, Down
<1>6. FeAt'
  BY DEF FeAt, Types, TypeOK, Threads, States, Connecting, NetLabels, VbdLabels, Leaving,
         Closing, LastWait, Down
<1>7. BackendStates'
  BY DEF BackendStates, Types, TypeOK, Opened
<1>8. Agreed'
  BY DEF Agreed, Agree, BeforeInit, AllClosed, NoneClosed, Reading, Fresh, InitXxx, Types,
         TypeOK, Threads, States, FeAt, BackendStates, Connecting, NetLabels, VbdLabels, Leaving,
         Closing, LastWait, Down
<1> QED BY <1>1, <1>2, <1>3, <1>4, <1>5, <1>6, <1>7, <1>8

LEMMA BackendClosesKeeps ==
  ASSUME IInv, BackendCloses
  PROVE  IInv'
<1> USE FrontendAssumption DEF IInv, BackendCloses, SetBackend, Goto, Leave, Leaves, Idle, Begin,
                               Holds, store, driver, bus, thread, config, bounds, past, Net, Vbd,
                               Suspending, Unconnected
<1>1. Types'
  <2>1. fired' \in BOOLEAN
    BY Zenon DEF Types, TypeOK
  <2>2. mapped' \in BOOLEAN
    BY Zenon DEF Types, TypeOK
  <2> QED BY <2>1, <2>2 DEF Types, TypeOK, Threads, XenbusStates, Faults, NetLabels, VbdLabels,
                            Leaving, Closing, LastWait, Down
<1>2. Threads'
  BY DEF Threads, Types, TypeOK, Connecting, NetLabels, VbdLabels, Leaving, Closing, LastWait,
         Down
<1>3. Opened'
  BY DEF Opened, ShutAt, Types, TypeOK, Threads, States, Connecting, NetLabels, VbdLabels,
         Leaving, Closing, LastWait, Down
<1>4. States'
  BY DEF States, Types, TypeOK, Threads, Connecting, NetLabels, VbdLabels, Leaving, Closing,
         LastWait, Down
<1>5. Rings'
  BY DEF Rings, HasRing, IsBound, Types, TypeOK, Threads, States, Connecting, NetLabels,
         VbdLabels, Leaving, Closing, LastWait, Down
<1>6. FeAt'
  BY DEF FeAt, Types, TypeOK, Threads, States, Connecting, NetLabels, VbdLabels, Leaving,
         Closing, LastWait, Down
<1>7. BackendStates'
  BY DEF BackendStates, Types, TypeOK, Opened
<1>8. Agreed'
  BY DEF Agreed, Agree, BeforeInit, AllClosed, NoneClosed, Reading, Fresh, InitXxx, Types,
         TypeOK, Threads, States, FeAt, BackendStates, Connecting, NetLabels, VbdLabels, Leaving,
         Closing, LastWait, Down
<1> QED BY <1>1, <1>2, <1>3, <1>4, <1>5, <1>6, <1>7, <1>8

LEMMA AttachKeeps ==
  ASSUME IInv, Attach
  PROVE  IInv'
<1> USE FrontendAssumption DEF IInv, Attach, NewBackend, Goto, Leave, Leaves, Idle, Begin, Holds,
                               store, driver, bus, thread, config, bounds, past, Net, Vbd,
                               Suspending, Unconnected
<1>1. Types'
  <2>1. mapped' \in BOOLEAN
    BY Zenon DEF Types, TypeOK
  <2> QED BY <2>1 DEF Types, TypeOK, Threads, XenbusStates, Faults, NetLabels, VbdLabels,
                      Leaving, Closing, LastWait, Down
<1>2. Threads'
  BY DEF Threads, Types, TypeOK, Connecting, NetLabels, VbdLabels, Leaving, Closing, LastWait,
         Down
<1>3. Opened'
  BY DEF Opened, ShutAt, Types, TypeOK, Threads, States, Connecting, NetLabels, VbdLabels,
         Leaving, Closing, LastWait, Down
<1>4. States'
  BY DEF States, Types, TypeOK, Threads, Connecting, NetLabels, VbdLabels, Leaving, Closing,
         LastWait, Down
<1>5. Rings'
  BY DEF Rings, HasRing, IsBound, Types, TypeOK, Threads, States, Connecting, NetLabels,
         VbdLabels, Leaving, Closing, LastWait, Down
<1>6. FeAt'
  BY DEF FeAt, Types, TypeOK, Threads, States, Connecting, NetLabels, VbdLabels, Leaving,
         Closing, LastWait, Down
<1>7. BackendStates'
  BY DEF BackendStates, Types, TypeOK, Opened
<1>8. Agreed'
  BY DEF Agreed, Agree, BeforeInit, AllClosed, NoneClosed, Reading, Fresh, InitXxx, Types,
         TypeOK, Threads, States, FeAt, BackendStates, Connecting, NetLabels, VbdLabels, Leaving,
         Closing, LastWait, Down, Opened, ShutAt
<1> QED BY <1>1, <1>2, <1>3, <1>4, <1>5, <1>6, <1>7, <1>8

-----------------------------------------------------------------------------
(* The theorems *)

LEMMA Initially == ASSUME Init PROVE IInv
<1> USE FrontendAssumption DEF Init, Net, Vbd, Suspending, Unconnected
<1>1. Types
  <2>1. /\ watch \in BOOLEAN /\ fired \in BOOLEAN /\ device_callback \in BOOLEAN /\ xi \in BOOLEAN
        /\ backend_event \in BOOLEAN /\ rings \in BOOLEAN /\ bound \in BOOLEAN
        /\ eject \in BOOLEAN /\ ejectable \in BOOLEAN /\ mapped \in BOOLEAN
    BY Zenon
  <2>2. xenbus \in BOOLEAN /\ hidden \in BOOLEAN /\ kind \in {"net", "vbd"}
    OBVIOUS
  <2>3. item \in [Items -> {"idle", "acquire", "running", "done"}]
    OBVIOUS
  <2>4. /\ fe = "Initialising" /\ be = "Initialising" /\ backend_state = "Unknown"
        /\ cb = [pc |-> "idle", state |-> "Unknown"] /\ device_state = "DISCONNECTED"
        /\ by = NoOne /\ pc = "idle" /\ pnp = "out" /\ mutex = NoOne /\ tries = 0 /\ faults = {}
        /\ halts = 0 /\ sleeps = 0 /\ failures = 0
    OBVIOUS
  <2> HIDE DEF Init
  <2> QED BY <2>1, <2>2, <2>3, <2>4 DEF Types, TypeOK, XenbusStates, Faults, NetLabels, VbdLabels
<1>2. Threads
  BY DEF Threads, Down
<1>3. Opened
  BY DEF Opened, ShutAt, Down
<1>4. States
  BY DEF States, NetLabels, VbdLabels, Leaving, Closing, LastWait, Down
<1>5. Rings
  BY DEF Rings, HasRing, IsBound, NetLabels, VbdLabels, Closing, LastWait
<1>6. FeAt
  BY DEF FeAt, Closing, LastWait
<1>7. BackendStates
  BY DEF BackendStates
<1>8. Agreed
  BY DEF Agreed, Agree, BeforeInit, AllClosed, NoneClosed, Reading, Fresh, InitXxx, Down, LastWait
<1> QED BY <1>1, <1>2, <1>3, <1>4, <1>5, <1>6, <1>7, <1>8 DEF IInv

LEMMA Stuttering == ASSUME IInv, UNCHANGED vars PROVE IInv'
<1> USE DEF vars, config, store, driver, bus, thread, past, bounds, Net, Vbd, Suspending,
            Unconnected
<1>1. Types'
  BY DEF IInv, Types, TypeOK
<1>2. Threads'
  BY DEF IInv, Threads, Connecting
<1>3. Opened'
  BY DEF IInv, Opened, ShutAt
<1>4. States'
  BY DEF IInv, States
<1>5. Rings'
  BY DEF IInv, Rings, HasRing, IsBound
<1>6. FeAt'
  BY DEF IInv, FeAt
<1>7. BackendStates'
  BY DEF IInv, BackendStates
<1>8. Agreed'
  BY DEF IInv, Agreed, Agree, BeforeInit, AllClosed, NoneClosed, Reading
<1> QED BY <1>1, <1>2, <1>3, <1>4, <1>5, <1>6, <1>7, <1>8 DEF IInv

LEMMA DriverKeeps == ASSUME IInv, DriverStep PROVE IInv'
<1>1. CASE Open
  BY <1>1, OpenKeeps
<1>2. CASE NetConnect
  BY <1>2, InitialisingKeeps, NetWaitInitKeeps, NetBindKeeps, MacKeeps, NetConnectedKeeps,
     NetWaitConnKeeps DEF NetConnect
<1>3. CASE VbdConnect
  BY <1>3, VbdTestKeeps, GrantRingKeeps, VbdWaitInitKeeps, VbdInactiveKeeps, VbdBindKeeps,
     VbdInitialisedKeeps, VbdWaitConnKeeps, VbdConnectedKeeps, VbdActiveKeeps DEF VbdConnect
<1>4. CASE Disconnect
  BY <1>4, DisconnectTestKeeps, WriteClosingKeeps, WaitClosingKeeps, WriteClosedKeeps,
     WaitClosedKeeps, UnbindKeeps, FreeKeeps, CloseKeeps, DisconnectedKeeps DEF Disconnect
<1> QED BY <1>1, <1>2, <1>3, <1>4 DEF DriverStep

LEMMA ResumePdoKeeps == ASSUME IInv, NEW s \in Items, ResumePdo(s) PROVE IInv'
<1>1. device_callback \in BOOLEAN /\ (Net \/ Vbd)
  BY DEF IInv, Types, TypeOK, Net, Vbd
<1> QED BY <1>1, ResumeShutKeeps, ResumeNetKeeps, ResumeVbdKeeps

LEMMA NextKeeps == ASSUME IInv, Next PROVE IInv'
<1>1. CASE WatchThread
  BY <1>1, ReadBackendKeeps, ReadFrontendKeeps, DeviceCallbackKeeps, SetEventKeeps DEF WatchThread
<1>2. CASE DriverStep
  BY <1>2, DriverKeeps
<1>3. CASE PnpThread
  BY <1>3, StartKeeps, StartedKeeps, StartFailsKeeps, HaltKeeps, HaltedKeeps, SleepKeeps,
     PdoD0ExitKeeps, PdoD0EntryKeeps DEF PnpThread
<1>4. CASE Backend
  BY <1>4, BackendFollowsKeeps, BackendClosesKeeps, AttachKeeps DEF Backend
<1>5. ASSUME NEW s \in Items, SuspendTest(s) \/ SuspendResume(s) PROVE IInv'
  BY <1>5, SuspendTestKeeps, SuspendBeginKeeps, SuspendPdoKeeps, BusDownKeeps, HvmShutdownKeeps,
     ResumePdoKeeps, ResumedKeeps, SuspendEndKeeps DEF SuspendResume
<1> QED BY <1>1, <1>2, <1>3, <1>4, <1>5 DEF Next

-----------------------------------------------------------------------------
\* Where the four actors are and what the device has at each of their steps, for any number
\* of work items, halts, sleeps and faults.
THEOREM Invariance == Spec => []IInv
<1>1. Init => IInv
  BY Initially
<1>2. IInv /\ [Next]_vars => IInv'
  BY NextKeeps, Stuttering
<1> QED BY <1>1, <1>2, PTL DEF Spec

\* The states and flags of the device and of its backend stay within their types.
THEOREM TypeCorrect == Spec => []TypeOK
<1>1. IInv => TypeOK
  BY DEF IInv, Types
<1> QED BY <1>1, Invariance, PTL

\* A ring that the backend has mapped is granted and its event channel bound, and what
\* XenNet_Disconnect and XenVbd_Disconnect free is there, whatever the order in which the
\* two sides read and write their states.
THEOREM RingsAreSound == Spec => []RingsSound
<1>1. ASSUME IInv PROVE BackendHasRing
  BY <1>1 DEF IInv, Agreed, Agree, BackendHasRing
<1>2. ASSUME IInv PROVE FreedOnce
  <2> USE <1>2 DEF IInv, Types, TypeOK, Threads, States, Rings, Net, Vbd
  <2>1. pc = "unbind" => bound \/ Unconnected
    BY DEF IsBound, HasRing, Leaving, Closing, LastWait
  <2>2. pc = "free" => rings \/ Unconnected
    BY DEF HasRing, Leaving, Closing, LastWait
  <2> QED BY <2>1, <2>2 DEF FreedOnce
<1>3. IInv => RingsSound
  BY <1>1, <1>2 DEF RingsSound, IInv, Types
<1> QED BY <1>3, Invariance, PTL

\* Between XenBus_Suspend and XenBus_Resume the device has no watch, no running callback, no
\* event channel, and no granted ring but that of a block device that was never activated.
THEOREM QuietWhenSuspended == Spec => []QuietAtSuspend
<1>1. ASSUME IInv, ~xenbus PROVE ~watch /\ cb.pc = "idle"
  BY <1>1 DEF IInv, Threads, Opened, Down
<1>2. ASSUME IInv, ~xenbus PROVE ~bound /\ (rings => Vbd /\ device_state = "INACTIVE")
  <2>1. pc \in Down /\ pc \in {"hvm_shutdown", "resuming"}
    BY <1>2 DEF IInv, Threads, Down
  <2> QED BY <1>2, <2>1 DEF IInv, Types, TypeOK, Threads, States, Rings, IsBound, HasRing, Net, Vbd,
                            Down, Closing, LastWait, VbdLabels
<1>3. IInv => QuietAtSuspend
  BY <1>1, <1>2 DEF QuietAtSuspend, IInv, Types, TypeOK
<1> QED BY <1>3, Invariance, PTL

\* The driver is called back, by the watch's work item and for a suspend, only between
\* XnOpenDevice and XnCloseDevice and with a context that is allocated; and WdfPdoRequestEject
\* is called only for a closing that the backend began.
THEOREM CallbacksAreSound == Spec => []CallbacksSound
<1>1. ASSUME IInv, cb.pc # "idle" PROVE (device_callback /\ xi) \/ "initFailed" \in faults
  BY <1>1 DEF IInv, Types, Threads, Opened, ShutAt
<1>2. ASSUME IInv, Suspending, pc = "disconnect"
      PROVE  (device_callback /\ xi) \/ "initFailed" \in faults
  BY <1>2, FrontendAssumption DEF IInv, Types, TypeOK, Threads, Opened, ShutAt, States, Suspending,
     Net, Vbd, Down
<1>3. ASSUME IInv PROVE EjectOnlyByBackend
  BY <1>3 DEF IInv, Agreed, Agree, EjectOnlyByBackend
<1>4. IInv => CallbacksSound
  BY <1>1, <1>2, <1>3 DEF CallbacksSound, NoCallbackToFreed
<1> QED BY <1>4, Invariance, PTL
=============================================================================
