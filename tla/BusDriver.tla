----------------------------- MODULE BusDriver -----------------------------
(***************************************************************************)
(* The bus driver xenpci as a device of Windows (xenpci_fdo.c): PnP starts *)
(* it, puts it to sleep, wakes it and stops it; it watches xenstore for    *)
(* the memory target, which a thread of its own follows by giving memory   *)
(* to Xen and taking it back, and for devices, which it reports to Windows *)
(* as its children.  What its xenstore client, its event channels and its  *)
(* grant table do inside is in XenBus, EventChannel and GrantTable, and    *)
(* the suspend of the domain is in Frontend.                               *)
(*                                                                         *)
(* Handlers of watches run one at a time: XenBus_WatchWorkItemProc calls   *)
(* them under xb_watch_mutex.                                              *)
(***************************************************************************)
EXTENDS Integers, FiniteSets

CONSTANTS Devices,      \* directories device/<type>/<instance> of xenstore
          Veto,         \* those whose type is in veto_list
          Unit,         \* BALLOON_UNITS_KB
          Initial,      \* the memory Windows found, a multiple of Unit
          Targets,      \* what the toolstack may ask for
          MaxChanges,   \* bound: changes the toolstack makes in the store
          MaxRefusals,  \* bound: memory asked for and not given
          MaxPower,     \* bound: times the device is stopped or sleeps
          MaxFails      \* bound: lists of directories that fail

ASSUME BusAssumption ==
  /\ Veto \subseteq Devices
  /\ Unit \in Nat \ {0} /\ Initial \in Nat /\ Initial % Unit = 0
  /\ Targets \subseteq Nat \ {0}
  /\ {MaxChanges, MaxRefusals, MaxPower, MaxFails} \subseteq Nat

VARIABLES
  fdo,             \* what PnP, or a suspend, is doing with the device
  xenbus,          \* is the xenstore client connected
  watches,         \* the watches that are set
  fired,           \* watch events not handled
  handler,         \* what the handler that runs does next
  memory_target,   \* BALLOON_PATH in xenstore
  target, current, \* target_memory_kb, current_memory_kb
  balloon_event, balloon_shutdown,
  thread,          \* XenPci_BalloonThreadProc: place and local variables
  lost,            \* history: memory of a list that ended with its thread
  store,           \* the directories in xenstore
  scans,           \* scans of the child list, by caller
  marked,          \* children the scans in progress have reported
  children,        \* the child list: what Windows takes to be there
  changes, refusals, power, fails, \* counters for the bounds
  removed, unseen  \* history: directories removed; added without an event

balloon == <<memory_target, target, current, balloon_event, balloon_shutdown,
             thread, lost, refusals>>
list == <<store, scans, marked, children, fails, removed, unseen>>
pnp == <<fdo, xenbus, watches, power>>
vars == <<balloon, list, pnp, fired, handler, changes>>

Callers == {"watch", "pnp"}
NoScan == [pc |-> "idle", found |-> {}]
NoThread == [pc |-> "none", new_target |-> 0, head |-> 0]
DeviceEvents == {<<"device", d>> : d \in Devices}

TypeOK ==
  /\ fdo \in {"stopped", "started", "primed", "working", "flagged", "waiting",
              "asleep", "suspended"}
  /\ xenbus \in BOOLEAN /\ watches \subseteq {"device", "balloon"}
  /\ fired \subseteq DeviceEvents \union {<<"balloon">>}
  /\ memory_target \in Targets \union {Initial} /\ target \in Nat /\ current \in Nat
  /\ {balloon_event, balloon_shutdown} \subseteq BOOLEAN
  /\ thread.pc \in {"none", "check", "wait", "poll", "take", "give"}
  /\ store \subseteq Devices /\ children \subseteq Devices
  /\ marked \subseteq Devices
  /\ handler \in {"idle", "target", "event", "scan"}

Init ==
  /\ fdo = "stopped" /\ xenbus = FALSE /\ watches = {} /\ fired = {}
  /\ handler = "idle"
  /\ memory_target = Initial /\ target = 0 /\ current = Initial
  /\ balloon_event = FALSE /\ balloon_shutdown = FALSE
  /\ thread = NoThread /\ lost = 0
  /\ store \in SUBSET Devices /\ children = {} /\ marked = {}
  /\ scans = [c \in Callers |-> NoScan]
  /\ changes = 0 /\ refusals = 0 /\ power = 0 /\ fails = 0
  /\ removed = {} /\ unseen = {}

-----------------------------------------------------------------------------
(***************************************************************************)
(* The toolstack: a new memory target, a device that comes or goes.  An    *)
(* event is sent for a watch that is set.                                  *)
(***************************************************************************)
SetTarget(t) ==
  /\ changes < MaxChanges /\ t # memory_target
  /\ memory_target' = t
  /\ changes' = changes + 1
  /\ fired' = IF "balloon" \in watches THEN fired \union {<<"balloon">>}
              ELSE fired
  /\ UNCHANGED <<target, current, balloon_event, balloon_shutdown, thread, lost,
                 refusals, list, pnp, handler>>

Attach(d) ==
  /\ changes < MaxChanges /\ d \notin store
  /\ store' = store \union {d}
  /\ changes' = changes + 1
  /\ IF "device" \in watches
     THEN fired' = fired \union {<<"device", d>>} /\ UNCHANGED unseen
     ELSE unseen' = unseen \union {d} /\ UNCHANGED fired
  /\ UNCHANGED <<balloon, scans, marked, children, fails, removed, pnp,
                 handler>>

Detach(d) ==
  /\ changes < MaxChanges /\ d \in store
  /\ store' = store \ {d}
  /\ removed' = removed \union {d} /\ unseen' = unseen \ {d}
  /\ changes' = changes + 1
  /\ fired' = IF "device" \in watches THEN fired \union {<<"device", d>>}
              ELSE fired
  /\ UNCHANGED <<balloon, scans, marked, children, fails, pnp, handler>>

-----------------------------------------------------------------------------
(***************************************************************************)
(* A watch event finds its entry active and its handler is called: for the *)
(* memory target ...                                                       *)
(***************************************************************************)
HandleBalloon ==
  /\ handler = "idle"
  /\ <<"balloon">> \in fired
  /\ fired' = fired \ {<<"balloon">>}
  /\ handler' = "target"
  /\ UNCHANGED <<balloon, list, pnp, changes>>

(***************************************************************************)
(* Mutant: no scan is made while another is in progress.                   *)
(***************************************************************************)
HandleDeviceOnce(d) ==
  /\ handler = "idle" /\ xenbus
  /\ <<"device", d>> \in fired
  /\ fired' = fired \ {<<"device", d>>}
  /\ \E scan \in {(\A c \in Callers : scans[c].pc = "idle") /\ d \in store} :
       /\ handler' = IF scan THEN "scan" ELSE "idle"
       /\ scans' = IF scan THEN [scans EXCEPT !["watch"].pc = "begin"] ELSE scans
  /\ UNCHANGED <<balloon, store, marked, children, fails, removed, unseen, pnp,
                 changes>>

(***************************************************************************)
(* ... or for a directory of a device, XenPci_DeviceWatchHandler.  If it   *)
(* is there the child list is scanned.  If not, the removal is taken to be *)
(* "taken care of elsewhere".  The event of another path, that of the      *)
(* watch itself or one inside the directory, is ignored and left out here. *)
(***************************************************************************)
HandleDevice(d) ==
  /\ handler = "idle" /\ xenbus
  /\ <<"device", d>> \in fired
  /\ fired' = fired \ {<<"device", d>>}
  /\ handler' = IF d \in store THEN "scan" ELSE "idle"
  /\ scans' = IF d \in store THEN [scans EXCEPT !["watch"].pc = "begin"]
              ELSE scans
  /\ UNCHANGED <<balloon, store, marked, children, fails, removed, unseen, pnp,
                 changes>>

(***************************************************************************)
(* XenPci_BalloonHandler: the target is read and stored, then the event is *)
(* set.                                                                    *)
(***************************************************************************)
HandlerTarget ==
  /\ handler = "target" /\ xenbus
  /\ target' = memory_target
  /\ handler' = "event"
  /\ UNCHANGED <<memory_target, current, balloon_event, balloon_shutdown,
                 thread, lost, refusals, list, pnp, fired, changes>>

HandlerEvent ==
  /\ handler = "event"
  /\ balloon_event' = TRUE
  /\ handler' = "idle"
  /\ UNCHANGED <<memory_target, target, current, balloon_shutdown, thread, lost,
                 refusals, list, pnp, fired, changes>>

-----------------------------------------------------------------------------
(***************************************************************************)
(* Mutant: the wait has no end while the target is not reached.            *)
(***************************************************************************)
ThreadCheckForEver ==
  /\ thread.pc = "check"
  /\ thread' = [thread EXCEPT !.pc = "wait"]
  /\ UNCHANGED <<memory_target, target, current, balloon_event,
                 balloon_shutdown, lost, refusals, list, pnp, fired, handler,
                 changes>>

(***************************************************************************)
(* XenPci_BalloonThreadProc.  At the head of its loop it decides how to    *)
(* wait: for ever when the target it knows is reached, else for a while.   *)
(* hit_initial_target is left out: the first target it knows is what there *)
(* is, so that the flag is TRUE after the first pass (line 210).           *)
(***************************************************************************)
ThreadCheck ==
  /\ thread.pc = "check"
  /\ thread' = [thread EXCEPT !.pc = IF current = thread.new_target THEN "wait"
                                     ELSE "poll"]
  /\ UNCHANGED <<memory_target, target, current, balloon_event,
                 balloon_shutdown, lost, refusals, list, pnp, fired, handler,
                 changes>>

(***************************************************************************)
(* The event, or the end of the while.  The thread ends when it is told    *)
(* to, with the list of the memory it gave to Xen; else it reads the       *)
(* target, once.                                                           *)
(***************************************************************************)
ThreadWake ==
  /\ \/ thread.pc = "wait" /\ balloon_event
     \/ thread.pc = "poll"
  /\ balloon_event' = FALSE
  /\ IF balloon_shutdown
     THEN /\ thread' = NoThread
          /\ lost' = lost + thread.head
     ELSE /\ thread' = [thread EXCEPT !.new_target = target,
                          !.pc = IF current = target THEN "check"
                                 ELSE IF current < target THEN "take"
                                 ELSE "give"]
          /\ UNCHANGED lost
  /\ UNCHANGED <<memory_target, target, current, balloon_shutdown, refusals,
                 list, pnp, fired, handler, changes>>

(***************************************************************************)
(* Too little memory: one unit of the list comes back from Xen ...         *)
(***************************************************************************)
ThreadTakes ==
  /\ thread.pc = "take"
  /\ current < thread.new_target /\ thread.head > 0
  /\ current' = current + Unit
  /\ thread' = [thread EXCEPT !.head = @ - 1]
  /\ UNCHANGED <<memory_target, target, balloon_event, balloon_shutdown, lost,
                 refusals, list, pnp, fired, handler, changes>>

(***************************************************************************)
(* ... or too much: one is allocated, given to Xen and put in the list.    *)
(***************************************************************************)
ThreadGives ==
  /\ thread.pc = "give"
  /\ current > thread.new_target
  /\ current' = current - Unit
  /\ thread' = [thread EXCEPT !.head = @ + 1]
  /\ UNCHANGED <<memory_target, target, balloon_event, balloon_shutdown, lost,
                 refusals, list, pnp, fired, handler, changes>>

(***************************************************************************)
(* The loop is left: Xen has no unit to give and what it gave of one goes  *)
(* back to it, or Windows does not allocate a whole unit ...               *)
(***************************************************************************)
Wanted == \/ thread.pc = "give" /\ current > thread.new_target
          \/ thread.pc = "take" /\ current < thread.new_target /\ thread.head > 0

\* Mutant: a refusal is counted as memory given.
ThreadRefusedCounted ==
  /\ Wanted
  /\ refusals < MaxRefusals
  /\ refusals' = refusals + 1
  /\ current' = IF thread.pc = "give" THEN current - Unit ELSE current
  /\ thread' = [thread EXCEPT !.pc = "check"]
  /\ UNCHANGED <<memory_target, target, balloon_event, balloon_shutdown, lost,
                 list, pnp, fired, handler, changes>>

ThreadRefused ==
  /\ Wanted
  /\ refusals < MaxRefusals
  /\ refusals' = refusals + 1
  /\ thread' = [thread EXCEPT !.pc = "check"]
  /\ UNCHANGED <<memory_target, target, current, balloon_event,
                 balloon_shutdown, lost, list, pnp, fired, handler, changes>>

(***************************************************************************)
(* ... or the target is reached, or passed, or the list is empty.          *)
(***************************************************************************)
ThreadDone ==
  /\ thread.pc \in {"take", "give"} /\ ~Wanted
  /\ thread' = [thread EXCEPT !.pc = "check"]
  /\ UNCHANGED <<memory_target, target, current, balloon_event,
                 balloon_shutdown, lost, refusals, list, pnp, fired, handler,
                 changes>>

-----------------------------------------------------------------------------
(***************************************************************************)
(* XenPci_EvtChildListScanForChildren, by the handler of the device watch  *)
(* or by the framework.  WdfChildListBeginScan: the first scan in progress *)
(* takes every child for missing.                                          *)
(***************************************************************************)
Scanning == {c \in Callers : scans[c].pc \in {"list", "end"}}

ScanBegin(c) ==
  /\ scans[c].pc = "begin"
  /\ marked' = IF Scanning = {} THEN {} ELSE marked
  /\ scans' = [scans EXCEPT ![c].pc = "list"]
  /\ UNCHANGED <<balloon, store, children, fails, removed, unseen, pnp, fired,
                 handler, changes>>

(***************************************************************************)
(* Mutant: a list that xenstore does not answer in time is an empty one.   *)
(***************************************************************************)
ScanListEmpty(c) ==
  /\ scans[c].pc = "list"
  /\ scans' = [scans EXCEPT ![c] = [pc |-> "end",
                 found |-> IF xenbus THEN store \ Veto ELSE {}]]
  /\ unseen' = IF xenbus THEN unseen \ store ELSE unseen
  /\ UNCHANGED <<balloon, store, marked, children, fails, removed, pnp, fired,
                 handler, changes>>

(***************************************************************************)
(* The directories are listed, which waits for xenstore, and reported but  *)
(* for those in veto_list.  do_not_enumerate is left out: nothing sets it, *)
(* because nothing sets backend_initiated_remove (xenpci_pdo.c:313).  A    *)
(* list that fails reports nothing.                                        *)
(***************************************************************************)
ScanList(c) ==
  /\ scans[c].pc = "list" /\ xenbus
  /\ \/ /\ scans' = [scans EXCEPT ![c] = [pc |-> "end", found |-> store \ Veto]]
        /\ unseen' = unseen \ store
        /\ UNCHANGED fails
     \/ /\ fails < MaxFails
        /\ fails' = fails + 1
        /\ scans' = [scans EXCEPT ![c] = [pc |-> "end", found |-> {}]]
        /\ UNCHANGED unseen
  /\ UNCHANGED <<balloon, store, marked, children, removed, pnp, fired, handler,
                 changes>>

(***************************************************************************)
(* What was found is marked and the scan ends.  With the last scan in      *)
(* progress the child list becomes what all of them have marked.           *)
(***************************************************************************)
ScanEnd(c) ==
  /\ scans[c].pc = "end"
  /\ marked' = marked \union scans[c].found
  /\ children' = IF Scanning = {c} THEN marked' ELSE children
  /\ scans' = [scans EXCEPT ![c] = NoScan]
  /\ handler' = IF c = "watch" THEN "idle" ELSE handler
  /\ UNCHANGED <<balloon, store, fails, removed, unseen, pnp, fired, changes>>

-----------------------------------------------------------------------------
(***************************************************************************)
(* PnP starts the device: XenPci_EvtDeviceD0Entry, and then                *)
(* XenPci_EvtDeviceD0EntryPostInterruptsEnabled, which connects xenstore,  *)
(* sets the watch of the devices, ...                                      *)
(***************************************************************************)
Start ==
  /\ fdo = "stopped"
  /\ fdo' = "started" /\ xenbus' = TRUE /\ watches' = {"device"}
  /\ UNCHANGED <<balloon, list, power, fired, handler, changes>>

(***************************************************************************)
(* ... makes what there is the target "until the watch gets kicked off"    *)
(* and starts the thread, ...                                              *)
(***************************************************************************)
Prime ==
  /\ fdo = "started"
  /\ fdo' = "primed"
  /\ target' = current /\ balloon_shutdown' = FALSE
  /\ thread' = [NoThread EXCEPT !.pc = "check", !.new_target = current]
  /\ UNCHANGED <<memory_target, current, balloon_event, lost, refusals, list,
                 xenbus, watches, power, fired, handler, changes>>

(***************************************************************************)
(* ... and sets the watch of the memory target; xenstore sends an event    *)
(* for a watch that is set.  The framework then asks for the children.     *)
(***************************************************************************)
Watched ==
  /\ watches' = {"device", "balloon"}
  /\ fired' = fired \union {<<"balloon">>}

Started ==
  /\ fdo = "primed"
  /\ fdo' = "working"
  /\ Watched
  /\ scans' = [scans EXCEPT !["pnp"].pc = "begin"]
  /\ UNCHANGED <<balloon, store, marked, children, fails, removed, unseen,
                 xenbus, power, handler, changes>>

(***************************************************************************)
(* PnP stops the device: XenPci_EvtDeviceD0ExitPreInterruptsDisabled for   *)
(* D3Final tells the thread to end, ...                                    *)
(***************************************************************************)
StopFlag ==
  /\ fdo = "working" /\ scans["pnp"].pc = "idle"
  /\ power < MaxPower
  /\ power' = power + 1
  /\ fdo' = "flagged"
  /\ balloon_shutdown' = TRUE
  /\ UNCHANGED <<memory_target, target, current, balloon_event, thread, lost,
                 refusals, list, xenbus, watches, fired, handler, changes>>

StopEvent ==
  /\ fdo = "flagged"
  /\ fdo' = "waiting"
  /\ balloon_event' = TRUE
  /\ UNCHANGED <<memory_target, target, current, balloon_shutdown, thread, lost,
                 refusals, list, xenbus, watches, power, fired, handler,
                 changes>>

(***************************************************************************)
(* ... waits until it has, and halts the xenstore client, whose events are *)
(* dropped from then on.  No handler is taken to be running; the code does *)
(* not wait for one (see XenBus).  The children go with the device.        *)
(***************************************************************************)
StopDone ==
  /\ fdo = "waiting" /\ thread.pc = "none" /\ handler = "idle"
  /\ fdo' = "stopped" /\ xenbus' = FALSE /\ watches' = {} /\ fired' = {}
  /\ children' = {}
  /\ UNCHANGED <<balloon, store, scans, marked, fails, removed, unseen, power,
                 handler, changes>>

(***************************************************************************)
(* Sleep: D0ExitPreInterruptsDisabled suspends the xenstore client, which  *)
(* removes the watches at xenstore, D0Exit the rest.  A suspend of the     *)
(* domain does the same from XenPci_SuspendResume.                         *)
(***************************************************************************)
Down(how) ==
  /\ fdo = "working" /\ scans["pnp"].pc = "idle"
  /\ power < MaxPower
  /\ power' = power + 1
  /\ fdo' = how
  /\ xenbus' = FALSE /\ watches' = {}
  /\ UNCHANGED <<balloon, list, fired, handler, changes>>

(***************************************************************************)
(* Both are undone by XenBus_Resume, which sets the watches again; but     *)
(* only after a sleep does the framework ask for the children again.       *)
(***************************************************************************)
Up ==
  /\ fdo \in {"asleep", "suspended"}
  /\ fdo' = "working" /\ xenbus' = TRUE
  /\ Watched
  /\ scans' = IF fdo = "asleep" THEN [scans EXCEPT !["pnp"].pc = "begin"]
              ELSE scans
  /\ UNCHANGED <<balloon, store, marked, children, fails, removed, unseen, power,
                 handler, changes>>

-----------------------------------------------------------------------------
Thread == \/ ThreadCheck \/ ThreadWake \/ ThreadDone
          \/ ThreadTakes \/ ThreadGives \/ ThreadRefused

Handler == \/ HandleBalloon \/ HandlerTarget \/ HandlerEvent
           \/ \E d \in Devices : HandleDevice(d)

Scan(c) == ScanBegin(c) \/ ScanList(c) \/ ScanEnd(c)

Next == \/ \E t \in Targets : SetTarget(t)
        \/ \E d \in Devices : Attach(d) \/ Detach(d)
        \/ Thread \/ Handler
        \/ \E c \in Callers : Scan(c)
        \/ Start \/ Prime \/ Started
        \/ StopFlag \/ StopEvent \/ StopDone
        \/ \E how \in {"asleep", "suspended"} : Down(how)
        \/ Up

Spec == Init /\ [][Next]_vars

(***************************************************************************)
(* The threads run, and PnP finishes a start or a stop it has begun.       *)
(* Nothing says that it ever begins one, or that the machine wakes.        *)
(***************************************************************************)
FairSpec == /\ Spec
            /\ WF_vars(Thread) /\ WF_vars(Handler)
            /\ \A c \in Callers : WF_vars(Scan(c))
            /\ WF_vars(Prime \/ Started \/ StopEvent \/ StopDone)

-----------------------------------------------------------------------------
(***************************************************************************)
(* The memory Windows has, what the thread can take back and what was lost *)
(* with a thread before it are all the memory there was; giving stops      *)
(* before nothing is left (current_memory_kb is unsigned).                 *)
(***************************************************************************)
MemoryAccounted ==
  /\ TypeOK
  /\ current + Unit * (thread.head + lost) = Initial
  /\ current >= 0

(***************************************************************************)
(* A child disappears from the list only if its directory was gone at some *)
(* time, the bus itself is stopped, or a list failed, however the scans of *)
(* the watch and of the framework overlap.                                 *)
(***************************************************************************)
ChildKept ==
  [][\A d \in children \ children' :
       d \in removed \/ fails > 0 \/ fdo' = "stopped"]_vars

(***************************************************************************)
(* The memory comes to what the toolstack asked for last, whichever of     *)
(* handler, thread and PnP goes first; not if what it asks for is no       *)
(* multiple of the unit, when it goes up and down for ever, and not if it  *)
(* asks back what was lost.                                                *)
(***************************************************************************)
TargetReached ==
  []<>(\/ fdo # "working"
       \/ current = memory_target
       \/ memory_target % Unit # 0
       \/ memory_target > Initial - Unit * lost)

(***************************************************************************)
(* A stop ends: the thread does not sleep through it.                      *)
(***************************************************************************)
StopEnds == fdo = "flagged" ~> fdo = "stopped"

(***************************************************************************)
(* A device that is attached becomes a child, unless it is attached while  *)
(* the domain is suspended: the watches that are set again then bring the  *)
(* event of the directory "device" itself, which the handler ignores.      *)
(***************************************************************************)
ChildFound ==
  \A d \in Devices \ Veto :
    d \in store ~> \/ d \in children \/ d \notin store
                   \/ d \in unseen \/ fails > 0 \/ fdo # "working"

(***************************************************************************)
(* The balloon thread neither stops short of its target nor misses that it *)
(* is to end.                                                              *)
(***************************************************************************)
BalloonGoesOn == TargetReached /\ StopEnds
=============================================================================
