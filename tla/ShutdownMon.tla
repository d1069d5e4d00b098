----------------------------- MODULE ShutdownMon ----------------------------
(***************************************************************************)
(* The shutdown service (shutdownmon/shutdownmon.c) on a handle of the     *)
(* xenbus device: it sets a watch on control/shutdown, waits for events,   *)
(* and after each reads the key and does what it says.  Its reads have     *)
(* room for several messages, of which it looks at the first.              *)
(***************************************************************************)
EXTENDS XenbusDevice

CONSTANT Monitor    \* the service's only thread: Threads = {Monitor}, Writer = Monitor

VARIABLES
  mon,          \* where do_monitoring is
  running,      \* service_status.dwCurrentState = SERVICE_RUNNING
  obeyed,       \* do_shutdown was called
  swallowed     \* a read brought more than one message

service == <<mon, running, obeyed, swallowed>>
monvars == <<vars, service>>

BUFFER == CHOOSE n \in Lengths : TRUE    \* 1024 bytes

MonInit == Init /\ mon = "watch" /\ running = TRUE /\ obeyed = FALSE /\ swallowed = FALSE
-----------------------------------------------------------------------------
\* WriteFile returns when EvtIoWrite has completed the request, ReadFile when the read has
\* been filled.
WriteFile(from, to) ==
  /\ mon = from /\ EvtIoWrite(BODY) /\ mon' = to
  /\ UNCHANGED <<running, obeyed, swallowed>>

ReadFile(from, to) ==
  /\ mon = from /\ EvtIoRead(Monitor, BUFFER) /\ mon' = to
  /\ UNCHANGED <<running, obeyed, swallowed>>

Had(place) == mon = place /\ Idle(Monitor)

\* The text of the first message, whatever its type; what follows it in buf is lost.
Text == result[Monitor][1][1][3]
Swallow == swallowed' = (swallowed \/ Len(result[Monitor]) > BODY)

\* xb_add_watch
Watched == Had("watched") /\ mon' = "wait" /\ Swallow /\ UNCHANGED <<vars, running, obeyed>>

\* xb_wait_event, and the loop's test of the service's state
WaitedEvent ==
  /\ Had("waited") /\ mon' = IF running THEN "ask" ELSE "exit"
  /\ Swallow /\ UNCHANGED <<vars, running, obeyed>>

\* xb_read, and what do_monitoring makes of it
Asked ==
  /\ Had("asked") /\ mon' = "wait"
  /\ obeyed' = (obeyed \/ Text = "poweroff")
  /\ Swallow /\ UNCHANGED <<vars, running>>

DoMonitoring ==
  \/ WriteFile("watch", "watchread") \/ ReadFile("watchread", "watched") \/ Watched
  \/ ReadFile("wait", "waited") \/ WaitedEvent
  \/ WriteFile("ask", "askread") \/ ReadFile("askread", "asked") \/ Asked

\* control_handler
ControlStop == running /\ running' = FALSE /\ UNCHANGED <<vars, mon, obeyed, swallowed>>

\* xm shutdown, and again.
Shutdown ==
  /\ key' = "poweroff" /\ fired < MaxEvents /\ fired' = fired + 1
  /\ owed' = [c \in Contexts |-> IF c \in table THEN owed[c] + 1 ELSE owed[c]]
  /\ UNCHANGED <<reads, list, write, watches, callee, cleanup, failures, service>>

Notified == \E c \in Contexts : WorkItem(c)
ServiceIdle == UNCHANGED service
Driver == EvtIoReadLocked(Monitor) \/ Writing \/ IoWatch \/ Notified

\* The process ends, and with it the handle.
Exit == mon = "exit" /\ (Cleanup \/ CleanupNext \/ CleanupWatch)

MonNext ==
  \/ DoMonitoring \/ ControlStop \/ Shutdown
  \/ (Driver \/ Exit) /\ ServiceIdle

\* The service, the driver and the work items keep going.
MonSpec ==
  /\ MonInit /\ [][MonNext]_monvars
  /\ WF_monvars(DoMonitoring)
  /\ WF_monvars(EvtIoReadLocked(Monitor) /\ ServiceIdle)
  /\ WF_monvars(Writing /\ ServiceIdle)
  /\ WF_monvars((IoWatch \/ Notified) /\ ServiceIdle)
-----------------------------------------------------------------------------
(* Properties *)

\* A request to shut down is obeyed, unless the service is stopped or a read swallowed a
\* message.
ShutdownSeen == key = "poweroff" ~> obeyed \/ swallowed \/ ~running
=============================================================================
