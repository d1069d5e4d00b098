------------------------------- MODULE MCSync -------------------------------
(***************************************************************************)
(* The three protocols that work with counters and compare-and-exchange    *)
(* instead of locks, and the shutdown service on its handle of the xenbus  *)
(* device.  They share nothing: the first state chooses the one that runs, *)
(* under its own fairness, and the others stay where they begin.           *)
(***************************************************************************)
EXTENDS HighSync

CONSTANTS Dpcs, Requests, MaxFailures
VARIABLES event_state, dpcqueued, dpc, req, unseen, failures
CONSTANTS Threads, Values, NoValue, NumElements, MaxCalls
VARIABLES top, next, data, aba, fsTop, fsNext, fsAba, th, held, calls
CONSTANTS Monitor, Nobody
VARIABLES reading, entering, io_queue, read_list, result, w, buffer, len, written, watch_list,
          freed, refs, table, callee, owed, cleanup, key, fired, xb_failures, queued, given,
          overrun, stranded, mon, running, obeyed, swallowed
VARIABLE runs   \* the module that runs

Event == INSTANCE VbdFilterEvent
Stack == INSTANCE LfStack

\* The watch, and a read of the key for each of its three events.
Service == INSTANCE ShutdownMon WITH
    Threads <- {Monitor}, Writer <- Monitor, Script <- <<"WATCH", "READ", "READ", "READ">>,
    Lengths <- {8}, MaxWrite <- 2, MAX_WATCH_ENTRIES <- 1, MaxEvents <- 2, MaxFailures <- 0,
    failures <- xb_failures

ASSUME MCSyncAssumption == Stack!LfStackAssumption

gathering == <<caller, cpu, i, allocated, pc, high, do_spin, nr_procs_at_dispatch_level,
               nr_spinning_at_sync_level, highsync_complete_event>>
notifying == <<event_state, dpcqueued, dpc, req, unseen, failures>>
stacking == <<top, next, data, aba, fsTop, fsNext, fsAba, th, held, calls>>
monitoring == <<reading, entering, io_queue, read_list, result, w, buffer, len, written, watch_list,
                freed, refs, table, callee, owed, cleanup, key, fired, xb_failures, queued, given,
                overrun, stranded, mon, running, obeyed, swallowed>>
all == <<runs, gathering, notifying, stacking, monitoring>>

Gathers(A) == runs = "HighSync" /\ A /\ UNCHANGED <<runs, notifying, stacking, monitoring>>
Notifies(A) == runs = "VbdFilterEvent" /\ A
               /\ UNCHANGED <<runs, gathering, stacking, monitoring>>
Stacks(A) == runs = "LfStack" /\ A
             /\ UNCHANGED <<runs, gathering, notifying, monitoring>>
Monitors(A) == runs = "ShutdownMon" /\ A
               /\ UNCHANGED <<runs, gathering, notifying, stacking>>

\* The values are alike: one of them lies deepest in the full stack.
MCInit ==
  /\ runs \in {"HighSync", "VbdFilterEvent", "LfStack", "ShutdownMon"}
  /\ Init /\ Event!Init /\ Stack!Init /\ Service!MonInit
  /\ data[NumElements] = CHOOSE v \in Values : TRUE

MCNext ==
  \/ Gathers(Next) \/ Notifies(Event!Next) \/ Stacks(Stack!Next)
  \/ Monitors(Service!MonNext)

MCSpec ==
  /\ MCInit /\ [][MCNext]_all
  /\ \A p \in Procs : WF_all(Gathers(Dpc(p)))
  /\ WF_all(Gathers(QueueDpc \/ LowerIrql \/ WaitComplete \/ Flush \/ Free))
  /\ WF_all(Notifies(\E d \in Dpcs : Event!DpcStart(d)))
  /\ \A d \in Dpcs : /\ WF_all(Notifies(Event!Cas01(d))) /\ WF_all(Notifies(Event!Cas12(d)))
                     /\ WF_all(Notifies(Event!DpcSend(d)))
  /\ \A q \in Requests : /\ WF_all(Notifies(Event!Handle(q)))
                         /\ WF_all(Notifies(Event!SendEventComplete(q)))
  /\ \A t \in Threads : WF_all(Stacks(Stack!Step(t)))
  /\ WF_all(Monitors(Service!DoMonitoring))
  /\ WF_all(Monitors(Service!EvtIoReadLocked(Monitor) /\ Service!ServiceIdle))
  /\ WF_all(Monitors(Service!Writing /\ Service!ServiceIdle))
  /\ WF_all(Monitors((Service!IoWatch \/ Service!Notified) /\ Service!ServiceIdle))
-----------------------------------------------------------------------------
\* The miniport has one EVENT request at most, and a notification it has not seen is not
\* forgotten (VbdFilterEvent).
EventsSound == Event!EventsSound

\* An element of the stack is on the stack, on its freelist or in the hands of one
\* thread (LfStack).
StackSound == Stack!StackSound

\* The lock-free code behaves like a stack whose operations are instants (LfStack).
ImplementsAtomicStack == Stack!ImplementsAtomicStack

\* What was begun ends: XenPci_HighSync returns (HighSync); every notification gets down to
\* the miniport (VbdFilterEvent); a request to shut down gets to the service (ShutdownMon);
\* a call of the stack returns, no retry loop goes on against a list that has stopped
\* changing (LfStack; the threads are alike, one stands for all).
CallsEnd ==
  /\ HighSyncReturns
  /\ Event!EventReachesMiniport
  /\ Service!ShutdownSeen
  /\ Stack!Returns(CHOOSE t \in Threads : TRUE)
=============================================================================
