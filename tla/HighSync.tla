------------------------------ MODULE HighSync ------------------------------
(***************************************************************************)
(* XenPci_HighSync (xenpci/xenpci_highsync.c): run function0 on CPU 0      *)
(* while every other CPU spins at HIGH_LEVEL with interrupts disabled,     *)
(* then run functionN on the others.  Suspend and the kernel patcher rely  *)
(* on it.                                                                  *)
(*                                                                         *)
(* One action per access to the shared highsync_info_t, so that CPUs       *)
(* interleave between any two of them.  A CPU's label names the next       *)
(* instruction of its DPC.                                                 *)
(***************************************************************************)
EXTENDS Naturals, FiniteSets

CONSTANT N    \* ActiveProcessorCount

ASSUME NAssumption == N \in Nat \ {0}

Procs  == 0 .. (N - 1)
Others == Procs \ {0}

VARIABLES
  caller,                     \* label of the thread inside XenPci_HighSync
  cpu,                        \* the CPU that thread runs on while at HIGH_LEVEL
  i,                          \* its loop counter: DPCs queued so far
  allocated,                  \* highsync_info points to live pool memory
  pc,                         \* per CPU, the label of its DPC
  high,                       \* CPUs at sync_level with interrupts disabled
  do_spin,
  nr_procs_at_dispatch_level,
  nr_spinning_at_sync_level,
  highsync_complete_event

info == <<do_spin, nr_procs_at_dispatch_level, nr_spinning_at_sync_level,
          highsync_complete_event>>
thread == <<caller, cpu, i, allocated>>
vars   == <<thread, pc, high, info>>

CallerLabels == {"idle", "queue", "lower", "wait", "flush", "free"}

\* none: no DPC; queued: in the CPU's DPC queue; exit: only FUNCTION_EXIT is left
DpcLabels ==
  {"none", "queued", "gather", "raise", "assemble", "count", "spin", "run",
   "lower", "release", "drain", "uncount", "leave", "last", "signal", "exit"}

TypeOK ==
  /\ caller \in CallerLabels
  /\ cpu \in Procs
  /\ i \in 0 .. N
  /\ allocated \in BOOLEAN
  /\ pc \in [Procs -> DpcLabels]
  /\ high \in SUBSET Procs
  /\ do_spin \in BOOLEAN
  /\ nr_procs_at_dispatch_level \in 0 .. N
  /\ nr_spinning_at_sync_level \in 0 .. N
  /\ highsync_complete_event \in BOOLEAN

Init ==
  /\ caller = "idle" /\ cpu = 0 /\ i = 0
  /\ allocated = FALSE
  /\ pc = [p \in Procs |-> "none"]
  /\ high = {}
  /\ do_spin = FALSE
  /\ nr_procs_at_dispatch_level = 0
  /\ nr_spinning_at_sync_level = 0
  /\ highsync_complete_event = FALSE

Goto(p, from, to) == pc[p] = from /\ pc' = [pc EXCEPT ![p] = to]
-----------------------------------------------------------------------------
(* The calling thread *)

\* Allocate and zero highsync_info, raise to HIGH_LEVEL, do_spin = TRUE.
Start(p) ==
  /\ caller = "idle"
  /\ caller' = "queue" /\ cpu' = p /\ i' = 0
  /\ allocated' = TRUE
  /\ do_spin' = TRUE
  /\ nr_procs_at_dispatch_level' = 0
  /\ nr_spinning_at_sync_level' = 0
  /\ highsync_complete_event' = FALSE
  /\ UNCHANGED <<pc, high>>

\* KeInsertQueueDpc of the i-th DPC, targeted at CPU i.
QueueDpc ==
  /\ caller = "queue" /\ i < N
  /\ pc' = [pc EXCEPT ![i] = "queued"]
  /\ i' = i + 1
  /\ caller' = IF i + 1 = N THEN "lower" ELSE "queue"
  /\ UNCHANGED <<cpu, allocated, high, info>>

LowerIrql ==
  /\ caller = "lower" /\ caller' = "wait"
  /\ UNCHANGED <<cpu, i, allocated, pc, high, info>>

\* Mutant: the caller frees highsync_info without waiting.
WaitNot ==
  /\ caller = "wait" /\ caller' = "free"
  /\ UNCHANGED <<cpu, i, allocated, pc, high, info>>

\* The completion event is a SynchronizationEvent: the wait resets it.
WaitComplete ==
  /\ caller = "wait" /\ highsync_complete_event
  /\ highsync_complete_event' = FALSE
  /\ caller' = "flush"
  /\ UNCHANGED <<cpu, i, allocated, pc, high, do_spin,
                 nr_procs_at_dispatch_level, nr_spinning_at_sync_level>>

\* KeFlushQueuedDpcs returns when no DPC is queued or running.
Flush ==
  /\ caller = "flush" /\ \A p \in Procs : pc[p] = "none"
  /\ caller' = "free"
  /\ UNCHANGED <<cpu, i, allocated, pc, high, info>>

Free ==
  /\ caller = "free" /\ caller' = "idle"
  /\ allocated' = FALSE
  /\ UNCHANGED <<cpu, i, pc, high, info>>

Thread == (\E p \in Procs : Start(p)) \/ QueueDpc \/ LowerIrql \/ WaitComplete
          \/ Flush \/ Free
-----------------------------------------------------------------------------
(* Both DPC routines *)

\* A queued DPC starts once its CPU is below DISPATCH_LEVEL and increments
\* nr_procs_at_dispatch_level; the caller's own CPU is at HIGH_LEVEL until
\* LowerIrql.
Enter(p) ==
  /\ p = cpu => caller \notin {"queue", "lower"}
  /\ Goto(p, "queued", "gather")
  /\ nr_procs_at_dispatch_level' = nr_procs_at_dispatch_level + 1
  /\ UNCHANGED <<thread, high, do_spin, nr_spinning_at_sync_level,
                 highsync_complete_event>>

\* Nobody raises above DISPATCH_LEVEL before all CPUs have got there.
Gather(p) ==
  /\ nr_procs_at_dispatch_level >= N
  /\ Goto(p, "gather", "raise")
  /\ UNCHANGED <<thread, high, info>>

\* _disable, KeRaiseIrql(sync_level)
Raise(p) ==
  /\ Goto(p, "raise", IF p = 0 THEN "assemble" ELSE "count")
  /\ high' = high \cup {p}
  /\ UNCHANGED <<thread, info>>

\* KeLowerIrql, _enable
Lower(p) ==
  /\ Goto(p, "lower", IF p = 0 THEN "release" ELSE "uncount")
  /\ high' = high \ {p}
  /\ UNCHANGED <<thread, info>>

LeaveTo(p, to) ==
  /\ Goto(p, "leave", to)
  /\ nr_procs_at_dispatch_level' = nr_procs_at_dispatch_level - 1
  /\ UNCHANGED <<thread, high, do_spin, nr_spinning_at_sync_level,
                 highsync_complete_event>>

Return(p) ==
  /\ Goto(p, "exit", "none")
  /\ UNCHANGED <<thread, high, info>>
-----------------------------------------------------------------------------
(* XenPci_HighSyncCallFunctionN *)

Count(p) ==
  /\ Goto(p, "count", "spin")
  /\ nr_spinning_at_sync_level' = nr_spinning_at_sync_level + 1
  /\ UNCHANGED <<thread, high, do_spin, nr_procs_at_dispatch_level,
                 highsync_complete_event>>

\* Mutant: the other CPUs do not wait for do_spin to clear.
SpinNot(p) ==
  /\ Goto(p, "spin", "run")
  /\ UNCHANGED <<thread, high, info>>

Spin(p) ==
  /\ ~do_spin
  /\ Goto(p, "spin", "run")
  /\ UNCHANGED <<thread, high, info>>

\* functionN(context) runs while the label is "run".
RunN(p) ==
  /\ Goto(p, "run", "lower")
  /\ UNCHANGED <<thread, high, info>>

Uncount(p) ==
  /\ Goto(p, "uncount", "leave")
  /\ nr_spinning_at_sync_level' = nr_spinning_at_sync_level - 1
  /\ UNCHANGED <<thread, high, do_spin, nr_procs_at_dispatch_level,
                 highsync_complete_event>>

LeaveN(p) == LeaveTo(p, "exit")

CallFunctionN(p) == Count(p) \/ Spin(p) \/ RunN(p) \/ Uncount(p) \/ LeaveN(p)
-----------------------------------------------------------------------------
(* XenPci_HighSyncCallFunction0 *)

\* Mutant: CPU 0 waits for one spinning CPU too few.
AssembleEarly ==
  /\ nr_spinning_at_sync_level >= N - 2
  /\ Goto(0, "assemble", "run")
  /\ UNCHANGED <<thread, high, info>>

Assemble ==
  /\ nr_spinning_at_sync_level >= N - 1
  /\ Goto(0, "assemble", "run")
  /\ UNCHANGED <<thread, high, info>>

\* function0(context) runs while the label is "run".
Run0 ==
  /\ Goto(0, "run", "lower")
  /\ UNCHANGED <<thread, high, info>>

Release ==
  /\ Goto(0, "release", "drain")
  /\ do_spin' = FALSE
  /\ UNCHANGED <<thread, high, nr_procs_at_dispatch_level,
                 nr_spinning_at_sync_level, highsync_complete_event>>

Drain ==
  /\ nr_spinning_at_sync_level = 0
  /\ Goto(0, "drain", "leave")
  /\ UNCHANGED <<thread, high, info>>

Leave0 == LeaveTo(0, "last")

Last ==
  /\ nr_procs_at_dispatch_level = 0
  /\ Goto(0, "last", "signal")
  /\ UNCHANGED <<thread, high, info>>

Signal ==
  /\ Goto(0, "signal", "exit")
  /\ highsync_complete_event' = TRUE
  /\ UNCHANGED <<thread, high, do_spin, nr_procs_at_dispatch_level,
                 nr_spinning_at_sync_level>>

CallFunction0 == Assemble \/ Run0 \/ Release \/ Drain \/ Leave0 \/ Last \/ Signal
-----------------------------------------------------------------------------
Common(p) == Enter(p) \/ Gather(p) \/ Raise(p) \/ Lower(p) \/ Return(p)

Dpc(p) == Common(p) \/ (p = 0 /\ CallFunction0) \/ (p \in Others /\ CallFunctionN(p))

Next == Thread \/ \E p \in Procs : Dpc(p)

Spec == Init /\ [][Next]_vars

\* DPCs are HighImportance and bound to their CPU, so each of them keeps
\* running; a thread that entered HighSync keeps running but nobody has to
\* enter it.
FairSpec ==
  /\ Spec
  /\ \A p \in Procs : WF_vars(Dpc(p))
  /\ WF_vars(QueueDpc \/ LowerIrql \/ WaitComplete \/ Flush \/ Free)
-----------------------------------------------------------------------------
(* Properties *)

\* While CPU 0 is inside function0 every other CPU is parked in its do_spin
\* loop at HIGH_LEVEL with interrupts off: Suspend0 may save and restore
\* tables nobody else can touch.
Function0Alone ==
  pc[0] = "run" => high = Procs /\ \A p \in Others : pc[p] = "spin"

\* functionN only starts after function0 has returned and CPU 0 is back
\* below HIGH_LEVEL (do_spin is cleared last).
FunctionNAfterFunction0 ==
  \A p \in Others :
    pc[p] = "run" => 0 \notin high /\ pc[0] = "drain"

\* highsync_info (which holds the KDPC objects too) is never freed while a
\* DPC is queued or still has an access to it ahead.
NoUseAfterFree ==
  (\E p \in Procs : pc[p] \notin {"none", "exit"}) => allocated

\* The completion event is only signalled when no other CPU has an access
\* to highsync_info left: "indicating that nothing else requires
\* highsync_info".
SignalledLast ==
  pc[0] = "signal" \/ highsync_complete_event =>
    \A p \in Others : pc[p] \in {"none", "exit"}

\* No CPU gets to HIGH_LEVEL while another one has not reached
\* DISPATCH_LEVEL yet (it could be holding a resource the raised CPU stops).
NoRaiseBeforeGather ==
  [][high' \ high # {} => \A p \in Procs : pc[p] \notin {"none", "queued"}]_vars

-----------------------------------------------------------------------------
(* The promise to the caller *)

Past0 == {"lower", "release", "drain", "leave", "last", "signal", "exit", "none"}
PastN == {"lower", "uncount", "leave", "exit", "none"}

Begun == caller \notin {"idle", "queue"}
Stage ==
  CASE caller = "idle" -> "idle"
    [] caller = "queue" -> "called"
    [] Begun /\ pc[0] \notin Past0 \cup {"run"} -> "called"
    [] Begun /\ pc[0] = "run" -> "function0"
    [] Begun /\ pc[0] \in Past0 -> "functionN"

Ran == IF Stage = "functionN" THEN {p \in Others : pc[p] \in PastN} ELSE {}

Promise == INSTANCE HighSyncCall WITH stage <- Stage, ran <- Ran

\* Whatever the CPUs do in which order, function0 runs once and to its end before
\* functionN runs, functionN runs once on every other CPU, and the call does not
\* return before: the three barriers and the flush of the DPCs leave no way around.
ImplementsCall == Promise!Spec

\* Every call of XenPci_HighSync returns: the three barriers never leave a
\* CPU spinning.
HighSyncReturns == (caller # "idle") ~> (caller = "idle")
=============================================================================
