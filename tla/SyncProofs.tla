----------------------------- MODULE SyncProofs -----------------------------
(***************************************************************************)
(* Proofs about the protocols of MCSync that work without locks, for every *)
(* value of their constants.                                               *)
(*                                                                         *)
(* XenPci_HighSync (HighSync), every number of processors: the inductive   *)
(* invariant ties the two counters to the labels they count and says, for  *)
(* every label of CPU 0, where the other CPUs can be.                      *)
(*                                                                         *)
(* The events of the block filter (VbdFilterEvent), every set of DPC       *)
(* instances and requests: whoever owes the flag its clearing (Owners) is  *)
(* the pivot: one step moves the debt, and only a failure drops it.        *)
(*                                                                         *)
(* The stack of liblfds.6 (LfStack), any threads, values and elements: two *)
(* sequences of pairs, what hangs from the stack and what hangs from the   *)
(* freelist, explain every word of shared memory.  The counters make a     *)
(* pair on a list the one that a thread read, so that a compare-and-swap   *)
(* that wins stores the link that is there now.                            *)
(***************************************************************************)
EXTENDS MCSync, FiniteSetTheorems, SequenceTheorems, WellFoundedInduction, TLAPS

-----------------------------------------------------------------------------
(***************************************************************************)
(* XenPci_HighSync                                                         *)
(***************************************************************************)
\* The CPUs counted in nr_procs_at_dispatch_level, nr_spinning_at_sync_level.
Entered  == {p \in Procs : pc[p] \notin {"none", "queued", "last", "signal", "exit"}}
Spinning == {p \in Others : pc[p] \in {"spin", "run", "lower", "uncount"}}

Counters ==
  /\ nr_procs_at_dispatch_level = Cardinality(Entered)
  /\ nr_spinning_at_sync_level = Cardinality(Spinning)

Labels ==
  /\ pc[0] \notin {"count", "spin", "uncount"}
  /\ \A p \in Others : pc[p] \notin {"assemble", "release", "drain", "last", "signal"}
  /\ high = {p \in Procs : pc[p] \in {"assemble", "count", "spin", "run", "lower"}}

Caller ==
  /\ allocated = (caller # "idle")
  /\ caller \in {"idle", "free"} => \A p \in Procs : pc[p] = "none"
  /\ caller = "queue" =>
       /\ i < N
       /\ \A p \in Procs : pc[p] \in IF p < i THEN {"queued", "gather"} ELSE {"none"}
  /\ caller = "lower" => \A p \in Procs : pc[p] \in {"queued", "gather"}
  /\ caller \in {"queue", "lower"} => pc[cpu] \in {"none", "queued"}
  /\ caller = "flush" => pc[0] \in {"exit", "none"}
  /\ caller = "wait" => (highsync_complete_event <=> pc[0] \in {"exit", "none"})
  /\ caller # "wait" => ~highsync_complete_event

\* function0 has not been released yet in this call
Before == caller = "queue"
          \/ pc[0] \in {"queued", "gather", "raise", "assemble", "run", "lower", "release"}

Phase ==
  /\ Before =>
       /\ do_spin
       /\ \A p \in Others : pc[p] \in {"none", "queued", "gather", "raise", "count", "spin"}
  /\ Before /\ (\E p \in Procs : pc[p] \notin {"none", "queued", "gather"}) =>
       \A p \in Procs : pc[p] \notin {"none", "queued"}
  /\ pc[0] \in {"run", "lower", "release"} => \A p \in Others : pc[p] = "spin"
  /\ pc[0] = "drain" =>
       \A p \in Others : pc[p] \in {"spin", "run", "lower", "uncount", "leave", "exit", "none"}
  /\ pc[0] \in {"leave", "last"} => \A p \in Others : pc[p] \in {"leave", "exit", "none"}
  /\ pc[0] \in {"signal", "exit"} => \A p \in Others : pc[p] \in {"exit", "none"}
  /\ pc[0] = "none" /\ caller \in {"wait", "flush"} =>
       \A p \in Others : pc[p] \in {"exit", "none"}

IInv == TypeOK /\ Counters /\ Labels /\ Caller /\ Phase

(* Cardinalities of sets of CPUs *)

\* A set of CPUs is finite, has at most N elements, and N only if it is Procs.
LEMMA ProcSets ==
  ASSUME NEW S \in SUBSET Procs
  PROVE  /\ IsFiniteSet(S)
         /\ Cardinality(S) \in 0 .. N
         /\ Cardinality(S) = N => S = Procs
<1>1. IsFiniteSet(Procs) /\ Cardinality(Procs) = N
  BY NAssumption, FS_Interval DEF Procs
<1>2. IsFiniteSet(S) /\ Cardinality(S) <= N /\ (Cardinality(S) = N => S = Procs)
  BY <1>1, FS_Subset
<1>3. Cardinality(S) \in Nat
  BY <1>2, FS_CardinalityType
<1> QED BY <1>2, <1>3, NAssumption

\* The same for the CPUs other than 0: at most N - 1.
LEMMA OtherSets ==
  ASSUME NEW S \in SUBSET Others
  PROVE  /\ IsFiniteSet(S)
         /\ Cardinality(S) \in 0 .. N
         /\ Cardinality(S) >= N - 1 => S = Others
<1>1. IsFiniteSet(Procs) /\ Cardinality(Procs) = N /\ 0 \in Procs
  BY NAssumption, FS_Interval DEF Procs
<1>2. IsFiniteSet(Others) /\ Cardinality(Others) = N - 1
  BY <1>1, FS_RemoveElement DEF Others
<1>3. IsFiniteSet(S) /\ Cardinality(S) <= N - 1 /\ (Cardinality(S) = N - 1 => S = Others)
  BY <1>2, FS_Subset
<1>4. Cardinality(S) \in Nat
  BY <1>3, FS_CardinalityType
<1> QED BY <1>3, <1>4, NAssumption

\* Moving one CPU into, or out of, a counted set.
LEMMA AddProc ==
  ASSUME NEW S \in SUBSET Procs, NEW p \in Procs, p \notin S
  PROVE  Cardinality(S \cup {p}) = Cardinality(S) + 1
BY ProcSets, FS_AddElement

LEMMA RemoveProc ==
  ASSUME NEW S \in SUBSET Procs, NEW p \in S
  PROVE  Cardinality(S \ {p}) = Cardinality(S) - 1
BY ProcSets, FS_RemoveElement

\* The barrier at DISPATCH_LEVEL: once the counter shows N, nobody is outside.
LEMMA GatherMeansAll ==
  ASSUME IInv, nr_procs_at_dispatch_level >= N
  PROVE  \A p \in Procs : pc[p] \notin {"none", "queued", "last", "signal", "exit"}
<1>1. Entered \in SUBSET Procs BY DEF Entered
<1>2. Cardinality(Entered) = N
  BY <1>1, ProcSets, NAssumption DEF IInv, Counters
<1>3. Entered = Procs BY <1>1, <1>2, ProcSets
<1> QED BY <1>3 DEF Entered

\* The barrier at HIGH_LEVEL: once N - 1 CPUs are counted, all others spin
\* or are past spinning.
LEMMA AssembleMeansAll ==
  ASSUME IInv, nr_spinning_at_sync_level >= N - 1
  PROVE  Spinning = Others
<1>1. Spinning \in SUBSET Others BY DEF Spinning
<1> QED BY <1>1, OtherSets DEF IInv, Counters

\* The counters read zero only when nobody is counted.
LEMMA ZeroMeansNobody ==
  ASSUME IInv
  PROVE  /\ nr_spinning_at_sync_level = 0 => Spinning = {}
         /\ nr_procs_at_dispatch_level = 0 => Entered = {}
<1>1. Entered \in SUBSET Procs /\ Spinning \in SUBSET Others
  BY DEF Entered, Spinning
<1> QED BY <1>1, ProcSets, OtherSets, FS_EmptySet DEF IInv, Counters

\* The type of the next counters follows from what they count.
LEMMA CounterTypes ==
  ASSUME Counters'
  PROVE  /\ nr_procs_at_dispatch_level' \in 0 .. N
         /\ nr_spinning_at_sync_level' \in 0 .. N
<1>1. Entered' \in SUBSET Procs /\ Spinning' \in SUBSET Others
  BY DEF Entered, Spinning
<1> QED BY <1>1, ProcSets, OtherSets DEF Counters

(* The inductive invariant *)

LEMMA InitIInv == Init => IInv
<1> SUFFICES ASSUME Init PROVE IInv OBVIOUS
<1>1. Entered = {} /\ Spinning = {} BY DEF Init, Entered, Spinning, Others
<1>2. Counters BY <1>1, FS_EmptySet DEF Init, Counters
<1>3. 0 \in Procs /\ N \in Nat BY NAssumption DEF Procs
<1>4. TypeOK
  <2>1. pc \in [Procs -> DpcLabels] BY DEF Init, DpcLabels
  <2>2. cpu \in Procs /\ i \in 0 .. N /\ nr_procs_at_dispatch_level \in 0 .. N
        /\ nr_spinning_at_sync_level \in 0 .. N
    BY <1>3 DEF Init
  <2>3. caller \in CallerLabels /\ high \in SUBSET Procs /\ allocated \in BOOLEAN
        /\ do_spin \in BOOLEAN /\ highsync_complete_event \in BOOLEAN
    BY Zenon DEF Init, CallerLabels
  <2> QED BY <2>1, <2>2, <2>3 DEF TypeOK
<1>5. Labels /\ Caller /\ Phase
  BY <1>3 DEF Init, Labels, Caller, Phase, Before, Others
<1> QED BY <1>2, <1>4, <1>5 DEF IInv

\* Steps of the calling thread that leave every DPC where it is.
LEMMA ThreadStep ==
  ASSUME IInv, LowerIrql \/ WaitComplete \/ Flush \/ Free
  PROVE  IInv'
<1>1. UNCHANGED <<pc, high, do_spin, nr_procs_at_dispatch_level, nr_spinning_at_sync_level>>
  BY DEF LowerIrql, WaitComplete, Flush, Free, info
<1>2. Entered' = Entered /\ Spinning' = Spinning BY <1>1 DEF Entered, Spinning
<1>3. Counters' /\ Labels' BY <1>1, <1>2 DEF IInv, Counters, Labels
<1>4. TypeOK'
  BY DEF IInv, TypeOK, LowerIrql, WaitComplete, Flush, Free, CallerLabels, info
<1>5. Caller'
  <2>0. 0 \in Procs BY NAssumption DEF Procs
  <2>1. CASE LowerIrql
    BY <2>0, <2>1 DEF IInv, Caller, LowerIrql, info
  <2>2. CASE WaitComplete
    BY <2>0, <2>2 DEF IInv, Caller, WaitComplete
  <2>3. CASE Flush
    BY <2>0, <2>3 DEF IInv, Caller, Flush, info
  <2>4. CASE Free
    BY <2>0, <2>4 DEF IInv, Caller, Free, info
  <2> QED BY <2>1, <2>2, <2>3, <2>4
<1>6. Phase'
  BY NAssumption DEF IInv, TypeOK, Phase, Before, Caller, LowerIrql, WaitComplete, Flush, Free,
     info, Procs, Others
<1> QED BY <1>3, <1>4, <1>5, <1>6 DEF IInv

\* Only when a CPU enters or leaves a counted region does a counted set change.
LEMMA SameCounts ==
  ASSUME IInv, NEW p \in Procs, NEW from, NEW to, Goto(p, from, to),
         UNCHANGED <<nr_procs_at_dispatch_level, nr_spinning_at_sync_level>>,
         from \in {"none", "queued", "last", "signal", "exit"}
           <=> to \in {"none", "queued", "last", "signal", "exit"},
         p # 0 => (from \in {"spin", "run", "lower", "uncount"}
                     <=> to \in {"spin", "run", "lower", "uncount"})
  PROVE  Counters'
<1>1. \A q \in Procs : pc'[q] = IF q = p THEN to ELSE pc[q]
  BY DEF IInv, TypeOK, Goto
<1>2. Entered' = Entered
  BY <1>1 DEF Entered, Goto
<1>3. Spinning' = Spinning
  BY <1>1 DEF Spinning, Goto, Others
<1> QED BY <1>2, <1>3 DEF IInv, Counters

LEMMA StartIInv ==
  ASSUME IInv, NEW p \in Procs, Start(p)
  PROVE  IInv'
<1>0. 0 \in Procs /\ N \in Nat /\ N > 0 BY NAssumption DEF Procs
<1>1. \A q \in Procs : pc[q] = "none" BY DEF IInv, Caller, Start
<1>2. Entered' = {} /\ Spinning' = {}
  BY <1>1 DEF Start, Entered, Spinning, Others
<1>3. Counters' BY <1>2, FS_EmptySet DEF Start, Counters
<1>4. TypeOK'
  <2>1. pc' \in [Procs -> DpcLabels] /\ high' \in SUBSET Procs
    BY DEF Start, IInv, TypeOK
  <2>2. cpu' \in Procs /\ i' \in 0 .. N /\ nr_procs_at_dispatch_level' \in 0 .. N
        /\ nr_spinning_at_sync_level' \in 0 .. N
    BY <1>0 DEF Start
  <2>3. caller' \in CallerLabels /\ allocated' \in BOOLEAN
        /\ do_spin' \in BOOLEAN /\ highsync_complete_event' \in BOOLEAN
    BY Zenon DEF Start, CallerLabels
  <2> QED BY <2>1, <2>2, <2>3 DEF TypeOK
<1>5. Labels' BY DEF Start, IInv, Labels
<1>6. Caller'
  <2>1. \A q \in Procs : pc'[q] = "none" BY <1>1 DEF Start
  <2>2. allocated' = (caller' # "idle") /\ ~highsync_complete_event' BY Zenon DEF Start
  <2>3. caller' = "queue" /\ i' = 0 /\ cpu' \in Procs BY DEF Start
  <2>4. \A q \in Procs : ~(q < 0) BY <1>0 DEF Procs
  <2>5. \A q \in Procs : pc'[q] \in IF q < i' THEN {"queued", "gather"} ELSE {"none"}
    BY <2>1, <2>3, <2>4
  <2> QED BY <1>0, <2>1, <2>2, <2>3, <2>5 DEF Caller
<1>7. Phase' BY <1>0, <1>1 DEF Start, Phase, Before, Others
<1> QED BY <1>3, <1>4, <1>5, <1>6, <1>7 DEF IInv

LEMMA QueueIInv ==
  ASSUME IInv, QueueDpc
  PROVE  IInv'
<1>0. 0 \in Procs /\ N \in Nat /\ N > 0 /\ i \in Procs /\ i \in Nat
  BY NAssumption DEF QueueDpc, IInv, TypeOK, Procs
<1>1. \A q \in Procs : pc'[q] = IF q = i THEN "queued" ELSE pc[q]
  BY <1>0 DEF QueueDpc, IInv, TypeOK
<1>2. \A q \in Procs : pc[q] \in IF q < i THEN {"queued", "gather"} ELSE {"none"}
  BY DEF QueueDpc, IInv, Caller
<1>3. pc[i] = "none" BY <1>0, <1>2
<1>4. Counters'
  <2>1. Entered' = Entered /\ Spinning' = Spinning
    BY <1>1, <1>3 DEF Entered, Spinning, Others
  <2> QED BY <2>1 DEF QueueDpc, info, IInv, Counters
<1>5. TypeOK'
  <2>1. pc' \in [Procs -> DpcLabels] BY <1>0 DEF QueueDpc, IInv, TypeOK, DpcLabels
  <2>2. i' \in 0 .. N BY <1>0 DEF QueueDpc
  <2>3. caller' \in CallerLabels BY DEF QueueDpc, CallerLabels
  <2> QED BY <2>1, <2>2, <2>3 DEF QueueDpc, info, IInv, TypeOK
<1>6. Labels' BY <1>0, <1>1, <1>3 DEF QueueDpc, IInv, Labels, Others
<1>7. Caller'
  <2>1. i' = i + 1 /\ caller' = IF i + 1 = N THEN "lower" ELSE "queue" BY DEF QueueDpc
  <2>2. \A q \in Procs : pc'[q] \in IF q < i' THEN {"queued", "gather"} ELSE {"none"}
    BY <1>0, <1>1, <1>2, <2>1 DEF Procs
  <2>3. caller' = "lower" => \A q \in Procs : pc'[q] \in {"queued", "gather"}
    BY <1>0, <2>1, <2>2 DEF Procs
  <2>4. pc'[cpu'] \in {"none", "queued"} /\ allocated' /\ ~highsync_complete_event'
    BY <1>1 DEF QueueDpc, info, IInv, TypeOK, Caller
  <2>5. allocated' = TRUE
    BY DEF QueueDpc, IInv, TypeOK, Caller
  <2>6. caller' = "queue" => i' < N BY <1>0, <2>1 DEF Procs
  <2>7. allocated' = (caller' # "idle") BY <2>1, <2>5
  <2> QED BY <2>1, <2>2, <2>3, <2>4, <2>6, <2>7 DEF Caller
<1>8. Phase'
  <2>1. \A q \in Procs : pc'[q] \in {"none", "queued", "gather"} BY <1>1, <1>2
  <2>2. do_spin' BY DEF QueueDpc, info, IInv, Phase, Before
  <2>3. Before' BY <1>0, <1>1, <1>2 DEF Before, QueueDpc, Procs
  <2>4. pc'[0] # "none" \/ caller' = "queue"
    BY <1>0, <1>1, <1>2 DEF QueueDpc, Procs
  <2>5. pc'[0] \in {"none", "queued", "gather"} BY <1>0, <2>1
  <2>6. \A q \in Others : pc'[q] \in {"none", "queued", "gather"} BY <2>1 DEF Others
  <2> QED BY <2>1, <2>2, <2>4, <2>5, <2>6 DEF Phase
<1> QED BY <1>4, <1>5, <1>6, <1>7, <1>8 DEF IInv

\* The parts of IInv a move of one DPC leaves alone: types, and the caller's
\* view when the DPC is neither starting nor finishing.
LEMMA MoveType ==
  ASSUME IInv, NEW p \in Procs, NEW from, NEW to \in DpcLabels, Goto(p, from, to),
         UNCHANGED thread, high' \in SUBSET Procs, Counters',
         do_spin' \in BOOLEAN, highsync_complete_event' \in BOOLEAN
  PROVE  TypeOK'
<1>1. pc' \in [Procs -> DpcLabels] BY DEF Goto, IInv, TypeOK
<1> QED BY <1>1, CounterTypes DEF IInv, TypeOK, thread

LEMMA MoveCaller ==
  ASSUME IInv, NEW p \in Procs, NEW from, NEW to, Goto(p, from, to),
         UNCHANGED <<thread, highsync_complete_event>>,
         from \notin {"none", "queued", "gather"},
         p = 0 => (from \in {"exit", "none"} <=> to \in {"exit", "none"})
  PROVE  Caller'
<1>0. 0 \in Procs BY NAssumption DEF Procs
<1>1. caller \notin {"idle", "free", "queue", "lower"}
  BY DEF IInv, Caller, Goto
<1>2. pc'[0] \in {"exit", "none"} <=> pc[0] \in {"exit", "none"}
  BY <1>0 DEF IInv, TypeOK, Goto
<1>3. UNCHANGED <<caller, i, cpu, allocated, highsync_complete_event>> BY DEF thread
<1> QED BY <1>1, <1>2, <1>3 DEF IInv, Caller

LEMMA EnterIInv ==
  ASSUME IInv, NEW p \in Procs, Enter(p)
  PROVE  IInv'
<1>0. 0 \in Procs BY NAssumption DEF Procs
<1>1. \A q \in Procs : pc'[q] = IF q = p THEN "gather" ELSE pc[q]
  BY DEF Enter, Goto, IInv, TypeOK
<1>2. pc[p] = "queued" BY DEF Enter, Goto
<1>3. Counters'
  <2>1. Entered' = Entered \cup {p} /\ p \notin Entered
    BY <1>1, <1>2 DEF Entered
  <2>2. Spinning' = Spinning BY <1>1, <1>2 DEF Spinning, Others
  <2>3. Entered \in SUBSET Procs BY DEF Entered
  <2>4. Cardinality(Entered') = Cardinality(Entered) + 1 BY <2>1, <2>3, AddProc
  <2> QED BY <2>2, <2>4 DEF Enter, IInv, Counters
<1>4. TypeOK'
  BY <1>3, MoveType DEF Enter, DpcLabels, IInv, TypeOK
<1>5. Labels' BY <1>0, <1>1, <1>2 DEF Enter, IInv, Labels, Others
<1>6. Caller'
  <2>1. UNCHANGED <<caller, i, cpu, allocated, highsync_complete_event>>
    BY DEF Enter, thread
  <2>2. caller \notin {"idle", "free"} BY <1>2 DEF IInv, Caller
  <2>3. caller = "queue" =>
          \A q \in Procs : pc'[q] \in IF q < i' THEN {"queued", "gather"} ELSE {"none"}
    BY <1>1, <1>2, <2>1 DEF IInv, Caller
  <2>4. caller \in {"queue", "lower"} => pc'[cpu'] \in {"none", "queued"}
    BY <1>1, <2>1 DEF Enter, IInv, Caller, TypeOK
  <2>5. pc'[0] \in {"exit", "none"} <=> pc[0] \in {"exit", "none"}
    BY <1>0, <1>1, <1>2
  <2>6. caller = "lower" => \A q \in Procs : pc'[q] \in {"queued", "gather"}
    BY <1>1, <1>2 DEF IInv, Caller
  <2> QED BY <2>1, <2>2, <2>3, <2>4, <2>5, <2>6 DEF IInv, Caller
<1>7. Phase'
  <2>1. UNCHANGED <<caller, do_spin>> BY DEF Enter, thread
  <2> QED BY <1>0, <1>1, <1>2, <2>1 DEF IInv, Phase, Before, Others
<1> QED BY <1>3, <1>4, <1>5, <1>6, <1>7 DEF IInv

LEMMA GatherIInv ==
  ASSUME IInv, NEW p \in Procs, Gather(p)
  PROVE  IInv'
<1>0. 0 \in Procs /\ N \in Nat BY NAssumption DEF Procs
<1>1. \A q \in Procs : pc'[q] = IF q = p THEN "raise" ELSE pc[q]
  BY DEF Gather, Goto, IInv, TypeOK
<1>2. pc[p] = "gather" BY DEF Gather, Goto
<1>3. \A q \in Procs : pc[q] \notin {"none", "queued", "last", "signal", "exit"}
  BY GatherMeansAll DEF Gather
<1>4. Counters' BY SameCounts DEF Gather, info
<1>5. TypeOK' BY <1>4, MoveType DEF Gather, DpcLabels, IInv, TypeOK, info
<1>6. Labels' BY <1>0, <1>1, <1>2 DEF Gather, info, IInv, Labels, Others
<1>7. Caller'
  <2>1. caller \in {"wait"}
    <3>1. caller \notin {"idle", "free", "flush"} BY <1>0, <1>3 DEF IInv, Caller
    <3>2. caller # "lower"
      BY <1>3 DEF IInv, Caller, TypeOK
    <3>3. caller # "queue"
      BY <1>0, <1>3 DEF IInv, Caller, TypeOK, Procs
    <3> QED BY <3>1, <3>2, <3>3 DEF IInv, TypeOK, CallerLabels
  <2>2. pc'[0] \notin {"exit", "none"} /\ pc[0] \notin {"exit", "none"}
    BY <1>0, <1>1, <1>3
  <2>3. UNCHANGED <<caller, i, cpu, allocated, highsync_complete_event>>
    BY DEF Gather, thread, info
  <2> QED BY <2>1, <2>2, <2>3 DEF IInv, Caller
<1>8. Phase'
  <2>1. UNCHANGED <<caller, do_spin>> BY DEF Gather, thread, info
  <2> QED BY <1>0, <1>1, <1>2, <1>3, <2>1 DEF IInv, Phase, Before, Others
<1> QED BY <1>4, <1>5, <1>6, <1>7, <1>8 DEF IInv

LEMMA RaiseIInv ==
  ASSUME IInv, NEW p \in Procs, Raise(p)
  PROVE  IInv'
<1>0. 0 \in Procs BY NAssumption DEF Procs
<1>1. \A q \in Procs : pc'[q] = IF q = p THEN (IF p = 0 THEN "assemble" ELSE "count") ELSE pc[q]
  BY <1>0 DEF Raise, Goto, IInv, TypeOK
<1>2. pc[p] = "raise" BY DEF Raise, Goto
<1>3. Counters' BY <1>0, SameCounts DEF Raise, info
<1>4. TypeOK' BY <1>0, <1>3, MoveType DEF Raise, info, DpcLabels, IInv, TypeOK
<1>5. Labels' BY <1>0, <1>1, <1>2 DEF Raise, info, IInv, Labels, Others
<1>6. Caller' BY <1>0, MoveCaller DEF Raise, info
<1>7. Phase'
  <2>1. UNCHANGED <<caller, do_spin>> BY DEF Raise, thread, info
  <2> QED BY <1>0, <1>1, <1>2, <2>1 DEF IInv, Labels, Phase, Before, Others
<1> QED BY <1>3, <1>4, <1>5, <1>6, <1>7 DEF IInv

LEMMA LowerIInv ==
  ASSUME IInv, NEW p \in Procs, Lower(p)
  PROVE  IInv'
<1>0. 0 \in Procs BY NAssumption DEF Procs
<1>1. \A q \in Procs : pc'[q] = IF q = p THEN (IF p = 0 THEN "release" ELSE "uncount") ELSE pc[q]
  BY <1>0 DEF Lower, Goto, IInv, TypeOK
<1>2. pc[p] = "lower" BY DEF Lower, Goto
<1>3. Counters' BY <1>0, SameCounts DEF Lower, info
<1>4. TypeOK' BY <1>0, <1>3, MoveType DEF Lower, info, DpcLabels, IInv, TypeOK
<1>5. Labels' BY <1>0, <1>1, <1>2 DEF Lower, info, IInv, Labels, Others
<1>6. Caller' BY <1>0, MoveCaller DEF Lower, info
<1>7. Phase'
  <2>1. UNCHANGED <<caller, do_spin>> BY DEF Lower, thread, info
  <2> QED BY <1>0, <1>1, <1>2, <2>1 DEF IInv, Labels, Phase, Before, Others
<1> QED BY <1>3, <1>4, <1>5, <1>6, <1>7 DEF IInv

LEMMA SpinIInv ==
  ASSUME IInv, NEW p \in Procs, p # 0, Spin(p)
  PROVE  IInv'
<1>0. 0 \in Procs BY NAssumption DEF Procs
<1>1. \A q \in Procs : pc'[q] = IF q = p THEN "run" ELSE pc[q]
  BY <1>0 DEF Spin, Goto, IInv, TypeOK
<1>2. pc[p] = "spin" BY DEF Spin, Goto
<1>3. Counters' BY <1>0, SameCounts DEF Spin, info
<1>4. TypeOK' BY <1>0, <1>3, MoveType DEF Spin, info, DpcLabels, IInv, TypeOK
<1>5. Labels' BY <1>0, <1>1, <1>2 DEF Spin, info, IInv, Labels, Others
<1>6. Caller' BY <1>0, MoveCaller DEF Spin, info
<1>7. Phase'
  <2>1. UNCHANGED <<caller, do_spin>> BY DEF Spin, thread, info
  <2>2. ~Before BY DEF Spin, IInv, Phase
  <2>3. ~Before' BY <1>0, <1>1, <2>1, <2>2 DEF Before
  <2> QED BY <1>0, <1>1, <1>2, <2>1, <2>2, <2>3 DEF IInv, Labels, Phase, Before, Others
<1> QED BY <1>3, <1>4, <1>5, <1>6, <1>7 DEF IInv

LEMMA RunNIInv ==
  ASSUME IInv, NEW p \in Procs, p # 0, RunN(p)
  PROVE  IInv'
<1>0. 0 \in Procs BY NAssumption DEF Procs
<1>1. \A q \in Procs : pc'[q] = IF q = p THEN "lower" ELSE pc[q]
  BY <1>0 DEF RunN, Goto, IInv, TypeOK
<1>2. pc[p] = "run" BY DEF RunN, Goto
<1>3. Counters' BY <1>0, SameCounts DEF RunN, info
<1>4. TypeOK' BY <1>0, <1>3, MoveType DEF RunN, info, DpcLabels, IInv, TypeOK
<1>5. Labels' BY <1>0, <1>1, <1>2 DEF RunN, info, IInv, Labels, Others
<1>6. Caller' BY <1>0, MoveCaller DEF RunN, info
<1>7. Phase'
  <2>1. UNCHANGED <<caller, do_spin>> BY DEF RunN, thread, info
  <2> QED BY <1>0, <1>1, <1>2, <2>1 DEF IInv, Labels, Phase, Before, Others
<1> QED BY <1>3, <1>4, <1>5, <1>6, <1>7 DEF IInv

LEMMA Run0IInv ==
  ASSUME IInv, Run0
  PROVE  IInv'
<1>0. 0 \in Procs BY NAssumption DEF Procs
<1>1. \A q \in Procs : pc'[q] = IF q = 0 THEN "lower" ELSE pc[q]
  BY <1>0 DEF Run0, Goto, IInv, TypeOK
<1>2. pc[0] = "run" BY DEF Run0, Goto
<1>3. Counters' BY <1>0, SameCounts DEF Run0, info
<1>4. TypeOK' BY <1>0, <1>3, MoveType DEF Run0, info, DpcLabels, IInv, TypeOK
<1>5. Labels' BY <1>0, <1>1, <1>2 DEF Run0, info, IInv, Labels, Others
<1>6. Caller' BY <1>0, MoveCaller DEF Run0, info
<1>7. Phase'
  <2>1. UNCHANGED <<caller, do_spin>> BY DEF Run0, thread, info
  <2> QED BY <1>0, <1>1, <1>2, <2>1 DEF IInv, Labels, Phase, Before, Others
<1> QED BY <1>3, <1>4, <1>5, <1>6, <1>7 DEF IInv

LEMMA CountIInv ==
  ASSUME IInv, NEW p \in Others, Count(p)
  PROVE  IInv'
<1>0. 0 \in Procs /\ p \in Procs /\ p # 0 BY NAssumption DEF Procs, Others
<1>1. \A q \in Procs : pc'[q] = IF q = p THEN "spin" ELSE pc[q]
  BY <1>0 DEF Count, Goto, IInv, TypeOK
<1>2. pc[p] = "count" BY DEF Count, Goto
<1>3. Counters'
  <2>1. Entered' = Entered BY <1>1, <1>2 DEF Entered
  <2>2. Spinning' = Spinning \cup {p} /\ p \notin Spinning
    BY <1>0, <1>1, <1>2 DEF Spinning, Others
  <2>3. Spinning \in SUBSET Procs BY DEF Spinning, Others
  <2>4. Cardinality(Spinning') = Cardinality(Spinning) + 1 BY <1>0, <2>2, <2>3, AddProc
  <2> QED BY <2>1, <2>4 DEF Count, IInv, Counters
<1>4. TypeOK' BY <1>0, <1>3, MoveType DEF Count, DpcLabels, IInv, TypeOK
<1>5. Labels' BY <1>0, <1>1, <1>2 DEF Count, IInv, Labels, Others
<1>6. Caller' BY <1>0, MoveCaller DEF Count
<1>7. Phase'
  <2>1. UNCHANGED <<caller, do_spin>> BY DEF Count, thread
  <2> QED BY <1>0, <1>1, <1>2, <2>1 DEF IInv, Labels, Phase, Before, Others
<1> QED BY <1>3, <1>4, <1>5, <1>6, <1>7 DEF IInv

LEMMA UncountIInv ==
  ASSUME IInv, NEW p \in Others, Uncount(p)
  PROVE  IInv'
<1>0. 0 \in Procs /\ p \in Procs /\ p # 0 BY NAssumption DEF Procs, Others
<1>1. \A q \in Procs : pc'[q] = IF q = p THEN "leave" ELSE pc[q]
  BY <1>0 DEF Uncount, Goto, IInv, TypeOK
<1>2. pc[p] = "uncount" BY DEF Uncount, Goto
<1>3. Counters'
  <2>1. Entered' = Entered BY <1>1, <1>2 DEF Entered
  <2>2. Spinning' = Spinning \ {p} /\ p \in Spinning
    BY <1>0, <1>1, <1>2 DEF Spinning, Others
  <2>3. Spinning \in SUBSET Procs BY DEF Spinning, Others
  <2>4. Cardinality(Spinning') = Cardinality(Spinning) - 1 BY <2>2, <2>3, RemoveProc
  <2> QED BY <2>1, <2>4 DEF Uncount, IInv, Counters
<1>4. TypeOK' BY <1>0, <1>3, MoveType DEF Uncount, DpcLabels, IInv, TypeOK
<1>5. Labels' BY <1>0, <1>1, <1>2 DEF Uncount, IInv, Labels, Others
<1>6. Caller' BY <1>0, MoveCaller DEF Uncount
<1>7. Phase'
  <2>1. UNCHANGED <<caller, do_spin>> BY DEF Uncount, thread
  <2> QED BY <1>0, <1>1, <1>2, <2>1 DEF IInv, Labels, Phase, Before, Others
<1> QED BY <1>3, <1>4, <1>5, <1>6, <1>7 DEF IInv

LEMMA LeaveIInv ==
  ASSUME IInv, NEW p \in Procs, LeaveTo(p, IF p = 0 THEN "last" ELSE "exit")
  PROVE  IInv'
<1> DEFINE to == IF p = 0 THEN "last" ELSE "exit"
<1>0. 0 \in Procs BY NAssumption DEF Procs
<1>1. \A q \in Procs : pc'[q] = IF q = p THEN to ELSE pc[q]
  BY DEF LeaveTo, Goto, IInv, TypeOK
<1>2. pc[p] = "leave" BY DEF LeaveTo, Goto
<1>3. Counters'
  <2>1. Entered' = Entered \ {p} /\ p \in Entered BY <1>1, <1>2 DEF Entered
  <2>2. Spinning' = Spinning BY <1>1, <1>2 DEF Spinning, Others
  <2>3. Entered \in SUBSET Procs BY DEF Entered
  <2>4. Cardinality(Entered') = Cardinality(Entered) - 1 BY <2>1, <2>3, RemoveProc
  <2> QED BY <2>2, <2>4 DEF LeaveTo, IInv, Counters
<1>4. TypeOK' BY <1>3, MoveType DEF LeaveTo, DpcLabels, IInv, TypeOK
<1>5. Labels' BY <1>0, <1>1, <1>2 DEF LeaveTo, IInv, Labels, Others
<1>6. Caller' BY <1>0, MoveCaller DEF LeaveTo
<1>7. Phase'
  <2>1. UNCHANGED <<caller, do_spin>> BY DEF LeaveTo, thread
  <2> QED BY <1>0, <1>1, <1>2, <2>1 DEF IInv, Labels, Phase, Before, Others
<1> QED BY <1>3, <1>4, <1>5, <1>6, <1>7 DEF IInv

LEMMA AssembleIInv ==
  ASSUME IInv, Assemble
  PROVE  IInv'
<1>0. 0 \in Procs BY NAssumption DEF Procs
<1>1. \A q \in Procs : pc'[q] = IF q = 0 THEN "run" ELSE pc[q]
  BY <1>0 DEF Assemble, Goto, IInv, TypeOK
<1>2. pc[0] = "assemble" BY DEF Assemble, Goto
<1>3. Counters' BY <1>0, SameCounts DEF Assemble, info
<1>4. TypeOK' BY <1>0, <1>3, MoveType DEF Assemble, info, DpcLabels, IInv, TypeOK
<1>5. Labels' BY <1>0, <1>1, <1>2 DEF Assemble, info, IInv, Labels, Others
<1>6. Caller' BY <1>0, MoveCaller DEF Assemble, info
<1>7. Phase'
  <2>1. UNCHANGED <<caller, do_spin>> BY DEF Assemble, thread, info
  <2>2. \A q \in Others : pc[q] \in {"spin", "run", "lower", "uncount"}
    BY AssembleMeansAll DEF Assemble, Spinning
  <2> QED BY <1>0, <1>1, <1>2, <2>1, <2>2 DEF IInv, Labels, Phase, Before, Others
<1> QED BY <1>3, <1>4, <1>5, <1>6, <1>7 DEF IInv

LEMMA DrainIInv ==
  ASSUME IInv, Drain
  PROVE  IInv'
<1>0. 0 \in Procs BY NAssumption DEF Procs
<1>1. \A q \in Procs : pc'[q] = IF q = 0 THEN "leave" ELSE pc[q]
  BY <1>0 DEF Drain, Goto, IInv, TypeOK
<1>2. pc[0] = "drain" BY DEF Drain, Goto
<1>3. Counters' BY <1>0, SameCounts DEF Drain, info
<1>4. TypeOK' BY <1>0, <1>3, MoveType DEF Drain, info, DpcLabels, IInv, TypeOK
<1>5. Labels' BY <1>0, <1>1, <1>2 DEF Drain, info, IInv, Labels, Others
<1>6. Caller' BY <1>0, MoveCaller DEF Drain, info
<1>7. Phase'
  <2>1. UNCHANGED <<caller, do_spin>> BY DEF Drain, thread, info
  <2>2. \A q \in Others : pc[q] \notin {"spin", "run", "lower", "uncount"}
    BY ZeroMeansNobody DEF Drain, Spinning
  <2> QED BY <1>0, <1>1, <1>2, <2>1, <2>2 DEF IInv, Labels, Phase, Before, Others
<1> QED BY <1>3, <1>4, <1>5, <1>6, <1>7 DEF IInv

LEMMA LastIInv ==
  ASSUME IInv, Last
  PROVE  IInv'
<1>0. 0 \in Procs BY NAssumption DEF Procs
<1>1. \A q \in Procs : pc'[q] = IF q = 0 THEN "signal" ELSE pc[q]
  BY <1>0 DEF Last, Goto, IInv, TypeOK
<1>2. pc[0] = "last" BY DEF Last, Goto
<1>3. Counters' BY <1>0, SameCounts DEF Last, info
<1>4. TypeOK' BY <1>0, <1>3, MoveType DEF Last, info, DpcLabels, IInv, TypeOK
<1>5. Labels' BY <1>0, <1>1, <1>2 DEF Last, info, IInv, Labels, Others
<1>6. Caller' BY <1>0, MoveCaller DEF Last, info
<1>7. Phase'
  <2>1. UNCHANGED <<caller, do_spin>> BY DEF Last, thread, info
  <2>2. \A q \in Procs : pc[q] \in {"none", "queued", "last", "signal", "exit"}
    BY ZeroMeansNobody DEF Last, Entered
  <2> QED BY <1>0, <1>1, <1>2, <2>1, <2>2 DEF IInv, Labels, Phase, Before, Others
<1> QED BY <1>3, <1>4, <1>5, <1>6, <1>7 DEF IInv

LEMMA ReleaseIInv ==
  ASSUME IInv, Release
  PROVE  IInv'
<1>0. 0 \in Procs BY NAssumption DEF Procs
<1>1. \A q \in Procs : pc'[q] = IF q = 0 THEN "drain" ELSE pc[q]
  BY <1>0 DEF Release, Goto, IInv, TypeOK
<1>2. pc[0] = "release" BY DEF Release, Goto
<1>3. Counters' BY <1>0, SameCounts DEF Release
<1>4. TypeOK'
  <2>1. do_spin' \in BOOLEAN BY Zenon DEF Release
  <2> QED BY <1>0, <1>3, <2>1, MoveType DEF Release, DpcLabels, IInv, TypeOK
<1>5. Labels' BY <1>0, <1>1, <1>2 DEF Release, IInv, Labels, Others
<1>6. Caller' BY <1>0, MoveCaller DEF Release
<1>7. Phase'
  <2>1. caller # "queue" /\ caller' = caller
    BY <1>0, <1>2 DEF IInv, Caller, Release, thread
  <2>2. ~Before' BY <1>0, <1>1, <2>1 DEF Before
  <2> QED BY <1>0, <1>1, <1>2, <2>2 DEF IInv, Phase, Before, Others
<1> QED BY <1>3, <1>4, <1>5, <1>6, <1>7 DEF IInv

LEMMA SignalIInv ==
  ASSUME IInv, Signal
  PROVE  IInv'
<1>0. 0 \in Procs BY NAssumption DEF Procs
<1>1. \A q \in Procs : pc'[q] = IF q = 0 THEN "exit" ELSE pc[q]
  BY <1>0 DEF Signal, Goto, IInv, TypeOK
<1>2. pc[0] = "signal" BY DEF Signal, Goto
<1>3. Counters' BY <1>0, SameCounts DEF Signal
<1>4. TypeOK'
  <2>1. highsync_complete_event' \in BOOLEAN BY Zenon DEF Signal
  <2> QED BY <1>0, <1>3, <2>1, MoveType DEF Signal, DpcLabels, IInv, TypeOK
<1>5. Labels' BY <1>0, <1>1, <1>2 DEF Signal, IInv, Labels, Others
<1>6. Caller'
  <2>1. caller = "wait" BY <1>0, <1>2 DEF IInv, TypeOK, CallerLabels, Caller
  <2>2. caller' = "wait" /\ allocated' = (caller' # "idle") /\ highsync_complete_event'
    BY <2>1 DEF Signal, thread, IInv, Caller
  <2>3. pc'[0] = "exit" BY <1>0, <1>1
  <2> QED BY <2>2, <2>3 DEF Caller
<1>7. Phase'
  <2>1. UNCHANGED <<caller, do_spin>> BY DEF Signal, thread
  <2> QED BY <1>0, <1>1, <1>2, <2>1 DEF IInv, Phase, Before, Others
<1> QED BY <1>3, <1>4, <1>5, <1>6, <1>7 DEF IInv

LEMMA ReturnIInv ==
  ASSUME IInv, NEW p \in Procs, Return(p)
  PROVE  IInv'
<1>0. 0 \in Procs BY NAssumption DEF Procs
<1>1. \A q \in Procs : pc'[q] = IF q = p THEN "none" ELSE pc[q]
  BY DEF Return, Goto, IInv, TypeOK
<1>2. pc[p] = "exit" BY DEF Return, Goto
<1>3. Counters' BY SameCounts DEF Return, info
<1>4. TypeOK' BY <1>3, MoveType DEF Return, info, DpcLabels, IInv, TypeOK
<1>5. Labels' BY <1>0, <1>1, <1>2 DEF Return, info, IInv, Labels, Others
<1>6. Caller' BY MoveCaller DEF Return, info
<1>7. Phase'
  <2>1. UNCHANGED <<caller, do_spin>> BY DEF Return, thread, info
  <2>2. caller \in {"wait", "flush"}
    BY <1>2 DEF IInv, TypeOK, CallerLabels, Caller
  <2>3. p # 0 => \/ ~Before
                 \/ \A q \in Procs : pc[q] # "exit"
    BY <1>0 DEF IInv, Phase, Before, Others
  <2> QED BY <1>0, <1>1, <1>2, <2>1, <2>2, <2>3 DEF IInv, Phase, Before, Others
<1> QED BY <1>3, <1>4, <1>5, <1>6, <1>7 DEF IInv

LEMMA NextIInv == IInv /\ [Next]_vars => IInv'
<1> SUFFICES ASSUME IInv, [Next]_vars PROVE IInv' OBVIOUS
<1>0. 0 \in Procs BY NAssumption DEF Procs
<1>1. ASSUME Thread PROVE IInv'
  BY <1>1, StartIInv, QueueIInv, ThreadStep DEF Thread
<1>2. ASSUME NEW p \in Procs, Common(p) PROVE IInv'
  BY <1>2, EnterIInv, GatherIInv, RaiseIInv, LowerIInv, ReturnIInv DEF Common
<1>3. ASSUME CallFunction0 PROVE IInv'
  <2>1. Leave0 => LeaveTo(0, IF 0 = 0 THEN "last" ELSE "exit") BY DEF Leave0
  <2> QED
    BY <1>0, <1>3, <2>1, AssembleIInv, Run0IInv, ReleaseIInv, DrainIInv, LeaveIInv,
       LastIInv, SignalIInv DEF CallFunction0
<1>4. ASSUME NEW p \in Others, CallFunctionN(p) PROVE IInv'
  <2>1. p \in Procs /\ p # 0 BY DEF Others
  <2>2. LeaveN(p) => LeaveTo(p, IF p = 0 THEN "last" ELSE "exit")
    BY <2>1 DEF LeaveN
  <2> QED
    BY <1>4, <2>1, <2>2, CountIInv, SpinIInv, RunNIInv, UncountIInv, LeaveIInv
    DEF CallFunctionN
<1>5. CASE UNCHANGED vars
  <2>1. UNCHANGED <<caller, cpu, i, allocated, pc, high, do_spin,
           nr_procs_at_dispatch_level, nr_spinning_at_sync_level, highsync_complete_event>>
    BY <1>5 DEF vars, thread, info
  <2>2. Counters' BY <2>1 DEF IInv, Counters, Entered, Spinning
  <2> QED BY <2>1, <2>2 DEF IInv, TypeOK, Labels, Caller, Phase, Before
<1> QED BY <1>1, <1>2, <1>3, <1>4, <1>5 DEF Next, Dpc

\* The inductive invariant holds in every reachable state, for every N.
THEOREM Invariance == Spec => []IInv
BY InitIInv, NextIInv, PTL DEF Spec

\* Types of all variables; in particular neither counter leaves 0 .. N.
THEOREM TypeCorrect == Spec => []TypeOK
<1>1. IInv => TypeOK BY DEF IInv
<1> QED BY <1>1, Invariance, PTL

\* While function0 runs, every other CPU is parked at HIGH_LEVEL.
THEOREM Exclusion == Spec => []Function0Alone
<1>1. IInv => Function0Alone
  BY NAssumption DEF IInv, Labels, Phase, Function0Alone, Others, Procs, TypeOK
<1> QED BY <1>1, Invariance, PTL

\* functionN never runs before function0 is over.
THEOREM Order == Spec => []FunctionNAfterFunction0
<1>1. ASSUME IInv, NEW p \in Others, pc[p] = "run"
      PROVE  0 \notin high /\ pc[0] = "drain"
  <2>0. 0 \in Procs /\ p \in Procs BY NAssumption DEF Procs, Others
  <2>1. ~Before BY <1>1 DEF IInv, Phase
  <2>2. caller \in {"wait", "flush"}
    BY <1>1, <2>0 DEF IInv, TypeOK, CallerLabels, Caller
  <2>3. pc[0] \notin {"leave", "last", "signal", "exit", "none"}
    BY <1>1, <2>2 DEF IInv, Phase
  <2>4. pc[0] = "drain"
    <3>1. pc[0] \in DpcLabels BY <1>1, <2>0 DEF IInv, TypeOK
    <3>2. pc[0] \notin {"count", "spin", "uncount"} BY <1>1 DEF IInv, Labels
    <3> QED BY <2>1, <2>3, <3>1, <3>2 DEF DpcLabels, Before
  <2>5. 0 \notin high BY <1>1, <2>4 DEF IInv, Labels
  <2> QED BY <2>4, <2>5
<1>2. IInv => FunctionNAfterFunction0 BY <1>1 DEF FunctionNAfterFunction0
<1> QED BY <1>2, Invariance, PTL

\* highsync_info stays allocated as long as any DPC can reach it.
THEOREM MemorySafety == Spec => []NoUseAfterFree
<1>1. IInv => NoUseAfterFree
  BY DEF IInv, Caller, NoUseAfterFree
<1> QED BY <1>1, Invariance, PTL

\* The completion event means every other CPU is through with highsync_info.
THEOREM CompletionIsLast == Spec => []SignalledLast
<1>1. IInv => SignalledLast
  BY DEF IInv, Caller, Phase, SignalledLast
<1> QED BY <1>1, Invariance, PTL

\* No CPU raises before every CPU has arrived at DISPATCH_LEVEL.
THEOREM GatherBarrier == Spec => NoRaiseBeforeGather
<1>1. ASSUME IInv, [Next]_vars
      PROVE  [high' \ high # {} => \A p \in Procs : pc[p] \notin {"none", "queued"}]_vars
  <2>1. CASE UNCHANGED vars BY <2>1
  <2>2. ASSUME NEW p \in Procs, Raise(p)
        PROVE  \A q \in Procs : pc[q] \notin {"none", "queued"}
    <3>1. pc[p] = "raise" BY <2>2 DEF Raise, Goto
    <3>2. Before
      <4>1. p = 0 \/ p \in Others BY DEF Others
      <4>2. pc[0] \notin {"drain", "leave", "last", "signal", "exit"}
        BY <1>1, <3>1, <4>1 DEF IInv, Phase
      <4>3. 0 \in Procs /\ caller \in {"wait", "flush"}
        BY <1>1, <3>1, NAssumption DEF IInv, TypeOK, CallerLabels, Caller, Procs
      <4>4. pc[0] # "none" BY <1>1, <3>1, <4>1, <4>3 DEF IInv, Phase
      <4>5. pc[0] \in DpcLabels \ {"count", "spin", "uncount"}
        BY <1>1, <4>3 DEF IInv, TypeOK, Labels
      <4> QED BY <4>2, <4>4, <4>5 DEF DpcLabels, Before
    <3> QED BY <1>1, <3>1, <3>2 DEF IInv, Phase
  <2>3. ASSUME Thread PROVE high' = high
    BY <2>3 DEF Thread, Start, QueueDpc, LowerIrql, WaitComplete, Flush, Free
  <2>4. ASSUME NEW p \in Procs, Common(p), ~Raise(p) PROVE high' \subseteq high
    BY <2>4 DEF Common, Enter, Gather, Lower, Return
  <2>5. ASSUME CallFunction0 PROVE high' = high
    BY <2>5 DEF CallFunction0, Assemble, Run0, Release, Drain, Leave0, LeaveTo, Last, Signal
  <2>6. ASSUME NEW p \in Others, CallFunctionN(p) PROVE high' = high
    BY <2>6 DEF CallFunctionN, Count, Spin, RunN, Uncount, LeaveN, LeaveTo
  <2> QED BY <1>1, <2>1, <2>2, <2>3, <2>4, <2>5, <2>6 DEF Next, Dpc
<1> QED BY <1>1, Invariance, PTL DEF Spec, NoRaiseBeforeGather

(* The promise to the caller: every step is a step of HighSyncCall or none *)

\* What Stage and Ran are, before and after a step.
LEMMA StageIs ==
  /\ caller = "idle" => Stage = "idle"
  /\ caller = "queue" => Stage = "called"
  /\ Begun /\ pc[0] \notin Past0 \cup {"run"} => Stage = "called"
  /\ Begun /\ pc[0] = "run" => Stage = "function0"
  /\ Begun /\ pc[0] \in Past0 => Stage = "functionN"
BY DEF Stage, Begun, Past0

LEMMA StageIsNext ==
  /\ caller' = "idle" => Stage' = "idle"
  /\ caller' = "queue" => Stage' = "called"
  /\ Begun' /\ pc'[0] \notin Past0 \cup {"run"} => Stage' = "called"
  /\ Begun' /\ pc'[0] = "run" => Stage' = "function0"
  /\ Begun' /\ pc'[0] \in Past0 => Stage' = "functionN"
BY DEF Stage, Begun, Past0

LEMMA RanIs ==
  /\ Stage # "functionN" => Ran = {}
  /\ Stage = "functionN" => Ran = {p \in Others : pc[p] \in PastN}
BY DEF Ran

LEMMA RanIsNext ==
  /\ Stage' # "functionN" => Ran' = {}
  /\ Stage' = "functionN" => Ran' = {p \in Others : pc'[p] \in PastN}
BY DEF Ran

\* The calling thread: Start is the call, Free the return, and no step between shows.
LEMMA ThreadPromise ==
  ASSUME IInv, Thread
  PROVE  Promise!Call \/ Promise!Return \/ (Stage' = Stage /\ Ran' = Ran)
<1>0. 0 \in Procs /\ N \in Nat BY NAssumption DEF Procs
<1>1. ASSUME NEW p \in Procs, Start(p) PROVE Promise!Call
  <2>1. Stage = "idle" /\ Stage' = "called"
    BY <1>1, StageIs, StageIsNext DEF Start
  <2> QED BY <2>1, RanIs, RanIsNext DEF Promise!Call
<1>2. CASE QueueDpc
  <2>1. Stage = "called" BY <1>2, StageIs DEF QueueDpc
  <2>2. Stage' = "called"
    <3>1. CASE caller' = "queue" BY <3>1, StageIsNext
    <3>2. CASE caller' # "queue"
      <4>1. i + 1 = N /\ caller' = "lower" BY <1>2, <3>2 DEF QueueDpc
      <4>2. pc'[0] \in {"queued", "gather"}
        BY <1>0, <1>2, <4>1 DEF QueueDpc, IInv, TypeOK, Caller
      <4> QED BY <4>1, <4>2, StageIsNext DEF Begun, Past0
    <3> QED BY <3>1, <3>2
  <2> QED BY <2>1, <2>2, RanIs, RanIsNext
<1>3. CASE LowerIrql \/ WaitComplete \/ Flush
  <2>1. Begun /\ Begun' /\ pc' = pc
    BY <1>3 DEF LowerIrql, WaitComplete, Flush, Begun
  <2>2. Stage' = Stage
    BY <2>1, StageIs, StageIsNext
  <2> QED BY <2>1, <2>2, RanIs, RanIsNext
<1>4. CASE Free
  <2>1. Begun /\ \A p \in Procs : pc[p] = "none" BY <1>4 DEF Free, Begun, IInv, Caller
  <2>2. Stage = "functionN" BY <1>0, <2>1, StageIs DEF Past0
  <2>3. Ran = Others BY <2>1, <2>2, RanIs DEF PastN, Others
  <2>4. Stage' = "idle" BY <1>4, StageIsNext DEF Free
  <2> QED BY <2>2, <2>3, <2>4, RanIsNext DEF Promise!Return
<1> QED BY <1>1, <1>2, <1>3, <1>4 DEF Thread

\* While a DPC runs the call is under way.
LEMMA DpcBegun ==
  ASSUME IInv, NEW p \in Procs, pc[p] \notin {"none", "queued", "gather"}
  PROVE  Begun
BY DEF IInv, TypeOK, Caller, CallerLabels, Begun

\* A step of a DPC that is at most a step of its own keeps the stage, and who ran.
LEMMA QuietPromise ==
  ASSUME IInv, NEW p \in Procs, NEW from, NEW to, Goto(p, from, to), UNCHANGED caller,
         p = 0 => from # "run" /\ to # "run" /\ (from \in Past0 <=> to \in Past0),
         p # 0 => (from \in PastN <=> to \in PastN)
  PROVE  Stage' = Stage /\ Ran' = Ran
<1>0. 0 \in Procs BY NAssumption DEF Procs
<1>1. pc' = [pc EXCEPT ![p] = to] /\ pc[p] = from /\ pc \in [Procs -> DpcLabels]
  BY DEF Goto, IInv, TypeOK
<1>2. /\ pc'[0] \in Past0 <=> pc[0] \in Past0
      /\ pc'[0] = "run" <=> pc[0] = "run"
      /\ \A q \in Others : pc'[q] \in PastN <=> pc[q] \in PastN
  BY <1>0, <1>1 DEF Others
<1>3. Stage' = Stage BY <1>2 DEF Stage, Begun
<1> QED BY <1>2, <1>3, RanIs, RanIsNext

LEMMA CommonPromise ==
  ASSUME IInv, NEW p \in Procs, Common(p)
  PROVE  Stage' = Stage /\ Ran' = Ran
<1>1. ASSUME Enter(p) \/ Gather(p) PROVE Stage' = Stage /\ Ran' = Ran
  <2>1. UNCHANGED caller /\ (Goto(p, "queued", "gather") \/ Goto(p, "gather", "raise"))
    BY <1>1 DEF Enter, Gather, thread
  <2> QED BY <2>1, QuietPromise DEF Past0, PastN
<1>2. ASSUME Raise(p) PROVE Stage' = Stage /\ Ran' = Ran
  <2>1. UNCHANGED caller /\ (Goto(p, "raise", "assemble") \/ Goto(p, "raise", "count"))
    BY <1>2 DEF Raise, thread
  <2> QED BY <2>1, QuietPromise DEF Past0, PastN
<1>3. ASSUME Lower(p) PROVE Stage' = Stage /\ Ran' = Ran
  <2>1. CASE p = 0
    <3>1. UNCHANGED caller /\ Goto(p, "lower", "release") BY <1>3, <2>1 DEF Lower, thread
    <3> QED BY <2>1, <3>1, QuietPromise DEF Past0
  <2>2. CASE p # 0
    <3>1. UNCHANGED caller /\ Goto(p, "lower", "uncount") BY <1>3, <2>2 DEF Lower, thread
    <3> QED BY <2>2, <3>1, QuietPromise DEF PastN
  <2> QED BY <2>1, <2>2
<1>4. ASSUME Return(p) PROVE Stage' = Stage /\ Ran' = Ran
  <2>1. UNCHANGED caller /\ Goto(p, "exit", "none") BY <1>4 DEF Return, thread
  <2> QED BY <2>1, QuietPromise DEF Past0, PastN
<1> QED BY <1>1, <1>2, <1>3, <1>4 DEF Common

\* CPU 0: function0 begins when the others have assembled, and returns before they go on.
LEMMA Function0Promise ==
  ASSUME IInv, CallFunction0
  PROVE  Promise!Function0 \/ Promise!Function0Returns \/ (Stage' = Stage /\ Ran' = Ran)
<1>0. 0 \in Procs /\ pc \in [Procs -> DpcLabels] BY NAssumption DEF Procs, IInv, TypeOK
<1>1. CASE Assemble
  <2>1. UNCHANGED caller /\ pc[0] = "assemble" /\ pc'[0] = "run"
    BY <1>0, <1>1 DEF Assemble, Goto, thread
  <2>2. Begun /\ Begun' BY <1>0, <2>1, DpcBegun DEF Begun
  <2>3. Stage = "called" /\ Stage' = "function0"
    BY <2>1, <2>2, StageIs, StageIsNext DEF Past0
  <2> QED BY <2>3, RanIs, RanIsNext DEF Promise!Function0
<1>2. CASE Run0
  <2>1. UNCHANGED caller /\ pc[0] = "run" /\ pc' = [pc EXCEPT ![0] = "lower"]
    BY <1>0, <1>2 DEF Run0, Goto, thread
  <2>2. Begun /\ Begun' BY <1>0, <2>1, DpcBegun DEF Begun
  <2>3. Stage = "function0" /\ Stage' = "functionN"
    BY <1>0, <2>1, <2>2, StageIs, StageIsNext DEF Past0
  <2>4. \A p \in Others : pc'[p] = "spin"
    BY <1>0, <2>1 DEF IInv, Phase, Others
  <2> QED BY <2>3, <2>4, RanIs, RanIsNext DEF Promise!Function0Returns, PastN
<1>3. CASE Release \/ Drain \/ Leave0 \/ Last \/ Signal
  <2>1. UNCHANGED caller /\ \E from, to \in Past0 : Goto(0, from, to)
    BY <1>3 DEF Release, Drain, Leave0, LeaveTo, Last, Signal, thread, Past0
  <2>2. PICK from \in Past0, to \in Past0 : Goto(0, from, to) BY <2>1
  <2> QED BY <1>0, <2>1, <2>2, QuietPromise DEF Past0
<1> QED BY <1>1, <1>2, <1>3 DEF CallFunction0

\* The others: functionN runs between the end of function0 and the return of the call.
LEMMA FunctionNPromise ==
  ASSUME IInv, NEW p \in Others, CallFunctionN(p)
  PROVE  Promise!FunctionN(p) \/ (Stage' = Stage /\ Ran' = Ran)
<1>0. 0 \in Procs /\ p \in Procs /\ p # 0 /\ pc \in [Procs -> DpcLabels]
  BY NAssumption DEF Procs, Others, IInv, TypeOK
<1>1. CASE RunN(p)
  <2>1. UNCHANGED caller /\ pc[p] = "run" /\ pc' = [pc EXCEPT ![p] = "lower"]
    BY <1>1 DEF RunN, Goto, thread
  <2>2. Begun /\ Begun' BY <1>0, <2>1, DpcBegun DEF Begun
  <2>3. pc[0] \in Past0
    <3>1. ~Before BY <2>1 DEF IInv, Phase
    <3>2. pc[0] \in DpcLabels \ {"count", "spin", "uncount"}
      BY <1>0 DEF IInv, Labels
    <3> QED BY <3>1, <3>2 DEF Before, DpcLabels, Past0
  <2>4. Stage = "functionN" /\ Stage' = "functionN"
    BY <1>0, <2>1, <2>2, <2>3, StageIs, StageIsNext
  <2>5. Ran' = Ran \cup {p} /\ p \notin Ran
    BY <1>0, <2>1, <2>4, RanIs, RanIsNext DEF PastN, Others
  <2> QED BY <2>4, <2>5 DEF Promise!FunctionN
<1>2. CASE Count(p) \/ Spin(p)
  <2>1. UNCHANGED caller /\ (Goto(p, "count", "spin") \/ Goto(p, "spin", "run"))
    BY <1>2 DEF Count, Spin, thread
  <2> QED BY <1>0, <2>1, QuietPromise DEF PastN
<1>3. CASE Uncount(p) \/ LeaveN(p)
  <2>1. UNCHANGED caller /\ (Goto(p, "uncount", "leave") \/ Goto(p, "leave", "exit"))
    BY <1>3 DEF Uncount, LeaveN, LeaveTo, thread
  <2> QED BY <1>0, <2>1, QuietPromise DEF PastN
<1> QED BY <1>1, <1>2, <1>3 DEF CallFunctionN

\* XenPci_HighSync keeps its promise with any number of CPUs: function0 once, on CPU 0,
\* then functionN once on each of the others, and only then the call returns.
THEOREM Implementation == Spec => ImplementsCall
<1>1. Init => Promise!Init
  <2>1. ASSUME Init PROVE Stage = "idle" /\ Ran = {}
    BY <2>1, StageIs, RanIs DEF Init
  <2> QED BY <2>1 DEF Promise!Init
<1>2. IInv /\ [Next]_vars => [Promise!Next]_(Promise!cvars)
  <2> SUFFICES ASSUME IInv, [Next]_vars
               PROVE  Promise!Next \/ (Stage' = Stage /\ Ran' = Ran)
    BY DEF Promise!cvars
  <2>1. CASE UNCHANGED vars
    BY <2>1 DEF vars, thread, Stage, Ran, Begun
  <2>2. CASE Thread
    BY <2>2, ThreadPromise DEF Promise!Next
  <2>3. ASSUME NEW p \in Procs, Dpc(p)
        PROVE  Promise!Next \/ (Stage' = Stage /\ Ran' = Ran)
    BY <2>3, CommonPromise, Function0Promise, FunctionNPromise DEF Dpc, Promise!Next
  <2> QED BY <2>1, <2>2, <2>3 DEF Next
<1> QED BY <1>1, <1>2, Invariance, PTL DEF Spec, ImplementsCall, Promise!Spec
-----------------------------------------------------------------------------
(***************************************************************************)
(* The events of the block filter                                          *)
(***************************************************************************)
\* While somebody owes the flag its clearing, the flag is up, whatever failed.
OwedMeansUp == Event!Owners # {} => event_state # 0

EventDebt == Event!TypeOK /\ OwedMeansUp /\ Event!OneOutstanding

EventIInv == EventDebt /\ Event!NoLostEvent

(* How the steps move the debt *)

\* Who owes: a DPC instance about to send, a request that is not free.
LEMMA OwnersAre ==
  ASSUME NEW x
  PROVE  x \in Event!Owners <=> \/ \E d \in Dpcs : x = <<"dpc", d>> /\ dpc[d] = "send"
                          \/ \E q \in Requests : x = <<"request", q>> /\ req[q] # "free"
BY DEF Event!Owners

LEMMA OwnersAreNext ==
  ASSUME NEW x
  PROVE  x \in Event!Owners' <=> \/ \E d \in Dpcs : x = <<"dpc", d>> /\ dpc'[d] = "send"
                           \/ \E q \in Requests : x = <<"request", q>> /\ req'[q] # "free"
BY DEF Event!Owners

\* Who else owes when nobody owes but one.
LEMMA OnlyDpc ==
  ASSUME NEW d \in Dpcs, \A x \in Event!Owners : x = <<"dpc", d>>
  PROVE  /\ \A e \in Dpcs : e # d => dpc[e] # "send"
         /\ \A q \in Requests : req[q] = "free"
<1>1. \A e \in Dpcs : dpc[e] = "send" => <<"dpc", e>> \in Event!Owners
  BY OwnersAre
<1>2. \A q \in Requests : req[q] # "free" => <<"request", q>> \in Event!Owners
  BY OwnersAre
<1>3. \A e, q : /\ <<"dpc", e>> = <<"dpc", d>> => e = d
                /\ <<"request", q>> # <<"dpc", d>>
  OBVIOUS
<1> QED BY <1>1, <1>2, <1>3

LEMMA OnlyRequest ==
  ASSUME NEW r \in Requests, \A x \in Event!Owners : x = <<"request", r>>
  PROVE  /\ \A d \in Dpcs : dpc[d] # "send"
         /\ \A q \in Requests : q # r => req[q] = "free"
<1>1. \A d \in Dpcs : dpc[d] = "send" => <<"dpc", d>> \in Event!Owners
  BY OwnersAre
<1>2. \A q \in Requests : req[q] # "free" => <<"request", q>> \in Event!Owners
  BY OwnersAre
<1>3. \A d, q : /\ <<"request", q>> = <<"request", r>> => q = r
                /\ <<"dpc", d>> # <<"request", r>>
  OBVIOUS
<1> QED BY <1>1, <1>2, <1>3

\* A debt of one, behind a flag that is up, keeps the invariant.
LEMMA OneDebt ==
  ASSUME NEW o, Event!Owners' = {o}, event_state' # 0
  PROVE  OwedMeansUp' /\ Event!OneOutstanding'
<1>1. \A a, b \in Event!Owners' : a = b
  OBVIOUS
<1>2. Event!Owners' # {}
  OBVIOUS
<1> QED BY <1>1, <1>2 DEF OwedMeansUp, Event!OneOutstanding

\* A step of a DPC between labels other than "send" leaves the debt where it is.
LEMMA DpcKeepsOwners ==
  ASSUME Event!TypeOK, NEW d \in Dpcs, NEW from \in Event!DpcLabels, NEW to \in Event!DpcLabels,
         Event!DpcStep(d, from, to), from # "send", to # "send", UNCHANGED req
  PROVE  Event!Owners' = Event!Owners
BY DEF Event!Owners, Event!DpcStep, Event!TypeOK

\* A completing request owes until it is free.
LEMMA ReqKeepsOwners ==
  ASSUME Event!TypeOK, NEW q \in Requests, NEW to \in Event!ReqLabels,
         req[q] # "free", to # "free", req' = [req EXCEPT ![q] = to], UNCHANGED dpc
  PROVE  Event!Owners' = Event!Owners
BY DEF Event!Owners, Event!TypeOK

\* When at most one owes, the only one is gone once it is paid.
LEMMA ReqFreed ==
  ASSUME EventDebt, NEW q \in Requests, req[q] # "free",
         req' = [req EXCEPT ![q] = "free"], UNCHANGED dpc
  PROVE  Event!Owners' = {}
<1>1. <<"request", q>> \in Event!Owners
  BY OwnersAre
<1>2. ASSUME NEW x \in Event!Owners'
      PROVE  FALSE
  <2>1. x \in Event!Owners /\ x # <<"request", q>>
    BY <1>2, OwnersAre, OwnersAreNext DEF EventDebt, Event!TypeOK
  <2> QED BY <1>1, <2>1 DEF EventDebt, Event!OneOutstanding
<1> QED BY <1>2

\* Sending a request when nobody else owes leaves exactly that request.
LEMMA SendMovesDebt ==
  ASSUME EventDebt, NEW o \in Event!Owners, NEW rq \in [Requests -> Event!ReqLabels],
         Event!SendEvent(rq),
         dpc' \in [Dpcs -> Event!DpcLabels],
         \A d \in Dpcs : dpc'[d] # "send",
         \A q \in Requests : rq[q] = "free"
  PROVE  /\ req' \in [Requests -> Event!ReqLabels] /\ failures' \in Nat
         /\ \/ failures' = failures /\ \E q \in Requests : Event!Owners' = {<<"request", q>>}
                   /\ req'[q] = "sent"
            \/ failures' = failures + 1 /\ Event!Owners' = {}
<1>1. CASE failures < MaxFailures /\ failures' = failures + 1 /\ req' = rq
  <2>1. Event!Owners' = {}
    BY <1>1, OwnersAreNext
  <2> QED BY <1>1, <2>1 DEF EventDebt, Event!TypeOK
<1>2. ASSUME NEW q \in Requests, rq[q] = "free", req' = [rq EXCEPT ![q] = "sent"],
             UNCHANGED failures
      PROVE  /\ req' \in [Requests -> Event!ReqLabels] /\ failures' \in Nat
             /\ Event!Owners' = {<<"request", q>>} /\ req'[q] = "sent" /\ failures' = failures
  <2>1. req' \in [Requests -> Event!ReqLabels] /\ req'[q] = "sent"
    BY <1>2 DEF Event!ReqLabels
  <2>2. Event!Owners' = {<<"request", q>>}
    BY <1>2, <2>1, OwnersAreNext
  <2> QED BY <1>2, <2>1, <2>2 DEF EventDebt, Event!TypeOK
<1> QED BY <1>1, <1>2 DEF Event!SendEvent

(* The invariant *)

LEMMA EventInit == Event!Init => EventIInv
<1> SUFFICES ASSUME Event!Init PROVE EventIInv
  OBVIOUS
<1>1. Event!Owners = {}
  BY DEF Event!Init, Event!Owners
<1>2. Event!TypeOK
  <2>1. "idle" \in Event!DpcLabels /\ "free" \in Event!ReqLabels
    BY DEF Event!DpcLabels, Event!ReqLabels
  <2>2. event_state \in 0 .. 2 /\ failures \in Nat
    BY DEF Event!Init
  <2>3. dpc \in [Dpcs -> Event!DpcLabels] /\ req \in [Requests -> Event!ReqLabels]
    BY <2>1 DEF Event!Init
  <2>4. dpcqueued \in BOOLEAN /\ unseen \in BOOLEAN
    BY DEF Event!Init
  <2> QED BY <2>2, <2>3, <2>4 DEF Event!TypeOK
<1> QED BY <1>1, <1>2 DEF Event!Init, EventIInv, EventDebt, OwedMeansUp, Event!OneOutstanding,
           Event!NoLostEvent

\* The debt and the flag: every step keeps EventDebt.
LEMMA DebtStep == EventDebt /\ [Event!Next]_(Event!vars) => EventDebt'
<1> SUFFICES ASSUME EventDebt, [Event!Next]_(Event!vars) PROVE EventDebt'
  OBVIOUS
<1>1. CASE Event!HandleEventDIRQL
  BY <1>1 DEF Event!HandleEventDIRQL, EventDebt, Event!TypeOK, OwedMeansUp, Event!OneOutstanding,
     Event!Owners
<1>2. ASSUME NEW d \in Dpcs, Event!DpcStart(d) PROVE EventDebt'
  <2>1. Event!Owners' = Event!Owners
    BY <1>2, DpcKeepsOwners DEF Event!DpcStart, EventDebt, Event!DpcLabels
  <2>2. Event!TypeOK'
    BY <1>2 DEF Event!DpcStart, Event!DpcStep, EventDebt, Event!TypeOK, Event!DpcLabels
  <2> QED BY <1>2, <2>1, <2>2 DEF Event!DpcStart, EventDebt, OwedMeansUp, Event!OneOutstanding
<1>3. ASSUME NEW d \in Dpcs, Event!Cas01(d) PROVE EventDebt'
  <2>1. Event!TypeOK'
    BY <1>3 DEF Event!Cas01, Event!Cas, Event!DpcStep, EventDebt, Event!TypeOK, Event!DpcLabels
  <2>2. CASE event_state # 0
    <3>1. Event!Owners' = Event!Owners
      BY <1>3, <2>2, DpcKeepsOwners DEF Event!Cas01, Event!Cas, EventDebt, Event!DpcLabels
    <3> QED BY <1>3, <2>1, <2>2, <3>1 DEF Event!Cas01, Event!Cas, EventDebt, OwedMeansUp,
               Event!OneOutstanding
  <2>3. CASE event_state = 0
    <3>1. event_state' = 1 /\ dpc' = [dpc EXCEPT ![d] = "send"] /\ UNCHANGED <<req, failures>>
      BY <1>3, <2>3 DEF Event!Cas01, Event!Cas, Event!DpcStep
    <3>2. Event!Owners = {}
      BY <2>3 DEF EventDebt, OwedMeansUp
    <3>3. Event!Owners' = {<<"dpc", d>>}
      BY <3>1, <3>2, OwnersAre, OwnersAreNext DEF EventDebt, Event!TypeOK
    <3>4. event_state' # 0
      BY <3>1
    <3>5. OwedMeansUp' /\ Event!OneOutstanding'
      BY <3>3, <3>4, OneDebt
    <3> QED BY <2>1, <3>5 DEF EventDebt
  <2> QED BY <2>2, <2>3
<1>4. ASSUME NEW d \in Dpcs, Event!Cas12(d) PROVE EventDebt'
  <2>1. Event!Owners' = Event!Owners
    BY <1>4, DpcKeepsOwners DEF Event!Cas12, EventDebt, Event!DpcLabels
  <2>2. Event!TypeOK'
    BY <1>4 DEF Event!Cas12, Event!Cas, Event!DpcStep, EventDebt, Event!TypeOK, Event!DpcLabels
  <2> QED BY <1>4, <2>1, <2>2 DEF Event!Cas12, Event!Cas, EventDebt, OwedMeansUp,
             Event!OneOutstanding
<1>5. ASSUME NEW d \in Dpcs, Event!DpcSend(d) PROVE EventDebt'
  <2>1. <<"dpc", d>> \in Event!Owners /\ \A x \in Event!Owners : x = <<"dpc", d>>
    BY <1>5, OwnersAre DEF Event!DpcSend, Event!DpcStep, EventDebt, Event!OneOutstanding
  <2>2. /\ dpc' \in [Dpcs -> Event!DpcLabels] /\ \A e \in Dpcs : dpc'[e] # "send"
        /\ \A q \in Requests : req[q] = "free"
    BY <1>5, <2>1, OnlyDpc DEF Event!DpcSend, Event!DpcStep, EventDebt, Event!TypeOK,
       Event!DpcLabels
  <2>3. /\ req' \in [Requests -> Event!ReqLabels] /\ failures' \in Nat
        /\ \/ failures' = failures /\ \E q \in Requests : Event!Owners' = {<<"request", q>>}
                  /\ req'[q] = "sent"
           \/ failures' = failures + 1 /\ Event!Owners' = {}
    BY <1>5, <2>1, <2>2, SendMovesDebt DEF Event!DpcSend, EventDebt, Event!TypeOK
  <2>4. event_state # 0 /\ UNCHANGED <<event_state, dpcqueued, unseen>>
    BY <1>5, <2>1 DEF Event!DpcSend, EventDebt, OwedMeansUp
  <2>5. Event!TypeOK'
    BY <2>2, <2>3, <2>4 DEF EventDebt, Event!TypeOK
  <2>6. OwedMeansUp' /\ Event!OneOutstanding'
    <3>1. ASSUME NEW q \in Requests, Event!Owners' = {<<"request", q>>}
          PROVE  OwedMeansUp' /\ Event!OneOutstanding'
      BY <2>4, <3>1, OneDebt
    <3>2. ASSUME failures' = failures + 1, Event!Owners' = {}
          PROVE  OwedMeansUp' /\ Event!OneOutstanding'
      BY <2>4, <3>2 DEF EventDebt, Event!TypeOK, OwedMeansUp, Event!OneOutstanding
    <3> QED BY <2>3, <3>1, <3>2
  <2> QED BY <2>5, <2>6 DEF EventDebt
<1>6. ASSUME NEW q \in Requests, Event!Handle(q) PROVE EventDebt'
  <2>1. Event!Owners' = Event!Owners
    BY <1>6, ReqKeepsOwners DEF Event!Handle, EventDebt, Event!ReqLabels
  <2>2. Event!TypeOK'
    BY <1>6 DEF Event!Handle, EventDebt, Event!TypeOK, Event!ReqLabels
  <2> QED BY <1>6, <2>1, <2>2 DEF Event!Handle, EventDebt, OwedMeansUp, Event!OneOutstanding
<1>7. ASSUME NEW q \in Requests, Event!Cas10(q) PROVE EventDebt'
  <2>1. Event!TypeOK'
    BY <1>7 DEF Event!Cas10, Event!Cas, EventDebt, Event!TypeOK, Event!ReqLabels
  <2>2. CASE event_state = 1
    <3>1. req[q] # "free" /\ event_state' = 0 /\ req' = [req EXCEPT ![q] = "free"]
          /\ UNCHANGED <<dpc, failures>>
      BY <1>7, <2>2 DEF Event!Cas10, Event!Cas
    <3>2. Event!Owners' = {}
      BY <3>1, ReqFreed
    <3> QED BY <2>1, <3>1, <3>2 DEF EventDebt, OwedMeansUp, Event!OneOutstanding
  <2>3. CASE event_state # 1
    <3>1. Event!Owners' = Event!Owners
      BY <1>7, <2>3, ReqKeepsOwners DEF Event!Cas10, Event!Cas, EventDebt, Event!ReqLabels
    <3> QED BY <1>7, <2>1, <2>3, <3>1 DEF Event!Cas10, Event!Cas, EventDebt, OwedMeansUp,
               Event!OneOutstanding
  <2> QED BY <2>2, <2>3
<1>8. ASSUME NEW q \in Requests, Event!Cas21(q) PROVE EventDebt'
  <2>1. Event!Owners' = Event!Owners
    BY <1>8, ReqKeepsOwners DEF Event!Cas21, Event!Cas, EventDebt, Event!ReqLabels
  <2>2. Event!TypeOK'
    BY <1>8 DEF Event!Cas21, Event!Cas, EventDebt, Event!TypeOK, Event!ReqLabels
  <2> QED BY <1>8, <2>1, <2>2 DEF Event!Cas21, Event!Cas, EventDebt, OwedMeansUp,
             Event!OneOutstanding
<1>9. ASSUME NEW q \in Requests, Event!CompleteSend(q) PROVE EventDebt'
  <2>1. <<"request", q>> \in Event!Owners /\ \A x \in Event!Owners : x = <<"request", q>>
    BY <1>9, OwnersAre DEF Event!CompleteSend, EventDebt, Event!OneOutstanding
  <2> DEFINE rq == [req EXCEPT ![q] = "free"]
  <2>2. /\ rq \in [Requests -> Event!ReqLabels]
        /\ \A r \in Requests : rq[r] = "free"
    BY <2>1, OnlyRequest DEF EventDebt, Event!TypeOK, Event!ReqLabels
  <2>3. dpc' \in [Dpcs -> Event!DpcLabels] /\ \A e \in Dpcs : dpc'[e] # "send"
    BY <1>9, <2>1, OnlyRequest DEF Event!CompleteSend, EventDebt, Event!TypeOK
  <2>4. Event!SendEvent(rq)
    BY <1>9 DEF Event!CompleteSend
  <2> HIDE DEF rq
  <2>5. /\ req' \in [Requests -> Event!ReqLabels] /\ failures' \in Nat
        /\ \/ failures' = failures /\ \E r \in Requests : Event!Owners' = {<<"request", r>>}
                  /\ req'[r] = "sent"
           \/ failures' = failures + 1 /\ Event!Owners' = {}
    BY <2>1, <2>2, <2>3, <2>4, SendMovesDebt
  <2>6. event_state # 0 /\ UNCHANGED <<event_state, dpcqueued, unseen>>
    BY <1>9, <2>1 DEF Event!CompleteSend, EventDebt, OwedMeansUp
  <2>7. Event!TypeOK'
    BY <2>3, <2>5, <2>6 DEF EventDebt, Event!TypeOK
  <2>8. OwedMeansUp' /\ Event!OneOutstanding'
    <3>1. ASSUME NEW r \in Requests, Event!Owners' = {<<"request", r>>}
          PROVE  OwedMeansUp' /\ Event!OneOutstanding'
      BY <2>6, <3>1, OneDebt
    <3>2. ASSUME failures' = failures + 1, Event!Owners' = {}
          PROVE  OwedMeansUp' /\ Event!OneOutstanding'
      BY <2>6, <3>2 DEF EventDebt, Event!TypeOK, OwedMeansUp, Event!OneOutstanding
    <3> QED BY <2>5, <3>1, <3>2
  <2> QED BY <2>7, <2>8 DEF EventDebt
<1>10. CASE UNCHANGED Event!vars
  BY <1>10 DEF Event!vars, EventDebt, Event!TypeOK, OwedMeansUp, Event!OneOutstanding, Event!Owners
<1> QED
  BY <1>1, <1>2, <1>3, <1>4, <1>5, <1>6, <1>7, <1>8, <1>9, <1>10
  DEF Event!Next, Event!EvtDpcEvent, Event!SendEventComplete

\* What stands for an unseen notification is passed on by every step.
LEMMA EventStep == EventDebt /\ Event!NoLostEvent /\ [Event!Next]_(Event!vars) => Event!NoLostEvent'
<1> SUFFICES ASSUME EventDebt, Event!NoLostEvent, [Event!Next]_(Event!vars), unseen', failures' = 0
             PROVE  \/ dpcqueued' \/ \E d \in Dpcs : dpc'[d] # "idle"
                    \/ event_state' = 2
                    \/ \E q \in Requests : req'[q] \in {"sent", "send"}
  BY DEF Event!NoLostEvent
<1> USE DEF EventDebt, Event!TypeOK
<1>1. CASE Event!HandleEventDIRQL
  BY <1>1 DEF Event!HandleEventDIRQL
<1>2. ASSUME NEW d \in Dpcs, Event!DpcStart(d) PROVE \E e \in Dpcs : dpc'[e] # "idle"
  BY <1>2 DEF Event!DpcStart, Event!DpcStep
<1>3. ASSUME NEW d \in Dpcs, Event!Cas01(d) PROVE \E e \in Dpcs : dpc'[e] # "idle"
  BY <1>3 DEF Event!Cas01, Event!DpcStep
<1>4. ASSUME NEW d \in Dpcs, Event!Cas12(d)
      PROVE  event_state' = 2 \/ \E e \in Dpcs : dpc'[e] # "idle"
  BY <1>4 DEF Event!Cas12, Event!Cas, Event!DpcStep
<1>5. ASSUME NEW rq \in [Requests -> Event!ReqLabels], Event!SendEvent(rq)
      PROVE  \E q \in Requests : req'[q] \in {"sent", "send"}
  BY <1>5 DEF Event!SendEvent
<1>6. ASSUME NEW d \in Dpcs, Event!DpcSend(d)
      PROVE  \E q \in Requests : req'[q] \in {"sent", "send"}
  BY <1>5, <1>6 DEF Event!DpcSend
<1>7. ASSUME NEW q \in Requests, Event!CompleteSend(q)
      PROVE  \E r \in Requests : req'[r] \in {"sent", "send"}
  <2>1. [req EXCEPT ![q] = "free"] \in [Requests -> Event!ReqLabels]
    BY DEF Event!ReqLabels
  <2> QED BY <1>5, <1>7, <2>1 DEF Event!CompleteSend
<1>8. ASSUME NEW q \in Requests, Event!Handle(q) PROVE FALSE
  BY <1>8 DEF Event!Handle
<1>9. ASSUME NEW q \in Requests, Event!Cas10(q)
      PROVE  \/ dpcqueued' \/ \E d \in Dpcs : dpc'[d] # "idle"
             \/ event_state' = 2
             \/ \E r \in Requests : req'[r] \in {"sent", "send"}
  <2>1. /\ \/ dpcqueued \/ \E d \in Dpcs : dpc[d] # "idle"
           \/ event_state = 2
           \/ \E r \in Requests : req[r] \in {"sent", "send"}
        /\ req[q] = "cas10" /\ UNCHANGED <<dpcqueued, dpc>>
    BY <1>9 DEF Event!Cas10, Event!NoLostEvent
  <2>2. ASSUME NEW r \in Requests, req[r] \in {"sent", "send"}
        PROVE  req'[r] \in {"sent", "send"}
    BY <1>9, <2>1, <2>2 DEF Event!Cas10
  <2>3. event_state = 2 => event_state' = 2
    BY <1>9 DEF Event!Cas10, Event!Cas
  <2> QED BY <2>1, <2>2, <2>3
<1>10. ASSUME NEW q \in Requests, Event!Cas21(q)
       PROVE  \/ dpcqueued' \/ \E d \in Dpcs : dpc'[d] # "idle"
              \/ event_state' = 2
              \/ \E r \in Requests : req'[r] \in {"sent", "send"}
  <2>1. /\ \/ dpcqueued \/ \E d \in Dpcs : dpc[d] # "idle"
           \/ event_state = 2
           \/ \E r \in Requests : req[r] \in {"sent", "send"}
        /\ req[q] = "cas21" /\ UNCHANGED <<dpcqueued, dpc>>
    BY <1>10 DEF Event!Cas21, Event!NoLostEvent
  <2>2. ASSUME NEW r \in Requests, req[r] \in {"sent", "send"}
        PROVE  req'[r] \in {"sent", "send"}
    BY <1>10, <2>1, <2>2 DEF Event!Cas21
  <2>3. event_state = 2 => req'[q] = "send"
    BY <1>10 DEF Event!Cas21, Event!Cas
  <2> QED BY <2>1, <2>2, <2>3
<1>11. CASE UNCHANGED Event!vars
  BY <1>11 DEF Event!vars, Event!NoLostEvent
<1> QED
  BY <1>1, <1>2, <1>3, <1>4, <1>6, <1>7, <1>8, <1>9, <1>10, <1>11
  DEF Event!Next, Event!EvtDpcEvent, Event!SendEventComplete

\* The inductive invariant holds in every reachable state.
THEOREM EventInvariance == Event!Spec => []EventIInv
<1>1. EventIInv /\ [Event!Next]_(Event!vars) => EventIInv'
  BY DebtStep, EventStep DEF EventIInv
<1> QED BY EventInit, <1>1, PTL DEF Event!Spec

\* event_state stays within 0 .. 2 and every routine at one of its steps, for
\* any number of DPC instances and requests.
THEOREM EventTypeCorrect == Event!Spec => []Event!TypeOK
<1>1. EventIInv => Event!TypeOK
  BY DEF EventIInv, EventDebt
<1> QED BY EventInvariance, <1>1, PTL

\* XenVbd_SendEvent never has two EVENT requests outstanding: the three
\* InterlockedCompareExchange pairs hand one debt around.
THEOREM SingleRequest == Event!Spec => []Event!OneOutstanding
<1>1. EventIInv => Event!OneOutstanding
  BY DEF EventIInv, EventDebt
<1> QED BY EventInvariance, <1>1, PTL

\* A notification that came while a request was outstanding is not forgotten,
\* however the DPC and the completion routine interleave.
THEOREM NotificationKept == Event!Spec => []Event!NoLostEvent
<1>1. EventIInv => Event!NoLostEvent
  BY DEF EventIInv
<1> QED BY EventInvariance, <1>1, PTL

\* Both halves of what event_state is for, together.
THEOREM EventsKept == Event!Spec => []EventsSound
BY SingleRequest, NotificationKept, PTL DEF EventsSound, Event!EventsSound
-----------------------------------------------------------------------------
(***************************************************************************)
(* The lock-free stack                                                     *)
(***************************************************************************)
Pointers == [ptr : Stack!Elements, ctr : Nat \ {0}]
Ptrs(P) == {P[n].ptr : n \in 1 .. Len(P)}
Ctrs(P) == {P[n].ctr : n \in 1 .. Len(P)}

\* P is the list of pairs from first on, which the links join.
List(P, first, link, limit) ==
  /\ P \in Seq(Pointers)
  /\ first = IF Len(P) = 0 THEN Stack!NoPair ELSE P[1]
  /\ \A n \in 1 .. Len(P) : link[P[n].ptr] = IF n = Len(P) THEN Stack!NoPair ELSE P[n + 1]
  /\ \A n, j \in 1 .. Len(P) : n # j => P[n].ptr # P[j].ptr /\ P[n].ctr # P[j].ctr
  /\ \A n \in 1 .. Len(P) : P[n].ctr <= limit

Popping   == {"popPtr", "popNextCtr", "popNextPtr", "popCas"}
Giving    == {"give", "giveLink", "giveCas"}
Returning == {"giveLink", "giveCas"}
Taking    == {"takePtr", "takeNextCtr", "takeNextPtr", "takeCas"}
Linking   == {"pushLink", "pushCas"}
Filling   == {"init", "pushLink", "pushCas"}
Holding   == Giving \cup Filling
Carrying  == Giving \cup Taking \cup Filling

Lists(P, Q) == List(P, top, next, aba) /\ List(Q, fsTop, fsNext, fsAba)

Hands(P, Q) ==
  /\ \A t \in Threads : th[t].pc \in Holding
         => th[t].elem \in Stack!Elements \ (Ptrs(P) \cup Ptrs(Q))
  /\ \A t, u \in Threads : th[t].pc \in Holding /\ th[u].pc \in Holding /\ t # u
                             => th[t].elem # th[u].elem
  /\ Ptrs(P) \cap Ptrs(Q) = {}
  /\ \A e \in Stack!Elements : e \in Ptrs(P) \cup Ptrs(Q)
                           \/ \E t \in Threads : th[t].pc \in Holding /\ th[t].elem = e

\* The pairs about to be pushed have counters of their own, which no pop has read.
Fresh(L, pushing, popping, limit) ==
  /\ \A t \in Threads : th[t].pc \in pushing =>
        /\ th[t].exch.ptr = th[t].elem
        /\ th[t].exch.ctr \in 1 .. limit
        /\ th[t].exch.ctr \notin Ctrs(L)
  /\ \A t, u \in Threads : th[t].pc \in pushing /\ th[u].pc \in pushing /\ t # u
                             => th[t].exch.ctr # th[u].exch.ctr
  /\ \A t, u \in Threads : th[t].pc \in popping /\ th[u].pc \in pushing
                             => th[t].cmp.ctr # th[u].exch.ctr
  /\ \A t \in Threads : th[t].pc \in popping => th[t].cmp.ctr <= limit

In(L, pair) == \E n \in 1 .. Len(L) : L[n] = pair

\* What a pop has read of a link is still there, if the pair it compares is on the list.
Read(L, link, nextCtr, nextPtr, cas) ==
  \A t \in Threads :
    /\ th[t].pc \in {nextCtr, nextPtr, cas} => th[t].cmp.ptr \in Stack!Elements
    /\ th[t].pc \in {nextPtr, cas} /\ In(L, th[t].cmp) => th[t].exch.ctr = link[th[t].cmp.ptr].ctr
    /\ th[t].pc = cas /\ In(L, th[t].cmp) => th[t].exch.ptr = link[th[t].cmp.ptr].ptr

Links ==
  \A t \in Threads :
    /\ th[t].pc = "pushCas" => next[th[t].elem] = th[t].cmp
    /\ th[t].pc = "giveCas" => fsNext[th[t].elem] = th[t].cmp

\* A value is on the stack, or with one thread, or held by the callers.
ContentSound(P) ==
  /\ \A n \in 1 .. Len(P) : data[P[n].ptr] \in Values \ held
  /\ \A n, j \in 1 .. Len(P) : n # j => data[P[n].ptr] # data[P[j].ptr]
  /\ \A t \in Threads : th[t].pc \in Carrying =>
        /\ th[t].value \in Values \ held
        /\ \A n \in 1 .. Len(P) : data[P[n].ptr] # th[t].value
  /\ \A t, u \in Threads : th[t].pc \in Carrying /\ th[u].pc \in Carrying /\ t # u
                             => th[t].value # th[u].value
  /\ \A t \in Threads : th[t].pc \in Linking => data[th[t].elem] = th[t].value
  /\ \A t \in Threads : th[t].pc \in Popping \cup {"empty"} => th[t].value = NoValue
  /\ \A t \in Threads : th[t].pc = "idle" => th[t] = Stack!IdleThread

Shape(P, Q) ==
  /\ Lists(P, Q) /\ Hands(P, Q)
  /\ Fresh(P, Linking, Popping, aba) /\ Fresh(Q, Returning, Taking, fsAba)
  /\ Read(P, next, "popNextCtr", "popNextPtr", "popCas")
  /\ Read(Q, fsNext, "takeNextCtr", "takeNextPtr", "takeCas")
  /\ Links /\ ContentSound(P)

StackIInv == Stack!TypeOK /\ \E P, Q \in Seq(Pointers) : Shape(P, Q)
(* Lists *)

\* The instances see the standard modules under names of their own.
LEMMA SameCardinality ==
  ASSUME NEW S
  PROVE  /\ Stack!Cardinality(S) = Cardinality(S)
         /\ Stack!Abstract!Cardinality(S) = Cardinality(S)
         /\ Stack!IsFiniteSet(S) <=> IsFiniteSet(S)
BY DEF Stack!Cardinality, Stack!Abstract!Cardinality, Cardinality, Stack!IsFiniteSet, IsFiniteSet

LEMMA StackConstants ==
  /\ IsFiniteSet(Values) /\ NoValue \notin Values /\ NumElements \in Nat
  /\ Cardinality(Values) <= NumElements /\ MaxCalls \in Nat
BY MCSyncAssumption, SameCardinality DEF Stack!LfStackAssumption

LEMMA ElementsAreNumbers == Stack!Elements \subseteq Nat /\ Stack!NULL \notin Stack!Elements
BY StackConstants DEF Stack!Elements, Stack!NULL

LEMMA ListTop ==
  ASSUME NEW P, NEW first, NEW link, NEW limit, List(P, first, link, limit)
  PROVE  /\ first.ptr = Stack!NULL <=> Len(P) = 0
         /\ Len(P) \in Nat
         /\ \A n \in 1 .. Len(P) : P[n] \in Pointers
         /\ first.ptr # Stack!NULL => /\ 1 \in 1 .. Len(P) /\ first = P[1] /\ first.ptr \in Ptrs(P)
                                /\ In(P, first)
         /\ first.ptr = Stack!NULL => first = Stack!NoPair
<1>1. Len(P) \in Nat /\ \A n \in 1 .. Len(P) : P[n] \in Pointers
  BY DEF List
<1>2. Len(P) # 0 => 1 \in 1 .. Len(P)
  BY <1>1
<1>3. \A x \in Pointers : x.ptr # Stack!NULL
  <2>1. \A x \in Pointers : x.ptr \in Stack!Elements
    BY DEF Pointers
  <2> QED BY <2>1, ElementsAreNumbers
<1> QED BY <1>1, <1>2, <1>3 DEF List, Stack!NoPair, Stack!Pair, Ptrs, In

\* Nothing is changed in the links of the elements of the list.
LEMMA ListSame ==
  ASSUME NEW P, NEW first, NEW link, NEW limit \in Nat, List(P, first, link, limit),
         NEW link2, NEW limit2 \in Nat, limit <= limit2,
         \A e \in Ptrs(P) : link2[e] = link[e]
  PROVE  List(P, first, link2, limit2)
<1>1. \A n \in 1 .. Len(P) : P[n].ctr \in Nat /\ P[n].ctr <= limit
  <2>1. \A x \in Pointers : x.ctr \in Nat
    BY DEF Pointers
  <2> QED BY <2>1, ListTop DEF List
<1>2. \A n \in 1 .. Len(P) : P[n].ctr <= limit2
  BY <1>1
<1>3. \A n \in 1 .. Len(P) : link2[P[n].ptr] = link[P[n].ptr]
  BY DEF Ptrs
<1> QED BY <1>2, <1>3 DEF List

LEMMA ListPush ==
  ASSUME NEW P, NEW first, NEW link, NEW limit \in Nat, List(P, first, link, limit),
         NEW x \in Pointers, x.ptr \notin Ptrs(P), x.ctr \notin Ctrs(P), x.ctr <= limit,
         link[x.ptr] = first
  PROVE  LET R == <<x>> \o P
         IN  /\ List(R, x, link, limit)
             /\ Ptrs(R) = {x.ptr} \cup Ptrs(P)
             /\ Ctrs(R) = {x.ctr} \cup Ctrs(P)
             /\ Len(R) = Len(P) + 1 /\ R[1] = x
             /\ \A k \in 2 .. Len(R) : R[k] = P[k - 1]
             /\ \A pair : In(R, pair) <=> pair = x \/ In(P, pair)
<1> DEFINE R == <<x>> \o P
<1>1. P \in Seq(Pointers) /\ <<x>> \in Seq(Pointers) /\ Len(P) \in Nat
  BY DEF List
<1>2. R \in Seq(Pointers) /\ Len(R) = Len(P) + 1 /\ R[1] = x
      /\ \A k \in 2 .. Len(R) : R[k] = P[k - 1]
  BY <1>1
<1> HIDE DEF R
<1>3. \A k \in 1 .. Len(R) : k = 1 \/ (k \in 2 .. Len(R) /\ k - 1 \in 1 .. Len(P))
  BY <1>1, <1>2
<1>3a. \A k \in 1 .. Len(P) : k + 1 \in 1 .. Len(R) /\ R[k + 1] = P[k]
  BY <1>1, <1>2
<1>3b. 1 \in 1 .. Len(R)
  BY <1>1, <1>2
<1>4. Ptrs(R) = {x.ptr} \cup Ptrs(P)
  <2>1. Ptrs(R) \subseteq {x.ptr} \cup Ptrs(P)
    BY <1>2, <1>3 DEF Ptrs
  <2>2. \A e \in Ptrs(P) : e \in Ptrs(R)
    BY <1>3a DEF Ptrs
  <2>3. x.ptr \in Ptrs(R)
    BY <1>2, <1>3b DEF Ptrs
  <2> QED BY <2>1, <2>2, <2>3
<1>5. Ctrs(R) = {x.ctr} \cup Ctrs(P)
  <2>1. Ctrs(R) \subseteq {x.ctr} \cup Ctrs(P)
    BY <1>2, <1>3 DEF Ctrs
  <2>2. \A e \in Ctrs(P) : e \in Ctrs(R)
    BY <1>3a DEF Ctrs
  <2>3. x.ctr \in Ctrs(R)
    BY <1>2, <1>3b DEF Ctrs
  <2> QED BY <2>1, <2>2, <2>3
<1>6. \A pair : In(R, pair) <=> pair = x \/ In(P, pair)
  <2>1. ASSUME NEW pair, In(R, pair)  PROVE pair = x \/ In(P, pair)
    <3>1. PICK k \in 1 .. Len(R) : R[k] = pair
      BY <2>1 DEF In
    <3>2. k = 1 \/ (k - 1 \in 1 .. Len(P) /\ P[k - 1] = pair)
      BY <3>1, <1>2, <1>3
    <3> QED BY <3>1, <3>2, <1>2 DEF In
  <2>2. ASSUME NEW pair, In(P, pair)  PROVE In(R, pair)
    BY <2>2, <1>3a DEF In
  <2>3. In(R, x)
    BY <1>2, <1>3b DEF In
  <2> QED BY <2>1, <2>2, <2>3
<1>7. List(R, x, link, limit)
  <2>1. x = IF Len(R) = 0 THEN Stack!NoPair ELSE R[1]
    BY <1>1, <1>2
  <2>2. ASSUME NEW k \in 1 .. Len(R)
        PROVE  link[R[k].ptr] = IF k = Len(R) THEN Stack!NoPair ELSE R[k + 1]
    <3>1. CASE k = 1
      <4>1. link[R[k].ptr] = first
        BY <3>1, <1>2
      <4>2. k = Len(R) <=> Len(P) = 0
        BY <3>1, <1>1, <1>2
      <4>3. Len(P) # 0 => R[k + 1] = P[1]
        BY <3>1, <1>1, <1>3a
      <4> QED BY <4>1, <4>2, <4>3 DEF List
    <3>2. CASE k # 1
      <4>1. PICK j \in 1 .. Len(P) : j = k - 1
        BY <3>2, <1>3
      <4>2. R[k] = P[j] /\ (k = Len(R) <=> j = Len(P))
        BY <4>1, <1>1, <1>2, <1>3a
      <4>3. P[j].ptr \in Ptrs(P)
        BY DEF Ptrs
      <4>4. link[R[k].ptr] = IF j = Len(P) THEN Stack!NoPair ELSE P[j + 1]
        BY <4>2, <4>3 DEF List
      <4>5. j # Len(P) => R[k + 1] = P[j + 1]
        BY <4>1, <1>1, <1>2
      <4> QED BY <4>2, <4>4, <4>5
    <3> QED BY <3>1, <3>2
  <2>3. ASSUME NEW k \in 1 .. Len(R), NEW j \in 1 .. Len(R), k # j
        PROVE  R[k].ptr # R[j].ptr /\ R[k].ctr # R[j].ctr
    <3>1. \A l \in 1 .. Len(P) : P[l].ptr # x.ptr /\ P[l].ctr # x.ctr
      BY DEF Ptrs, Ctrs
    <3>2. CASE k = 1
      <4>1. j - 1 \in 1 .. Len(P) /\ R[j] = P[j - 1]
        BY <3>2, <2>3, <1>2, <1>3
      <4> QED BY <3>1, <3>2, <4>1, <1>2
    <3>3. CASE j = 1
      <4>1. k - 1 \in 1 .. Len(P) /\ R[k] = P[k - 1]
        BY <3>3, <2>3, <1>2, <1>3
      <4> QED BY <3>1, <3>3, <4>1, <1>2
    <3>4. CASE k # 1 /\ j # 1
      <4>1. k - 1 \in 1 .. Len(P) /\ j - 1 \in 1 .. Len(P)
        BY <3>4, <1>3
      <4>2. R[k] = P[k - 1] /\ R[j] = P[j - 1]
        BY <3>4, <1>2, <1>3
      <4>3. k - 1 # j - 1
        BY <2>3, <1>1, <1>2
      <4> QED BY <4>1, <4>2, <4>3 DEF List
    <3> QED BY <3>2, <3>3, <3>4
  <2>4. \A k \in 1 .. Len(R) : R[k].ctr <= limit
    BY <1>2, <1>3 DEF List
  <2> QED BY <1>2, <2>1, <2>2, <2>3, <2>4 DEF List
<1> QED BY <1>2, <1>4, <1>5, <1>6, <1>7 DEF R

LEMMA ListPop ==
  ASSUME NEW P, NEW first, NEW link, NEW limit \in Nat, List(P, first, link, limit),
         first.ptr # Stack!NULL
  PROVE  LET R == Tail(P)
         IN  /\ List(R, link[first.ptr], link, limit)
             /\ Ptrs(P) = {first.ptr} \cup Ptrs(R) /\ first.ptr \notin Ptrs(R)
             /\ Ctrs(R) \subseteq Ctrs(P)
             /\ Len(R) = Len(P) - 1 /\ P[1] = first
             /\ \A k \in 1 .. Len(R) : R[k] = P[k + 1] /\ k + 1 \in 1 .. Len(P)
             /\ \A pair : In(R, pair) => In(P, pair) /\ pair # first
<1> DEFINE R == Tail(P)
<1>1. P \in Seq(Pointers) /\ Len(P) \in Nat /\ Len(P) # 0 /\ P # << >> /\ P[1] = first
  BY ListTop DEF List
<1>2. R \in Seq(Pointers) /\ Len(R) = Len(P) - 1 /\ \A k \in 1 .. Len(R) : R[k] = P[k + 1]
  BY <1>1, HeadTailProperties
<1> HIDE DEF R
<1>3. \A k \in 1 .. Len(R) : k + 1 \in 1 .. Len(P) /\ k + 1 # 1
  BY <1>1, <1>2
<1>4. \A k \in 1 .. Len(P) : k = 1 \/ (k - 1 \in 1 .. Len(R) /\ R[k - 1] = P[k])
  BY <1>1, <1>2
<1>5. 1 \in 1 .. Len(P)
  BY <1>1
<1>6. \A k \in 1 .. Len(R) : R[k].ptr # first.ptr
  BY <1>1, <1>2, <1>3, <1>5 DEF List
<1>7. Ptrs(P) = {first.ptr} \cup Ptrs(R) /\ first.ptr \notin Ptrs(R)
  <2>1. \A e \in Ptrs(P) : e = first.ptr \/ e \in Ptrs(R)
    BY <1>1, <1>4 DEF Ptrs
  <2>2. \A e \in Ptrs(R) : e \in Ptrs(P)
    BY <1>2, <1>3 DEF Ptrs
  <2>3. first.ptr \in Ptrs(P) /\ first.ptr \notin Ptrs(R)
    BY <1>1, <1>5, <1>6 DEF Ptrs
  <2> QED BY <2>1, <2>2, <2>3
<1>8. Ctrs(R) \subseteq Ctrs(P)
  BY <1>2, <1>3 DEF Ctrs
<1>9. \A pair : In(R, pair) => In(P, pair) /\ pair # first
  BY <1>2, <1>3, <1>6 DEF In
<1>10. List(R, link[first.ptr], link, limit)
  <2>1. link[first.ptr] = IF Len(R) = 0 THEN Stack!NoPair ELSE R[1]
    <3>1. link[first.ptr] = IF 1 = Len(P) THEN Stack!NoPair ELSE P[2]
      <4>1. link[P[1].ptr] = IF 1 = Len(P) THEN Stack!NoPair ELSE P[1 + 1]
        BY <1>5 DEF List
      <4> QED BY <4>1, <1>1
    <3>2. Len(R) # 0 => R[1] = P[2]
      BY <1>1, <1>2
    <3> QED BY <3>1, <3>2, <1>1, <1>2
  <2>2. ASSUME NEW k \in 1 .. Len(R)
        PROVE  link[R[k].ptr] = IF k = Len(R) THEN Stack!NoPair ELSE R[k + 1]
    <3>1. link[R[k].ptr] = IF k + 1 = Len(P) THEN Stack!NoPair ELSE P[k + 2]
      <4>1. PICK j \in 1 .. Len(P) : j = k + 1
        BY <1>3
      <4>2. j + 1 = k + 2
        BY <4>1, <1>1, <1>2
      <4> QED BY <4>1, <4>2, <1>2 DEF List
    <3>2. k # Len(R) => R[k + 1] = P[k + 2]
      BY <1>1, <1>2
    <3> QED BY <3>1, <3>2, <1>1, <1>2
  <2>3. \A k, j \in 1 .. Len(R) : k # j => R[k].ptr # R[j].ptr /\ R[k].ctr # R[j].ctr
    <3> SUFFICES ASSUME NEW k \in 1 .. Len(R), NEW j \in 1 .. Len(R), k # j
                 PROVE  R[k].ptr # R[j].ptr /\ R[k].ctr # R[j].ctr
      OBVIOUS
    <3>1. k + 1 \in 1 .. Len(P) /\ j + 1 \in 1 .. Len(P) /\ k + 1 # j + 1
      BY <1>3, <1>1, <1>2
    <3> QED BY <3>1, <1>2 DEF List
  <2>4. \A k \in 1 .. Len(R) : R[k].ctr <= limit
    BY <1>2, <1>3 DEF List
  <2> QED BY <1>2, <2>1, <2>2, <2>3, <2>4 DEF List
<1> QED BY <1>1, <1>2, <1>3, <1>7, <1>8, <1>9, <1>10 DEF R

(* The steps that only change what thread t knows *)

OthersKeep(t) == \A u \in Threads : u # t => th'[u] = th[u]

\* The pair that a pop of the list L will compare, and what it has read of the link.
ReadOf(t, L, link, nextCtr, nextPtr, cas) ==
  /\ th[t].pc \in {nextCtr, nextPtr, cas} => th[t].cmp.ptr \in Stack!Elements
  /\ th[t].pc \in {nextPtr, cas} /\ In(L, th[t].cmp) => th[t].exch.ctr = link[th[t].cmp.ptr].ctr
  /\ th[t].pc = cas /\ In(L, th[t].cmp) => th[t].exch.ptr = link[th[t].cmp.ptr].ptr

OldCounter(t, pushing, popping, limit) ==
  th[t].pc \in popping =>
    /\ th[t].cmp.ctr <= limit
    /\ \A u \in Threads : th[u].pc \in pushing => th[t].cmp.ctr # th[u].exch.ctr

LEMMA QuietKeeps ==
  ASSUME NEW P, NEW Q, Shape(P, Q), NEW t \in Threads, OthersKeep(t),
         UNCHANGED <<top, next, data, aba, fsTop, fsNext, fsAba>>,
         th[t].pc \notin Holding, th'[t].pc \notin Holding, held' \subseteq held,
         OldCounter(t, Linking, Popping, aba)', OldCounter(t, Returning, Taking, fsAba)',
         ReadOf(t, P, next, "popNextCtr", "popNextPtr", "popCas")',
         ReadOf(t, Q, fsNext, "takeNextCtr", "takeNextPtr", "takeCas")',
         th'[t].pc \in Taking =>
           /\ th'[t].value \in Values \ held'
           /\ \A k \in 1 .. Len(P) : data[P[k].ptr] # th'[t].value
           /\ \A u \in Threads : u # t /\ th[u].pc \in Carrying => th[u].value # th'[t].value,
         th'[t].pc \in Popping \cup {"empty"} => th'[t].value = NoValue,
         th'[t].pc = "idle" => th'[t] = Stack!IdleThread
  PROVE  Shape(P, Q)'
<1>0. /\ Linking \subseteq Holding /\ Returning \subseteq Holding
      /\ Carrying = Holding \cup Taking
      /\ "pushCas" \in Holding /\ "giveCas" \in Holding
  BY DEF Linking, Returning, Holding, Carrying, Giving, Filling
<1>1. Lists(P, Q)'
  BY DEF Shape, Lists
<1>2. Hands(P, Q)'
  <2>1. \A u \in Threads : th'[u].pc \in Holding <=> th[u].pc \in Holding
    BY DEF OthersKeep
  <2>2. \A u \in Threads : th'[u].pc \in Holding => th'[u] = th[u]
    BY DEF OthersKeep
  <2> QED BY <2>1, <2>2 DEF Shape, Hands
<1>3. Fresh(P, Linking, Popping, aba)'
  <2>1. \A u \in Threads : th'[u].pc \in Linking => th'[u] = th[u] /\ u # t
    BY <1>0 DEF OthersKeep
  <2>2. \A u \in Threads : th'[u].pc \in Popping => u = t \/ th'[u] = th[u]
    BY DEF OthersKeep
  <2> QED BY <2>1, <2>2 DEF Shape, Fresh, OldCounter, OthersKeep
<1>4. Fresh(Q, Returning, Taking, fsAba)'
  <2>1. \A u \in Threads : th'[u].pc \in Returning => th'[u] = th[u] /\ u # t
    BY <1>0 DEF OthersKeep
  <2>2. \A u \in Threads : th'[u].pc \in Taking => u = t \/ th'[u] = th[u]
    BY DEF OthersKeep
  <2> QED BY <2>1, <2>2 DEF Shape, Fresh, OldCounter, OthersKeep
<1>5. Read(P, next, "popNextCtr", "popNextPtr", "popCas")'
      /\ Read(Q, fsNext, "takeNextCtr", "takeNextPtr", "takeCas")'
  BY DEF Shape, Read, ReadOf, OthersKeep
<1>6. Links'
  BY <1>0 DEF Shape, Links, OthersKeep
<1>7. ContentSound(P)'
  <2>1. \A u \in Threads : th'[u].pc \in Carrying
            => (u = t /\ th'[u].pc \in Taking) \/ (u # t /\ th'[u] = th[u])
    BY <1>0 DEF OthersKeep
  <2>2. \A u \in Threads : th'[u].pc \in Linking => th'[u] = th[u]
    BY <1>0 DEF OthersKeep
  <2>3. \A k \in 1 .. Len(P) : data[P[k].ptr] \in Values \ held'
    BY DEF Shape, ContentSound
  <2> QED BY <2>1, <2>2, <2>3 DEF Shape, ContentSound, OthersKeep
<1> QED BY <1>1, <1>2, <1>3, <1>4, <1>5, <1>6, <1>7 DEF Shape

\* The local variables have their types, those read from the lists too.
LEMMA LocalTypes ==
  ASSUME Stack!TypeOK, NEW t \in Threads
  PROVE  /\ th[t].value \in Values \cup {NoValue}
         /\ th[t].elem \in Stack!Elements \cup {Stack!NULL}
         /\ th[t].cmp \in [ptr : Stack!Elements \cup {Stack!NULL}, ctr : Nat]
         /\ th[t].exch \in [ptr : Stack!Elements \cup {Stack!NULL}, ctr : Nat]
         /\ th[t] \in Stack!Locals
BY DEF Stack!TypeOK, Stack!Locals

LEMMA TopTypes ==
  ASSUME Stack!TypeOK
  PROVE  /\ top.ptr # Stack!NULL => top.ptr \in Stack!Elements
         /\ fsTop.ptr # Stack!NULL => fsTop.ptr \in Stack!Elements
BY DEF Stack!TypeOK

\* A counter in a top has been used by a push that is over.
LEMMA OldTop ==
  ASSUME NEW L, NEW first, NEW link, NEW limit \in Nat, List(L, first, link, limit),
         NEW pushing, NEW popping, Fresh(L, pushing, popping, limit)
  PROVE  /\ first.ctr \in Nat /\ first.ctr <= limit
         /\ \A u \in Threads : th[u].pc \in pushing => first.ctr # th[u].exch.ctr
<1>1. CASE Len(L) = 0
  BY <1>1 DEF List, Stack!NoPair, Stack!Pair, Fresh
<1>2. CASE Len(L) # 0
  <2>1. 1 \in 1 .. Len(L) /\ first = L[1] /\ L[1] \in Pointers
    BY <1>2, ListTop DEF List
  <2>2. first.ctr \in Ctrs(L)
    BY <2>1 DEF Ctrs
  <2> QED BY <2>1, <2>2 DEF List, Fresh, Pointers
<1> QED BY <1>1, <1>2

LEMMA TopIsOld ==
  ASSUME Stack!TypeOK, NEW P, NEW Q, Shape(P, Q)
  PROVE  top.ctr <= aba /\ \A u \in Threads : th[u].pc \in Linking => top.ctr # th[u].exch.ctr
BY OldTop DEF Shape, Lists, Stack!TypeOK

LEMMA FsTopIsOld ==
  ASSUME Stack!TypeOK, NEW P, NEW Q, Shape(P, Q)
  PROVE  fsTop.ctr <= fsAba
         /\ \A u \in Threads : th[u].pc \in Returning => fsTop.ctr # th[u].exch.ctr
BY OldTop DEF Shape, Lists, Stack!TypeOK

LEMMA StartPopKeeps ==
  ASSUME Stack!TypeOK, NEW P, NEW Q, Shape(P, Q), NEW t \in Threads, Stack!StartPop(t)
  PROVE  Shape(P, Q)'
<1>1. OthersKeep(t)
  BY DEF Stack!StartPop, OthersKeep, Stack!TypeOK, Stack!Found
<1>2. /\ th[t].pc = "idle" /\ th'[t].pc = "popPtr" /\ th'[t].cmp.ctr = top.ctr
      /\ th'[t].value = th[t].value
  BY LocalTypes DEF Stack!StartPop, Stack!TypeOK, Stack!Locals, Stack!IdleThread, Stack!Found,
     Stack!PopTest
<1>3. UNCHANGED <<top, next, data, aba, fsTop, fsNext, fsAba>> /\ held' \subseteq held
  BY DEF Stack!StartPop
<1>4. th[t].pc \notin Holding /\ th'[t].pc \notin Holding
  BY <1>2 DEF Holding, Giving, Filling
<1>5. OldCounter(t, Linking, Popping, aba)'
  <2>1. th'[t].cmp.ctr = top.ctr
    BY <1>2
  <2>2. top.ctr <= aba /\ \A u \in Threads : th[u].pc \in Linking => top.ctr # th[u].exch.ctr
    BY TopIsOld
  <2>3. \A u \in Threads : th'[u].pc \in Linking => th'[u] = th[u]
    BY <1>1, <1>4 DEF OthersKeep, Holding, Linking, Filling
  <2> QED BY <2>1, <2>2, <2>3, <1>3 DEF OldCounter
<1>6. OldCounter(t, Returning, Taking, fsAba)'
  BY <1>2 DEF OldCounter, Taking
<1>7. ReadOf(t, P, next, "popNextCtr", "popNextPtr", "popCas")'
  BY <1>2 DEF ReadOf
<1>8. ReadOf(t, Q, fsNext, "takeNextCtr", "takeNextPtr", "takeCas")'
  BY <1>2 DEF ReadOf
<1>9. th'[t].pc \in Taking =>
        /\ th'[t].value \in Values \ held'
        /\ \A k \in 1 .. Len(P) : data[P[k].ptr] # th'[t].value
        /\ \A u \in Threads : u # t /\ th[u].pc \in Carrying => th[u].value # th'[t].value
  BY <1>2 DEF Taking
<1>10. th'[t].pc \in Popping \cup {"empty"} => th'[t].value = NoValue
  BY <1>2 DEF Shape, ContentSound, Stack!IdleThread
<1>11. th'[t].pc = "idle" => th'[t] = Stack!IdleThread
  BY <1>2
<1> QED BY <1>1, <1>2, <1>3, <1>4, <1>5, <1>6, <1>7, <1>8, <1>9, <1>10, <1>11, QuietKeeps
LEMMA PopReadPointerKeeps ==
  ASSUME Stack!TypeOK, NEW P, NEW Q, Shape(P, Q), NEW t \in Threads, Stack!PopReadPointer(t)
  PROVE  Shape(P, Q)'
<1>1. OthersKeep(t)
  BY DEF Stack!PopReadPointer, OthersKeep, Stack!TypeOK, Stack!Found
<1>2. /\ th[t].pc = "popPtr" /\ th'[t].pc \in {"empty", "popNextCtr"}
             /\ th'[t].cmp.ctr = th[t].cmp.ctr
      /\ th'[t].pc = "popNextCtr" => th'[t].cmp.ptr = top.ptr /\ top.ptr # Stack!NULL
      /\ th'[t].value = th[t].value
  BY LocalTypes DEF Stack!PopReadPointer, Stack!TypeOK, Stack!Locals, Stack!IdleThread,
     Stack!Found, Stack!PopTest
<1>3. UNCHANGED <<top, next, data, aba, fsTop, fsNext, fsAba>> /\ held' \subseteq held
  BY DEF Stack!PopReadPointer
<1>4. th[t].pc \notin Holding /\ th'[t].pc \notin Holding
  BY <1>2 DEF Holding, Giving, Filling
<1>5. OldCounter(t, Linking, Popping, aba)'
  BY <1>1, <1>2, <1>3, <1>4 DEF OldCounter, Shape, Fresh, Popping, Linking, OthersKeep, Holding,
     Filling
<1>6. OldCounter(t, Returning, Taking, fsAba)'
  BY <1>2 DEF OldCounter, Taking
<1>7. ReadOf(t, P, next, "popNextCtr", "popNextPtr", "popCas")'
  BY <1>2, TopTypes DEF ReadOf
<1>8. ReadOf(t, Q, fsNext, "takeNextCtr", "takeNextPtr", "takeCas")'
  BY <1>2 DEF ReadOf
<1>9. th'[t].pc \in Taking =>
        /\ th'[t].value \in Values \ held'
        /\ \A k \in 1 .. Len(P) : data[P[k].ptr] # th'[t].value
        /\ \A u \in Threads : u # t /\ th[u].pc \in Carrying => th[u].value # th'[t].value
  BY <1>2 DEF Taking
<1>10. th'[t].pc \in Popping \cup {"empty"} => th'[t].value = NoValue
  BY <1>2 DEF Shape, ContentSound, Popping
<1>11. th'[t].pc = "idle" => th'[t] = Stack!IdleThread
  BY <1>2
<1> QED BY <1>1, <1>2, <1>3, <1>4, <1>5, <1>6, <1>7, <1>8, <1>9, <1>10, <1>11, QuietKeeps
LEMMA PopReadNextCounterKeeps ==
  ASSUME Stack!TypeOK, NEW P, NEW Q, Shape(P, Q), NEW t \in Threads, Stack!PopReadNextCounter(t)
  PROVE  Shape(P, Q)'
<1>1. OthersKeep(t)
  BY DEF Stack!PopReadNextCounter, OthersKeep, Stack!TypeOK, Stack!Found
<1>2. /\ th[t].pc = "popNextCtr" /\ th'[t].pc = "popNextPtr" /\ th'[t].cmp = th[t].cmp
      /\ th'[t].exch.ctr = next[th[t].cmp.ptr].ctr /\ th'[t].value = th[t].value
  BY LocalTypes DEF Stack!PopReadNextCounter, Stack!TypeOK, Stack!Locals, Stack!IdleThread,
     Stack!Found, Stack!PopTest
<1>3. UNCHANGED <<top, next, data, aba, fsTop, fsNext, fsAba>> /\ held' \subseteq held
  BY DEF Stack!PopReadNextCounter
<1>4. th[t].pc \notin Holding /\ th'[t].pc \notin Holding
  BY <1>2 DEF Holding, Giving, Filling
<1>5. OldCounter(t, Linking, Popping, aba)'
  BY <1>1, <1>2, <1>3, <1>4 DEF OldCounter, Shape, Fresh, Popping, Linking, OthersKeep, Holding,
     Filling
<1>6. OldCounter(t, Returning, Taking, fsAba)'
  BY <1>2 DEF OldCounter, Taking
<1>7. ReadOf(t, P, next, "popNextCtr", "popNextPtr", "popCas")'
  BY <1>2, <1>3 DEF ReadOf, Shape, Read
<1>8. ReadOf(t, Q, fsNext, "takeNextCtr", "takeNextPtr", "takeCas")'
  BY <1>2 DEF ReadOf
<1>9. th'[t].pc \in Taking =>
        /\ th'[t].value \in Values \ held'
        /\ \A k \in 1 .. Len(P) : data[P[k].ptr] # th'[t].value
        /\ \A u \in Threads : u # t /\ th[u].pc \in Carrying => th[u].value # th'[t].value
  BY <1>2 DEF Taking
<1>10. th'[t].pc \in Popping \cup {"empty"} => th'[t].value = NoValue
  BY <1>2 DEF Shape, ContentSound, Popping
<1>11. th'[t].pc = "idle" => th'[t] = Stack!IdleThread
  BY <1>2
<1> QED BY <1>1, <1>2, <1>3, <1>4, <1>5, <1>6, <1>7, <1>8, <1>9, <1>10, <1>11, QuietKeeps
LEMMA PopReadNextPointerKeeps ==
  ASSUME Stack!TypeOK, NEW P, NEW Q, Shape(P, Q), NEW t \in Threads, Stack!PopReadNextPointer(t)
  PROVE  Shape(P, Q)'
<1>1. OthersKeep(t)
  BY DEF Stack!PopReadNextPointer, OthersKeep, Stack!TypeOK, Stack!Found
<1>2. /\ th[t].pc = "popNextPtr" /\ th'[t].pc = "popCas" /\ th'[t].cmp = th[t].cmp
      /\ th'[t].exch.ctr = th[t].exch.ctr /\ th'[t].exch.ptr = next[th[t].cmp.ptr].ptr
      /\ th'[t].value = th[t].value
  BY LocalTypes DEF Stack!PopReadNextPointer, Stack!TypeOK, Stack!Locals, Stack!IdleThread,
     Stack!Found, Stack!PopTest
<1>3. UNCHANGED <<top, next, data, aba, fsTop, fsNext, fsAba>> /\ held' \subseteq held
  BY DEF Stack!PopReadNextPointer
<1>4. th[t].pc \notin Holding /\ th'[t].pc \notin Holding
  BY <1>2 DEF Holding, Giving, Filling
<1>5. OldCounter(t, Linking, Popping, aba)'
  BY <1>1, <1>2, <1>3, <1>4 DEF OldCounter, Shape, Fresh, Popping, Linking, OthersKeep, Holding,
     Filling
<1>6. OldCounter(t, Returning, Taking, fsAba)'
  BY <1>2 DEF OldCounter, Taking
<1>7. ReadOf(t, P, next, "popNextCtr", "popNextPtr", "popCas")'
  BY <1>2, <1>3 DEF ReadOf, Shape, Read
<1>8. ReadOf(t, Q, fsNext, "takeNextCtr", "takeNextPtr", "takeCas")'
  BY <1>2 DEF ReadOf
<1>9. th'[t].pc \in Taking =>
        /\ th'[t].value \in Values \ held'
        /\ \A k \in 1 .. Len(P) : data[P[k].ptr] # th'[t].value
        /\ \A u \in Threads : u # t /\ th[u].pc \in Carrying => th[u].value # th'[t].value
  BY <1>2 DEF Taking
<1>10. th'[t].pc \in Popping \cup {"empty"} => th'[t].value = NoValue
  BY <1>2 DEF Shape, ContentSound, Popping
<1>11. th'[t].pc = "idle" => th'[t] = Stack!IdleThread
  BY <1>2
<1> QED BY <1>1, <1>2, <1>3, <1>4, <1>5, <1>6, <1>7, <1>8, <1>9, <1>10, <1>11, QuietKeeps
LEMMA PopCasFailsKeeps ==
  ASSUME Stack!TypeOK, NEW P, NEW Q, Shape(P, Q), NEW t \in Threads, Stack!PopCas(t),
         ~Stack!Same(top, th[t].cmp)
  PROVE  Shape(P, Q)'
<1>1. OthersKeep(t)
  BY DEF Stack!PopCas, OthersKeep, Stack!TypeOK, Stack!Found
<1>2. /\ th[t].pc = "popCas" /\ th'[t].pc \in {"empty", "popNextCtr"}
      /\ th'[t].pc = "popNextCtr" => top.ptr # Stack!NULL
      /\ th'[t].cmp = top /\ th'[t].value = th[t].value
  BY LocalTypes DEF Stack!PopCas, Stack!TypeOK, Stack!Locals, Stack!IdleThread, Stack!Found,
     Stack!PopTest
<1>3. UNCHANGED <<top, next, data, aba, fsTop, fsNext, fsAba>> /\ held' \subseteq held
  BY DEF Stack!PopCas
<1>4. th[t].pc \notin Holding /\ th'[t].pc \notin Holding
  BY <1>2 DEF Holding, Giving, Filling
<1>5. OldCounter(t, Linking, Popping, aba)'
  <2>1. th'[t].cmp.ctr = top.ctr
    BY <1>2
  <2>2. top.ctr <= aba /\ \A u \in Threads : th[u].pc \in Linking => top.ctr # th[u].exch.ctr
    BY TopIsOld
  <2>3. \A u \in Threads : th'[u].pc \in Linking => th'[u] = th[u]
    BY <1>1, <1>4 DEF OthersKeep, Holding, Linking, Filling
  <2> QED BY <2>1, <2>2, <2>3, <1>3 DEF OldCounter
<1>6. OldCounter(t, Returning, Taking, fsAba)'
  BY <1>2 DEF OldCounter, Taking
<1>7. ReadOf(t, P, next, "popNextCtr", "popNextPtr", "popCas")'
  BY <1>2, TopTypes DEF ReadOf
<1>8. ReadOf(t, Q, fsNext, "takeNextCtr", "takeNextPtr", "takeCas")'
  BY <1>2 DEF ReadOf
<1>9. th'[t].pc \in Taking =>
        /\ th'[t].value \in Values \ held'
        /\ \A k \in 1 .. Len(P) : data[P[k].ptr] # th'[t].value
        /\ \A u \in Threads : u # t /\ th[u].pc \in Carrying => th[u].value # th'[t].value
  BY <1>2 DEF Taking
<1>10. th'[t].pc \in Popping \cup {"empty"} => th'[t].value = NoValue
  BY <1>2 DEF Shape, ContentSound, Popping
<1>11. th'[t].pc = "idle" => th'[t] = Stack!IdleThread
  BY <1>2
<1> QED BY <1>1, <1>2, <1>3, <1>4, <1>5, <1>6, <1>7, <1>8, <1>9, <1>10, <1>11, QuietKeeps
LEMMA PopEmptyKeeps ==
  ASSUME Stack!TypeOK, NEW P, NEW Q, Shape(P, Q), NEW t \in Threads, Stack!PopEmpty(t)
  PROVE  Shape(P, Q)'
<1>1. OthersKeep(t)
  BY DEF Stack!PopEmpty, OthersKeep, Stack!TypeOK, Stack!Found
<1>2. /\ th[t].pc = "empty" /\ th'[t] = Stack!IdleThread /\ th'[t].pc = "idle"
  BY LocalTypes DEF Stack!PopEmpty, Stack!TypeOK, Stack!Locals, Stack!IdleThread, Stack!Found,
     Stack!PopTest
<1>3. UNCHANGED <<top, next, data, aba, fsTop, fsNext, fsAba>> /\ held' \subseteq held
  BY DEF Stack!PopEmpty
<1>4. th[t].pc \notin Holding /\ th'[t].pc \notin Holding
  BY <1>2 DEF Holding, Giving, Filling
<1>5. OldCounter(t, Linking, Popping, aba)'
  BY <1>2 DEF OldCounter, Popping
<1>6. OldCounter(t, Returning, Taking, fsAba)'
  BY <1>2 DEF OldCounter, Taking
<1>7. ReadOf(t, P, next, "popNextCtr", "popNextPtr", "popCas")'
  BY <1>2 DEF ReadOf
<1>8. ReadOf(t, Q, fsNext, "takeNextCtr", "takeNextPtr", "takeCas")'
  BY <1>2 DEF ReadOf
<1>9. th'[t].pc \in Taking =>
        /\ th'[t].value \in Values \ held'
        /\ \A k \in 1 .. Len(P) : data[P[k].ptr] # th'[t].value
        /\ \A u \in Threads : u # t /\ th[u].pc \in Carrying => th[u].value # th'[t].value
  BY <1>2 DEF Taking
<1>10. th'[t].pc \in Popping \cup {"empty"} => th'[t].value = NoValue
  BY <1>2 DEF Popping
<1>11. th'[t].pc = "idle" => th'[t] = Stack!IdleThread
  BY <1>2
<1> QED BY <1>1, <1>2, <1>3, <1>4, <1>5, <1>6, <1>7, <1>8, <1>9, <1>10, <1>11, QuietKeeps
LEMMA StartPushKeeps ==
  ASSUME Stack!TypeOK, NEW P, NEW Q, Shape(P, Q), NEW t \in Threads, NEW v \in Values,
         Stack!StartPush(t, v)
  PROVE  Shape(P, Q)'
<1>1. OthersKeep(t)
  BY DEF Stack!StartPush, OthersKeep, Stack!TypeOK, Stack!Found
<1>2. /\ th[t].pc = "idle" /\ th'[t].pc = "takePtr" /\ th'[t].cmp.ctr = fsTop.ctr
      /\ th'[t].value = v /\ v \in held /\ held' = held \ {v}
  BY LocalTypes DEF Stack!StartPush, Stack!TypeOK, Stack!Locals, Stack!IdleThread, Stack!Found,
     Stack!PopTest
<1>3. UNCHANGED <<top, next, data, aba, fsTop, fsNext, fsAba>> /\ held' \subseteq held
  BY DEF Stack!StartPush
<1>4. th[t].pc \notin Holding /\ th'[t].pc \notin Holding
  BY <1>2 DEF Holding, Giving, Filling
<1>5. OldCounter(t, Linking, Popping, aba)'
  BY <1>2 DEF OldCounter, Popping
<1>6. OldCounter(t, Returning, Taking, fsAba)'
  <2>1. th'[t].cmp.ctr = fsTop.ctr
    BY <1>2
  <2>2. fsTop.ctr <= fsAba /\ \A u \in Threads : th[u].pc \in Returning
            => fsTop.ctr # th[u].exch.ctr
    BY FsTopIsOld
  <2>3. \A u \in Threads : th'[u].pc \in Returning => th'[u] = th[u]
    BY <1>1, <1>4 DEF OthersKeep, Holding, Returning, Giving
  <2> QED BY <2>1, <2>2, <2>3, <1>3 DEF OldCounter
<1>7. ReadOf(t, P, next, "popNextCtr", "popNextPtr", "popCas")'
  BY <1>2 DEF ReadOf
<1>8. ReadOf(t, Q, fsNext, "takeNextCtr", "takeNextPtr", "takeCas")'
  BY <1>2 DEF ReadOf
<1>9. th'[t].pc \in Taking =>
        /\ th'[t].value \in Values \ held'
        /\ \A k \in 1 .. Len(P) : data[P[k].ptr] # th'[t].value
        /\ \A u \in Threads : u # t /\ th[u].pc \in Carrying => th[u].value # th'[t].value
  BY <1>2 DEF Shape, ContentSound
<1>10. th'[t].pc \in Popping \cup {"empty"} => th'[t].value = NoValue
  BY <1>2 DEF Popping
<1>11. th'[t].pc = "idle" => th'[t] = Stack!IdleThread
  BY <1>2
<1> QED BY <1>1, <1>2, <1>3, <1>4, <1>5, <1>6, <1>7, <1>8, <1>9, <1>10, <1>11, QuietKeeps
LEMMA TakeReadPointerKeeps ==
  ASSUME Stack!TypeOK, NEW P, NEW Q, Shape(P, Q), NEW t \in Threads, Stack!TakeReadPointer(t)
  PROVE  Shape(P, Q)'
<1>1. OthersKeep(t)
  BY DEF Stack!TakeReadPointer, OthersKeep, Stack!TypeOK, Stack!Found
<1>2. /\ th[t].pc = "takePtr" /\ th'[t].pc \in {"idle", "takeNextCtr"}
      /\ th'[t].pc = "idle" => th'[t] = Stack!IdleThread
      /\ th'[t].pc # "idle" => /\ fsTop.ptr # Stack!NULL /\ th'[t].cmp.ptr = fsTop.ptr
                                /\ th'[t].cmp.ctr = th[t].cmp.ctr /\ th'[t].value = th[t].value
  BY LocalTypes DEF Stack!TakeReadPointer, Stack!TypeOK, Stack!Locals, Stack!IdleThread,
     Stack!Found, Stack!PopTest
<1>3. UNCHANGED <<top, next, data, aba, fsTop, fsNext, fsAba>> /\ held' \subseteq held
  BY DEF Stack!TakeReadPointer
<1>4. th[t].pc \notin Holding /\ th'[t].pc \notin Holding
  BY <1>2 DEF Holding, Giving, Filling
<1>5. OldCounter(t, Linking, Popping, aba)'
  BY <1>2 DEF OldCounter, Popping
<1>6. OldCounter(t, Returning, Taking, fsAba)'
  BY <1>1, <1>2, <1>3, <1>4 DEF OldCounter, Shape, Fresh, Taking, Returning, OthersKeep, Holding,
     Giving
<1>7. ReadOf(t, P, next, "popNextCtr", "popNextPtr", "popCas")'
  BY <1>2 DEF ReadOf
<1>8. ReadOf(t, Q, fsNext, "takeNextCtr", "takeNextPtr", "takeCas")'
  BY <1>2, TopTypes DEF ReadOf
<1>9. th'[t].pc \in Taking =>
        /\ th'[t].value \in Values \ held'
        /\ \A k \in 1 .. Len(P) : data[P[k].ptr] # th'[t].value
        /\ \A u \in Threads : u # t /\ th[u].pc \in Carrying => th[u].value # th'[t].value
  BY <1>2, <1>3 DEF Shape, ContentSound, Taking, Carrying
<1>10. th'[t].pc \in Popping \cup {"empty"} => th'[t].value = NoValue
  BY <1>2 DEF Popping
<1>11. th'[t].pc = "idle" => th'[t] = Stack!IdleThread
  BY <1>2
<1> QED BY <1>1, <1>2, <1>3, <1>4, <1>5, <1>6, <1>7, <1>8, <1>9, <1>10, <1>11, QuietKeeps
LEMMA TakeReadNextCounterKeeps ==
  ASSUME Stack!TypeOK, NEW P, NEW Q, Shape(P, Q), NEW t \in Threads, Stack!TakeReadNextCounter(t)
  PROVE  Shape(P, Q)'
<1>1. OthersKeep(t)
  BY DEF Stack!TakeReadNextCounter, OthersKeep, Stack!TypeOK, Stack!Found
<1>2. /\ th[t].pc = "takeNextCtr" /\ th'[t].pc = "takeNextPtr" /\ th'[t].cmp = th[t].cmp
      /\ th'[t].exch.ctr = fsNext[th[t].cmp.ptr].ctr /\ th'[t].value = th[t].value
  BY LocalTypes DEF Stack!TakeReadNextCounter, Stack!TypeOK, Stack!Locals, Stack!IdleThread,
     Stack!Found, Stack!PopTest
<1>3. UNCHANGED <<top, next, data, aba, fsTop, fsNext, fsAba>> /\ held' \subseteq held
  BY DEF Stack!TakeReadNextCounter
<1>4. th[t].pc \notin Holding /\ th'[t].pc \notin Holding
  BY <1>2 DEF Holding, Giving, Filling
<1>5. OldCounter(t, Linking, Popping, aba)'
  BY <1>2 DEF OldCounter, Popping
<1>6. OldCounter(t, Returning, Taking, fsAba)'
  BY <1>1, <1>2, <1>3, <1>4 DEF OldCounter, Shape, Fresh, Taking, Returning, OthersKeep, Holding,
     Giving
<1>7. ReadOf(t, P, next, "popNextCtr", "popNextPtr", "popCas")'
  BY <1>2 DEF ReadOf
<1>8. ReadOf(t, Q, fsNext, "takeNextCtr", "takeNextPtr", "takeCas")'
  BY <1>2, <1>3 DEF ReadOf, Shape, Read
<1>9. th'[t].pc \in Taking =>
        /\ th'[t].value \in Values \ held'
        /\ \A k \in 1 .. Len(P) : data[P[k].ptr] # th'[t].value
        /\ \A u \in Threads : u # t /\ th[u].pc \in Carrying => th[u].value # th'[t].value
  BY <1>2, <1>3 DEF Shape, ContentSound, Taking, Carrying
<1>10. th'[t].pc \in Popping \cup {"empty"} => th'[t].value = NoValue
  BY <1>2 DEF Popping
<1>11. th'[t].pc = "idle" => th'[t] = Stack!IdleThread
  BY <1>2
<1> QED BY <1>1, <1>2, <1>3, <1>4, <1>5, <1>6, <1>7, <1>8, <1>9, <1>10, <1>11, QuietKeeps
LEMMA TakeReadNextPointerKeeps ==
  ASSUME Stack!TypeOK, NEW P, NEW Q, Shape(P, Q), NEW t \in Threads, Stack!TakeReadNextPointer(t)
  PROVE  Shape(P, Q)'
<1>1. OthersKeep(t)
  BY DEF Stack!TakeReadNextPointer, OthersKeep, Stack!TypeOK, Stack!Found
<1>2. /\ th[t].pc = "takeNextPtr" /\ th'[t].pc = "takeCas" /\ th'[t].cmp = th[t].cmp
      /\ th'[t].exch.ctr = th[t].exch.ctr /\ th'[t].exch.ptr = fsNext[th[t].cmp.ptr].ptr
      /\ th'[t].value = th[t].value
  BY LocalTypes DEF Stack!TakeReadNextPointer, Stack!TypeOK, Stack!Locals, Stack!IdleThread,
     Stack!Found, Stack!PopTest
<1>3. UNCHANGED <<top, next, data, aba, fsTop, fsNext, fsAba>> /\ held' \subseteq held
  BY DEF Stack!TakeReadNextPointer
<1>4. th[t].pc \notin Holding /\ th'[t].pc \notin Holding
  BY <1>2 DEF Holding, Giving, Filling
<1>5. OldCounter(t, Linking, Popping, aba)'
  BY <1>2 DEF OldCounter, Popping
<1>6. OldCounter(t, Returning, Taking, fsAba)'
  BY <1>1, <1>2, <1>3, <1>4 DEF OldCounter, Shape, Fresh, Taking, Returning, OthersKeep, Holding,
     Giving
<1>7. ReadOf(t, P, next, "popNextCtr", "popNextPtr", "popCas")'
  BY <1>2 DEF ReadOf
<1>8. ReadOf(t, Q, fsNext, "takeNextCtr", "takeNextPtr", "takeCas")'
  BY <1>2, <1>3 DEF ReadOf, Shape, Read
<1>9. th'[t].pc \in Taking =>
        /\ th'[t].value \in Values \ held'
        /\ \A k \in 1 .. Len(P) : data[P[k].ptr] # th'[t].value
        /\ \A u \in Threads : u # t /\ th[u].pc \in Carrying => th[u].value # th'[t].value
  BY <1>2, <1>3 DEF Shape, ContentSound, Taking, Carrying
<1>10. th'[t].pc \in Popping \cup {"empty"} => th'[t].value = NoValue
  BY <1>2 DEF Popping
<1>11. th'[t].pc = "idle" => th'[t] = Stack!IdleThread
  BY <1>2
<1> QED BY <1>1, <1>2, <1>3, <1>4, <1>5, <1>6, <1>7, <1>8, <1>9, <1>10, <1>11, QuietKeeps
LEMMA TakeCasFailsKeeps ==
  ASSUME Stack!TypeOK, NEW P, NEW Q, Shape(P, Q), NEW t \in Threads, Stack!TakeCas(t),
         ~Stack!Same(fsTop, th[t].cmp)
  PROVE  Shape(P, Q)'
<1>1. OthersKeep(t)
  BY DEF Stack!TakeCas, OthersKeep, Stack!TypeOK, Stack!Found
<1>2. /\ th[t].pc = "takeCas" /\ th'[t].pc \in {"idle", "takeNextCtr"}
      /\ th'[t].pc = "idle" => th'[t] = Stack!IdleThread
      /\ th'[t].pc # "idle" => fsTop.ptr # Stack!NULL /\ th'[t].cmp = fsTop
             /\ th'[t].value = th[t].value
  BY LocalTypes DEF Stack!TakeCas, Stack!TypeOK, Stack!Locals, Stack!IdleThread, Stack!Found,
     Stack!PopTest
<1>3. UNCHANGED <<top, next, data, aba, fsTop, fsNext, fsAba>> /\ held' \subseteq held
  BY DEF Stack!TakeCas
<1>4. th[t].pc \notin Holding /\ th'[t].pc \notin Holding
  BY <1>2 DEF Holding, Giving, Filling
<1>5. OldCounter(t, Linking, Popping, aba)'
  BY <1>2 DEF OldCounter, Popping
<1>6. OldCounter(t, Returning, Taking, fsAba)'
  <2>1. th'[t].pc \in Taking => th'[t].cmp.ctr = fsTop.ctr
    BY <1>2 DEF Taking
  <2>2. fsTop.ctr <= fsAba /\ \A u \in Threads : th[u].pc \in Returning
            => fsTop.ctr # th[u].exch.ctr
    BY FsTopIsOld
  <2>3. \A u \in Threads : th'[u].pc \in Returning => th'[u] = th[u]
    BY <1>1, <1>4 DEF OthersKeep, Holding, Returning, Giving
  <2> QED BY <2>1, <2>2, <2>3, <1>3 DEF OldCounter
<1>7. ReadOf(t, P, next, "popNextCtr", "popNextPtr", "popCas")'
  BY <1>2 DEF ReadOf
<1>8. ReadOf(t, Q, fsNext, "takeNextCtr", "takeNextPtr", "takeCas")'
  BY <1>2, TopTypes DEF ReadOf
<1>9. th'[t].pc \in Taking =>
        /\ th'[t].value \in Values \ held'
        /\ \A k \in 1 .. Len(P) : data[P[k].ptr] # th'[t].value
        /\ \A u \in Threads : u # t /\ th[u].pc \in Carrying => th[u].value # th'[t].value
  BY <1>2, <1>3 DEF Shape, ContentSound, Taking, Carrying
<1>10. th'[t].pc \in Popping \cup {"empty"} => th'[t].value = NoValue
  BY <1>2 DEF Popping
<1>11. th'[t].pc = "idle" => th'[t] = Stack!IdleThread
  BY <1>2
<1> QED BY <1>1, <1>2, <1>3, <1>4, <1>5, <1>6, <1>7, <1>8, <1>9, <1>10, <1>11, QuietKeeps
(* The steps that change the lists or the elements *)

LEMMA Pcs ==
  /\ Holding = Giving \cup Filling /\ Carrying = Giving \cup Taking \cup Filling
  /\ "give" \in Giving /\ "give" \notin Returning /\ "give" \notin Popping \cup Taking \cup Filling
  /\ Returning \subseteq Giving /\ Linking \subseteq Filling
  /\ "init" \in Filling /\ "init" \notin Linking /\ "init" \notin Popping \cup Taking \cup Giving
  /\ "giveLink" \in Returning /\ "giveCas" \in Returning
  /\ "pushLink" \in Linking /\ "pushCas" \in Linking
  /\ "idle" \notin Popping \cup Taking \cup Giving \cup Filling
  /\ \A label \in Giving \cup Filling : label \notin Popping \cup Taking \cup {"empty", "idle"}
  /\ \A label \in Giving : label \notin Filling
  /\ "popCas" \in Popping /\ "takeCas" \in Taking
  /\ \A label \in Popping : label \notin Carrying
  /\ \A label \in Taking : label \notin Holding
  /\ "giveCas" # "give" /\ "pushCas" \notin Giving /\ "giveCas" \notin Filling
BY DEF Holding, Carrying, Giving, Taking, Filling, Popping, Returning, Linking

LEMMA CtrsBounded ==
  ASSUME NEW L, NEW first, NEW link, NEW limit \in Nat, List(L, first, link, limit)
  PROVE  \A k \in Ctrs(L) : k \in Nat /\ k <= limit
<1>1. \A x \in Pointers : x.ctr \in Nat
  BY DEF Pointers
<1> QED BY <1>1, ListTop DEF List, Ctrs

LEMMA PopCasWinsKeeps ==
  ASSUME Stack!TypeOK, NEW P, NEW Q, Shape(P, Q), NEW t \in Threads, Stack!PopCas(t),
         Stack!Same(top, th[t].cmp)
  PROVE  Shape(Tail(P), Q)' /\ top.ptr # Stack!NULL /\ data[top.ptr] \in Values
         /\ th'[t].value = data[top.ptr]
<1> DEFINE R == Tail(P)
<1>1. OthersKeep(t)
  BY DEF Stack!PopCas, Stack!Same, OthersKeep, Stack!TypeOK
<1>2. /\ th[t].pc = "popCas" /\ th'[t].pc = "give" /\ th[t].cmp = top
      /\ th'[t].elem = top.ptr /\ th'[t].value = data[top.ptr] /\ top' = th[t].exch
  BY DEF Stack!PopCas, Stack!Same, Stack!TypeOK, Stack!Locals
<1>3. UNCHANGED <<next, data, aba, fsTop, fsNext, fsAba, held>>
  BY DEF Stack!PopCas
<1>4. top.ptr \in Stack!Elements /\ top.ptr # Stack!NULL /\ In(P, top) /\ List(P, top, next, aba)
  BY <1>2, ListTop, ElementsAreNumbers DEF Shape, Lists, Read
<1>5. top' = next[top.ptr]
  <2>1. th[t].exch.ctr = next[top.ptr].ctr /\ th[t].exch.ptr = next[top.ptr].ptr
    BY <1>2, <1>4 DEF Shape, Read
  <2>2. th[t].exch \in [ptr : Stack!Elements \cup {Stack!NULL}, ctr : Nat]
        /\ next[top.ptr] \in [ptr : Stack!Elements \cup {Stack!NULL}, ctr : Nat]
    BY <1>4, LocalTypes DEF Stack!TypeOK
  <2> QED BY <1>2, <2>1, <2>2
<1>6. /\ List(R, next[top.ptr], next, aba)
      /\ Ptrs(P) = {top.ptr} \cup Ptrs(R) /\ top.ptr \notin Ptrs(R)
      /\ Ctrs(R) \subseteq Ctrs(P)
      /\ Len(R) = Len(P) - 1 /\ P[1] = top
      /\ \A k \in 1 .. Len(R) : R[k] = P[k + 1] /\ k + 1 \in 1 .. Len(P)
      /\ \A pair : In(R, pair) => In(P, pair) /\ pair # top
  <2>1. aba \in Nat
    BY DEF Stack!TypeOK
  <2> QED BY <1>4, <2>1, ListPop
<1>7. Len(P) \in Nat /\ 1 \in 1 .. Len(P)
  BY <1>4, ListTop
<1> HIDE DEF R
<1>8. Lists(R, Q)'
  BY <1>3, <1>5, <1>6 DEF Shape, Lists
<1>9. Hands(R, Q)'
  <2>1. \A u \in Threads : th'[u].pc \in Holding <=> u = t \/ th[u].pc \in Holding
    BY <1>1, <1>2, Pcs DEF OthersKeep
  <2>2. \A u \in Threads : u # t => th'[u] = th[u]
    BY <1>1 DEF OthersKeep
  <2>3. th[t].pc \notin Holding
    BY <1>2, Pcs
  <2>4. top.ptr \notin Ptrs(Q)
    BY <1>6 DEF Shape, Hands
  <2>5. \A u \in Threads : th[u].pc \in Holding
            => th[u].elem \in Stack!Elements \ (Ptrs(P) \cup Ptrs(Q))
    BY DEF Shape, Hands
  <2>6. \A u, v \in Threads : th'[u].pc \in Holding /\ th'[v].pc \in Holding /\ u # v
                             => th'[u].elem # th'[v].elem
    BY <1>2, <1>6, <2>1, <2>2, <2>5 DEF Shape, Hands
  <2>7. \A u \in Threads : th'[u].pc \in Holding
            => th'[u].elem \in Stack!Elements \ (Ptrs(R) \cup Ptrs(Q))
    BY <1>2, <1>4, <1>6, <2>1, <2>2, <2>4, <2>5
  <2>8. \A e \in Stack!Elements : e \in Ptrs(R) \cup Ptrs(Q)
                           \/ \E u \in Threads : th'[u].pc \in Holding /\ th'[u].elem = e
    BY <1>2, <1>6, <2>1, <2>2, <2>3 DEF Shape, Hands
  <2> QED BY <1>6, <2>6, <2>7, <2>8 DEF Shape, Hands
<1>10. Fresh(R, Linking, Popping, aba)'
  <2>1. th'[t].pc \notin Linking /\ th'[t].pc \notin Popping
    BY <1>2, Pcs
  <2>2. \A u \in Threads : th'[u].pc \in Linking \cup Popping => u # t /\ th'[u] = th[u]
    BY <1>1, <2>1 DEF OthersKeep
  <2>3. Fresh(P, Linking, Popping, aba)
    BY DEF Shape
  <2> QED BY <1>3, <1>6, <2>2, <2>3 DEF Fresh
<1>11. Fresh(Q, Returning, Taking, fsAba)'
  <2>1. th'[t].pc \notin Returning /\ th'[t].pc \notin Taking
    BY <1>2, Pcs
  <2> QED BY <1>1, <1>3, <2>1 DEF Shape, Fresh, OthersKeep
<1>12. Read(R, next, "popNextCtr", "popNextPtr", "popCas")'
       /\ Read(Q, fsNext, "takeNextCtr", "takeNextPtr", "takeCas")'
  BY <1>1, <1>2, <1>3, <1>6 DEF Shape, Read, OthersKeep
<1>13. Links'
  BY <1>1, <1>2, <1>3 DEF Shape, Links, OthersKeep
<1>14. ContentSound(R)'
  <2>1. \A k \in 1 .. Len(R) : data[R[k].ptr] \in Values \ held /\ data[R[k].ptr] # data[top.ptr]
    <3>1. \A k \in 1 .. Len(R) : k + 1 # 1
      BY <1>6, <1>7
    <3> QED BY <1>6, <1>7, <3>1 DEF Shape, ContentSound
  <2>2. \A k, j \in 1 .. Len(R) : k # j => data[R[k].ptr] # data[R[j].ptr]
    <3>1. \A k, j \in 1 .. Len(R) : k # j => k + 1 # j + 1
      BY <1>6, <1>7
    <3> QED BY <1>6, <3>1 DEF Shape, ContentSound
  <2>3. data[top.ptr] \in Values \ held
        /\ \A u \in Threads : th[u].pc \in Carrying => th[u].value # data[top.ptr]
    BY <1>6, <1>7 DEF Shape, ContentSound
  <2>4. \A u \in Threads : th[u].pc \in Carrying
            => \A k \in 1 .. Len(R) : data[R[k].ptr] # th[u].value
    BY <1>6 DEF Shape, ContentSound
  <2>5. \A u \in Threads : u # t => th'[u] = th[u]
    BY <1>1 DEF OthersKeep
  <2>6. th'[t].pc \notin Linking \cup Popping \cup {"empty", "idle"}
    BY <1>2, Pcs
  <2> QED BY <1>2, <1>3, <2>1, <2>2, <2>3, <2>4, <2>5, <2>6 DEF Shape, ContentSound
<1>15. data[top.ptr] \in Values
  BY <1>6, <1>7 DEF Shape, ContentSound
<1> QED BY <1>2, <1>4, <1>8, <1>9, <1>10, <1>11, <1>12, <1>13, <1>14, <1>15 DEF Shape, R

LEMMA TakeCasWinsKeeps ==
  ASSUME Stack!TypeOK, NEW P, NEW Q, Shape(P, Q), NEW t \in Threads, Stack!TakeCas(t),
         Stack!Same(fsTop, th[t].cmp)
  PROVE  Shape(P, Tail(Q))'
<1> DEFINE R == Tail(Q)
<1>1. OthersKeep(t)
  BY DEF Stack!TakeCas, Stack!Same, OthersKeep, Stack!TypeOK
<1>2. /\ th[t].pc = "takeCas" /\ th'[t].pc = "init" /\ th[t].cmp = fsTop
      /\ th'[t].elem = fsTop.ptr /\ th'[t].value = th[t].value /\ fsTop' = th[t].exch
  BY DEF Stack!TakeCas, Stack!Same, Stack!TypeOK, Stack!Locals
<1>3. UNCHANGED <<top, next, data, aba, fsNext, fsAba, held>>
  BY DEF Stack!TakeCas
<1>4. fsTop.ptr \in Stack!Elements /\ fsTop.ptr # Stack!NULL /\ In(Q, fsTop)
          /\ List(Q, fsTop, fsNext, fsAba)
  BY <1>2, ListTop, ElementsAreNumbers DEF Shape, Lists, Read
<1>5. fsTop' = fsNext[fsTop.ptr]
  <2>1. th[t].exch.ctr = fsNext[fsTop.ptr].ctr /\ th[t].exch.ptr = fsNext[fsTop.ptr].ptr
    BY <1>2, <1>4 DEF Shape, Read
  <2>2. th[t].exch \in [ptr : Stack!Elements \cup {Stack!NULL}, ctr : Nat]
        /\ fsNext[fsTop.ptr] \in [ptr : Stack!Elements \cup {Stack!NULL}, ctr : Nat]
    BY <1>4, LocalTypes DEF Stack!TypeOK
  <2> QED BY <1>2, <2>1, <2>2
<1>6. /\ List(R, fsNext[fsTop.ptr], fsNext, fsAba)
      /\ Ptrs(Q) = {fsTop.ptr} \cup Ptrs(R) /\ fsTop.ptr \notin Ptrs(R)
      /\ Ctrs(R) \subseteq Ctrs(Q)
      /\ \A pair : In(R, pair) => In(Q, pair) /\ pair # fsTop
  <2>1. fsAba \in Nat
    BY DEF Stack!TypeOK
  <2> QED BY <1>4, <2>1, ListPop
<1> HIDE DEF R
<1>8. Lists(P, R)'
  BY <1>3, <1>5, <1>6 DEF Shape, Lists
<1>9. Hands(P, R)'
  <2>1. \A u \in Threads : th'[u].pc \in Holding <=> u = t \/ th[u].pc \in Holding
    BY <1>1, <1>2, Pcs DEF OthersKeep
  <2>2. \A u \in Threads : u # t => th'[u] = th[u]
    BY <1>1 DEF OthersKeep
  <2>3. th[t].pc \notin Holding
    BY <1>2, Pcs
  <2>4. fsTop.ptr \notin Ptrs(P)
    BY <1>6 DEF Shape, Hands
  <2>5. \A u \in Threads : th[u].pc \in Holding
            => th[u].elem \in Stack!Elements \ (Ptrs(P) \cup Ptrs(Q))
    BY DEF Shape, Hands
  <2>6. \A u, v \in Threads : th'[u].pc \in Holding /\ th'[v].pc \in Holding /\ u # v
                             => th'[u].elem # th'[v].elem
    BY <1>2, <1>6, <2>1, <2>2, <2>5 DEF Shape, Hands
  <2>7. \A u \in Threads : th'[u].pc \in Holding
            => th'[u].elem \in Stack!Elements \ (Ptrs(P) \cup Ptrs(R))
    BY <1>2, <1>4, <1>6, <2>1, <2>2, <2>4, <2>5
  <2>8. \A e \in Stack!Elements : e \in Ptrs(P) \cup Ptrs(R)
                           \/ \E u \in Threads : th'[u].pc \in Holding /\ th'[u].elem = e
    BY <1>2, <1>6, <2>1, <2>2, <2>3 DEF Shape, Hands
  <2> QED BY <1>6, <2>6, <2>7, <2>8 DEF Shape, Hands
<1>10. Fresh(P, Linking, Popping, aba)'
  <2>1. th'[t].pc \notin Linking /\ th'[t].pc \notin Popping
    BY <1>2, Pcs
  <2> QED BY <1>1, <1>3, <2>1 DEF Shape, Fresh, OthersKeep
<1>11. Fresh(R, Returning, Taking, fsAba)'
  <2>1. th'[t].pc \notin Returning /\ th'[t].pc \notin Taking
    BY <1>2, Pcs
  <2>2. \A u \in Threads : th'[u].pc \in Returning \cup Taking => u # t /\ th'[u] = th[u]
    BY <1>1, <2>1 DEF OthersKeep
  <2>3. Fresh(Q, Returning, Taking, fsAba)
    BY DEF Shape
  <2> QED BY <1>3, <1>6, <2>2, <2>3 DEF Fresh
<1>12. Read(P, next, "popNextCtr", "popNextPtr", "popCas")'
       /\ Read(R, fsNext, "takeNextCtr", "takeNextPtr", "takeCas")'
  BY <1>1, <1>2, <1>3, <1>6 DEF Shape, Read, OthersKeep
<1>13. Links'
  BY <1>1, <1>2, <1>3 DEF Shape, Links, OthersKeep
<1>14. ContentSound(P)'
  <2>1. \A u \in Threads : u # t => th'[u] = th[u]
    BY <1>1 DEF OthersKeep
  <2>2. th'[t].pc \notin Linking \cup Popping \cup {"empty", "idle"}
        /\ th[t].pc \in Carrying
    BY <1>2, Pcs
  <2> QED BY <1>2, <1>3, <2>1, <2>2 DEF Shape, ContentSound
<1> QED BY <1>8, <1>9, <1>10, <1>11, <1>12, <1>13, <1>14 DEF Shape, R

\* Thread t writes the element in its hands, which is on neither list.
LEMMA HandKeeps ==
  ASSUME Stack!TypeOK, Stack!TypeOK', NEW P, NEW Q, Shape(P, Q), NEW t \in Threads, OthersKeep(t),
         UNCHANGED <<top, fsTop, held>>, aba <= aba', fsAba <= fsAba',
         \A e \in Stack!Elements \ {th[t].elem} :
            next'[e] = next[e] /\ data'[e] = data[e] /\ fsNext'[e] = fsNext[e],
         th[t].pc \in Holding, th'[t].pc \in Holding,
         th'[t].elem = th[t].elem, th'[t].value = th[t].value,
         th'[t].pc \in Linking => \/ th[t].pc \in Linking /\ th'[t].exch = th[t].exch
                                  \/ th'[t].exch = Stack!Pair(th[t].elem, aba + 1)
                                         /\ aba' = aba + 1,
         th'[t].pc \in Returning => \/ th[t].pc \in Returning /\ th'[t].exch = th[t].exch
                                    \/ th'[t].exch = Stack!Pair(th[t].elem, fsAba + 1)
                                           /\ fsAba' = fsAba + 1,
         th'[t].pc \in Linking => data'[th[t].elem] = th[t].value,
         th'[t].pc = "pushCas" => next'[th[t].elem] = th'[t].cmp,
         th'[t].pc = "giveCas" => fsNext'[th[t].elem] = th'[t].cmp
  PROVE  Shape(P, Q)'
<1>1. th[t].elem \notin Ptrs(P) \cup Ptrs(Q)
  BY DEF Shape, Hands
<1>2. Ptrs(P) \subseteq Stack!Elements /\ Ptrs(Q) \subseteq Stack!Elements
  BY ListTop DEF Shape, Lists, Ptrs, Pointers
<1>3. /\ \A e \in Ptrs(P) : next'[e] = next[e] /\ data'[e] = data[e]
      /\ \A e \in Ptrs(Q) : fsNext'[e] = fsNext[e]
  BY <1>1, <1>2
<1>4. Lists(P, Q)'
  <2>1. aba \in Nat /\ aba' \in Nat /\ fsAba \in Nat /\ fsAba' \in Nat
    BY DEF Stack!TypeOK
  <2>2. List(P, top, next', aba')
    BY <1>3, <2>1, ListSame DEF Shape, Lists
  <2>3. List(Q, fsTop, fsNext', fsAba')
    BY <1>3, <2>1, ListSame DEF Shape, Lists
  <2> QED BY <2>2, <2>3 DEF Lists
<1>5. Hands(P, Q)'
  <2>1. \A u \in Threads : (th'[u].pc \in Holding
            <=> th[u].pc \in Holding) /\ th'[u].elem = th[u].elem
    BY DEF OthersKeep
  <2> QED BY <2>1 DEF Shape, Hands
<1>6. Fresh(P, Linking, Popping, aba)'
  <2>1. /\ aba \in Nat /\ aba' \in Nat /\ aba <= aba'
        /\ \A u \in Threads : th[u].cmp.ctr \in Nat /\ th[u].exch.ctr \in Nat
    BY LocalTypes DEF Stack!TypeOK
  <2>2. Fresh(P, Linking, Popping, aba) /\ \A k \in Ctrs(P) : k \in Nat /\ k <= aba
    BY <2>1, CtrsBounded DEF Shape, Lists
  <2>3. th'[t].pc \in Linking =>
          /\ th'[t].exch.ptr = th'[t].elem
          /\ th'[t].exch.ctr \in 1 .. aba' /\ th'[t].exch.ctr \notin Ctrs(P)
          /\ \A u \in Threads : u # t /\ th[u].pc \in Linking => th[u].exch.ctr # th'[t].exch.ctr
          /\ \A u \in Threads : th[u].pc \in Popping => th[u].cmp.ctr # th'[t].exch.ctr
    <3>1. CASE th[t].pc \in Linking /\ th'[t].exch = th[t].exch
      BY <2>1, <2>2, <3>1 DEF Fresh
    <3>2. CASE th'[t].exch = Stack!Pair(th[t].elem, aba + 1) /\ aba' = aba + 1
      <4>1. th'[t].exch.ptr = th'[t].elem /\ th'[t].exch.ctr = aba + 1
        BY <3>2 DEF Stack!Pair
      <4>2. aba + 1 \in 1 .. aba' /\ aba + 1 \notin Ctrs(P)
        BY <2>1, <2>2, <3>2
      <4>3. \A u \in Threads : th[u].pc \in Linking => th[u].exch.ctr # aba + 1
        BY <2>1, <2>2 DEF Fresh
      <4>4. \A u \in Threads : th[u].pc \in Popping => th[u].cmp.ctr # aba + 1
        BY <2>1, <2>2 DEF Fresh
      <4> QED BY <4>1, <4>2, <4>3, <4>4
    <3> QED BY <3>1, <3>2
  <2>4. th'[t].pc \notin Popping
    BY Pcs
  <2>5. \A u \in Threads : u # t => th'[u] = th[u]
    BY DEF OthersKeep
  <2>6. \A u \in Threads : u # t /\ th[u].pc \in Linking =>
           /\ th[u].exch.ptr = th[u].elem
           /\ th[u].exch.ctr \in 1 .. aba' /\ th[u].exch.ctr \notin Ctrs(P)
    BY <2>1, <2>2 DEF Fresh
  <2>7. \A u \in Threads : th[u].pc \in Popping => th[u].cmp.ctr <= aba'
    BY <2>1, <2>2 DEF Fresh
  <2>8. \A u, v \in Threads : th[u].pc \in Linking /\ th[v].pc \in Linking /\ u # v
                             => th[u].exch.ctr # th[v].exch.ctr
    BY <2>2 DEF Fresh
  <2>9. \A u, v \in Threads : th[u].pc \in Popping /\ th[v].pc \in Linking
                             => th[u].cmp.ctr # th[v].exch.ctr
    BY <2>2 DEF Fresh
  <2>10. \A u, v \in Threads : th'[u].pc \in Linking /\ th'[v].pc \in Linking /\ u # v
                             => th'[u].exch.ctr # th'[v].exch.ctr
    BY <2>3, <2>5, <2>8
  <2>11. \A u, v \in Threads : th'[u].pc \in Popping /\ th'[v].pc \in Linking
                             => th'[u].cmp.ctr # th'[v].exch.ctr
    <3> SUFFICES ASSUME NEW u \in Threads, NEW v \in Threads,
                        th'[u].pc \in Popping, th'[v].pc \in Linking
                 PROVE  th'[u].cmp.ctr # th'[v].exch.ctr
      OBVIOUS
    <3>1. u # t /\ th'[u] = th[u]
      BY <2>4, <2>5
    <3>2. CASE v = t
      <4>0. th[u].pc \in Popping /\ th'[t].pc \in Linking
        BY <3>1, <3>2
      <4>1. th[u].cmp.ctr # th'[t].exch.ctr
        BY <2>3, <4>0
      <4> QED BY <3>1, <3>2, <4>1
    <3>3. CASE v # t
      BY <2>5, <2>9, <3>1, <3>3
    <3> QED BY <3>2, <3>3
  <2> QED BY <2>3, <2>4, <2>5, <2>6, <2>7, <2>10, <2>11 DEF Fresh
<1>7. Fresh(Q, Returning, Taking, fsAba)'
  <2>1. /\ fsAba \in Nat /\ fsAba' \in Nat /\ fsAba <= fsAba'
        /\ \A u \in Threads : th[u].cmp.ctr \in Nat /\ th[u].exch.ctr \in Nat
    BY LocalTypes DEF Stack!TypeOK
  <2>2. Fresh(Q, Returning, Taking, fsAba) /\ \A k \in Ctrs(Q) : k \in Nat /\ k <= fsAba
    BY <2>1, CtrsBounded DEF Shape, Lists
  <2>3. th'[t].pc \in Returning =>
          /\ th'[t].exch.ptr = th'[t].elem
          /\ th'[t].exch.ctr \in 1 .. fsAba' /\ th'[t].exch.ctr \notin Ctrs(Q)
          /\ \A u \in Threads : u # t /\ th[u].pc \in Returning => th[u].exch.ctr # th'[t].exch.ctr
          /\ \A u \in Threads : th[u].pc \in Taking => th[u].cmp.ctr # th'[t].exch.ctr
    <3>1. CASE th[t].pc \in Returning /\ th'[t].exch = th[t].exch
      BY <2>1, <2>2, <3>1 DEF Fresh
    <3>2. CASE th'[t].exch = Stack!Pair(th[t].elem, fsAba + 1) /\ fsAba' = fsAba + 1
      <4>1. th'[t].exch.ptr = th'[t].elem /\ th'[t].exch.ctr = fsAba + 1
        BY <3>2 DEF Stack!Pair
      <4>2. fsAba + 1 \in 1 .. fsAba' /\ fsAba + 1 \notin Ctrs(Q)
        BY <2>1, <2>2, <3>2
      <4>3. \A u \in Threads : th[u].pc \in Returning => th[u].exch.ctr # fsAba + 1
        BY <2>1, <2>2 DEF Fresh
      <4>4. \A u \in Threads : th[u].pc \in Taking => th[u].cmp.ctr # fsAba + 1
        BY <2>1, <2>2 DEF Fresh
      <4> QED BY <4>1, <4>2, <4>3, <4>4
    <3> QED BY <3>1, <3>2
  <2>4. th'[t].pc \notin Taking
    BY Pcs
  <2>5. \A u \in Threads : u # t => th'[u] = th[u]
    BY DEF OthersKeep
  <2>6. \A u \in Threads : u # t /\ th[u].pc \in Returning =>
           /\ th[u].exch.ptr = th[u].elem
           /\ th[u].exch.ctr \in 1 .. fsAba' /\ th[u].exch.ctr \notin Ctrs(Q)
    BY <2>1, <2>2 DEF Fresh
  <2>7. \A u \in Threads : th[u].pc \in Taking => th[u].cmp.ctr <= fsAba'
    BY <2>1, <2>2 DEF Fresh
  <2>8. \A u, v \in Threads : th[u].pc \in Returning /\ th[v].pc \in Returning /\ u # v
                             => th[u].exch.ctr # th[v].exch.ctr
    BY <2>2 DEF Fresh
  <2>9. \A u, v \in Threads : th[u].pc \in Taking /\ th[v].pc \in Returning
                             => th[u].cmp.ctr # th[v].exch.ctr
    BY <2>2 DEF Fresh
  <2>10. \A u, v \in Threads : th'[u].pc \in Returning /\ th'[v].pc \in Returning /\ u # v
                             => th'[u].exch.ctr # th'[v].exch.ctr
    BY <2>3, <2>5, <2>8
  <2>11. \A u, v \in Threads : th'[u].pc \in Taking /\ th'[v].pc \in Returning
                             => th'[u].cmp.ctr # th'[v].exch.ctr
    <3> SUFFICES ASSUME NEW u \in Threads, NEW v \in Threads,
                        th'[u].pc \in Taking, th'[v].pc \in Returning
                 PROVE  th'[u].cmp.ctr # th'[v].exch.ctr
      OBVIOUS
    <3>1. u # t /\ th'[u] = th[u]
      BY <2>4, <2>5
    <3>2. CASE v = t
      <4>0. th[u].pc \in Taking /\ th'[t].pc \in Returning
        BY <3>1, <3>2
      <4>1. th[u].cmp.ctr # th'[t].exch.ctr
        BY <2>3, <4>0
      <4> QED BY <3>1, <3>2, <4>1
    <3>3. CASE v # t
      BY <2>5, <2>9, <3>1, <3>3
    <3> QED BY <3>2, <3>3
  <2> QED BY <2>3, <2>4, <2>5, <2>6, <2>7, <2>10, <2>11 DEF Fresh
<1>8. Read(P, next, "popNextCtr", "popNextPtr", "popCas")'
      /\ Read(Q, fsNext, "takeNextCtr", "takeNextPtr", "takeCas")'
  <2>1. /\ th'[t].pc \notin {"popNextCtr", "popNextPtr", "popCas"}
        /\ th'[t].pc \notin {"takeNextCtr", "takeNextPtr", "takeCas"}
    BY Pcs DEF Popping, Taking
  <2>2. /\ Read(P, next, "popNextCtr", "popNextPtr", "popCas")
        /\ Read(Q, fsNext, "takeNextCtr", "takeNextPtr", "takeCas")
    BY DEF Shape
  <2>3. \A pair : (In(P, pair) => pair.ptr \in Ptrs(P)) /\ (In(Q, pair) => pair.ptr \in Ptrs(Q))
    BY DEF In, Ptrs
  <2>4. \A u \in Threads : u # t => th'[u] = th[u]
    BY DEF OthersKeep
  <2>5. Read(P, next, "popNextCtr", "popNextPtr", "popCas")'
    BY <1>3, <2>1, <2>2, <2>3, <2>4 DEF Read
  <2>6. Read(Q, fsNext, "takeNextCtr", "takeNextPtr", "takeCas")'
    BY <1>3, <2>1, <2>2, <2>3, <2>4 DEF Read
  <2> QED BY <2>5, <2>6
<1>9. Links'
  <2>1. \A u \in Threads : u # t /\ th[u].pc \in Holding =>
          /\ th'[u] = th[u] /\ th[u].elem # th[t].elem
          /\ next'[th[u].elem] = next[th[u].elem] /\ fsNext'[th[u].elem] = fsNext[th[u].elem]
    BY DEF Shape, Hands, OthersKeep
  <2>2. \A u \in Threads : u # t => th'[u] = th[u]
    BY DEF OthersKeep
  <2>3. \A u \in Threads : th[u].pc = "pushCas" \/ th[u].pc = "giveCas" => th[u].pc \in Holding
    BY Pcs
  <2> QED BY <2>1, <2>2, <2>3 DEF Shape, Links
<1>10. ContentSound(P)'
  <2>1. \A k \in 1 .. Len(P) : P[k].ptr \in Ptrs(P) /\ data'[P[k].ptr] = data[P[k].ptr]
    BY <1>3 DEF Ptrs
  <2>2. \A u \in Threads : u # t /\ th[u].pc \in Linking => data'[th[u].elem] = data[th[u].elem]
    BY Pcs DEF Shape, Hands, OthersKeep
  <2>3. \A u \in Threads : u # t => th'[u] = th[u]
    BY DEF OthersKeep
  <2>4. /\ th'[t].pc \notin Popping \cup {"empty", "idle"}
        /\ th[t].pc \in Carrying /\ th'[t].pc \in Carrying
    BY Pcs
  <2> QED BY <2>1, <2>2, <2>3, <2>4 DEF Shape, ContentSound
<1> QED BY <1>4, <1>5, <1>6, <1>7, <1>8, <1>9, <1>10 DEF Shape

LEMMA GiveCounterKeeps ==
  ASSUME Stack!TypeOK, Stack!TypeOK', NEW P, NEW Q, Shape(P, Q), NEW t \in Threads,
         Stack!GiveCounter(t)
  PROVE  Shape(P, Q)'
<1>1. OthersKeep(t)
  BY DEF Stack!GiveCounter, OthersKeep, Stack!TypeOK, Stack!Found
<1>2. th[t].elem \in Stack!Elements
  BY Pcs DEF Stack!GiveCounter, Shape, Hands
<1>3. /\ th[t].pc = "give" /\ th'[t].pc = "giveLink" /\ th'[t].elem = th[t].elem
             /\ th'[t].value = th[t].value
      /\ th'[t].exch = Stack!Pair(th[t].elem, fsAba + 1) /\ fsAba' = fsAba + 1
  <2>1. th[t].pc = "give" /\ fsAba' = fsAba + 1
    BY DEF Stack!GiveCounter
  <2>2. th'[t] = [th[t] EXCEPT !.exch = Stack!Pair(th[t].elem, fsAba + 1),
                               !.cmp.ptr = fsTop.ptr, !.pc = "giveLink"]
    BY DEF Stack!GiveCounter, Stack!TypeOK
  <2> QED BY <2>1, <2>2, LocalTypes DEF Stack!Locals
<1>4. /\ UNCHANGED <<top, fsTop, held>> /\ aba <= aba' /\ fsAba <= fsAba'
      /\ \A e \in Stack!Elements \ {th[t].elem} :
            next'[e] = next[e] /\ data'[e] = data[e] /\ fsNext'[e] = fsNext[e]
  BY DEF Stack!GiveCounter, Stack!TypeOK
<1>5. th[t].pc \in Holding /\ th'[t].pc \in Holding
  BY <1>3, Pcs
<1>7. th'[t].pc \notin Linking
  BY <1>3 DEF Linking, Returning
<1> QED BY <1>1, <1>3, <1>4, <1>5, <1>7, HandKeeps

LEMMA GiveLinkKeeps ==
  ASSUME Stack!TypeOK, Stack!TypeOK', NEW P, NEW Q, Shape(P, Q), NEW t \in Threads,
         Stack!GiveLink(t)
  PROVE  Shape(P, Q)'
<1>1. OthersKeep(t)
  BY DEF Stack!GiveLink, OthersKeep, Stack!TypeOK, Stack!Found
<1>2. th[t].elem \in Stack!Elements
  BY Pcs DEF Stack!GiveLink, Shape, Hands
<1>3. /\ th[t].pc = "giveLink" /\ th'[t].pc = "giveCas" /\ th'[t].elem = th[t].elem
             /\ th'[t].value = th[t].value
      /\ th'[t].exch = th[t].exch /\ fsNext'[th[t].elem] = th'[t].cmp
  <2>1. th[t].pc = "giveLink" /\ fsNext'[th[t].elem] = Stack!Pair(th[t].cmp.ptr, fsTop.ctr)
    BY <1>2 DEF Stack!GiveLink, Stack!TypeOK
  <2>2. th'[t] = [th[t] EXCEPT !.cmp = Stack!Pair(th[t].cmp.ptr, fsTop.ctr), !.pc = "giveCas"]
    BY DEF Stack!GiveLink, Stack!TypeOK, Stack!Found
  <2> QED BY <2>1, <2>2, LocalTypes DEF Stack!Locals
<1>4. /\ UNCHANGED <<top, fsTop, held>> /\ aba <= aba' /\ fsAba <= fsAba'
      /\ \A e \in Stack!Elements \ {th[t].elem} :
            next'[e] = next[e] /\ data'[e] = data[e] /\ fsNext'[e] = fsNext[e]
  BY DEF Stack!GiveLink, Stack!TypeOK
<1>5. th[t].pc \in Holding /\ th'[t].pc \in Holding
  BY <1>3, Pcs
<1>7. th[t].pc \in Returning /\ th'[t].pc \notin Linking
  BY <1>3 DEF Linking, Returning
<1> QED BY <1>1, <1>3, <1>4, <1>5, <1>7, HandKeeps

LEMMA GiveCasFailsKeeps ==
  ASSUME Stack!TypeOK, Stack!TypeOK', NEW P, NEW Q, Shape(P, Q), NEW t \in Threads,
         Stack!GiveCas(t), ~Stack!Same(fsTop, th[t].cmp)
  PROVE  Shape(P, Q)'
<1>1. OthersKeep(t)
  BY DEF Stack!GiveCas, OthersKeep, Stack!TypeOK, Stack!Found
<1>2. th[t].elem \in Stack!Elements
  BY Pcs DEF Stack!GiveCas, Shape, Hands
<1>3. /\ th[t].pc = "giveCas" /\ th'[t].pc = "giveCas" /\ th'[t].elem = th[t].elem
             /\ th'[t].value = th[t].value
      /\ th'[t].exch = th[t].exch /\ fsNext'[th[t].elem] = th'[t].cmp
  BY LocalTypes, <1>2 DEF Stack!GiveCas, Stack!TypeOK, Stack!Locals, Stack!Found
<1>4. /\ UNCHANGED <<top, fsTop, held>> /\ aba <= aba' /\ fsAba <= fsAba'
      /\ \A e \in Stack!Elements \ {th[t].elem} :
            next'[e] = next[e] /\ data'[e] = data[e] /\ fsNext'[e] = fsNext[e]
  BY DEF Stack!GiveCas, Stack!TypeOK
<1>5. th[t].pc \in Holding /\ th'[t].pc \in Holding
  BY <1>3, Pcs
<1>7. th[t].pc \in Returning /\ th'[t].pc \notin Linking
  BY <1>3 DEF Linking, Returning
<1> QED BY <1>1, <1>3, <1>4, <1>5, <1>7, HandKeeps

LEMMA InitElementKeeps ==
  ASSUME Stack!TypeOK, Stack!TypeOK', NEW P, NEW Q, Shape(P, Q), NEW t \in Threads,
         Stack!InitElement(t)
  PROVE  Shape(P, Q)'
<1>1. OthersKeep(t)
  BY DEF Stack!InitElement, OthersKeep, Stack!TypeOK, Stack!Found
<1>2. th[t].elem \in Stack!Elements
  BY Pcs DEF Stack!InitElement, Shape, Hands
<1>3. /\ th[t].pc = "init" /\ th'[t].pc = "pushLink" /\ th'[t].elem = th[t].elem
             /\ th'[t].value = th[t].value
      /\ th'[t].exch = Stack!Pair(th[t].elem, aba + 1) /\ aba' = aba + 1
  <2>1. th[t].pc = "init" /\ aba' = aba + 1
    BY DEF Stack!InitElement
  <2>2. th'[t] = [th[t] EXCEPT !.exch = Stack!Pair(th[t].elem, aba + 1),
                               !.cmp.ptr = top.ptr, !.pc = "pushLink"]
    BY DEF Stack!InitElement, Stack!TypeOK
  <2> QED BY <2>1, <2>2, LocalTypes DEF Stack!Locals
<1>4. /\ UNCHANGED <<top, fsTop, held>> /\ aba <= aba' /\ fsAba <= fsAba'
      /\ \A e \in Stack!Elements \ {th[t].elem} :
            next'[e] = next[e] /\ data'[e] = data[e] /\ fsNext'[e] = fsNext[e]
  BY DEF Stack!InitElement, Stack!TypeOK
<1>5. th[t].pc \in Holding /\ th'[t].pc \in Holding
  BY <1>3, Pcs
<1>7. th'[t].pc \notin Returning
  BY <1>3 DEF Linking, Returning
<1>6. data'[th[t].elem] = th[t].value
  BY <1>2, <1>3, Pcs DEF Stack!InitElement, Stack!TypeOK, Shape, ContentSound
<1> QED BY <1>1, <1>3, <1>4, <1>5, <1>7, HandKeeps, <1>6

LEMMA PushLinkKeeps ==
  ASSUME Stack!TypeOK, Stack!TypeOK', NEW P, NEW Q, Shape(P, Q), NEW t \in Threads,
         Stack!PushLink(t)
  PROVE  Shape(P, Q)'
<1>1. OthersKeep(t)
  BY DEF Stack!PushLink, OthersKeep, Stack!TypeOK, Stack!Found
<1>2. th[t].elem \in Stack!Elements
  BY Pcs DEF Stack!PushLink, Shape, Hands
<1>3. /\ th[t].pc = "pushLink" /\ th'[t].pc = "pushCas" /\ th'[t].elem = th[t].elem
             /\ th'[t].value = th[t].value
      /\ th'[t].exch = th[t].exch /\ next'[th[t].elem] = th'[t].cmp
  <2>1. th[t].pc = "pushLink" /\ next'[th[t].elem] = Stack!Pair(th[t].cmp.ptr, top.ctr)
    BY <1>2 DEF Stack!PushLink, Stack!TypeOK
  <2>2. th'[t] = [th[t] EXCEPT !.cmp = Stack!Pair(th[t].cmp.ptr, top.ctr), !.pc = "pushCas"]
    BY DEF Stack!PushLink, Stack!TypeOK, Stack!Found
  <2> QED BY <2>1, <2>2, LocalTypes DEF Stack!Locals
<1>4. /\ UNCHANGED <<top, fsTop, held>> /\ aba <= aba' /\ fsAba <= fsAba'
      /\ \A e \in Stack!Elements \ {th[t].elem} :
            next'[e] = next[e] /\ data'[e] = data[e] /\ fsNext'[e] = fsNext[e]
  BY DEF Stack!PushLink, Stack!TypeOK
<1>5. th[t].pc \in Holding /\ th'[t].pc \in Holding
  BY <1>3, Pcs
<1>7. th[t].pc \in Linking /\ th'[t].pc \notin Returning
  BY <1>3 DEF Linking, Returning
<1>6. data'[th[t].elem] = th[t].value
  BY <1>2, <1>3, Pcs DEF Stack!PushLink, Stack!TypeOK, Shape, ContentSound
<1> QED BY <1>1, <1>3, <1>4, <1>5, <1>7, HandKeeps, <1>6

LEMMA PushCasFailsKeeps ==
  ASSUME Stack!TypeOK, Stack!TypeOK', NEW P, NEW Q, Shape(P, Q), NEW t \in Threads,
         Stack!PushCas(t), ~Stack!Same(top, th[t].cmp)
  PROVE  Shape(P, Q)'
<1>1. OthersKeep(t)
  BY DEF Stack!PushCas, OthersKeep, Stack!TypeOK, Stack!Found
<1>2. th[t].elem \in Stack!Elements
  BY Pcs DEF Stack!PushCas, Shape, Hands
<1>3. /\ th[t].pc = "pushCas" /\ th'[t].pc = "pushCas" /\ th'[t].elem = th[t].elem
             /\ th'[t].value = th[t].value
      /\ th'[t].exch = th[t].exch /\ next'[th[t].elem] = th'[t].cmp
  BY LocalTypes, <1>2 DEF Stack!PushCas, Stack!TypeOK, Stack!Locals, Stack!Found
<1>4. /\ UNCHANGED <<top, fsTop, held>> /\ aba <= aba' /\ fsAba <= fsAba'
      /\ \A e \in Stack!Elements \ {th[t].elem} :
            next'[e] = next[e] /\ data'[e] = data[e] /\ fsNext'[e] = fsNext[e]
  BY DEF Stack!PushCas, Stack!TypeOK
<1>5. th[t].pc \in Holding /\ th'[t].pc \in Holding
  BY <1>3, Pcs
<1>7. th[t].pc \in Linking /\ th'[t].pc \notin Returning
  BY <1>3 DEF Linking, Returning
<1>6. data'[th[t].elem] = th[t].value
  BY <1>2, <1>3, Pcs DEF Stack!PushCas, Stack!TypeOK, Shape, ContentSound
<1> QED BY <1>1, <1>3, <1>4, <1>5, <1>7, HandKeeps, <1>6

\* The compare-and-swap of a push puts the element it linked on the list.
LEMMA PushCasWinsKeeps ==
  ASSUME Stack!TypeOK, NEW P, NEW Q, Shape(P, Q), NEW t \in Threads, Stack!PushCas(t),
         Stack!Same(top, th[t].cmp),
         NEW x, x = th[t].exch
  PROVE  Shape(<<x>> \o P, Q)' /\ x \in Pointers
         /\ x.ptr = th[t].elem /\ x.ptr \notin Ptrs(P) /\ data[x.ptr] = th[t].value
<1> DEFINE R == <<x>> \o P
<1>1. OthersKeep(t)
  BY DEF Stack!PushCas, Stack!Same, OthersKeep, Stack!TypeOK
<1>2. /\ th[t].pc = "pushCas" /\ th'[t] = Stack!IdleThread /\ th'[t].pc = "idle"
      /\ th[t].cmp = top /\ top' = x
  BY DEF Stack!PushCas, Stack!Same, Stack!TypeOK, Stack!IdleThread
<1>3. UNCHANGED <<next, data, aba, fsTop, fsNext, fsAba, held>>
  BY DEF Stack!PushCas, Stack!Same
<1>4. /\ th[t].elem \in Stack!Elements /\ th[t].elem \notin Ptrs(P) \cup Ptrs(Q)
      /\ next[th[t].elem] = top /\ data[th[t].elem] = th[t].value
  BY <1>2, Pcs DEF Shape, Hands, Links, ContentSound
<1>5. /\ x.ptr = th[t].elem /\ x.ctr \in 1 .. aba /\ x.ctr \notin Ctrs(P)
      /\ \A u \in Threads : u # t /\ th[u].pc \in Linking => th[u].exch.ctr # x.ctr
      /\ \A u \in Threads : th[u].pc \in Popping => th[u].cmp.ctr # x.ctr
  BY <1>2, Pcs DEF Shape, Fresh
<1>6. x \in Pointers
  <2>1. x \in [ptr : Stack!Elements \cup {Stack!NULL}, ctr : Nat]
    BY LocalTypes
  <2>2. aba \in Nat
    BY DEF Stack!TypeOK
  <2> QED BY <1>4, <1>5, <2>1, <2>2 DEF Pointers
<1>7. /\ List(R, x, next, aba)
      /\ Ptrs(R) = {x.ptr} \cup Ptrs(P) /\ Ctrs(R) = {x.ctr} \cup Ctrs(P)
      /\ Len(R) = Len(P) + 1 /\ R[1] = x
      /\ \A k \in 2 .. Len(R) : R[k] = P[k - 1]
      /\ \A pair : In(R, pair) <=> pair = x \/ In(P, pair)
  <2>1. aba \in Nat /\ List(P, top, next, aba) /\ x.ctr <= aba
    BY <1>5 DEF Stack!TypeOK, Shape, Lists
  <2>2. x.ptr \notin Ptrs(P) /\ x.ctr \notin Ctrs(P) /\ next[x.ptr] = top
    BY <1>4, <1>5
  <2>3. /\ List(R, x, next, aba)
        /\ Ptrs(R) = {x.ptr} \cup Ptrs(P) /\ Ctrs(R) = {x.ctr} \cup Ctrs(P)
        /\ \A pair : In(R, pair) <=> pair = x \/ In(P, pair)
    BY <1>6, <2>1, <2>2, ListPush
  <2>4. Len(R) = Len(P) + 1 /\ R[1] = x
    BY <1>6, <2>1, <2>2, ListPush
  <2>5. \A k \in 2 .. Len(R) : R[k] = P[k - 1]
    BY <1>6, <2>1, <2>2, ListPush
  <2> QED BY <2>3, <2>4, <2>5
<1>8. \A k \in 1 .. Len(R) : k = 1 \/ (k \in 2 .. Len(R) /\ k - 1 \in 1 .. Len(P))
  <2>1. Len(P) \in Nat
    BY ListTop DEF Shape, Lists
  <2> QED BY <1>7, <2>1
<1> HIDE DEF R
<1>9. \A u \in Threads : u # t => th'[u] = th[u]
  BY <1>1 DEF OthersKeep
<1>10. /\ th[t].pc \in Holding /\ th[t].pc \in Carrying
       /\ th'[t].pc \notin Holding /\ th'[t].pc \notin Carrying
       /\ th'[t].pc \notin Popping \cup Taking \cup Linking \cup Returning \cup {"empty"}
  BY <1>2, Pcs
<1>11. Lists(R, Q)'
  BY <1>2, <1>3, <1>7 DEF Shape, Lists
<1>12. Hands(R, Q)'
  BY <1>4, <1>5, <1>7, <1>9, <1>10 DEF Shape, Hands
<1>13. Fresh(R, Linking, Popping, aba)'
  <2>1. Fresh(P, Linking, Popping, aba)
    BY DEF Shape
  <2>2. \A u \in Threads : th'[u].pc \in Linking \cup Popping => u # t /\ th'[u] = th[u]
    BY <1>9, <1>10, Pcs
  <2>3. \A u \in Threads : th'[u].pc \in Linking =>
          /\ th'[u].exch.ptr = th'[u].elem
          /\ th'[u].exch.ctr \in 1 .. aba'
          /\ th'[u].exch.ctr \notin Ctrs(R)
    BY <1>3, <1>5, <1>7, <2>1, <2>2 DEF Fresh
  <2>4. Ctrs(R)' = Ctrs(R)
    BY DEF Ctrs
  <2>5. \A u, v \in Threads : th'[u].pc \in Linking /\ th'[v].pc \in Linking /\ u # v
                                 => th'[u].exch.ctr # th'[v].exch.ctr
    BY <2>1, <2>2 DEF Fresh
  <2>6. \A u, v \in Threads : th'[u].pc \in Popping /\ th'[v].pc \in Linking
                                 => th'[u].cmp.ctr # th'[v].exch.ctr
    BY <2>1, <2>2 DEF Fresh
  <2>7. \A u \in Threads : th'[u].pc \in Popping => th'[u].cmp.ctr <= aba'
    BY <1>3, <2>1, <2>2 DEF Fresh
  <2> QED BY <2>3, <2>4, <2>5, <2>6, <2>7 DEF Fresh
<1>14. Fresh(Q, Returning, Taking, fsAba)'
  <2>1. Fresh(Q, Returning, Taking, fsAba)
    BY DEF Shape
  <2> QED BY <1>3, <1>9, <1>10, <2>1 DEF Fresh
<1>15. Read(R, next, "popNextCtr", "popNextPtr", "popCas")'
  <2>1. \A u \in Threads : th'[u].pc \in {"popNextCtr", "popNextPtr", "popCas"}
                             => u # t /\ th'[u] = th[u] /\ th'[u].cmp # x
    BY <1>5, <1>9, <1>10 DEF Popping
  <2> QED BY <1>3, <1>7, <2>1 DEF Shape, Read
<1>16. Read(Q, fsNext, "takeNextCtr", "takeNextPtr", "takeCas")'
  <2>1. th'[t].pc \notin {"takeNextCtr", "takeNextPtr", "takeCas"}
    BY <1>10 DEF Taking
  <2> QED BY <1>3, <1>9, <2>1 DEF Shape, Read
<1>17. Links'
  BY <1>2, <1>3, <1>9 DEF Shape, Links
<1>18. ContentSound(R)'
  <2>1. ContentSound(P) /\ th[t].value \in Values \ held /\ data[x.ptr] = th[t].value
    BY <1>4, <1>5, <1>10 DEF Shape, ContentSound
  <2>2. \A k \in 1 .. Len(R) : data[R[k].ptr] \in Values \ held
    BY <1>7, <1>8, <2>1 DEF ContentSound
  <2>3. \A k \in 1 .. Len(P) : data[P[k].ptr] # data[x.ptr]
    BY <1>10, <2>1 DEF ContentSound
  <2>4. \A k, j \in 1 .. Len(R) : k # j => data[R[k].ptr] # data[R[j].ptr]
    <3> SUFFICES ASSUME NEW k \in 1 .. Len(R), NEW j \in 1 .. Len(R), k # j
                 PROVE  data[R[k].ptr] # data[R[j].ptr]
      OBVIOUS
    <3>1. CASE k = 1
      BY <1>7, <1>8, <2>3, <3>1
    <3>2. CASE j = 1
      BY <1>7, <1>8, <2>3, <3>2
    <3>3. CASE k # 1 /\ j # 1
      <4>1. k - 1 # j - 1
        BY <1>8
      <4> QED BY <1>7, <1>8, <2>1, <3>3, <4>1 DEF ContentSound
    <3> QED BY <3>1, <3>2, <3>3
  <2>5. \A u \in Threads : u # t /\ th[u].pc \in Carrying =>
          /\ th[u].value \in Values \ held
          /\ \A k \in 1 .. Len(R) : data[R[k].ptr] # th[u].value
    <3> SUFFICES ASSUME NEW u \in Threads, u # t, th[u].pc \in Carrying
                 PROVE  th[u].value \in Values \ held
                        /\ \A k \in 1 .. Len(R) : data[R[k].ptr] # th[u].value
      OBVIOUS
    <3>1. th[u].value # data[x.ptr]
      BY <1>10, <2>1 DEF ContentSound
    <3>2. th[u].value \in Values \ held /\ \A k \in 1 .. Len(P) : data[P[k].ptr] # th[u].value
      BY <2>1 DEF ContentSound
    <3> QED BY <1>7, <1>8, <3>1, <3>2
  <2> QED BY <1>2, <1>3, <1>9, <1>10, <2>1, <2>2, <2>4, <2>5 DEF ContentSound
<1> QED BY <1>4, <1>5, <1>6, <1>11, <1>12, <1>13, <1>14, <1>15, <1>16, <1>17, <1>18 DEF Shape, R

LEMMA GiveCasWinsKeeps ==
  ASSUME Stack!TypeOK, NEW P, NEW Q, Shape(P, Q), NEW t \in Threads, Stack!GiveCas(t),
         Stack!Same(fsTop, th[t].cmp),
         NEW x, x = th[t].exch
  PROVE  Shape(P, <<x>> \o Q)'
<1> DEFINE R == <<x>> \o Q
<1>1. OthersKeep(t)
  BY DEF Stack!GiveCas, Stack!Same, OthersKeep, Stack!TypeOK
<1>2. /\ th[t].pc = "giveCas" /\ th'[t] = Stack!IdleThread /\ th'[t].pc = "idle"
      /\ th[t].cmp = fsTop /\ fsTop' = x /\ held' = held \cup {th[t].value}
  BY DEF Stack!GiveCas, Stack!Same, Stack!TypeOK, Stack!IdleThread
<1>3. UNCHANGED <<top, next, data, aba, fsNext, fsAba>>
  BY DEF Stack!GiveCas, Stack!Same
<1>4. /\ th[t].elem \in Stack!Elements /\ th[t].elem \notin Ptrs(P) \cup Ptrs(Q)
      /\ fsNext[th[t].elem] = fsTop
  BY <1>2, Pcs DEF Shape, Hands, Links
<1>5. /\ x.ptr = th[t].elem /\ x.ctr \in 1 .. fsAba /\ x.ctr \notin Ctrs(Q)
      /\ \A u \in Threads : u # t /\ th[u].pc \in Returning => th[u].exch.ctr # x.ctr
      /\ \A u \in Threads : th[u].pc \in Taking => th[u].cmp.ctr # x.ctr
  BY <1>2, Pcs DEF Shape, Fresh
<1>6. x \in Pointers
  <2>1. x \in [ptr : Stack!Elements \cup {Stack!NULL}, ctr : Nat]
    BY LocalTypes
  <2>2. fsAba \in Nat
    BY DEF Stack!TypeOK
  <2> QED BY <1>4, <1>5, <2>1, <2>2 DEF Pointers
<1>7. /\ List(R, x, fsNext, fsAba)
      /\ Ptrs(R) = {x.ptr} \cup Ptrs(Q) /\ Ctrs(R) = {x.ctr} \cup Ctrs(Q)
      /\ \A pair : In(R, pair) <=> pair = x \/ In(Q, pair)
  <2>1. fsAba \in Nat /\ List(Q, fsTop, fsNext, fsAba) /\ x.ctr <= fsAba
    BY <1>5 DEF Stack!TypeOK, Shape, Lists
  <2>2. x.ptr \notin Ptrs(Q) /\ x.ctr \notin Ctrs(Q) /\ fsNext[x.ptr] = fsTop
    BY <1>4, <1>5
  <2> QED BY <1>6, <2>1, <2>2, ListPush
<1> HIDE DEF R
<1>9. \A u \in Threads : u # t => th'[u] = th[u]
  BY <1>1 DEF OthersKeep
<1>10. /\ th[t].pc \in Holding /\ th[t].pc \in Carrying
       /\ th'[t].pc \notin Holding /\ th'[t].pc \notin Carrying
       /\ th'[t].pc \notin Popping \cup Taking \cup Linking \cup Returning \cup {"empty"}
  BY <1>2, Pcs
<1>11. Lists(P, R)'
  BY <1>2, <1>3, <1>7 DEF Shape, Lists
<1>12. Hands(P, R)'
  BY <1>4, <1>5, <1>7, <1>9, <1>10 DEF Shape, Hands
<1>13. Fresh(P, Linking, Popping, aba)'
  <2>1. Fresh(P, Linking, Popping, aba)
    BY DEF Shape
  <2> QED BY <1>3, <1>9, <1>10, <2>1 DEF Fresh
<1>14. Fresh(R, Returning, Taking, fsAba)'
  <2>1. Fresh(Q, Returning, Taking, fsAba)
    BY DEF Shape
  <2> QED BY <1>3, <1>5, <1>7, <1>9, <1>10, <2>1 DEF Fresh
<1>15. Read(P, next, "popNextCtr", "popNextPtr", "popCas")'
  <2>1. th'[t].pc \notin {"popNextCtr", "popNextPtr", "popCas"}
    BY <1>10 DEF Popping
  <2> QED BY <1>3, <1>9, <2>1 DEF Shape, Read
<1>16. Read(R, fsNext, "takeNextCtr", "takeNextPtr", "takeCas")'
  <2>1. \A u \in Threads : th'[u].pc \in {"takeNextCtr", "takeNextPtr", "takeCas"}
                             => u # t /\ th'[u] = th[u] /\ th'[u].cmp # x
    BY <1>5, <1>9, <1>10 DEF Taking
  <2> QED BY <1>3, <1>7, <2>1 DEF Shape, Read
<1>17. Links'
  BY <1>2, <1>3, <1>9 DEF Shape, Links
<1>18. ContentSound(P)'
  <2>1. ContentSound(P) /\ th[t].value \in Values \ held
        /\ \A k \in 1 .. Len(P) : data[P[k].ptr] # th[t].value
    BY <1>10 DEF Shape, ContentSound
  <2>2. \A u \in Threads : u # t /\ th[u].pc \in Carrying => th[u].value # th[t].value
    BY <1>10, <2>1 DEF ContentSound
  <2> QED BY <1>2, <1>3, <1>9, <1>10, <2>1, <2>2 DEF ContentSound
<1> QED BY <1>11, <1>12, <1>13, <1>14, <1>15, <1>16, <1>17, <1>18 DEF Shape, R

(* What the properties say of a list *)

LEMMA Least ==
  ASSUME NEW S \in SUBSET Nat, S # {}
  PROVE  \E x \in S : \A y \in S : x <= y
<1> DEFINE R == OpToRel(<, Nat)
<1>1. IsWellFoundedOn(R, Nat)
  BY NatLessThanWellFounded
<1>2. PICK x \in S : \A y \in S : ~ (<<y, x>> \in R)
  BY <1>1, WFMin
<1>3. \A a, b \in Nat : <<a, b>> \in R <=> a < b
  BY DEF OpToRel
<1>4. \A y \in S : x \in Nat /\ y \in Nat /\ ~ (y < x)
  BY <1>2, <1>3
<1>5. \A a, b \in Nat : ~ (b < a) => a <= b
  OBVIOUS
<1> QED BY <1>4, <1>5, Zenon

\* A list without a loop is no longer than there are elements, and Chain finds it.
LEMMA ChainOfList ==
  ASSUME NEW P, NEW first, NEW link, NEW limit, List(P, first, link, limit)
  PROVE  Stack!Chain(first.ptr, link) = [k \in 1 .. Len(P) |-> P[k].ptr]
<1> DEFINE f == Stack!Nth(first.ptr, link)
           g == [n \in 0 .. NumElements |-> IF n < Len(P) THEN P[n + 1].ptr ELSE Stack!NULL]
           Step1(h, n) == IF n = 0 THEN first.ptr
                          ELSE IF h[n - 1] = Stack!NULL THEN Stack!NULL ELSE link[h[n - 1]].ptr
<1>1. /\ NumElements \in Nat /\ Len(P) \in Nat
      /\ \A k \in 1 .. Len(P) : P[k] \in Pointers /\ P[k].ptr \in Stack!Elements
             /\ P[k].ptr # Stack!NULL
  <2>1. \A x \in Pointers : x.ptr \in Stack!Elements /\ x.ptr # Stack!NULL
    BY ElementsAreNumbers DEF Pointers
  <2> QED BY <2>1, ListTop, StackConstants
<1>2. Len(P) <= NumElements
  <2> DEFINE h == [k \in 1 .. Len(P) |-> P[k].ptr]
  <2>1. h \in Injection(1 .. Len(P), 1 .. NumElements)
    BY <1>1 DEF List, Injection, Stack!Elements, IsInjective
  <2>2. IsFiniteSet(1 .. NumElements) /\ Cardinality(1 .. NumElements) = NumElements
        /\ Cardinality(1 .. Len(P)) = Len(P)
    <3>1. \A n \in Nat : n \in Int /\ 1 \in Int
      OBVIOUS
    <3>2. \A n \in Nat : IsFiniteSet(1 .. n)
                         /\ Cardinality(1 .. n) = IF 1 > n THEN 0 ELSE n - 1 + 1
      BY <3>1, FS_Interval
    <3> QED BY <1>1, <3>2
  <2> HIDE DEF h
  <2>3. Cardinality(1 .. Len(P)) <= Cardinality(1 .. NumElements)
    BY <2>1, <2>2, FS_Injection
  <2> QED BY <2>2, <2>3
<1>3. ASSUME NEW n \in 0 .. NumElements  PROVE g[n] = Step1(g, n)
  <2>1. CASE n = 0
    BY <1>1, <2>1 DEF List, Stack!NoPair, Stack!Pair
  <2>2. CASE n # 0
    <3>1. n - 1 \in 0 .. NumElements /\ n \in 1 .. NumElements
      BY <1>1, <2>2
    <3>2. g[n - 1] = IF n - 1 < Len(P) THEN P[n].ptr ELSE Stack!NULL
      BY <1>1, <3>1
    <3>3. CASE n <= Len(P)
      <4>1. n \in 1 .. Len(P) /\ g[n - 1] = P[n].ptr /\ g[n - 1] # Stack!NULL
        BY <1>1, <3>1, <3>2, <3>3
      <4>2. link[P[n].ptr] = IF n = Len(P) THEN Stack!NoPair ELSE P[n + 1]
        BY <4>1 DEF List
      <4>3. g[n] = IF n = Len(P) THEN Stack!NULL ELSE P[n + 1].ptr
        BY <1>1, <3>1, <3>3
      <4> QED BY <2>2, <4>1, <4>2, <4>3 DEF Stack!NoPair, Stack!Pair
    <3>4. CASE ~ (n <= Len(P))
      BY <1>1, <2>2, <3>1, <3>2, <3>4
    <3> QED BY <3>3, <3>4
  <2> QED BY <2>1, <2>2
<1>4. g = [n \in 0 .. NumElements |-> Step1(g, n)]
  <2>1. g = [n \in 0 .. NumElements |-> g[n]]
    OBVIOUS
  <2> HIDE DEF g, Step1
  <2> QED BY <1>3, <2>1
<1>5. f = [n \in 0 .. NumElements |-> Step1(f, n)]
  <2> HIDE DEF g
  <2> QED BY <1>4 DEF Stack!Nth
<1>6. ASSUME NEW n \in 0 .. NumElements  PROVE f[n] = g[n]
  <2> DEFINE Wrong == {m \in 0 .. NumElements : f[m] # g[m]}
  <2> HIDE DEF f, g
  <2>1. SUFFICES ASSUME Wrong # {}  PROVE FALSE
    OBVIOUS
  <2>2. PICK m \in Wrong : \A y \in Wrong : m <= y
    <3>1. Wrong \in SUBSET Nat
      BY <1>1
    <3> QED BY <2>1, <3>1, Least
  <2>3. f[m] = Step1(f, m) /\ g[m] = Step1(g, m) /\ f[m] # g[m]
    <3> HIDE DEF Step1
    <3> QED BY <1>3, <1>5, <2>2
  <2>4. m # 0
    BY <2>3
  <2>5. m - 1 \in 0 .. NumElements /\ ~ (m <= m - 1)
    BY <1>1, <2>2, <2>4
  <2>6. f[m - 1] = g[m - 1]
    BY <2>2, <2>5
  <2> QED BY <2>3, <2>6
<1>7. {n \in 0 .. NumElements : f[n] # Stack!NULL} = 0 .. (Len(P) - 1)
  <2>1. \A n \in 0 .. NumElements : f[n] # Stack!NULL <=> n < Len(P)
    <3>1. \A n \in 0 .. NumElements : n < Len(P) => n + 1 \in 1 .. Len(P)
      BY <1>1
    <3>2. \A n \in 0 .. NumElements : g[n] # Stack!NULL <=> n < Len(P)
      BY <1>1, <3>1
    <3> HIDE DEF f, g
    <3> QED BY <1>6, <3>2
  <2> HIDE DEF f
  <2>2. \A n : n \in 0 .. (Len(P) - 1) <=> n \in 0 .. NumElements /\ n < Len(P)
    BY <1>1, <1>2
  <2> QED BY <2>1, <2>2
<1>8. Cardinality({n \in 0 .. NumElements : f[n] # Stack!NULL}) = Len(P)
  <2>1. 0 \in Int /\ Len(P) - 1 \in Int
    BY <1>1
  <2>2. Cardinality(0 .. (Len(P) - 1)) = IF 0 > Len(P) - 1 THEN 0 ELSE (Len(P) - 1) - 0 + 1
    BY <2>1, FS_Interval
  <2>3. Cardinality(0 .. (Len(P) - 1)) = Len(P)
    BY <1>1, <2>2
  <2> HIDE DEF f
  <2> QED BY <1>7, <2>3
<1>9. \A k \in 1 .. Len(P) : f[k - 1] = P[k].ptr
  <2>1. \A k \in 1 .. Len(P) : k - 1 \in 0 .. NumElements /\ k - 1 < Len(P) /\ (k - 1) + 1 = k
    BY <1>1, <1>2
  <2>2. \A k \in 1 .. Len(P) : g[k - 1] = P[k].ptr
    BY <2>1
  <2> HIDE DEF f, g
  <2> QED BY <1>6, <2>1, <2>2
<1> HIDE DEF f
<1>10. Stack!Chain(first.ptr, link) = [k \in 1 .. Cardinality({n \in 0 .. NumElements :
           f[n] # Stack!NULL}) |-> f[k - 1]]
  BY SameCardinality DEF Stack!Chain, f
<1> QED BY <1>8, <1>9, <1>10

(* Types *)

\* A step that changes no more than what one thread holds keeps the types.
LEMMA LocalsKept ==
  ASSUME Stack!TypeOK, NEW t \in Threads, NEW r \in Stack!Locals, th' = [th EXCEPT ![t] = r],
         UNCHANGED <<top, next, data, aba, fsTop, fsNext, fsAba, held, calls>>
  PROVE  Stack!TypeOK'
<1>1. th' \in [Threads -> Stack!Locals]
  <2>1. th \in [Threads -> Stack!Locals]
    BY DEF Stack!TypeOK
  <2> QED BY <2>1
<1> QED BY <1>1 DEF Stack!TypeOK

LEMMA TypesKept ==
  ASSUME Stack!TypeOK, NEW P, NEW Q, Shape(P, Q), NEW t \in Threads,
         Stack!StartPop(t) \/ (\E v \in Values : Stack!StartPush(t, v)) \/ Stack!Step(t)
  PROVE  Stack!TypeOK'
<1>1. /\ Stack!IdleThread \in Stack!Locals
      /\ \A p \in Stack!Elements \cup {Stack!NULL}, c \in Nat : Stack!Pair(p, c) \in [ptr :
             Stack!Elements \cup {Stack!NULL}, ctr : Nat]
      /\ Stack!NoPair \in [ptr : Stack!Elements \cup {Stack!NULL}, ctr : Nat]
      /\ \A pair \in [ptr : Stack!Elements \cup {Stack!NULL}, ctr : Nat] :
             pair.ptr \in Stack!Elements \cup {Stack!NULL} /\ pair.ctr \in Nat
  BY DEF Stack!IdleThread, Stack!Locals, Stack!NoPair, Stack!Pair
<1>2. /\ th[t].cmp.ptr \in Stack!Elements \cup {Stack!NULL} /\ th[t].cmp.ctr \in Nat
      /\ th[t].exch.ptr \in Stack!Elements \cup {Stack!NULL} /\ th[t].exch.ctr \in Nat
      /\ top.ptr \in Stack!Elements \cup {Stack!NULL} /\ top.ctr \in Nat
      /\ fsTop.ptr \in Stack!Elements \cup {Stack!NULL} /\ fsTop.ctr \in Nat
      /\ aba + 1 \in Nat /\ fsAba + 1 \in Nat /\ calls + 1 \in Nat
  <2>1. /\ th[t].cmp.ptr \in Stack!Elements \cup {Stack!NULL} /\ th[t].cmp.ctr \in Nat
        /\ th[t].exch.ptr \in Stack!Elements \cup {Stack!NULL} /\ th[t].exch.ctr \in Nat
    BY <1>1, LocalTypes
  <2>2. /\ top.ptr \in Stack!Elements \cup {Stack!NULL} /\ top.ctr \in Nat
        /\ fsTop.ptr \in Stack!Elements \cup {Stack!NULL} /\ fsTop.ctr \in Nat
    BY <1>1 DEF Stack!TypeOK
  <2>3. aba + 1 \in Nat /\ fsAba + 1 \in Nat /\ calls + 1 \in Nat
    BY DEF Stack!TypeOK
  <2> QED BY <2>1, <2>2, <2>3
<1>3. /\ th[t].pc \in {"popNextCtr", "popNextPtr", "popCas",
                       "takeNextCtr", "takeNextPtr", "takeCas"}
           => th[t].cmp.ptr \in Stack!Elements
      /\ th[t].pc \in Holding => th[t].elem \in Stack!Elements
      /\ th[t].pc \in Carrying => th[t].value \in Values
  BY DEF Shape, Read, Hands, ContentSound
<1>4. CASE Stack!StartPop(t)
  <2>1. th[t] \in Stack!Locals /\ th' \in [Threads -> Stack!Locals]
    <3>1. \A r \in Stack!Locals, c \in Nat :
              [r EXCEPT !.pc = "popPtr", !.cmp.ctr = c] \in Stack!Locals
      BY DEF Stack!Locals
    <3>2. th' = [th EXCEPT ![t] = [th[t] EXCEPT !.pc = "popPtr", !.cmp.ctr = top.ctr]]
      BY <1>4 DEF Stack!StartPop
    <3> QED BY <1>2, <3>1, <3>2, LocalTypes DEF Stack!TypeOK
  <2>2. /\ top' \in [ptr : Stack!Elements \cup {Stack!NULL}, ctr : Nat]
        /\ fsTop' \in [ptr : Stack!Elements \cup {Stack!NULL}, ctr : Nat]
    BY <1>4, LocalTypes DEF Stack!StartPop, Stack!TypeOK
  <2>3. /\ next' \in [Stack!Elements -> [ptr : Stack!Elements \cup {Stack!NULL}, ctr : Nat]]
        /\ fsNext' \in [Stack!Elements -> [ptr : Stack!Elements \cup {Stack!NULL}, ctr : Nat]]
    BY <1>1, <1>4 DEF Stack!StartPop, Stack!TypeOK
  <2>4. {aba', fsAba', calls'} \subseteq Nat
    BY <1>2, <1>4 DEF Stack!StartPop, Stack!TypeOK
  <2>5. data' \in [Stack!Elements -> Values \cup {NoValue}] /\ held' \subseteq Values
    BY <1>3, <1>4, LocalTypes, Pcs DEF Stack!StartPop, Stack!TypeOK
  <2> QED BY <2>1, <2>2, <2>3, <2>4, <2>5 DEF Stack!TypeOK
<1>5. CASE Stack!PopReadPointer(t)
  <2>1. PICK r \in Stack!Locals : th' = [th EXCEPT ![t] = r]
    <3>1. ASSUME NEW r \in Stack!Locals, NEW p \in Stack!Elements \cup {Stack!NULL},
                 NEW label \in {"empty", "popNextCtr"}
          PROVE  [r EXCEPT !.cmp.ptr = p, !.pc = label] \in Stack!Locals
      <4>1. [r EXCEPT !.cmp.ptr = p] \in Stack!Locals
        BY DEF Stack!Locals
      <4>2. \A q \in Stack!Locals : [q EXCEPT !.pc = label] \in Stack!Locals
        BY DEF Stack!Locals
      <4>3. [r EXCEPT !.cmp.ptr = p, !.pc = label] = [[r EXCEPT !.cmp.ptr = p] EXCEPT !.pc = label]
        OBVIOUS
      <4> QED BY <4>1, <4>2, <4>3
    <3>2. th[t] \in Stack!Locals
      BY LocalTypes
    <3>5. Stack!PopTest(top.ptr) \in {"empty", "popNextCtr"}
      BY DEF Stack!PopTest
    <3>3. [th[t] EXCEPT !.cmp.ptr = top.ptr, !.pc = Stack!PopTest(top.ptr)] \in Stack!Locals
      BY <1>2, <3>1, <3>2, <3>5
    <3>4. th' = [th EXCEPT ![t] = [th[t] EXCEPT !.cmp.ptr = top.ptr, !.pc = Stack!PopTest(top.ptr)]]
      BY <1>5 DEF Stack!PopReadPointer
    <3> QED BY <3>3, <3>4
  <2>2. UNCHANGED <<top, next, data, aba, fsTop, fsNext, fsAba, held, calls>>
    BY <1>5 DEF Stack!PopReadPointer
  <2> QED BY <2>1, <2>2, LocalsKept
<1>6. CASE Stack!PopReadNextCounter(t)
  <2>1. PICK r \in Stack!Locals : th' = [th EXCEPT ![t] = r]
    <3>1. \A r \in Stack!Locals, c \in Nat :
            [r EXCEPT !.exch.ctr = c, !.pc = "popNextPtr"] \in Stack!Locals
      BY DEF Stack!Locals
    <3>2. th[t] \in Stack!Locals
      BY LocalTypes
    <3>5. next[th[t].cmp.ptr].ctr \in Nat
      <4>1. next[th[t].cmp.ptr] \in [ptr : Stack!Elements \cup {Stack!NULL}, ctr : Nat]
        BY <1>6, <1>3 DEF Stack!PopReadNextCounter, Stack!TypeOK
      <4> QED BY <1>1, <4>1
    <3>3. [th[t] EXCEPT !.exch.ctr = next[th[t].cmp.ptr].ctr, !.pc = "popNextPtr"] \in Stack!Locals
      BY <3>1, <3>2, <3>5
    <3>4. th' = [th EXCEPT ![t] = [th[t] EXCEPT !.exch.ctr = next[th[t].cmp.ptr].ctr, !.pc = "popNextPtr"]]
      BY <1>6 DEF Stack!PopReadNextCounter
    <3> QED BY <3>3, <3>4
  <2>2. UNCHANGED <<top, next, data, aba, fsTop, fsNext, fsAba, held, calls>>
    BY <1>6 DEF Stack!PopReadNextCounter
  <2> QED BY <2>1, <2>2, LocalsKept
<1>7. CASE Stack!PopReadNextPointer(t)
  <2>1. PICK r \in Stack!Locals : th' = [th EXCEPT ![t] = r]
    <3>1. \A r \in Stack!Locals, p \in Stack!Elements \cup {Stack!NULL} :
            [r EXCEPT !.exch.ptr = p, !.pc = "popCas"] \in Stack!Locals
      BY DEF Stack!Locals
    <3>2. th[t] \in Stack!Locals
      BY LocalTypes
    <3>5. next[th[t].cmp.ptr].ptr \in Stack!Elements \cup {Stack!NULL}
      <4>1. next[th[t].cmp.ptr] \in [ptr : Stack!Elements \cup {Stack!NULL}, ctr : Nat]
        BY <1>7, <1>3 DEF Stack!PopReadNextPointer, Stack!TypeOK
      <4> QED BY <1>1, <4>1
    <3>3. [th[t] EXCEPT !.exch.ptr = next[th[t].cmp.ptr].ptr, !.pc = "popCas"] \in Stack!Locals
      BY <3>1, <3>2, <3>5
    <3>4. th' = [th EXCEPT ![t] = [th[t] EXCEPT !.exch.ptr = next[th[t].cmp.ptr].ptr, !.pc = "popCas"]]
      BY <1>7 DEF Stack!PopReadNextPointer
    <3> QED BY <3>3, <3>4
  <2>2. UNCHANGED <<top, next, data, aba, fsTop, fsNext, fsAba, held, calls>>
    BY <1>7 DEF Stack!PopReadNextPointer
  <2> QED BY <2>1, <2>2, LocalsKept
<1>8. CASE Stack!PopCas(t)
  <2>1. th' \in [Threads -> Stack!Locals]
    <3>1. \A r \in Stack!Locals, p \in Stack!Elements, v \in Values \cup {NoValue} :
            [r EXCEPT !.elem = p, !.value = v, !.pc = "give"] \in Stack!Locals
      BY DEF Stack!Locals
    <3>2. \A r \in Stack!Locals, pair \in [ptr : Stack!Elements \cup {Stack!NULL}, ctr : Nat], label \in {"empty", "popNextCtr"} :
            [r EXCEPT !.cmp = pair, !.pc = label] \in Stack!Locals
      BY DEF Stack!Locals
    <3>3. th[t] \in Stack!Locals /\ th \in [Threads -> Stack!Locals]
      BY LocalTypes DEF Stack!TypeOK
    <3>4. th[t].cmp.ptr \in Stack!Elements /\ data[th[t].cmp.ptr] \in Values \cup {NoValue}
      BY <1>3, <1>8 DEF Stack!PopCas, Stack!TypeOK
    <3>5. Stack!PopTest(top.ptr) \in {"empty", "popNextCtr"}
      BY DEF Stack!PopTest
    <3>6. [th[t] EXCEPT !.elem = th[t].cmp.ptr, !.value = data[th[t].cmp.ptr], !.pc = "give"]
            \in Stack!Locals
      BY <3>1, <3>3, <3>4
    <3>7. [th[t] EXCEPT !.cmp = top, !.pc = Stack!PopTest(top.ptr)] \in Stack!Locals
      BY <3>2, <3>3, <3>5 DEF Stack!TypeOK
    <3>8. \/ th' = [th EXCEPT ![t] = [th[t] EXCEPT !.elem = th[t].cmp.ptr,
                                                  !.value = data[th[t].cmp.ptr], !.pc = "give"]]
          \/ th' = [th EXCEPT ![t] = [th[t] EXCEPT !.cmp = top, !.pc = Stack!PopTest(top.ptr)]]
      BY <1>8 DEF Stack!PopCas, Stack!Found
    <3> QED BY <3>3, <3>6, <3>7, <3>8
  <2>2. top' \in [ptr : Stack!Elements \cup {Stack!NULL}, ctr : Nat]
    BY <1>8, LocalTypes DEF Stack!PopCas, Stack!TypeOK
  <2>3. UNCHANGED <<next, data, aba, fsTop, fsNext, fsAba, held, calls>>
    BY <1>8 DEF Stack!PopCas
  <2> QED BY <2>1, <2>2, <2>3 DEF Stack!TypeOK
<1>9. CASE Stack!PopEmpty(t)
  BY <1>1, <1>2, <1>3, <1>9, LocalTypes, Pcs DEF Stack!PopEmpty, Stack!TypeOK, Stack!Locals
<1>10. CASE Stack!GiveCounter(t)
  BY <1>1, <1>2, <1>3, <1>10, LocalTypes, Pcs DEF Stack!GiveCounter, Stack!TypeOK, Stack!Locals
<1>11. CASE Stack!GiveLink(t)
  BY <1>1, <1>2, <1>3, <1>11, LocalTypes, Pcs DEF Stack!GiveLink, Stack!TypeOK, Stack!Locals,
     Stack!Found, Stack!PopTest
<1>12. CASE Stack!GiveCas(t)
  <2>1. th[t] \in Stack!Locals /\ th' \in [Threads -> Stack!Locals]
    <3>1. \A r \in Stack!Locals, pair \in [ptr : Stack!Elements \cup {Stack!NULL}, ctr : Nat] :
            [r EXCEPT !.cmp = pair, !.pc = "giveCas"] \in Stack!Locals
      BY DEF Stack!Locals
    <3>2. \/ th' = [th EXCEPT ![t] = Stack!IdleThread]
          \/ th' = [th EXCEPT ![t] = [th[t] EXCEPT !.cmp = fsTop, !.pc = "giveCas"]]
      BY <1>12 DEF Stack!GiveCas, Stack!Found
    <3>4. [th[t] EXCEPT !.cmp = fsTop, !.pc = "giveCas"] \in Stack!Locals
      BY <3>1, LocalTypes DEF Stack!TypeOK
    <3> QED BY <1>1, <3>2, <3>4, LocalTypes DEF Stack!TypeOK
  <2>2. /\ top' \in [ptr : Stack!Elements \cup {Stack!NULL}, ctr : Nat]
        /\ fsTop' \in [ptr : Stack!Elements \cup {Stack!NULL}, ctr : Nat]
    BY <1>12, LocalTypes DEF Stack!GiveCas, Stack!TypeOK
  <2>3. /\ next' \in [Stack!Elements -> [ptr : Stack!Elements \cup {Stack!NULL}, ctr : Nat]]
        /\ fsNext' \in [Stack!Elements -> [ptr : Stack!Elements \cup {Stack!NULL}, ctr : Nat]]
    <3>1. fsNext' = fsNext \/ fsNext' = [fsNext EXCEPT ![th[t].elem] = fsTop]
      BY <1>12 DEF Stack!GiveCas
    <3> QED BY <1>12, <3>1 DEF Stack!GiveCas, Stack!TypeOK
  <2>4. {aba', fsAba', calls'} \subseteq Nat
    BY <1>2, <1>12 DEF Stack!GiveCas, Stack!TypeOK
  <2>5. data' \in [Stack!Elements -> Values \cup {NoValue}] /\ held' \subseteq Values
    BY <1>3, <1>12, LocalTypes, Pcs DEF Stack!GiveCas, Stack!TypeOK
  <2> QED BY <2>1, <2>2, <2>3, <2>4, <2>5 DEF Stack!TypeOK
<1>13. CASE Stack!TakeReadPointer(t)
  <2>1. PICK r \in Stack!Locals : th' = [th EXCEPT ![t] = r]
    <3>1. \A r \in Stack!Locals, p \in Stack!Elements \cup {Stack!NULL} :
            [r EXCEPT !.cmp.ptr = p, !.pc = "takeNextCtr"] \in Stack!Locals
      BY DEF Stack!Locals
    <3>2. th[t] \in Stack!Locals
      BY LocalTypes
    <3>3. [th[t] EXCEPT !.cmp.ptr = fsTop.ptr, !.pc = "takeNextCtr"] \in Stack!Locals
      BY <1>2, <3>1, <3>2
    <3>4. \/ th' = [th EXCEPT ![t] = Stack!IdleThread]
          \/ th' = [th EXCEPT ![t] = [th[t] EXCEPT !.cmp.ptr = fsTop.ptr, !.pc = "takeNextCtr"]]
      BY <1>13 DEF Stack!TakeReadPointer
    <3> QED BY <1>1, <3>3, <3>4
  <2>2. UNCHANGED <<top, next, data, aba, fsTop, fsNext, fsAba, held, calls>>
    BY <1>13 DEF Stack!TakeReadPointer
  <2> QED BY <2>1, <2>2, LocalsKept
<1>14. CASE Stack!TakeReadNextCounter(t)
  <2>1. PICK r \in Stack!Locals : th' = [th EXCEPT ![t] = r]
    <3>1. \A r \in Stack!Locals, c \in Nat :
            [r EXCEPT !.exch.ctr = c, !.pc = "takeNextPtr"] \in Stack!Locals
      BY DEF Stack!Locals
    <3>2. th[t] \in Stack!Locals
      BY LocalTypes
    <3>5. fsNext[th[t].cmp.ptr].ctr \in Nat
      <4>1. fsNext[th[t].cmp.ptr] \in [ptr : Stack!Elements \cup {Stack!NULL}, ctr : Nat]
        BY <1>14, <1>3 DEF Stack!TakeReadNextCounter, Stack!TypeOK
      <4> QED BY <1>1, <4>1
    <3>3. [th[t] EXCEPT !.exch.ctr = fsNext[th[t].cmp.ptr].ctr, !.pc = "takeNextPtr"] \in Stack!Locals
      BY <3>1, <3>2, <3>5
    <3>4. th' = [th EXCEPT ![t] = [th[t] EXCEPT !.exch.ctr = fsNext[th[t].cmp.ptr].ctr, !.pc = "takeNextPtr"]]
      BY <1>14 DEF Stack!TakeReadNextCounter
    <3> QED BY <3>3, <3>4
  <2>2. UNCHANGED <<top, next, data, aba, fsTop, fsNext, fsAba, held, calls>>
    BY <1>14 DEF Stack!TakeReadNextCounter
  <2> QED BY <2>1, <2>2, LocalsKept
<1>15. CASE Stack!TakeReadNextPointer(t)
  <2>1. PICK r \in Stack!Locals : th' = [th EXCEPT ![t] = r]
    <3>1. \A r \in Stack!Locals, p \in Stack!Elements \cup {Stack!NULL} :
            [r EXCEPT !.exch.ptr = p, !.pc = "takeCas"] \in Stack!Locals
      BY DEF Stack!Locals
    <3>2. th[t] \in Stack!Locals
      BY LocalTypes
    <3>5. fsNext[th[t].cmp.ptr].ptr \in Stack!Elements \cup {Stack!NULL}
      <4>1. fsNext[th[t].cmp.ptr] \in [ptr : Stack!Elements \cup {Stack!NULL}, ctr : Nat]
        BY <1>15, <1>3 DEF Stack!TakeReadNextPointer, Stack!TypeOK
      <4> QED BY <1>1, <4>1
    <3>3. [th[t] EXCEPT !.exch.ptr = fsNext[th[t].cmp.ptr].ptr, !.pc = "takeCas"] \in Stack!Locals
      BY <3>1, <3>2, <3>5
    <3>4. th' = [th EXCEPT ![t] = [th[t] EXCEPT !.exch.ptr = fsNext[th[t].cmp.ptr].ptr, !.pc = "takeCas"]]
      BY <1>15 DEF Stack!TakeReadNextPointer
    <3> QED BY <3>3, <3>4
  <2>2. UNCHANGED <<top, next, data, aba, fsTop, fsNext, fsAba, held, calls>>
    BY <1>15 DEF Stack!TakeReadNextPointer
  <2> QED BY <2>1, <2>2, LocalsKept
<1>16. CASE Stack!TakeCas(t)
  <2>1. th[t] \in Stack!Locals /\ th' \in [Threads -> Stack!Locals]
    <3>1. \A r \in Stack!Locals, pair \in [ptr : Stack!Elements \cup {Stack!NULL}, ctr : Nat] :
            [r EXCEPT !.cmp = pair, !.pc = "takeNextCtr"] \in Stack!Locals
      BY DEF Stack!Locals
    <3>2. \/ th' = [th EXCEPT ![t] = Stack!IdleThread]
          \/ th' = [th EXCEPT ![t] = [th[t] EXCEPT !.cmp = fsTop, !.pc = "takeNextCtr"]]
          \/ th' = [th EXCEPT ![t] = [th[t] EXCEPT !.elem = th[t].cmp.ptr, !.pc = "init"]]
      BY <1>16 DEF Stack!TakeCas, Stack!Found
    <3>4. [th[t] EXCEPT !.cmp = fsTop, !.pc = "takeNextCtr"] \in Stack!Locals
      BY <3>1, LocalTypes DEF Stack!TypeOK
    <3>3. \A r \in Stack!Locals : [r EXCEPT !.elem = r.cmp.ptr, !.pc = "init"] \in Stack!Locals
      BY DEF Stack!Locals
    <3>5. [th[t] EXCEPT !.elem = th[t].cmp.ptr, !.pc = "init"] \in Stack!Locals
      BY <3>3, LocalTypes
    <3> QED BY <1>1, <3>5, <3>2, <3>4, LocalTypes DEF Stack!TypeOK
  <2>2. /\ top' \in [ptr : Stack!Elements \cup {Stack!NULL}, ctr : Nat]
        /\ fsTop' \in [ptr : Stack!Elements \cup {Stack!NULL}, ctr : Nat]
    BY <1>16, LocalTypes DEF Stack!TakeCas, Stack!TypeOK
  <2>3. /\ next' \in [Stack!Elements -> [ptr : Stack!Elements \cup {Stack!NULL}, ctr : Nat]]
        /\ fsNext' \in [Stack!Elements -> [ptr : Stack!Elements \cup {Stack!NULL}, ctr : Nat]]
    BY <1>1, <1>16 DEF Stack!TakeCas, Stack!TypeOK
  <2>4. {aba', fsAba', calls'} \subseteq Nat
    BY <1>2, <1>16 DEF Stack!TakeCas, Stack!TypeOK
  <2>5. data' \in [Stack!Elements -> Values \cup {NoValue}] /\ held' \subseteq Values
    BY <1>3, <1>16, LocalTypes, Pcs DEF Stack!TakeCas, Stack!TypeOK
  <2> QED BY <2>1, <2>2, <2>3, <2>4, <2>5 DEF Stack!TypeOK
<1>17. CASE Stack!InitElement(t)
  <2>1. th[t] \in Stack!Locals /\ th' \in [Threads -> Stack!Locals]
    <3>1. \A r \in Stack!Locals, pair \in [ptr : Stack!Elements \cup {Stack!NULL}, ctr :
              Nat], p \in Stack!Elements \cup {Stack!NULL} :
            [r EXCEPT !.exch = pair, !.cmp.ptr = p, !.pc = "pushLink"] \in Stack!Locals
      <4> SUFFICES ASSUME NEW r \in Stack!Locals, NEW p \in Stack!Elements \cup {Stack!NULL},
                          NEW pair \in [ptr : Stack!Elements \cup {Stack!NULL}, ctr : Nat]
                   PROVE  [r EXCEPT !.exch = pair, !.cmp.ptr = p, !.pc = "pushLink"]
                            \in Stack!Locals
        OBVIOUS
      <4>1. [r EXCEPT !.cmp.ptr = p] \in Stack!Locals
        BY DEF Stack!Locals
      <4>2. \A q \in Stack!Locals : [q EXCEPT !.exch = pair, !.pc = "pushLink"] \in Stack!Locals
        BY DEF Stack!Locals
      <4>3. [r EXCEPT !.exch = pair, !.cmp.ptr = p, !.pc = "pushLink"]
              = [[r EXCEPT !.cmp.ptr = p] EXCEPT !.exch = pair, !.pc = "pushLink"]
        OBVIOUS
      <4> QED BY <4>1, <4>2, <4>3
    <3>2. th' = [th EXCEPT ![t] = [th[t] EXCEPT !.exch = Stack!Pair(th[t].elem, aba + 1),
                                                !.cmp.ptr = top.ptr, !.pc = "pushLink"]]
      BY <1>17 DEF Stack!InitElement
    <3> QED BY <1>1, <1>2, <3>1, <3>2, LocalTypes DEF Stack!TypeOK
  <2>2. /\ top' \in [ptr : Stack!Elements \cup {Stack!NULL}, ctr : Nat]
        /\ fsTop' \in [ptr : Stack!Elements \cup {Stack!NULL}, ctr : Nat]
    BY <1>17, LocalTypes DEF Stack!InitElement, Stack!TypeOK
  <2>3. /\ next' \in [Stack!Elements -> [ptr : Stack!Elements \cup {Stack!NULL}, ctr : Nat]]
        /\ fsNext' \in [Stack!Elements -> [ptr : Stack!Elements \cup {Stack!NULL}, ctr : Nat]]
    BY <1>1, <1>17 DEF Stack!InitElement, Stack!TypeOK
  <2>4. {aba', fsAba', calls'} \subseteq Nat
    BY <1>2, <1>17 DEF Stack!InitElement, Stack!TypeOK
  <2>5. data' \in [Stack!Elements -> Values \cup {NoValue}] /\ held' \subseteq Values
    BY <1>3, <1>17, LocalTypes, Pcs DEF Stack!InitElement, Stack!TypeOK
  <2> QED BY <2>1, <2>2, <2>3, <2>4, <2>5 DEF Stack!TypeOK
<1>18. CASE Stack!PushLink(t)
  BY <1>1, <1>2, <1>3, <1>18, LocalTypes, Pcs DEF Stack!PushLink, Stack!TypeOK, Stack!Locals,
     Stack!Found, Stack!PopTest
<1>19. CASE Stack!PushCas(t)
  <2>1. th[t] \in Stack!Locals /\ th' \in [Threads -> Stack!Locals]
    <3>1. \A r \in Stack!Locals, pair \in [ptr : Stack!Elements \cup {Stack!NULL}, ctr : Nat] :
            [r EXCEPT !.cmp = pair, !.pc = "pushCas"] \in Stack!Locals
      BY DEF Stack!Locals
    <3>2. \/ th' = [th EXCEPT ![t] = Stack!IdleThread]
          \/ th' = [th EXCEPT ![t] = [th[t] EXCEPT !.cmp = top, !.pc = "pushCas"]]
      BY <1>19 DEF Stack!PushCas, Stack!Found
    <3>4. [th[t] EXCEPT !.cmp = top, !.pc = "pushCas"] \in Stack!Locals
      BY <3>1, LocalTypes DEF Stack!TypeOK
    <3> QED BY <1>1, <3>2, <3>4, LocalTypes DEF Stack!TypeOK
  <2>2. /\ top' \in [ptr : Stack!Elements \cup {Stack!NULL}, ctr : Nat]
        /\ fsTop' \in [ptr : Stack!Elements \cup {Stack!NULL}, ctr : Nat]
    BY <1>19, LocalTypes DEF Stack!PushCas, Stack!TypeOK
  <2>3. /\ next' \in [Stack!Elements -> [ptr : Stack!Elements \cup {Stack!NULL}, ctr : Nat]]
        /\ fsNext' \in [Stack!Elements -> [ptr : Stack!Elements \cup {Stack!NULL}, ctr : Nat]]
    <3>1. next' = next \/ next' = [next EXCEPT ![th[t].elem] = top]
      BY <1>19 DEF Stack!PushCas
    <3> QED BY <1>19, <3>1 DEF Stack!PushCas, Stack!TypeOK
  <2>4. {aba', fsAba', calls'} \subseteq Nat
    BY <1>2, <1>19 DEF Stack!PushCas, Stack!TypeOK
  <2>5. data' \in [Stack!Elements -> Values \cup {NoValue}] /\ held' \subseteq Values
    BY <1>3, <1>19, LocalTypes, Pcs DEF Stack!PushCas, Stack!TypeOK
  <2> QED BY <2>1, <2>2, <2>3, <2>4, <2>5 DEF Stack!TypeOK
<1>20. CASE \E v \in Values : Stack!StartPush(t, v)
  <2>0. PICK v \in Values : Stack!StartPush(t, v)
    BY <1>20
  <2>1. th' \in [Threads -> Stack!Locals]
    <3>1. \A r \in Stack!Locals, c \in Nat :
            [r EXCEPT !.value = v, !.cmp.ctr = c, !.pc = "takePtr"] \in Stack!Locals
      BY DEF Stack!Locals
    <3>2. th' = [th EXCEPT ![t] = [th[t] EXCEPT !.value = v, !.cmp.ctr = fsTop.ctr, !.pc
              = "takePtr"]]
      BY <2>0 DEF Stack!StartPush
    <3> QED BY <1>2, <3>1, <3>2, LocalTypes DEF Stack!TypeOK
  <2>2. {calls'} \subseteq Nat /\ held' \subseteq Values
    BY <1>2, <2>0 DEF Stack!StartPush, Stack!TypeOK
  <2> QED BY <2>0, <2>1, <2>2 DEF Stack!TypeOK, Stack!StartPush
<1> QED BY <1>4, <1>5, <1>6, <1>7, <1>8, <1>9, <1>10, <1>11, <1>12, <1>13, <1>14, <1>15, <1>16,
           <1>17, <1>18, <1>19, <1>20 DEF Stack!Step

(* The invariant *)

\* The stack as stack_new leaves it: what was pushed last is the last element.
LEMMA InitShape ==
  ASSUME Stack!Init
  PROVE  Stack!TypeOK /\ \E P, Q \in Seq(Pointers) : Shape(P, Q) /\ Len(P) = Cardinality(Values)
<1> DEFINE size == NumElements
           m == Cardinality(Values)
<1>1. size \in Nat /\ m \in Nat /\ m <= size
  BY StackConstants, FS_CardinalityType
<1> HIDE DEF m
<1>2. PICK order \in [1 .. m -> Values] :
        /\ \A a, b \in 1 .. m : order[a] = order[b] => a = b
        /\ top = IF m = 0 THEN Stack!NoPair ELSE Stack!Pair(size - m + 1, m)
        /\ next = [e \in Stack!Elements |-> IF e > size - m /\ e < size
               THEN Stack!Pair(e + 1, size - e)
                                      ELSE Stack!NoPair]
        /\ data = [e \in Stack!Elements |-> IF e > size - m THEN order[size - e + 1] ELSE NoValue]
        /\ aba = m
        /\ fsTop = Stack!Pair(size - m, size - m)
        /\ fsNext = [e \in Stack!Elements |-> Stack!Pair(e - 1, e - 1)]
        /\ fsAba = size
        /\ th = [t \in Threads |-> Stack!IdleThread]
        /\ held = {}
        /\ calls = 0
  <2>1. PICK order \in {s \in [1 .. m -> Values] : \A a, b \in DOMAIN s : s[a] = s[b] => a = b} :
        /\ top = IF Len(order) = 0 THEN Stack!NoPair
               ELSE Stack!Pair(size - Len(order) + 1, Len(order))
        /\ next = [e \in Stack!Elements |-> IF e > size - Len(order) /\ e < size
                                      THEN Stack!Pair(e + 1, (size - e + 1) - 1) ELSE Stack!NoPair]
        /\ data = [e \in Stack!Elements |-> IF e > size - Len(order)
               THEN order[size - e + 1] ELSE NoValue]
        /\ aba = Len(order)
        /\ fsTop = Stack!Pair(size - Len(order), size - Len(order))
        /\ fsNext = [e \in Stack!Elements |-> Stack!Pair(e - 1, e - 1)]
        /\ fsAba = size
        /\ th = [t \in Threads |-> Stack!IdleThread]
        /\ held = {}
        /\ calls = 0
    BY SameCardinality DEF Stack!Init, m
  <2>2. Len(order) = m /\ DOMAIN order = 1 .. m
    BY <1>1
  <2>3. \A e \in Stack!Elements : (size - e + 1) - 1 = size - e
    BY <1>1, ElementsAreNumbers
  <2>4. [e \in Stack!Elements |-> IF e > size - m /\ e < size
            THEN Stack!Pair(e + 1, (size - e + 1) - 1) ELSE Stack!NoPair]
        = [e \in Stack!Elements |-> IF e > size - m /\ e < size
            THEN Stack!Pair(e + 1, size - e) ELSE Stack!NoPair]
    BY <2>3
  <2> QED BY <2>1, <2>2, <2>4
<1> DEFINE P == [k \in 1 .. m |-> Stack!Pair(size - m + k, m + 1 - k)]
           Q == [k \in 1 .. (size - m) |-> Stack!Pair(size - m + 1 - k, size - m + 1 - k)]
<1>3. /\ P \in Seq(Pointers) /\ Len(P) = m
      /\ \A k \in 1 .. m : P[k].ptr = size - m + k /\ P[k].ctr = m + 1 - k
      /\ \A k \in 1 .. m : P[k].ptr \in Stack!Elements
  <2>1. \A k \in 1 .. m : Stack!Pair(size - m + k, m + 1 - k) \in Pointers
            /\ size - m + k \in Stack!Elements
    BY <1>1 DEF Stack!Pair, Pointers, Stack!Elements
  <2>2. P \in [1 .. m -> Pointers]
    BY <2>1
  <2>3. \A k \in 1 .. m : P[k] = Stack!Pair(size - m + k, m + 1 - k)
    OBVIOUS
  <2> HIDE DEF P
  <2>4. P \in Seq(Pointers) /\ Len(P) = m
    BY <1>1, <2>2
  <2> QED BY <2>1, <2>3, <2>4 DEF Stack!Pair
<1>4. /\ Q \in Seq(Pointers) /\ Len(Q) = size - m
      /\ \A k \in 1 .. (size - m) : Q[k].ptr = size - m + 1 - k /\ Q[k].ctr = size - m + 1 - k
      /\ \A k \in 1 .. (size - m) : Q[k].ptr \in Stack!Elements
  <2>1. \A k \in 1 .. (size - m) : /\ Stack!Pair(size - m + 1 - k, size - m + 1 - k) \in Pointers
                                /\ size - m + 1 - k \in Stack!Elements
    BY <1>1 DEF Stack!Pair, Pointers, Stack!Elements
  <2>2. size - m \in Nat
    BY <1>1
  <2> QED BY <2>1, <2>2 DEF Stack!Pair
<1>5. \A t \in Threads : th[t] = Stack!IdleThread
  BY <1>2
<1>6. Stack!IdleThread.pc = "idle" /\ Stack!IdleThread.value = NoValue
          /\ Stack!IdleThread \in Stack!Locals
  BY DEF Stack!IdleThread, Stack!Locals, Stack!NoPair, Stack!Pair
<1>7. Stack!TypeOK
  <2>1. \A e \in Stack!Elements : e \in Nat /\ e # 0 /\ e <= size
    BY <1>1 DEF Stack!Elements
  <2>2. /\ Stack!NoPair \in [ptr : Stack!Elements \cup {Stack!NULL}, ctr : Nat]
        /\ \A e \in Stack!Elements \cup {Stack!NULL}, c \in Nat : Stack!Pair(e, c) \in [ptr :
               Stack!Elements \cup {Stack!NULL}, ctr : Nat]
    BY DEF Stack!NoPair, Stack!Pair
  <2>3. \A e \in Stack!Elements : e < size => e + 1 \in Stack!Elements /\ size - e \in Nat
    BY <1>1 DEF Stack!Elements
  <2>4. \A e \in Stack!Elements : e - 1 \in Stack!Elements \cup {Stack!NULL} /\ e - 1 \in Nat
    BY <1>1 DEF Stack!Elements, Stack!NULL
  <2>5. next \in [Stack!Elements -> [ptr : Stack!Elements \cup {Stack!NULL}, ctr : Nat]]
    BY <1>2, <2>2, <2>3
  <2>6. fsNext \in [Stack!Elements -> [ptr : Stack!Elements \cup {Stack!NULL}, ctr : Nat]]
    BY <1>2, <2>2, <2>4
  <2>7. data \in [Stack!Elements -> Values \cup {NoValue}]
    <3>1. \A e \in Stack!Elements : e > size - m => size - e + 1 \in 1 .. m
      BY <1>1 DEF Stack!Elements
    <3> QED BY <1>2, <3>1
  <2>8. top \in [ptr : Stack!Elements \cup {Stack!NULL}, ctr : Nat]
    <3>1. m # 0 => size - m + 1 \in Stack!Elements
      BY <1>1 DEF Stack!Elements
    <3> QED BY <1>1, <1>2, <2>2, <3>1
  <2>9. fsTop \in [ptr : Stack!Elements \cup {Stack!NULL}, ctr : Nat]
    <3>1. size - m \in Stack!Elements \cup {Stack!NULL} /\ size - m \in Nat
      BY <1>1 DEF Stack!Elements, Stack!NULL
    <3> QED BY <1>2, <2>2, <3>1
  <2>10. th \in [Threads -> Stack!Locals]
    BY <1>2, <1>6
  <2> QED BY <1>1, <1>2, <2>5, <2>6, <2>7, <2>8, <2>9, <2>10 DEF Stack!TypeOK
<1>8. List(P, top, next, aba)
  <2>1. top = IF m = 0 THEN Stack!NoPair ELSE P[1]
    <3>1. m # 0 => 1 \in 1 .. m /\ m + 1 - 1 = m
      BY <1>1
    <3> QED BY <1>2, <3>1
  <2>2. ASSUME NEW k \in 1 .. m
        PROVE  next[P[k].ptr] = IF k = m THEN Stack!NoPair ELSE P[k + 1]
    <3>1. size - m + k \in Stack!Elements /\ size - m + k > size - m /\ (size - m + k < size
              <=> k # m)
      <4> HIDE DEF P
      <4>1. size - m + k \in Stack!Elements
        BY <1>3
      <4> QED BY <1>1, <4>1
    <3>2. next[size - m + k] = IF k # m
              THEN Stack!Pair(size - m + k + 1, size - (size - m + k)) ELSE Stack!NoPair
      BY <1>2, <3>1
    <3>3. k # m => /\ k + 1 \in 1 .. m /\ size - m + (k + 1) = size - m + k + 1
                   /\ size - (size - m + k) = m + 1 - (k + 1)
      BY <1>1
    <3> QED BY <1>3, <3>2, <3>3
  <2>3. \A a, b \in 1 .. m : a # b => P[a].ptr # P[b].ptr /\ P[a].ctr # P[b].ctr
    <3>1. \A a, b \in 1 .. m : a # b => size - m + a # size - m + b /\ m + 1 - a # m + 1 - b
      BY <1>1
    <3> HIDE DEF P
    <3> QED BY <1>3, <3>1
  <2>4. \A k \in 1 .. m : P[k].ctr <= m
    BY <1>1, <1>3
  <2> HIDE DEF P
  <2> QED BY <1>2, <1>3, <2>1, <2>2, <2>3, <2>4 DEF List
<1>9. List(Q, fsTop, fsNext, fsAba)
  <2>0. size - m \in Nat
    BY <1>1
  <2>1. fsTop = IF size - m = 0 THEN Stack!NoPair ELSE Q[1]
    <3>1. size - m # 0 => 1 \in 1 .. (size - m) /\ size - m + 1 - 1 = size - m
      BY <1>1
    <3> QED BY <1>2, <3>1 DEF Stack!NoPair, Stack!Pair, Stack!NULL
  <2>2. ASSUME NEW k \in 1 .. (size - m)
        PROVE  fsNext[Q[k].ptr] = IF k = size - m THEN Stack!NoPair ELSE Q[k + 1]
    <3>1. size - m + 1 - k \in Stack!Elements
      <4> HIDE DEF Q
      <4> QED BY <1>4
    <3>2. \A e \in Stack!Elements : fsNext[e] = Stack!Pair(e - 1, e - 1)
      BY <1>2
    <3>3. IF k = size - m THEN size - m + 1 - k - 1 = 0
          ELSE k + 1 \in 1 .. (size - m) /\ size - m + 1 - (k + 1) = size - m + 1 - k - 1
      BY <1>1, <2>0
    <3>4. fsNext[size - m + 1 - k] = Stack!Pair(size - m + 1 - k - 1, size - m + 1 - k - 1)
      <4>1. PICK x \in Stack!Elements : x = size - m + 1 - k
        BY <3>1
      <4>2. fsNext[x] = Stack!Pair(x - 1, x - 1)
        BY <3>2
      <4>3. x - 1 = size - m + 1 - k - 1
        BY <1>1, <2>0, <4>1
      <4> QED BY <4>1, <4>2, <4>3
    <3> HIDE DEF Q
    <3>5. Q[k].ptr = size - m + 1 - k
      BY <1>4
    <3>6. CASE k = size - m
      BY <3>3, <3>4, <3>5, <3>6 DEF Stack!NoPair, Stack!Pair, Stack!NULL
    <3>7. CASE k # size - m
      <4>1. Q[k + 1] = Stack!Pair(size - m + 1 - k - 1, size - m + 1 - k - 1)
        BY <3>3, <3>7 DEF Q
      <4> QED BY <3>4, <3>5, <3>7, <4>1
    <3> QED BY <3>6, <3>7
  <2>3. \A a, b \in 1 .. (size - m) : a # b => Q[a].ptr # Q[b].ptr /\ Q[a].ctr # Q[b].ctr
    <3>1. \A a, b \in 1 .. (size - m) : a # b => size - m + 1 - a # size - m + 1 - b
      BY <1>1, <2>0
    <3> HIDE DEF Q
    <3> QED BY <1>4, <3>1
  <2>4. \A k \in 1 .. (size - m) : Q[k].ctr <= size
    BY <1>1, <1>4, <2>0
  <2> HIDE DEF Q
  <2> QED BY <1>2, <1>4, <2>1, <2>2, <2>3, <2>4 DEF List
<1>10. \A e : e \in Ptrs(P) <=> e \in Stack!Elements /\ e > size - m
  <2>1. \A e \in Stack!Elements : e > size - m
            => e - (size - m) \in 1 .. m /\ size - m + (e - (size - m)) = e
    BY <1>1 DEF Stack!Elements
  <2>2. \A k \in 1 .. m : size - m + k > size - m
    BY <1>1
  <2> HIDE DEF P
  <2>3. \A e \in Stack!Elements : e > size - m => \E k \in 1 .. m : P[k].ptr = e
    <3> SUFFICES ASSUME NEW e \in Stack!Elements, e > size - m
                 PROVE  \E k \in 1 .. m : P[k].ptr = e
      OBVIOUS
    <3>1. PICK k \in 1 .. m : k = e - (size - m)
      BY <2>1
    <3>2. P[k].ptr = size - m + k
      BY <1>3
    <3>3. size - m + k = e
      BY <2>1, <3>1
    <3> QED BY <3>2, <3>3
  <2>4. \A k \in 1 .. m : P[k].ptr \in Stack!Elements /\ P[k].ptr > size - m
    <3> SUFFICES ASSUME NEW k \in 1 .. m
                 PROVE  P[k].ptr \in Stack!Elements /\ P[k].ptr > size - m
      OBVIOUS
    <3> QED BY <1>3, <2>2
  <2> QED BY <1>3, <2>3, <2>4 DEF Ptrs
<1>11. \A e : e \in Ptrs(Q) <=> e \in Stack!Elements /\ ~ (e > size - m)
  <2>1. \A e \in Stack!Elements : ~ (e > size - m) => /\ size - m + 1 - e \in 1 .. (size - m)
                                             /\ size - m + 1 - (size - m + 1 - e) = e
    BY <1>1 DEF Stack!Elements
  <2>2. \A k \in 1 .. (size - m) : ~ (size - m + 1 - k > size - m)
    BY <1>1
  <2> HIDE DEF Q
  <2> QED BY <1>4, <2>1, <2>2 DEF Ptrs
<1>12. \A k \in 1 .. m : data[P[k].ptr] = order[m + 1 - k] /\ m + 1 - k \in 1 .. m
  <2>1. \A k \in 1 .. m : /\ size - m + k \in Stack!Elements /\ size - m + k > size - m
                          /\ size - (size - m + k) + 1 = m + 1 - k /\ m + 1 - k \in 1 .. m
    <3> HIDE DEF P
    <3>1. \A k \in 1 .. m : size - m + k \in Stack!Elements
      BY <1>3
    <3>2. \A k \in 1 .. m : /\ size - m + k > size - m
                            /\ size - (size - m + k) + 1 = m + 1 - k /\ m + 1 - k \in 1 .. m
      BY <1>1
    <3> QED BY <3>1, <3>2
  <2> HIDE DEF P
  <2> QED BY <1>2, <1>3, <2>1
<1> HIDE DEF P, Q
<1>13. "idle" \notin Holding \cup Linking \cup Popping \cup Returning \cup Taking \cup Carrying
  BY DEF Holding, Giving, Filling, Linking, Popping, Returning, Taking, Carrying
<1>14. Hands(P, Q)
  BY <1>5, <1>6, <1>10, <1>11, <1>13 DEF Hands
<1>15. Fresh(P, Linking, Popping, aba) /\ Fresh(Q, Returning, Taking, fsAba)
  BY <1>5, <1>6, <1>13 DEF Fresh
<1>16. /\ Read(P, next, "popNextCtr", "popNextPtr", "popCas")
       /\ Read(Q, fsNext, "takeNextCtr", "takeNextPtr", "takeCas") /\ Links
  BY <1>5, <1>6 DEF Read, Links
<1>17. ContentSound(P)
  <2>1. \A a, b \in 1 .. m : a # b => m + 1 - a # m + 1 - b
    BY <1>1
  <2>2. ASSUME NEW a \in 1 .. m, NEW b \in 1 .. m, a # b
        PROVE  data[P[a].ptr] # data[P[b].ptr]
    <3>1. order[m + 1 - a] = order[m + 1 - b] => m + 1 - a = m + 1 - b
      BY <1>2, <1>12
    <3>2. m + 1 - a # m + 1 - b
      BY <2>1, <2>2
    <3> QED BY <1>12, <3>1, <3>2
  <2>3. \A a \in 1 .. m : data[P[a].ptr] \in Values \ held
    BY <1>2, <1>12
  <2> QED BY <1>3, <1>5, <1>6, <1>13, <2>2, <2>3 DEF ContentSound
<1> QED BY <1>3, <1>4, <1>7, <1>8, <1>9, <1>14, <1>15, <1>16, <1>17 DEF Shape, Lists, m

(* The invariant gives the property that the runs check *)

LEMMA OneOf ==
  ASSUME NEW S, NEW x \in S, \A y \in S : y = x
  PROVE  Cardinality(S) = 1
<1>1. S = {x}
  OBVIOUS
<1>2. Cardinality({x}) = 1
  BY FS_Singleton
<1> QED BY <1>1, <1>2

\* An element occurs on a list once or not at all.
LEMMA OccursOnce ==
  ASSUME NEW P, NEW first, NEW link, NEW limit, List(P, first, link, limit), NEW e
  PROVE  Stack!Occurs(e, Stack!Chain(first.ptr, link)) = IF e \in Ptrs(P) THEN 1 ELSE 0
<1> DEFINE C == Stack!Chain(first.ptr, link)
           S == {k \in DOMAIN C : C[k] = e}
<1>1. C = [k \in 1 .. Len(P) |-> P[k].ptr]
  BY ChainOfList
<1>2. Stack!Occurs(e, C) = Cardinality(S)
  BY SameCardinality DEF Stack!Occurs
<1> HIDE DEF C
<1>3. \A k : k \in S <=> k \in 1 .. Len(P) /\ P[k].ptr = e
  BY <1>1
<1> HIDE DEF S
<1>4. CASE e \in Ptrs(P)
  <2>1. PICK k \in S : TRUE
    BY <1>3, <1>4 DEF Ptrs
  <2>2. \A j \in S : j = k
    BY <1>3, <2>1 DEF List
  <2>3. Cardinality(S) = 1
    BY <2>1, <2>2, OneOf
  <2> QED BY <1>2, <1>4, <2>3 DEF C
<1>5. CASE e \notin Ptrs(P)
  <2>1. S = {}
    BY <1>3, <1>5 DEF Ptrs
  <2>2. Cardinality(S) = 0
    BY <2>1, FS_EmptySet
  <2> QED BY <1>2, <1>5, <2>2 DEF C
<1> QED BY <1>4, <1>5 DEF C

\* An element is in the hands of one thread, or of none.
LEMMA InOneHand ==
  ASSUME NEW P, NEW Q, Shape(P, Q), NEW e \in Stack!Elements
  PROVE  Stack!InHand(e) = IF e \in Ptrs(P) \cup Ptrs(Q) THEN 0 ELSE 1
<1> DEFINE S == {t \in Threads : /\ th[t].elem = e
                                 /\ th[t].pc \in {"give", "giveLink", "giveCas",
                                                  "init", "pushLink", "pushCas"}}
<1>1. Stack!InHand(e) = Cardinality(S)
  BY SameCardinality DEF Stack!InHand
<1>2. \A t : t \in S <=> t \in Threads /\ th[t].pc \in Holding /\ th[t].elem = e
  BY DEF Holding, Giving, Filling
<1> HIDE DEF S
<1>3. CASE e \in Ptrs(P) \cup Ptrs(Q)
  <2>1. S = {}
    BY <1>2, <1>3 DEF Shape, Hands
  <2> QED BY <1>1, <1>3, <2>1, FS_EmptySet
<1>4. CASE e \notin Ptrs(P) \cup Ptrs(Q)
  <2>1. PICK t \in S : TRUE
    BY <1>2, <1>4 DEF Shape, Hands
  <2>2. \A u \in S : u = t
    BY <1>2, <2>1 DEF Shape, Hands
  <2>3. Cardinality(S) = 1
    BY <2>1, <2>2, OneOf
  <2> QED BY <1>1, <1>4, <2>3
<1> QED BY <1>3, <1>4

LEMMA ShapeIsSound ==
  ASSUME Stack!TypeOK, NEW P, NEW Q, Shape(P, Q)
  PROVE  StackSound
<1>1. ASSUME NEW e \in Stack!Elements
      PROVE  Stack!Occurs(e, Stack!Chain(top.ptr, next))
               + Stack!Occurs(e, Stack!Chain(fsTop.ptr, fsNext)) + Stack!InHand(e) = 1
  <2>1. Stack!Occurs(e, Stack!Chain(top.ptr, next)) = IF e \in Ptrs(P) THEN 1 ELSE 0
    BY OccursOnce DEF Shape, Lists
  <2>2. Stack!Occurs(e, Stack!Chain(fsTop.ptr, fsNext)) = IF e \in Ptrs(Q) THEN 1 ELSE 0
    BY OccursOnce DEF Shape, Lists
  <2>3. Stack!InHand(e) = IF e \in Ptrs(P) \cup Ptrs(Q) THEN 0 ELSE 1
    BY InOneHand
  <2>4. ~ (e \in Ptrs(P) /\ e \in Ptrs(Q))
    BY DEF Shape, Hands
  <2> QED BY <2>1, <2>2, <2>3, <2>4
<1> QED BY <1>1 DEF StackSound, Stack!StackSound, Stack!ElementInOnePlace

(* A push never fails: while a thread takes an element, the freelist has one *)

LEMMA ElementToTake ==
  ASSUME Stack!TypeOK, NEW P, NEW Q, Shape(P, Q), NEW t \in Threads, th[t].pc \in Taking
  PROVE  fsTop.ptr # Stack!NULL
<1> SUFFICES ASSUME fsTop.ptr = Stack!NULL  PROVE FALSE
  OBVIOUS
<1>1. Len(Q) = 0 /\ Ptrs(Q) = {}
  <2>1. Len(Q) = 0
    BY ListTop DEF Shape, Lists
  <2> QED BY <2>1 DEF Ptrs
<1> DEFINE Holder(e) == CHOOSE u \in Threads : th[u].pc \in Holding /\ th[u].elem = e
           ValueOf(e) == IF e \in Ptrs(P) THEN data[e] ELSE th[Holder(e)].value
           f == [e \in Stack!Elements |-> ValueOf(e)]
           Rest == Values \ {th[t].value}
<1>2. \A e \in Stack!Elements : e \notin Ptrs(P) =>
        Holder(e) \in Threads /\ th[Holder(e)].pc \in Holding /\ th[Holder(e)].elem = e
  BY <1>1 DEF Shape, Hands
<1> HIDE DEF Holder
<1>3. Holding \subseteq Carrying /\ Taking \subseteq Carrying /\ Holding \cap Taking = {}
  BY DEF Holding, Carrying, Giving, Taking, Filling
<1>4. \A e \in Stack!Elements : e \in Ptrs(P) => /\ data[e] \in Rest
                                           /\ \A u \in Threads : th[u].pc \in Carrying
                                                  => th[u].value # data[e]
  BY <1>3 DEF Shape, ContentSound, Ptrs
<1>5. \A e \in Stack!Elements : e \notin Ptrs(P) => th[Holder(e)].value \in Rest /\ Holder(e) # t
  BY <1>2, <1>3 DEF Shape, ContentSound
<1>6. \A e \in Stack!Elements : ValueOf(e) \in Rest
  BY <1>4, <1>5
<1>7. ASSUME NEW a \in Stack!Elements, NEW b \in Stack!Elements, ValueOf(a) = ValueOf(b)
      PROVE  a = b
  <2>1. CASE a \in Ptrs(P) /\ b \in Ptrs(P)
    BY <1>7, <2>1 DEF Shape, ContentSound, Ptrs
  <2>2. CASE a \in Ptrs(P) /\ b \notin Ptrs(P)
    BY <1>2, <1>3, <1>4, <1>7, <2>2
  <2>3. CASE a \notin Ptrs(P) /\ b \in Ptrs(P)
    BY <1>2, <1>3, <1>4, <1>7, <2>3
  <2>4. CASE a \notin Ptrs(P) /\ b \notin Ptrs(P)
    <3>1. Holder(a) = Holder(b)
      BY <1>2, <1>3, <1>7, <2>4 DEF Shape, ContentSound
    <3> QED BY <1>2, <2>4, <3>1
  <2> QED BY <2>1, <2>2, <2>3, <2>4
<1> HIDE DEF ValueOf, Rest
<1>8. f \in Injection(Stack!Elements, Rest)
  BY <1>6, <1>7 DEF Injection, IsInjective
<1>9. th[t].value \in Values
  BY <1>3 DEF Shape, ContentSound
<1>10. /\ IsFiniteSet(Values) /\ Cardinality(Values) \in Nat /\ Cardinality(Values) <= NumElements
       /\ NumElements \in Nat
  BY StackConstants, FS_CardinalityType
<1>11. IsFiniteSet(Rest) /\ Cardinality(Rest) = Cardinality(Values) - 1
  BY <1>9, <1>10, FS_RemoveElement DEF Rest
<1>12. Cardinality(Stack!Elements) = NumElements
  <2>1. 1 \in Int /\ NumElements \in Int
    BY <1>10
  <2>2. Cardinality(1 .. NumElements) = IF 1 > NumElements THEN 0 ELSE NumElements - 1 + 1
    BY <2>1, FS_Interval
  <2> QED BY <1>10, <2>2 DEF Stack!Elements
<1> HIDE DEF f
<1>13. Cardinality(Stack!Elements) <= Cardinality(Rest)
  BY <1>8, <1>11, FS_Injection
<1> QED BY <1>10, <1>11, <1>12, <1>13

(* Every step is a step of the stack whose operations are instants *)

Contents(P) == [k \in 1 .. Len(P) |-> data[P[k].ptr]]

LEMMA StackOf ==
  ASSUME NEW P, NEW Q, Shape(P, Q)
  PROVE  Stack!AbstractStack = Contents(P)
<1>1. Stack!Chain(top.ptr, next) = [k \in 1 .. Len(P) |-> P[k].ptr]
  BY ChainOfList DEF Shape, Lists
<1> QED BY <1>1 DEF Stack!AbstractStack, Contents

LEMMA StackOfNext ==
  ASSUME NEW P, NEW Q, Shape(P, Q)'
  PROVE  Stack!AbstractStack' = Contents(P)'
<1>1. List(P, top', next', aba')
  BY DEF Shape, Lists
<1>2. Stack!Chain(top'.ptr, next') = [k \in 1 .. Len(P) |-> P[k].ptr]
  BY <1>1, ChainOfList
<1> QED BY <1>2 DEF Stack!AbstractStack, Contents

OpOf(label) == CASE label = "idle" -> "idle"
              [] label \in {"popPtr", "popNextCtr", "popNextPtr", "popCas"} -> "pop"
              [] label = "empty" -> "empty"
              [] label \in {"give", "giveLink", "giveCas"} -> "popped"
              [] OTHER -> "push"

CallOf(r) == [op |-> OpOf(r.pc), value |-> r.value]

LEMMA Ops ==
  /\ OpOf("idle") = "idle" /\ OpOf("empty") = "empty"
  /\ \A label \in Popping : OpOf(label) = "pop"
  /\ \A label \in Giving : OpOf(label) = "popped"
  /\ \A label \in Taking \cup Filling : OpOf(label) = "push"
BY DEF OpOf, Popping, Giving, Taking, Filling

LEMMA Calls ==
  /\ Stack!AbstractCall = [t \in Threads |-> CallOf(th[t])]
  /\ \A t \in Threads : /\ Stack!AbstractCall[t] = CallOf(th[t])
                        /\ Stack!AbstractCall[t].op = OpOf(th[t].pc)
                        /\ Stack!AbstractCall[t].value = th[t].value
BY DEF Stack!AbstractCall, CallOf, OpOf

\* The calls of the other threads go on.
LEMMA OthersCalls ==
  ASSUME NEW t \in Threads, OthersKeep(t), NEW c, c = CallOf(th'[t])
  PROVE  Stack!AbstractCall' = [Stack!AbstractCall EXCEPT ![t] = c]
<1>1. Stack!AbstractCall' = [u \in Threads |-> CallOf(th'[u])]
  BY DEF Stack!AbstractCall, CallOf, OpOf
<1>2. \A u \in Threads : u # t => CallOf(th'[u]) = Stack!AbstractCall[u]
  BY Calls DEF OthersKeep
<1> QED BY <1>1, <1>2, Calls

\* A step that leaves the callers where they are.
LEMMA Silent ==
  ASSUME NEW P, NEW Q, Shape(P, Q), Shape(P, Q)', NEW t \in Threads, OthersKeep(t),
         \A e \in Ptrs(P) : data'[e] = data[e], held' = held,
         OpOf(th'[t].pc) = OpOf(th[t].pc), th'[t].value = th[t].value
  PROVE  UNCHANGED Stack!Abstract!avars
<1>1. Stack!AbstractStack' = Contents(P)'
  BY StackOfNext
<1>2. Contents(P)' = Contents(P)
  BY DEF Contents, Ptrs
<1>3. Stack!AbstractStack = Contents(P)
  BY StackOf
<1>4. CallOf(th'[t]) = Stack!AbstractCall[t]
  BY Calls DEF CallOf
<1>5. Stack!AbstractCall' = [Stack!AbstractCall EXCEPT ![t] = Stack!AbstractCall[t]]
  BY <1>4, OthersCalls
<1>6. Stack!AbstractCall' = Stack!AbstractCall
  BY <1>5, Calls
<1> QED BY <1>1, <1>2, <1>3, <1>6 DEF Stack!Abstract!avars

(* The steps, one after the other *)

Moved == (\E P, Q \in Seq(Pointers) : Shape(P, Q))' /\ [Stack!Abstract!Next]_(Stack!Abstract!avars)

LEMMA ShapeMoved ==
  ASSUME NEW P, NEW Q, Shape(P, Q)', Stack!Abstract!Next \/ UNCHANGED Stack!Abstract!avars
  PROVE  Moved
BY DEF Moved, Shape, Lists, List

LEMMA SilentMoved ==
  ASSUME NEW P, NEW Q, Shape(P, Q), Shape(P, Q)', NEW t \in Threads, OthersKeep(t),
         \A e \in Ptrs(P) : data'[e] = data[e], held' = held,
         OpOf(th'[t].pc) = OpOf(th[t].pc), th'[t].value = th[t].value
  PROVE  Moved
<1>1. UNCHANGED Stack!Abstract!avars
  BY Silent
<1> QED BY <1>1, ShapeMoved

LEMMA PopReadPointerMoves ==
  ASSUME Stack!TypeOK, NEW P, NEW Q, Shape(P, Q), NEW t \in Threads, Stack!PopReadPointer(t),
         top.ptr # Stack!NULL
  PROVE  Moved
<1>1. Shape(P, Q)'
  BY PopReadPointerKeeps
<1>2. OthersKeep(t) /\ data' = data /\ held' = held
  BY DEF Stack!PopReadPointer, OthersKeep, Stack!TypeOK, Stack!Found
<1>3. th[t].pc = "popPtr" /\ th'[t].pc = "popNextCtr" /\ th'[t].value = th[t].value
  BY LocalTypes DEF Stack!PopReadPointer, Stack!TypeOK, Stack!Locals, Stack!Found, Stack!PopTest
<1>4. OpOf(th'[t].pc) = OpOf(th[t].pc)
  BY <1>3, Ops DEF Popping
<1> QED BY <1>1, <1>2, <1>3, <1>4, SilentMoved

LEMMA PopReadNextCounterMoves ==
  ASSUME Stack!TypeOK, NEW P, NEW Q, Shape(P, Q), NEW t \in Threads, Stack!PopReadNextCounter(t)
  PROVE  Moved
<1>1. Shape(P, Q)'
  BY PopReadNextCounterKeeps
<1>2. OthersKeep(t) /\ data' = data /\ held' = held
  BY DEF Stack!PopReadNextCounter, OthersKeep, Stack!TypeOK, Stack!Found
<1>3. th[t].pc = "popNextCtr" /\ th'[t].pc = "popNextPtr" /\ th'[t].value = th[t].value
  BY LocalTypes DEF Stack!PopReadNextCounter, Stack!TypeOK, Stack!Locals, Stack!Found, Stack!PopTest
<1>4. OpOf(th'[t].pc) = OpOf(th[t].pc)
  BY <1>3, Ops DEF Popping
<1> QED BY <1>1, <1>2, <1>3, <1>4, SilentMoved

LEMMA PopReadNextPointerMoves ==
  ASSUME Stack!TypeOK, NEW P, NEW Q, Shape(P, Q), NEW t \in Threads, Stack!PopReadNextPointer(t)
  PROVE  Moved
<1>1. Shape(P, Q)'
  BY PopReadNextPointerKeeps
<1>2. OthersKeep(t) /\ data' = data /\ held' = held
  BY DEF Stack!PopReadNextPointer, OthersKeep, Stack!TypeOK, Stack!Found
<1>3. th[t].pc = "popNextPtr" /\ th'[t].pc = "popCas" /\ th'[t].value = th[t].value
  BY LocalTypes DEF Stack!PopReadNextPointer, Stack!TypeOK, Stack!Locals, Stack!Found, Stack!PopTest
<1>4. OpOf(th'[t].pc) = OpOf(th[t].pc)
  BY <1>3, Ops DEF Popping
<1> QED BY <1>1, <1>2, <1>3, <1>4, SilentMoved

LEMMA PopCasFailsMoves ==
  ASSUME Stack!TypeOK, NEW P, NEW Q, Shape(P, Q), NEW t \in Threads, Stack!PopCas(t),
         ~Stack!Same(top, th[t].cmp), top.ptr # Stack!NULL
  PROVE  Moved
<1>1. Shape(P, Q)'
  BY PopCasFailsKeeps
<1>2. OthersKeep(t) /\ data' = data /\ held' = held
  BY DEF Stack!PopCas, OthersKeep, Stack!TypeOK, Stack!Found
<1>3. th[t].pc = "popCas" /\ th'[t].pc = "popNextCtr" /\ th'[t].value = th[t].value
  BY LocalTypes DEF Stack!PopCas, Stack!TypeOK, Stack!Locals, Stack!Found, Stack!PopTest
<1>4. OpOf(th'[t].pc) = OpOf(th[t].pc)
  BY <1>3, Ops DEF Popping
<1> QED BY <1>1, <1>2, <1>3, <1>4, SilentMoved

LEMMA GiveCounterMoves ==
  ASSUME Stack!TypeOK, Stack!TypeOK', NEW P, NEW Q, Shape(P, Q), NEW t \in Threads,
         Stack!GiveCounter(t)
  PROVE  Moved
<1>1. Shape(P, Q)'
  BY GiveCounterKeeps
<1>2. OthersKeep(t) /\ data' = data /\ held' = held
  BY DEF Stack!GiveCounter, OthersKeep, Stack!TypeOK, Stack!Found
<1>3. th[t].pc = "give" /\ th'[t].pc = "giveLink" /\ th'[t].value = th[t].value
  BY LocalTypes DEF Stack!GiveCounter, Stack!TypeOK, Stack!Locals, Stack!Found, Stack!PopTest
<1>4. OpOf(th'[t].pc) = OpOf(th[t].pc)
  BY <1>3, Ops DEF Giving
<1> QED BY <1>1, <1>2, <1>3, <1>4, SilentMoved

LEMMA GiveLinkMoves ==
  ASSUME Stack!TypeOK, Stack!TypeOK', NEW P, NEW Q, Shape(P, Q), NEW t \in Threads,
         Stack!GiveLink(t)
  PROVE  Moved
<1>1. Shape(P, Q)'
  BY GiveLinkKeeps
<1>2. OthersKeep(t) /\ data' = data /\ held' = held
  BY DEF Stack!GiveLink, OthersKeep, Stack!TypeOK, Stack!Found
<1>3. th[t].pc = "giveLink" /\ th'[t].pc = "giveCas" /\ th'[t].value = th[t].value
  <2>1. th[t].pc = "giveLink"
    BY DEF Stack!GiveLink
  <2>2. th'[t] = [th[t] EXCEPT !.cmp = Stack!Pair(th[t].cmp.ptr, fsTop.ctr), !.pc = "giveCas"]
    BY DEF Stack!GiveLink, Stack!TypeOK, Stack!Found
  <2> QED BY <2>1, <2>2, LocalTypes DEF Stack!Locals
<1>4. OpOf(th'[t].pc) = OpOf(th[t].pc)
  BY <1>3, Ops DEF Giving
<1> QED BY <1>1, <1>2, <1>3, <1>4, SilentMoved

LEMMA GiveCasFailsMoves ==
  ASSUME Stack!TypeOK, Stack!TypeOK', NEW P, NEW Q, Shape(P, Q), NEW t \in Threads,
         Stack!GiveCas(t), ~Stack!Same(fsTop, th[t].cmp)
  PROVE  Moved
<1>1. Shape(P, Q)'
  BY GiveCasFailsKeeps
<1>2. OthersKeep(t) /\ data' = data /\ held' = held
  BY DEF Stack!GiveCas, OthersKeep, Stack!TypeOK, Stack!Found
<1>3. th[t].pc = "giveCas" /\ th'[t].pc = "giveCas" /\ th'[t].value = th[t].value
  BY LocalTypes DEF Stack!GiveCas, Stack!TypeOK, Stack!Locals, Stack!Found, Stack!PopTest
<1>4. OpOf(th'[t].pc) = OpOf(th[t].pc)
  BY <1>3, Ops DEF Giving
<1> QED BY <1>1, <1>2, <1>3, <1>4, SilentMoved

LEMMA TakeReadPointerMoves ==
  ASSUME Stack!TypeOK, NEW P, NEW Q, Shape(P, Q), NEW t \in Threads, Stack!TakeReadPointer(t)
  PROVE  Moved
<1>0. fsTop.ptr # Stack!NULL
  <2>1. th[t].pc \in Taking
    BY DEF Stack!TakeReadPointer, Taking
  <2> QED BY <2>1, ElementToTake
<1>1. Shape(P, Q)'
  BY TakeReadPointerKeeps
<1>2. OthersKeep(t) /\ data' = data /\ held' = held
  BY DEF Stack!TakeReadPointer, OthersKeep, Stack!TypeOK, Stack!Found
<1>3. th[t].pc = "takePtr" /\ th'[t].pc = "takeNextCtr" /\ th'[t].value = th[t].value
  BY <1>0, LocalTypes DEF Stack!TakeReadPointer, Stack!TypeOK, Stack!Locals, Stack!Found,
     Stack!PopTest
<1>4. OpOf(th'[t].pc) = OpOf(th[t].pc)
  BY <1>3, Ops DEF Taking
<1> QED BY <1>1, <1>2, <1>3, <1>4, SilentMoved

LEMMA TakeReadNextCounterMoves ==
  ASSUME Stack!TypeOK, NEW P, NEW Q, Shape(P, Q), NEW t \in Threads, Stack!TakeReadNextCounter(t)
  PROVE  Moved
<1>1. Shape(P, Q)'
  BY TakeReadNextCounterKeeps
<1>2. OthersKeep(t) /\ data' = data /\ held' = held
  BY DEF Stack!TakeReadNextCounter, OthersKeep, Stack!TypeOK, Stack!Found
<1>3. th[t].pc = "takeNextCtr" /\ th'[t].pc = "takeNextPtr" /\ th'[t].value = th[t].value
  BY LocalTypes DEF Stack!TakeReadNextCounter, Stack!TypeOK, Stack!Locals, Stack!Found,
     Stack!PopTest
<1>4. OpOf(th'[t].pc) = OpOf(th[t].pc)
  BY <1>3, Ops DEF Taking
<1> QED BY <1>1, <1>2, <1>3, <1>4, SilentMoved

LEMMA TakeReadNextPointerMoves ==
  ASSUME Stack!TypeOK, NEW P, NEW Q, Shape(P, Q), NEW t \in Threads, Stack!TakeReadNextPointer(t)
  PROVE  Moved
<1>1. Shape(P, Q)'
  BY TakeReadNextPointerKeeps
<1>2. OthersKeep(t) /\ data' = data /\ held' = held
  BY DEF Stack!TakeReadNextPointer, OthersKeep, Stack!TypeOK, Stack!Found
<1>3. th[t].pc = "takeNextPtr" /\ th'[t].pc = "takeCas" /\ th'[t].value = th[t].value
  BY LocalTypes DEF Stack!TakeReadNextPointer, Stack!TypeOK, Stack!Locals, Stack!Found,
     Stack!PopTest
<1>4. OpOf(th'[t].pc) = OpOf(th[t].pc)
  BY <1>3, Ops DEF Taking
<1> QED BY <1>1, <1>2, <1>3, <1>4, SilentMoved

LEMMA TakeCasFailsMoves ==
  ASSUME Stack!TypeOK, NEW P, NEW Q, Shape(P, Q), NEW t \in Threads, Stack!TakeCas(t),
         ~Stack!Same(fsTop, th[t].cmp)
  PROVE  Moved
<1>0. fsTop.ptr # Stack!NULL
  <2>1. th[t].pc \in Taking
    BY DEF Stack!TakeCas, Taking
  <2> QED BY <2>1, ElementToTake
<1>1. Shape(P, Q)'
  BY TakeCasFailsKeeps
<1>2. OthersKeep(t) /\ data' = data /\ held' = held
  BY DEF Stack!TakeCas, OthersKeep, Stack!TypeOK, Stack!Found
<1>3. th[t].pc = "takeCas" /\ th'[t].pc = "takeNextCtr" /\ th'[t].value = th[t].value
  BY <1>0, LocalTypes DEF Stack!TakeCas, Stack!TypeOK, Stack!Locals, Stack!Found, Stack!PopTest
<1>4. OpOf(th'[t].pc) = OpOf(th[t].pc)
  BY <1>3, Ops DEF Taking
<1> QED BY <1>1, <1>2, <1>3, <1>4, SilentMoved

LEMMA PushLinkMoves ==
  ASSUME Stack!TypeOK, Stack!TypeOK', NEW P, NEW Q, Shape(P, Q), NEW t \in Threads,
         Stack!PushLink(t)
  PROVE  Moved
<1>1. Shape(P, Q)'
  BY PushLinkKeeps
<1>2. OthersKeep(t) /\ data' = data /\ held' = held
  BY DEF Stack!PushLink, OthersKeep, Stack!TypeOK, Stack!Found
<1>3. th[t].pc = "pushLink" /\ th'[t].pc = "pushCas" /\ th'[t].value = th[t].value
  <2>1. th[t].pc = "pushLink"
    BY DEF Stack!PushLink
  <2>2. th'[t] = [th[t] EXCEPT !.cmp = Stack!Pair(th[t].cmp.ptr, top.ctr), !.pc = "pushCas"]
    BY DEF Stack!PushLink, Stack!TypeOK, Stack!Found
  <2> QED BY <2>1, <2>2, LocalTypes DEF Stack!Locals
<1>4. OpOf(th'[t].pc) = OpOf(th[t].pc)
  BY <1>3, Ops DEF Filling
<1> QED BY <1>1, <1>2, <1>3, <1>4, SilentMoved

LEMMA PushCasFailsMoves ==
  ASSUME Stack!TypeOK, Stack!TypeOK', NEW P, NEW Q, Shape(P, Q), NEW t \in Threads,
         Stack!PushCas(t), ~Stack!Same(top, th[t].cmp)
  PROVE  Moved
<1>1. Shape(P, Q)'
  BY PushCasFailsKeeps
<1>2. OthersKeep(t) /\ data' = data /\ held' = held
  BY DEF Stack!PushCas, OthersKeep, Stack!TypeOK, Stack!Found
<1>3. th[t].pc = "pushCas" /\ th'[t].pc = "pushCas" /\ th'[t].value = th[t].value
  BY LocalTypes DEF Stack!PushCas, Stack!TypeOK, Stack!Locals, Stack!Found, Stack!PopTest
<1>4. OpOf(th'[t].pc) = OpOf(th[t].pc)
  BY <1>3, Ops DEF Filling
<1> QED BY <1>1, <1>2, <1>3, <1>4, SilentMoved

LEMMA TakeCasWinsMoves ==
  ASSUME Stack!TypeOK, NEW P, NEW Q, Shape(P, Q), NEW t \in Threads, Stack!TakeCas(t),
         Stack!Same(fsTop, th[t].cmp)
  PROVE  Moved
<1>1. Shape(P, Tail(Q))'
  BY TakeCasWinsKeeps
<1>2. OthersKeep(t) /\ data' = data /\ held' = held
  BY DEF Stack!TakeCas, OthersKeep, Stack!TypeOK, Stack!Found
<1>3. th[t].pc = "takeCas" /\ th'[t].pc = "init" /\ th'[t].value = th[t].value
  BY DEF Stack!TakeCas, Stack!TypeOK, Stack!Locals
<1>4. CallOf(th'[t]) = Stack!AbstractCall[t]
  BY <1>3, Ops, Calls DEF CallOf, Taking, Filling
<1>5. Stack!AbstractCall' = Stack!AbstractCall
  <2>1. Stack!AbstractCall' = [Stack!AbstractCall EXCEPT ![t] = Stack!AbstractCall[t]]
    BY <1>2, <1>4, OthersCalls
  <2> QED BY <2>1, Calls
<1>6. Stack!AbstractStack' = Stack!AbstractStack
  <2>1. Stack!AbstractStack' = Contents(P)'
    BY <1>1, StackOfNext
  <2>2. Stack!AbstractStack = Contents(P)
    BY StackOf
  <2> QED BY <1>2, <2>1, <2>2 DEF Contents
<1>7. UNCHANGED Stack!Abstract!avars
  BY <1>2, <1>5, <1>6 DEF Stack!Abstract!avars
<1> QED BY <1>1, <1>7, ShapeMoved

LEMMA InitElementMoves ==
  ASSUME Stack!TypeOK, Stack!TypeOK', NEW P, NEW Q, Shape(P, Q), NEW t \in Threads,
         Stack!InitElement(t)
  PROVE  Moved
<1>1. Shape(P, Q)'
  BY InitElementKeeps
<1>2. OthersKeep(t) /\ held' = held
  BY DEF Stack!InitElement, OthersKeep, Stack!TypeOK
<1>3. th[t].pc = "init" /\ th'[t].pc = "pushLink" /\ th'[t].value = th[t].value
  <2>1. th[t].pc = "init"
    BY DEF Stack!InitElement
  <2>2. th'[t] = [th[t] EXCEPT !.exch = Stack!Pair(th[t].elem, aba + 1), !.cmp.ptr = top.ptr,
                               !.pc = "pushLink"]
    BY DEF Stack!InitElement, Stack!TypeOK
  <2> QED BY <2>1, <2>2, LocalTypes DEF Stack!Locals
<1>4. OpOf(th'[t].pc) = OpOf(th[t].pc)
  BY <1>3, Ops DEF Filling
<1>5. th[t].elem \notin Ptrs(P)
  BY <1>3, Pcs DEF Shape, Hands
<1>6. \A e \in Ptrs(P) : data'[e] = data[e]
  <2>1. Ptrs(P) \subseteq Stack!Elements
    BY ListTop DEF Shape, Lists, Ptrs, Pointers
  <2> QED BY <1>5, <2>1 DEF Stack!InitElement, Stack!TypeOK
<1> QED BY <1>1, <1>2, <1>3, <1>4, <1>6, SilentMoved

\* The steps at which a call begins, takes effect or returns.
LEMMA StartPopMoves ==
  ASSUME Stack!TypeOK, NEW P, NEW Q, Shape(P, Q), NEW t \in Threads, Stack!StartPop(t)
  PROVE  Moved
<1>1. Shape(P, Q)'
  BY StartPopKeeps
<1>2. OthersKeep(t) /\ data' = data /\ held' = held
  BY DEF Stack!StartPop, OthersKeep, Stack!TypeOK
<1>3. th[t] = Stack!IdleThread /\ th'[t].pc = "popPtr" /\ th'[t].value = NoValue
  <2>1. th[t] = Stack!IdleThread
    BY DEF Stack!StartPop, Shape, ContentSound
  <2> QED BY <2>1 DEF Stack!StartPop, Stack!TypeOK, Stack!Locals, Stack!IdleThread
<1>4. Stack!AbstractStack' = Stack!AbstractStack
  BY <1>1, <1>2, StackOf, StackOfNext DEF Contents
<1>5. Stack!AbstractCall[t] = Stack!Abstract!Idle
  BY <1>3, Calls, Ops DEF CallOf, Stack!Abstract!Idle, Stack!IdleThread
<1>6. CallOf(th'[t]) = [op |-> "pop", value |-> NoValue]
  BY <1>3, Ops DEF CallOf, Popping
<1>7. Stack!AbstractCall' = [Stack!AbstractCall EXCEPT ![t] = [op |-> "pop", value |-> NoValue]]
  BY <1>2, <1>6, OthersCalls
<1>8. [Stack!AbstractCall[t] EXCEPT !.op = "pop"] = [op |-> "pop", value |-> NoValue]
  BY <1>5 DEF Stack!Abstract!Idle
<1>9. Stack!AbstractCall' = [Stack!AbstractCall EXCEPT ![t].op = "pop"]
  BY <1>7, <1>8, Zenon
<1>10. Stack!Abstract!CallPop(t)
  BY <1>2, <1>4, <1>5, <1>9 DEF Stack!Abstract!CallPop
<1> QED BY <1>1, <1>10, ShapeMoved DEF Stack!Abstract!Next

LEMMA StartPushMoves ==
  ASSUME Stack!TypeOK, NEW P, NEW Q, Shape(P, Q), NEW t \in Threads, NEW v \in Values,
         Stack!StartPush(t, v)
  PROVE  Moved
<1>1. Shape(P, Q)'
  BY StartPushKeeps
<1>2. OthersKeep(t) /\ data' = data /\ v \in held /\ held' = held \ {v}
  BY DEF Stack!StartPush, OthersKeep, Stack!TypeOK
<1>3. th[t] = Stack!IdleThread /\ th'[t].pc = "takePtr" /\ th'[t].value = v
  <2>1. th[t] = Stack!IdleThread
    BY DEF Stack!StartPush, Shape, ContentSound
  <2> QED BY <2>1 DEF Stack!StartPush, Stack!TypeOK, Stack!Locals, Stack!IdleThread
<1>4. Stack!AbstractStack' = Stack!AbstractStack
  BY <1>1, <1>2, StackOf, StackOfNext DEF Contents
<1>5. Stack!AbstractCall[t] = Stack!Abstract!Idle
  BY <1>3, Calls, Ops DEF CallOf, Stack!Abstract!Idle, Stack!IdleThread
<1>6. CallOf(th'[t]) = [op |-> "push", value |-> v]
  BY <1>3, Ops DEF CallOf, Taking
<1>7. Stack!AbstractCall' = [Stack!AbstractCall EXCEPT ![t] = [op |-> "push", value |-> v]]
  BY <1>2, <1>6, OthersCalls
<1>8. Stack!Abstract!CallPush(t, v)
  BY <1>2, <1>4, <1>5, <1>7 DEF Stack!Abstract!CallPush
<1> QED BY <1>1, <1>8, ShapeMoved DEF Stack!Abstract!Next

LEMMA IsSeq ==
  ASSUME NEW S, NEW n \in Nat, NEW f \in [1 .. n -> S]
  PROVE  f \in Seq(S) /\ Len(f) = n
OBVIOUS

LEMMA PopCasWinsMoves ==
  ASSUME Stack!TypeOK, NEW P, NEW Q, Shape(P, Q), NEW t \in Threads, Stack!PopCas(t),
         Stack!Same(top, th[t].cmp)
  PROVE  Moved
<1>1. Shape(Tail(P), Q)' /\ th'[t].value = data[top.ptr] /\ top.ptr # Stack!NULL
  BY PopCasWinsKeeps
<1>2. OthersKeep(t) /\ data' = data /\ held' = held /\ th[t].pc = "popCas" /\ th'[t].pc = "give"
  BY DEF Stack!PopCas, Stack!Same, OthersKeep, Stack!TypeOK, Stack!Locals
<1>3. P \in Seq(Pointers) /\ Len(P) \in Nat /\ Len(P) # 0 /\ top = P[1]
  BY <1>1, ListTop DEF Shape, Lists, List
<1>4. Stack!AbstractStack = Contents(P) /\ Stack!AbstractStack' = Contents(Tail(P))
  <2>1. Stack!AbstractStack' = Contents(Tail(P))'
    BY <1>1, StackOfNext
  <2>2. Contents(Tail(P))' = Contents(Tail(P))
    BY <1>2 DEF Contents
  <2> QED BY <2>1, <2>2, StackOf
<1>5. Contents(P) # << >> /\ Contents(P)[1] = data[top.ptr] /\ Contents(Tail(P)) = Tail(Contents(P))
  <2>1. Len(Tail(P)) = Len(P) - 1 /\ \A k \in 1 .. (Len(P) - 1) : Tail(P)[k] = P[k + 1]
    BY <1>3
  <2> DEFINE Data == {data[P[k].ptr] : k \in 1 .. Len(P)}
  <2>2. Contents(P) \in Seq(Data) /\ Len(Contents(P)) = Len(P)
    <3>1. Contents(P) \in [1 .. Len(P) -> Data]
      BY DEF Contents
    <3> HIDE DEF Data
    <3> QED BY <1>3, <3>1, IsSeq
  <2>3. \A k \in 1 .. Len(P) : Contents(P)[k] = data[P[k].ptr]
    BY DEF Contents
  <2> HIDE DEF Data
  <2>4. Contents(P) # << >>
    BY <1>3, <2>2
  <2>5. /\ Tail(Contents(P)) \in Seq(Data) /\ Len(Tail(Contents(P))) = Len(P) - 1
        /\ \A k \in 1 .. (Len(P) - 1) : Tail(Contents(P))[k] = data[P[k + 1].ptr]
    <3>1. /\ Tail(Contents(P)) \in Seq(Data) /\ Len(Tail(Contents(P))) = Len(P) - 1
          /\ \A k \in 1 .. (Len(P) - 1) : Tail(Contents(P))[k] = Contents(P)[k + 1]
      BY <2>2, <2>4, HeadTailProperties
    <3>2. \A k \in 1 .. (Len(P) - 1) : k + 1 \in 1 .. Len(P)
      BY <1>3
    <3> QED BY <2>3, <3>1, <3>2
  <2>6. Contents(Tail(P)) = [k \in 1 .. (Len(P) - 1) |-> data[P[k + 1].ptr]]
    BY <2>1 DEF Contents
  <2>7. Contents(Tail(P)) = Tail(Contents(P))
    <3>1. \A k \in 1 .. (Len(P) - 1) : data[P[k + 1].ptr] \in Data /\ Len(P) - 1 \in Nat
      <4>1. \A k \in 1 .. (Len(P) - 1) : k + 1 \in 1 .. Len(P)
        BY <1>3
      <4> QED BY <1>3, <4>1 DEF Data
    <3>2. Contents(Tail(P)) \in [1 .. (Len(P) - 1) -> Data] /\ Len(P) - 1 \in Nat
      BY <1>3, <2>6, <3>1
    <3>3. Contents(Tail(P)) \in Seq(Data) /\ Len(Contents(Tail(P))) = Len(P) - 1
      BY <3>2, IsSeq
    <3>4. \A k \in 1 .. (Len(P) - 1) : Contents(Tail(P))[k] = Tail(Contents(P))[k]
      BY <2>5, <2>6
    <3> QED BY <2>5, <3>3, <3>4, SeqEqual
  <2> QED BY <1>3, <2>3, <2>4, <2>7
<1>6. Stack!AbstractCall[t] = [op |-> "pop", value |-> NoValue]
  <2>1. th[t].value = NoValue
    BY <1>2, Pcs DEF Shape, ContentSound
  <2> QED BY <1>2, <2>1, Calls, Ops, Pcs DEF CallOf
<1>7. CallOf(th'[t]) = [op |-> "popped", value |-> data[top.ptr]]
  BY <1>1, <1>2, Ops, Pcs DEF CallOf
<1>8. Stack!AbstractCall' = [Stack!AbstractCall EXCEPT ![t] = [op |-> "popped", value
          |-> data[top.ptr]]]
  BY <1>2, <1>7, OthersCalls
<1>9. Stack!Abstract!Pop(t)
  BY <1>2, <1>4, <1>5, <1>6, <1>8 DEF Stack!Abstract!Pop
<1> QED BY <1>1, <1>9, ShapeMoved DEF Stack!Abstract!Next

\* A pop that finds the top NULL found the stack empty at that instant.
LEMMA FoundEmpty ==
  ASSUME NEW P, NEW Q, Shape(P, Q), Shape(P, Q)', NEW t \in Threads, OthersKeep(t),
         data' = data, held' = held, top.ptr = Stack!NULL,
         th[t].pc \in Popping, th'[t].pc = "empty", th'[t].value = th[t].value
  PROVE  Moved
<1>1. th[t].value = NoValue /\ Stack!AbstractCall[t] = [op |-> "pop", value |-> NoValue]
  <2>1. th[t].value = NoValue
    BY DEF Shape, ContentSound
  <2> QED BY <2>1, Calls, Ops DEF CallOf
<1>2. Stack!AbstractStack' = Stack!AbstractStack
  BY StackOf, StackOfNext DEF Contents
<1>3. Stack!AbstractStack = << >>
  <2>1. Len(P) = 0
    BY ListTop DEF Shape, Lists
  <2> QED BY <2>1, StackOf DEF Contents
<1>4. CallOf(th'[t]) = [op |-> "empty", value |-> NoValue]
  BY <1>1, Ops DEF CallOf
<1>5. Stack!AbstractCall' = [Stack!AbstractCall EXCEPT ![t] = [op |-> "empty", value |-> NoValue]]
  BY <1>4, OthersCalls
<1>6. [Stack!AbstractCall[t] EXCEPT !.op = "empty"] = [op |-> "empty", value |-> NoValue]
  BY <1>1
<1>7. Stack!AbstractCall' = [Stack!AbstractCall EXCEPT ![t].op = "empty"]
  BY <1>5, <1>6, Zenon
<1>8. Stack!Abstract!PopEmpty(t)
  BY <1>1, <1>2, <1>3, <1>7 DEF Stack!Abstract!PopEmpty
<1> QED BY <1>8, ShapeMoved DEF Stack!Abstract!Next

LEMMA PopReadNullMoves ==
  ASSUME Stack!TypeOK, NEW P, NEW Q, Shape(P, Q), NEW t \in Threads, Stack!PopReadPointer(t),
         top.ptr = Stack!NULL
  PROVE  Moved
<1>1. Shape(P, Q)'
  BY PopReadPointerKeeps
<1>2. OthersKeep(t) /\ data' = data /\ held' = held
  BY DEF Stack!PopReadPointer, OthersKeep, Stack!TypeOK
<1>3. th[t].pc \in Popping /\ th'[t].pc = "empty" /\ th'[t].value = th[t].value
  BY DEF Stack!PopReadPointer, Stack!TypeOK, Stack!Locals, Stack!PopTest, Popping
<1> QED BY <1>1, <1>2, <1>3, FoundEmpty

LEMMA PopCasNullMoves ==
  ASSUME Stack!TypeOK, NEW P, NEW Q, Shape(P, Q), NEW t \in Threads, Stack!PopCas(t),
         ~Stack!Same(top, th[t].cmp),
         top.ptr = Stack!NULL
  PROVE  Moved
<1>1. Shape(P, Q)'
  BY PopCasFailsKeeps
<1>2. OthersKeep(t) /\ data' = data /\ held' = held
  BY DEF Stack!PopCas, Stack!Found, OthersKeep, Stack!TypeOK
<1>3. th[t].pc \in Popping /\ th'[t].pc = "empty" /\ th'[t].value = th[t].value
  BY DEF Stack!PopCas, Stack!Found, Stack!TypeOK, Stack!Locals, Stack!PopTest, Popping
<1> QED BY <1>1, <1>2, <1>3, FoundEmpty

LEMMA PopEmptyMoves ==
  ASSUME Stack!TypeOK, NEW P, NEW Q, Shape(P, Q), NEW t \in Threads, Stack!PopEmpty(t)
  PROVE  Moved
<1>1. Shape(P, Q)'
  BY PopEmptyKeeps
<1>2. OthersKeep(t) /\ data' = data /\ held' = held /\ th[t].pc = "empty"
          /\ th'[t] = Stack!IdleThread
  BY DEF Stack!PopEmpty, OthersKeep, Stack!TypeOK
<1>3. Stack!AbstractCall[t].op = "empty" /\ Stack!AbstractCall[t].value = NoValue
  <2>1. th[t].value = NoValue
    BY <1>2 DEF Shape, ContentSound
  <2> QED BY <1>2, <2>1, Calls, Ops
<1>4. Stack!AbstractStack' = Stack!AbstractStack
  BY <1>1, <1>2, StackOf, StackOfNext DEF Contents
<1>5. CallOf(th'[t]) = Stack!Abstract!Idle
  BY <1>2, Ops DEF CallOf, Stack!Abstract!Idle, Stack!IdleThread
<1>6. Stack!AbstractCall' = [Stack!AbstractCall EXCEPT ![t] = Stack!Abstract!Idle]
  BY <1>2, <1>5, OthersCalls
<1>7. Stack!Abstract!Return(t)
  BY <1>2, <1>3, <1>4, <1>6 DEF Stack!Abstract!Return
<1> QED BY <1>1, <1>7, ShapeMoved DEF Stack!Abstract!Next

LEMMA GiveCasWinsMoves ==
  ASSUME Stack!TypeOK, NEW P, NEW Q, Shape(P, Q), NEW t \in Threads, Stack!GiveCas(t),
         Stack!Same(fsTop, th[t].cmp)
  PROVE  Moved
<1>0. PICK x : x = th[t].exch
  OBVIOUS
<1>1. Shape(P, <<x>> \o Q)'
  BY <1>0, GiveCasWinsKeeps
<1>2. /\ OthersKeep(t) /\ data' = data /\ held' = held \cup {th[t].value}
      /\ th[t].pc = "giveCas" /\ th'[t] = Stack!IdleThread
  BY DEF Stack!GiveCas, OthersKeep, Stack!TypeOK
<1>3. Stack!AbstractCall[t].op = "popped" /\ Stack!AbstractCall[t].value = th[t].value
          /\ th[t].value # NoValue
  <2>1. th[t].value \in Values /\ NoValue \notin Values
    BY <1>2, Pcs, StackConstants DEF Shape, ContentSound
  <2> QED BY <1>2, <2>1, Calls, Ops, Pcs
<1>4. Stack!AbstractStack' = Stack!AbstractStack
  <2>1. Stack!AbstractStack' = Contents(P)'
    BY <1>1, StackOfNext
  <2> QED BY <1>2, <2>1, StackOf DEF Contents
<1>5. CallOf(th'[t]) = Stack!Abstract!Idle
  BY <1>2, Ops DEF CallOf, Stack!Abstract!Idle, Stack!IdleThread
<1>6. Stack!AbstractCall' = [Stack!AbstractCall EXCEPT ![t] = Stack!Abstract!Idle]
  BY <1>2, <1>5, OthersCalls
<1>7. held' = held \cup ({Stack!AbstractCall[t].value} \ {NoValue})
  BY <1>2, <1>3
<1>8. Stack!Abstract!Return(t)
  BY <1>3, <1>4, <1>6, <1>7 DEF Stack!Abstract!Return
<1> QED BY <1>1, <1>8, ShapeMoved DEF Stack!Abstract!Next

LEMMA PushCasWinsMoves ==
  ASSUME Stack!TypeOK, NEW P, NEW Q, Shape(P, Q), NEW t \in Threads, Stack!PushCas(t),
         Stack!Same(top, th[t].cmp)
  PROVE  Moved
<1>1. PICK x : x = th[t].exch
  OBVIOUS
<1>2. Shape(<<x>> \o P, Q)' /\ x \in Pointers /\ data[x.ptr] = th[t].value
  BY <1>1, PushCasWinsKeeps
<1>3. /\ OthersKeep(t) /\ data' = data /\ held' = held
      /\ th[t].pc = "pushCas" /\ th'[t] = Stack!IdleThread
  BY DEF Stack!PushCas, Stack!Same, OthersKeep, Stack!TypeOK
<1>4. P \in Seq(Pointers) /\ Len(P) \in Nat
  BY ListTop DEF Shape, Lists, List
<1>5. Stack!AbstractStack = Contents(P) /\ Stack!AbstractStack' = Contents(<<x>> \o P)
  <2>1. Stack!AbstractStack' = Contents(<<x>> \o P)'
    BY <1>2, StackOfNext
  <2>2. Contents(<<x>> \o P)' = Contents(<<x>> \o P)
    BY <1>3 DEF Contents
  <2> QED BY <2>1, <2>2, StackOf
<1>6. Stack!AbstractCall[t].op = "push" /\ Stack!AbstractCall[t].value = th[t].value
  BY <1>3, Calls, Ops, Pcs
<1>7. Contents(<<x>> \o P) = <<th[t].value>> \o Contents(P)
  <2> DEFINE Data == {data[P[k].ptr] : k \in 1 .. Len(P)} \cup {th[t].value}
  <2>1. Contents(P) \in Seq(Data) /\ Len(Contents(P)) = Len(P)
    <3>2. Contents(P) \in [1 .. Len(P) -> Data]
      BY DEF Contents
    <3> HIDE DEF Data
    <3> QED BY <1>4, <3>2, IsSeq
  <2>2. \A k \in 1 .. Len(P) : Contents(P)[k] = data[P[k].ptr]
    BY DEF Contents
  <2>3. /\ <<th[t].value>> \in Seq(Data) /\ Len(<<th[t].value>>) = 1
        /\ <<th[t].value>>[1] = th[t].value
    OBVIOUS
  <2>4. <<x>> \in Seq(Pointers) /\ Len(<<x>>) = 1 /\ <<x>>[1] = x
    BY <1>2
  <2> HIDE DEF Data
  <2>6. /\ Len(<<x>> \o P) = 1 + Len(P)
        /\ \A k \in 1 .. (1 + Len(P)) : (<<x>> \o P)[k] = IF k <= 1 THEN x ELSE P[k - 1]
    BY <1>2, <1>4, <2>4
  <2>7. \A k \in 1 .. (1 + Len(P)) : k <= 1 \/ k - 1 \in 1 .. Len(P)
    BY <1>4
  <2>8. /\ <<th[t].value>> \o Contents(P) \in Seq(Data)
        /\ Len(<<th[t].value>> \o Contents(P)) = 1 + Len(P)
        /\ \A k \in 1 .. (1 + Len(P)) : (<<th[t].value>> \o Contents(P))[k]
                                        = IF k <= 1 THEN th[t].value ELSE data[P[k - 1].ptr]
    <3>1. /\ <<th[t].value>> \o Contents(P) \in Seq(Data)
          /\ Len(<<th[t].value>> \o Contents(P)) = 1 + Len(P)
          /\ \A k \in 1 .. (1 + Len(P)) : (<<th[t].value>> \o Contents(P))[k]
                                        = IF k <= 1 THEN <<th[t].value>>[k] ELSE Contents(P)[k - 1]
      BY <2>1, <2>3, ConcatProperties
    <3>2. \A k \in 1 .. (1 + Len(P)) : k <= 1 => k = 1
      BY <1>4
    <3> HIDE DEF Data
    <3>3. ASSUME NEW k \in 1 .. (1 + Len(P)), k <= 1
          PROVE  (<<th[t].value>> \o Contents(P))[k] = th[t].value
      BY <2>3, <3>1, <3>2, <3>3
    <3>4. ASSUME NEW k \in 1 .. (1 + Len(P)), ~(k <= 1)
          PROVE  (<<th[t].value>> \o Contents(P))[k] = data[P[k - 1].ptr]
      BY <2>2, <2>7, <3>1, <3>4
    <3> QED BY <3>1, <3>3, <3>4
  <2>9. Contents(<<x>> \o P)
          = [k \in 1 .. (1 + Len(P)) |-> IF k <= 1 THEN th[t].value ELSE data[P[k - 1].ptr]]
    BY <1>2, <2>6 DEF Contents
  <2>10. Contents(<<x>> \o P) \in Seq(Data) /\ Len(Contents(<<x>> \o P)) = 1 + Len(P)
    <3>1. \A k \in 1 .. (1 + Len(P)) : IF k <= 1 THEN th[t].value \in Data
                                       ELSE data[P[k - 1].ptr] \in Data
      BY <2>7 DEF Data
    <3>2. Contents(<<x>> \o P) \in [1 .. (1 + Len(P)) -> Data]
      BY <2>9, <3>1
    <3>3. 1 + Len(P) \in Nat
      BY <1>4
    <3> QED BY <3>2, <3>3, IsSeq
  <2> QED BY <2>8, <2>9, <2>10, SeqEqual
<1>8. CallOf(th'[t]) = Stack!Abstract!Idle
  BY <1>3, Ops DEF CallOf, Stack!Abstract!Idle, Stack!IdleThread
<1>9. Stack!AbstractCall' = [Stack!AbstractCall EXCEPT ![t] = Stack!Abstract!Idle]
  BY <1>3, <1>8, OthersCalls
<1>10. Stack!Abstract!Push(t)
  BY <1>3, <1>5, <1>6, <1>7, <1>9 DEF Stack!Abstract!Push
<1> QED BY <1>2, <1>10, ShapeMoved DEF Stack!Abstract!Next

LEMMA StepMoves ==
  ASSUME Stack!TypeOK, NEW P, NEW Q, Shape(P, Q), NEW t \in Threads,
         Stack!StartPop(t) \/ (\E v \in Values : Stack!StartPush(t, v)) \/ Stack!Step(t)
  PROVE  Stack!TypeOK' /\ Moved
<1>1. Stack!TypeOK'
  BY TypesKept
<1>2. CASE Stack!StartPop(t)
  BY <1>1, <1>2, StartPopMoves
<1>3. CASE \E v \in Values : Stack!StartPush(t, v)
  BY <1>1, <1>3, StartPushMoves
<1>4. CASE Stack!PopReadPointer(t)
  BY <1>1, <1>4, PopReadPointerMoves, PopReadNullMoves
<1>5. CASE Stack!PopReadNextCounter(t)
  BY <1>1, <1>5, PopReadNextCounterMoves
<1>6. CASE Stack!PopReadNextPointer(t)
  BY <1>1, <1>6, PopReadNextPointerMoves
<1>7. CASE Stack!PopCas(t)
  BY <1>1, <1>7, PopCasWinsMoves, PopCasFailsMoves, PopCasNullMoves
<1>8. CASE Stack!PopEmpty(t)
  BY <1>1, <1>8, PopEmptyMoves
<1>9. CASE Stack!GiveCounter(t)
  BY <1>1, <1>9, GiveCounterMoves
<1>10. CASE Stack!GiveLink(t)
  BY <1>1, <1>10, GiveLinkMoves
<1>11. CASE Stack!GiveCas(t)
  BY <1>1, <1>11, GiveCasWinsMoves, GiveCasFailsMoves
<1>12. CASE Stack!TakeReadPointer(t)
  BY <1>1, <1>12, TakeReadPointerMoves
<1>13. CASE Stack!TakeReadNextCounter(t)
  BY <1>1, <1>13, TakeReadNextCounterMoves
<1>14. CASE Stack!TakeReadNextPointer(t)
  BY <1>1, <1>14, TakeReadNextPointerMoves
<1>15. CASE Stack!TakeCas(t)
  BY <1>1, <1>15, TakeCasWinsMoves, TakeCasFailsMoves
<1>16. CASE Stack!InitElement(t)
  BY <1>1, <1>16, InitElementMoves
<1>17. CASE Stack!PushLink(t)
  BY <1>1, <1>17, PushLinkMoves
<1>18. CASE Stack!PushCas(t)
  BY <1>1, <1>18, PushCasWinsMoves, PushCasFailsMoves
<1> QED BY <1>1, <1>2, <1>3, <1>4, <1>5, <1>6, <1>7, <1>8, <1>9, <1>10, <1>11, <1>12, <1>13,
           <1>14, <1>15, <1>16, <1>17, <1>18 DEF Stack!Step

LEMMA NextMoves ==
  ASSUME StackIInv, [Stack!Next]_(Stack!vars)
  PROVE  StackIInv' /\ [Stack!Abstract!Next]_(Stack!Abstract!avars)
<1>1. PICK P, Q \in Seq(Pointers) : Shape(P, Q)
  BY DEF StackIInv
<1>2. CASE Stack!Next
  <2>1. PICK t \in Threads : Stack!StartPop(t) \/ (\E v \in Values : Stack!StartPush(t, v))
                 \/ Stack!Step(t)
    BY <1>2 DEF Stack!Next
  <2>2. Stack!TypeOK' /\ Moved
    BY <1>1, <2>1, StepMoves DEF StackIInv
  <2> QED BY <2>2 DEF StackIInv, Moved
<1>3. CASE UNCHANGED Stack!vars
  <2>1. StackIInv'
    <3>1. Stack!TypeOK'
      BY <1>3 DEF StackIInv, Stack!TypeOK, Stack!vars
    <3>2. Shape(P, Q)'
      <4>1. UNCHANGED <<top, next, data, aba, fsTop, fsNext, fsAba, th, held>>
        BY <1>3 DEF Stack!vars
      <4>2. /\ Lists(P, Q) /\ Hands(P, Q) /\ Fresh(P, Linking, Popping, aba)
            /\ Fresh(Q, Returning, Taking, fsAba)
            /\ Read(P, next, "popNextCtr", "popNextPtr", "popCas")
            /\ Read(Q, fsNext, "takeNextCtr", "takeNextPtr", "takeCas") /\ Links /\ ContentSound(P)
        BY <1>1 DEF Shape
      <4>3. Lists(P, Q)' /\ Hands(P, Q)'
        BY <4>1, <4>2 DEF Lists, Hands
      <4>4. Fresh(P, Linking, Popping, aba)' /\ Fresh(Q, Returning, Taking, fsAba)'
        BY <4>1, <4>2 DEF Fresh
      <4>5. /\ Read(P, next, "popNextCtr", "popNextPtr", "popCas")'
            /\ Read(Q, fsNext, "takeNextCtr", "takeNextPtr", "takeCas")'
        BY <4>1, <4>2 DEF Read
      <4>6. Links' /\ ContentSound(P)'
        BY <4>1, <4>2 DEF Links, ContentSound
      <4> QED BY <4>3, <4>4, <4>5, <4>6 DEF Shape
    <3> QED BY <1>1, <3>1, <3>2 DEF StackIInv
  <2>2. UNCHANGED Stack!Abstract!avars
    <3>1. Stack!AbstractStack' = Stack!AbstractStack
      BY <1>3 DEF Stack!vars, Stack!AbstractStack, Stack!Chain, Stack!Nth
    <3>2. Stack!AbstractCall' = Stack!AbstractCall
      BY <1>3 DEF Stack!vars, Stack!AbstractCall
    <3> QED BY <1>3, <3>1, <3>2 DEF Stack!vars, Stack!Abstract!avars
  <2> QED BY <2>1, <2>2
<1> QED BY <1>2, <1>3

LEMMA InitMoves ==
  ASSUME Stack!Init
  PROVE  StackIInv /\ Stack!Abstract!Init
<1>1. Stack!TypeOK /\ \E P, Q \in Seq(Pointers) : Shape(P, Q) /\ Len(P) = Cardinality(Values)
  BY InitShape
<1>2. PICK P, Q \in Seq(Pointers) : Shape(P, Q) /\ Len(P) = Cardinality(Values)
  BY <1>1
<1>3. Stack!AbstractStack \in Stack!Abstract!Orders
  <2>1. Stack!AbstractStack = Contents(P)
    BY <1>2, StackOf
  <2>2. \A k \in 1 .. Len(P) : data[P[k].ptr] \in Values
    BY <1>2 DEF Shape, ContentSound
  <2>3. \A k, j \in 1 .. Len(P) : k # j => data[P[k].ptr] # data[P[j].ptr]
    BY <1>2 DEF Shape, ContentSound
  <2> QED BY <1>2, <2>1, <2>2, <2>3, SameCardinality DEF Contents, Stack!Abstract!Orders
<1>4. held = {} /\ \A t \in Threads : th[t] = Stack!IdleThread
  BY DEF Stack!Init
<1>5. Stack!AbstractCall = [t \in Threads |-> Stack!Abstract!Idle]
  <2>1. CallOf(Stack!IdleThread) = Stack!Abstract!Idle
    BY Ops DEF CallOf, Stack!IdleThread, Stack!Abstract!Idle
  <2> QED BY <1>4, <2>1, Calls
<1> QED BY <1>1, <1>3, <1>4, <1>5 DEF StackIInv, Stack!Abstract!Init

(* The theorems about the lock-free stack *)

\* liblfds.6 (stack_push_pop.c, freelist): the words of the stack always spell two lists
\* without loops, and no counter a thread still compares can come back.
THEOREM StackInvariance == Stack!Spec => []StackIInv
<1>1. Stack!Init => StackIInv
  BY InitMoves
<1>2. StackIInv /\ [Stack!Next]_(Stack!vars) => StackIInv'
  BY NextMoves
<1> QED BY <1>1, <1>2, PTL DEF Stack!Spec

\* liblfds.6 (stack_push_pop.c, freelist): whatever the CPUs interleave, every element is on
\* the stack, on the freelist or in the hands of one thread, and the words keep their types.
\* No element is handed to two callers, so no grant reference to two devices.
THEOREM StackKept == Stack!Spec => []StackSound
<1>1. StackIInv => StackSound
  BY ShapeIsSound DEF StackIInv
<1> QED BY <1>1, StackInvariance, PTL

\* liblfds.6 (stack_push, stack_pop): the lock-free code implements the stack whose
\* operations are instants, with pushes that never fail, for any number of threads, values
\* and elements (at least as many elements as values, as its users make it).
THEOREM StackImplementation == Stack!Spec => ImplementsAtomicStack
<1>1. Stack!Init => Stack!Abstract!Init
  BY InitMoves
<1>2. StackIInv /\ [Stack!Next]_(Stack!vars) => [Stack!Abstract!Next]_(Stack!Abstract!avars)
  BY NextMoves
<1> QED BY <1>1, <1>2, StackInvariance, PTL DEF Stack!Spec, ImplementsAtomicStack,
           Stack!ImplementsAtomicStack, Stack!Abstract!Spec
=============================================================================
