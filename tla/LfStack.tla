------------------------------ MODULE LfStack ------------------------------
(***************************************************************************)
(* The lock-free stack of liblfds.6 as the drivers link it                 *)
(* (src/single_dir_for_windows_kernel).  A stack has a freelist of its own *)
(* that holds a fixed number of elements; a push takes an element from the *)
(* freelist, a pop gives its element back.  Both lists are a top pointer   *)
(* with a counter beside it, changed by one double-word compare-and-swap,  *)
(* and links that are read and written without any protection: a thread    *)
(* may read the link of an element that others have popped and used again. *)
(* The counter of a pair is drawn from aba_counter at every push, so that  *)
(* a pair never comes back.                                                *)
(*                                                                         *)
(* A step reads or writes one shared word, or does one interlocked         *)
(* operation, together with what the thread does to its own variables.     *)
(***************************************************************************)
EXTENDS Naturals, Sequences, FiniteSets

CONSTANTS Threads,      \* the CPUs, at any IRQL: nothing holds them apart
          Values,       \* what is pushed
          NoValue,      \* no value
          NumElements,  \* number_elements of stack_new
          MaxCalls      \* bounds the calls of a behaviour, hence the counters

LfStackAssumption ==
  /\ IsFiniteSet(Values)
  /\ NoValue \notin Values
  /\ NumElements \in Nat
  /\ Cardinality(Values) <= NumElements    \* gnttbl.c:232, xennet_rx.c:1165
  /\ MaxCalls \in Nat

Elements == 1 .. NumElements
NULL == 0

(***************************************************************************)
(* A POINTER and its COUNTER, a stack_element *[STACK_PAC_SIZE].           *)
(***************************************************************************)
Pair(p, c) == [ptr |-> p, ctr |-> c]
NoPair == Pair(NULL, 0)

VARIABLES
  top,          \* stack_state.top
  next,         \* stack_element.next
  data,         \* stack_element.user_data
  aba,          \* stack_state.aba_counter
  fsTop,        \* freelist_state.top
  fsNext,       \* freelist_element.next
  fsAba,        \* freelist_state.aba_counter
  th,           \* for every thread, where it is and its local variables
  held,         \* the values popped and not pushed again
  calls         \* the calls made so far

vars == <<top, next, data, aba, fsTop, fsNext, fsAba, th, held, calls>>

(***************************************************************************)
(* Locals: the value pushed or popped, the element in hand, the pair that  *)
(* will be compared, the one that will be stored.                          *)
(***************************************************************************)
IdleThread == [pc |-> "idle", value |-> NoValue, elem |-> NULL,
               cmp |-> NoPair, exch |-> NoPair]

Locals == [pc : {"idle", "popPtr", "popNextCtr", "popNextPtr", "popCas",
                 "give", "giveLink", "giveCas", "takeCtr", "takePtr",
                 "takeNextCtr", "takeNextPtr", "takeCas", "init", "pushLink",
                 "pushCas", "empty"},
           value : Values \union {NoValue}, elem : Elements \union {NULL},
           cmp : [ptr : Elements \union {NULL}, ctr : Nat],
           exch : [ptr : Elements \union {NULL}, ctr : Nat]]

TypeOK == /\ top \in [ptr : Elements \union {NULL}, ctr : Nat]
          /\ next \in [Elements -> [ptr : Elements \union {NULL}, ctr : Nat]]
          /\ data \in [Elements -> Values \union {NoValue}]
          /\ fsTop \in [ptr : Elements \union {NULL}, ctr : Nat]
          /\ fsNext \in [Elements -> [ptr : Elements \union {NULL}, ctr : Nat]]
          /\ {aba, fsAba, calls} \subseteq Nat
          /\ th \in [Threads -> Locals]
          /\ held \subseteq Values

(***************************************************************************)
(* stack_new, then a push for every value before anybody else knows the    *)
(* stack (GntTbl_Init, XenNet_RxInit).  freelist_new pushes the elements   *)
(* 1 .. NumElements, so they are taken from the last to the first.         *)
(***************************************************************************)
Init ==
  \E order \in {s \in [1 .. Cardinality(Values) -> Values] :
                  \A i, j \in DOMAIN s : s[i] = s[j] => i = j} :
    LET k == Len(order)
        used(e) == e > NumElements - k
        turn(e) == NumElements - e + 1        \* the push that used e
    IN /\ top = IF k = 0 THEN NoPair ELSE Pair(NumElements - k + 1, k)
       /\ next = [e \in Elements |->
                    IF used(e) /\ e < NumElements THEN Pair(e + 1, turn(e) - 1)
                    ELSE NoPair]
       /\ data = [e \in Elements |->
                    IF used(e) THEN order[turn(e)] ELSE NoValue]
       /\ aba = k
       /\ fsTop = Pair(NumElements - k, NumElements - k)
       /\ fsNext = [e \in Elements |-> Pair(e - 1, e - 1)]
       /\ fsAba = NumElements
       /\ th = [t \in Threads |-> IdleThread]
       /\ held = {}
       /\ calls = 0

(***************************************************************************)
(* Mutant: the counter is left out of the comparison.                      *)
(***************************************************************************)
SamePointer(dest, cmp) == dest.ptr = cmp.ptr

(***************************************************************************)
(* abstraction_dcas: store exch if dest still is cmp; either way cmp       *)
(* becomes what was found, which the retry loops rely on.                  *)
(***************************************************************************)
Same(dest, cmp) == dest = cmp

(***************************************************************************)
(* Mutant: what was found is not loaded into the comparand.                *)
(***************************************************************************)
FoundLost(t, dest, pc) == th' = [th EXCEPT ![t].pc = pc]

Found(t, dest, pc) == th' = [th EXCEPT ![t].cmp = dest, ![t].pc = pc]

(***************************************************************************)
(* stack_pop: the counter is read before the pointer, and the link of the  *)
(* element found in two more reads.  A NULL top ends the call.             *)
(***************************************************************************)
StartPop(t) ==
  /\ th[t].pc = "idle"
  /\ calls < MaxCalls
  /\ calls' = calls + 1
  /\ th' = [th EXCEPT ![t].pc = "popPtr", ![t].cmp.ctr = top.ctr]
  /\ UNCHANGED <<top, next, data, aba, fsTop, fsNext, fsAba, held>>

PopTest(ptr) == IF ptr = NULL THEN "empty" ELSE "popNextCtr"

PopReadPointer(t) ==
  /\ th[t].pc = "popPtr"
  /\ th' = [th EXCEPT ![t].cmp.ptr = top.ptr, ![t].pc = PopTest(top.ptr)]
  /\ UNCHANGED <<top, next, data, aba, fsTop, fsNext, fsAba, held, calls>>

PopReadNextCounter(t) ==
  /\ th[t].pc = "popNextCtr"
  /\ th' = [th EXCEPT ![t].exch.ctr = next[th[t].cmp.ptr].ctr,
                      ![t].pc = "popNextPtr"]
  /\ UNCHANGED <<top, next, data, aba, fsTop, fsNext, fsAba, held, calls>>

PopReadNextPointer(t) ==
  /\ th[t].pc = "popNextPtr"
  /\ th' = [th EXCEPT ![t].exch.ptr = next[th[t].cmp.ptr].ptr,
                      ![t].pc = "popCas"]
  /\ UNCHANGED <<top, next, data, aba, fsTop, fsNext, fsAba, held, calls>>

PopCas(t) ==
  /\ th[t].pc = "popCas"
  /\ \/ /\ Same(top, th[t].cmp)
        /\ top' = th[t].exch
        /\ th' = [th EXCEPT ![t].elem = th[t].cmp.ptr,
                            ![t].value = data[th[t].cmp.ptr],
                            ![t].pc = "give"]
     \/ /\ ~Same(top, th[t].cmp)
        /\ Found(t, top, PopTest(top.ptr))
        /\ UNCHANGED top
  /\ UNCHANGED <<next, data, aba, fsTop, fsNext, fsAba, held, calls>>

PopEmpty(t) ==
  /\ th[t].pc = "empty"
  /\ th' = [th EXCEPT ![t] = IdleThread]
  /\ UNCHANGED <<top, next, data, aba, fsTop, fsNext, fsAba, held, calls>>

(***************************************************************************)
(* freelist_push of the element popped; then stack_pop returns the value.  *)
(* Here the pointer of the top is read first.                              *)
(***************************************************************************)
GiveCounter(t) ==
  /\ th[t].pc = "give"
  /\ fsAba' = fsAba + 1
  /\ th' = [th EXCEPT ![t].exch = Pair(th[t].elem, fsAba + 1),
                      ![t].cmp.ptr = fsTop.ptr, ![t].pc = "giveLink"]
  /\ UNCHANGED <<top, next, data, aba, fsTop, fsNext, held, calls>>

GiveLink(t) ==
  /\ th[t].pc = "giveLink"
  /\ LET was == Pair(th[t].cmp.ptr, fsTop.ctr)
     IN /\ fsNext' = [fsNext EXCEPT ![th[t].elem] = was]
        /\ Found(t, was, "giveCas")
  /\ UNCHANGED <<top, next, data, aba, fsTop, fsAba, held, calls>>

GiveCas(t) ==
  /\ th[t].pc = "giveCas"
  /\ \/ /\ Same(fsTop, th[t].cmp)
        /\ fsTop' = th[t].exch
        /\ held' = held \union {th[t].value}
        /\ th' = [th EXCEPT ![t] = IdleThread]
        /\ UNCHANGED fsNext
     \/ /\ ~Same(fsTop, th[t].cmp)
        /\ fsNext' = [fsNext EXCEPT ![th[t].elem] = fsTop]
        /\ Found(t, fsTop, "giveCas")
        /\ UNCHANGED <<fsTop, held>>
  /\ UNCHANGED <<top, next, data, aba, fsAba, calls>>

(***************************************************************************)
(* stack_push begins with freelist_pop; without an element it fails, and   *)
(* its callers (put_free_entry, put_hb_on_freelist) do not look.           *)
(***************************************************************************)
StartPush(t, v) ==
  /\ th[t].pc = "idle"
  /\ calls < MaxCalls
  /\ v \in held
  /\ held' = held \ {v}
  /\ calls' = calls + 1
  /\ th' = [th EXCEPT ![t].value = v, ![t].cmp.ctr = fsTop.ctr,
                      ![t].pc = "takePtr"]
  /\ UNCHANGED <<top, next, data, aba, fsTop, fsNext, fsAba>>

TakeReadPointer(t) ==
  /\ th[t].pc = "takePtr"
  /\ IF fsTop.ptr = NULL
     THEN th' = [th EXCEPT ![t] = IdleThread]        \* return 0
     ELSE th' = [th EXCEPT ![t].cmp.ptr = fsTop.ptr, ![t].pc = "takeNextCtr"]
  /\ UNCHANGED <<top, next, data, aba, fsTop, fsNext, fsAba, held, calls>>

TakeReadNextCounter(t) ==
  /\ th[t].pc = "takeNextCtr"
  /\ th' = [th EXCEPT ![t].exch.ctr = fsNext[th[t].cmp.ptr].ctr,
                      ![t].pc = "takeNextPtr"]
  /\ UNCHANGED <<top, next, data, aba, fsTop, fsNext, fsAba, held, calls>>

TakeReadNextPointer(t) ==
  /\ th[t].pc = "takeNextPtr"
  /\ th' = [th EXCEPT ![t].exch.ptr = fsNext[th[t].cmp.ptr].ptr,
                      ![t].pc = "takeCas"]
  /\ UNCHANGED <<top, next, data, aba, fsTop, fsNext, fsAba, held, calls>>

TakeCas(t) ==
  /\ th[t].pc = "takeCas"
  /\ \/ /\ Same(fsTop, th[t].cmp)
        /\ fsTop' = th[t].exch
        /\ th' = [th EXCEPT ![t].elem = th[t].cmp.ptr, ![t].pc = "init"]
     \/ /\ ~Same(fsTop, th[t].cmp)
        /\ IF fsTop.ptr = NULL
           THEN th' = [th EXCEPT ![t] = IdleThread]  \* return 0
           ELSE Found(t, fsTop, "takeNextCtr")
        /\ UNCHANGED fsTop
  /\ UNCHANGED <<top, next, data, aba, fsNext, fsAba, held, calls>>

(***************************************************************************)
(* stack_internal_init_element, then stack_internal_push.                  *)
(***************************************************************************)
InitElement(t) ==
  /\ th[t].pc = "init"
  /\ aba' = aba + 1
  /\ next' = [next EXCEPT ![th[t].elem] = NoPair]
  /\ data' = [data EXCEPT ![th[t].elem] = th[t].value]
  /\ th' = [th EXCEPT ![t].exch = Pair(th[t].elem, aba + 1),
                      ![t].cmp.ptr = top.ptr, ![t].pc = "pushLink"]
  /\ UNCHANGED <<top, fsTop, fsNext, fsAba, held, calls>>

PushLink(t) ==
  /\ th[t].pc = "pushLink"
  /\ LET was == Pair(th[t].cmp.ptr, top.ctr)
     IN /\ next' = [next EXCEPT ![th[t].elem] = was]
        /\ Found(t, was, "pushCas")
  /\ UNCHANGED <<top, data, aba, fsTop, fsNext, fsAba, held, calls>>

(***************************************************************************)
(* Mutant: the link is written before the loop and not in it.              *)
(***************************************************************************)
PushCasKeepLink(t) ==
  /\ th[t].pc = "pushCas"
  /\ \/ /\ Same(top, th[t].cmp)
        /\ top' = th[t].exch
        /\ th' = [th EXCEPT ![t] = IdleThread]
     \/ /\ ~Same(top, th[t].cmp)
        /\ Found(t, top, "pushCas")
        /\ UNCHANGED top
  /\ UNCHANGED <<next, data, aba, fsTop, fsNext, fsAba, held, calls>>

PushCas(t) ==
  /\ th[t].pc = "pushCas"
  /\ \/ /\ Same(top, th[t].cmp)
        /\ top' = th[t].exch
        /\ th' = [th EXCEPT ![t] = IdleThread]
        /\ UNCHANGED next
     \/ /\ ~Same(top, th[t].cmp)
        /\ next' = [next EXCEPT ![th[t].elem] = top]
        /\ Found(t, top, "pushCas")
        /\ UNCHANGED top
  /\ UNCHANGED <<data, aba, fsTop, fsNext, fsAba, held, calls>>

Step(t) == \/ PopReadPointer(t) \/ PopReadNextCounter(t)
           \/ PopReadNextPointer(t) \/ PopCas(t) \/ PopEmpty(t)
           \/ GiveCounter(t) \/ GiveLink(t) \/ GiveCas(t)
           \/ TakeReadPointer(t) \/ TakeReadNextCounter(t)
           \/ TakeReadNextPointer(t) \/ TakeCas(t)
           \/ InitElement(t) \/ PushLink(t) \/ PushCas(t)

Next == \E t \in Threads : \/ StartPop(t)
                           \/ \E v \in Values : StartPush(t, v)
                           \/ Step(t)

Spec == Init /\ [][Next]_vars

(***************************************************************************)
(* A CPU inside a call is not stopped: the calls are made at DISPATCH_LEVEL *)
(* or above, or by threads that Windows keeps scheduling.                   *)
(***************************************************************************)
FairSpec == Spec /\ \A t \in Threads : WF_vars(Step(t))

-----------------------------------------------------------------------------
(***************************************************************************)
(* The list that hangs from a pointer, its length cut off one element past *)
(* what a list without a loop can have.                                    *)
(***************************************************************************)
Nth(first, link) ==
  LET f[n \in 0 .. NumElements] ==
        IF n = 0 THEN first
        ELSE IF f[n - 1] = NULL THEN NULL ELSE link[f[n - 1]].ptr
  IN f

Chain(first, link) ==
  LET f == Nth(first, link)
  IN [i \in 1 .. Cardinality({n \in 0 .. NumElements : f[n] # NULL}) |->
        f[i - 1]]

Occurs(e, seq) == Cardinality({i \in DOMAIN seq : seq[i] = e})

InHand(e) ==
  Cardinality({t \in Threads :
                 /\ th[t].elem = e
                 /\ th[t].pc \in {"give", "giveLink", "giveCas",
                                  "init", "pushLink", "pushCas"}})

(***************************************************************************)
(* Every element is in one place: on the stack, on the freelist or in the  *)
(* hands of one thread.  An element in two places would hand one grant     *)
(* reference to two devices; this is what the counters are there for.      *)
(***************************************************************************)
ElementInOnePlace ==
  LET onStack == Chain(top.ptr, next)
      onFree == Chain(fsTop.ptr, fsNext)
  IN \A e \in Elements : Occurs(e, onStack) + Occurs(e, onFree) + InHand(e) = 1

(***************************************************************************)
(* The stack that the callers see.  A pop takes effect at its successful   *)
(* compare-and-swap, or when it finds the top NULL; a push at its          *)
(* compare-and-swap.                                                       *)
(***************************************************************************)
AbstractStack ==
  LET f == Chain(top.ptr, next) IN [i \in DOMAIN f |-> data[f[i]]]

AbstractCall ==
  [t \in Threads |->
    LET pc == th[t].pc
    IN [op |-> CASE pc = "idle" -> "idle"
                 [] pc \in {"popPtr", "popNextCtr", "popNextPtr", "popCas"} -> "pop"
                 [] pc = "empty" -> "empty"
                 [] pc \in {"give", "giveLink", "giveCas"} -> "popped"
                 [] OTHER -> "push",
        value |-> th[t].value]]

Abstract == INSTANCE AtomicStack WITH stack <- AbstractStack,
                                      call <- AbstractCall

(***************************************************************************)
(* Every run of the lock-free code is a run of the stack whose operations  *)
(* are instants, pushes that cannot fail included: that is what the other  *)
(* modules of this project assume of stack_push and stack_pop.             *)
(***************************************************************************)
ImplementsAtomicStack == Abstract!Spec

(***************************************************************************)
(* Competing with a bounded number of other calls, a call returns: no      *)
(* retry loop goes on against a list that has stopped changing.            *)
(***************************************************************************)
Returns(t) == th[t].pc # "idle" ~> th[t].pc = "idle"

(***************************************************************************)
(* The words of the two lists keep their types, and their elements their   *)
(* places.                                                                 *)
(***************************************************************************)
StackSound == TypeOK /\ ElementInOnePlace
=============================================================================
