------------------------- MODULE EventChannelProofs -------------------------
(***************************************************************************)
(* Proofs about EventChannel for every set of ports and every word size.   *)
(*                                                                         *)
(* Calls: the owner of a port is at a step; what the port's entry holds    *)
(* and whether a DPC may be about follow from that step.  Events: a        *)
(* pending bit is answered for by its word, in the selector or in the      *)
(* interrupt's hands, and a port that is being bound was not pending       *)
(* before.                                                                 *)
(***************************************************************************)
EXTENDS EventChannel, WellFoundedInduction, TLAPS

\* Steps of an owner: the routine or the context is the current one; the entry has a type;
\* the port is masked; no DPC of the port is about.
HasRoutine == {"context", "type", "unmask", "bound", "exchange", "remove", "flush", "clear"}
HasContext == {"type", "unmask", "bound", "exchange", "remove", "flush", "clear", "clear2"}
Typed      == {"unmask", "bound", "exchange"}
New        == {"routine", "context", "type"}
Quiet      == {"clear", "clear2", "unbound", "routine", "context", "type"}

EntryIsCurrent ==
  \A p \in Ports :
    /\ owner[p] \in HasRoutine => ServiceRoutine[p] = gen[p]
    /\ owner[p] \in HasContext => ServiceContext[p] = gen[p]
    /\ type[p] = IF owner[p] \in Typed THEN IF p \in DpcPorts THEN "DPC" ELSE "NORMAL"
                 ELSE IF owner[p] \in New THEN "NEW" ELSE "EMPTY"

\* Only a port that is bound can be taken by the interrupt.
MaskedUnlessBound == \A p \in Ports : p \in evtchn_mask \/ owner[p] = "bound"

NoDpcLeft ==
  \A p \in DpcPorts : owner[p] \in Quiet =>
    p \notin dpcqueued /\ dpc[p] = "none" /\ ~(isr = "dispatch" /\ port = p)

InterruptsMasked == interrupts_masked = (power # "on")

FreshIsClear == \A p \in fresh : owner[p] = "unbound" /\ p \notin evtchn_pending

EarlyIsKnown == \A p \in Ports : Binding(p) /\ p \in evtchn_pending => p \in early

Signalled ==
  evtchn_pending_sel # {} /\ ~interrupts_masked => evtchn_upcall_pending \/ isr = "sel"

WordsTaken == isr \in {"idle", "sel"} => evt_words = {}

CallInv == EntryIsCurrent /\ MaskedUnlessBound /\ NoDpcLeft /\ InterruptsMasked
           /\ DpcCallIsCurrent /\ QuietWhileSuspended

EventInv == FreshIsClear /\ EarlyIsKnown /\ Signalled /\ WordsTaken /\ NoEventForgotten

IInv == TypeOK /\ CallInv /\ EventInv
-----------------------------------------------------------------------------
(* The least of a set of numbers, and the words *)

LEMMA LowestIsLeast ==
  ASSUME NEW S \in SUBSET Nat, S # {}
  PROVE  Lowest(S) \in S /\ \A y \in S : Lowest(S) <= y
<1> DEFINE R == OpToRel(<, Nat)
<1>1. IsWellFoundedOn(R, Nat)
  BY NatLessThanWellFounded
<1>2. \E x \in S : \A y \in S : ~ (<<y, x>> \in R)
  BY <1>1, WFMin
<1>3. \A x, y \in Nat : <<y, x>> \in R <=> y < x
  BY DEF OpToRel
<1>4. \E x \in S : \A y \in S : x <= y
  <2>1. PICK x \in S : \A y \in S : ~ (<<y, x>> \in R)
    BY <1>2
  <2>2. \A y \in S : x \in Nat /\ y \in Nat /\ ~ (y < x)
    BY <1>3, <2>1
  <2>3. \A a, b \in Nat : ~ (b < a) => a <= b
    OBVIOUS
  <2> QED BY <2>2, <2>3, Zenon
<1> QED BY <1>4 DEF Lowest

LEMMA WordsAreNumbers == Words \subseteq Nat /\ \A p \in Ports : Word(p) \in Words
BY EventChannelAssumption DEF Words, Word
-----------------------------------------------------------------------------
LEMMA RaiseKeeps == ASSUME IInv, NEW p \in Ports, Raise(p) PROVE IInv'
<1> USE EventChannelAssumption DEF Raise, OwnerStep, IInv, CallInv, EventInv, page, actions, isrvars, dpcvars, owners
<1>1. TypeOK'
  <2>1. evtchn_pending_sel' \in SUBSET Words /\ evtchn_upcall_pending' \in BOOLEAN
    BY WordsAreNumbers DEF TypeOK
  <2>2. early' \in SUBSET KeepPorts /\ unseen' \in SUBSET Ports /\ evtchn_pending' \in SUBSET Ports
    BY DEF TypeOK
  <2>3. raises' \in 0 .. MaxRaises
    BY DEF TypeOK
  <2> QED BY <2>1, <2>2, <2>3 DEF TypeOK
<1>2. EntryIsCurrent'
  BY DEF TypeOK, EntryIsCurrent, MaskedUnlessBound, NoDpcLeft, InterruptsMasked, DpcCallIsCurrent, QuietWhileSuspended, HasRoutine, HasContext, Typed, New, Quiet, Binding
<1>3. MaskedUnlessBound'
  BY DEF TypeOK, EntryIsCurrent, MaskedUnlessBound, NoDpcLeft, InterruptsMasked, DpcCallIsCurrent, QuietWhileSuspended, HasRoutine, HasContext, Typed, New, Quiet, Binding
<1>4. NoDpcLeft'
  BY DEF TypeOK, EntryIsCurrent, MaskedUnlessBound, NoDpcLeft, InterruptsMasked, DpcCallIsCurrent, QuietWhileSuspended, HasRoutine, HasContext, Typed, New, Quiet, Binding
<1>5. InterruptsMasked'
  BY DEF TypeOK, EntryIsCurrent, MaskedUnlessBound, NoDpcLeft, InterruptsMasked, DpcCallIsCurrent, QuietWhileSuspended, HasRoutine, HasContext, Typed, New, Quiet, Binding
<1>6. DpcCallIsCurrent'
  BY DEF TypeOK, EntryIsCurrent, MaskedUnlessBound, NoDpcLeft, InterruptsMasked, DpcCallIsCurrent, QuietWhileSuspended, HasRoutine, HasContext, Typed, New, Quiet, Binding
<1>7. QuietWhileSuspended'
  BY DEF TypeOK, EntryIsCurrent, MaskedUnlessBound, NoDpcLeft, InterruptsMasked, DpcCallIsCurrent, QuietWhileSuspended, HasRoutine, HasContext, Typed, New, Quiet, Binding
<1>8. FreshIsClear'
  BY DEF TypeOK, FreshIsClear, EarlyIsKnown, Signalled, WordsTaken, NoEventForgotten, Binding, MaskedUnlessBound, InterruptsMasked, Scanned, QuietWhileSuspended
<1>9. EarlyIsKnown'
  BY DEF TypeOK, FreshIsClear, EarlyIsKnown, Signalled, WordsTaken, NoEventForgotten, Binding, MaskedUnlessBound, InterruptsMasked, Scanned, QuietWhileSuspended
<1>10. Signalled'
  BY DEF TypeOK, FreshIsClear, EarlyIsKnown, Signalled, WordsTaken, NoEventForgotten, Binding, MaskedUnlessBound, InterruptsMasked, Scanned, QuietWhileSuspended
<1>11. WordsTaken'
  BY DEF TypeOK, FreshIsClear, EarlyIsKnown, Signalled, WordsTaken, NoEventForgotten, Binding, MaskedUnlessBound, InterruptsMasked, Scanned, QuietWhileSuspended
<1>12. NoEventForgotten'
  <2>1. /\ NoEventForgotten /\ Signalled /\ evtchn_pending' = evtchn_pending \cup {p}
        /\ early' \in {early, early \cup {p}}
        /\ UNCHANGED <<evtchn_mask, interrupts_masked, isr, evt_words, evt_word>>
    OBVIOUS
  <2>2. /\ evtchn_pending_sel \subseteq evtchn_pending_sel'
        /\ evtchn_upcall_pending => evtchn_upcall_pending'
    OBVIOUS
  <2>3. ASSUME NEW q \in evtchn_pending \ (evtchn_mask \cup early), ~interrupts_masked
        PROVE  \/ Word(q) \in evtchn_pending_sel' /\ (evtchn_upcall_pending' \/ isr' = "sel")
               \/ isr' # "idle" /\ Word(q) \in evt_words'
               \/ isr' \in {"scan", "dispatch", "routine", "context", "call"} /\ Word(q) = evt_word'
               \/ isr' = "crash"
    BY <2>1, <2>2, <2>3 DEF NoEventForgotten
  <2>4. ASSUME p \notin evtchn_mask \cup early', p \notin evtchn_pending \/ p \in early, ~interrupts_masked
        PROVE  \/ Word(p) \in evtchn_pending_sel' /\ (evtchn_upcall_pending' \/ isr' = "sel")
               \/ isr' # "idle" /\ Word(p) \in evt_words'
               \/ isr' \in {"scan", "dispatch", "routine", "context", "call"} /\ Word(p) = evt_word'
               \/ isr' = "crash"
    BY <2>4 DEF Signalled
  <2> QED BY <2>1, <2>3, <2>4 DEF NoEventForgotten
<1> QED BY <1>1, <1>2, <1>3, <1>4, <1>5, <1>6, <1>7, <1>8, <1>9, <1>10, <1>11, <1>12
LEMMA BindNewKeeps == ASSUME IInv, NEW p \in Ports, BindNew(p) PROVE IInv'
<1> USE EventChannelAssumption DEF BindNew, OwnerStep, IInv, CallInv, EventInv, page, actions, isrvars, dpcvars, owners
<1>1. TypeOK'
  BY WordsAreNumbers DEF TypeOK, OwnerLabels, IsrLabels, DpcLabels, Gens, Calls, NoCall, NULL
<1>2. EntryIsCurrent'
  BY DEF TypeOK, EntryIsCurrent, MaskedUnlessBound, NoDpcLeft, InterruptsMasked, DpcCallIsCurrent, QuietWhileSuspended, HasRoutine, HasContext, Typed, New, Quiet, Binding
<1>3. MaskedUnlessBound'
  BY DEF TypeOK, EntryIsCurrent, MaskedUnlessBound, NoDpcLeft, InterruptsMasked, DpcCallIsCurrent, QuietWhileSuspended, HasRoutine, HasContext, Typed, New, Quiet, Binding
<1>4. NoDpcLeft'
  BY DEF TypeOK, EntryIsCurrent, MaskedUnlessBound, NoDpcLeft, InterruptsMasked, DpcCallIsCurrent, QuietWhileSuspended, HasRoutine, HasContext, Typed, New, Quiet, Binding
<1>5. InterruptsMasked'
  BY DEF TypeOK, EntryIsCurrent, MaskedUnlessBound, NoDpcLeft, InterruptsMasked, DpcCallIsCurrent, QuietWhileSuspended, HasRoutine, HasContext, Typed, New, Quiet, Binding
<1>6. DpcCallIsCurrent'
  BY DEF TypeOK, EntryIsCurrent, MaskedUnlessBound, NoDpcLeft, InterruptsMasked, DpcCallIsCurrent, QuietWhileSuspended, HasRoutine, HasContext, Typed, New, Quiet, Binding
<1>7. QuietWhileSuspended'
  BY DEF TypeOK, EntryIsCurrent, MaskedUnlessBound, NoDpcLeft, InterruptsMasked, DpcCallIsCurrent, QuietWhileSuspended, HasRoutine, HasContext, Typed, New, Quiet, Binding
<1>8. FreshIsClear'
  BY DEF TypeOK, FreshIsClear, EarlyIsKnown, Signalled, WordsTaken, NoEventForgotten, Binding, MaskedUnlessBound, InterruptsMasked, Scanned, QuietWhileSuspended
<1>9. EarlyIsKnown'
  BY DEF TypeOK, FreshIsClear, EarlyIsKnown, Signalled, WordsTaken, NoEventForgotten, Binding, MaskedUnlessBound, InterruptsMasked, Scanned, QuietWhileSuspended
<1>10. Signalled'
  BY DEF TypeOK, FreshIsClear, EarlyIsKnown, Signalled, WordsTaken, NoEventForgotten, Binding, MaskedUnlessBound, InterruptsMasked, Scanned, QuietWhileSuspended
<1>11. WordsTaken'
  BY DEF TypeOK, FreshIsClear, EarlyIsKnown, Signalled, WordsTaken, NoEventForgotten, Binding, MaskedUnlessBound, InterruptsMasked, Scanned, QuietWhileSuspended
<1>12. NoEventForgotten'
  BY DEF TypeOK, FreshIsClear, EarlyIsKnown, Signalled, WordsTaken, NoEventForgotten, Binding, MaskedUnlessBound, InterruptsMasked, Scanned, QuietWhileSuspended
<1> QED BY <1>1, <1>2, <1>3, <1>4, <1>5, <1>6, <1>7, <1>8, <1>9, <1>10, <1>11, <1>12
LEMMA SetRoutineKeeps == ASSUME IInv, NEW p \in Ports, SetRoutine(p) PROVE IInv'
<1> USE EventChannelAssumption DEF SetRoutine, OwnerStep, IInv, CallInv, EventInv, page, actions, isrvars, dpcvars, owners
<1>1. TypeOK'
  BY WordsAreNumbers DEF TypeOK, OwnerLabels, IsrLabels, DpcLabels, Gens, Calls, NoCall, NULL
<1>2. EntryIsCurrent'
  BY DEF TypeOK, EntryIsCurrent, MaskedUnlessBound, NoDpcLeft, InterruptsMasked, DpcCallIsCurrent, QuietWhileSuspended, HasRoutine, HasContext, Typed, New, Quiet, Binding
<1>3. MaskedUnlessBound'
  BY DEF TypeOK, EntryIsCurrent, MaskedUnlessBound, NoDpcLeft, InterruptsMasked, DpcCallIsCurrent, QuietWhileSuspended, HasRoutine, HasContext, Typed, New, Quiet, Binding
<1>4. NoDpcLeft'
  BY DEF TypeOK, EntryIsCurrent, MaskedUnlessBound, NoDpcLeft, InterruptsMasked, DpcCallIsCurrent, QuietWhileSuspended, HasRoutine, HasContext, Typed, New, Quiet, Binding
<1>5. InterruptsMasked'
  BY DEF TypeOK, EntryIsCurrent, MaskedUnlessBound, NoDpcLeft, InterruptsMasked, DpcCallIsCurrent, QuietWhileSuspended, HasRoutine, HasContext, Typed, New, Quiet, Binding
<1>6. DpcCallIsCurrent'
  BY DEF TypeOK, EntryIsCurrent, MaskedUnlessBound, NoDpcLeft, InterruptsMasked, DpcCallIsCurrent, QuietWhileSuspended, HasRoutine, HasContext, Typed, New, Quiet, Binding
<1>7. QuietWhileSuspended'
  BY DEF TypeOK, EntryIsCurrent, MaskedUnlessBound, NoDpcLeft, InterruptsMasked, DpcCallIsCurrent, QuietWhileSuspended, HasRoutine, HasContext, Typed, New, Quiet, Binding
<1>8. FreshIsClear'
  BY DEF TypeOK, FreshIsClear, EarlyIsKnown, Signalled, WordsTaken, NoEventForgotten, Binding, MaskedUnlessBound, InterruptsMasked, Scanned, QuietWhileSuspended
<1>9. EarlyIsKnown'
  BY DEF TypeOK, FreshIsClear, EarlyIsKnown, Signalled, WordsTaken, NoEventForgotten, Binding, MaskedUnlessBound, InterruptsMasked, Scanned, QuietWhileSuspended
<1>10. Signalled'
  BY DEF TypeOK, FreshIsClear, EarlyIsKnown, Signalled, WordsTaken, NoEventForgotten, Binding, MaskedUnlessBound, InterruptsMasked, Scanned, QuietWhileSuspended
<1>11. WordsTaken'
  BY DEF TypeOK, FreshIsClear, EarlyIsKnown, Signalled, WordsTaken, NoEventForgotten, Binding, MaskedUnlessBound, InterruptsMasked, Scanned, QuietWhileSuspended
<1>12. NoEventForgotten'
  BY DEF TypeOK, FreshIsClear, EarlyIsKnown, Signalled, WordsTaken, NoEventForgotten, Binding, MaskedUnlessBound, InterruptsMasked, Scanned, QuietWhileSuspended
<1> QED BY <1>1, <1>2, <1>3, <1>4, <1>5, <1>6, <1>7, <1>8, <1>9, <1>10, <1>11, <1>12
LEMMA SetContextKeeps == ASSUME IInv, NEW p \in Ports, SetContext(p) PROVE IInv'
<1> USE EventChannelAssumption DEF SetContext, OwnerStep, IInv, CallInv, EventInv, page, actions, isrvars, dpcvars, owners
<1>1. TypeOK'
  BY WordsAreNumbers DEF TypeOK, OwnerLabels, IsrLabels, DpcLabels, Gens, Calls, NoCall, NULL
<1>2. EntryIsCurrent'
  BY DEF TypeOK, EntryIsCurrent, MaskedUnlessBound, NoDpcLeft, InterruptsMasked, DpcCallIsCurrent, QuietWhileSuspended, HasRoutine, HasContext, Typed, New, Quiet, Binding
<1>3. MaskedUnlessBound'
  BY DEF TypeOK, EntryIsCurrent, MaskedUnlessBound, NoDpcLeft, InterruptsMasked, DpcCallIsCurrent, QuietWhileSuspended, HasRoutine, HasContext, Typed, New, Quiet, Binding
<1>4. NoDpcLeft'
  BY DEF TypeOK, EntryIsCurrent, MaskedUnlessBound, NoDpcLeft, InterruptsMasked, DpcCallIsCurrent, QuietWhileSuspended, HasRoutine, HasContext, Typed, New, Quiet, Binding
<1>5. InterruptsMasked'
  BY DEF TypeOK, EntryIsCurrent, MaskedUnlessBound, NoDpcLeft, InterruptsMasked, DpcCallIsCurrent, QuietWhileSuspended, HasRoutine, HasContext, Typed, New, Quiet, Binding
<1>6. DpcCallIsCurrent'
  BY DEF TypeOK, EntryIsCurrent, MaskedUnlessBound, NoDpcLeft, InterruptsMasked, DpcCallIsCurrent, QuietWhileSuspended, HasRoutine, HasContext, Typed, New, Quiet, Binding
<1>7. QuietWhileSuspended'
  BY DEF TypeOK, EntryIsCurrent, MaskedUnlessBound, NoDpcLeft, InterruptsMasked, DpcCallIsCurrent, QuietWhileSuspended, HasRoutine, HasContext, Typed, New, Quiet, Binding
<1>8. FreshIsClear'
  BY DEF TypeOK, FreshIsClear, EarlyIsKnown, Signalled, WordsTaken, NoEventForgotten, Binding, MaskedUnlessBound, InterruptsMasked, Scanned, QuietWhileSuspended
<1>9. EarlyIsKnown'
  BY DEF TypeOK, FreshIsClear, EarlyIsKnown, Signalled, WordsTaken, NoEventForgotten, Binding, MaskedUnlessBound, InterruptsMasked, Scanned, QuietWhileSuspended
<1>10. Signalled'
  BY DEF TypeOK, FreshIsClear, EarlyIsKnown, Signalled, WordsTaken, NoEventForgotten, Binding, MaskedUnlessBound, InterruptsMasked, Scanned, QuietWhileSuspended
<1>11. WordsTaken'
  BY DEF TypeOK, FreshIsClear, EarlyIsKnown, Signalled, WordsTaken, NoEventForgotten, Binding, MaskedUnlessBound, InterruptsMasked, Scanned, QuietWhileSuspended
<1>12. NoEventForgotten'
  BY DEF TypeOK, FreshIsClear, EarlyIsKnown, Signalled, WordsTaken, NoEventForgotten, Binding, MaskedUnlessBound, InterruptsMasked, Scanned, QuietWhileSuspended
<1> QED BY <1>1, <1>2, <1>3, <1>4, <1>5, <1>6, <1>7, <1>8, <1>9, <1>10, <1>11, <1>12
LEMMA SetTypeKeeps == ASSUME IInv, NEW p \in Ports, SetType(p) PROVE IInv'
<1> USE EventChannelAssumption DEF SetType, OwnerStep, IInv, CallInv, EventInv, page, actions, isrvars, dpcvars, owners
<1>1. TypeOK'
  BY WordsAreNumbers DEF TypeOK, OwnerLabels, IsrLabels, DpcLabels, Gens, Calls, NoCall, NULL
<1>2. EntryIsCurrent'
  BY DEF TypeOK, EntryIsCurrent, MaskedUnlessBound, NoDpcLeft, InterruptsMasked, DpcCallIsCurrent, QuietWhileSuspended, HasRoutine, HasContext, Typed, New, Quiet, Binding
<1>3. MaskedUnlessBound'
  BY DEF TypeOK, EntryIsCurrent, MaskedUnlessBound, NoDpcLeft, InterruptsMasked, DpcCallIsCurrent, QuietWhileSuspended, HasRoutine, HasContext, Typed, New, Quiet, Binding
<1>4. NoDpcLeft'
  BY DEF TypeOK, EntryIsCurrent, MaskedUnlessBound, NoDpcLeft, InterruptsMasked, DpcCallIsCurrent, QuietWhileSuspended, HasRoutine, HasContext, Typed, New, Quiet, Binding
<1>5. InterruptsMasked'
  BY DEF TypeOK, EntryIsCurrent, MaskedUnlessBound, NoDpcLeft, InterruptsMasked, DpcCallIsCurrent, QuietWhileSuspended, HasRoutine, HasContext, Typed, New, Quiet, Binding
<1>6. DpcCallIsCurrent'
  BY DEF TypeOK, EntryIsCurrent, MaskedUnlessBound, NoDpcLeft, InterruptsMasked, DpcCallIsCurrent, QuietWhileSuspended, HasRoutine, HasContext, Typed, New, Quiet, Binding
<1>7. QuietWhileSuspended'
  BY DEF TypeOK, EntryIsCurrent, MaskedUnlessBound, NoDpcLeft, InterruptsMasked, DpcCallIsCurrent, QuietWhileSuspended, HasRoutine, HasContext, Typed, New, Quiet, Binding
<1>8. FreshIsClear'
  BY DEF TypeOK, FreshIsClear, EarlyIsKnown, Signalled, WordsTaken, NoEventForgotten, Binding, MaskedUnlessBound, InterruptsMasked, Scanned, QuietWhileSuspended
<1>9. EarlyIsKnown'
  BY DEF TypeOK, FreshIsClear, EarlyIsKnown, Signalled, WordsTaken, NoEventForgotten, Binding, MaskedUnlessBound, InterruptsMasked, Scanned, QuietWhileSuspended
<1>10. Signalled'
  BY DEF TypeOK, FreshIsClear, EarlyIsKnown, Signalled, WordsTaken, NoEventForgotten, Binding, MaskedUnlessBound, InterruptsMasked, Scanned, QuietWhileSuspended
<1>11. WordsTaken'
  BY DEF TypeOK, FreshIsClear, EarlyIsKnown, Signalled, WordsTaken, NoEventForgotten, Binding, MaskedUnlessBound, InterruptsMasked, Scanned, QuietWhileSuspended
<1>12. NoEventForgotten'
  BY DEF TypeOK, FreshIsClear, EarlyIsKnown, Signalled, WordsTaken, NoEventForgotten, Binding, MaskedUnlessBound, InterruptsMasked, Scanned, QuietWhileSuspended
<1> QED BY <1>1, <1>2, <1>3, <1>4, <1>5, <1>6, <1>7, <1>8, <1>9, <1>10, <1>11, <1>12
LEMMA UnmaskKeeps == ASSUME IInv, NEW p \in Ports, Unmask(p) PROVE IInv'
<1> USE EventChannelAssumption DEF Unmask, OwnerStep, IInv, CallInv, EventInv, page, actions, isrvars, dpcvars, owners
<1>1. TypeOK'
  BY WordsAreNumbers DEF TypeOK, OwnerLabels, IsrLabels, DpcLabels, Gens, Calls, NoCall, NULL
<1>2. EntryIsCurrent'
  BY DEF TypeOK, EntryIsCurrent, MaskedUnlessBound, NoDpcLeft, InterruptsMasked, DpcCallIsCurrent, QuietWhileSuspended, HasRoutine, HasContext, Typed, New, Quiet, Binding
<1>3. MaskedUnlessBound'
  BY DEF TypeOK, EntryIsCurrent, MaskedUnlessBound, NoDpcLeft, InterruptsMasked, DpcCallIsCurrent, QuietWhileSuspended, HasRoutine, HasContext, Typed, New, Quiet, Binding
<1>4. NoDpcLeft'
  BY DEF TypeOK, EntryIsCurrent, MaskedUnlessBound, NoDpcLeft, InterruptsMasked, DpcCallIsCurrent, QuietWhileSuspended, HasRoutine, HasContext, Typed, New, Quiet, Binding
<1>5. InterruptsMasked'
  BY DEF TypeOK, EntryIsCurrent, MaskedUnlessBound, NoDpcLeft, InterruptsMasked, DpcCallIsCurrent, QuietWhileSuspended, HasRoutine, HasContext, Typed, New, Quiet, Binding
<1>6. DpcCallIsCurrent'
  BY DEF TypeOK, EntryIsCurrent, MaskedUnlessBound, NoDpcLeft, InterruptsMasked, DpcCallIsCurrent, QuietWhileSuspended, HasRoutine, HasContext, Typed, New, Quiet, Binding
<1>7. QuietWhileSuspended'
  BY DEF TypeOK, EntryIsCurrent, MaskedUnlessBound, NoDpcLeft, InterruptsMasked, DpcCallIsCurrent, QuietWhileSuspended, HasRoutine, HasContext, Typed, New, Quiet, Binding
<1>8. FreshIsClear'
  BY DEF TypeOK, FreshIsClear, EarlyIsKnown, Signalled, WordsTaken, NoEventForgotten, Binding, MaskedUnlessBound, InterruptsMasked, Scanned, QuietWhileSuspended
<1>9. EarlyIsKnown'
  BY DEF TypeOK, FreshIsClear, EarlyIsKnown, Signalled, WordsTaken, NoEventForgotten, Binding, MaskedUnlessBound, InterruptsMasked, Scanned, QuietWhileSuspended
<1>10. Signalled'
  BY DEF TypeOK, FreshIsClear, EarlyIsKnown, Signalled, WordsTaken, NoEventForgotten, Binding, MaskedUnlessBound, InterruptsMasked, Scanned, QuietWhileSuspended
<1>11. WordsTaken'
  BY DEF TypeOK, FreshIsClear, EarlyIsKnown, Signalled, WordsTaken, NoEventForgotten, Binding, MaskedUnlessBound, InterruptsMasked, Scanned, QuietWhileSuspended
<1>12. NoEventForgotten'
  BY DEF TypeOK, FreshIsClear, EarlyIsKnown, Signalled, WordsTaken, NoEventForgotten, Binding, MaskedUnlessBound, InterruptsMasked, Scanned, QuietWhileSuspended
<1> QED BY <1>1, <1>2, <1>3, <1>4, <1>5, <1>6, <1>7, <1>8, <1>9, <1>10, <1>11, <1>12
LEMMA MaskKeeps == ASSUME IInv, NEW p \in Ports, Mask(p) PROVE IInv'
<1> USE EventChannelAssumption DEF Mask, OwnerStep, IInv, CallInv, EventInv, page, actions, isrvars, dpcvars, owners
<1>1. TypeOK'
  BY WordsAreNumbers DEF TypeOK, OwnerLabels, IsrLabels, DpcLabels, Gens, Calls, NoCall, NULL
<1>2. EntryIsCurrent'
  BY DEF TypeOK, EntryIsCurrent, MaskedUnlessBound, NoDpcLeft, InterruptsMasked, DpcCallIsCurrent, QuietWhileSuspended, HasRoutine, HasContext, Typed, New, Quiet, Binding
<1>3. MaskedUnlessBound'
  BY DEF TypeOK, EntryIsCurrent, MaskedUnlessBound, NoDpcLeft, InterruptsMasked, DpcCallIsCurrent, QuietWhileSuspended, HasRoutine, HasContext, Typed, New, Quiet, Binding
<1>4. NoDpcLeft'
  BY DEF TypeOK, EntryIsCurrent, MaskedUnlessBound, NoDpcLeft, InterruptsMasked, DpcCallIsCurrent, QuietWhileSuspended, HasRoutine, HasContext, Typed, New, Quiet, Binding
<1>5. InterruptsMasked'
  BY DEF TypeOK, EntryIsCurrent, MaskedUnlessBound, NoDpcLeft, InterruptsMasked, DpcCallIsCurrent, QuietWhileSuspended, HasRoutine, HasContext, Typed, New, Quiet, Binding
<1>6. DpcCallIsCurrent'
  BY DEF TypeOK, EntryIsCurrent, MaskedUnlessBound, NoDpcLeft, InterruptsMasked, DpcCallIsCurrent, QuietWhileSuspended, HasRoutine, HasContext, Typed, New, Quiet, Binding
<1>7. QuietWhileSuspended'
  BY DEF TypeOK, EntryIsCurrent, MaskedUnlessBound, NoDpcLeft, InterruptsMasked, DpcCallIsCurrent, QuietWhileSuspended, HasRoutine, HasContext, Typed, New, Quiet, Binding
<1>8. FreshIsClear'
  BY DEF TypeOK, FreshIsClear, EarlyIsKnown, Signalled, WordsTaken, NoEventForgotten, Binding, MaskedUnlessBound, InterruptsMasked, Scanned, QuietWhileSuspended
<1>9. EarlyIsKnown'
  BY DEF TypeOK, FreshIsClear, EarlyIsKnown, Signalled, WordsTaken, NoEventForgotten, Binding, MaskedUnlessBound, InterruptsMasked, Scanned, QuietWhileSuspended
<1>10. Signalled'
  BY DEF TypeOK, FreshIsClear, EarlyIsKnown, Signalled, WordsTaken, NoEventForgotten, Binding, MaskedUnlessBound, InterruptsMasked, Scanned, QuietWhileSuspended
<1>11. WordsTaken'
  BY DEF TypeOK, FreshIsClear, EarlyIsKnown, Signalled, WordsTaken, NoEventForgotten, Binding, MaskedUnlessBound, InterruptsMasked, Scanned, QuietWhileSuspended
<1>12. NoEventForgotten'
  BY DEF TypeOK, FreshIsClear, EarlyIsKnown, Signalled, WordsTaken, NoEventForgotten, Binding, MaskedUnlessBound, InterruptsMasked, Scanned, QuietWhileSuspended
<1> QED BY <1>1, <1>2, <1>3, <1>4, <1>5, <1>6, <1>7, <1>8, <1>9, <1>10, <1>11, <1>12
LEMMA ExchangeTypeKeeps == ASSUME IInv, NEW p \in Ports, ExchangeType(p) PROVE IInv'
<1> USE EventChannelAssumption DEF ExchangeType, OwnerStep, IInv, CallInv, EventInv, page, actions, isrvars, dpcvars, owners
<1>1. TypeOK'
  BY WordsAreNumbers DEF TypeOK, OwnerLabels, IsrLabels, DpcLabels, Gens, Calls, NoCall, NULL
<1>2. EntryIsCurrent'
  BY DEF TypeOK, EntryIsCurrent, MaskedUnlessBound, NoDpcLeft, InterruptsMasked, DpcCallIsCurrent, QuietWhileSuspended, HasRoutine, HasContext, Typed, New, Quiet, Binding
<1>3. MaskedUnlessBound'
  BY DEF TypeOK, EntryIsCurrent, MaskedUnlessBound, NoDpcLeft, InterruptsMasked, DpcCallIsCurrent, QuietWhileSuspended, HasRoutine, HasContext, Typed, New, Quiet, Binding
<1>4. NoDpcLeft'
  BY DEF TypeOK, EntryIsCurrent, MaskedUnlessBound, NoDpcLeft, InterruptsMasked, DpcCallIsCurrent, QuietWhileSuspended, HasRoutine, HasContext, Typed, New, Quiet, Binding
<1>5. InterruptsMasked'
  BY DEF TypeOK, EntryIsCurrent, MaskedUnlessBound, NoDpcLeft, InterruptsMasked, DpcCallIsCurrent, QuietWhileSuspended, HasRoutine, HasContext, Typed, New, Quiet, Binding
<1>6. DpcCallIsCurrent'
  BY DEF TypeOK, EntryIsCurrent, MaskedUnlessBound, NoDpcLeft, InterruptsMasked, DpcCallIsCurrent, QuietWhileSuspended, HasRoutine, HasContext, Typed, New, Quiet, Binding
<1>7. QuietWhileSuspended'
  BY DEF TypeOK, EntryIsCurrent, MaskedUnlessBound, NoDpcLeft, InterruptsMasked, DpcCallIsCurrent, QuietWhileSuspended, HasRoutine, HasContext, Typed, New, Quiet, Binding
<1>8. FreshIsClear'
  BY DEF TypeOK, FreshIsClear, EarlyIsKnown, Signalled, WordsTaken, NoEventForgotten, Binding, MaskedUnlessBound, InterruptsMasked, Scanned, QuietWhileSuspended
<1>9. EarlyIsKnown'
  BY DEF TypeOK, FreshIsClear, EarlyIsKnown, Signalled, WordsTaken, NoEventForgotten, Binding, MaskedUnlessBound, InterruptsMasked, Scanned, QuietWhileSuspended
<1>10. Signalled'
  BY DEF TypeOK, FreshIsClear, EarlyIsKnown, Signalled, WordsTaken, NoEventForgotten, Binding, MaskedUnlessBound, InterruptsMasked, Scanned, QuietWhileSuspended
<1>11. WordsTaken'
  BY DEF TypeOK, FreshIsClear, EarlyIsKnown, Signalled, WordsTaken, NoEventForgotten, Binding, MaskedUnlessBound, InterruptsMasked, Scanned, QuietWhileSuspended
<1>12. NoEventForgotten'
  BY DEF TypeOK, FreshIsClear, EarlyIsKnown, Signalled, WordsTaken, NoEventForgotten, Binding, MaskedUnlessBound, InterruptsMasked, Scanned, QuietWhileSuspended
<1> QED BY <1>1, <1>2, <1>3, <1>4, <1>5, <1>6, <1>7, <1>8, <1>9, <1>10, <1>11, <1>12
LEMMA RemoveDpcKeeps == ASSUME IInv, NEW p \in Ports, RemoveDpc(p) PROVE IInv'
<1> USE EventChannelAssumption DEF RemoveDpc, OwnerStep, IInv, CallInv, EventInv, page, actions, isrvars, dpcvars, owners
<1>1. TypeOK'
  BY WordsAreNumbers DEF TypeOK, OwnerLabels, IsrLabels, DpcLabels, Gens, Calls, NoCall, NULL
<1>2. EntryIsCurrent'
  BY DEF TypeOK, EntryIsCurrent, MaskedUnlessBound, NoDpcLeft, InterruptsMasked, DpcCallIsCurrent, QuietWhileSuspended, HasRoutine, HasContext, Typed, New, Quiet, Binding
<1>3. MaskedUnlessBound'
  BY DEF TypeOK, EntryIsCurrent, MaskedUnlessBound, NoDpcLeft, InterruptsMasked, DpcCallIsCurrent, QuietWhileSuspended, HasRoutine, HasContext, Typed, New, Quiet, Binding
<1>4. NoDpcLeft'
  BY DEF TypeOK, EntryIsCurrent, MaskedUnlessBound, NoDpcLeft, InterruptsMasked, DpcCallIsCurrent, QuietWhileSuspended, HasRoutine, HasContext, Typed, New, Quiet, Binding
<1>5. InterruptsMasked'
  BY DEF TypeOK, EntryIsCurrent, MaskedUnlessBound, NoDpcLeft, InterruptsMasked, DpcCallIsCurrent, QuietWhileSuspended, HasRoutine, HasContext, Typed, New, Quiet, Binding
<1>6. DpcCallIsCurrent'
  BY DEF TypeOK, EntryIsCurrent, MaskedUnlessBound, NoDpcLeft, InterruptsMasked, DpcCallIsCurrent, QuietWhileSuspended, HasRoutine, HasContext, Typed, New, Quiet, Binding
<1>7. QuietWhileSuspended'
  BY DEF TypeOK, EntryIsCurrent, MaskedUnlessBound, NoDpcLeft, InterruptsMasked, DpcCallIsCurrent, QuietWhileSuspended, HasRoutine, HasContext, Typed, New, Quiet, Binding
<1>8. FreshIsClear'
  BY DEF TypeOK, FreshIsClear, EarlyIsKnown, Signalled, WordsTaken, NoEventForgotten, Binding, MaskedUnlessBound, InterruptsMasked, Scanned, QuietWhileSuspended
<1>9. EarlyIsKnown'
  BY DEF TypeOK, FreshIsClear, EarlyIsKnown, Signalled, WordsTaken, NoEventForgotten, Binding, MaskedUnlessBound, InterruptsMasked, Scanned, QuietWhileSuspended
<1>10. Signalled'
  BY DEF TypeOK, FreshIsClear, EarlyIsKnown, Signalled, WordsTaken, NoEventForgotten, Binding, MaskedUnlessBound, InterruptsMasked, Scanned, QuietWhileSuspended
<1>11. WordsTaken'
  BY DEF TypeOK, FreshIsClear, EarlyIsKnown, Signalled, WordsTaken, NoEventForgotten, Binding, MaskedUnlessBound, InterruptsMasked, Scanned, QuietWhileSuspended
<1>12. NoEventForgotten'
  BY DEF TypeOK, FreshIsClear, EarlyIsKnown, Signalled, WordsTaken, NoEventForgotten, Binding, MaskedUnlessBound, InterruptsMasked, Scanned, QuietWhileSuspended
<1> QED BY <1>1, <1>2, <1>3, <1>4, <1>5, <1>6, <1>7, <1>8, <1>9, <1>10, <1>11, <1>12
LEMMA FlushDpcsKeeps == ASSUME IInv, NEW p \in Ports, FlushDpcs(p) PROVE IInv'
<1> USE EventChannelAssumption DEF FlushDpcs, OwnerStep, IInv, CallInv, EventInv, page, actions, isrvars, dpcvars, owners
<1>1. TypeOK'
  BY WordsAreNumbers DEF TypeOK, OwnerLabels, IsrLabels, DpcLabels, Gens, Calls, NoCall, NULL
<1>2. EntryIsCurrent'
  BY DEF TypeOK, EntryIsCurrent, MaskedUnlessBound, NoDpcLeft, InterruptsMasked, DpcCallIsCurrent, QuietWhileSuspended, HasRoutine, HasContext, Typed, New, Quiet, Binding
<1>3. MaskedUnlessBound'
  BY DEF TypeOK, EntryIsCurrent, MaskedUnlessBound, NoDpcLeft, InterruptsMasked, DpcCallIsCurrent, QuietWhileSuspended, HasRoutine, HasContext, Typed, New, Quiet, Binding
<1>4. NoDpcLeft'
  BY DEF TypeOK, EntryIsCurrent, MaskedUnlessBound, NoDpcLeft, InterruptsMasked, DpcCallIsCurrent, QuietWhileSuspended, HasRoutine, HasContext, Typed, New, Quiet, Binding
<1>5. InterruptsMasked'
  BY DEF TypeOK, EntryIsCurrent, MaskedUnlessBound, NoDpcLeft, InterruptsMasked, DpcCallIsCurrent, QuietWhileSuspended, HasRoutine, HasContext, Typed, New, Quiet, Binding
<1>6. DpcCallIsCurrent'
  BY DEF TypeOK, EntryIsCurrent, MaskedUnlessBound, NoDpcLeft, InterruptsMasked, DpcCallIsCurrent, QuietWhileSuspended, HasRoutine, HasContext, Typed, New, Quiet, Binding
<1>7. QuietWhileSuspended'
  BY DEF TypeOK, EntryIsCurrent, MaskedUnlessBound, NoDpcLeft, InterruptsMasked, DpcCallIsCurrent, QuietWhileSuspended, HasRoutine, HasContext, Typed, New, Quiet, Binding
<1>8. FreshIsClear'
  BY DEF TypeOK, FreshIsClear, EarlyIsKnown, Signalled, WordsTaken, NoEventForgotten, Binding, MaskedUnlessBound, InterruptsMasked, Scanned, QuietWhileSuspended
<1>9. EarlyIsKnown'
  BY DEF TypeOK, FreshIsClear, EarlyIsKnown, Signalled, WordsTaken, NoEventForgotten, Binding, MaskedUnlessBound, InterruptsMasked, Scanned, QuietWhileSuspended
<1>10. Signalled'
  BY DEF TypeOK, FreshIsClear, EarlyIsKnown, Signalled, WordsTaken, NoEventForgotten, Binding, MaskedUnlessBound, InterruptsMasked, Scanned, QuietWhileSuspended
<1>11. WordsTaken'
  BY DEF TypeOK, FreshIsClear, EarlyIsKnown, Signalled, WordsTaken, NoEventForgotten, Binding, MaskedUnlessBound, InterruptsMasked, Scanned, QuietWhileSuspended
<1>12. NoEventForgotten'
  BY DEF TypeOK, FreshIsClear, EarlyIsKnown, Signalled, WordsTaken, NoEventForgotten, Binding, MaskedUnlessBound, InterruptsMasked, Scanned, QuietWhileSuspended
<1> QED BY <1>1, <1>2, <1>3, <1>4, <1>5, <1>6, <1>7, <1>8, <1>9, <1>10, <1>11, <1>12
LEMMA ClearRoutineKeeps == ASSUME IInv, NEW p \in Ports, ClearRoutine(p) PROVE IInv'
<1> USE EventChannelAssumption DEF ClearRoutine, OwnerStep, IInv, CallInv, EventInv, page, actions, isrvars, dpcvars, owners
<1>1. TypeOK'
  BY WordsAreNumbers DEF TypeOK, OwnerLabels, IsrLabels, DpcLabels, Gens, Calls, NoCall, NULL
<1>2. EntryIsCurrent'
  BY DEF TypeOK, EntryIsCurrent, MaskedUnlessBound, NoDpcLeft, InterruptsMasked, DpcCallIsCurrent, QuietWhileSuspended, HasRoutine, HasContext, Typed, New, Quiet, Binding
<1>3. MaskedUnlessBound'
  BY DEF TypeOK, EntryIsCurrent, MaskedUnlessBound, NoDpcLeft, InterruptsMasked, DpcCallIsCurrent, QuietWhileSuspended, HasRoutine, HasContext, Typed, New, Quiet, Binding
<1>4. NoDpcLeft'
  BY DEF TypeOK, EntryIsCurrent, MaskedUnlessBound, NoDpcLeft, InterruptsMasked, DpcCallIsCurrent, QuietWhileSuspended, HasRoutine, HasContext, Typed, New, Quiet, Binding
<1>5. InterruptsMasked'
  BY DEF TypeOK, EntryIsCurrent, MaskedUnlessBound, NoDpcLeft, InterruptsMasked, DpcCallIsCurrent, QuietWhileSuspended, HasRoutine, HasContext, Typed, New, Quiet, Binding
<1>6. DpcCallIsCurrent'
  BY DEF TypeOK, EntryIsCurrent, MaskedUnlessBound, NoDpcLeft, InterruptsMasked, DpcCallIsCurrent, QuietWhileSuspended, HasRoutine, HasContext, Typed, New, Quiet, Binding
<1>7. QuietWhileSuspended'
  BY DEF TypeOK, EntryIsCurrent, MaskedUnlessBound, NoDpcLeft, InterruptsMasked, DpcCallIsCurrent, QuietWhileSuspended, HasRoutine, HasContext, Typed, New, Quiet, Binding
<1>8. FreshIsClear'
  BY DEF TypeOK, FreshIsClear, EarlyIsKnown, Signalled, WordsTaken, NoEventForgotten, Binding, MaskedUnlessBound, InterruptsMasked, Scanned, QuietWhileSuspended
<1>9. EarlyIsKnown'
  BY DEF TypeOK, FreshIsClear, EarlyIsKnown, Signalled, WordsTaken, NoEventForgotten, Binding, MaskedUnlessBound, InterruptsMasked, Scanned, QuietWhileSuspended
<1>10. Signalled'
  BY DEF TypeOK, FreshIsClear, EarlyIsKnown, Signalled, WordsTaken, NoEventForgotten, Binding, MaskedUnlessBound, InterruptsMasked, Scanned, QuietWhileSuspended
<1>11. WordsTaken'
  BY DEF TypeOK, FreshIsClear, EarlyIsKnown, Signalled, WordsTaken, NoEventForgotten, Binding, MaskedUnlessBound, InterruptsMasked, Scanned, QuietWhileSuspended
<1>12. NoEventForgotten'
  BY DEF TypeOK, FreshIsClear, EarlyIsKnown, Signalled, WordsTaken, NoEventForgotten, Binding, MaskedUnlessBound, InterruptsMasked, Scanned, QuietWhileSuspended
<1> QED BY <1>1, <1>2, <1>3, <1>4, <1>5, <1>6, <1>7, <1>8, <1>9, <1>10, <1>11, <1>12
LEMMA ClearContextKeeps == ASSUME IInv, NEW p \in Ports, ClearContext(p) PROVE IInv'
<1> USE EventChannelAssumption DEF ClearContext, OwnerStep, IInv, CallInv, EventInv, page, actions, isrvars, dpcvars, owners
<1>0. /\ fresh' = IF p \in DpcPorts THEN fresh ELSE fresh \cup {p}
      /\ evtchn_pending' = IF p \in DpcPorts THEN evtchn_pending ELSE evtchn_pending \ {p}
      /\ owner' = [owner EXCEPT ![p] = "unbound"]
  BY DEF TypeOK
<1>1. TypeOK'
  <2>1. /\ fresh' \in SUBSET Ports /\ evtchn_pending' \in SUBSET Ports
        /\ owner' \in [Ports -> OwnerLabels] /\ ServiceContext' \in [Ports -> Gens]
    BY <1>0 DEF TypeOK, OwnerLabels, Gens, NULL
  <2> QED BY <2>1 DEF TypeOK
<1>2. EntryIsCurrent'
  BY DEF TypeOK, EntryIsCurrent, MaskedUnlessBound, NoDpcLeft, InterruptsMasked, DpcCallIsCurrent, QuietWhileSuspended, HasRoutine, HasContext, Typed, New, Quiet, Binding
<1>3. MaskedUnlessBound'
  BY DEF TypeOK, EntryIsCurrent, MaskedUnlessBound, NoDpcLeft, InterruptsMasked, DpcCallIsCurrent, QuietWhileSuspended, HasRoutine, HasContext, Typed, New, Quiet, Binding
<1>4. NoDpcLeft'
  BY DEF TypeOK, EntryIsCurrent, MaskedUnlessBound, NoDpcLeft, InterruptsMasked, DpcCallIsCurrent, QuietWhileSuspended, HasRoutine, HasContext, Typed, New, Quiet, Binding
<1>5. InterruptsMasked'
  BY DEF TypeOK, EntryIsCurrent, MaskedUnlessBound, NoDpcLeft, InterruptsMasked, DpcCallIsCurrent, QuietWhileSuspended, HasRoutine, HasContext, Typed, New, Quiet, Binding
<1>6. DpcCallIsCurrent'
  BY DEF TypeOK, EntryIsCurrent, MaskedUnlessBound, NoDpcLeft, InterruptsMasked, DpcCallIsCurrent, QuietWhileSuspended, HasRoutine, HasContext, Typed, New, Quiet, Binding
<1>7. QuietWhileSuspended'
  BY DEF TypeOK, EntryIsCurrent, MaskedUnlessBound, NoDpcLeft, InterruptsMasked, DpcCallIsCurrent, QuietWhileSuspended, HasRoutine, HasContext, Typed, New, Quiet, Binding
<1>8. FreshIsClear'
  <2> SUFFICES ASSUME NEW q \in fresh' PROVE owner'[q] = "unbound" /\ q \notin evtchn_pending'
    BY DEF FreshIsClear
  <2>1. q = p \/ q \in fresh
    BY <1>0
  <2>2. q \in Ports
    BY <2>1 DEF TypeOK
  <2> QED BY <1>0, <2>1, <2>2 DEF TypeOK, FreshIsClear
<1>9. EarlyIsKnown'
  BY DEF TypeOK, FreshIsClear, EarlyIsKnown, Signalled, WordsTaken, NoEventForgotten, Binding, MaskedUnlessBound, InterruptsMasked, Scanned, QuietWhileSuspended
<1>10. Signalled'
  BY DEF TypeOK, FreshIsClear, EarlyIsKnown, Signalled, WordsTaken, NoEventForgotten, Binding, MaskedUnlessBound, InterruptsMasked, Scanned, QuietWhileSuspended
<1>11. WordsTaken'
  BY DEF TypeOK, FreshIsClear, EarlyIsKnown, Signalled, WordsTaken, NoEventForgotten, Binding, MaskedUnlessBound, InterruptsMasked, Scanned, QuietWhileSuspended
<1>12. NoEventForgotten'
  BY DEF TypeOK, FreshIsClear, EarlyIsKnown, Signalled, WordsTaken, NoEventForgotten, Binding, MaskedUnlessBound, InterruptsMasked, Scanned, QuietWhileSuspended
<1> QED BY <1>1, <1>2, <1>3, <1>4, <1>5, <1>6, <1>7, <1>8, <1>9, <1>10, <1>11, <1>12
LEMMA IsrEnterKeeps == ASSUME IInv, IsrEnter PROVE IInv'
<1> USE EventChannelAssumption DEF IsrEnter, OwnerStep, IInv, CallInv, EventInv, page, actions, isrvars, dpcvars, owners
<1>1. TypeOK'
  BY WordsAreNumbers DEF TypeOK, OwnerLabels, IsrLabels, DpcLabels, Gens, Calls, NoCall, NULL
<1>2. EntryIsCurrent'
  BY DEF TypeOK, EntryIsCurrent, MaskedUnlessBound, NoDpcLeft, InterruptsMasked, DpcCallIsCurrent, QuietWhileSuspended, HasRoutine, HasContext, Typed, New, Quiet, Binding
<1>3. MaskedUnlessBound'
  BY DEF TypeOK, EntryIsCurrent, MaskedUnlessBound, NoDpcLeft, InterruptsMasked, DpcCallIsCurrent, QuietWhileSuspended, HasRoutine, HasContext, Typed, New, Quiet, Binding
<1>4. NoDpcLeft'
  BY DEF TypeOK, EntryIsCurrent, MaskedUnlessBound, NoDpcLeft, InterruptsMasked, DpcCallIsCurrent, QuietWhileSuspended, HasRoutine, HasContext, Typed, New, Quiet, Binding
<1>5. InterruptsMasked'
  BY DEF TypeOK, EntryIsCurrent, MaskedUnlessBound, NoDpcLeft, InterruptsMasked, DpcCallIsCurrent, QuietWhileSuspended, HasRoutine, HasContext, Typed, New, Quiet, Binding
<1>6. DpcCallIsCurrent'
  BY DEF TypeOK, EntryIsCurrent, MaskedUnlessBound, NoDpcLeft, InterruptsMasked, DpcCallIsCurrent, QuietWhileSuspended, HasRoutine, HasContext, Typed, New, Quiet, Binding
<1>7. QuietWhileSuspended'
  BY DEF TypeOK, EntryIsCurrent, MaskedUnlessBound, NoDpcLeft, InterruptsMasked, DpcCallIsCurrent, QuietWhileSuspended, HasRoutine, HasContext, Typed, New, Quiet, Binding
<1>8. FreshIsClear'
  BY DEF TypeOK, FreshIsClear, EarlyIsKnown, Signalled, WordsTaken, NoEventForgotten, Binding, MaskedUnlessBound, InterruptsMasked, Scanned, QuietWhileSuspended
<1>9. EarlyIsKnown'
  BY DEF TypeOK, FreshIsClear, EarlyIsKnown, Signalled, WordsTaken, NoEventForgotten, Binding, MaskedUnlessBound, InterruptsMasked, Scanned, QuietWhileSuspended
<1>10. Signalled'
  BY DEF TypeOK, FreshIsClear, EarlyIsKnown, Signalled, WordsTaken, NoEventForgotten, Binding, MaskedUnlessBound, InterruptsMasked, Scanned, QuietWhileSuspended
<1>11. WordsTaken'
  BY DEF TypeOK, FreshIsClear, EarlyIsKnown, Signalled, WordsTaken, NoEventForgotten, Binding, MaskedUnlessBound, InterruptsMasked, Scanned, QuietWhileSuspended
<1>12. NoEventForgotten'
  BY DEF TypeOK, FreshIsClear, EarlyIsKnown, Signalled, WordsTaken, NoEventForgotten, Binding, MaskedUnlessBound, InterruptsMasked, Scanned, QuietWhileSuspended
<1> QED BY <1>1, <1>2, <1>3, <1>4, <1>5, <1>6, <1>7, <1>8, <1>9, <1>10, <1>11, <1>12
LEMMA IsrSelKeeps == ASSUME IInv, IsrSel PROVE IInv'
<1> USE EventChannelAssumption DEF IsrSel, OwnerStep, IInv, CallInv, EventInv, page, actions, isrvars, dpcvars, owners
<1>1. TypeOK'
  BY WordsAreNumbers DEF TypeOK, OwnerLabels, IsrLabels, DpcLabels, Gens, Calls, NoCall, NULL
<1>2. EntryIsCurrent'
  BY DEF TypeOK, EntryIsCurrent, MaskedUnlessBound, NoDpcLeft, InterruptsMasked, DpcCallIsCurrent, QuietWhileSuspended, HasRoutine, HasContext, Typed, New, Quiet, Binding
<1>3. MaskedUnlessBound'
  BY DEF TypeOK, EntryIsCurrent, MaskedUnlessBound, NoDpcLeft, InterruptsMasked, DpcCallIsCurrent, QuietWhileSuspended, HasRoutine, HasContext, Typed, New, Quiet, Binding
<1>4. NoDpcLeft'
  BY DEF TypeOK, EntryIsCurrent, MaskedUnlessBound, NoDpcLeft, InterruptsMasked, DpcCallIsCurrent, QuietWhileSuspended, HasRoutine, HasContext, Typed, New, Quiet, Binding
<1>5. InterruptsMasked'
  BY DEF TypeOK, EntryIsCurrent, MaskedUnlessBound, NoDpcLeft, InterruptsMasked, DpcCallIsCurrent, QuietWhileSuspended, HasRoutine, HasContext, Typed, New, Quiet, Binding
<1>6. DpcCallIsCurrent'
  BY DEF TypeOK, EntryIsCurrent, MaskedUnlessBound, NoDpcLeft, InterruptsMasked, DpcCallIsCurrent, QuietWhileSuspended, HasRoutine, HasContext, Typed, New, Quiet, Binding
<1>7. QuietWhileSuspended'
  BY DEF TypeOK, EntryIsCurrent, MaskedUnlessBound, NoDpcLeft, InterruptsMasked, DpcCallIsCurrent, QuietWhileSuspended, HasRoutine, HasContext, Typed, New, Quiet, Binding
<1>8. FreshIsClear'
  BY DEF TypeOK, FreshIsClear, EarlyIsKnown, Signalled, WordsTaken, NoEventForgotten, Binding, MaskedUnlessBound, InterruptsMasked, Scanned, QuietWhileSuspended
<1>9. EarlyIsKnown'
  BY DEF TypeOK, FreshIsClear, EarlyIsKnown, Signalled, WordsTaken, NoEventForgotten, Binding, MaskedUnlessBound, InterruptsMasked, Scanned, QuietWhileSuspended
<1>10. Signalled'
  BY DEF TypeOK, FreshIsClear, EarlyIsKnown, Signalled, WordsTaken, NoEventForgotten, Binding, MaskedUnlessBound, InterruptsMasked, Scanned, QuietWhileSuspended
<1>11. WordsTaken'
  BY DEF TypeOK, FreshIsClear, EarlyIsKnown, Signalled, WordsTaken, NoEventForgotten, Binding, MaskedUnlessBound, InterruptsMasked, Scanned, QuietWhileSuspended
<1>12. NoEventForgotten'
  BY DEF TypeOK, FreshIsClear, EarlyIsKnown, Signalled, WordsTaken, NoEventForgotten, Binding, MaskedUnlessBound, InterruptsMasked, Scanned, QuietWhileSuspended
<1> QED BY <1>1, <1>2, <1>3, <1>4, <1>5, <1>6, <1>7, <1>8, <1>9, <1>10, <1>11, <1>12
LEMMA IsrWordKeeps == ASSUME IInv, IsrWord PROVE IInv'
<1> USE EventChannelAssumption DEF IsrWord, OwnerStep, IInv, CallInv, EventInv, page, actions, isrvars, dpcvars, owners
<1>1. TypeOK'
  <2>1. evt_words # {} => Lowest(evt_words) \in Words
    BY LowestIsLeast, WordsAreNumbers DEF TypeOK
  <2>2. evt_word' \in Words /\ evt_words' \in SUBSET Words /\ isr' \in IsrLabels
    BY <2>1 DEF TypeOK, IsrLabels
  <2> QED BY <2>2 DEF TypeOK
<1>2. EntryIsCurrent'
  BY DEF TypeOK, EntryIsCurrent, MaskedUnlessBound, NoDpcLeft, InterruptsMasked, DpcCallIsCurrent, QuietWhileSuspended, HasRoutine, HasContext, Typed, New, Quiet, Binding
<1>3. MaskedUnlessBound'
  BY DEF TypeOK, EntryIsCurrent, MaskedUnlessBound, NoDpcLeft, InterruptsMasked, DpcCallIsCurrent, QuietWhileSuspended, HasRoutine, HasContext, Typed, New, Quiet, Binding
<1>4. NoDpcLeft'
  BY DEF TypeOK, EntryIsCurrent, MaskedUnlessBound, NoDpcLeft, InterruptsMasked, DpcCallIsCurrent, QuietWhileSuspended, HasRoutine, HasContext, Typed, New, Quiet, Binding
<1>5. InterruptsMasked'
  BY DEF TypeOK, EntryIsCurrent, MaskedUnlessBound, NoDpcLeft, InterruptsMasked, DpcCallIsCurrent, QuietWhileSuspended, HasRoutine, HasContext, Typed, New, Quiet, Binding
<1>6. DpcCallIsCurrent'
  BY DEF TypeOK, EntryIsCurrent, MaskedUnlessBound, NoDpcLeft, InterruptsMasked, DpcCallIsCurrent, QuietWhileSuspended, HasRoutine, HasContext, Typed, New, Quiet, Binding
<1>7. QuietWhileSuspended'
  BY DEF TypeOK, EntryIsCurrent, MaskedUnlessBound, NoDpcLeft, InterruptsMasked, DpcCallIsCurrent, QuietWhileSuspended, HasRoutine, HasContext, Typed, New, Quiet, Binding
<1>8. FreshIsClear'
  BY DEF TypeOK, FreshIsClear, EarlyIsKnown, Signalled, WordsTaken, NoEventForgotten, Binding, MaskedUnlessBound, InterruptsMasked, Scanned, QuietWhileSuspended
<1>9. EarlyIsKnown'
  BY DEF TypeOK, FreshIsClear, EarlyIsKnown, Signalled, WordsTaken, NoEventForgotten, Binding, MaskedUnlessBound, InterruptsMasked, Scanned, QuietWhileSuspended
<1>10. Signalled'
  BY DEF TypeOK, FreshIsClear, EarlyIsKnown, Signalled, WordsTaken, NoEventForgotten, Binding, MaskedUnlessBound, InterruptsMasked, Scanned, QuietWhileSuspended
<1>11. WordsTaken'
  BY DEF TypeOK, FreshIsClear, EarlyIsKnown, Signalled, WordsTaken, NoEventForgotten, Binding, MaskedUnlessBound, InterruptsMasked, Scanned, QuietWhileSuspended
<1>12. NoEventForgotten'
  BY DEF TypeOK, FreshIsClear, EarlyIsKnown, Signalled, WordsTaken, NoEventForgotten, Binding, MaskedUnlessBound, InterruptsMasked, Scanned, QuietWhileSuspended
<1> QED BY <1>1, <1>2, <1>3, <1>4, <1>5, <1>6, <1>7, <1>8, <1>9, <1>10, <1>11, <1>12
LEMMA IsrScanKeeps == ASSUME IInv, IsrScan PROVE IInv'
<1> USE EventChannelAssumption DEF IsrScan, OwnerStep, IInv, CallInv, EventInv, page, actions, isrvars, dpcvars, owners
<1>0. Scanned # {} => port' \in Scanned /\ port' \in Ports /\ port' \notin evtchn_mask
  <2>1. Scanned \in SUBSET Nat /\ Scanned \subseteq Ports /\ Scanned \cap evtchn_mask = {}
    BY DEF Scanned, TypeOK
  <2>2. Scanned # {} => Lowest(Scanned) \in Scanned
    BY <2>1, LowestIsLeast
  <2>3. Scanned # {} => port' = Lowest(Scanned)
    OBVIOUS
  <2> QED BY <2>1, <2>2, <2>3
<1>1. TypeOK'
  <2>1. port' \in Ports /\ evtchn_pending' \in SUBSET Ports /\ isr' \in IsrLabels
    BY <1>0 DEF TypeOK, IsrLabels
  <2> QED BY <2>1 DEF TypeOK
<1>2. EntryIsCurrent'
  BY DEF TypeOK, EntryIsCurrent, MaskedUnlessBound, NoDpcLeft, InterruptsMasked, DpcCallIsCurrent, QuietWhileSuspended, HasRoutine, HasContext, Typed, New, Quiet, Binding
<1>3. MaskedUnlessBound'
  BY DEF TypeOK, EntryIsCurrent, MaskedUnlessBound, NoDpcLeft, InterruptsMasked, DpcCallIsCurrent, QuietWhileSuspended, HasRoutine, HasContext, Typed, New, Quiet, Binding
<1>4. NoDpcLeft'
  BY <1>0 DEF TypeOK, NoDpcLeft, MaskedUnlessBound, Quiet
<1>5. InterruptsMasked'
  BY DEF TypeOK, EntryIsCurrent, MaskedUnlessBound, NoDpcLeft, InterruptsMasked, DpcCallIsCurrent, QuietWhileSuspended, HasRoutine, HasContext, Typed, New, Quiet, Binding
<1>6. DpcCallIsCurrent'
  BY DEF TypeOK, EntryIsCurrent, MaskedUnlessBound, NoDpcLeft, InterruptsMasked, DpcCallIsCurrent, QuietWhileSuspended, HasRoutine, HasContext, Typed, New, Quiet, Binding
<1>7. QuietWhileSuspended'
  BY DEF TypeOK, EntryIsCurrent, MaskedUnlessBound, NoDpcLeft, InterruptsMasked, DpcCallIsCurrent, QuietWhileSuspended, HasRoutine, HasContext, Typed, New, Quiet, Binding
<1>8. FreshIsClear'
  BY DEF TypeOK, FreshIsClear, EarlyIsKnown, Signalled, WordsTaken, NoEventForgotten, Binding, MaskedUnlessBound, InterruptsMasked, Scanned, QuietWhileSuspended
<1>9. EarlyIsKnown'
  BY DEF TypeOK, FreshIsClear, EarlyIsKnown, Signalled, WordsTaken, NoEventForgotten, Binding, MaskedUnlessBound, InterruptsMasked, Scanned, QuietWhileSuspended
<1>10. Signalled'
  BY DEF TypeOK, FreshIsClear, EarlyIsKnown, Signalled, WordsTaken, NoEventForgotten, Binding, MaskedUnlessBound, InterruptsMasked, Scanned, QuietWhileSuspended
<1>11. WordsTaken'
  BY DEF TypeOK, FreshIsClear, EarlyIsKnown, Signalled, WordsTaken, NoEventForgotten, Binding, MaskedUnlessBound, InterruptsMasked, Scanned, QuietWhileSuspended
<1>12. NoEventForgotten'
  BY DEF TypeOK, FreshIsClear, EarlyIsKnown, Signalled, WordsTaken, NoEventForgotten, Binding, MaskedUnlessBound, InterruptsMasked, Scanned, QuietWhileSuspended
<1> QED BY <1>1, <1>2, <1>3, <1>4, <1>5, <1>6, <1>7, <1>8, <1>9, <1>10, <1>11, <1>12
LEMMA IsrDispatchKeeps == ASSUME IInv, IsrDispatch PROVE IInv'
<1> USE EventChannelAssumption DEF IsrDispatch, OwnerStep, IInv, CallInv, EventInv, page, actions, isrvars, dpcvars, owners
<1>1. TypeOK'
  <2>1. dpcqueued' \in SUBSET DpcPorts /\ isr' \in IsrLabels
    BY DEF TypeOK, EntryIsCurrent, IsrLabels
  <2> QED BY <2>1 DEF TypeOK
<1>2. EntryIsCurrent'
  BY DEF TypeOK, EntryIsCurrent, MaskedUnlessBound, NoDpcLeft, InterruptsMasked, DpcCallIsCurrent, QuietWhileSuspended, HasRoutine, HasContext, Typed, New, Quiet, Binding
<1>3. MaskedUnlessBound'
  BY DEF TypeOK, EntryIsCurrent, MaskedUnlessBound, NoDpcLeft, InterruptsMasked, DpcCallIsCurrent, QuietWhileSuspended, HasRoutine, HasContext, Typed, New, Quiet, Binding
<1>4. NoDpcLeft'
  BY DEF TypeOK, EntryIsCurrent, MaskedUnlessBound, NoDpcLeft, InterruptsMasked, DpcCallIsCurrent, QuietWhileSuspended, HasRoutine, HasContext, Typed, New, Quiet, Binding
<1>5. InterruptsMasked'
  BY DEF TypeOK, EntryIsCurrent, MaskedUnlessBound, NoDpcLeft, InterruptsMasked, DpcCallIsCurrent, QuietWhileSuspended, HasRoutine, HasContext, Typed, New, Quiet, Binding
<1>6. DpcCallIsCurrent'
  BY DEF TypeOK, EntryIsCurrent, MaskedUnlessBound, NoDpcLeft, InterruptsMasked, DpcCallIsCurrent, QuietWhileSuspended, HasRoutine, HasContext, Typed, New, Quiet, Binding
<1>7. QuietWhileSuspended'
  BY DEF TypeOK, EntryIsCurrent, MaskedUnlessBound, NoDpcLeft, InterruptsMasked, DpcCallIsCurrent, QuietWhileSuspended, HasRoutine, HasContext, Typed, New, Quiet, Binding
<1>8. FreshIsClear'
  BY DEF TypeOK, FreshIsClear, EarlyIsKnown, Signalled, WordsTaken, NoEventForgotten, Binding, MaskedUnlessBound, InterruptsMasked, Scanned, QuietWhileSuspended
<1>9. EarlyIsKnown'
  BY DEF TypeOK, FreshIsClear, EarlyIsKnown, Signalled, WordsTaken, NoEventForgotten, Binding, MaskedUnlessBound, InterruptsMasked, Scanned, QuietWhileSuspended
<1>10. Signalled'
  BY DEF TypeOK, FreshIsClear, EarlyIsKnown, Signalled, WordsTaken, NoEventForgotten, Binding, MaskedUnlessBound, InterruptsMasked, Scanned, QuietWhileSuspended
<1>11. WordsTaken'
  BY DEF TypeOK, FreshIsClear, EarlyIsKnown, Signalled, WordsTaken, NoEventForgotten, Binding, MaskedUnlessBound, InterruptsMasked, Scanned, QuietWhileSuspended
<1>12. NoEventForgotten'
  BY DEF TypeOK, FreshIsClear, EarlyIsKnown, Signalled, WordsTaken, NoEventForgotten, Binding, MaskedUnlessBound, InterruptsMasked, Scanned, QuietWhileSuspended
<1> QED BY <1>1, <1>2, <1>3, <1>4, <1>5, <1>6, <1>7, <1>8, <1>9, <1>10, <1>11, <1>12
LEMMA IsrRoutineKeeps == ASSUME IInv, IsrRoutine PROVE IInv'
<1> USE EventChannelAssumption DEF IsrRoutine, OwnerStep, IInv, CallInv, EventInv, page, actions, isrvars, dpcvars, owners
<1>1. TypeOK'
  BY WordsAreNumbers DEF TypeOK, OwnerLabels, IsrLabels, DpcLabels, Gens, Calls, NoCall, NULL
<1>2. EntryIsCurrent'
  BY DEF TypeOK, EntryIsCurrent, MaskedUnlessBound, NoDpcLeft, InterruptsMasked, DpcCallIsCurrent, QuietWhileSuspended, HasRoutine, HasContext, Typed, New, Quiet, Binding
<1>3. MaskedUnlessBound'
  BY DEF TypeOK, EntryIsCurrent, MaskedUnlessBound, NoDpcLeft, InterruptsMasked, DpcCallIsCurrent, QuietWhileSuspended, HasRoutine, HasContext, Typed, New, Quiet, Binding
<1>4. NoDpcLeft'
  BY DEF TypeOK, EntryIsCurrent, MaskedUnlessBound, NoDpcLeft, InterruptsMasked, DpcCallIsCurrent, QuietWhileSuspended, HasRoutine, HasContext, Typed, New, Quiet, Binding
<1>5. InterruptsMasked'
  BY DEF TypeOK, EntryIsCurrent, MaskedUnlessBound, NoDpcLeft, InterruptsMasked, DpcCallIsCurrent, QuietWhileSuspended, HasRoutine, HasContext, Typed, New, Quiet, Binding
<1>6. DpcCallIsCurrent'
  BY DEF TypeOK, EntryIsCurrent, MaskedUnlessBound, NoDpcLeft, InterruptsMasked, DpcCallIsCurrent, QuietWhileSuspended, HasRoutine, HasContext, Typed, New, Quiet, Binding
<1>7. QuietWhileSuspended'
  BY DEF TypeOK, EntryIsCurrent, MaskedUnlessBound, NoDpcLeft, InterruptsMasked, DpcCallIsCurrent, QuietWhileSuspended, HasRoutine, HasContext, Typed, New, Quiet, Binding
<1>8. FreshIsClear'
  BY DEF TypeOK, FreshIsClear, EarlyIsKnown, Signalled, WordsTaken, NoEventForgotten, Binding, MaskedUnlessBound, InterruptsMasked, Scanned, QuietWhileSuspended
<1>9. EarlyIsKnown'
  BY DEF TypeOK, FreshIsClear, EarlyIsKnown, Signalled, WordsTaken, NoEventForgotten, Binding, MaskedUnlessBound, InterruptsMasked, Scanned, QuietWhileSuspended
<1>10. Signalled'
  BY DEF TypeOK, FreshIsClear, EarlyIsKnown, Signalled, WordsTaken, NoEventForgotten, Binding, MaskedUnlessBound, InterruptsMasked, Scanned, QuietWhileSuspended
<1>11. WordsTaken'
  BY DEF TypeOK, FreshIsClear, EarlyIsKnown, Signalled, WordsTaken, NoEventForgotten, Binding, MaskedUnlessBound, InterruptsMasked, Scanned, QuietWhileSuspended
<1>12. NoEventForgotten'
  BY DEF TypeOK, FreshIsClear, EarlyIsKnown, Signalled, WordsTaken, NoEventForgotten, Binding, MaskedUnlessBound, InterruptsMasked, Scanned, QuietWhileSuspended
<1> QED BY <1>1, <1>2, <1>3, <1>4, <1>5, <1>6, <1>7, <1>8, <1>9, <1>10, <1>11, <1>12
LEMMA IsrContextKeeps == ASSUME IInv, IsrContext PROVE IInv'
<1> USE EventChannelAssumption DEF IsrContext, OwnerStep, IInv, CallInv, EventInv, page, actions, isrvars, dpcvars, owners
<1>1. TypeOK'
  BY WordsAreNumbers DEF TypeOK, OwnerLabels, IsrLabels, DpcLabels, Gens, Calls, NoCall, NULL
<1>2. EntryIsCurrent'
  BY DEF TypeOK, EntryIsCurrent, MaskedUnlessBound, NoDpcLeft, InterruptsMasked, DpcCallIsCurrent, QuietWhileSuspended, HasRoutine, HasContext, Typed, New, Quiet, Binding
<1>3. MaskedUnlessBound'
  BY DEF TypeOK, EntryIsCurrent, MaskedUnlessBound, NoDpcLeft, InterruptsMasked, DpcCallIsCurrent, QuietWhileSuspended, HasRoutine, HasContext, Typed, New, Quiet, Binding
<1>4. NoDpcLeft'
  BY DEF TypeOK, EntryIsCurrent, MaskedUnlessBound, NoDpcLeft, InterruptsMasked, DpcCallIsCurrent, QuietWhileSuspended, HasRoutine, HasContext, Typed, New, Quiet, Binding
<1>5. InterruptsMasked'
  BY DEF TypeOK, EntryIsCurrent, MaskedUnlessBound, NoDpcLeft, InterruptsMasked, DpcCallIsCurrent, QuietWhileSuspended, HasRoutine, HasContext, Typed, New, Quiet, Binding
<1>6. DpcCallIsCurrent'
  BY DEF TypeOK, EntryIsCurrent, MaskedUnlessBound, NoDpcLeft, InterruptsMasked, DpcCallIsCurrent, QuietWhileSuspended, HasRoutine, HasContext, Typed, New, Quiet, Binding
<1>7. QuietWhileSuspended'
  BY DEF TypeOK, EntryIsCurrent, MaskedUnlessBound, NoDpcLeft, InterruptsMasked, DpcCallIsCurrent, QuietWhileSuspended, HasRoutine, HasContext, Typed, New, Quiet, Binding
<1>8. FreshIsClear'
  BY DEF TypeOK, FreshIsClear, EarlyIsKnown, Signalled, WordsTaken, NoEventForgotten, Binding, MaskedUnlessBound, InterruptsMasked, Scanned, QuietWhileSuspended
<1>9. EarlyIsKnown'
  BY DEF TypeOK, FreshIsClear, EarlyIsKnown, Signalled, WordsTaken, NoEventForgotten, Binding, MaskedUnlessBound, InterruptsMasked, Scanned, QuietWhileSuspended
<1>10. Signalled'
  BY DEF TypeOK, FreshIsClear, EarlyIsKnown, Signalled, WordsTaken, NoEventForgotten, Binding, MaskedUnlessBound, InterruptsMasked, Scanned, QuietWhileSuspended
<1>11. WordsTaken'
  BY DEF TypeOK, FreshIsClear, EarlyIsKnown, Signalled, WordsTaken, NoEventForgotten, Binding, MaskedUnlessBound, InterruptsMasked, Scanned, QuietWhileSuspended
<1>12. NoEventForgotten'
  BY DEF TypeOK, FreshIsClear, EarlyIsKnown, Signalled, WordsTaken, NoEventForgotten, Binding, MaskedUnlessBound, InterruptsMasked, Scanned, QuietWhileSuspended
<1> QED BY <1>1, <1>2, <1>3, <1>4, <1>5, <1>6, <1>7, <1>8, <1>9, <1>10, <1>11, <1>12
LEMMA IsrReturnKeeps == ASSUME IInv, IsrReturn PROVE IInv'
<1> USE EventChannelAssumption DEF IsrReturn, OwnerStep, IInv, CallInv, EventInv, page, actions, isrvars, dpcvars, owners
<1>1. TypeOK'
  BY WordsAreNumbers DEF TypeOK, OwnerLabels, IsrLabels, DpcLabels, Gens, Calls, NoCall, NULL
<1>2. EntryIsCurrent'
  BY DEF TypeOK, EntryIsCurrent, MaskedUnlessBound, NoDpcLeft, InterruptsMasked, DpcCallIsCurrent, QuietWhileSuspended, HasRoutine, HasContext, Typed, New, Quiet, Binding
<1>3. MaskedUnlessBound'
  BY DEF TypeOK, EntryIsCurrent, MaskedUnlessBound, NoDpcLeft, InterruptsMasked, DpcCallIsCurrent, QuietWhileSuspended, HasRoutine, HasContext, Typed, New, Quiet, Binding
<1>4. NoDpcLeft'
  BY DEF TypeOK, EntryIsCurrent, MaskedUnlessBound, NoDpcLeft, InterruptsMasked, DpcCallIsCurrent, QuietWhileSuspended, HasRoutine, HasContext, Typed, New, Quiet, Binding
<1>5. InterruptsMasked'
  BY DEF TypeOK, EntryIsCurrent, MaskedUnlessBound, NoDpcLeft, InterruptsMasked, DpcCallIsCurrent, QuietWhileSuspended, HasRoutine, HasContext, Typed, New, Quiet, Binding
<1>6. DpcCallIsCurrent'
  BY DEF TypeOK, EntryIsCurrent, MaskedUnlessBound, NoDpcLeft, InterruptsMasked, DpcCallIsCurrent, QuietWhileSuspended, HasRoutine, HasContext, Typed, New, Quiet, Binding
<1>7. QuietWhileSuspended'
  BY DEF TypeOK, EntryIsCurrent, MaskedUnlessBound, NoDpcLeft, InterruptsMasked, DpcCallIsCurrent, QuietWhileSuspended, HasRoutine, HasContext, Typed, New, Quiet, Binding
<1>8. FreshIsClear'
  BY DEF TypeOK, FreshIsClear, EarlyIsKnown, Signalled, WordsTaken, NoEventForgotten, Binding, MaskedUnlessBound, InterruptsMasked, Scanned, QuietWhileSuspended
<1>9. EarlyIsKnown'
  BY DEF TypeOK, FreshIsClear, EarlyIsKnown, Signalled, WordsTaken, NoEventForgotten, Binding, MaskedUnlessBound, InterruptsMasked, Scanned, QuietWhileSuspended
<1>10. Signalled'
  BY DEF TypeOK, FreshIsClear, EarlyIsKnown, Signalled, WordsTaken, NoEventForgotten, Binding, MaskedUnlessBound, InterruptsMasked, Scanned, QuietWhileSuspended
<1>11. WordsTaken'
  BY DEF TypeOK, FreshIsClear, EarlyIsKnown, Signalled, WordsTaken, NoEventForgotten, Binding, MaskedUnlessBound, InterruptsMasked, Scanned, QuietWhileSuspended
<1>12. NoEventForgotten'
  BY DEF TypeOK, FreshIsClear, EarlyIsKnown, Signalled, WordsTaken, NoEventForgotten, Binding, MaskedUnlessBound, InterruptsMasked, Scanned, QuietWhileSuspended
<1> QED BY <1>1, <1>2, <1>3, <1>4, <1>5, <1>6, <1>7, <1>8, <1>9, <1>10, <1>11, <1>12
LEMMA DpcStartKeeps == ASSUME IInv, NEW p \in DpcPorts, DpcStart(p) PROVE IInv'
<1> USE EventChannelAssumption DEF DpcStart, OwnerStep, IInv, CallInv, EventInv, page, actions, isrvars, dpcvars, owners
<1>1. TypeOK'
  BY WordsAreNumbers DEF TypeOK, OwnerLabels, IsrLabels, DpcLabels, Gens, Calls, NoCall, NULL
<1>2. EntryIsCurrent'
  BY DEF TypeOK, EntryIsCurrent, MaskedUnlessBound, NoDpcLeft, InterruptsMasked, DpcCallIsCurrent, QuietWhileSuspended, HasRoutine, HasContext, Typed, New, Quiet, Binding
<1>3. MaskedUnlessBound'
  BY DEF TypeOK, EntryIsCurrent, MaskedUnlessBound, NoDpcLeft, InterruptsMasked, DpcCallIsCurrent, QuietWhileSuspended, HasRoutine, HasContext, Typed, New, Quiet, Binding
<1>4. NoDpcLeft'
  BY DEF TypeOK, EntryIsCurrent, MaskedUnlessBound, NoDpcLeft, InterruptsMasked, DpcCallIsCurrent, QuietWhileSuspended, HasRoutine, HasContext, Typed, New, Quiet, Binding
<1>5. InterruptsMasked'
  BY DEF TypeOK, EntryIsCurrent, MaskedUnlessBound, NoDpcLeft, InterruptsMasked, DpcCallIsCurrent, QuietWhileSuspended, HasRoutine, HasContext, Typed, New, Quiet, Binding
<1>6. DpcCallIsCurrent'
  BY DEF TypeOK, EntryIsCurrent, MaskedUnlessBound, NoDpcLeft, InterruptsMasked, DpcCallIsCurrent, QuietWhileSuspended, HasRoutine, HasContext, Typed, New, Quiet, Binding
<1>7. QuietWhileSuspended'
  BY DEF TypeOK, EntryIsCurrent, MaskedUnlessBound, NoDpcLeft, InterruptsMasked, DpcCallIsCurrent, QuietWhileSuspended, HasRoutine, HasContext, Typed, New, Quiet, Binding
<1>8. FreshIsClear'
  BY DEF TypeOK, FreshIsClear, EarlyIsKnown, Signalled, WordsTaken, NoEventForgotten, Binding, MaskedUnlessBound, InterruptsMasked, Scanned, QuietWhileSuspended
<1>9. EarlyIsKnown'
  BY DEF TypeOK, FreshIsClear, EarlyIsKnown, Signalled, WordsTaken, NoEventForgotten, Binding, MaskedUnlessBound, InterruptsMasked, Scanned, QuietWhileSuspended
<1>10. Signalled'
  BY DEF TypeOK, FreshIsClear, EarlyIsKnown, Signalled, WordsTaken, NoEventForgotten, Binding, MaskedUnlessBound, InterruptsMasked, Scanned, QuietWhileSuspended
<1>11. WordsTaken'
  BY DEF TypeOK, FreshIsClear, EarlyIsKnown, Signalled, WordsTaken, NoEventForgotten, Binding, MaskedUnlessBound, InterruptsMasked, Scanned, QuietWhileSuspended
<1>12. NoEventForgotten'
  BY DEF TypeOK, FreshIsClear, EarlyIsKnown, Signalled, WordsTaken, NoEventForgotten, Binding, MaskedUnlessBound, InterruptsMasked, Scanned, QuietWhileSuspended
<1> QED BY <1>1, <1>2, <1>3, <1>4, <1>5, <1>6, <1>7, <1>8, <1>9, <1>10, <1>11, <1>12
LEMMA DpcBounceKeeps == ASSUME IInv, NEW p \in DpcPorts, DpcBounce(p) PROVE IInv'
<1> USE EventChannelAssumption DEF DpcBounce, OwnerStep, IInv, CallInv, EventInv, page, actions, isrvars, dpcvars, owners
<1>1. TypeOK'
  <2>1. dpccall' \in [DpcPorts -> Calls] /\ dpc' \in [DpcPorts -> DpcLabels]
    BY DEF TypeOK, Calls, DpcLabels
  <2>2. unseen' \in SUBSET Ports
    BY DEF TypeOK
  <2> QED BY <2>1, <2>2 DEF TypeOK
<1>2. EntryIsCurrent'
  BY DEF TypeOK, EntryIsCurrent, MaskedUnlessBound, NoDpcLeft, InterruptsMasked, DpcCallIsCurrent, QuietWhileSuspended, HasRoutine, HasContext, Typed, New, Quiet, Binding
<1>3. MaskedUnlessBound'
  BY DEF TypeOK, EntryIsCurrent, MaskedUnlessBound, NoDpcLeft, InterruptsMasked, DpcCallIsCurrent, QuietWhileSuspended, HasRoutine, HasContext, Typed, New, Quiet, Binding
<1>4. NoDpcLeft'
  BY DEF TypeOK, EntryIsCurrent, MaskedUnlessBound, NoDpcLeft, InterruptsMasked, DpcCallIsCurrent, QuietWhileSuspended, HasRoutine, HasContext, Typed, New, Quiet, Binding
<1>5. InterruptsMasked'
  BY DEF TypeOK, EntryIsCurrent, MaskedUnlessBound, NoDpcLeft, InterruptsMasked, DpcCallIsCurrent, QuietWhileSuspended, HasRoutine, HasContext, Typed, New, Quiet, Binding
<1>6. DpcCallIsCurrent'
  BY DEF TypeOK, EntryIsCurrent, MaskedUnlessBound, NoDpcLeft, InterruptsMasked, DpcCallIsCurrent, QuietWhileSuspended, HasRoutine, HasContext, Typed, New, Quiet, Binding
<1>7. QuietWhileSuspended'
  BY DEF TypeOK, EntryIsCurrent, MaskedUnlessBound, NoDpcLeft, InterruptsMasked, DpcCallIsCurrent, QuietWhileSuspended, HasRoutine, HasContext, Typed, New, Quiet, Binding
<1>8. FreshIsClear'
  BY DEF TypeOK, FreshIsClear, EarlyIsKnown, Signalled, WordsTaken, NoEventForgotten, Binding, MaskedUnlessBound, InterruptsMasked, Scanned, QuietWhileSuspended
<1>9. EarlyIsKnown'
  BY DEF TypeOK, FreshIsClear, EarlyIsKnown, Signalled, WordsTaken, NoEventForgotten, Binding, MaskedUnlessBound, InterruptsMasked, Scanned, QuietWhileSuspended
<1>10. Signalled'
  BY DEF TypeOK, FreshIsClear, EarlyIsKnown, Signalled, WordsTaken, NoEventForgotten, Binding, MaskedUnlessBound, InterruptsMasked, Scanned, QuietWhileSuspended
<1>11. WordsTaken'
  BY DEF TypeOK, FreshIsClear, EarlyIsKnown, Signalled, WordsTaken, NoEventForgotten, Binding, MaskedUnlessBound, InterruptsMasked, Scanned, QuietWhileSuspended
<1>12. NoEventForgotten'
  BY DEF TypeOK, FreshIsClear, EarlyIsKnown, Signalled, WordsTaken, NoEventForgotten, Binding, MaskedUnlessBound, InterruptsMasked, Scanned, QuietWhileSuspended
<1> QED BY <1>1, <1>2, <1>3, <1>4, <1>5, <1>6, <1>7, <1>8, <1>9, <1>10, <1>11, <1>12
LEMMA DpcReturnKeeps == ASSUME IInv, NEW p \in DpcPorts, DpcReturn(p) PROVE IInv'
<1> USE EventChannelAssumption DEF DpcReturn, OwnerStep, IInv, CallInv, EventInv, page, actions, isrvars, dpcvars, owners
<1>1. TypeOK'
  BY WordsAreNumbers DEF TypeOK, OwnerLabels, IsrLabels, DpcLabels, Gens, Calls, NoCall, NULL
<1>2. EntryIsCurrent'
  BY DEF TypeOK, EntryIsCurrent, MaskedUnlessBound, NoDpcLeft, InterruptsMasked, DpcCallIsCurrent, QuietWhileSuspended, HasRoutine, HasContext, Typed, New, Quiet, Binding
<1>3. MaskedUnlessBound'
  BY DEF TypeOK, EntryIsCurrent, MaskedUnlessBound, NoDpcLeft, InterruptsMasked, DpcCallIsCurrent, QuietWhileSuspended, HasRoutine, HasContext, Typed, New, Quiet, Binding
<1>4. NoDpcLeft'
  BY DEF TypeOK, EntryIsCurrent, MaskedUnlessBound, NoDpcLeft, InterruptsMasked, DpcCallIsCurrent, QuietWhileSuspended, HasRoutine, HasContext, Typed, New, Quiet, Binding
<1>5. InterruptsMasked'
  BY DEF TypeOK, EntryIsCurrent, MaskedUnlessBound, NoDpcLeft, InterruptsMasked, DpcCallIsCurrent, QuietWhileSuspended, HasRoutine, HasContext, Typed, New, Quiet, Binding
<1>6. DpcCallIsCurrent'
  BY DEF TypeOK, EntryIsCurrent, MaskedUnlessBound, NoDpcLeft, InterruptsMasked, DpcCallIsCurrent, QuietWhileSuspended, HasRoutine, HasContext, Typed, New, Quiet, Binding
<1>7. QuietWhileSuspended'
  BY DEF TypeOK, EntryIsCurrent, MaskedUnlessBound, NoDpcLeft, InterruptsMasked, DpcCallIsCurrent, QuietWhileSuspended, HasRoutine, HasContext, Typed, New, Quiet, Binding
<1>8. FreshIsClear'
  BY DEF TypeOK, FreshIsClear, EarlyIsKnown, Signalled, WordsTaken, NoEventForgotten, Binding, MaskedUnlessBound, InterruptsMasked, Scanned, QuietWhileSuspended
<1>9. EarlyIsKnown'
  BY DEF TypeOK, FreshIsClear, EarlyIsKnown, Signalled, WordsTaken, NoEventForgotten, Binding, MaskedUnlessBound, InterruptsMasked, Scanned, QuietWhileSuspended
<1>10. Signalled'
  BY DEF TypeOK, FreshIsClear, EarlyIsKnown, Signalled, WordsTaken, NoEventForgotten, Binding, MaskedUnlessBound, InterruptsMasked, Scanned, QuietWhileSuspended
<1>11. WordsTaken'
  BY DEF TypeOK, FreshIsClear, EarlyIsKnown, Signalled, WordsTaken, NoEventForgotten, Binding, MaskedUnlessBound, InterruptsMasked, Scanned, QuietWhileSuspended
<1>12. NoEventForgotten'
  BY DEF TypeOK, FreshIsClear, EarlyIsKnown, Signalled, WordsTaken, NoEventForgotten, Binding, MaskedUnlessBound, InterruptsMasked, Scanned, QuietWhileSuspended
<1> QED BY <1>1, <1>2, <1>3, <1>4, <1>5, <1>6, <1>7, <1>8, <1>9, <1>10, <1>11, <1>12
LEMMA SuspendKeeps == ASSUME IInv, Suspend PROVE IInv'
<1> USE EventChannelAssumption DEF Suspend, OwnerStep, IInv, CallInv, EventInv, page, actions, isrvars, dpcvars, owners
<1>1. TypeOK'
  BY WordsAreNumbers DEF TypeOK, OwnerLabels, IsrLabels, DpcLabels, Gens, Calls, NoCall, NULL
<1>2. EntryIsCurrent'
  BY DEF TypeOK, EntryIsCurrent, MaskedUnlessBound, NoDpcLeft, InterruptsMasked, DpcCallIsCurrent, QuietWhileSuspended, HasRoutine, HasContext, Typed, New, Quiet, Binding
<1>3. MaskedUnlessBound'
  BY DEF TypeOK, EntryIsCurrent, MaskedUnlessBound, NoDpcLeft, InterruptsMasked, DpcCallIsCurrent, QuietWhileSuspended, HasRoutine, HasContext, Typed, New, Quiet, Binding
<1>4. NoDpcLeft'
  BY DEF TypeOK, EntryIsCurrent, MaskedUnlessBound, NoDpcLeft, InterruptsMasked, DpcCallIsCurrent, QuietWhileSuspended, HasRoutine, HasContext, Typed, New, Quiet, Binding
<1>5. InterruptsMasked'
  BY DEF TypeOK, EntryIsCurrent, MaskedUnlessBound, NoDpcLeft, InterruptsMasked, DpcCallIsCurrent, QuietWhileSuspended, HasRoutine, HasContext, Typed, New, Quiet, Binding
<1>6. DpcCallIsCurrent'
  BY DEF TypeOK, EntryIsCurrent, MaskedUnlessBound, NoDpcLeft, InterruptsMasked, DpcCallIsCurrent, QuietWhileSuspended, HasRoutine, HasContext, Typed, New, Quiet, Binding
<1>7. QuietWhileSuspended'
  BY DEF TypeOK, EntryIsCurrent, MaskedUnlessBound, NoDpcLeft, InterruptsMasked, DpcCallIsCurrent, QuietWhileSuspended, HasRoutine, HasContext, Typed, New, Quiet, Binding
<1>8. FreshIsClear'
  BY DEF TypeOK, FreshIsClear, EarlyIsKnown, Signalled, WordsTaken, NoEventForgotten, Binding, MaskedUnlessBound, InterruptsMasked, Scanned, QuietWhileSuspended
<1>9. EarlyIsKnown'
  BY DEF TypeOK, FreshIsClear, EarlyIsKnown, Signalled, WordsTaken, NoEventForgotten, Binding, MaskedUnlessBound, InterruptsMasked, Scanned, QuietWhileSuspended
<1>10. Signalled'
  BY DEF TypeOK, FreshIsClear, EarlyIsKnown, Signalled, WordsTaken, NoEventForgotten, Binding, MaskedUnlessBound, InterruptsMasked, Scanned, QuietWhileSuspended
<1>11. WordsTaken'
  BY DEF TypeOK, FreshIsClear, EarlyIsKnown, Signalled, WordsTaken, NoEventForgotten, Binding, MaskedUnlessBound, InterruptsMasked, Scanned, QuietWhileSuspended
<1>12. NoEventForgotten'
  BY DEF TypeOK, FreshIsClear, EarlyIsKnown, Signalled, WordsTaken, NoEventForgotten, Binding, MaskedUnlessBound, InterruptsMasked, Scanned, QuietWhileSuspended
<1> QED BY <1>1, <1>2, <1>3, <1>4, <1>5, <1>6, <1>7, <1>8, <1>9, <1>10, <1>11, <1>12
LEMMA SuspendRemoveKeeps == ASSUME IInv, SuspendRemove PROVE IInv'
<1> USE EventChannelAssumption DEF SuspendRemove, OwnerStep, IInv, CallInv, EventInv, page, actions, isrvars, dpcvars, owners
<1>1. TypeOK'
  BY WordsAreNumbers DEF TypeOK, OwnerLabels, IsrLabels, DpcLabels, Gens, Calls, NoCall, NULL
<1>2. EntryIsCurrent'
  BY DEF TypeOK, EntryIsCurrent, MaskedUnlessBound, NoDpcLeft, InterruptsMasked, DpcCallIsCurrent, QuietWhileSuspended, HasRoutine, HasContext, Typed, New, Quiet, Binding
<1>3. MaskedUnlessBound'
  BY DEF TypeOK, EntryIsCurrent, MaskedUnlessBound, NoDpcLeft, InterruptsMasked, DpcCallIsCurrent, QuietWhileSuspended, HasRoutine, HasContext, Typed, New, Quiet, Binding
<1>4. NoDpcLeft'
  BY DEF TypeOK, EntryIsCurrent, MaskedUnlessBound, NoDpcLeft, InterruptsMasked, DpcCallIsCurrent, QuietWhileSuspended, HasRoutine, HasContext, Typed, New, Quiet, Binding
<1>5. InterruptsMasked'
  BY DEF TypeOK, EntryIsCurrent, MaskedUnlessBound, NoDpcLeft, InterruptsMasked, DpcCallIsCurrent, QuietWhileSuspended, HasRoutine, HasContext, Typed, New, Quiet, Binding
<1>6. DpcCallIsCurrent'
  BY DEF TypeOK, EntryIsCurrent, MaskedUnlessBound, NoDpcLeft, InterruptsMasked, DpcCallIsCurrent, QuietWhileSuspended, HasRoutine, HasContext, Typed, New, Quiet, Binding
<1>7. QuietWhileSuspended'
  BY DEF TypeOK, EntryIsCurrent, MaskedUnlessBound, NoDpcLeft, InterruptsMasked, DpcCallIsCurrent, QuietWhileSuspended, HasRoutine, HasContext, Typed, New, Quiet, Binding
<1>8. FreshIsClear'
  BY DEF TypeOK, FreshIsClear, EarlyIsKnown, Signalled, WordsTaken, NoEventForgotten, Binding, MaskedUnlessBound, InterruptsMasked, Scanned, QuietWhileSuspended
<1>9. EarlyIsKnown'
  BY DEF TypeOK, FreshIsClear, EarlyIsKnown, Signalled, WordsTaken, NoEventForgotten, Binding, MaskedUnlessBound, InterruptsMasked, Scanned, QuietWhileSuspended
<1>10. Signalled'
  BY DEF TypeOK, FreshIsClear, EarlyIsKnown, Signalled, WordsTaken, NoEventForgotten, Binding, MaskedUnlessBound, InterruptsMasked, Scanned, QuietWhileSuspended
<1>11. WordsTaken'
  BY DEF TypeOK, FreshIsClear, EarlyIsKnown, Signalled, WordsTaken, NoEventForgotten, Binding, MaskedUnlessBound, InterruptsMasked, Scanned, QuietWhileSuspended
<1>12. NoEventForgotten'
  BY DEF TypeOK, FreshIsClear, EarlyIsKnown, Signalled, WordsTaken, NoEventForgotten, Binding, MaskedUnlessBound, InterruptsMasked, Scanned, QuietWhileSuspended
<1> QED BY <1>1, <1>2, <1>3, <1>4, <1>5, <1>6, <1>7, <1>8, <1>9, <1>10, <1>11, <1>12
LEMMA SuspendFlushKeeps == ASSUME IInv, SuspendFlush PROVE IInv'
<1> USE EventChannelAssumption DEF SuspendFlush, OwnerStep, IInv, CallInv, EventInv, page, actions, isrvars, dpcvars, owners
<1>1. TypeOK'
  BY WordsAreNumbers DEF TypeOK, OwnerLabels, IsrLabels, DpcLabels, Gens, Calls, NoCall, NULL
<1>2. EntryIsCurrent'
  BY DEF TypeOK, EntryIsCurrent, MaskedUnlessBound, NoDpcLeft, InterruptsMasked, DpcCallIsCurrent, QuietWhileSuspended, HasRoutine, HasContext, Typed, New, Quiet, Binding
<1>3. MaskedUnlessBound'
  BY DEF TypeOK, EntryIsCurrent, MaskedUnlessBound, NoDpcLeft, InterruptsMasked, DpcCallIsCurrent, QuietWhileSuspended, HasRoutine, HasContext, Typed, New, Quiet, Binding
<1>4. NoDpcLeft'
  BY DEF TypeOK, EntryIsCurrent, MaskedUnlessBound, NoDpcLeft, InterruptsMasked, DpcCallIsCurrent, QuietWhileSuspended, HasRoutine, HasContext, Typed, New, Quiet, Binding
<1>5. InterruptsMasked'
  BY DEF TypeOK, EntryIsCurrent, MaskedUnlessBound, NoDpcLeft, InterruptsMasked, DpcCallIsCurrent, QuietWhileSuspended, HasRoutine, HasContext, Typed, New, Quiet, Binding
<1>6. DpcCallIsCurrent'
  BY DEF TypeOK, EntryIsCurrent, MaskedUnlessBound, NoDpcLeft, InterruptsMasked, DpcCallIsCurrent, QuietWhileSuspended, HasRoutine, HasContext, Typed, New, Quiet, Binding
<1>7. QuietWhileSuspended'
  BY DEF TypeOK, EntryIsCurrent, MaskedUnlessBound, NoDpcLeft, InterruptsMasked, DpcCallIsCurrent, QuietWhileSuspended, HasRoutine, HasContext, Typed, New, Quiet, Binding
<1>8. FreshIsClear'
  BY DEF TypeOK, FreshIsClear, EarlyIsKnown, Signalled, WordsTaken, NoEventForgotten, Binding, MaskedUnlessBound, InterruptsMasked, Scanned, QuietWhileSuspended
<1>9. EarlyIsKnown'
  BY DEF TypeOK, FreshIsClear, EarlyIsKnown, Signalled, WordsTaken, NoEventForgotten, Binding, MaskedUnlessBound, InterruptsMasked, Scanned, QuietWhileSuspended
<1>10. Signalled'
  BY DEF TypeOK, FreshIsClear, EarlyIsKnown, Signalled, WordsTaken, NoEventForgotten, Binding, MaskedUnlessBound, InterruptsMasked, Scanned, QuietWhileSuspended
<1>11. WordsTaken'
  BY DEF TypeOK, FreshIsClear, EarlyIsKnown, Signalled, WordsTaken, NoEventForgotten, Binding, MaskedUnlessBound, InterruptsMasked, Scanned, QuietWhileSuspended
<1>12. NoEventForgotten'
  BY DEF TypeOK, FreshIsClear, EarlyIsKnown, Signalled, WordsTaken, NoEventForgotten, Binding, MaskedUnlessBound, InterruptsMasked, Scanned, QuietWhileSuspended
<1> QED BY <1>1, <1>2, <1>3, <1>4, <1>5, <1>6, <1>7, <1>8, <1>9, <1>10, <1>11, <1>12
LEMMA ResumeKeeps == ASSUME IInv, Resume PROVE IInv'
<1> USE EventChannelAssumption DEF Resume, OwnerStep, IInv, CallInv, EventInv, page, actions, isrvars, dpcvars, owners
<1>1. TypeOK'
  BY WordsAreNumbers DEF TypeOK, OwnerLabels, IsrLabels, DpcLabels, Gens, Calls, NoCall, NULL
<1>2. EntryIsCurrent'
  BY DEF TypeOK, EntryIsCurrent, MaskedUnlessBound, NoDpcLeft, InterruptsMasked, DpcCallIsCurrent, QuietWhileSuspended, HasRoutine, HasContext, Typed, New, Quiet, Binding
<1>3. MaskedUnlessBound'
  BY DEF TypeOK, EntryIsCurrent, MaskedUnlessBound, NoDpcLeft, InterruptsMasked, DpcCallIsCurrent, QuietWhileSuspended, HasRoutine, HasContext, Typed, New, Quiet, Binding
<1>4. NoDpcLeft'
  BY DEF TypeOK, EntryIsCurrent, MaskedUnlessBound, NoDpcLeft, InterruptsMasked, DpcCallIsCurrent, QuietWhileSuspended, HasRoutine, HasContext, Typed, New, Quiet, Binding
<1>5. InterruptsMasked'
  BY DEF TypeOK, EntryIsCurrent, MaskedUnlessBound, NoDpcLeft, InterruptsMasked, DpcCallIsCurrent, QuietWhileSuspended, HasRoutine, HasContext, Typed, New, Quiet, Binding
<1>6. DpcCallIsCurrent'
  BY DEF TypeOK, EntryIsCurrent, MaskedUnlessBound, NoDpcLeft, InterruptsMasked, DpcCallIsCurrent, QuietWhileSuspended, HasRoutine, HasContext, Typed, New, Quiet, Binding
<1>7. QuietWhileSuspended'
  BY DEF TypeOK, EntryIsCurrent, MaskedUnlessBound, NoDpcLeft, InterruptsMasked, DpcCallIsCurrent, QuietWhileSuspended, HasRoutine, HasContext, Typed, New, Quiet, Binding
<1>8. FreshIsClear'
  BY DEF TypeOK, FreshIsClear, EarlyIsKnown, Signalled, WordsTaken, NoEventForgotten, Binding, MaskedUnlessBound, InterruptsMasked, Scanned, QuietWhileSuspended
<1>9. EarlyIsKnown'
  BY DEF TypeOK, FreshIsClear, EarlyIsKnown, Signalled, WordsTaken, NoEventForgotten, Binding, MaskedUnlessBound, InterruptsMasked, Scanned, QuietWhileSuspended
<1>10. Signalled'
  BY DEF TypeOK, FreshIsClear, EarlyIsKnown, Signalled, WordsTaken, NoEventForgotten, Binding, MaskedUnlessBound, InterruptsMasked, Scanned, QuietWhileSuspended
<1>11. WordsTaken'
  BY DEF TypeOK, FreshIsClear, EarlyIsKnown, Signalled, WordsTaken, NoEventForgotten, Binding, MaskedUnlessBound, InterruptsMasked, Scanned, QuietWhileSuspended
<1>12. NoEventForgotten'
  BY DEF TypeOK, FreshIsClear, EarlyIsKnown, Signalled, WordsTaken, NoEventForgotten, Binding, MaskedUnlessBound, InterruptsMasked, Scanned, QuietWhileSuspended
<1> QED BY <1>1, <1>2, <1>3, <1>4, <1>5, <1>6, <1>7, <1>8, <1>9, <1>10, <1>11, <1>12
-----------------------------------------------------------------------------
(* Theorems *)

LEMMA InitInv == Init => IInv
<1> SUFFICES ASSUME Init PROVE IInv
  OBVIOUS
<1> USE EventChannelAssumption DEF Init
<1>1. Lowest(Words) \in Words /\ Lowest(Ports) \in Ports
  BY LowestIsLeast, WordsAreNumbers
<1>2. TypeOK
  <2>1. NULL \in Gens /\ NoCall \in Calls
    BY DEF Gens, Calls, NoCall, NULL
  <2>2. /\ isr \in IsrLabels /\ dpc \in [DpcPorts -> DpcLabels]
        /\ owner \in [Ports -> OwnerLabels] /\ gen \in [Ports -> Gens]
    BY <2>1 DEF IsrLabels, DpcLabels, OwnerLabels, NULL
  <2>3. /\ ServiceRoutine \in [Ports -> Gens] /\ ServiceContext \in [Ports -> Gens]
        /\ call \in Calls /\ dpccall \in [DpcPorts -> Calls]
    BY <2>1
  <2>4. /\ evtchn_pending \in SUBSET Ports /\ evtchn_mask \in SUBSET Ports
        /\ evtchn_pending_sel \in SUBSET Words /\ evt_words \in SUBSET Words
        /\ evt_word \in Words /\ port \in Ports /\ dpcqueued \in SUBSET DpcPorts
        /\ fresh \in SUBSET Ports /\ unseen \in SUBSET Ports /\ early \in SUBSET KeepPorts
    BY <1>1
  <2>5. type \in [Ports -> {"EMPTY", "NEW", "NORMAL", "DPC"}]
    OBVIOUS
  <2>6. /\ evtchn_upcall_pending \in BOOLEAN /\ interrupts_masked \in BOOLEAN
        /\ power \in {"on", "masked", "flush", "suspended"}
    BY Zenon
  <2>7. raises \in 0 .. MaxRaises /\ suspends \in 0 .. MaxSuspends
    BY SMT
  <2> HIDE DEF Init
  <2> QED BY <2>2, <2>3, <2>4, <2>5, <2>6, <2>7 DEF TypeOK
<1>3. CallInv
  BY DEF CallInv, EntryIsCurrent, MaskedUnlessBound, NoDpcLeft, InterruptsMasked,
         DpcCallIsCurrent, QuietWhileSuspended, HasRoutine, HasContext, Typed, New
<1>4. EventInv
  BY DEF EventInv, FreshIsClear, EarlyIsKnown, Signalled, WordsTaken, NoEventForgotten
<1> QED BY <1>2, <1>3, <1>4 DEF IInv

LEMMA StepInv == IInv /\ [Next]_vars => IInv'
<1> SUFFICES ASSUME IInv, [Next]_vars PROVE IInv'
  OBVIOUS
<1>1. ASSUME NEW p \in Ports, Raise(p) \/ Bind(p) \/ Unbind(p) PROVE IInv'
  BY <1>1, RaiseKeeps, BindNewKeeps, SetRoutineKeeps, SetContextKeeps, SetTypeKeeps, UnmaskKeeps,
     MaskKeeps, ExchangeTypeKeeps, RemoveDpcKeeps, FlushDpcsKeeps, ClearRoutineKeeps,
     ClearContextKeeps DEF Bind, Unbind
<1>2. CASE EvtInterruptIsr
  BY <1>2, IsrEnterKeeps, IsrSelKeeps, IsrWordKeeps, IsrScanKeeps, IsrDispatchKeeps,
     IsrRoutineKeeps, IsrContextKeeps, IsrReturnKeeps DEF EvtInterruptIsr
<1>3. ASSUME NEW p \in DpcPorts, Dpc(p) PROVE IInv'
  BY <1>3, DpcStartKeeps, DpcBounceKeeps, DpcReturnKeeps DEF Dpc
<1>4. CASE UNCHANGED vars
  <2> USE <1>4 DEF vars, page, actions, isrvars, dpcvars, owners
  <2>1. TypeOK' = TypeOK
    BY DEF TypeOK
  <2>2. CallInv' = CallInv
    BY DEF CallInv, EntryIsCurrent, MaskedUnlessBound, NoDpcLeft, InterruptsMasked,
           DpcCallIsCurrent, QuietWhileSuspended
  <2>3. EventInv' = EventInv
    BY DEF EventInv, FreshIsClear, EarlyIsKnown, Binding, Signalled, WordsTaken, NoEventForgotten
  <2> QED BY <2>1, <2>2, <2>3 DEF IInv
<1> QED BY <1>1, <1>2, <1>3, <1>4, SuspendKeeps, SuspendRemoveKeeps, SuspendFlushKeeps, ResumeKeeps
        DEF Next

\* The inductive invariant: what the entry of a port holds and who may still be about to
\* use it, and who answers for a pending event.
THEOREM Invariance == Spec => []IInv
BY InitInv, StepInv, PTL DEF Spec

\* Type correctness.
THEOREM TypeCorrect == Spec => []TypeOK
<1>1. IInv => TypeOK
  BY DEF IInv
<1> QED BY <1>1, Invariance, PTL

\* A DPC only calls the routine its port is bound with, with the context it was bound
\* with, and nothing is called while the system is suspended.
THEOREM CallsAreSound == Spec => []CallsSound
<1>1. IInv => CallsSound
  BY DEF IInv, CallInv, CallsSound
<1> QED BY <1>1, Invariance, PTL

\* A pending event of an unmasked port is always answered for: by an interrupt to come or
\* by the words the interrupt has not scanned yet.
THEOREM EventsAreRemembered == Spec => []NoEventForgotten
<1>1. IInv => NoEventForgotten
  BY DEF IInv, EventInv
<1> QED BY <1>1, Invariance, PTL
=============================================================================
