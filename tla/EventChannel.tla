---------------------------- MODULE EventChannel ----------------------------
(***************************************************************************)
(* Event channel dispatch (xenpci/evtchn.c): the hypervisor sets bits in   *)
(* the shared info page, EvtChn_EvtInterruptIsr scans them and calls the   *)
(* port's routine or queues its DPC, while the owners of the ports bind    *)
(* and unbind them and XenPci_SuspendResume suspends the whole device.     *)
(*                                                                         *)
(* One action per access to shared memory.  A port's owner gives it a      *)
(* routine and a context; both are named by a generation number, so that   *)
(* a call of one generation's routine with another's context shows.        *)
(***************************************************************************)
EXTENDS Naturals, FiniteSets

CONSTANTS
  Ports,
  DpcPorts,       \* bound with EvtChn_BindDpc (xenbus, suspend), the others with EvtChn_Bind
  KeepPorts,      \* bound across a suspend (EVT_ACTION_FLAGS_NO_SUSPEND on suspend_evtchn)
  BITS_PER_LONG,
  RebindPorts,    \* bound up to MaxBinds times, the others once (a bound)
  MaxBinds, MaxRaises, MaxSuspends   \* bounds

ASSUME EventChannelAssumption ==
  /\ Ports \subseteq Nat /\ Ports # {} /\ DpcPorts \subseteq Ports /\ KeepPorts \subseteq DpcPorts
  /\ RebindPorts \subseteq Ports
  /\ BITS_PER_LONG \in Nat \ {0}
  /\ MaxBinds \in Nat \ {0} /\ MaxRaises \in Nat /\ MaxSuspends \in Nat

Word(p) == p \div BITS_PER_LONG
Words   == {Word(p) : p \in Ports}
NULL    == 0

VARIABLES
  evtchn_pending, evtchn_mask, evtchn_pending_sel, evtchn_upcall_pending,  \* shared info
  interrupts_masked,
  type, ServiceRoutine, ServiceContext,    \* ev_actions
  isr, evt_words, evt_word, port, call,    \* the ISR: next step and locals; call: what it
                                           \* calls, routine and context
  dpcqueued, dpc, dpccall,                 \* the ports' DPCs
  owner, gen,                              \* per port, the owner's next step; its generation
  fresh,                                   \* ports whose pending bit was cleared since unbound
  power,
  unseen,                                  \* bound ports with an event not served (history)
  early,                                   \* ports with an event before they were unmasked (history)
  raises, suspends

page    == <<evtchn_pending, evtchn_mask, evtchn_pending_sel, evtchn_upcall_pending>>
actions == <<type, ServiceRoutine, ServiceContext>>
isrvars == <<isr, evt_words, evt_word, port, call>>
dpcvars == <<dpcqueued, dpc, dpccall>>
owners  == <<owner, gen, fresh>>
vars    == <<page, interrupts_masked, actions, isrvars, dpcvars, owners, power, unseen,
             early, raises, suspends>>

Gens  == 0 .. MaxBinds
Calls == [routine : Gens, context : Gens]
NoCall == [routine |-> NULL, context |-> NULL]

IsrLabels   == {"idle", "sel", "word", "scan", "dispatch", "routine", "context", "call", "crash"}
DpcLabels   == {"none", "check", "call"}
OwnerLabels == {"unbound", "routine", "context", "type", "unmask", "bound",
                "exchange", "remove", "flush", "clear", "clear2"}

TypeOK ==
  /\ evtchn_pending \in SUBSET Ports /\ evtchn_mask \in SUBSET Ports
  /\ evtchn_pending_sel \in SUBSET Words /\ evtchn_upcall_pending \in BOOLEAN
  /\ interrupts_masked \in BOOLEAN
  /\ type \in [Ports -> {"EMPTY", "NEW", "NORMAL", "DPC"}]
  /\ ServiceRoutine \in [Ports -> Gens] /\ ServiceContext \in [Ports -> Gens]
  /\ isr \in IsrLabels /\ evt_words \in SUBSET Words /\ evt_word \in Words
  /\ port \in Ports /\ call \in Calls
  /\ dpcqueued \in SUBSET DpcPorts /\ dpc \in [DpcPorts -> DpcLabels]
  /\ dpccall \in [DpcPorts -> Calls]
  /\ owner \in [Ports -> OwnerLabels] /\ gen \in [Ports -> Gens] /\ fresh \in SUBSET Ports
  /\ power \in {"on", "masked", "flush", "suspended"}
  /\ unseen \in SUBSET Ports /\ early \in SUBSET KeepPorts
  /\ raises \in 0 .. MaxRaises /\ suspends \in 0 .. MaxSuspends

Lowest(S) == CHOOSE x \in S : \A y \in S : x <= y

\* EvtChn_Init
Init ==
  /\ evtchn_pending = {} /\ evtchn_mask = Ports /\ evtchn_pending_sel = {}
  /\ evtchn_upcall_pending = FALSE /\ interrupts_masked = FALSE
  /\ type = [p \in Ports |-> "EMPTY"]
  /\ ServiceRoutine = [p \in Ports |-> NULL] /\ ServiceContext = [p \in Ports |-> NULL]
  /\ isr = "idle" /\ evt_words = {} /\ evt_word = Lowest(Words) /\ port = Lowest(Ports)
  /\ call = NoCall
  /\ dpcqueued = {} /\ dpc = [p \in DpcPorts |-> "none"]
  /\ dpccall = [p \in DpcPorts |-> NoCall]
  /\ owner = [p \in Ports |-> "unbound"] /\ gen = [p \in Ports |-> 0] /\ fresh = Ports
  /\ power = "on" /\ unseen = {} /\ early = {} /\ raises = 0 /\ suspends = 0
-----------------------------------------------------------------------------
(* The hypervisor and the other end of the channel *)

\* The other end learns of a port after it is bound (XnBindEvent's callers write
\* event-channel afterwards); of the suspend port before, XenPci_ConnectSuspendEvt
\* writes it first.  It may raise events until the port is closed.
Binding(p) == owner[p] \in {"routine", "context", "type", "unmask"}

Raise(p) ==
  /\ owner[p] # "unbound" /\ (Binding(p) => p \in KeepPorts)
  /\ raises < MaxRaises /\ raises' = raises + 1
  /\ evtchn_pending' = evtchn_pending \cup {p}
  /\ LET up == p \notin evtchn_pending /\ p \notin evtchn_mask
               /\ Word(p) \notin evtchn_pending_sel
     IN  /\ evtchn_pending_sel' = IF up THEN evtchn_pending_sel \cup {Word(p)} ELSE evtchn_pending_sel
         /\ evtchn_upcall_pending' = (evtchn_upcall_pending \/ up)
  /\ unseen' = IF owner[p] = "bound" /\ p \notin early THEN unseen \cup {p} ELSE unseen
  /\ early' = IF Binding(p) THEN early \cup {p} ELSE early
  /\ UNCHANGED <<evtchn_mask, interrupts_masked, actions, isrvars, dpcvars, owners, power, suspends>>
-----------------------------------------------------------------------------
(* EvtChn_EvtInterruptIsr *)

\* evtchn_upcall_pending = 0; nothing more while interrupts are masked
IsrEnter ==
  /\ isr = "idle" /\ evtchn_upcall_pending
  /\ evtchn_upcall_pending' = FALSE
  /\ isr' = IF interrupts_masked THEN "idle" ELSE "sel"
  /\ UNCHANGED <<evtchn_pending, evtchn_mask, evtchn_pending_sel, interrupts_masked, actions,
                 evt_words, evt_word, port, call, dpcvars, owners, power, unseen, early, raises, suspends>>

\* evt_words = xchg(&evtchn_pending_sel, 0)
IsrSel ==
  /\ isr = "sel" /\ isr' = "word"
  /\ evt_words' = evtchn_pending_sel /\ evtchn_pending_sel' = {}
  /\ UNCHANGED <<evtchn_pending, evtchn_mask, evtchn_upcall_pending, interrupts_masked, actions,
                 evt_word, port, call, dpcvars, owners, power, unseen, early, raises, suspends>>

\* Mutant: the words above the lowest are dropped.
IsrWordOne ==
  /\ isr = "word"
  /\ \/ evt_words = {} /\ isr' = "idle" /\ UNCHANGED <<evt_words, evt_word>>
     \/ /\ evt_words # {} /\ isr' = "scan"
        /\ evt_word' = Lowest(evt_words) /\ evt_words' = {}
  /\ UNCHANGED <<page, interrupts_masked, actions, port, call, dpcvars, owners, power, unseen,
                 early, raises, suspends>>

\* while (bit_scan_forward(&evt_word, evt_words)) evt_words &= ~(1 << evt_word)
IsrWord ==
  /\ isr = "word"
  /\ \/ evt_words = {} /\ isr' = "idle" /\ UNCHANGED <<evt_words, evt_word>>
     \/ /\ evt_words # {} /\ isr' = "scan"
        /\ evt_word' = Lowest(evt_words) /\ evt_words' = evt_words \ {evt_word'}
  /\ UNCHANGED <<page, interrupts_masked, actions, port, call, dpcvars, owners, power, unseen,
                 early, raises, suspends>>

Scanned == {p \in evtchn_pending \ evtchn_mask : Word(p) = evt_word}

\* The next pending event of the word that is not masked: clear its bit.
IsrScan ==
  /\ isr = "scan"
  /\ \/ Scanned = {} /\ isr' = "word" /\ UNCHANGED <<evtchn_pending, port>>
     \/ /\ Scanned # {} /\ isr' = "dispatch"
        /\ port' = Lowest(Scanned) /\ evtchn_pending' = evtchn_pending \ {port'}
  /\ UNCHANGED <<evtchn_mask, evtchn_pending_sel, evtchn_upcall_pending, interrupts_masked, actions,
                 evt_words, evt_word, call, dpcvars, owners, power, unseen, early, raises, suspends>>

\* switch (ev_action->type); KeInsertQueueDpc does nothing if the DPC is queued.
IsrDispatch ==
  /\ isr = "dispatch"
  /\ isr' = IF type[port] = "NORMAL" THEN "routine" ELSE "scan"
  /\ dpcqueued' = IF type[port] = "DPC" THEN dpcqueued \cup {port} ELSE dpcqueued
  /\ UNCHANGED <<page, interrupts_masked, actions, evt_words, evt_word, port, call, dpc, dpccall,
                 owners, power, unseen, early, raises, suspends>>

\* ev_action->ServiceRoutine(ev_action->ServiceContext): two loads, then the call
IsrRoutine ==
  /\ isr = "routine" /\ isr' = "context"
  /\ call' = [call EXCEPT !.routine = ServiceRoutine[port]]
  /\ UNCHANGED <<page, interrupts_masked, actions, evt_words, evt_word, port, dpcvars, owners,
                 power, unseen, early, raises, suspends>>

\* Calling a routine that is NULL by now is a bugcheck.
IsrContext ==
  /\ isr = "context" /\ isr' = IF call.routine = NULL THEN "crash" ELSE "call"
  /\ call' = [call EXCEPT !.context = ServiceContext[port]]
  /\ unseen' = unseen \ {port}
  /\ UNCHANGED <<page, interrupts_masked, actions, evt_words, evt_word, port, dpcvars, owners,
                 power, early, raises, suspends>>

IsrReturn ==
  /\ isr = "call" /\ isr' = "scan" /\ call' = NoCall
  /\ UNCHANGED <<page, interrupts_masked, actions, evt_words, evt_word, port, dpcvars, owners,
                 power, unseen, early, raises, suspends>>

EvtInterruptIsr == IsrEnter \/ IsrSel \/ IsrWord \/ IsrScan \/ IsrDispatch \/ IsrRoutine
                   \/ IsrContext \/ IsrReturn
-----------------------------------------------------------------------------
(* EvtChn_DpcBounce *)

DpcStart(p) ==
  /\ p \in dpcqueued /\ dpc[p] = "none"
  /\ dpcqueued' = dpcqueued \ {p} /\ dpc' = [dpc EXCEPT ![p] = "check"]
  /\ UNCHANGED <<page, interrupts_masked, actions, isrvars, dpccall, owners, power, unseen,
                 early, raises, suspends>>

\* type != EVT_ACTION_TYPE_EMPTY
DpcBounce(p) ==
  /\ dpc[p] = "check"
  /\ IF type[p] = "EMPTY"
       THEN dpc' = [dpc EXCEPT ![p] = "none"] /\ UNCHANGED <<dpccall, unseen>>
       ELSE /\ dpc' = [dpc EXCEPT ![p] = "call"]
            /\ dpccall' = [dpccall EXCEPT ![p] = [routine |-> ServiceRoutine[p],
                                                   context |-> ServiceContext[p]]]
            /\ unseen' = unseen \ {p}
  /\ UNCHANGED <<page, interrupts_masked, actions, isrvars, dpcqueued, owners, power, early, raises, suspends>>

DpcReturn(p) ==
  /\ dpc[p] = "call" /\ dpc' = [dpc EXCEPT ![p] = "none"]
  /\ dpccall' = [dpccall EXCEPT ![p] = NoCall]
  /\ UNCHANGED <<page, interrupts_masked, actions, isrvars, dpcqueued, owners, power, unseen,
                 early, raises, suspends>>

Dpc(p) == DpcStart(p) \/ DpcBounce(p) \/ DpcReturn(p)
-----------------------------------------------------------------------------
(* EvtChn_Bind, EvtChn_BindDpc *)

OwnerStep(p, from, to) == owner[p] = from /\ owner' = [owner EXCEPT ![p] = to]

\* The port is new, or EvtChn_Init has run since it was unbound.
\* InterlockedCompareExchange(&type, NEW, EMPTY); otherwise "already registered".
BindNew(p) ==
  /\ power = "on" /\ gen[p] < (IF p \in RebindPorts THEN MaxBinds ELSE 1) /\ p \in fresh
  /\ type[p] = "EMPTY"
  /\ OwnerStep(p, "unbound", "routine")
  /\ gen' = [gen EXCEPT ![p] = @ + 1] /\ fresh' = fresh \ {p}
  /\ type' = [type EXCEPT ![p] = "NEW"]
  /\ UNCHANGED <<page, interrupts_masked, ServiceRoutine, ServiceContext, isrvars, dpcvars, power,
                 unseen, early, raises, suspends>>

SetRoutine(p) ==
  /\ OwnerStep(p, "routine", "context")
  /\ ServiceRoutine' = [ServiceRoutine EXCEPT ![p] = gen[p]]
  /\ UNCHANGED <<page, interrupts_masked, type, ServiceContext, isrvars, dpcvars, gen, fresh, power,
                 unseen, early, raises, suspends>>

SetContext(p) ==
  /\ OwnerStep(p, "context", "type")
  /\ ServiceContext' = [ServiceContext EXCEPT ![p] = gen[p]]
  /\ UNCHANGED <<page, interrupts_masked, type, ServiceRoutine, isrvars, dpcvars, gen, fresh, power,
                 unseen, early, raises, suspends>>

SetType(p) ==
  /\ OwnerStep(p, "type", "unmask")
  /\ type' = [type EXCEPT ![p] = IF p \in DpcPorts THEN "DPC" ELSE "NORMAL"]
  /\ UNCHANGED <<page, interrupts_masked, ServiceRoutine, ServiceContext, isrvars, dpcvars, gen,
                 fresh, power, unseen, early, raises, suspends>>

\* Mutant: the port stays masked.
UnmaskNot(p) ==
  /\ OwnerStep(p, "unmask", "bound")
  /\ UNCHANGED <<page, interrupts_masked, actions, isrvars, dpcvars, gen, fresh, power, unseen,
                 early, raises, suspends>>

\* EvtChn_Unmask only clears the mask bit; it does not look at evtchn_pending.
Unmask(p) ==
  /\ OwnerStep(p, "unmask", "bound")
  /\ evtchn_mask' = evtchn_mask \ {p}
  /\ UNCHANGED <<evtchn_pending, evtchn_pending_sel, evtchn_upcall_pending, interrupts_masked, actions,
                 isrvars, dpcvars, gen, fresh, power, unseen, early, raises, suspends>>

Bind(p) == BindNew(p) \/ SetRoutine(p) \/ SetContext(p) \/ SetType(p) \/ Unmask(p)
-----------------------------------------------------------------------------
(* EvtChn_Unbind, and the EvtChn_Close that XnUnbindEvent adds *)

Mask(p) ==
  /\ power = "on"
  /\ OwnerStep(p, "bound", "exchange")
  /\ evtchn_mask' = evtchn_mask \cup {p}
  /\ unseen' = unseen \ {p}
  /\ UNCHANGED <<evtchn_pending, evtchn_pending_sel, evtchn_upcall_pending, interrupts_masked, actions,
                 isrvars, dpcvars, gen, fresh, power, early, raises, suspends>>

\* old_type = InterlockedExchange(&type, EMPTY)
ExchangeType(p) ==
  /\ OwnerStep(p, "exchange", IF type[p] = "DPC" THEN "remove" ELSE "clear")
  /\ type' = [type EXCEPT ![p] = "EMPTY"]
  /\ UNCHANGED <<page, interrupts_masked, ServiceRoutine, ServiceContext, isrvars, dpcvars, gen,
                 fresh, power, unseen, early, raises, suspends>>

\* KeRemoveQueueDpc
RemoveDpc(p) ==
  /\ OwnerStep(p, "remove", "flush")
  /\ dpcqueued' = dpcqueued \ {p}
  /\ UNCHANGED <<page, interrupts_masked, actions, isrvars, dpc, dpccall, gen, fresh, power, unseen,
                 early, raises, suspends>>

\* Mutant: DPCs that have left the queue are not waited for.
FlushNot(p) ==
  /\ OwnerStep(p, "flush", "clear")
  /\ UNCHANGED <<page, interrupts_masked, actions, isrvars, dpcvars, gen, fresh, power, unseen,
                 early, raises, suspends>>

\* KeFlushQueuedDpcs runs once on every CPU: an interrupt in progress ends, and a
\* DPC it has queued or that runs already ends, before it returns.
FlushDpcs(p) ==
  /\ OwnerStep(p, "flush", "clear")
  /\ p \notin dpcqueued /\ dpc[p] = "none" /\ ~(isr = "dispatch" /\ port = p)
  /\ UNCHANGED <<page, interrupts_masked, actions, isrvars, dpcvars, gen, fresh, power, unseen,
                 early, raises, suspends>>

ClearRoutine(p) ==
  /\ OwnerStep(p, "clear", "clear2")
  /\ ServiceRoutine' = [ServiceRoutine EXCEPT ![p] = NULL]
  /\ UNCHANGED <<page, interrupts_masked, type, ServiceContext, isrvars, dpcvars, gen, fresh, power,
                 unseen, early, raises, suspends>>

\* EvtChn_Close frees the port, and with it its pending bit, for the next Bind.
ClearContext(p) ==
  /\ OwnerStep(p, "clear2", "unbound")
  /\ ServiceContext' = [ServiceContext EXCEPT ![p] = NULL]
  /\ IF p \in DpcPorts THEN UNCHANGED <<fresh, evtchn_pending>>
     ELSE fresh' = fresh \cup {p} /\ evtchn_pending' = evtchn_pending \ {p}
  /\ UNCHANGED <<evtchn_mask, evtchn_pending_sel, evtchn_upcall_pending, interrupts_masked, type,
                 ServiceRoutine, isrvars, dpcvars, gen, power, unseen, early, raises, suspends>>

Unbind(p) == Mask(p) \/ ExchangeType(p) \/ RemoveDpc(p) \/ FlushDpcs(p) \/ ClearRoutine(p)
             \/ ClearContext(p)
-----------------------------------------------------------------------------
(* EvtChn_Suspend and EvtChn_Resume, from XenPci_SuspendResume *)

\* The children and xenbus have unbound their ports.  interrupts_masked = TRUE; the
\* hypervisor is told not to interrupt.
Suspend ==
  /\ power = "on" /\ power' = "masked"
  /\ suspends < MaxSuspends /\ suspends' = suspends + 1
  /\ \A p \in Ports : owner[p] = "unbound" \/ (p \in KeepPorts /\ owner[p] = "bound")
  /\ interrupts_masked' = TRUE
  /\ UNCHANGED <<page, actions, isrvars, dpcvars, owners, unseen, early, raises>>

SuspendRemove ==
  /\ power = "masked" /\ power' = "flush"
  /\ dpcqueued' = {p \in dpcqueued : type[p] # "DPC"}
  /\ UNCHANGED <<page, interrupts_masked, actions, isrvars, dpc, dpccall, owners, unseen, early, raises, suspends>>

\* KeFlushQueuedDpcs
SuspendFlush ==
  /\ power = "flush" /\ power' = "suspended"
  /\ isr = "idle" /\ dpcqueued = {} /\ \A p \in DpcPorts : dpc[p] = "none"
  /\ UNCHANGED <<page, interrupts_masked, actions, isrvars, dpcvars, owners, unseen, early, raises, suspends>>

\* EvtChn_Init at HIGH_LEVEL: ports are masked and EMPTY again, whoever had them
\* bound, and their routines are left as they were.
Resume ==
  /\ power = "suspended" /\ power' = "on" /\ isr = "idle"
  /\ evtchn_mask' = Ports /\ type' = [p \in Ports |-> "EMPTY"]
  /\ evtchn_pending' = {} /\ evtchn_pending_sel' = {} /\ evtchn_upcall_pending' = FALSE
  /\ interrupts_masked' = FALSE
  /\ owner' = [p \in Ports |-> "unbound"] /\ fresh' = Ports /\ unseen' = {} /\ early' = {}
  /\ UNCHANGED <<ServiceRoutine, ServiceContext, isrvars, dpcvars, gen, raises, suspends>>

Next ==
  \/ \E p \in Ports : Raise(p) \/ Bind(p) \/ Unbind(p)
  \/ EvtInterruptIsr
  \/ \E p \in DpcPorts : Dpc(p)
  \/ Suspend \/ SuspendRemove \/ SuspendFlush \/ Resume

Spec == Init /\ [][Next]_vars

\* Interrupts are taken, the ISR and the DPCs run on.
FairSpec ==
  /\ Spec
  /\ WF_vars(EvtInterruptIsr)
  /\ \A p \in DpcPorts : WF_vars(Dpc(p))
-----------------------------------------------------------------------------
(* Properties *)

\* A DPC port's routine is only called with the context it was bound with, and is not
\* running once EvtChn_Unbind has returned or a new owner binds the port: "make sure
\* that the new service routine is only called once the context is set up".
DpcCallIsCurrent ==
  \A p \in DpcPorts :
    dpc[p] = "call" =>
      /\ dpccall[p] = [routine |-> gen[p], context |-> gen[p]]
      /\ owner[p] \in {"unmask", "bound", "exchange", "remove", "flush"}

\* An event on an unmasked port is never forgotten: its word is selected with an
\* interrupt asserted, or the ISR still has the word ahead of it.  (An event that
\* came before EvtChn_Unmask is: the port stays pending and raises nothing again.)
NoEventForgotten ==
  \A p \in evtchn_pending \ (evtchn_mask \cup early) :
    ~interrupts_masked =>
      \/ Word(p) \in evtchn_pending_sel /\ (evtchn_upcall_pending \/ isr = "sel")
      \/ isr # "idle" /\ Word(p) \in evt_words
      \/ isr \in {"scan", "dispatch", "routine", "context", "call"} /\ Word(p) = evt_word
      \/ isr = "crash"

\* Between EvtChn_Suspend and EvtChn_Resume no interrupt is being dispatched and
\* no DPC is queued or running, although one port is still bound.
QuietWhileSuspended ==
  power = "suspended" => /\ isr = "idle" /\ dpcqueued = {}
                         /\ \A p \in DpcPorts : dpc[p] = "none"

\* An event on a bound port gets its routine called, unless the port is unbound or
\* the system suspends (or the ISR has called a routine that Unbind took away).
EventServed ==
  \A p \in Ports : p \in unseen ~> (p \notin unseen \/ power # "on" \/ isr = "crash")

\* Who is called, and when: routines with what they were bound with, and nobody while
\* the system is suspended.
CallsSound == TypeOK /\ DpcCallIsCurrent /\ QuietWhileSuspended
=============================================================================
