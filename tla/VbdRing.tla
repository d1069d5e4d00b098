------------------------------- MODULE VbdRing -------------------------------
(***************************************************************************)
(* The block front end (xenvbd_common/common_miniport.h, common_xen.h) in  *)
(* its storport build (xenvbd_storport/xenvbd.c): SRBs wait in srb_list,   *)
(* are split into ring requests, each with a shadow, and complete when the *)
(* backend has answered all of them.  A misaligned buffer goes through the *)
(* one aligned buffer.  A bus reset gives everything back while the        *)
(* backend still works on it; a suspend drains the ring and tears it down. *)
(*                                                                         *)
(* Everything but the connection protocol runs with the StartIo lock held, *)
(* so pc is the place of whoever holds it.  A block is what one request    *)
(* carries; sector ranges are in blocks.  The ring is the requests still   *)
(* private (pvt), those the backend can see (sent) and its answers (rsp);  *)
(* ring indices are relative to the next answer to consume.                *)
(* The disk is one the driver serves (device_state is never INACTIVE), the *)
(* driver is not in dump mode, and every SRB has a sense buffer.           *)
(***************************************************************************)
EXTENDS Naturals, Sequences, FiniteSets, SequencesExt

CONSTANTS
  SHADOW_ENTRIES,
  Srbs, NoSrb,
  Kind,          \* per SRB: what its function and command are
  FirstBlock, Blocks, \* per SRB: the blocks it reads or writes
  Unaligned,     \* SRBs whose buffer is not aligned to a sector
  NoAutosense,   \* SRBs with SRB_FLAGS_DISABLE_AUTOSENSE
  LateWorkItem,  \* disconnect_workitem may still be queued when a resume connects
  MaxSrbs, MaxErrors, MaxResets, MaxFailures, MaxSuspends, MaxTrouble   \* bounds

\* other: a SCSI command answered at once; flush: a function that is no SCSI command
Kinds == {"read", "write", "sense", "other", "flush", "reset"}
Scsi == {"read", "write", "sense", "other"}
ReadWrite == {"read", "write"}

ASSUME VbdRingAssumption ==
  /\ SHADOW_ENTRIES \in Nat \ {0}
  /\ NoSrb \notin Srbs
  /\ Kind \in [Srbs -> Kinds]
  /\ FirstBlock \in [Srbs -> Nat]
  /\ Blocks \in [Srbs -> Nat]
  /\ \A s \in Srbs : Kind[s] \in ReadWrite => Blocks[s] > 0
  /\ Unaligned \subseteq Srbs /\ NoAutosense \subseteq Srbs
  /\ LateWorkItem \in BOOLEAN

Ids == 0 .. SHADOW_ENTRIES - 1
DeviceStates == {"DISCONNECTED", "ACTIVE", "DISCONNECTING"}
XenbusStates == {"InitWait", "Initialised", "Connected", "Closing", "Closed"}

VARIABLES
  device_state,
  srb_list,
  entry,       \* srb_list_entry_t: offset, outstanding_requests, error (Fresh if not held)
  shadows,     \* blkif_shadow_t: srb, reset, aligned_buffer_in_use
  shadow_free, \* as a set: which of them is taken next makes no difference
  aligned_buffer_in_use, cac,
  pvt, sent, rsp, rsp_event,
  dpc,         \* an event is pending or the DPC is queued
  pc, back,    \* the next step under the lock, where ProcessSrbList returns to
  todo,        \* answers up to rp
  tm,          \* the thread that suspends and resumes
  frontend, backend,  \* states in xenstore
  workitem,    \* disconnect_workitem is queued
  held,        \* history: SRBs not given back
  accepted, errors, resets, failures, suspends   \* counters for the bounds

ring == <<pvt, sent, rsp, rsp_event>>
srbs == <<srb_list, entry, held>>
pool == <<shadows, shadow_free, aligned_buffer_in_use>>
conn == <<device_state, tm, frontend, backend, suspends>>
vars == <<device_state, srb_list, entry, shadows, shadow_free, aligned_buffer_in_use, cac,
          pvt, sent, rsp, rsp_event, dpc, pc, back, todo, tm, frontend, backend, workitem,
          held, accepted, errors, resets, failures, suspends>>

\* the bound on what goes wrong altogether
Bounded == errors + resets + failures + suspends < MaxTrouble

AllFree == shadow_free = Ids
InShadows == {shadows[i].srb : i \in Ids} \ {NoSrb}
Answers == {rsp[k].id : k \in 1 .. Len(rsp)}

\* what put_shadow_on_freelist leaves behind
CleanShadow == [srb |-> NoSrb, reset |-> FALSE, aligned |-> FALSE]

\* what XenVbd_PutSrbOnList fills in
Fresh == [offset |-> 0, outstanding |-> 0, error |-> FALSE]

\* XenVbd_HwStorInitialize, after XenVbd_Connect
Init ==
  /\ device_state = "ACTIVE"
  /\ srb_list = <<>> /\ held = {}
  /\ entry = [s \in Srbs |-> Fresh]
  /\ shadows = [i \in Ids |-> CleanShadow]
  /\ shadow_free = Ids
  /\ aligned_buffer_in_use = FALSE /\ cac = FALSE
  /\ pvt = {} /\ sent = {} /\ rsp = <<>> /\ rsp_event = 1
  /\ dpc = FALSE
  /\ pc = "free" /\ back = "free" /\ todo = 0
  /\ tm = "up" /\ frontend = "Connected" /\ backend = "Connected"
  /\ workitem = FALSE
  /\ accepted = 0 /\ errors = 0 /\ resets = 0 /\ failures = 0 /\ suspends = 0

-----------------------------------------------------------------------------
(* XenVbd_HandleEvent *)

\* the head of the loop over more_to_do: nothing moves while cac is set
Loop ==
  /\ pc' = IF cac THEN "finish" ELSE "respond"
  /\ todo' = IF cac THEN todo ELSE Len(rsp)
  /\ UNCHANGED back

HandleEvent ==
  IF device_state \in {"ACTIVE", "DISCONNECTING"}
  THEN Loop
  ELSE pc' = "process" /\ back' = "free" /\ UNCHANGED todo

\* rsp_event is an index: consuming an answer brings it nearer
ConsumeAnswer ==
  /\ pc = "respond" /\ todo > 0 /\ ~cac
  /\ rsp' = Tail(rsp)
  /\ todo' = todo - 1
  /\ rsp_event' = IF rsp_event = 0 THEN 0 ELSE rsp_event - 1
  /\ shadows' = [shadows EXCEPT ![Head(rsp).id] = CleanShadow]
  /\ shadow_free' = shadow_free \cup {Head(rsp).id}
  /\ UNCHANGED <<conn, workitem, srb_list, pvt, sent, dpc, pc, back,
                 accepted, errors, resets, failures>>

\* the SRB of a reset shadow has gone back already
DiscardReset ==
  /\ ConsumeAnswer
  /\ shadows[Head(rsp).id].reset
  /\ UNCHANGED <<entry, held, aligned_buffer_in_use, cac>>

\* Mutant: the part that was not sent is forgotten.
DoneAnswered(e, s) == e.outstanding = 0

\* an SRB is done when all of it was sent and all that was sent is answered
Done(e, s) == e.outstanding = 0 /\ e.offset = Blocks[s]

\* XenVbd_MakeAutoSense, with sense data to report
AutoSense(s) == s \in NoAutosense

Respond ==
  /\ ConsumeAnswer
  /\ ~shadows[Head(rsp).id].reset
  /\ LET s == shadows[Head(rsp).id].srb
         e == [entry[s] EXCEPT !.outstanding = @ - 1,
                               !.error = @ \/ ~Head(rsp).ok]
     IN /\ entry' = [entry EXCEPT ![s] = IF Done(e, s) THEN Fresh ELSE e]
        /\ held' = IF Done(e, s) THEN held \ {s} ELSE held
        /\ cac' = (Done(e, s) /\ e.error /\ AutoSense(s))
  /\ aligned_buffer_in_use' =
       (aligned_buffer_in_use /\ ~shadows[Head(rsp).id].aligned)

\* the answers up to rp are handled; queued SRBs go onto the ring now
RespondEnd ==
  /\ pc = "respond" /\ (todo = 0 \/ cac)
  /\ IF device_state = "ACTIVE"
     THEN pc' = "process" /\ back' = "consume"
     ELSE pc' = "consume" /\ UNCHANGED back
  /\ todo' = 0
  /\ UNCHANGED <<conn, workitem, srbs, pool, ring, cac, dpc, accepted, errors, resets, failures>>

\* rsp_cons = i: with nothing left to come the next answer raises an event
Consume ==
  /\ pc = "consume"
  /\ IF pvt \cup sent \cup Answers = {}
     THEN pc' = "finish" /\ rsp_event' = 1 /\ UNCHANGED <<todo, back>>
     ELSE /\ IF rsp # <<>> THEN Loop ELSE pc' = "arm" /\ UNCHANGED <<todo, back>>
          /\ UNCHANGED rsp_event
  /\ UNCHANGED <<conn, workitem, srbs, pool, pvt, sent, rsp, cac, dpc,
                 accepted, errors, resets, failures>>

\* how many answers ahead the next event is
Threshold ==
  LET used == Cardinality(Ids \ shadow_free)
  IN IF used < 2 THEN 1 ELSE used \div 2

Arm ==
  /\ pc = "arm"
  /\ rsp_event' = Threshold
  /\ pc' = "recheck"
  /\ UNCHANGED <<conn, workitem, srbs, pool, pvt, sent, rsp, cac, dpc, back, todo,
                 accepted, errors, resets, failures>>

\* Mutant: an answer that came before rsp_event was set is not seen.
RecheckNot ==
  /\ pc = "recheck"
  /\ pc' = "finish"
  /\ UNCHANGED <<conn, workitem, srbs, pool, ring, cac, dpc, back, todo, accepted,
                 errors, resets, failures>>

\* more_to_do, looked at again after rsp_event was set
Recheck ==
  /\ pc = "recheck"
  /\ IF rsp # <<>> THEN Loop ELSE pc' = "finish" /\ UNCHANGED <<todo, back>>
  /\ UNCHANGED <<conn, workitem, srbs, pool, ring, cac, dpc, accepted, errors, resets, failures>>

\* the ring is empty: XenVbd_CompleteDisconnect
Finish ==
  /\ pc = "finish"
  /\ pc' = "free"
  /\ workitem' = (workitem \/ (device_state = "DISCONNECTING" /\ AllFree))
  /\ UNCHANGED <<conn, srbs, pool, ring, cac, dpc, back, todo, accepted, errors, resets, failures>>

-----------------------------------------------------------------------------
(* XenVbd_ProcessSrbList: one SRB per step, the requests are pushed last *)

CanProcess == ~aligned_buffer_in_use /\ shadow_free # {} /\ srb_list # <<>>

\* a SCSI command waits for the device, and for sense data to be asked for
MayGo(s) == Kind[s] \in Scsi => device_state = "ACTIVE" /\ (cac => Kind[s] = "sense")

Overlap(s, t) ==
  /\ FirstBlock[s] < FirstBlock[t] + Blocks[t]
  /\ FirstBlock[t] < FirstBlock[s] + Blocks[s]

\* Mutant: a read does not wait for the write.
PendingWriteOnly(s) ==
  /\ entry[s].offset = 0 /\ Kind[s] = "write"
  /\ \E t \in InShadows : Kind[t] = "write" /\ Overlap(s, t)

\* an SRB that begins looks for pending writes of the same sectors
PendingWrite(s) ==
  /\ entry[s].offset = 0
  /\ \E t \in InShadows : Kind[t] = "write" /\ Overlap(s, t)

CanStart(s) == MayGo(s) /\ (Kind[s] \in ReadWrite => ~PendingWrite(s))

PushRequests ==
  /\ pc' = back
  /\ sent' = sent \cup pvt
  /\ pvt' = {}

\* nothing left to do, or the head was put back unchanged ("Same entry")
ProcessStop ==
  /\ pc = "process"
  /\ CanProcess => ~CanStart(Head(srb_list))
  /\ PushRequests
  /\ UNCHANGED <<conn, workitem, srbs, pool, rsp, rsp_event, cac, dpc, back, todo,
                 accepted, errors, resets, failures>>

\* no address for the buffer or no grant reference: all is undone, the head stays
ProcessFail ==
  /\ pc = "process" /\ failures < MaxFailures /\ Bounded
  /\ CanProcess /\ CanStart(Head(srb_list)) /\ Kind[Head(srb_list)] \in ReadWrite
  /\ failures' = failures + 1
  /\ PushRequests
  /\ UNCHANGED <<conn, workitem, srbs, pool, rsp, rsp_event, cac, dpc, back, todo,
                 accepted, errors, resets>>

\* some of the SRB is left for the next request
Unsent(s, offset) == offset < Blocks[s]

\* XenVbd_PutSrbOnRing; what is left of the SRB stays at the head of the list.
\* (The list of shadows is never empty here: ProcessSrbList has looked.)
PutSrbOnRing ==
  LET s == Head(srb_list)
      id == CHOOSE i \in shadow_free : TRUE
      e == [entry[s] EXCEPT !.offset = @ + 1, !.outstanding = @ + 1]
  IN /\ pc = "process"
     /\ CanProcess /\ CanStart(s) /\ Kind[s] \in ReadWrite
     /\ shadow_free' = shadow_free \ {id}
     /\ shadows' = [shadows EXCEPT
          ![id] = [srb |-> s, reset |-> FALSE, aligned |-> s \in Unaligned]]
     /\ aligned_buffer_in_use' = (s \in Unaligned)
     /\ entry' = [entry EXCEPT ![s] = e]
     /\ srb_list' = IF Unsent(s, e.offset) THEN srb_list ELSE Tail(srb_list)
     /\ pvt' = pvt \cup {id}
     /\ UNCHANGED <<conn, workitem, held, cac, sent, rsp, rsp_event, dpc, pc, back, todo,
                    accepted, errors, resets, failures>>

\* commands and functions answered from the driver's own state; a command may
\* end in an error, REQUEST_SENSE takes the sense data away (XenVbd_MakeSense)
AnswerAtOnce ==
  LET s == Head(srb_list)
  IN /\ pc = "process"
     /\ CanProcess /\ CanStart(s) /\ Kind[s] \in {"sense", "other", "flush"}
     /\ srb_list' = Tail(srb_list)
     /\ held' = held \ {s}
     /\ \/ Kind[s] = "sense" /\ cac' = FALSE
        \/ Kind[s] # "sense" /\ UNCHANGED cac
        \/ Kind[s] = "other" /\ cac' = AutoSense(s)
     /\ UNCHANGED <<conn, workitem, pool, ring, entry, dpc, pc, back, todo,
                    accepted, errors, resets, failures>>

\* XenVbd_ResetBus: every SRB goes back, on the list or in flight, once; the
\* backend keeps the requests, whose shadows are only marked
ResetBus ==
  LET victims == ToSet(srb_list) \cup InShadows
  IN /\ aligned_buffer_in_use' = FALSE
     /\ srb_list' = <<>>
     /\ entry' = [s \in Srbs |-> IF s \in victims THEN Fresh ELSE entry[s]]
     /\ shadows' = [i \in Ids |-> IF shadows[i].srb = NoSrb THEN shadows[i]
                                  ELSE [srb |-> NoSrb, reset |-> TRUE, aligned |-> FALSE]]
     /\ held' = held \ victims
     /\ UNCHANGED <<conn, workitem, shadow_free, cac, ring, dpc, pc, back, todo,
                    accepted, errors, failures>>

\* SRB_FUNCTION_RESET_XXX: the SRB that asks goes back after the others
ProcessReset ==
  /\ pc = "process"
  /\ CanProcess /\ Kind[Head(srb_list)] = "reset"
  /\ ResetBus
  /\ UNCHANGED resets

-----------------------------------------------------------------------------
(* The entry points of the miniport *)

\* XenVbd_HwStorStartIo: XenVbd_PutSrbOnList and XenVbd_HandleEvent
StartIo(s) ==
  /\ pc = "free" /\ s \notin held /\ accepted < MaxSrbs
  /\ accepted' = accepted + 1
  /\ held' = held \cup {s}
  /\ entry' = [entry EXCEPT ![s] = Fresh]
  /\ srb_list' = Append(srb_list, s)
  /\ HandleEvent
  /\ UNCHANGED <<conn, workitem, pool, ring, cac, dpc, errors, resets, failures>>

\* XenVbd_HandleEventDpc, queued by XenVbd_HandleEventDIRQL
HandleEventDpc ==
  /\ pc = "free" /\ dpc
  /\ dpc' = FALSE
  /\ HandleEvent
  /\ UNCHANGED <<conn, workitem, srbs, pool, ring, cac, accepted, errors, resets, failures>>

\* XenVbd_HwStorResetBus, called with the lock held
HwStorResetBus ==
  /\ pc = "free" /\ resets < MaxResets /\ Bounded
  /\ resets' = resets + 1
  /\ ResetBus

\* the backend answers the requests it sees in any order
Answer(id, ok) ==
  /\ id \in sent
  /\ ok \/ (errors < MaxErrors /\ Bounded)
  /\ errors' = errors + IF ok THEN 0 ELSE 1
  /\ sent' = sent \ {id}
  /\ rsp' = Append(rsp, [id |-> id, ok |-> ok])
  /\ dpc' = (dpc \/ Len(rsp') = rsp_event)
  /\ UNCHANGED <<conn, workitem, srbs, pool, pvt, rsp_event, cac, pc, back, todo,
                 accepted, resets, failures>>

-----------------------------------------------------------------------------
(* XenVbd_Disconnect and XenVbd_Connect, in the thread that suspends *)

unconn == <<srbs, pool, cac, dpc, accepted, errors, resets>>
locked == <<pc, back, todo>>

\* XenVbd_StopRing: an empty ring is closed by this thread, a busy one by Finish
StopRing ==
  /\ tm = "up" /\ pc = "free" /\ suspends < MaxSuspends /\ Bounded
  /\ device_state' = "DISCONNECTING"
  /\ tm' = IF AllFree THEN "closing" ELSE "waitclosing"
  /\ suspends' = suspends + 1
  /\ UNCHANGED <<unconn, ring, locked, workitem, frontend, backend, failures>>

WriteClosing ==
  /\ tm = "closing"
  /\ frontend' = "Closing"
  /\ tm' = "waitclosing"
  /\ UNCHANGED <<unconn, ring, locked, workitem, device_state, backend, suspends, failures>>

\* XenVbd_DisconnectWorkItem
DisconnectWorkItem ==
  /\ workitem
  /\ workitem' = FALSE
  /\ frontend' = "Closing"
  /\ UNCHANGED <<unconn, ring, locked, device_state, tm, backend, suspends, failures>>

WriteClosed ==
  /\ tm = "waitclosing" /\ backend = "Closing"
  /\ frontend' = "Closed"
  /\ tm' = "waitclosed"
  /\ UNCHANGED <<unconn, ring, locked, workitem, device_state, backend, suspends, failures>>

\* the event channel is unbound and the ring freed
Disconnected ==
  /\ tm = "waitclosed" /\ backend = "Closed"
  /\ device_state' = "DISCONNECTED"
  /\ tm' = "down"
  /\ UNCHANGED <<unconn, ring, locked, workitem, frontend, backend, suspends, failures>>

\* a new ring, once the backend is there
Connect ==
  /\ LateWorkItem \/ ~workitem
  /\ tm = "down" /\ backend \in {"InitWait", "Initialised", "Connected"}
  /\ pvt' = {} /\ sent' = {} /\ rsp' = <<>> /\ rsp_event' = 1
  /\ frontend' = "Initialised"
  /\ tm' = "waitconnected"
  /\ UNCHANGED <<unconn, locked, workitem, device_state, backend, suspends, failures>>

\* the ring cannot be allocated: the device stays down until the next resume
ConnectFail ==
  /\ tm = "down" /\ failures < MaxFailures /\ Bounded
  /\ failures' = failures + 1
  /\ UNCHANGED <<unconn, conn, ring, locked, workitem>>

Connected ==
  /\ tm = "waitconnected" /\ backend = "Connected"
  /\ frontend' = "Connected"
  /\ device_state' = "ACTIVE"
  /\ tm' = "start"
  /\ UNCHANGED <<unconn, ring, locked, workitem, backend, suspends, failures>>

\* XenVbd_StartRing
StartRing ==
  /\ tm = "start" /\ pc = "free"
  /\ pc' = "process" /\ back' = "free"
  /\ tm' = "up"
  /\ UNCHANGED <<unconn, ring, todo, workitem, device_state, frontend, backend,
                 suspends, failures>>

\* the other end follows the state of the front end and starts anew after a suspend
BackendMoves ==
  /\ backend' = IF tm = "down" /\ backend = "Closed" THEN "InitWait"
                ELSE CASE frontend = "Closing"               -> "Closing"
                       [] frontend = "Closed" /\ tm # "down" -> "Closed"
                       [] frontend = "Initialised"           -> "Connected"
                       [] OTHER                              -> backend
  /\ backend' # backend
  /\ UNCHANGED <<unconn, ring, locked, workitem, device_state, tm, frontend,
                 suspends, failures>>

Locked ==
  \/ DiscardReset \/ Respond \/ RespondEnd \/ Consume \/ Arm \/ Recheck \/ Finish
  \/ ProcessStop \/ PutSrbOnRing \/ AnswerAtOnce \/ ProcessReset

Thread ==
  \/ WriteClosing \/ WriteClosed \/ Disconnected \/ Connect \/ Connected \/ StartRing

Next ==
  \/ Locked \/ ProcessFail
  \/ \E s \in Srbs : StartIo(s)
  \/ HandleEventDpc \/ HwStorResetBus
  \/ \E id \in Ids, ok \in BOOLEAN : Answer(id, ok)
  \/ StopRing \/ Thread \/ ConnectFail \/ DisconnectWorkItem \/ BackendMoves

\* whoever holds the lock goes on, DPCs run, the backend answers
Fairness ==
  /\ WF_vars(Locked)
  /\ WF_vars(HandleEventDpc)
  /\ \A id \in Ids : WF_vars(Answer(id, TRUE))

Spec == Init /\ [][Next]_vars /\ Fairness

-----------------------------------------------------------------------------

TypeOK ==
  /\ device_state \in DeviceStates
  /\ srb_list \in Seq(Srbs) /\ held \subseteq Srbs
  /\ entry \in [Srbs -> [offset : Nat, outstanding : Nat, error : BOOLEAN]]
  /\ \A s \in Srbs : entry[s].offset <= Blocks[s]
  /\ shadows \in [Ids -> [srb : Srbs \cup {NoSrb}, reset : BOOLEAN, aligned : BOOLEAN]]
  /\ shadow_free \subseteq Ids
  /\ aligned_buffer_in_use \in BOOLEAN /\ cac \in BOOLEAN
  /\ pvt \subseteq Ids /\ sent \subseteq Ids
  /\ rsp \in Seq([id : Ids, ok : BOOLEAN])
  /\ rsp_event \in 0 .. SHADOW_ENTRIES /\ todo \in 0 .. Len(rsp)
  /\ dpc \in BOOLEAN /\ workitem \in BOOLEAN
  /\ pc \in {"free", "respond", "process", "consume", "arm", "recheck", "finish"}
  /\ back \in {"free", "consume"}
  /\ tm \in {"up", "closing", "waitclosing", "waitclosed", "down", "waitconnected", "start"}
  /\ frontend \in XenbusStates /\ backend \in XenbusStates
  /\ {accepted, errors, resets, failures, suspends} \subseteq Nat

\* A shadow is either free and clean (the assertions of XenVbd_PutSrbOnRing) or
\* belongs to exactly one request of the ring, to be private, with the backend
\* or answered; a request that was not reset has its SRB (the assertion of
\* XenVbd_HandleEvent), and the aligned buffer is in use for one of them exactly
\* when the device says so, over every split, error, failure, reset and suspend.
ShadowsMatchRing ==
  LET aligned == {i \in Ids : shadows[i].aligned}
  IN /\ \A i \in shadow_free : shadows[i] = CleanShadow
     /\ Cardinality(pvt) + Cardinality(sent) + Len(rsp) + Cardinality(shadow_free) = SHADOW_ENTRIES
     /\ pvt \cup sent \cup Answers \cup shadow_free = Ids
     /\ \A i \in pvt \cup sent \cup Answers : shadows[i].reset <=> shadows[i].srb = NoSrb
     /\ Cardinality(aligned) = IF aligned_buffer_in_use THEN 1 ELSE 0

\* No SRB is lost or given back twice: one the port driver has handed down is on
\* the list, once, as long as some of it was not sent, and otherwise in flight;
\* its requests in flight are as many as outstanding_requests says, and what was
\* given back is in neither place (XenVbd_PutSrbOnRing, HandleEvent, ResetBus).
SrbAccounting ==
  /\ IsInjective(srb_list)
  /\ held = ToSet(srb_list) \cup InShadows
  /\ \A s \in held :
       /\ entry[s].outstanding = Cardinality({i \in Ids : shadows[i].srb = s})
       /\ Kind[s] \in ReadWrite =>
            (s \in ToSet(srb_list) <=> entry[s].offset < Blocks[s])

\* Nothing begins on sectors of a write that began before and is not complete,
\* although only the shadows are looked at for pending writes (XenVbd_PutSrbOnRing): a
\* write is split, and when all its parts that were sent are answered, in any order, no
\* shadow has it.
NothingPassesAWrite ==
  [][\A s, t \in Srbs :
       Kind[s] = "write" /\ entry[s].offset > 0 /\ entry[t].offset = 0 /\ entry'[t].offset > 0
         => ~Overlap(s, t)]_vars

\* XenVbd_Disconnect frees the ring only when no request is on it: Closing is
\* written by XenVbd_StopRing or by the work item after the last answer, and the
\* backend's Closing is waited for.  (With LateWorkItem it does not hold: the work
\* item of an earlier disconnect can write Closing at any time.)
RingFreedEmpty ==
  tm \in {"waitclosed", "down", "waitconnected"} =>
    AllFree /\ pvt \cup sent \cup Answers = {}

\* Shadows, SRBs and the ring agree at all times, and the ring is empty when it is freed.
RingSound == TypeOK /\ ShadowsMatchRing /\ SrbAccounting /\ RingFreedEmpty

\* Every SRB is given back: an event is raised for what waits on the list, with
\* rsp_event up to half the ring ahead, whatever the order of answers and resets.
\* (A grant that fails, a suspend and sense data not asked for stop the queue.)
SrbCompletes ==
  \A s \in Srbs : s \in held ~> s \notin held \/ suspends > 0 \/ failures > 0 \/ cac

=============================================================================
