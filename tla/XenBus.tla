------------------------------- MODULE XenBus -------------------------------
(***************************************************************************)
(* The xenstore client (xenpci/xenbus.c).  Threads send one request at a   *)
(* time under xb_request_mutex and wait for the reply; XenBus_Dpc puts     *)
(* messages together from the response ring and gives replies to the       *)
(* waiting thread and watch events to work items, which call the watch's   *)
(* handler under xb_watch_mutex.  XenBus_Suspend, _Resume and _Halt        *)
(* disconnect from the ring and connect again.                             *)
(*                                                                         *)
(* The ring carries chunks: HEADER of them make a message header, one more *)
(* the body.  xenstored (external) serves requests in order, fires         *)
(* watches, and writes a chunk whenever there is room.                     *)
(***************************************************************************)
EXTENDS Naturals, Sequences, FiniteSets

CONSTANTS
  Threads,             \* drivers calling XenBus_Read, AddWatch, RemWatch, ...
  Worker,              \* the thread running a watch work item
  Pm,                  \* the thread running XenBus_Suspend, _Resume, _Halt
  MAX_WATCH_ENTRIES,
  RING,                \* XENSTORE_RING_SIZE, in chunks
  MaxEvents, MaxFailures, MaxSuspends,   \* bounds: watch events; work items that cannot be
                       \* created and watches xenstored refuses; suspends
  NoOne, NULL

HEADER == 2
Slots   == 0 .. MAX_WATCH_ENTRIES - 1
Clients == Threads \cup {Worker, Pm}

ASSUME XenBusAssumption ==
  /\ MAX_WATCH_ENTRIES \in Nat \ {0} /\ RING \in Nat \ {0}
  /\ MaxEvents \in Nat /\ MaxFailures \in Nat /\ MaxSuspends \in Nat
  /\ Worker \notin Threads /\ Pm \notin Threads /\ Worker # Pm
  /\ NoOne \notin Clients

VARIABLES
  pc,                        \* per client, what it does next
  arg,                       \* per client, the request it makes
  xb_request_mutex,          \* holder or NoOne
  xb_request_complete_event, xb_reply,
  Active, ServiceRoutine, Path,   \* XenBus_WatchEntries: the routine and the path are named
                             \* by their owner; NoOne for an empty path
  callee,                    \* whose handler a work item is calling (holds xb_watch_mutex)
  workitems,
  connected,                 \* ring mapped, event channel bound
  evt, dpc,                  \* the ring's event is pending; XenBus_Dpc is in its loop
  xb_msg, xb_msg_offset,
  req, rsp,                  \* the rings
  registered, out, awake,    \* xenstored: its watches, messages to write, not asleep
  fired, failures, suspends, halted,
  removed                    \* threads whose watch RemWatch took out (history)

clients == <<pc, arg>>
request == <<xb_request_mutex, xb_request_complete_event, xb_reply>>
watches == <<Active, ServiceRoutine, Path>>
work    == <<callee, workitems>>
inbox   == <<evt, dpc, xb_msg, xb_msg_offset>>
store   == <<registered, out, awake>>
bounds  == <<fired, failures, suspends>>
link    == <<connected, halted>>
vars    == <<clients, request, watches, work, inbox, req, rsp, store, bounds, link, removed>>

Types    == {"READ", "WATCH", "UNWATCH"}
Requests == [type : Types, slot : Slots, by : Clients]
Sent     == [ask : Requests, path : Clients \cup {NoOne}]
Replies  == [type : {"REPLY", "ERROR"}, slot : Slots, to : Clients]
Events   == [type : {"EVENT"}, slot : Slots, n : 1 .. MaxEvents]
Messages == Replies \cup Events

\* NULL is no message and no request.
ASSUME NullAssumption == NULL \notin Messages \cup Requests

TypeOK ==
  /\ pc \in [Clients -> {"idle", "request", "wait", "unwatch", "disconnect", "asleep", "watch",
                        "fault"}]
  /\ arg \in [Clients -> Requests \cup {NULL}]
  /\ xb_request_mutex \in Clients \cup {NoOne}
  /\ xb_request_complete_event \in BOOLEAN
  /\ xb_reply \in Replies \cup {NULL} /\ xb_msg \in Messages \cup {NULL}
  /\ Active \in [Slots -> BOOLEAN]
  /\ {ServiceRoutine, Path} \subseteq [Slots -> Threads \cup {NoOne}]
  /\ callee \in Threads \cup {NoOne} /\ workitems \subseteq Events
  /\ connected \in BOOLEAN /\ evt \in BOOLEAN /\ dpc \in BOOLEAN
  /\ xb_msg_offset \in 0 .. HEADER + 1
  /\ req \in Seq(Sent) /\ rsp \in Seq(Messages \X (1 .. HEADER + 1)) /\ Len(rsp) <= RING
  /\ registered \subseteq Threads \X Slots
  /\ out \in Seq(Messages \X (1 .. HEADER + 1)) /\ awake \in BOOLEAN
  /\ fired \in 0 .. MaxEvents /\ failures \in 0 .. MaxFailures /\ suspends \in 0 .. MaxSuspends
  /\ halted \in BOOLEAN /\ removed \subseteq Threads

\* XenBus_Init
Init ==
  /\ pc = [c \in Clients |-> "idle"] /\ arg = [c \in Clients |-> NULL]
  /\ xb_request_mutex = NoOne /\ xb_request_complete_event = FALSE /\ xb_reply = NULL
  /\ Active = [i \in Slots |-> FALSE] /\ ServiceRoutine = [i \in Slots |-> NoOne]
  /\ Path = [i \in Slots |-> NoOne]
  /\ callee = NoOne /\ workitems = {}
  /\ connected = TRUE /\ halted = FALSE /\ removed = {}
  /\ evt = FALSE /\ dpc = FALSE /\ xb_msg = NULL /\ xb_msg_offset = 0
  /\ req = <<>> /\ rsp = <<>>
  /\ registered = {} /\ out = <<>> /\ awake = FALSE
  /\ fired = 0 /\ failures = 0 /\ suspends = 0
-----------------------------------------------------------------------------
(* Requests *)

\* The caller's next step is the request.
Ask(c, type, i) ==
  /\ pc' = [pc EXCEPT ![c] = "request"]
  /\ arg' = [arg EXCEPT ![c] = [type |-> type, slot |-> i, by |-> c]]

\* xenbus_format_msg_reply: xb_write and EvtChn_Notify under the mutex, whatever the
\* ring is.  XenBus_Suspend and _Resume pass the path of the entry itself, which is read
\* here, when the mutex is had.
Submit(c) ==
  /\ pc[c] = "request" /\ xb_request_mutex = NoOne /\ connected
  /\ pc' = [pc EXCEPT ![c] = "wait"]
  /\ xb_request_mutex' = c
  /\ req' = Append(req, [ask |-> arg[c], path |-> IF c = Pm THEN Path[arg[c].slot] ELSE c])
  /\ awake' = TRUE
  /\ UNCHANGED <<arg, xb_request_complete_event, xb_reply, watches, work, inbox, rsp,
                 registered, out, bounds, link, removed>>

\* xb_write to the ring after MmUnmapIoSpace: a bugcheck.
Fault(c) ==
  /\ pc[c] = "request" /\ xb_request_mutex = NoOne /\ ~connected
  /\ pc' = [pc EXCEPT ![c] = "fault"]
  /\ UNCHANGED <<arg, request, watches, work, inbox, req, rsp, store, bounds, link, removed>>

\* Mutant: xb_reply is not reset.
TakeReplyKeep(c) ==
  /\ xb_request_mutex' = NoOne
  /\ xb_request_complete_event' = FALSE /\ UNCHANGED xb_reply

\* The wait ends; reply = xb_reply; xb_reply = NULL; the mutex is released.
TakeReply(c) ==
  /\ xb_request_mutex' = NoOne
  /\ xb_request_complete_event' = FALSE /\ xb_reply' = NULL

\* What each caller does with its reply.  XenBus_AddWatch clears Active when
\* xenstored refuses the watch, without xb_watch_mutex; Suspend and Resume go on
\* with the next slot and ignore errors.
Reply(c) ==
  /\ pc[c] = "wait" /\ xb_request_complete_event
  /\ TakeReply(c)
  /\ Active' = IF c \in Threads /\ arg[c].type = "WATCH" /\ xb_reply.type = "ERROR"
               THEN [Active EXCEPT ![arg[c].slot] = FALSE] ELSE Active
  /\ IF c # Pm
       THEN /\ pc' = [pc EXCEPT ![c] = "idle"] /\ arg' = [arg EXCEPT ![c] = NULL]
            /\ callee' = IF c = Worker THEN NoOne ELSE callee
       ELSE /\ pc' = [pc EXCEPT ![c] = IF arg[c].type = "WATCH" THEN "watch" ELSE "unwatch"]
            /\ UNCHANGED <<arg, callee>>
  /\ UNCHANGED <<ServiceRoutine, Path, workitems, inbox, req, rsp, store, bounds, link,
                 removed>>

Read(t) ==
  /\ pc[t] = "idle" /\ ~halted
  /\ Ask(t, "READ", 0)
  /\ UNCHANGED <<request, watches, work, inbox, req, rsp, store, bounds, link, removed>>

\* XenBus_AddWatch: the first inactive slot.  With none left it returns NULL, which
\* callers take for success, and changes nothing.
AddWatch(t) ==
  /\ pc[t] = "idle" /\ ~halted /\ callee = NoOne
  /\ \A i \in Slots : ~(Active[i] /\ ServiceRoutine[i] = t)
  /\ \E i \in Slots :
       /\ ~Active[i] /\ \A j \in 0 .. i - 1 : Active[j]
       /\ Active' = [Active EXCEPT ![i] = TRUE]
       /\ ServiceRoutine' = [ServiceRoutine EXCEPT ![i] = t]
       /\ Path' = [Path EXCEPT ![i] = t]
       /\ Ask(t, "WATCH", i)
  /\ removed' = removed \ {t}
  /\ UNCHANGED <<request, work, inbox, req, rsp, store, bounds, link>>

\* XenBus_RemWatch: the entry's path becomes empty.
RemWatch(t) ==
  /\ pc[t] = "idle" /\ ~halted /\ callee = NoOne
  /\ \E i \in Slots :
       /\ Active[i] /\ Path[i] = t /\ ServiceRoutine[i] = t
       /\ Active' = [Active EXCEPT ![i] = FALSE]
       /\ Path' = [Path EXCEPT ![i] = NoOne]
       /\ Ask(t, "UNWATCH", i)
  /\ removed' = removed \cup {t}
  /\ UNCHANGED <<request, ServiceRoutine, work, inbox, req, rsp, store, bounds, link>>
-----------------------------------------------------------------------------
(* XenBus_Dpc, one action per turn of its loop, under xb_ring_spinlock *)

DpcStart ==
  /\ evt /\ ~dpc /\ evt' = FALSE /\ dpc' = TRUE
  /\ UNCHANGED <<clients, request, watches, work, xb_msg, xb_msg_offset, req, rsp, store,
                 bounds, link, removed>>

\* A whole header is in the ring, or one has been read already.
HeaderReady == rsp # <<>> /\ (xb_msg = NULL => Len(rsp) >= HEADER)

\* The ring is empty, or holds part of a header only.
DpcDone ==
  /\ dpc /\ ~HeaderReady /\ dpc' = FALSE
  /\ UNCHANGED <<clients, request, watches, work, evt, xb_msg, xb_msg_offset, req, rsp,
                 store, bounds, link, removed>>

\* Start a message, or go on with the one at hand: what this turn has read so far.
Msg    == IF xb_msg = NULL THEN rsp[1][1] ELSE xb_msg
Offset == IF xb_msg = NULL THEN HEADER ELSE xb_msg_offset
Rest   == IF xb_msg = NULL THEN SubSeq(rsp, HEADER + 1, Len(rsp)) ELSE rsp

\* Mutant: the daemon is not told that there is room.
NotifyNot == UNCHANGED awake

\* EvtChn_Notify: there is room on the ring now
Notify == awake' = TRUE

\* xb_msg->type != XS_WATCH_EVENT
IsReply(m) == m.type # "EVENT"

\* Header but not the body.
DpcPartial ==
  /\ dpc /\ HeaderReady /\ Offset = HEADER /\ Rest = <<>>
  /\ dpc' = FALSE /\ Notify
  /\ xb_msg' = Msg /\ xb_msg_offset' = HEADER /\ rsp' = <<>>
  /\ UNCHANGED <<clients, request, watches, work, evt, req, registered, out, bounds, link, removed>>

\* The rest of the message: the next chunk, or nothing if only the work item failed.
Body == IF Offset = HEADER THEN Tail(Rest) ELSE Rest

DpcReply ==
  /\ dpc /\ HeaderReady /\ (Offset = HEADER => Rest # <<>>) /\ IsReply(Msg)
  /\ rsp' = Body /\ Notify
  /\ xb_reply' = Msg /\ xb_request_complete_event' = TRUE
  /\ xb_msg' = NULL /\ xb_msg_offset' = 0
  /\ UNCHANGED <<clients, xb_request_mutex, watches, work, evt, dpc, req, registered, out,
                 bounds, link, removed>>

DpcWatch ==
  /\ dpc /\ HeaderReady /\ (Offset = HEADER => Rest # <<>>) /\ ~IsReply(Msg)
  /\ rsp' = Body /\ Notify
  /\ workitems' = workitems \cup {Msg}
  /\ xb_msg' = NULL /\ xb_msg_offset' = 0
  /\ UNCHANGED <<clients, request, watches, callee, evt, dpc, req, registered, out, bounds,
                 link, removed>>

\* WdfWorkItemCreate failed: continue, without EvtChn_Notify and with xb_msg set, so
\* that the next turn (if more data comes) tries again.
DpcWatchFails ==
  /\ dpc /\ HeaderReady /\ (Offset = HEADER => Rest # <<>>) /\ ~IsReply(Msg)
  /\ failures < MaxFailures /\ failures' = failures + 1
  /\ rsp' = Body
  /\ xb_msg' = Msg /\ xb_msg_offset' = HEADER + 1
  /\ UNCHANGED <<clients, request, watches, work, evt, dpc, req, store, fired, suspends, link, removed>>

Dpc == DpcStart \/ DpcDone \/ DpcPartial \/ DpcReply \/ DpcWatch \/ DpcWatchFails
-----------------------------------------------------------------------------
(* XenBus_WatchWorkItemProc *)

\* Mutant: the handler is called for an entry that is not active any more.
CallInactive(m) ==
  /\ callee' = ServiceRoutine[m.slot]

\* entry->Active && entry->ServiceRoutine
Call(m) ==
  /\ Active[m.slot] /\ callee' = ServiceRoutine[m.slot]

WorkItem(m) ==
  /\ m \in workitems /\ callee = NoOne
  /\ workitems' = workitems \ {m}
  /\ Call(m)
  /\ UNCHANGED <<clients, request, watches, inbox, req, rsp, store, bounds, link, removed>>

WorkItemStale(m) ==
  /\ m \in workitems /\ callee = NoOne /\ ~Active[m.slot]
  /\ workitems' = workitems \ {m}
  /\ UNCHANGED <<clients, request, watches, callee, inbox, req, rsp, store, bounds, link, removed>>

\* Inside the handler, with xb_watch_mutex held: read a key and return, or just return.
HandlerRead ==
  /\ callee # NoOne /\ pc[Worker] = "idle"
  /\ Ask(Worker, "READ", 0)
  /\ UNCHANGED <<request, watches, work, inbox, req, rsp, store, bounds, link, removed>>

HandlerReturn ==
  /\ callee # NoOne /\ pc[Worker] = "idle" /\ callee' = NoOne
  /\ UNCHANGED <<clients, request, watches, workitems, inbox, req, rsp, store, bounds, link, removed>>
-----------------------------------------------------------------------------
(* XenBus_Suspend, XenBus_Resume, XenBus_Halt *)

\* Slots whose turn in the loop is still to come.
Ahead == IF arg[Pm] = NULL THEN Slots ELSE {i \in Slots : i > arg[Pm].slot}

\* The loop goes to the next active slot, or there is none.
ForNext(type, done) ==
  \/ \E i \in Ahead : Active[i] /\ (\A j \in Ahead : Active[j] => j >= i) /\ Ask(Pm, type, i)
  \/ /\ \A i \in Ahead : ~Active[i]
     /\ pc' = [pc EXCEPT ![Pm] = done] /\ arg' = [arg EXCEPT ![Pm] = NULL]

Suspend ==
  /\ pc[Pm] = "idle" /\ ~halted /\ suspends < MaxSuspends
  /\ pc' = [pc EXCEPT ![Pm] = "unwatch"]
  /\ suspends' = suspends + 1
  /\ halted' \in BOOLEAN        \* XenBus_Halt instead
  /\ UNCHANGED <<arg, request, watches, work, inbox, req, rsp, store, fired, failures,
                 connected, removed>>

\* SendRemWatch for an active slot; Halt, unlike Suspend, first clears Active.
SuspendWatches ==
  /\ pc[Pm] = "unwatch"
  /\ ForNext("UNWATCH", "disconnect")
  /\ Active' = IF halted /\ pc'[Pm] = "request"
               THEN [Active EXCEPT ![arg'[Pm].slot] = FALSE] ELSE Active
  /\ UNCHANGED <<request, ServiceRoutine, Path, work, inbox, req, rsp, store, bounds, link, removed>>

\* EvtChn_Unbind waits for the DPC; nothing drains the work items.
Disconnect ==
  /\ pc[Pm] = "disconnect" /\ ~dpc
  /\ pc' = [pc EXCEPT ![Pm] = IF halted THEN "idle" ELSE "asleep"]
  /\ connected' = FALSE /\ evt' = FALSE
  /\ UNCHANGED <<arg, request, watches, work, dpc, xb_msg, xb_msg_offset, req, rsp, store,
                 bounds, halted, removed>>

\* XenBus_Connect, in the same domain (a cancelled suspend, or sleep).  The event
\* raised while the channel was unbound is not raised again.
Connect ==
  /\ pc[Pm] = "asleep"
  /\ pc' = [pc EXCEPT ![Pm] = "watch"]
  /\ connected' = TRUE
  /\ UNCHANGED <<arg, request, watches, work, inbox, req, rsp, store, bounds, halted, removed>>

ResumeWatches ==
  /\ pc[Pm] = "watch"
  /\ ForNext("WATCH", "idle")
  /\ UNCHANGED <<request, watches, work, inbox, req, rsp, store, bounds, link, removed>>

Power == Suspend \/ SuspendWatches \/ Disconnect \/ Connect \/ ResumeWatches
-----------------------------------------------------------------------------
(* xenstored *)

Chunks(m) == [k \in 1 .. HEADER + 1 |-> <<m, k>>]

Serve ==
  /\ awake /\ req # <<>> /\ req' = Tail(req)
  /\ LET r == Head(req).ask
         w == <<Head(req).path, r.slot>>
         answer(type) == out' = out \o Chunks([type |-> type, slot |-> r.slot, to |-> r.by])
     IN  \/ r.type = "READ" /\ answer("REPLY") /\ UNCHANGED <<registered, failures>>
         \/ r.type = "WATCH" /\ w[1] # NoOne /\ w \notin registered
            /\ registered' = registered \cup {w} /\ answer("REPLY") /\ UNCHANGED failures
         \/ r.type = "WATCH" /\ (w[1] = NoOne \/ w \in registered) /\ answer("ERROR")
            /\ UNCHANGED <<registered, failures>>
         \/ r.type = "WATCH" /\ failures < MaxFailures /\ failures' = failures + 1
            /\ answer("ERROR") /\ UNCHANGED registered
         \/ r.type = "UNWATCH" /\ registered' = registered \ {w} /\ UNCHANGED failures
            /\ answer(IF w \in registered THEN "REPLY" ELSE "ERROR")
  /\ UNCHANGED <<clients, request, watches, work, inbox, rsp, awake, fired, suspends, link,
                 removed>>

FireWatch ==
  /\ fired < MaxEvents /\ fired' = fired + 1
  /\ \E w \in registered :
       out' = out \o Chunks([type |-> "EVENT", slot |-> w[2], n |-> fired'])
  /\ awake' = TRUE
  /\ UNCHANGED <<clients, request, watches, work, inbox, req, rsp, registered, failures,
                 suspends, link, removed>>

WriteChunk ==
  /\ awake /\ out # <<>> /\ Len(rsp) < RING
  /\ rsp' = Append(rsp, Head(out)) /\ out' = Tail(out)
  /\ evt' = connected
  /\ UNCHANGED <<clients, request, watches, work, dpc, xb_msg, xb_msg_offset, req, registered,
                 awake, bounds, link, removed>>

\* Nothing to do, or no room: wait for the event.
Sleep ==
  /\ awake /\ req = <<>> /\ (out = <<>> \/ Len(rsp) = RING) /\ awake' = FALSE
  /\ UNCHANGED <<clients, request, watches, work, inbox, req, rsp, registered, out, bounds,
                 link, removed>>

Xenstored == Serve \/ WriteChunk \/ Sleep
-----------------------------------------------------------------------------
Requesting(c) == Submit(c) \/ Fault(c) \/ Reply(c)

Working == HandlerRead \/ HandlerReturn
           \/ \E m \in workitems : WorkItem(m) \/ WorkItemStale(m)

Next == \/ \E c \in Clients : Requesting(c)
        \/ \E t \in Threads : Read(t) \/ AddWatch(t) \/ RemWatch(t)
        \/ Dpc \/ Working \/ Power \/ Xenstored \/ FireWatch

Spec == Init /\ [][Next]_vars

\* Waiting clients, the DPC, the work items and xenstored keep going.  A mutex goes
\* to each of its waiters eventually (strong fairness).  No driver has to ask for
\* anything and no watch has to fire.
FairSpec ==
  /\ Spec
  /\ \A c \in Clients : SF_vars(Requesting(c))
  /\ WF_vars(Dpc) /\ SF_vars(Working) /\ WF_vars(Power)
  /\ WF_vars(Xenstored)
-----------------------------------------------------------------------------
(* Properties *)

\* "process reply - only ever one outstanding": xb_reply is only set while a thread
\* holds the mutex and waits, it is the reply to that thread's request, and there is
\* no other on its way (XN_ASSERT(xpdd->xb_reply == NULL)).
ReplyToHolder ==
  /\ xb_request_complete_event <=> xb_reply # NULL
  /\ xb_reply # NULL => /\ pc[xb_request_mutex] = "wait"
                        /\ xb_reply.to = xb_request_mutex
                        /\ xb_reply.slot = arg[xb_request_mutex].slot
                        /\ xb_msg # NULL => ~IsReply(xb_msg)
                        /\ \A k \in 1 .. Len(rsp) : ~IsReply(rsp[k][1])

\* Chunks are put together in order: a message starts at a header and ends with its
\* own body, however the ring filled up between two DPCs.
MessageIntact ==
  /\ xb_msg # NULL /\ xb_msg_offset = HEADER /\ rsp # <<>> => rsp[1] = <<xb_msg, HEADER + 1>>
  /\ xb_msg = NULL \/ xb_msg_offset > HEADER => (rsp # <<>> => rsp[1][2] = 1)

\* When XenBus_RemWatch has taken a watch out, its handler is not running and will
\* not be called, late events and reused slots included: the driver may free what
\* the handler uses.
NoCallAfterRemove == callee \notin removed

\* With nothing under way, what the client takes for a set watch xenstored has too.
Settled(i) == \A c \in Clients : arg[c] # NULL => arg[c].type = "READ" \/ arg[c].slot # i
WatchSet ==
  \A i \in Slots : Active[i] /\ Settled(i) /\ pc[Pm] = "idle" /\ (suspends = 0 \/ failures = 0) =>
                     <<ServiceRoutine[i], i>> \in registered

\* A reply and an event reach whom they are for, whole.
MessagesSound == TypeOK /\ ReplyToHolder /\ MessageIntact

\* A watch is either set on both sides or on neither, and is not called in the second
\* case, whichever of AddWatch, RemWatch, work items and resume comes in between.
WatchesSound == NoCallAfterRemove /\ WatchSet

\* The request of a thread is answered, unless a suspend or a failed allocation got in
\* between.
Answered(c) ==
  pc[c] = "request" ~> (pc[c] \notin {"request", "wait"} \/ suspends > 0 \/ failures > 0)

\* Every watch event xenstored fires gets to a work item and is called or found stale.
EventDelivered ==
  (fired > 0) ~> \/ (\A k \in 1 .. Len(out) : out[k][1].type # "EVENT") /\ workitems = {}
                 \/ suspends > 0 \/ failures > 0

=============================================================================
