--------------------------- MODULE VbdFilterEvent ---------------------------
(***************************************************************************)
(* How the block filter driver hands event-channel notifications to the    *)
(* SCSI miniport below it (xenvbd_filter/xenvbd_filter.c).  The interrupt  *)
(* queues a DPC; the DPC sends an XENVBD_CONTROL_EVENT request down, or,   *)
(* when one is outstanding, notes that another is needed; the completion   *)
(* routine sends that one.  event_state, only touched with                 *)
(* InterlockedCompareExchange, coordinates them:                           *)
(*   0 no request outstanding, 1 one outstanding, 2 one more needed.       *)
(***************************************************************************)
EXTENDS Naturals, FiniteSets

CONSTANTS
  Dpcs,         \* concurrent instances of the DPC (a KDPC leaves its queue before it runs)
  Requests,
  MaxFailures   \* bound: how often WdfRequestCreate or WdfRequestSend fails

VARIABLES
  event_state,
  dpcqueued,    \* xvfd->dpc is in a DPC queue
  dpc,          \* per instance: next step of XenVbd_EvtDpcEvent
  req,          \* per request: free, sent to the miniport, or next step of its completion
  unseen,       \* notified since an EVENT request last reached the miniport (history)
  failures

vars == <<event_state, dpcqueued, dpc, req, unseen, failures>>

DpcLabels == {"idle", "cas01", "cas12", "send"}
ReqLabels == {"free", "sent", "cas10", "cas21", "send"}

TypeOK ==
  /\ event_state \in 0 .. 2
  /\ dpcqueued \in BOOLEAN /\ unseen \in BOOLEAN
  /\ dpc \in [Dpcs -> DpcLabels]
  /\ req \in [Requests -> ReqLabels]
  /\ failures \in Nat

Init ==
  /\ event_state = 0
  /\ dpcqueued = FALSE /\ unseen = FALSE
  /\ dpc = [d \in Dpcs |-> "idle"]
  /\ req = [q \in Requests |-> "free"]
  /\ failures = 0

DpcStep(d, from, to) == dpc[d] = from /\ dpc' = [dpc EXCEPT ![d] = to]

\* InterlockedCompareExchange(&xvfd->event_state, new, old) == old
Cas(old, new) == event_state = old /\ event_state' = new
-----------------------------------------------------------------------------
\* XenVbd_HandleEventDIRQL: WdfDpcEnqueue does nothing if the DPC is queued.
HandleEventDIRQL ==
  /\ dpcqueued' = TRUE /\ unseen' = TRUE
  /\ UNCHANGED <<event_state, dpc, req, failures>>

DpcStart(d) ==
  /\ dpcqueued /\ dpcqueued' = FALSE
  /\ DpcStep(d, "idle", "cas01")
  /\ UNCHANGED <<event_state, req, unseen, failures>>

\* XenVbd_EvtDpcEvent: was no event outstanding, now there is
Cas01(d) ==
  /\ \/ Cas(0, 1) /\ DpcStep(d, "cas01", "send")
     \/ event_state # 0 /\ DpcStep(d, "cas01", "cas12") /\ UNCHANGED event_state
  /\ UNCHANGED <<dpcqueued, req, unseen, failures>>

\* Mutant: gives up when the outstanding request has completed meanwhile.
Cas12NoRetry(d) ==
  /\ DpcStep(d, "cas12", "idle")
  /\ event_state' = IF event_state = 1 THEN 2 ELSE event_state
  /\ UNCHANGED <<dpcqueued, req, unseen, failures>>

\* event was outstanding: set the need-new-event flag, or it was set already; or
\* event_state is back to 0, go around again
Cas12(d) ==
  /\ \/ Cas(1, 2) /\ DpcStep(d, "cas12", "idle")
     \/ event_state = 2 /\ DpcStep(d, "cas12", "idle") /\ UNCHANGED event_state
     \/ event_state = 0 /\ DpcStep(d, "cas12", "cas01") /\ UNCHANGED event_state
  /\ UNCHANGED <<dpcqueued, req, unseen, failures>>

EvtDpcEvent(d) == DpcStart(d) \/ Cas01(d) \/ Cas12(d)
-----------------------------------------------------------------------------
\* XenVbd_SendEvent, with the requests as the caller leaves them: a request goes
\* down, or creating or sending it fails and nothing else happens.
SendEvent(rq) ==
  \/ \E q \in Requests : rq[q] = "free" /\ req' = [rq EXCEPT ![q] = "sent"]
                         /\ UNCHANGED failures
  \/ failures < MaxFailures /\ failures' = failures + 1 /\ req' = rq

DpcSend(d) ==
  /\ DpcStep(d, "send", "idle")
  /\ SendEvent(req)
  /\ UNCHANGED <<event_state, dpcqueued, unseen>>

\* The miniport completes the request and looks at the ring before it returns.
Handle(q) ==
  /\ req[q] = "sent" /\ req' = [req EXCEPT ![q] = "cas10"]
  /\ unseen' = FALSE
  /\ UNCHANGED <<event_state, dpcqueued, dpc, failures>>

\* XenVbd_SendEventComplete: no pending event, and we cleared outstanding flag
Cas10(q) ==
  /\ \/ Cas(1, 0) /\ req[q] = "cas10" /\ req' = [req EXCEPT ![q] = "free"]
     \/ event_state # 1 /\ req[q] = "cas10" /\ req' = [req EXCEPT ![q] = "cas21"]
        /\ UNCHANGED event_state
  /\ UNCHANGED <<dpcqueued, dpc, unseen, failures>>

\* there was a pending event, and we set the flag back to outstanding
Cas21(q) ==
  /\ \/ Cas(2, 1) /\ req[q] = "cas21" /\ req' = [req EXCEPT ![q] = "send"]
     \/ event_state # 2 /\ req[q] = "cas21" /\ req' = [req EXCEPT ![q] = "cas10"]
        /\ UNCHANGED event_state
  /\ UNCHANGED <<dpcqueued, dpc, unseen, failures>>

\* The completed request is deleted by now.
CompleteSend(q) ==
  /\ req[q] = "send"
  /\ SendEvent([req EXCEPT ![q] = "free"])
  /\ UNCHANGED <<event_state, dpcqueued, dpc, unseen>>

SendEventComplete(q) == Cas10(q) \/ Cas21(q) \/ CompleteSend(q)

Next == \/ HandleEventDIRQL
        \/ \E d \in Dpcs : EvtDpcEvent(d) \/ DpcSend(d)
        \/ \E q \in Requests : Handle(q) \/ SendEventComplete(q)

Spec == Init /\ [][Next]_vars

\* A queued DPC runs and a started routine keeps running; the miniport gets to
\* every request sent to it.  Nothing has to raise an interrupt.
FairSpec ==
  /\ Spec
  /\ WF_vars(\E d \in Dpcs : DpcStart(d))
  /\ \A d \in Dpcs : WF_vars(Cas01(d)) /\ WF_vars(Cas12(d)) /\ WF_vars(DpcSend(d))
  /\ \A q \in Requests : WF_vars(Handle(q)) /\ WF_vars(SendEventComplete(q))
-----------------------------------------------------------------------------
(* Properties *)

\* Who owes the outstanding flag its clearing: a DPC about to send, or a request
\* from the moment it is sent to the end of its completion routine.
Owners == {<<"dpc", d>> : d \in {d \in Dpcs : dpc[d] = "send"}}
            \cup {<<"request", q>> : q \in {q \in Requests : req[q] # "free"}}

\* At most one EVENT request is outstanding at any time, counting the ones about
\* to be sent, and event_state is 0 exactly when there is none: the miniport
\* keeps one spare slot for it ("need 2 spare slots - 1 for EVENT and 1 for
\* STOP/START").
OneOutstanding ==
  /\ \A a, b \in Owners : a = b
  /\ failures = 0 => (event_state = 0 <=> Owners = {})

\* A notification the miniport has not seen is never forgotten: a DPC, a request
\* on its way down or the need-new-event flag stands for it.
NoLostEvent ==
  unseen /\ failures = 0 =>
    \/ dpcqueued \/ \E d \in Dpcs : dpc[d] # "idle"
    \/ event_state = 2
    \/ \E q \in Requests : req[q] \in {"sent", "send"}

\* One request at a time, and none too few.
EventsSound == OneOutstanding /\ NoLostEvent

\* Every notification gets an EVENT request down to the miniport, as long as no
\* request fails to be created or sent.
EventReachesMiniport == unseen ~> (~unseen \/ failures > 0)
=============================================================================
