---------------------------- MODULE XenbusDevice ----------------------------
(***************************************************************************)
(* The xenstore for user programs (xenpci/xenbus_device_interface.c): a    *)
(* handle of the device.  What is written is put together to messages,     *)
(* that XenBus_Raw and XenBus_AddWatch send; the replies and the events of *)
(* the handle's watches go to read_list, from which reads are filled.      *)
(*                                                                         *)
(* A message has two parts, its header and its body.  The handle's queue   *)
(* is sequential, but a read leaves it at once, for the manual queue       *)
(* io_queue: EvtIoRead then goes on next to other handlers and to          *)
(* XenPci_IoWatch, which XenBus calls from a work item.  xpdid->lock makes *)
(* an action of what is done under it.                                     *)
(*                                                                         *)
(* XS_UNWATCH is left out: it looks the watch up with a new context, which *)
(* never matches, and unlinks that context, which was never linked.        *)
(***************************************************************************)
EXTENDS Naturals, Sequences, FiniteSets

CONSTANTS
  Threads,            \* of the program, each with one request at a time
  Writer,             \* the one that writes
  Script,             \* the types of the messages that it writes, in order
  Lengths,            \* of reads, in parts
  MaxWrite,           \* parts in one write
  MAX_WATCH_ENTRIES,  \* free in XenBus's table
  MaxEvents, MaxFailures,
  Nobody

HEADER == 1
BODY == 2
Contexts == 1 .. Len(Script)     \* watch_context_t, in the order they are allocated

XenbusDeviceAssumption ==
  /\ Script \in Seq({"WATCH", "READ"})
  /\ Lengths \subseteq Nat \ {0} /\ MaxWrite \in Nat
  /\ Nobody \notin Contexts

VARIABLES
  reading,      \* a thread's read: its length, 0 when there is none
  entering,     \* the length EvtIoRead goes on with after WdfRequestForwardToIoQueue
  io_queue,     \* pended reads
  read_list,    \* parts of replies and events that no read has had yet
  result,       \* what a thread's last read got
  w,            \* EvtIoWrite: its place, src_ptr, dst_ptr, the reply, contexts so far
  buffer, len,  \* xenbus.u.buffer, xenbus.len
  written,      \* parts written
  watch_list, freed, refs,
  table,        \* contexts in XenBus's table, for which xenstored has a watch
  callee,       \* XenPci_IoWatch runs for this context, with xb_watch_mutex held
  owed,         \* events on their way, by context
  cleanup,      \* EvtFileCleanup's place
  key,          \* xenstored's value of the key that the program reads
  fired, failures,
  queued, given,    \* parts put on read_list and given to reads, since the file was opened
  overrun,          \* a write went on after the end of a message
  stranded          \* data was left on read_list although a read waits on io_queue

reads == <<reading, entering, io_queue, result>>
list == <<read_list, queued, given, stranded>>
write == <<w, buffer, len, written, overrun>>
watches == <<watch_list, freed, refs, table>>
xenstored == <<key, fired, failures>>
vars == <<reads, list, write, watches, callee, owed, cleanup, xenstored>>

NoMessage == <<>>
Places == {"idle", "copy", "handle", "raw", "add", "added", "refused", "reply"}

TypeOK ==
  /\ reading \in [Threads -> Lengths \cup {0}] /\ entering \in [Threads -> Lengths \cup {0}]
  /\ \A i \in DOMAIN io_queue : io_queue[i] \in Threads
  /\ w.pc \in Places /\ len \in 0 .. BODY /\ written \in 0 .. 2 * Len(Script)
  /\ watch_list \subseteq Contexts /\ table \subseteq Contexts /\ freed \subseteq Contexts
  /\ refs \in 0 .. Len(Script) /\ callee \in Contexts \cup {Nobody}
  /\ owed \in [Contexts -> Nat]
  /\ cleanup.pc \in {"open", "loop", "unwatch", "done"}

\* XenBus_DeviceFileInit
Init ==
  /\ reading = [t \in Threads |-> 0] /\ entering = reading /\ io_queue = <<>>
  /\ result = [t \in Threads |-> <<>>]
  /\ read_list = <<>> /\ queued = <<>> /\ given = <<>> /\ stranded = FALSE
  /\ w = [pc |-> "idle", src |-> <<>>, dst |-> 0, rep |-> NoMessage, ctx |-> 0]
  /\ buffer = <<<<0, 0>>, <<0, 0>>>> /\ len = 0 /\ written = 0 /\ overrun = FALSE
  /\ watch_list = {} /\ freed = {} /\ refs = 0 /\ table = {}
  /\ callee = Nobody /\ owed = [m \in Contexts |-> 0] /\ cleanup = [pc |-> "open", ctx |-> 0]
  /\ key = "" /\ fired = 0 /\ failures = 0

Idle(t) == reading[t] = 0 /\ entering[t] = 0 /\ (t = Writer => w.pc = "idle")
-----------------------------------------------------------------------------
(* Reads *)

Parts(m) == <<<<m, HEADER>>, <<m, BODY>>>>

Min2(a, b) == IF a < b THEN a ELSE b

\* list_entry->offset, InsertHeadList
Rest(pending, n) == SubSeq(pending, n + 1, Len(pending))

\* XenBus_ProcessReadRequest: the buffer must have the length that is asked for.  One read
\* is filled, whatever is left over.
ProcessReadRequest(t, length, pending) ==
  LET n == IF reading[t] < length THEN 0 ELSE Min2(length, Len(pending))
  IN  /\ result' = [result EXCEPT ![t] = SubSeq(pending, 1, n)]
      /\ stranded' = (Rest(pending, n) # <<>> /\ Tail(io_queue) # <<>>)
      /\ given' = given \o SubSeq(pending, 1, n)
      /\ read_list' = Rest(pending, n)
      /\ reading' = [reading EXCEPT ![t] = 0]
      /\ io_queue' = Tail(io_queue)

\* XenBus_EvtIoRead, to WdfRequestForwardToIoQueue.
EvtIoRead(t, length) ==
  /\ cleanup.pc = "open" /\ Idle(t) /\ w.pc = "idle"
  /\ reading' = [reading EXCEPT ![t] = length]
  /\ entering' = [entering EXCEPT ![t] = length]
  /\ io_queue' = Append(io_queue, t)
  /\ UNCHANGED <<result, list, write, watches, callee, owed, cleanup, xenstored>>

\* Mutant: the list is not looked at again once the request is on io_queue.
ReadPendedWait(t) ==
  UNCHANGED <<read_list, given, reading, io_queue, result, stranded>>

\* There may be data that came before the request was on io_queue.  The request taken need
\* not be t's, the length is.
ReadPended(t) ==
  \/ /\ read_list # <<>> /\ io_queue # <<>>
     /\ ProcessReadRequest(Head(io_queue), entering[t], read_list)
  \/ /\ read_list = <<>> \/ io_queue = <<>>
     /\ UNCHANGED <<read_list, given, reading, io_queue, result, stranded>>

EvtIoReadLocked(t) ==
  /\ entering[t] > 0 /\ entering' = [entering EXCEPT ![t] = 0]
  /\ ReadPended(t)
  /\ UNCHANGED <<queued, write, watches, callee, owed, cleanup, xenstored>>
-----------------------------------------------------------------------------
(* Writes *)

\* The program's next n parts, or what is left of its messages.
EvtIoWrite(n) ==
  /\ cleanup.pc = "open" /\ Idle(Writer) /\ written + n <= 2 * Len(Script)
  /\ w' = [w EXCEPT !.pc = "copy", !.dst = len,
                    !.src = [k \in 1 .. n |-> LET p == written + k - 1
                                              IN  <<p \div 2 + 1, (p % 2) + 1>>]]
  /\ written' = written + n
  /\ UNCHANGED <<reads, list, buffer, len, overrun, watches, callee, owed, cleanup, xenstored>>

\* The header and the body, as far as they are in this write.  dst_ptr is not set back
\* after a message: the next one in the same write goes behind it.
Copy ==
  /\ w.pc = "copy" /\ w.src # <<>>
  /\ LET n == Min2(BODY - len, Len(w.src))
     IN  /\ buffer' = [p \in 1 .. 2 |-> IF p - w.dst \in 1 .. n THEN w.src[p - w.dst] ELSE buffer[p]]
         /\ len' = len + n
         /\ w' = [w EXCEPT !.pc = IF len' = BODY THEN "handle" ELSE "copy",
                           !.dst = w.dst + n, !.src = Rest(w.src, n)]
         /\ overrun' = (overrun \/ w.dst >= BODY)
  /\ UNCHANGED <<reads, list, written, watches, callee, owed, cleanup, xenstored>>

WriteDone ==
  /\ w.pc = "copy" /\ w.src = <<>>
  /\ w' = [w EXCEPT !.pc = "idle", !.dst = 0]
  /\ UNCHANGED <<reads, list, buffer, len, written, overrun, watches, callee, owed, cleanup, xenstored>>

Number == buffer[1][1]      \* of the message in u.buffer

\* The switch on u.msg.type; a watch's context goes on watch_list before the watch is set.
Handle ==
  /\ w.pc = "handle"
  /\ IF Script[Number] = "WATCH"
     THEN w' = [w EXCEPT !.pc = "add", !.ctx = @ + 1] /\ watch_list' = watch_list \cup {w'.ctx}
     ELSE w' = [w EXCEPT !.pc = "raw"] /\ UNCHANGED watch_list
  /\ UNCHANGED <<reads, list, buffer, len, written, overrun, freed, refs, table, callee, owed,
                 cleanup, xenstored>>

\* XenBus_Raw
Raw ==
  /\ w.pc = "raw"
  /\ w' = [w EXCEPT !.pc = "reply", !.rep = <<"REPLY", Number, key>>]
  /\ UNCHANGED <<reads, list, buffer, len, written, overrun, watches, callee, owed, cleanup, xenstored>>

\* XenBus_AddWatch: xenstored fires a watch as soon as it is set; with no entry left
\* nothing is set, and NULL returned as after a success.
AddWatch ==
  /\ w.pc = "add" /\ callee = Nobody
  /\ \/ /\ Cardinality(table) < MAX_WATCH_ENTRIES
        /\ table' = table \cup {w.ctx} /\ owed' = [owed EXCEPT ![w.ctx] = @ + 1]
        /\ w' = [w EXCEPT !.pc = "added"] /\ UNCHANGED failures
     \/ /\ Cardinality(table) = MAX_WATCH_ENTRIES
        /\ w' = [w EXCEPT !.pc = "added"] /\ UNCHANGED <<table, owed, failures>>
     \/ /\ failures < MaxFailures /\ failures' = failures + 1
        /\ w' = [w EXCEPT !.pc = "refused"] /\ UNCHANGED <<table, owed>>
  /\ UNCHANGED <<reads, list, buffer, len, written, overrun, watch_list, freed, refs, callee,
                 cleanup, key, fired>>

\* The context of a refused watch is unlinked, and never freed.
WatchAnswer ==
  /\ w.pc \in {"added", "refused"}
  /\ IF w.pc = "refused"
     THEN watch_list' = watch_list \ {w.ctx} /\ UNCHANGED refs
     ELSE refs' = refs + 1 /\ UNCHANGED watch_list
  /\ w' = [w EXCEPT !.pc = "reply",
                    !.rep = <<IF w.pc = "refused" THEN "ERROR" ELSE "REPLY", Number, "">>]
  /\ UNCHANGED <<reads, list, buffer, len, written, overrun, freed, table, callee, owed, cleanup,
                 xenstored>>

\* The reply goes on read_list; a read that waits on io_queue is not looked for.
Reply ==
  /\ w.pc = "reply"
  /\ w' = [w EXCEPT !.pc = "copy", !.rep = NoMessage] /\ len' = 0
  /\ read_list' = read_list \o Parts(w.rep) /\ queued' = queued \o Parts(w.rep)
  /\ stranded' = (stranded \/ io_queue # <<>>)
  /\ UNCHANGED <<reads, given, buffer, written, overrun, watches, callee, owed, cleanup, xenstored>>

Writing == Copy \/ WriteDone \/ Handle \/ Raw \/ AddWatch \/ WatchAnswer \/ Reply
-----------------------------------------------------------------------------
(* Watch events *)

\* xenstored fires the watches of the handle.
Fire ==
  /\ fired < MaxEvents /\ fired' = fired + 1 /\ table # {}
  /\ owed' = [m \in Contexts |-> IF m \in table THEN owed[m] + 1 ELSE owed[m]]

\* XenBus_WatchWorkItemProc; the event of a watch that is not set any more is dropped.
WorkItem(m) ==
  /\ owed[m] > 0 /\ callee = Nobody
  /\ owed' = [owed EXCEPT ![m] = @ - 1]
  /\ callee' = IF m \in table THEN m ELSE Nobody
  /\ UNCHANGED <<reads, list, write, watches, cleanup, xenstored>>

\* XenPci_IoWatch
IoWatch ==
  /\ callee # Nobody /\ callee' = Nobody
  /\ LET event == Parts(<<"EVENT", callee, "">>)
     IN  /\ queued' = queued \o event
         /\ IF io_queue = <<>>
            THEN /\ read_list' = read_list \o event
                 /\ UNCHANGED <<reading, io_queue, result, given, stranded>>
            ELSE ProcessReadRequest(Head(io_queue), reading[Head(io_queue)], read_list \o event)
  /\ UNCHANGED <<entering, write, watches, owed, cleanup, xenstored>>
-----------------------------------------------------------------------------
(* XenBus_EvtFileCleanup.  No request is under way: a write that is still in
   XenBus_AddWatch would set a watch for a context that is freed here. *)

Cleanup ==
  /\ cleanup.pc = "open" /\ w.pc = "idle" /\ \A t \in Threads : Idle(t)
  /\ cleanup' = [cleanup EXCEPT !.pc = "loop"]
  /\ UNCHANGED <<reads, list, write, watches, callee, owed, xenstored>>

CleanupNext ==
  /\ cleanup.pc = "loop"
  /\ \/ \E c \in watch_list :
          cleanup' = [pc |-> "unwatch", ctx |-> c] /\ watch_list' = watch_list \ {c}
     \/ watch_list = {} /\ cleanup' = [pc |-> "done", ctx |-> 0] /\ UNCHANGED watch_list
  /\ UNCHANGED <<reads, list, write, freed, refs, table, callee, owed, xenstored>>

\* XenBus_RemWatch takes xb_watch_mutex, which a running handler has.
CleanupWatch ==
  /\ cleanup.pc = "unwatch" /\ callee = Nobody
  /\ table' = table \ {cleanup.ctx}
  /\ freed' = freed \cup {cleanup.ctx} /\ refs' = refs - 1
  /\ cleanup' = [pc |-> "loop", ctx |-> 0]
  /\ UNCHANGED <<reads, list, write, watch_list, callee, owed, xenstored>>
-----------------------------------------------------------------------------
Next ==
  \/ \E t \in Threads, n \in Lengths : t # Writer /\ EvtIoRead(t, n)
  \/ \E t \in Threads : EvtIoReadLocked(t)
  \/ \E n \in 1 .. MaxWrite : EvtIoWrite(n)
  \/ Writing
  \/ Fire /\ UNCHANGED <<reads, list, write, watches, callee, cleanup, key, failures>>
  \/ \E m \in Contexts : WorkItem(m)
  \/ IoWatch
  \/ Cleanup \/ CleanupNext \/ CleanupWatch

Spec == Init /\ [][Next]_vars
-----------------------------------------------------------------------------
(* Properties *)

\* Reads get every part of every reply and event once and in order, however the messages
\* were cut up and whichever handler filled which read.
StreamIntact == given \o read_list = queued

\* No read waits while there is data for it, unless the data is the reply to a write, for
\* which EvtIoWrite does not look for a read, what the one read that was filled left over,
\* or EvtIoRead has yet to look at the list.
NobodyForgotten ==
  read_list # <<>> /\ io_queue # <<>> => stranded \/ \E t \in Threads : entering[t] > 0

\* What is put together from writes is one message, the next, as long as no write goes
\* beyond the end of a message.
MessageAssembled ==
  w.pc \notin {"idle", "copy"} /\ ~overrun =>
    /\ 2 * Number = written - Len(w.src)
    /\ buffer = Parts(Number)

\* XenPci_IoWatch finds its context, and the file object it belongs to, in place.
ContextAlive ==
  callee # Nobody => callee \notin freed /\ (cleanup.pc # "done" \/ refs > 0)

DeviceSound == TypeOK /\ StreamIntact /\ NobodyForgotten /\ MessageAssembled /\ ContextAlive
=============================================================================
