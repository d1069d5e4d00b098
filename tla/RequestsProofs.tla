--------------------------- MODULE RequestsProofs ---------------------------
(***************************************************************************)
(* Proofs about what is made of requests from above, of MCRequests: the    *)
(* xenstore requests of XenBus, the SRBs of VbdScsi, the URBs of UsbHub    *)
(* and the OIDs of NdisMiniport, for every set of threads, requests,       *)
(* devices, registry settings and backends.                                *)
(***************************************************************************)
EXTENDS MCRequests, FiniteSetTheorems, SequenceTheorems, TLAPS

(***************************************************************************)
(* XenBus.                                                                 *)
(*                                                                         *)
(* The response ring and what xenstored still has to write are one stream  *)
(* of chunks.  It is in order, and all that is in it of a reply is of one  *)
(* reply, the one to the thread that holds xb_request_mutex.  What a watch *)
(* is on both sides follows from it: while a request to set or remove a    *)
(* watch is under way its outcome is still to come.                        *)
(***************************************************************************)

Chunk == Messages \X (1 .. HEADER + 1)

\* What is to be read, or written, after what XenBus_Dpc has read.
Stream == rsp \o out

\* A message is its chunks, one after the other.
Follows(a, b) == IF a[2] = HEADER + 1 THEN b[2] = 1 ELSE b = <<a[1], a[2] + 1>>
InOrder(s) == \A k \in 1 .. Len(s) - 1 : Follows(s[k], s[k + 1])

\* The last message is whole, and the first goes on with the message m of which
\* n chunks have been read.
Ends(s) == s # <<>> => s[Len(s)][2] = HEADER + 1
Begins(s, m, n) ==
  IF m # NULL /\ n = HEADER THEN s # <<>> /\ s[1] = <<m, HEADER + 1>>
  ELSE s # <<>> => s[1][2] = 1

\* Two chunks of replies are of the same message.
OneReply(s) ==
  \A j, k \in 1 .. Len(s) :
    IsReply(s[j][1]) /\ IsReply(s[k][1]) => k - j = s[k][2] - s[j][2]

NoReply(s) == \A k \in 1 .. Len(s) : ~IsReply(s[k][1])

\* The reply to the request of the thread that waits.
ForHolder(m) ==
  /\ xb_request_mutex \in Clients
  /\ m.to = xb_request_mutex /\ m.slot = arg[xb_request_mutex].slot

-----------------------------------------------------------------------------
(* The inductive invariant *)

\* The thread that waits has the mutex, and a request of its own.
Waiting ==
  /\ \A c \in Clients : pc[c] = "wait" <=> xb_request_mutex = c
  /\ \A c \in Clients : pc[c] \in {"request", "wait"} => arg[c] \in Requests /\ arg[c].by = c
  /\ \A c \in Clients : pc[c] = "idle" => arg[c] = NULL
  /\ arg[Worker] # NULL => arg[Worker].type = "READ"

\* The stream goes on where XenBus_Dpc has stopped reading.
InStream ==
  /\ InOrder(Stream) /\ Ends(Stream) /\ Begins(Stream, xb_msg, xb_msg_offset)
  /\ xb_msg # NULL => xb_msg_offset \in {HEADER, HEADER + 1}

\* The request is in the ring or its reply is somewhere on its way, never both.
Replied ==
  /\ OneReply(Stream)
  /\ \A k \in 1 .. Len(Stream) : IsReply(Stream[k][1]) => ForHolder(Stream[k][1])
  /\ xb_msg # NULL /\ IsReply(xb_msg) =>
       /\ xb_msg_offset = HEADER /\ ForHolder(xb_msg)
       /\ \A k \in 1 .. Len(Stream) : IsReply(Stream[k][1]) => k = 1
  /\ xb_request_complete_event <=> xb_reply # NULL
  /\ xb_reply # NULL =>
       ForHolder(xb_reply) /\ NoReply(Stream) /\ (xb_msg # NULL => ~IsReply(xb_msg))
  /\ req # <<>> =>
       /\ Len(req) = 1 /\ xb_request_mutex \in Clients
       /\ req[1].ask = arg[xb_request_mutex]
       /\ xb_request_mutex # Pm => req[1].path = xb_request_mutex
       /\ xb_request_mutex = Pm => req[1].path \in Threads \cup {NoOne}
       /\ NoReply(Stream) /\ xb_reply = NULL /\ (xb_msg # NULL => ~IsReply(xb_msg))

\* A thread has one watch at most, and its routine is not called when it is removed.
Entries ==
  /\ \A i \in Slots : Active[i] => /\ ServiceRoutine[i] \in Threads \ removed
                                   /\ Path[i] = ServiceRoutine[i]
  /\ \A i, j \in Slots : Active[i] /\ Active[j] /\ ServiceRoutine[i] = ServiceRoutine[j] => i = j
  /\ \A t \in Threads, i \in Slots :
       arg[t] # NULL /\ arg[t].type = "UNWATCH" /\ Active[i] => ServiceRoutine[i] # t
  /\ callee \notin removed

\* Where XenBus_Suspend, _Resume and _Halt are.  Halt leaves no watch active behind it.
Loops ==
  /\ pc[Pm] \in {"disconnect", "asleep"} => arg[Pm] = NULL
  /\ pc[Pm] = "unwatch" /\ arg[Pm] # NULL => arg[Pm].type = "UNWATCH"
  /\ pc[Pm] = "watch" => ~halted /\ (arg[Pm] # NULL => arg[Pm].type = "WATCH")
  /\ pc[Pm] = "asleep" => ~halted
  /\ pc[Pm] \in {"request", "wait", "fault"} =>
       arg[Pm] \in Requests /\ arg[Pm].type # "READ" /\ (halted => arg[Pm].type = "UNWATCH")
  /\ suspends = 0 => pc[Pm] = "idle" /\ ~halted
  /\ halted => \A i \in Slots : Active[i] =>
       /\ pc[Pm] \notin {"idle", "disconnect"}
       /\ i \in Ahead

\* A request was served well, and the reply is on its way to the thread that waits.
Granted ==
  \/ \E k \in 1 .. Len(Stream) : Stream[k][1].type = "REPLY"
  \/ xb_msg # NULL /\ xb_msg.type = "REPLY"
  \/ xb_reply # NULL /\ xb_reply.type = "REPLY"

\* The driver whose watch is in slot i is still setting it.
Setting(i) ==
  LET t == ServiceRoutine[i] IN
  /\ arg[t] # NULL /\ arg[t].type = "WATCH" /\ arg[t].slot = i
  /\ pc[t] = "wait" => ~Granted

\* XenBus_Resume is still to set the watch in slot i again.
Resetting(i) ==
  \/ pc[Pm] \in {"unwatch", "disconnect", "asleep", "fault"}
  \/ pc[Pm] = "watch" /\ i \in Ahead
  \/ /\ pc[Pm] \in {"request", "wait"}
     /\ \/ arg[Pm].type = "UNWATCH" \/ i \in Ahead
        \/ /\ i = arg[Pm].slot
           /\ pc[Pm] = "wait" => req # <<>> /\ req[1].path = ServiceRoutine[i]

Registered ==
  suspends = 0 \/ failures = 0 =>
    \A i \in Slots : Active[i] =>
      <<ServiceRoutine[i], i>> \in registered \/ Setting(i) \/ Resetting(i)

XenBusIInv == TypeOK /\ Waiting /\ InStream /\ Replied /\ Entries /\ Loops /\ Registered
-----------------------------------------------------------------------------
(* The stream *)

LEMMA StreamType ==
  ASSUME TypeOK
  PROVE  /\ rsp \in Seq(Chunk) /\ out \in Seq(Chunk) /\ Stream \in Seq(Chunk)
         /\ Len(Stream) = Len(rsp) + Len(out)
         /\ \A k \in 1 .. Len(Stream) :
              Stream[k] = IF k <= Len(rsp) THEN rsp[k] ELSE out[k - Len(rsp)]
<1>1. rsp \in Seq(Chunk) /\ out \in Seq(Chunk)
  BY DEF TypeOK, Chunk
<1> QED BY <1>1, ConcatProperties DEF Stream

\* A chunk that goes to the ring stays in the stream.
LEMMA MovedChunk ==
  ASSUME NEW r \in Seq(Chunk), NEW o \in Seq(Chunk), o # <<>>
  PROVE  Append(r, Head(o)) \o Tail(o) = r \o o
<1>1. Append(r, Head(o)) \in Seq(Chunk) /\ Tail(o) \in Seq(Chunk)
  BY HeadTailProperties
<1>2. Len(Append(r, Head(o)) \o Tail(o)) = Len(r \o o)
  BY <1>1, ConcatProperties, HeadTailProperties
<1>3. ASSUME NEW k \in 1 .. Len(r \o o)
      PROVE  (Append(r, Head(o)) \o Tail(o))[k] = (r \o o)[k]
  <2>1. Len(r \o o) = Len(r) + Len(o) /\ Len(Append(r, Head(o))) = Len(r) + 1
    BY ConcatProperties, HeadTailProperties
  <2>2. (Append(r, Head(o)) \o Tail(o))[k]
          = IF k <= Len(r) + 1 THEN Append(r, Head(o))[k] ELSE Tail(o)[k - (Len(r) + 1)]
    BY <1>1, <1>2, <2>1, ConcatProperties
  <2>3. (r \o o)[k] = IF k <= Len(r) THEN r[k] ELSE o[k - Len(r)]
    BY <2>1, ConcatProperties
  <2>4. CASE k <= Len(r)
    BY <2>2, <2>3, <2>4, HeadTailProperties
  <2>5. CASE k = Len(r) + 1
    BY <2>2, <2>3, <2>5, HeadTailProperties
  <2>6. CASE k > Len(r) + 1
    <3>1. k - (Len(r) + 1) \in 1 .. Len(Tail(o))
      BY <2>1, <2>6, HeadTailProperties
    <3> QED BY <2>2, <2>3, <2>6, <3>1, HeadTailProperties
  <2> QED BY <2>4, <2>5, <2>6, <2>1
<1> QED BY <1>1, <1>2, <1>3, SeqEqual, ConcatProperties

\* t is s without its first n chunks.
Without(s, n, t) ==
  /\ t \in Seq(Chunk) /\ Len(t) = Len(s) - n
  /\ \A k \in 1 .. Len(t) : t[k] = s[k + n]

LEMMA CutRing ==
  ASSUME NEW r \in Seq(Chunk), NEW o \in Seq(Chunk), NEW n \in 0 .. Len(r), NEW b, Without(r, n, b)
  PROVE  Without(r \o o, n, b \o o)
<1>1. b \in Seq(Chunk) /\ Len(b) = Len(r) - n
  BY DEF Without
<1>2. /\ b \o o \in Seq(Chunk) /\ Len(b \o o) = Len(b) + Len(o)
      /\ Len(r \o o) = Len(r) + Len(o)
  BY <1>1, ConcatProperties
<1>3. ASSUME NEW k \in 1 .. Len(b \o o) PROVE (b \o o)[k] = (r \o o)[k + n]
  <2>1. (b \o o)[k] = IF k <= Len(b) THEN b[k] ELSE o[k - Len(b)]
    BY <1>1, <1>2, ConcatProperties
  <2>2. (r \o o)[k + n] = IF k + n <= Len(r) THEN r[k + n] ELSE o[(k + n) - Len(r)]
    BY <1>1, <1>2, ConcatProperties
  <2> QED BY <1>1, <1>2, <2>1, <2>2 DEF Without
<1> QED BY <1>1, <1>2, <1>3 DEF Without

\* What is left of a stream in order is in order.
LEMMA CutKeeps ==
  ASSUME NEW s \in Seq(Chunk), NEW n \in 0 .. Len(s), NEW t, Without(s, n, t)
  PROVE  /\ InOrder(s) => InOrder(t)
         /\ Ends(s) => Ends(t)
         /\ OneReply(s) => OneReply(t)
         /\ \A k \in 1 .. Len(t) : k + n \in 1 .. Len(s) /\ t[k] = s[k + n]
<1>1. t \in Seq(Chunk) /\ Len(t) = Len(s) - n
  BY DEF Without
<1>2. \A k \in 1 .. Len(t) : k + n \in 1 .. Len(s) /\ t[k] = s[k + n]
  BY <1>1 DEF Without
<1>3. ASSUME InOrder(s) PROVE InOrder(t)
  <2> SUFFICES ASSUME NEW k \in 1 .. Len(t) - 1 PROVE Follows(t[k], t[k + 1])
    BY DEF InOrder
  <2>1. /\ k \in 1 .. Len(t) /\ k + 1 \in 1 .. Len(t) /\ (k + 1) + n = (k + n) + 1
        /\ k + n \in 1 .. Len(s) - 1
    BY <1>1
  <2>2. t[k] = s[k + n] /\ t[k + 1] = s[(k + 1) + n]
    BY <1>2, <2>1
  <2>3. Follows(s[k + n], s[(k + n) + 1])
    BY <1>3, <2>1 DEF InOrder
  <2> QED BY <2>1, <2>2, <2>3
<1>4. ASSUME Ends(s) PROVE Ends(t)
  <2> SUFFICES ASSUME t # <<>> PROVE t[Len(t)][2] = HEADER + 1
    BY DEF Ends
  <2>1. Len(t) \in 1 .. Len(t) /\ Len(t) + n = Len(s)
    BY <1>1
  <2>2. s # <<>>
    BY <2>1, <1>1
  <2> QED BY <1>2, <1>4, <2>1, <2>2 DEF Ends
<1>5. ASSUME OneReply(s) PROVE OneReply(t)
  <2> SUFFICES ASSUME NEW j \in 1 .. Len(t), NEW k \in 1 .. Len(t),
                      IsReply(t[j][1]), IsReply(t[k][1])
               PROVE  k - j = t[k][2] - t[j][2]
    BY DEF OneReply
  <2>1. (k + n) - (j + n) = s[k + n][2] - s[j + n][2]
    BY <1>2, <1>5 DEF OneReply
  <2> QED BY <1>1, <1>2, <2>1
<1> QED BY <1>2, <1>3, <1>4, <1>5

\* A message at the end of a stream.
LEMMA AddedMessage ==
  ASSUME NEW s \in Seq(Chunk), NEW m \in Messages
  PROVE  LET t == s \o Chunks(m) IN
         /\ t \in Seq(Chunk) /\ Len(t) = Len(s) + 3 /\ t # <<>>
         /\ \A k \in 1 .. Len(s) : t[k] = s[k]
         /\ \A k \in 1 .. 3 : t[Len(s) + k] = <<m, k>>
<1>1. Chunks(m) \in Seq(Chunk) /\ Len(Chunks(m)) = 3 /\ \A k \in 1 .. 3 : Chunks(m)[k] = <<m, k>>
  BY DEF Chunks, Chunk, HEADER
<1> DEFINE c == Chunks(m)
           t == s \o c
<1> HIDE DEF c
<1>2. /\ t \in Seq(Chunk) /\ Len(t) = Len(s) + Len(c)
      /\ \A k \in 1 .. Len(s) + Len(c) : t[k] = IF k <= Len(s) THEN s[k] ELSE c[k - Len(s)]
  BY <1>1, ConcatProperties DEF c
<1>3. \A k \in 1 .. Len(s) : t[k] = s[k]
  BY <1>1, <1>2 DEF c
<1>4. ASSUME NEW k \in 1 .. 3 PROVE t[Len(s) + k] = <<m, k>>
  <2>1. t[Len(s) + k] = c[(Len(s) + k) - Len(s)]
    BY <1>1, <1>2 DEF c
  <2> QED BY <1>1, <2>1 DEF c
<1>5. t # <<>> /\ Len(t) = Len(s) + 3
  BY <1>1, <1>2 DEF c
<1> QED BY <1>2, <1>3, <1>4, <1>5 DEF c

LEMMA AddKeeps ==
  ASSUME NEW s \in Seq(Chunk), NEW m \in Messages, NEW x, NEW n,
         InOrder(s), Ends(s), Begins(s, x, n)
  PROVE  InOrder(s \o Chunks(m)) /\ Ends(s \o Chunks(m)) /\ Begins(s \o Chunks(m), x, n)
<1> DEFINE t == s \o Chunks(m)
<1>1. /\ t \in Seq(Chunk) /\ Len(t) = Len(s) + 3 /\ t # <<>>
      /\ \A k \in 1 .. Len(s) : t[k] = s[k]
      /\ \A k \in 1 .. 3 : t[Len(s) + k] = <<m, k>>
  BY AddedMessage
<1>2. t[Len(s) + 1] = <<m, 1>> /\ t[Len(s) + 2] = <<m, 2>> /\ t[Len(s) + 3] = <<m, 3>>
  BY <1>1
<1> HIDE DEF t
<1>3. ASSUME NEW k \in 1 .. Len(t) - 1 PROVE Follows(t[k], t[k + 1])
  <2>1. CASE k < Len(s)
    <3>1. k \in 1 .. Len(s) - 1 /\ t[k] = s[k] /\ t[k + 1] = s[k + 1]
      BY <1>1, <2>1
    <3> QED BY <3>1 DEF InOrder
  <2>2. CASE k = Len(s)
    <3>1. s # <<>> /\ t[k] = s[Len(s)] /\ t[k + 1] = <<m, 1>>
      BY <1>1, <1>2, <2>2
    <3> QED BY <3>1 DEF Ends, Follows
  <2>3. CASE k > Len(s)
    <3>1. k = Len(s) + 1 \/ k = Len(s) + 2
      BY <1>1, <2>3
    <3>2. Follows(<<m, 1>>, <<m, 2>>) /\ Follows(<<m, 2>>, <<m, 3>>)
      BY DEF Follows, HEADER
    <3>3. (Len(s) + 1) + 1 = Len(s) + 2 /\ (Len(s) + 2) + 1 = Len(s) + 3
      OBVIOUS
    <3> QED BY <1>2, <3>1, <3>2, <3>3
  <2> QED BY <2>1, <2>2, <2>3, <1>1
<1>4. Ends(t)
  BY <1>1, <1>2 DEF Ends, HEADER
<1>5. Begins(t, x, n)
  <2>1. CASE s = <<>>
    BY <2>1, <1>2 DEF Begins
  <2>2. CASE s # <<>>
    <3>1. t[1] = s[1]
      BY <1>1, <2>2
    <3> QED BY <3>1, <2>2, <1>1 DEF Begins
  <2> QED BY <2>1, <2>2
<1> QED BY <1>3, <1>4, <1>5 DEF InOrder, t

-----------------------------------------------------------------------------
(* What is left alone *)

LEMMA SameStream ==
  ASSUME InStream, UNCHANGED <<rsp, out, xb_msg, xb_msg_offset>>
  PROVE  InStream'
BY DEF InStream, InOrder, Ends, Begins, Stream

LEMMA SameReply ==
  ASSUME Replied,
         UNCHANGED <<rsp, out, xb_msg, xb_msg_offset, xb_reply, xb_request_complete_event, req,
                     xb_request_mutex>>,
         xb_request_mutex \in Clients => arg'[xb_request_mutex] = arg[xb_request_mutex]
  PROVE  Replied'
BY DEF Replied, OneReply, NoReply, ForHolder, Stream

LEMMA SameGranted ==
  ASSUME UNCHANGED <<rsp, out, xb_msg, xb_reply>> PROVE Granted' = Granted
BY DEF Granted, Stream

\* What XenBus_Suspend or a caller does before its request is made.
LEMMA Asked ==
  ASSUME TypeOK, Waiting, NEW c \in Clients, NEW type \in Types, NEW i \in Slots,
         Ask(c, type, i), pc[c] # "wait", c = Worker => type = "READ",
         xb_request_mutex' = xb_request_mutex
  PROVE  /\ Waiting'
         /\ pc' \in [Clients -> {"idle", "request", "wait", "unwatch", "disconnect", "asleep",
                                 "watch", "fault"}]
         /\ arg' \in [Clients -> Requests \cup {NULL}]
         /\ pc'[c] = "request" /\ arg'[c] \in Requests
         /\ arg'[c].type = type /\ arg'[c].slot = i /\ arg'[c].by = c
         /\ \A d \in Clients \ {c} : pc'[d] = pc[d] /\ arg'[d] = arg[d]
         /\ xb_request_mutex \in Clients => arg'[xb_request_mutex] = arg[xb_request_mutex]
<1> DEFINE r == [type |-> type, slot |-> i, by |-> c]
<1>1. r \in Requests /\ r.type = type /\ r.slot = i /\ r.by = c
  BY DEF Requests
<1> HIDE DEF r
<1>2. pc' = [pc EXCEPT ![c] = "request"] /\ arg' = [arg EXCEPT ![c] = r]
  BY DEF Ask, r
<1>3. /\ pc' \in [Clients -> {"idle", "request", "wait", "unwatch", "disconnect", "asleep",
                              "watch", "fault"}]
      /\ arg' \in [Clients -> Requests \cup {NULL}]
      /\ pc'[c] = "request" /\ arg'[c] = r
      /\ \A d \in Clients \ {c} : pc'[d] = pc[d] /\ arg'[d] = arg[d]
  BY <1>1, <1>2 DEF TypeOK
<1>4. xb_request_mutex # c
  BY DEF Waiting
<1>5. Worker \in Clients
  BY DEF Clients
<1>6. Waiting'
  <2>1. ASSUME NEW d \in Clients
        PROVE  /\ pc'[d] = "wait" <=> xb_request_mutex' = d
               /\ pc'[d] \in {"request", "wait"} => arg'[d] \in Requests /\ arg'[d].by = d
               /\ pc'[d] = "idle" => arg'[d] = NULL
    BY <1>1, <1>3, <1>4 DEF Waiting
  <2>2. arg'[Worker] # NULL => arg'[Worker].type = "READ"
    BY <1>1, <1>3, <1>5 DEF Waiting
  <2> QED BY <2>1, <2>2 DEF Waiting
<1> QED BY <1>1, <1>3, <1>4, <1>6

\* Without a thread that waits there is neither a request nor a reply.
LEMMA NoneWaits ==
  ASSUME Replied, xb_request_mutex \notin Clients
  PROVE  /\ NoReply(Stream) /\ (xb_msg # NULL => ~IsReply(xb_msg))
         /\ xb_reply = NULL /\ req = <<>>
BY DEF Replied, NoReply, ForHolder

LEMMA NotGranted ==
  ASSUME NoReply(Stream), xb_msg # NULL => ~IsReply(xb_msg), xb_reply = NULL
  PROVE  ~Granted
BY DEF Granted, NoReply, IsReply

\* xenstored writes a message behind what it has written.
LEMMA Written ==
  ASSUME TypeOK, NEW m \in Messages, out' = out \o Chunks(m), rsp' = rsp
  PROVE  out' \in Seq(Chunk) /\ Stream' = Stream \o Chunks(m)
<1>1. Chunks(m) \in Seq(Chunk)
  BY DEF Chunks, Chunk, HEADER
<1>2. rsp \in Seq(Chunk) /\ out \in Seq(Chunk)
  BY StreamType
<1>3. out \o Chunks(m) \in Seq(Chunk)
  BY <1>1, <1>2, ConcatProperties
<1>4. (rsp \o out) \o Chunks(m) = rsp \o (out \o Chunks(m))
  BY <1>1, <1>2, ConcatAssociative
<1> QED BY <1>3, <1>4 DEF Stream

LEMMA AddedEvent ==
  ASSUME NEW s \in Seq(Chunk), OneReply(s), NEW m \in Messages, ~IsReply(m)
  PROVE  /\ OneReply(s \o Chunks(m))
         /\ \A k \in 1 .. Len(s \o Chunks(m)) : IsReply((s \o Chunks(m))[k][1]) =>
              k \in 1 .. Len(s) /\ (s \o Chunks(m))[k] = s[k]
<1> DEFINE t == s \o Chunks(m)
<1>1. /\ Len(t) = Len(s) + 3 /\ \A k \in 1 .. Len(s) : t[k] = s[k]
      /\ \A k \in 1 .. 3 : t[Len(s) + k] = <<m, k>>
  BY AddedMessage
<1> HIDE DEF t
<1>2. ASSUME NEW k \in 1 .. Len(t), IsReply(t[k][1]) PROVE k \in 1 .. Len(s) /\ t[k] = s[k]
  <2>1. ASSUME k > Len(s) PROVE FALSE
    <3>1. k - Len(s) \in 1 .. 3 /\ k = Len(s) + (k - Len(s))
      BY <1>1, <2>1
    <3>2. t[k] = <<m, k - Len(s)>>
      BY <1>1, <3>1
    <3> QED BY <1>2, <3>2
  <2> QED BY <1>1, <2>1
<1>3. OneReply(t)
  BY <1>2 DEF OneReply
<1> QED BY <1>2, <1>3 DEF t

\* xenstored answers the thread that waits; there is no other reply in the stream.
LEMMA AddedReply ==
  ASSUME NEW s \in Seq(Chunk), NoReply(s), NEW m \in Messages
  PROVE  /\ OneReply(s \o Chunks(m))
         /\ \A k \in 1 .. Len(s \o Chunks(m)) :
              IsReply((s \o Chunks(m))[k][1]) => (s \o Chunks(m))[k][1] = m
<1> DEFINE t == s \o Chunks(m)
<1>1. /\ Len(t) = Len(s) + 3 /\ \A k \in 1 .. Len(s) : t[k] = s[k]
      /\ \A k \in 1 .. 3 : t[Len(s) + k] = <<m, k>>
  BY AddedMessage
<1> HIDE DEF t
<1>2. ASSUME NEW k \in 1 .. Len(t), IsReply(t[k][1])
      PROVE  t[k][1] = m /\ t[k][2] = k - Len(s)
  <2>1. k > Len(s)
    <3>1. ASSUME k <= Len(s) PROVE FALSE
      BY <1>1, <1>2, <3>1 DEF NoReply
    <3> QED BY <3>1, <1>1
  <2>2. k - Len(s) \in 1 .. 3 /\ k = Len(s) + (k - Len(s))
    BY <1>1, <2>1
  <2>3. t[k] = <<m, k - Len(s)>>
    BY <1>1, <2>2
  <2> QED BY <2>3
<1>3. OneReply(t)
  <2> SUFFICES ASSUME NEW j \in 1 .. Len(t), NEW k \in 1 .. Len(t),
                      IsReply(t[j][1]), IsReply(t[k][1])
               PROVE  k - j = t[k][2] - t[j][2]
    BY DEF OneReply
  <2>1. t[j][2] = j - Len(s) /\ t[k][2] = k - Len(s)
    BY <1>2
  <2> QED BY <2>1, <1>1
<1> QED BY <1>2, <1>3 DEF t

-----------------------------------------------------------------------------
(* A turn of XenBus_Dpc's loop *)

LEMMA Turn ==
  ASSUME TypeOK, InStream, HeaderReady, Offset = HEADER => Rest # <<>>
  PROVE  /\ Msg \in Messages
         /\ \E n \in {0, 1, 3} :
              /\ n <= Len(rsp) /\ Without(rsp, n, Body)
              /\ n = 0 => xb_msg = Msg /\ xb_msg_offset = HEADER + 1 /\ rsp[1][2] = 1
              /\ n = 1 => xb_msg = Msg /\ xb_msg_offset = HEADER
              /\ n = 3 => xb_msg = NULL
              /\ n > 0 => rsp[n] = <<Msg, HEADER + 1>>
<1> USE NullAssumption DEF HEADER
<1>1. /\ rsp \in Seq(Chunk) /\ rsp # <<>> /\ Len(rsp) \in Nat \ {0}
      /\ Len(rsp) <= Len(Stream) /\ Len(Stream) \in Nat
      /\ \A k \in 1 .. Len(rsp) : Stream[k] = rsp[k] /\ rsp[k] \in Chunk
      /\ Stream # <<>>
  <2>1. rsp \in Seq(Chunk) /\ rsp # <<>> /\ Len(rsp) \in Nat \ {0} /\ out \in Seq(Chunk)
    BY StreamType, EmptySeq DEF HeaderReady
  <2>2. Len(Stream) = Len(rsp) + Len(out) /\ Len(out) \in Nat /\ Stream \in Seq(Chunk)
    BY <2>1, StreamType
  <2>3. \A k \in 1 .. Len(rsp) : Stream[k] = rsp[k]
    BY <2>1, <2>2, StreamType
  <2>4. \A k \in 1 .. Len(rsp) : rsp[k] \in Chunk
    BY <2>1
  <2> QED BY <2>1, <2>2, <2>3, <2>4
<1>2. CASE xb_msg = NULL
  <2>1. Offset = 2 /\ Rest = SubSeq(rsp, 3, Len(rsp)) /\ Msg = rsp[1][1]
    BY <1>2 DEF Offset, Rest, Msg
  <2>2. Len(rsp) >= 3
    <3>1. SubSeq(rsp, 3, Len(rsp)) # <<>>
      BY <2>1
    <3>2. ~(Len(rsp) < 3)
      BY <3>1, <1>1, SubSeqEmpty
    <3> QED BY <3>2, <1>1
  <2>3. rsp[1][2] = 1
    BY <1>1, <1>2 DEF InStream, Begins
  <2>4. Follows(rsp[1], rsp[2]) /\ Follows(rsp[2], rsp[3])
    <3>1. 1 \in 1 .. Len(Stream) - 1 /\ 2 \in 1 .. Len(Stream) - 1
      BY <1>1, <2>2
    <3>2. Follows(Stream[1], Stream[1 + 1]) /\ Follows(Stream[2], Stream[2 + 1])
      BY <3>1 DEF InStream, InOrder
    <3> QED BY <3>2, <1>1, <2>2
  <2>5. rsp[2] = <<rsp[1][1], 2>> /\ rsp[3] = <<rsp[1][1], 3>>
    <3>1. rsp[2] = <<rsp[1][1], 2>>
      BY <2>3, <2>4 DEF Follows
    <3> QED BY <3>1, <2>4 DEF Follows
  <2>6. Msg \in Messages
    BY <1>1, <2>1, <2>2 DEF Chunk
  <2>7. Without(rsp, 3, Body)
    <3>1. Body = Tail(SubSeq(rsp, 3, Len(rsp)))
      BY <2>1 DEF Body
    <3>2. Body = SubSeq(rsp, 4, Len(rsp))
      BY <3>1, <1>1, <2>2, HeadTailOfSubSeq
    <3>3. \A k \in 4 .. Len(rsp) : rsp[k] \in Chunk
      BY <1>1
    <3>4. /\ Body \in Seq(Chunk)
          /\ Len(Body) = IF 4 <= Len(rsp) THEN Len(rsp) - 4 + 1 ELSE 0
          /\ \A k \in 1 .. Len(rsp) - 4 + 1 : Body[k] = rsp[4 + k - 1]
      BY <3>2, <3>3, <1>1, SubSeqProperties
    <3> DEFINE b == Body
               n == Len(rsp)
    <3>5. n \in Nat /\ n >= 3
      BY <1>1, <2>2
    <3>6. b \in Seq(Chunk)
      BY <3>4
    <3>7. Len(b) = IF 4 <= n THEN n - 4 + 1 ELSE 0
      BY <3>4
    <3>8. \A k \in 1 .. n - 4 + 1 : b[k] = rsp[4 + k - 1]
      BY <3>4
    <3> HIDE DEF b, n
    <3>9. CASE n = 3
      <4>1. Len(b) = 0
        BY <3>7, <3>9
      <4> QED BY <4>1, <3>6, <3>9, <2>2 DEF Without, b, n
    <3>10. CASE n > 3
      <4>1. Len(b) = n - 3 /\ n - 4 + 1 = n - 3
        BY <3>5, <3>7, <3>10
      <4>2. ASSUME NEW k \in 1 .. Len(b) PROVE b[k] = rsp[k + 3]
        <5>1. 4 + k - 1 = k + 3
          BY <3>5, <3>10, <4>1
        <5>2. k \in 1 .. n - 4 + 1
          BY <4>1
        <5>3. b[k] = rsp[4 + k - 1]
          BY <3>8, <5>2
        <5> QED BY <5>1, <5>3
      <4> QED BY <4>1, <4>2, <3>6 DEF Without, b, n
    <3> QED BY <3>5, <3>9, <3>10
  <2> QED BY <1>2, <2>1, <2>2, <2>5, <2>6, <2>7
<1>3. CASE xb_msg # NULL /\ xb_msg_offset = HEADER
  <2>1. Offset = 2 /\ Rest = rsp /\ Msg = xb_msg /\ Body = Tail(rsp)
    BY <1>3 DEF Offset, Rest, Msg, Body
  <2>2. Msg \in Messages /\ Without(rsp, 1, Body)
    BY <1>1, <1>3, <2>1, HeadTailProperties DEF TypeOK, Without
  <2>3. rsp[1] = <<Msg, 3>>
    BY <1>1, <1>3, <2>1 DEF InStream, Begins
  <2> QED BY <1>1, <1>3, <2>1, <2>2, <2>3
<1>4. CASE xb_msg # NULL /\ xb_msg_offset = HEADER + 1
  <2>1. Offset = 3 /\ Rest = rsp /\ Msg = xb_msg /\ Body = rsp
    BY <1>4 DEF Offset, Rest, Msg, Body
  <2>2. Msg \in Messages /\ Without(rsp, 0, Body)
    BY <1>1, <1>4, <2>1 DEF TypeOK, Without
  <2>3. rsp[1][2] = 1
    BY <1>1, <1>4 DEF InStream, Begins
  <2> QED BY <1>1, <1>4, <2>1, <2>2, <2>3
<1> QED BY <1>2, <1>3, <1>4 DEF InStream

\* The message is taken out of the stream, and with the reply every chunk of it.
LEMMA Consumed ==
  ASSUME TypeOK, InStream, Replied, HeaderReady, Offset = HEADER => Rest # <<>>
  PROVE  LET s == Body \o out IN
         /\ Msg \in Messages
         /\ Body \in Seq(Chunk) /\ Len(Body) <= Len(rsp) /\ s \in Seq(Chunk)
         /\ InOrder(s) /\ Ends(s) /\ (s # <<>> => s[1][2] = 1)
         /\ OneReply(s)
         /\ \A k \in 1 .. Len(s) : \E j \in 1 .. Len(Stream) : s[k] = Stream[j]
         /\ IsReply(Msg) => ForHolder(Msg) /\ NoReply(s)
         /\ xb_msg = NULL \/ Msg = xb_msg
         /\ (xb_msg = Msg \/ \E j \in 1 .. Len(Stream) : Stream[j][1] = Msg)
<1> USE DEF HEADER
<1> DEFINE s == Body \o out
<1>1. PICK n \in {0, 1, 3} :
        /\ n <= Len(rsp) /\ Without(rsp, n, Body)
        /\ n = 0 => xb_msg = Msg /\ xb_msg_offset = HEADER + 1 /\ rsp[1][2] = 1
        /\ n = 1 => xb_msg = Msg /\ xb_msg_offset = HEADER
        /\ n = 3 => xb_msg = NULL
        /\ n > 0 => rsp[n] = <<Msg, HEADER + 1>>
  BY Turn
<1>2. Msg \in Messages
  BY Turn
<1>3. /\ rsp \in Seq(Chunk) /\ out \in Seq(Chunk) /\ Stream \in Seq(Chunk)
      /\ Len(Stream) = Len(rsp) + Len(out) /\ Len(rsp) \in Nat /\ Len(out) \in Nat
      /\ \A k \in 1 .. Len(rsp) : Stream[k] = rsp[k]
  BY StreamType
<1>4. Body \in Seq(Chunk) /\ Len(Body) = Len(rsp) - n
  BY <1>1 DEF Without
<1>5. Without(Stream, n, s)
  BY <1>1, <1>3, CutRing DEF Stream
<1>6. /\ InOrder(s) /\ Ends(s) /\ OneReply(s)
      /\ \A k \in 1 .. Len(s) : k + n \in 1 .. Len(Stream) /\ s[k] = Stream[k + n]
  <2>1. n \in 0 .. Len(Stream)
    BY <1>1, <1>3
  <2> HIDE DEF s
  <2> QED BY <1>3, <1>5, <2>1, CutKeeps DEF InStream, Replied
<1>7. s \in Seq(Chunk) /\ Len(s) = Len(Stream) - n
  BY <1>5 DEF Without
<1> HIDE DEF s
<1>8. ASSUME s # <<>> PROVE s[1][2] = 1
  <2>1. 1 \in 1 .. Len(s) /\ s[1] = Stream[1 + n]
    BY <1>6, <1>7, <1>8, EmptySeq
  <2>2. CASE n = 0
    <3>1. Stream[1] = rsp[1]
      BY <1>3, <2>2, StreamType, EmptySeq DEF HeaderReady
    <3> QED BY <1>1, <2>1, <2>2, <3>1
  <2>3. CASE n > 0
    <3>1. Stream[n] = <<Msg, 3>>
      BY <1>1, <1>3, <2>3
    <3>2. n \in 1 .. Len(Stream) - 1
      BY <1>1, <1>3, <1>7, <2>1, <2>3
    <3>3. Follows(Stream[n], Stream[n + 1])
      BY <3>2 DEF InStream, InOrder
    <3> QED BY <2>1, <3>1, <3>3 DEF Follows
  <2> QED BY <2>2, <2>3, <1>1
<1>9. ASSUME IsReply(Msg) PROVE ForHolder(Msg) /\ NoReply(s)
  <2>1. n # 0
    BY <1>1, <1>9, <1>2, NullAssumption DEF Replied
  <2>2. n \in 1 .. Len(Stream) /\ Stream[n] = <<Msg, 3>>
    BY <1>1, <1>3, <2>1
  <2>3. ForHolder(Msg)
    BY <2>2, <1>9 DEF Replied
  <2>4. ASSUME NEW k \in 1 .. Len(s), IsReply(s[k][1]) PROVE FALSE
    <3>1. k + n \in 1 .. Len(Stream) /\ s[k] = Stream[k + n] /\ s[k] \in Chunk
      BY <1>6, <1>7
    <3>2. (k + n) - n = s[k][2] - 3
      BY <2>2, <2>4, <3>1, <1>9 DEF Replied, OneReply
    <3>3. s[k][2] \in 1 .. 3
      BY <3>1 DEF Chunk
    <3> QED BY <3>2, <3>3, <2>2
  <2> QED BY <2>3, <2>4 DEF NoReply
<1>10. xb_msg = Msg \/ \E j \in 1 .. Len(Stream) : Stream[j][1] = Msg
  BY <1>1, <1>3
<1>11. /\ \A k \in 1 .. Len(s) : \E j \in 1 .. Len(Stream) : s[k] = Stream[j]
       /\ Len(Body) <= Len(rsp) /\ (xb_msg = NULL \/ Msg = xb_msg)
  <2>1. \A k \in 1 .. Len(s) : k + n \in 1 .. Len(Stream) /\ s[k] = Stream[k + n]
    BY <1>1, <1>4, <1>6
  <2> QED BY <1>1, <1>3, <1>4, <2>1
<1> QED BY <1>2, <1>4, <1>6, <1>7, <1>8, <1>9, <1>10, <1>11 DEF s

\* The header of the last message in the ring, the body of which is still to come.
LEMMA Parted ==
  ASSUME TypeOK, InStream, Replied, HeaderReady, Offset = HEADER, Rest = <<>>
  PROVE  /\ Msg \in Messages /\ xb_msg = NULL
         /\ InOrder(out) /\ Ends(out) /\ OneReply(out) /\ Begins(out, Msg, HEADER)
         /\ \A k \in 1 .. Len(out) : \E j \in 1 .. Len(Stream) : out[k] = Stream[j]
         /\ \E j \in 1 .. Len(Stream) : Stream[j][1] = Msg
         /\ IsReply(Msg) => /\ ForHolder(Msg)
                            /\ \A k \in 1 .. Len(out) : IsReply(out[k][1]) => k = 1
<1> USE NullAssumption DEF HEADER
<1>1. /\ rsp \in Seq(Chunk) /\ out \in Seq(Chunk) /\ Stream \in Seq(Chunk)
      /\ Len(Stream) = Len(rsp) + Len(out) /\ Len(rsp) \in Nat \ {0} /\ Len(out) \in Nat
      /\ \A k \in 1 .. Len(rsp) : Stream[k] = rsp[k]
      /\ \A k \in 1 .. Len(out) : Stream[k + Len(rsp)] = out[k]
  <2>1. rsp \in Seq(Chunk) /\ out \in Seq(Chunk) /\ Len(rsp) \in Nat \ {0} /\ Len(out) \in Nat
    BY StreamType, EmptySeq DEF HeaderReady
  <2>2. /\ Stream \in Seq(Chunk) /\ Len(Stream) = Len(rsp) + Len(out)
        /\ \A k \in 1 .. Len(rsp) : Stream[k] = rsp[k]
    BY <2>1, StreamType
  <2>3. ASSUME NEW k \in 1 .. Len(out) PROVE Stream[k + Len(rsp)] = out[k]
    <3>1. k + Len(rsp) \in 1 .. Len(Stream) /\ k + Len(rsp) > Len(rsp)
          /\ (k + Len(rsp)) - Len(rsp) = k
      BY <2>1, <2>2
    <3> QED BY <3>1, <2>1, <2>2, StreamType
  <2> QED BY <2>1, <2>2, <2>3
<1>2. xb_msg = NULL
  BY <1>1 DEF HeaderReady, Offset, Rest
<1>3. Msg = rsp[1][1] /\ SubSeq(rsp, 3, Len(rsp)) = <<>> /\ Len(rsp) >= 2
  BY <1>2 DEF Msg, Rest, HeaderReady
<1>4. Len(rsp) = 2
  <2>1. \A k \in 3 .. Len(rsp) : rsp[k] \in Chunk
    BY <1>1
  <2>2. Len(SubSeq(rsp, 3, Len(rsp))) = IF 3 <= Len(rsp) THEN Len(rsp) - 3 + 1 ELSE 0
    BY <2>1, <1>1, SubSeqProperties
  <2>3. Len(SubSeq(rsp, 3, Len(rsp))) = 0
    BY <1>3, EmptySeq
  <2>4. Len(rsp) \in Nat /\ Len(rsp) >= 2
    BY <1>1, <1>3
  <2> DEFINE n == Len(rsp)
  <2>5. ASSUME 3 <= n PROVE FALSE
    <3>1. n - 3 + 1 = 0
      BY <2>2, <2>3, <2>5
    <3>2. n \in Nat
      BY <2>4
    <3> HIDE DEF n
    <3> QED BY <3>1, <3>2, <2>5
  <2>6. n \in Nat /\ n >= 2 /\ ~(3 <= n)
    BY <2>4, <2>5
  <2>7. n = 2
    <3> HIDE DEF n
    <3> QED BY <2>6
  <2> QED BY <2>7
<1>5. Stream[1] = rsp[1] /\ Stream[2] = rsp[2] /\ rsp[1] \in Chunk /\ rsp[2] \in Chunk
  BY <1>1, <1>4
<1>6. rsp[1][2] = 1
  BY <1>1, <1>2, <1>5, EmptySeq DEF InStream, Begins
<1>7. rsp[2] = <<Msg, 2>>
  <2>1. 1 \in 1 .. Len(Stream) - 1
    BY <1>1, <1>4
  <2>2. Follows(Stream[1], Stream[1 + 1])
    BY <2>1 DEF InStream, InOrder
  <2> QED BY <2>2, <1>3, <1>5, <1>6 DEF Follows
<1>8. Msg \in Messages
  BY <1>3, <1>5 DEF Chunk
<1>9. Without(Stream, 2, out)
  BY <1>1, <1>4 DEF Without
<1>10. InOrder(out) /\ Ends(out) /\ OneReply(out)
  <2>1. 2 \in 0 .. Len(Stream)
    BY <1>1, <1>4
  <2> QED BY <1>1, <1>9, <2>1, CutKeeps DEF InStream, Replied
<1>11. Begins(out, Msg, HEADER)
  <2>1. Len(out) # 0
    <3>1. ASSUME Len(out) = 0 PROVE FALSE
      <4>1. Len(Stream) = 2 /\ Stream # <<>>
        BY <3>1, <1>1, <1>4, EmptySeq
      <4> QED BY <4>1, <1>5, <1>7 DEF InStream, Ends
    <3> QED BY <3>1
  <2>2. 2 \in 1 .. Len(Stream) - 1 /\ 1 \in 1 .. Len(out)
    BY <1>1, <1>4, <2>1
  <2>3. Follows(Stream[2], Stream[2 + 1]) /\ Stream[1 + 2] = out[1]
    BY <2>2, <1>1, <1>4 DEF InStream, InOrder
  <2>4. out[1] = <<Msg, 3>>
    BY <2>3, <1>5, <1>7 DEF Follows
  <2> QED BY <2>4, <2>1, <1>1, <1>8, EmptySeq DEF Begins
<1>12. ASSUME IsReply(Msg)
       PROVE  ForHolder(Msg) /\ \A k \in 1 .. Len(out) : IsReply(out[k][1]) => k = 1
  <2>1. 2 \in 1 .. Len(Stream) /\ Stream[2] = <<Msg, 2>>
    BY <1>1, <1>4, <1>5, <1>7
  <2>2. ForHolder(Msg)
    BY <2>1, <1>12 DEF Replied
  <2>3. ASSUME NEW k \in 1 .. Len(out), IsReply(out[k][1]) PROVE k = 1
    <3>1. k + 2 \in 1 .. Len(Stream) /\ out[k] = Stream[k + 2] /\ out[k] \in Chunk
      BY <1>1, <1>4
    <3>2. (k + 2) - 2 = out[k][2] - 2
      BY <2>1, <2>3, <3>1, <1>12 DEF Replied, OneReply
    <3>3. out[k][2] \in 1 .. 3
      BY <3>1 DEF Chunk
    <3> QED BY <3>2, <3>3
  <2> QED BY <2>2, <2>3
<1>13. /\ \A k \in 1 .. Len(out) : \E j \in 1 .. Len(Stream) : out[k] = Stream[j]
       /\ \E j \in 1 .. Len(Stream) : Stream[j][1] = Msg
  <2>1. 1 \in 1 .. Len(Stream) /\ Stream[1][1] = Msg
    BY <1>1, <1>3, <1>4, <1>5
  <2>2. \A k \in 1 .. Len(out) : k + 2 \in 1 .. Len(Stream) /\ out[k] = Stream[k + 2]
    BY <1>1, <1>4
  <2> HIDE DEF Stream
  <2> QED BY <2>1, <2>2
<1> QED BY <1>2, <1>8, <1>10, <1>11, <1>12, <1>13

\* The request at the head of its ring is the only one.
LEMMA OnlyOne ==
  ASSUME NEW s \in Seq(Sent), Len(s) = 1
  PROVE  Head(s) = s[1] /\ Head(s) \in Sent /\ Tail(s) = <<>>
<1>1. s # <<>>
  BY EmptySeq
<1>2. Head(s) \in Sent /\ Tail(s) \in Seq(Sent) /\ Len(Tail(s)) = Len(s) - 1
  BY <1>1, HeadTailProperties
<1>3. Len(Tail(s)) = 0
  BY <1>2
<1>4. Tail(s) = <<>>
  BY <1>2, <1>3, EmptySeq
<1>5. Head(s) = s[1]
  BY <1>1
<1> QED BY <1>2, <1>4, <1>5

LEMMA RegisteredStands ==
  ASSUME Registered, Granted' => Granted, failures' = 0 => failures = 0,
         UNCHANGED <<suspends, Active, ServiceRoutine, registered, pc, arg, req>>
  PROVE  Registered'
<1>1. ASSUME NEW i \in Slots, Setting(i) PROVE Setting(i)'
  BY <1>1 DEF Setting
<1>2. ASSUME NEW i \in Slots, Resetting(i) PROVE Resetting(i)'
  BY <1>2 DEF Resetting, Ahead
<1> QED BY <1>1, <1>2 DEF Registered

-----------------------------------------------------------------------------
(* One action at a time *)

LEMMA SubmitKeeps == ASSUME XenBusIInv, NEW c \in Clients, Submit(c) PROVE XenBusIInv'
<1> USE XenBusAssumption, NullAssumption DEF XenBusIInv, Submit, clients, request, watches, work,
                                             inbox, store, bounds, link
<1>a. arg[c] \in Requests /\ xb_request_mutex \notin Clients
  BY DEF Waiting
<1>b. /\ req = <<>> /\ NoReply(Stream) /\ (xb_msg # NULL => ~IsReply(xb_msg)) /\ xb_reply = NULL
  BY <1>a, NoneWaits
<1> DEFINE p == IF c = Pm THEN Path[arg[c].slot] ELSE c
           r == [ask |-> arg[c], path |-> p]
<1>c. /\ p \in Clients \cup {NoOne} /\ (c # Pm => p = c)
      /\ c = Pm => p = Path[arg[c].slot] /\ p \in Threads \cup {NoOne}
  BY <1>a DEF TypeOK, Requests, Clients
<1> HIDE DEF p
<1>d. r \in Sent /\ r.ask = arg[c] /\ r.path = p
  BY <1>a, <1>c DEF Sent
<1>e. req' = Append(req, r)
  BY DEF p
<1> HIDE DEF r
<1>f. req' \in Seq(Sent) /\ Len(req') = 1 /\ req'[1] = r
  BY <1>b, <1>d, <1>e DEF TypeOK
<1>1. TypeOK'
  <2>1. /\ pc' \in [Clients -> {"idle", "request", "wait", "unwatch", "disconnect", "asleep",
                               "watch", "fault"}]
        /\ xb_request_mutex' \in Clients \cup {NoOne}
    BY DEF TypeOK
  <2> QED BY <1>f, <2>1 DEF TypeOK
<1>2. Waiting'
  BY DEF Waiting, TypeOK, Clients, Requests
<1>3. InStream'
  BY SameStream
<1>4. Replied'
  <2>1. Stream' = Stream
    BY DEF Stream
  <2>2. xb_request_mutex' = c /\ arg' = arg /\ c \in Clients
    OBVIOUS
  <2>3. /\ req' # <<>> /\ Len(req') = 1 /\ req'[1].ask = arg[c] /\ (c # Pm => req'[1].path = c)
        /\ c = Pm => req'[1].path \in Threads \cup {NoOne}
    BY <1>c, <1>d, <1>f
  <2>4. NoReply(Stream)' /\ OneReply(Stream)'
    BY <1>b, <2>1 DEF NoReply, OneReply
  <2>5. UNCHANGED <<xb_msg, xb_reply, xb_request_complete_event>>
    OBVIOUS
  <2>6. xb_request_complete_event <=> xb_reply # NULL
    BY DEF Replied
  <2> HIDE DEF XenBusIInv, Submit
  <2> QED BY <1>b, <2>1, <2>2, <2>3, <2>4, <2>5, <2>6 DEF Replied, NoReply, IsReply
<1>5. Entries'
  BY DEF Entries, TypeOK, Waiting, Clients
<1>6. Loops'
  BY DEF Loops, TypeOK, Waiting, Clients, Requests, Slots, Ahead
<1>7. Registered'
  <2> SUFFICES ASSUME suspends' = 0 \/ failures' = 0, NEW i \in Slots, Active'[i]
               PROVE  (<<ServiceRoutine[i], i>> \in registered \/ Setting(i) \/ Resetting(i))'
    BY DEF Registered
  <2>1. <<ServiceRoutine[i], i>> \in registered \/ Setting(i) \/ Resetting(i)
    BY DEF Registered
  <2>2. ~Granted'
    BY <1>b, NotGranted, SameGranted
  <2>3. Setting(i) => Setting(i)'
    BY <2>2 DEF Setting
  <2>4. Path[i] = ServiceRoutine[i] /\ Pm \in Clients
    BY DEF Entries, Clients
  <2>5. ASSUME Resetting(i) PROVE Resetting(i)'
    <3>1. CASE c = Pm
      <4>1. pc'[Pm] = "wait" /\ pc[Pm] = "request" /\ req'[1].path = Path[arg[Pm].slot]
        BY <3>1, <2>4, <1>c, <1>d, <1>f DEF TypeOK
      <4> QED BY <4>1, <1>f, <2>4, <2>5 DEF Resetting, Ahead
    <3>2. CASE c # Pm
      <4>1. pc'[Pm] = pc[Pm] /\ pc[Pm] # "wait"
        BY <3>2, <2>4, <1>a DEF TypeOK, Waiting
      <4> QED BY <4>1, <2>5 DEF Resetting, Ahead
    <3> QED BY <3>1, <3>2
  <2> QED BY <2>1, <2>3, <2>5
<1> QED BY <1>1, <1>2, <1>3, <1>4, <1>5, <1>6, <1>7

LEMMA FaultKeeps == ASSUME XenBusIInv, NEW c \in Clients, Fault(c) PROVE XenBusIInv'
<1> USE XenBusAssumption, NullAssumption DEF XenBusIInv, Fault, clients, request, watches, work, inbox,
                                             store, bounds, link
<1>1. TypeOK'
  BY DEF TypeOK, Clients, Requests, Types, Slots
<1>2. Waiting'
  BY DEF Waiting, TypeOK, Clients, Requests
<1>3. InStream'
  BY SameStream
<1>4. Replied'
  BY SameReply DEF Waiting, TypeOK, Clients
<1>5. Entries'
  BY DEF Entries, TypeOK, Waiting, Clients
<1>6. Loops'
  BY DEF Loops, TypeOK, Waiting, Clients, Requests, Slots, Ahead
<1>7. Registered'
  BY DEF Registered, Setting, Resetting, Granted, Stream, TypeOK, Waiting, Entries, Loops,
         Clients, Ahead, Slots
<1> QED BY <1>1, <1>2, <1>3, <1>4, <1>5, <1>6, <1>7

LEMMA ReplyKeeps == ASSUME XenBusIInv, NEW c \in Clients, Reply(c) PROVE XenBusIInv'
<1> USE XenBusAssumption, NullAssumption DEF XenBusIInv, Reply, TakeReply, clients, request, watches,
                                             work, inbox, store, bounds, link
<1>a. /\ c = xb_request_mutex /\ arg[c] \in Requests /\ arg[c].by = c
      /\ xb_reply # NULL /\ ForHolder(xb_reply) /\ NoReply(Stream)
      /\ xb_msg # NULL => ~IsReply(xb_msg)
  BY DEF Waiting, Replied
<1>b. xb_reply \in Replies /\ req = <<>>
  BY <1>a DEF Replied, TypeOK
<1>c. /\ \A d \in Clients \ {c} : pc'[d] = pc[d] /\ arg'[d] = arg[d] /\ pc[d] # "wait"
      /\ c # Pm => pc'[c] = "idle" /\ arg'[c] = NULL
      /\ c = Pm => /\ arg' = arg
                   /\ pc'[c] = IF arg[c].type = "WATCH" THEN "watch" ELSE "unwatch"
  BY <1>a DEF TypeOK, Waiting
<1>d. /\ xb_request_mutex' = NoOne /\ xb_reply' = NULL /\ xb_request_complete_event' = FALSE
      /\ Stream' = Stream /\ UNCHANGED <<req, xb_msg, xb_msg_offset, ServiceRoutine, suspends,
                                         failures, halted, registered>>
  BY DEF Stream
<1>e. \A i \in Slots : Active'[i] =>
        /\ Active[i]
        /\ ~(c \in Threads /\ arg[c].type = "WATCH" /\ xb_reply.type = "ERROR" /\ arg[c].slot = i)
  BY DEF TypeOK
<1>f. /\ pc' \in [Clients -> {"idle", "request", "wait", "unwatch", "disconnect", "asleep",
                            "watch", "fault"}]
      /\ arg' \in [Clients -> Requests \cup {NULL}]
      /\ Active' \in [Slots -> BOOLEAN] /\ callee' \in Threads \cup {NoOne}
  BY DEF TypeOK
<1>1. TypeOK'
  <2>1. TypeOK
    OBVIOUS
  <2>2. UNCHANGED <<workitems, ServiceRoutine, Path, inbox, req, rsp, store, bounds, link, removed>>
    OBVIOUS
  <2> HIDE DEF XenBusIInv, Reply, TakeReply
  <2> QED BY <1>d, <1>f, <2>1, <2>2 DEF TypeOK
<1>2. Waiting'
  <2>1. ASSUME NEW d \in Clients
        PROVE  /\ pc'[d] = "wait" <=> xb_request_mutex' = d
               /\ pc'[d] \in {"request", "wait"} => arg'[d] \in Requests /\ arg'[d].by = d
               /\ pc'[d] = "idle" => arg'[d] = NULL
    BY <1>a, <1>c, <1>d DEF Waiting
  <2>2. Worker \in Clients /\ Worker # Pm
    BY DEF Clients
  <2>3. arg'[Worker] # NULL => arg'[Worker].type = "READ"
    BY <1>c, <2>2 DEF Waiting
  <2> QED BY <2>1, <2>3 DEF Waiting
<1>3. InStream'
  BY SameStream
<1>4. Replied'
  <2>1. OneReply(Stream)
    BY DEF Replied
  <2> HIDE DEF XenBusIInv, Reply, TakeReply
  <2> QED BY <1>a, <1>b, <1>d, <2>1 DEF Replied, NoReply
<1>5. Entries'
  BY DEF Entries, TypeOK, Waiting, Clients
<1>6. Loops'
  <2>1. Pm \in Clients
    BY DEF Clients
  <2>2. /\ pc[Pm] = "idle" /\ halted => \A i \in Slots : ~Active[i]
        /\ \/ pc'[Pm] = pc[Pm] /\ arg'[Pm] = arg[Pm]
           \/ /\ pc[Pm] = "wait" /\ arg'[Pm] = arg[Pm] /\ arg[Pm] \in Requests
              /\ pc'[Pm] = IF arg[Pm].type = "WATCH" THEN "watch" ELSE "unwatch"
    BY <1>a, <1>c, <2>1 DEF Loops
  <2>3. Loops
    OBVIOUS
  <2> HIDE DEF XenBusIInv, Reply, TakeReply
  <2>4. CASE pc'[Pm] = pc[Pm] /\ arg'[Pm] = arg[Pm]
    BY <1>d, <1>e, <2>3, <2>4 DEF Loops, Ahead
  <2>5. CASE /\ pc[Pm] = "wait" /\ arg'[Pm] = arg[Pm] /\ arg[Pm] \in Requests
             /\ pc'[Pm] = IF arg[Pm].type = "WATCH" THEN "watch" ELSE "unwatch"
    BY <1>d, <1>e, <2>3, <2>5 DEF Loops, Ahead, Requests, Types
  <2> QED BY <2>2, <2>4, <2>5
<1>7. Registered'
  <2> SUFFICES ASSUME suspends' = 0 \/ failures' = 0, NEW i \in Slots, Active'[i]
               PROVE  (<<ServiceRoutine[i], i>> \in registered \/ Setting(i) \/ Resetting(i))'
    BY DEF Registered
  <2>1. Active[i] /\ (<<ServiceRoutine[i], i>> \in registered \/ Setting(i) \/ Resetting(i))
    BY <1>d, <1>e DEF Registered
  <2>2. ServiceRoutine[i] \in Threads /\ Pm \in Clients /\ Pm \notin Threads
    BY <2>1 DEF Entries, Clients
  <2>3. ASSUME Setting(i) PROVE Setting(i)'
    <3>1. CASE ServiceRoutine[i] = c
      <4>1. xb_reply.type = "ERROR"
        BY <1>a, <1>b, <2>3, <3>1 DEF Setting, Granted, Replies
      <4>2. arg[c].type = "WATCH" /\ arg[c].slot = i /\ c \in Threads
        BY <2>2, <2>3, <3>1 DEF Setting
      <4> QED BY <4>1, <4>2, <1>e
    <3>2. CASE ServiceRoutine[i] # c
      <4>1. ServiceRoutine[i] \in Clients
        BY <2>2 DEF Clients
      <4> QED BY <4>1, <1>c, <1>d, <2>3, <3>2 DEF Setting
    <3> QED BY <3>1, <3>2
  <2>4. ASSUME Resetting(i) PROVE Resetting(i)'
    <3>1. CASE c = Pm
      <4>1. pc[Pm] = "wait" /\ arg[Pm] \in Requests /\ arg[Pm].type \in {"WATCH", "UNWATCH"}
        BY <1>a, <3>1 DEF Waiting, Loops, Requests, Types
      <4>2. arg[Pm].type = "UNWATCH" \/ i \in Ahead
        BY <1>b, <2>4, <4>1 DEF Resetting
      <4>3. /\ arg'[Pm] = arg[Pm] /\ Ahead' = Ahead
            /\ pc'[Pm] = IF arg[Pm].type = "WATCH" THEN "watch" ELSE "unwatch"
        BY <1>c, <3>1 DEF Ahead
      <4> HIDE DEF XenBusIInv, Reply, TakeReply, Ahead
      <4>4. CASE arg[Pm].type = "UNWATCH"
        BY <4>3, <4>4 DEF Resetting
      <4>5. CASE arg[Pm].type = "WATCH"
        BY <4>2, <4>3, <4>5 DEF Resetting
      <4> QED BY <4>1, <4>4, <4>5
    <3>2. CASE c # Pm
      <4> HIDE DEF XenBusIInv, Reply, TakeReply
      <4> QED BY <1>c, <1>d, <2>2, <2>4, <3>2 DEF Resetting, Ahead
    <3> QED BY <3>1, <3>2
  <2> QED BY <1>d, <2>1, <2>3, <2>4
<1> QED BY <1>1, <1>2, <1>3, <1>4, <1>5, <1>6, <1>7

LEMMA ReadKeeps == ASSUME XenBusIInv, NEW t \in Threads, Read(t) PROVE XenBusIInv'
<1> USE XenBusAssumption, NullAssumption DEF XenBusIInv, Read, Ask, clients, request, watches, work,
                                             inbox, store, bounds, link
<1>a. /\ Waiting'
      /\ \A d \in Clients \ {t} : pc'[d] = pc[d] /\ arg'[d] = arg[d]
  <2>1. 0 \in Slots /\ "READ" \in Types /\ t \in Clients /\ t # Worker
    BY DEF Slots, Types, Clients
  <2> QED BY <2>1, Asked
<1>1. TypeOK'
  BY DEF TypeOK, Clients, Requests, Types, Slots
<1>2. Waiting'
  BY <1>a
<1>3. InStream'
  BY SameStream
<1>4. Replied'
  BY SameReply DEF Waiting, TypeOK, Clients
<1>5. Entries'
  BY DEF Entries, TypeOK, Waiting, Clients
<1>6. Loops'
  BY DEF Loops, TypeOK, Waiting, Clients, Requests, Slots, Ahead
<1>7. Registered'
  BY DEF Registered, Setting, Resetting, Granted, Stream, TypeOK, Waiting, Entries, Loops,
         Clients, Ahead, Slots
<1> QED BY <1>1, <1>2, <1>3, <1>4, <1>5, <1>6, <1>7

LEMMA AddWatchKeeps == ASSUME XenBusIInv, NEW t \in Threads, AddWatch(t) PROVE XenBusIInv'
<1> USE XenBusAssumption, NullAssumption DEF XenBusIInv, AddWatch, Ask, clients, request, watches,
                                             work, inbox, store, bounds, link
<1>a. PICK x \in Slots : Ask(t, "WATCH", x)
  OBVIOUS
<1>b. Waiting'
  <2>1. "WATCH" \in Types /\ t \in Clients /\ t # Worker
    BY DEF Types, Clients
  <2> QED BY <1>a, <2>1, Asked
<1>1. TypeOK'
  BY DEF TypeOK, Clients, Requests, Types, Slots
<1>2. Waiting'
  BY <1>b
<1>3. InStream'
  BY SameStream
<1>4. Replied'
  BY SameReply DEF Waiting, TypeOK, Clients
<1>5. Entries'
  BY DEF Entries, TypeOK, Waiting, Clients
<1>6. Loops'
  BY DEF Loops, TypeOK, Waiting, Clients, Requests, Slots, Ahead
<1>7. Registered'
  <2>1. PICK n \in Slots : /\ ~Active[n] /\ Active' = [Active EXCEPT ![n] = TRUE]
                            /\ ServiceRoutine' = [ServiceRoutine EXCEPT ![n] = t]
                            /\ Ask(t, "WATCH", n)
    OBVIOUS
  <2> SUFFICES ASSUME suspends' = 0 \/ failures' = 0, NEW i \in Slots, Active'[i]
               PROVE  (<<ServiceRoutine[i], i>> \in registered \/ Setting(i) \/ Resetting(i))'
    BY DEF Registered
  <2>2. t \in Clients /\ "WATCH" \in Types /\ t # Worker /\ t # Pm /\ Pm \in Clients
    BY DEF Clients, Types
  <2>3. /\ pc'[t] = "request" /\ arg'[t] \in Requests /\ arg'[t].type = "WATCH" /\ arg'[t].slot = n
        /\ \A d \in Clients \ {t} : pc'[d] = pc[d] /\ arg'[d] = arg[d]
    <3>1. pc[t] # "wait" /\ xb_request_mutex' = xb_request_mutex /\ TypeOK /\ Waiting
      OBVIOUS
    <3> HIDE DEF XenBusIInv, AddWatch, Ask
    <3> QED BY <2>1, <2>2, <3>1, Asked
  <2>4. CASE i = n
    <3>1. ServiceRoutine'[i] = t
      BY <2>1, <2>4 DEF TypeOK
    <3> QED BY <3>1, <2>3, <2>4 DEF Setting
  <2>5. CASE i # n
    <3>1. Active[i] /\ ServiceRoutine'[i] = ServiceRoutine[i]
      BY <2>1, <2>5 DEF TypeOK
    <3>2. ServiceRoutine[i] \in Clients /\ ServiceRoutine[i] # t
      BY <3>1 DEF Entries, Clients
    <3>3. Setting(i) => Setting(i)'
      BY <3>1, <3>2, <2>3, SameGranted DEF Setting
    <3>4. Resetting(i) => Resetting(i)'
      BY <3>1, <2>2, <2>3 DEF Resetting, Ahead
    <3>5. <<ServiceRoutine[i], i>> \in registered \/ Setting(i) \/ Resetting(i)
      BY <3>1 DEF Registered
    <3> QED BY <3>1, <3>3, <3>4, <3>5
  <2> QED BY <2>4, <2>5
<1> QED BY <1>1, <1>2, <1>3, <1>4, <1>5, <1>6, <1>7

LEMMA RemWatchKeeps == ASSUME XenBusIInv, NEW t \in Threads, RemWatch(t) PROVE XenBusIInv'
<1> USE XenBusAssumption, NullAssumption DEF XenBusIInv, RemWatch, Ask, clients, request, watches,
                                             work, inbox, store, bounds, link
<1>a. PICK x \in Slots : Ask(t, "UNWATCH", x)
  OBVIOUS
<1>b. Waiting'
  <2>1. "UNWATCH" \in Types /\ t \in Clients /\ t # Worker
    BY DEF Types, Clients
  <2> QED BY <1>a, <2>1, Asked
<1>1. TypeOK'
  BY DEF TypeOK, Clients, Requests, Types, Slots
<1>2. Waiting'
  BY <1>b
<1>3. InStream'
  BY SameStream
<1>4. Replied'
  BY SameReply DEF Waiting, TypeOK, Clients
<1>5. Entries'
  BY DEF Entries, TypeOK, Waiting, Clients
<1>6. Loops'
  BY DEF Loops, TypeOK, Waiting, Clients, Requests, Slots, Ahead
<1>7. Registered'
  BY DEF Registered, Setting, Resetting, Granted, Stream, TypeOK, Waiting, Entries, Loops,
         Clients, Ahead, Slots
<1> QED BY <1>1, <1>2, <1>3, <1>4, <1>5, <1>6, <1>7

LEMMA DpcStartKeeps == ASSUME XenBusIInv, DpcStart PROVE XenBusIInv'
<1> USE XenBusAssumption, NullAssumption DEF XenBusIInv, DpcStart, clients, request, watches, work,
                                             inbox, store, bounds, link
<1>1. TypeOK'
  BY DEF TypeOK
<1>2. Waiting'
  BY DEF Waiting, TypeOK, Clients, Requests
<1>3. InStream'
  BY SameStream
<1>4. Replied'
  BY SameReply DEF Waiting, TypeOK, Clients
<1>5. Entries'
  BY DEF Entries, TypeOK, Waiting, Clients
<1>6. Loops'
  BY DEF Loops, TypeOK, Waiting, Clients, Requests, Slots, Ahead
<1>7. Registered'
  BY DEF Registered, Setting, Resetting, Granted, Stream, TypeOK, Waiting, Entries, Loops,
         Clients, Ahead, Slots
<1> QED BY <1>1, <1>2, <1>3, <1>4, <1>5, <1>6, <1>7

LEMMA DpcDoneKeeps == ASSUME XenBusIInv, DpcDone PROVE XenBusIInv'
<1> USE XenBusAssumption, NullAssumption DEF XenBusIInv, DpcDone, clients, request, watches, work,
                                             inbox, store, bounds, link
<1>1. TypeOK'
  BY DEF TypeOK
<1>2. Waiting'
  BY DEF Waiting, TypeOK, Clients, Requests
<1>3. InStream'
  BY SameStream
<1>4. Replied'
  BY SameReply DEF Waiting, TypeOK, Clients
<1>5. Entries'
  BY DEF Entries, TypeOK, Waiting, Clients
<1>6. Loops'
  BY DEF Loops, TypeOK, Waiting, Clients, Requests, Slots, Ahead
<1>7. Registered'
  BY DEF Registered, Setting, Resetting, Granted, Stream, TypeOK, Waiting, Entries, Loops,
         Clients, Ahead, Slots
<1> QED BY <1>1, <1>2, <1>3, <1>4, <1>5, <1>6, <1>7

LEMMA DpcPartialKeeps == ASSUME XenBusIInv, DpcPartial PROVE XenBusIInv'
<1> USE XenBusAssumption, NullAssumption DEF XenBusIInv, DpcPartial, Notify, clients, request, watches,
                                             work, inbox, store, bounds, link
<1>a. /\ Msg \in Messages /\ xb_msg = NULL
      /\ InOrder(out) /\ Ends(out) /\ OneReply(out) /\ Begins(out, Msg, HEADER)
      /\ \A k \in 1 .. Len(out) : \E j \in 1 .. Len(Stream) : out[k] = Stream[j]
      /\ \E j \in 1 .. Len(Stream) : Stream[j][1] = Msg
      /\ IsReply(Msg) => /\ ForHolder(Msg)
                         /\ \A k \in 1 .. Len(out) : IsReply(out[k][1]) => k = 1
  BY Parted
<1>b. /\ out \in Seq(Chunk) /\ <<>> \o out = out
  BY StreamType, ConcatEmptySeq
<1>c. /\ Stream' = out /\ rsp' = <<>> /\ out' = out /\ xb_msg' = Msg /\ xb_msg_offset' = HEADER
      /\ UNCHANGED <<pc, arg, xb_request_mutex, req, xb_reply, xb_request_complete_event>>
  BY <1>b DEF Stream
<1>1. TypeOK'
  <2>1. rsp' \in Seq(Messages \X (1 .. HEADER + 1)) /\ Len(rsp') <= RING
    BY <1>c, EmptySeq, XenBusAssumption
  <2>2. xb_msg' \in Messages \cup {NULL} /\ xb_msg_offset' \in 0 .. HEADER + 1 /\ awake' \in BOOLEAN
    BY <1>a, <1>c DEF HEADER
  <2>3. UNCHANGED <<clients, request, watches, work, evt, req, registered, out, bounds, link,
                    removed>>
        /\ dpc' \in BOOLEAN /\ TypeOK
    OBVIOUS
  <2> HIDE DEF XenBusIInv, DpcPartial, Notify
  <2> QED BY <2>1, <2>2, <2>3 DEF TypeOK
<1>2. Waiting'
  BY DEF Waiting, TypeOK, Clients, Requests
<1>3. InStream'
  <2> HIDE DEF XenBusIInv, DpcPartial
  <2> QED BY <1>a, <1>c DEF InStream
<1>4. Replied'
  <2>1. Replied
    OBVIOUS
  <2>2. \A k \in 1 .. Len(out) : IsReply(out[k][1]) => ForHolder(out[k][1])
    BY <1>a, <2>1 DEF Replied
  <2>3. NoReply(Stream) => NoReply(out) /\ ~IsReply(Msg)
    BY <1>a DEF NoReply
  <2> HIDE DEF XenBusIInv, DpcPartial
  <2> QED BY <1>a, <1>c, <2>1, <2>2, <2>3 DEF Replied, ForHolder, NoReply, IsReply
<1>5. Entries'
  BY DEF Entries, TypeOK, Waiting, Clients
<1>6. Loops'
  BY DEF Loops, TypeOK, Waiting, Clients, Requests, Slots, Ahead
<1>7. Registered'
  <2>1. Granted' => Granted
    BY <1>a, <1>c DEF Granted
  <2> QED BY <2>1, RegisteredStands DEF TypeOK
<1> QED BY <1>1, <1>2, <1>3, <1>4, <1>5, <1>6, <1>7

LEMMA DpcReplyKeeps == ASSUME XenBusIInv, DpcReply PROVE XenBusIInv'
<1> USE XenBusAssumption, NullAssumption DEF XenBusIInv, DpcReply, Notify, clients, request, watches,
                                             work, inbox, store, bounds, link
<1>a. /\ Msg \in Messages
      /\ Body \in Seq(Chunk) /\ Len(Body) <= Len(rsp) /\ Body \o out \in Seq(Chunk)
      /\ InOrder(Body \o out) /\ Ends(Body \o out)
      /\ Body \o out # <<>> => (Body \o out)[1][2] = 1
      /\ OneReply(Body \o out)
      /\ \A k \in 1 .. Len(Body \o out) : \E j \in 1 .. Len(Stream) : (Body \o out)[k] = Stream[j]
      /\ IsReply(Msg) => ForHolder(Msg) /\ NoReply(Body \o out)
      /\ xb_msg = NULL \/ Msg = xb_msg
      /\ xb_msg = Msg \/ \E j \in 1 .. Len(Stream) : Stream[j][1] = Msg
  BY Consumed
<1>b. Stream' = Body \o out /\ rsp' = Body /\ out' = out /\ IsReply(Msg)
  BY DEF Stream
<1>c. xb_msg' = NULL /\ xb_msg_offset' = 0 /\ UNCHANGED <<pc, arg, xb_request_mutex, req>>
  OBVIOUS
<1>d. Len(Body) <= RING
  BY <1>a DEF TypeOK
<1>e. Msg \in Replies
  BY <1>a, <1>b DEF IsReply, Messages, Replies, Events
<1>1. TypeOK'
  BY <1>a, <1>b, <1>c, <1>d, <1>e DEF TypeOK, Chunk, HEADER, Messages
<1>2. Waiting'
  BY DEF Waiting, TypeOK, Clients, Requests
<1>3. InStream'
  <2> HIDE DEF XenBusIInv, DpcReply
  <2> QED BY <1>a, <1>b, <1>c, NullAssumption DEF InStream, Begins, HEADER
<1>4. Replied'
  <2>1. Msg # NULL /\ xb_reply' = Msg /\ xb_request_complete_event' = TRUE
    BY <1>a
  <2>2. req = <<>>
    BY <1>a, <1>b DEF Replied, NoReply
  <2> HIDE DEF XenBusIInv, DpcReply
  <2> QED BY <1>a, <1>b, <1>c, <2>1, <2>2 DEF Replied, NoReply, ForHolder
<1>5. Entries'
  BY DEF Entries, TypeOK, Waiting, Clients
<1>6. Loops'
  BY DEF Loops, TypeOK, Waiting, Clients, Requests, Slots, Ahead
<1>7. Registered'
  <2>1. Granted' => Granted
    BY <1>a, <1>b, <1>c DEF Granted, IsReply, NoReply
  <2> QED BY <2>1, RegisteredStands DEF TypeOK
<1> QED BY <1>1, <1>2, <1>3, <1>4, <1>5, <1>6, <1>7

LEMMA DpcWatchKeeps == ASSUME XenBusIInv, DpcWatch PROVE XenBusIInv'
<1> USE XenBusAssumption, NullAssumption DEF XenBusIInv, DpcWatch, Notify, clients, request, watches,
                                             work, inbox, store, bounds, link
<1>a. /\ Msg \in Messages
      /\ Body \in Seq(Chunk) /\ Len(Body) <= Len(rsp) /\ Body \o out \in Seq(Chunk)
      /\ InOrder(Body \o out) /\ Ends(Body \o out)
      /\ Body \o out # <<>> => (Body \o out)[1][2] = 1
      /\ OneReply(Body \o out)
      /\ \A k \in 1 .. Len(Body \o out) : \E j \in 1 .. Len(Stream) : (Body \o out)[k] = Stream[j]
      /\ IsReply(Msg) => ForHolder(Msg) /\ NoReply(Body \o out)
      /\ xb_msg = NULL \/ Msg = xb_msg
      /\ xb_msg = Msg \/ \E j \in 1 .. Len(Stream) : Stream[j][1] = Msg
  BY Consumed
<1>b. Stream' = Body \o out /\ rsp' = Body /\ out' = out /\ ~IsReply(Msg)
  BY DEF Stream
<1>c. xb_msg' = NULL /\ xb_msg_offset' = 0 /\ UNCHANGED <<pc, arg, xb_request_mutex, req>>
  OBVIOUS
<1>d. Len(Body) <= RING
  BY <1>a DEF TypeOK
<1>e. Msg \in Events
  BY <1>a, <1>b DEF IsReply, Messages, Replies, Events
<1>1. TypeOK'
  BY <1>a, <1>b, <1>c, <1>d, <1>e DEF TypeOK, Chunk, HEADER, Messages
<1>2. Waiting'
  BY DEF Waiting, TypeOK, Clients, Requests
<1>3. InStream'
  <2> HIDE DEF XenBusIInv, DpcWatch
  <2> QED BY <1>a, <1>b, <1>c, NullAssumption DEF InStream, Begins, HEADER
<1>4. Replied'
  <2>1. UNCHANGED <<xb_reply, xb_request_complete_event>> /\ Replied
    OBVIOUS
  <2>2. \A k \in 1 .. Len(Stream') : IsReply(Stream'[k][1]) =>
          \E j \in 1 .. Len(Stream) : IsReply(Stream[j][1]) /\ Stream[j] = Stream'[k]
    BY <1>a, <1>b DEF IsReply
  <2>3. \A k \in 1 .. Len(Stream') : IsReply(Stream'[k][1]) => ForHolder(Stream'[k][1])
    BY <2>1, <2>2 DEF Replied
  <2>4. NoReply(Stream) => NoReply(Stream')
    BY <2>2 DEF NoReply
  <2>5. xb_msg' # NULL => ~IsReply(xb_msg')
    BY <1>b, <1>c DEF IsReply
  <2> HIDE DEF XenBusIInv, DpcWatch
  <2> QED BY <1>a, <1>b, <1>c, <2>1, <2>3, <2>4, <2>5 DEF Replied, ForHolder, NoReply, IsReply
<1>5. Entries'
  BY DEF Entries, TypeOK, Waiting, Clients
<1>6. Loops'
  BY DEF Loops, TypeOK, Waiting, Clients, Requests, Slots, Ahead
<1>7. Registered'
  <2>1. Granted' => Granted
    BY <1>a, <1>b, <1>c DEF Granted, IsReply, NoReply
  <2> QED BY <2>1, RegisteredStands DEF TypeOK
<1> QED BY <1>1, <1>2, <1>3, <1>4, <1>5, <1>6, <1>7

LEMMA DpcWatchFailsKeeps == ASSUME XenBusIInv, DpcWatchFails PROVE XenBusIInv'
<1> USE XenBusAssumption, NullAssumption DEF XenBusIInv, DpcWatchFails, clients, request, watches,
                                             work, inbox, store, bounds, link
<1>a. /\ Msg \in Messages
      /\ Body \in Seq(Chunk) /\ Len(Body) <= Len(rsp) /\ Body \o out \in Seq(Chunk)
      /\ InOrder(Body \o out) /\ Ends(Body \o out)
      /\ Body \o out # <<>> => (Body \o out)[1][2] = 1
      /\ OneReply(Body \o out)
      /\ \A k \in 1 .. Len(Body \o out) : \E j \in 1 .. Len(Stream) : (Body \o out)[k] = Stream[j]
      /\ IsReply(Msg) => ForHolder(Msg) /\ NoReply(Body \o out)
      /\ xb_msg = NULL \/ Msg = xb_msg
      /\ xb_msg = Msg \/ \E j \in 1 .. Len(Stream) : Stream[j][1] = Msg
  BY Consumed
<1>b. Stream' = Body \o out /\ rsp' = Body /\ out' = out /\ ~IsReply(Msg)
  BY DEF Stream
<1>c. xb_msg' = Msg /\ xb_msg_offset' = HEADER + 1 /\ UNCHANGED <<pc, arg, xb_request_mutex, req>>
  OBVIOUS
<1>d. Len(Body) <= RING
  BY <1>a DEF TypeOK
<1>e. Msg \in Events
  BY <1>a, <1>b DEF IsReply, Messages, Replies, Events
<1>1. TypeOK'
  BY <1>a, <1>b, <1>c, <1>d, <1>e DEF TypeOK, Chunk, HEADER, Messages
<1>2. Waiting'
  BY DEF Waiting, TypeOK, Clients, Requests
<1>3. InStream'
  <2> HIDE DEF XenBusIInv, DpcWatchFails
  <2> QED BY <1>a, <1>b, <1>c, NullAssumption DEF InStream, Begins, HEADER
<1>4. Replied'
  <2>1. UNCHANGED <<xb_reply, xb_request_complete_event>> /\ Replied
    OBVIOUS
  <2>2. \A k \in 1 .. Len(Stream') : IsReply(Stream'[k][1]) =>
          \E j \in 1 .. Len(Stream) : IsReply(Stream[j][1]) /\ Stream[j] = Stream'[k]
    BY <1>a, <1>b DEF IsReply
  <2>3. \A k \in 1 .. Len(Stream') : IsReply(Stream'[k][1]) => ForHolder(Stream'[k][1])
    BY <2>1, <2>2 DEF Replied
  <2>4. NoReply(Stream) => NoReply(Stream')
    BY <2>2 DEF NoReply
  <2>5. xb_msg' # NULL => ~IsReply(xb_msg')
    BY <1>b, <1>c DEF IsReply
  <2> HIDE DEF XenBusIInv, DpcWatchFails
  <2> QED BY <1>a, <1>b, <1>c, <2>1, <2>3, <2>4, <2>5 DEF Replied, ForHolder, NoReply, IsReply
<1>5. Entries'
  BY DEF Entries, TypeOK, Waiting, Clients
<1>6. Loops'
  BY DEF Loops, TypeOK, Waiting, Clients, Requests, Slots, Ahead
<1>7. Registered'
  <2>1. Granted' => Granted
    BY <1>a, <1>b, <1>c DEF Granted, IsReply, NoReply
  <2> QED BY <2>1, RegisteredStands DEF TypeOK
<1> QED BY <1>1, <1>2, <1>3, <1>4, <1>5, <1>6, <1>7

LEMMA WorkItemKeeps == ASSUME XenBusIInv, NEW m \in workitems, WorkItem(m) PROVE XenBusIInv'
<1> USE XenBusAssumption, NullAssumption DEF XenBusIInv, WorkItem, Call, clients, request, watches,
                                             work, inbox, store, bounds, link
<1>a. m \in Events /\ m.slot \in Slots
  BY DEF TypeOK, Events
<1>b. callee' \in Threads \ removed
  BY <1>a DEF Entries
<1>1. TypeOK'
  BY <1>b DEF TypeOK
<1>2. Waiting'
  BY DEF Waiting, TypeOK, Clients, Requests
<1>3. InStream'
  BY SameStream
<1>4. Replied'
  BY SameReply DEF Waiting, TypeOK, Clients
<1>5. Entries'
  BY <1>b DEF Entries
<1>6. Loops'
  BY DEF Loops, TypeOK, Waiting, Clients, Requests, Slots, Ahead
<1>7. Registered'
  BY DEF Registered, Setting, Resetting, Granted, Stream, TypeOK, Waiting, Entries, Loops,
         Clients, Ahead, Slots
<1> QED BY <1>1, <1>2, <1>3, <1>4, <1>5, <1>6, <1>7

LEMMA WorkItemStaleKeeps == ASSUME XenBusIInv, NEW m \in workitems, WorkItemStale(m) PROVE XenBusIInv'
<1> USE XenBusAssumption, NullAssumption DEF XenBusIInv, WorkItemStale, clients, request, watches,
                                             work, inbox, store, bounds, link
<1>1. TypeOK'
  BY DEF TypeOK, Clients, Requests, Types, Slots
<1>2. Waiting'
  BY DEF Waiting, TypeOK, Clients, Requests
<1>3. InStream'
  BY SameStream
<1>4. Replied'
  BY SameReply DEF Waiting, TypeOK, Clients
<1>5. Entries'
  BY DEF Entries, TypeOK, Waiting, Clients
<1>6. Loops'
  BY DEF Loops, TypeOK, Waiting, Clients, Requests, Slots, Ahead
<1>7. Registered'
  BY DEF Registered, Setting, Resetting, Granted, Stream, TypeOK, Waiting, Entries, Loops,
         Clients, Ahead, Slots
<1> QED BY <1>1, <1>2, <1>3, <1>4, <1>5, <1>6, <1>7

LEMMA HandlerReadKeeps == ASSUME XenBusIInv, HandlerRead PROVE XenBusIInv'
<1> USE XenBusAssumption, NullAssumption DEF XenBusIInv, HandlerRead, Ask, clients, request, watches,
                                             work, inbox, store, bounds, link
<1>a. Waiting'
  <2>1. 0 \in Slots /\ "READ" \in Types /\ Worker \in Clients
    BY DEF Slots, Types, Clients
  <2> QED BY <2>1, Asked
<1>1. TypeOK'
  BY DEF TypeOK, Clients, Requests, Types, Slots
<1>2. Waiting'
  BY <1>a
<1>3. InStream'
  BY SameStream
<1>4. Replied'
  BY SameReply DEF Waiting, TypeOK, Clients
<1>5. Entries'
  BY DEF Entries, TypeOK, Waiting, Clients
<1>6. Loops'
  BY DEF Loops, TypeOK, Waiting, Clients, Requests, Slots, Ahead
<1>7. Registered'
  BY DEF Registered, Setting, Resetting, Granted, Stream, TypeOK, Waiting, Entries, Loops,
         Clients, Ahead, Slots
<1> QED BY <1>1, <1>2, <1>3, <1>4, <1>5, <1>6, <1>7

LEMMA HandlerReturnKeeps == ASSUME XenBusIInv, HandlerReturn PROVE XenBusIInv'
<1> USE XenBusAssumption, NullAssumption DEF XenBusIInv, HandlerReturn, clients, request, watches,
                                             work, inbox, store, bounds, link
<1>1. TypeOK'
  BY DEF TypeOK, Clients, Requests, Types, Slots
<1>2. Waiting'
  BY DEF Waiting, TypeOK, Clients, Requests
<1>3. InStream'
  BY SameStream
<1>4. Replied'
  BY SameReply DEF Waiting, TypeOK, Clients
<1>5. Entries'
  BY DEF Entries, TypeOK, Waiting, Clients
<1>6. Loops'
  BY DEF Loops, TypeOK, Waiting, Clients, Requests, Slots, Ahead
<1>7. Registered'
  BY DEF Registered, Setting, Resetting, Granted, Stream, TypeOK, Waiting, Entries, Loops,
         Clients, Ahead, Slots
<1> QED BY <1>1, <1>2, <1>3, <1>4, <1>5, <1>6, <1>7

LEMMA SuspendKeeps == ASSUME XenBusIInv, Suspend PROVE XenBusIInv'
<1> USE XenBusAssumption, NullAssumption DEF XenBusIInv, Suspend, clients, request, watches, work,
                                             inbox, store, bounds, link
<1>1. TypeOK'
  BY DEF TypeOK, Clients, Requests, Types, Slots
<1>2. Waiting'
  BY DEF Waiting, TypeOK, Clients, Requests
<1>3. InStream'
  BY SameStream
<1>4. Replied'
  BY SameReply DEF Waiting, TypeOK, Clients
<1>5. Entries'
  BY DEF Entries, TypeOK, Waiting, Clients
<1>6. Loops'
  BY DEF Loops, TypeOK, Waiting, Clients, Requests, Slots, Ahead
<1>7. Registered'
  BY DEF Registered, Setting, Resetting, Granted, Stream, TypeOK, Waiting, Entries, Loops,
         Clients, Ahead, Slots
<1> QED BY <1>1, <1>2, <1>3, <1>4, <1>5, <1>6, <1>7

LEMMA SuspendWatchesKeeps == ASSUME XenBusIInv, SuspendWatches PROVE XenBusIInv'
<1> USE XenBusAssumption, NullAssumption DEF XenBusIInv, SuspendWatches, ForNext, Ask, Ahead, clients,
                                             request, watches, work, inbox, store, bounds, link
<1>a. /\ Pm \in Clients /\ Pm # Worker /\ pc[Pm] # "wait" /\ "UNWATCH" \in Types
      /\ xb_request_mutex' = xb_request_mutex
  BY DEF Clients, Types
<1>b. /\ pc' \in [Clients -> {"idle", "request", "wait", "unwatch", "disconnect", "asleep",
                              "watch", "fault"}]
      /\ arg' \in [Clients -> Requests \cup {NULL}]
      /\ Waiting'
      /\ \A d \in Clients \ {Pm} : pc'[d] = pc[d] /\ arg'[d] = arg[d]
      /\ \/ /\ pc'[Pm] = "request" /\ arg'[Pm] \in Requests /\ arg'[Pm].type = "UNWATCH"
            /\ arg'[Pm].slot \in Ahead /\ Active[arg'[Pm].slot]
            /\ \A j \in Ahead : Active[j] => j >= arg'[Pm].slot
         \/ pc'[Pm] = "disconnect" /\ arg'[Pm] = NULL /\ \A j \in Ahead : ~Active[j]
  <2>1. CASE \E i \in Ahead : Active[i] /\ (\A j \in Ahead : Active[j] => j >= i)
                              /\ Ask(Pm, "UNWATCH", i)
    <3>1. PICK i \in Ahead : Active[i] /\ (\A j \in Ahead : Active[j] => j >= i)
                             /\ Ask(Pm, "UNWATCH", i)
      BY <2>1
    <3>2. i \in Slots
      BY DEF Ahead
    <3>3. /\ Waiting'
          /\ pc' \in [Clients -> {"idle", "request", "wait", "unwatch", "disconnect", "asleep",
                                  "watch", "fault"}]
          /\ arg' \in [Clients -> Requests \cup {NULL}]
          /\ pc'[Pm] = "request" /\ arg'[Pm] \in Requests
          /\ arg'[Pm].type = "UNWATCH" /\ arg'[Pm].slot = i
          /\ \A d \in Clients \ {Pm} : pc'[d] = pc[d] /\ arg'[d] = arg[d]
      <4> HIDE DEF SuspendWatches, ForNext, Ask, Ahead
      <4> QED BY <1>a, <3>1, <3>2, Asked
    <3> HIDE DEF SuspendWatches, ForNext, Ask, Ahead, XenBusIInv
    <3> QED BY <3>1, <3>3
  <2>2. CASE /\ \A i \in Ahead : ~Active[i]
             /\ pc' = [pc EXCEPT ![Pm] = "disconnect"] /\ arg' = [arg EXCEPT ![Pm] = NULL]
    BY <1>a, <2>2 DEF TypeOK, Waiting
  <2> QED BY <2>1, <2>2
<1>c. \A i \in Slots : Active'[i] => Active[i]
  BY <1>a, <1>b DEF TypeOK, Slots
<1>d. UNCHANGED <<ServiceRoutine, Path, callee, removed>>
  OBVIOUS
<1>1. TypeOK'
  BY <1>a, <1>b DEF TypeOK, Slots
<1>2. Waiting'
  BY <1>b
<1>3. InStream'
  BY SameStream
<1>4. Replied'
  BY <1>a, <1>b, SameReply DEF Waiting, TypeOK, Clients
<1>5. Entries'
  <2> HIDE DEF ForNext, Ask, Ahead, XenBusIInv, SuspendWatches
  <2>1. Entries
    BY DEF XenBusIInv
  <2>2. \A t \in Threads : arg'[t] = arg[t]
    BY <1>b, XenBusAssumption DEF Clients
  <2> QED BY <2>1, <2>2, <1>c, <1>d DEF Entries
<1>6. Loops'
  BY <1>a, <1>b DEF Loops, TypeOK, Requests, Slots, Ahead
<1>7. Registered'
  BY DEF Registered, Setting, Resetting, Granted, Stream, TypeOK, Waiting, Entries, Loops,
         Clients, Ahead, Slots
<1> QED BY <1>1, <1>2, <1>3, <1>4, <1>5, <1>6, <1>7

LEMMA DisconnectKeeps == ASSUME XenBusIInv, Disconnect PROVE XenBusIInv'
<1> USE XenBusAssumption, NullAssumption DEF XenBusIInv, Disconnect, clients, request, watches, work,
                                             inbox, store, bounds, link
<1>1. TypeOK'
  BY DEF TypeOK, Clients, Requests, Types, Slots
<1>2. Waiting'
  BY DEF Waiting, Loops, TypeOK, Clients
<1>3. InStream'
  BY SameStream
<1>4. Replied'
  BY SameReply DEF Waiting, TypeOK, Clients
<1>5. Entries'
  BY DEF Entries, TypeOK, Waiting, Clients
<1>6. Loops'
  BY DEF Loops, TypeOK, Waiting, Clients, Requests, Slots, Ahead
<1>7. Registered'
  BY DEF Registered, Setting, Resetting, Granted, Stream, TypeOK, Waiting, Entries, Loops,
         Clients, Ahead, Slots
<1> QED BY <1>1, <1>2, <1>3, <1>4, <1>5, <1>6, <1>7

LEMMA ConnectKeeps == ASSUME XenBusIInv, Connect PROVE XenBusIInv'
<1> USE XenBusAssumption, NullAssumption DEF XenBusIInv, Connect, clients, request, watches, work,
                                             inbox, store, bounds, link
<1>1. TypeOK'
  BY DEF TypeOK, Clients, Requests, Types, Slots
<1>2. Waiting'
  BY DEF Waiting, TypeOK, Clients, Requests
<1>3. InStream'
  BY SameStream
<1>4. Replied'
  BY SameReply DEF Waiting, TypeOK, Clients
<1>5. Entries'
  BY DEF Entries, TypeOK, Waiting, Clients
<1>6. Loops'
  BY DEF Loops, TypeOK, Waiting, Clients, Requests, Slots, Ahead
<1>7. Registered'
  BY DEF Registered, Setting, Resetting, Granted, Stream, TypeOK, Waiting, Entries, Loops,
         Clients, Ahead, Slots
<1> QED BY <1>1, <1>2, <1>3, <1>4, <1>5, <1>6, <1>7

LEMMA ResumeWatchesKeeps == ASSUME XenBusIInv, ResumeWatches PROVE XenBusIInv'
<1> USE XenBusAssumption, NullAssumption DEF XenBusIInv, ResumeWatches, ForNext, Ask, Ahead, clients,
                                             request, watches, work, inbox, store, bounds, link
<1>a. /\ Pm \in Clients /\ Pm # Worker /\ pc[Pm] # "wait" /\ "WATCH" \in Types
      /\ xb_request_mutex' = xb_request_mutex
  BY DEF Clients, Types
<1>b. /\ pc' \in [Clients -> {"idle", "request", "wait", "unwatch", "disconnect", "asleep",
                              "watch", "fault"}]
      /\ arg' \in [Clients -> Requests \cup {NULL}]
      /\ Waiting'
      /\ \A d \in Clients \ {Pm} : pc'[d] = pc[d] /\ arg'[d] = arg[d]
      /\ \/ /\ pc'[Pm] = "request" /\ arg'[Pm] \in Requests /\ arg'[Pm].type = "WATCH"
            /\ arg'[Pm].slot \in Ahead /\ Active[arg'[Pm].slot]
            /\ \A j \in Ahead : Active[j] => j >= arg'[Pm].slot
         \/ pc'[Pm] = "idle" /\ arg'[Pm] = NULL /\ \A j \in Ahead : ~Active[j]
  <2>1. CASE \E i \in Ahead : Active[i] /\ (\A j \in Ahead : Active[j] => j >= i)
                              /\ Ask(Pm, "WATCH", i)
    <3>1. PICK i \in Ahead : Active[i] /\ (\A j \in Ahead : Active[j] => j >= i)
                             /\ Ask(Pm, "WATCH", i)
      BY <2>1
    <3>2. i \in Slots
      BY DEF Ahead
    <3>3. /\ Waiting'
          /\ pc' \in [Clients -> {"idle", "request", "wait", "unwatch", "disconnect", "asleep",
                                  "watch", "fault"}]
          /\ arg' \in [Clients -> Requests \cup {NULL}]
          /\ pc'[Pm] = "request" /\ arg'[Pm] \in Requests
          /\ arg'[Pm].type = "WATCH" /\ arg'[Pm].slot = i
          /\ \A d \in Clients \ {Pm} : pc'[d] = pc[d] /\ arg'[d] = arg[d]
      <4> HIDE DEF ResumeWatches, ForNext, Ask, Ahead
      <4> QED BY <1>a, <3>1, <3>2, Asked
    <3> HIDE DEF ResumeWatches, ForNext, Ask, Ahead, XenBusIInv
    <3> QED BY <3>1, <3>3
  <2>2. CASE /\ \A i \in Ahead : ~Active[i]
             /\ pc' = [pc EXCEPT ![Pm] = "idle"] /\ arg' = [arg EXCEPT ![Pm] = NULL]
    BY <1>a, <2>2 DEF TypeOK, Waiting
  <2> QED BY <2>1, <2>2
<1>c. \A i \in Slots : Active'[i] => Active[i]
  BY <1>a, <1>b DEF TypeOK, Slots
<1>d. UNCHANGED <<ServiceRoutine, Path, callee, removed>>
  OBVIOUS
<1>1. TypeOK'
  BY <1>a, <1>b DEF TypeOK, Slots
<1>2. Waiting'
  BY <1>b
<1>3. InStream'
  BY SameStream
<1>4. Replied'
  BY <1>a, <1>b, SameReply DEF Waiting, TypeOK, Clients
<1>5. Entries'
  <2> HIDE DEF ForNext, Ask, Ahead, XenBusIInv, ResumeWatches
  <2>1. Entries
    BY DEF XenBusIInv
  <2>2. \A t \in Threads : arg'[t] = arg[t]
    BY <1>b, XenBusAssumption DEF Clients
  <2> QED BY <2>1, <2>2, <1>c, <1>d DEF Entries
<1>6. Loops'
  BY <1>a, <1>b DEF Loops, TypeOK, Requests, Slots, Ahead
<1>7. Registered'
  <2>1. /\ pc[Pm] = "watch" /\ Registered
        /\ UNCHANGED <<registered, suspends, failures, rsp, out, xb_msg, xb_reply>>
    OBVIOUS
  <2>2. \A i \in Slots : Resetting(i) => i \in Ahead
    <3> HIDE DEF Ahead, XenBusIInv, ResumeWatches, ForNext, Ask
    <3> QED BY <2>1 DEF Resetting
  <2>3. \A t \in Threads : pc'[t] = pc[t] /\ arg'[t] = arg[t]
    BY <1>b DEF Clients
  <2>4. \A i \in Slots : Active[i] => ServiceRoutine[i] \in Threads
    BY DEF Entries
  <2>5. \A i, j \in Slots : i >= j => i = j \/ i > j
    BY DEF Slots
  <2>6. \A i \in Ahead : i \in Slots
    OBVIOUS
  <2>7. \A i \in Slots : Active[i] /\ i \in Ahead => Resetting(i)'
    <3> SUFFICES ASSUME NEW i \in Slots, Active[i], i \in Ahead PROVE Resetting(i)'
      OBVIOUS
    <3>1. /\ pc'[Pm] = "request" /\ arg'[Pm] \in Requests /\ arg'[Pm].slot \in Slots
          /\ i >= arg'[Pm].slot
      <4> HIDE DEF Ahead, XenBusIInv, ResumeWatches, ForNext, Ask
      <4> QED BY <1>b, <2>6
    <3>2. i = arg'[Pm].slot \/ i > arg'[Pm].slot
      BY <2>5, <3>1
    <3>3. i > arg'[Pm].slot => i \in Ahead'
      BY <3>1 DEF Ahead
    <3> HIDE DEF Ahead, XenBusIInv, ResumeWatches, ForNext, Ask
    <3> QED BY <3>1, <3>2, <3>3 DEF Resetting
  <2> HIDE DEF Ahead, XenBusIInv, ResumeWatches, ForNext, Ask
  <2>8. Granted' = Granted
    BY <2>1 DEF Granted, Stream
  <2>9. \A i \in Slots : Active[i] /\ Setting(i) => Setting(i)'
    BY <1>d, <2>3, <2>4, <2>8 DEF Setting
  <2> QED BY <1>c, <1>d, <2>1, <2>2, <2>7, <2>9 DEF Registered
<1> QED BY <1>1, <1>2, <1>3, <1>4, <1>5, <1>6, <1>7

LEMMA ServeKeeps == ASSUME XenBusIInv, Serve PROVE XenBusIInv'
<1> USE XenBusAssumption, NullAssumption DEF XenBusIInv, Serve, clients, request, watches, work, inbox,
                                             store, bounds, link
<1>0. TypeOK /\ Waiting /\ InStream /\ Replied /\ Entries /\ Loops /\ Registered
  OBVIOUS
<1>k. /\ req # <<>> /\ req' = Tail(req)
      /\ UNCHANGED <<clients, request, watches, work, inbox, rsp, awake, fired, suspends, link,
                     removed>>
  OBVIOUS
<1> HIDE DEF XenBusIInv, Serve
<1> USE <1>0, <1>k
<1> DEFINE q == Head(req)
           r == q.ask
           w == <<q.path, r.slot>>
<1>a. /\ xb_request_mutex \in Clients /\ Len(req) = 1 /\ q = req[1] /\ q \in Sent
      /\ r = arg[xb_request_mutex]
      /\ xb_request_mutex # Pm => q.path = xb_request_mutex
      /\ xb_request_mutex = Pm => q.path \in Threads \cup {NoOne}
      /\ NoReply(Stream) /\ xb_reply = NULL /\ (xb_msg # NULL => ~IsReply(xb_msg))
  <2>1. req \in Seq(Sent) /\ req # <<>> /\ Replied
    BY DEF TypeOK
  <2>2. Len(req) = 1
    BY <2>1 DEF Replied
  <2>3. q = req[1] /\ q \in Sent
    BY <2>1, <2>2, OnlyOne
  <2> HIDE DEF q
  <2> QED BY <2>1, <2>2, <2>3 DEF Replied
<1>b. r \in Requests /\ r.by = xb_request_mutex /\ r.slot \in Slots /\ pc[xb_request_mutex] = "wait"
  BY <1>a DEF Waiting, Sent, Requests
<1>c. req' = <<>>
  <2>1. req \in Seq(Sent) /\ req # <<>> /\ Len(req) = 1 /\ req' = Tail(req)
    BY <1>a DEF TypeOK
  <2> QED BY <2>1, OnlyOne
<1>d. r.type = "WATCH" /\ q.path # NoOne => w \in Threads \X Slots
  BY <1>a, <1>b DEF Waiting, Clients
<1>e. PICK type \in {"REPLY", "ERROR"} :
        out' = out \o Chunks([type |-> type, slot |-> r.slot, to |-> r.by])
        /\ (r.type = "READ" => registered' = registered)
        /\ (r.type = "WATCH" => registered \subseteq registered')
        /\ (r.type = "WATCH" /\ type = "REPLY" => w \in registered')
        /\ (r.type = "WATCH" /\ type = "ERROR" =>
              q.path = NoOne \/ w \in registered' \/ failures' # 0)
        /\ (r.type = "UNWATCH" => registered' = registered \ {w})
        /\ registered' \subseteq Threads \X Slots
        /\ failures' \in 0 .. MaxFailures /\ (failures' = 0 => failures = 0)
  <2> DEFINE m(type) == [type |-> type, slot |-> r.slot, to |-> r.by]
             P(type) ==
               /\ out' = out \o Chunks(m(type))
               /\ r.type = "READ" => registered' = registered
               /\ r.type = "WATCH" => registered \subseteq registered'
               /\ r.type = "WATCH" /\ type = "REPLY" => w \in registered'
               /\ r.type = "WATCH" /\ type = "ERROR" =>
                    q.path = NoOne \/ w \in registered' \/ failures' # 0
               /\ r.type = "UNWATCH" => registered' = registered \ {w}
               /\ registered' \subseteq Threads \X Slots
               /\ failures' \in 0 .. MaxFailures /\ (failures' = 0 => failures = 0)
  <2>1. /\ failures \in 0 .. MaxFailures /\ registered \subseteq Threads \X Slots
        /\ MaxFailures \in Nat
    BY DEF TypeOK
  <2>2. \/ r.type = "READ" /\ out' = out \o Chunks(m("REPLY")) /\ UNCHANGED <<registered, failures>>
        \/ r.type = "WATCH" /\ q.path # NoOne /\ registered' = registered \cup {w}
           /\ out' = out \o Chunks(m("REPLY")) /\ UNCHANGED failures
        \/ r.type = "WATCH" /\ (q.path = NoOne \/ w \in registered)
           /\ out' = out \o Chunks(m("ERROR")) /\ UNCHANGED <<registered, failures>>
        \/ r.type = "WATCH" /\ failures < MaxFailures /\ failures' = failures + 1
           /\ out' = out \o Chunks(m("ERROR")) /\ UNCHANGED registered
        \/ r.type = "UNWATCH" /\ registered' = registered \ {w} /\ UNCHANGED failures
           /\ \/ out' = out \o Chunks(m("REPLY"))
              \/ out' = out \o Chunks(m("ERROR"))
    BY DEF Serve
  <2> HIDE DEF q, m
  <2>3. CASE r.type = "READ" /\ out' = out \o Chunks(m("REPLY")) /\ UNCHANGED <<registered, failures>>
    <3>1. P("REPLY")
      BY <2>1, <2>3
    <3> QED BY <3>1 DEF m
  <2>4. CASE r.type = "WATCH" /\ q.path # NoOne /\ registered' = registered \cup {w}
             /\ out' = out \o Chunks(m("REPLY")) /\ UNCHANGED failures
    <3>1. registered' \subseteq Threads \X Slots
      <4> HIDE DEF w
      <4> QED BY <1>d, <2>1, <2>4
    <3>2. P("REPLY")
      <4> HIDE DEF w
      <4> QED BY <2>1, <2>4, <3>1
    <3> QED BY <3>2 DEF m
  <2>5. CASE r.type = "WATCH" /\ (q.path = NoOne \/ w \in registered)
             /\ out' = out \o Chunks(m("ERROR")) /\ UNCHANGED <<registered, failures>>
    <3>1. P("ERROR")
      <4> HIDE DEF w
      <4> QED BY <2>1, <2>5
    <3> QED BY <3>1 DEF m
  <2>6. CASE r.type = "WATCH" /\ failures < MaxFailures /\ failures' = failures + 1
             /\ out' = out \o Chunks(m("ERROR")) /\ UNCHANGED registered
    <3>1. failures' \in 0 .. MaxFailures /\ failures' # 0
      BY <2>1, <2>6
    <3>2. P("ERROR")
      <4> HIDE DEF w
      <4> QED BY <2>1, <2>6, <3>1
    <3> QED BY <3>2 DEF m
  <2>7. CASE r.type = "UNWATCH" /\ registered' = registered \ {w} /\ UNCHANGED failures
             /\ \/ out' = out \o Chunks(m("REPLY"))
                \/ out' = out \o Chunks(m("ERROR"))
    <3>1. registered' \subseteq Threads \X Slots
      BY <2>1, <2>7
    <3>2. P("REPLY") \/ P("ERROR")
      <4> HIDE DEF w
      <4> QED BY <2>1, <2>7, <3>1
    <3> QED BY <3>2 DEF m
  <2> QED BY <2>2, <2>3, <2>4, <2>5, <2>6, <2>7
<1> DEFINE m == [type |-> type, slot |-> r.slot, to |-> r.by]
<1>f. m \in Messages /\ m.type = type /\ m.slot = r.slot /\ m.to = r.by
  BY <1>a, <1>b DEF Messages, Replies
<1>g. out' = out \o Chunks(m) /\ rsp' = rsp
  BY <1>e
<1> HIDE DEF q, m
<1>h. out' \in Seq(Chunk) /\ Stream' = Stream \o Chunks(m) /\ Stream \in Seq(Chunk)
  BY <1>f, <1>g, Written, StreamType
<1>i. /\ OneReply(Stream')
      /\ \A k \in 1 .. Len(Stream') : IsReply(Stream'[k][1]) => Stream'[k][1] = m
  BY <1>a, <1>f, <1>h, AddedReply
<1>j. UNCHANGED <<pc, arg, xb_request_mutex, xb_reply, xb_request_complete_event, xb_msg,
                  xb_msg_offset, Active, ServiceRoutine, suspends>>
  OBVIOUS
<1>1. TypeOK'
  <2>1. req' \in Seq(Sent)
    BY <1>c, EmptySeq
  <2> QED BY <1>e, <1>h, <2>1 DEF TypeOK, Chunk
<1>2. Waiting'
  BY DEF Waiting, TypeOK, Clients, Requests
<1>3. InStream'
  BY <1>f, <1>h, <1>j, AddKeeps DEF InStream
<1>4. Replied'
  <2>1. ForHolder(m)
    BY <1>a, <1>b, <1>f DEF ForHolder
  <2>2. xb_request_complete_event <=> xb_reply # NULL
    BY DEF Replied
  <2> QED BY <1>a, <1>c, <1>i, <1>j, <2>1, <2>2 DEF Replied, ForHolder, IsReply
<1>5. Entries'
  BY DEF Entries, TypeOK, Waiting, Clients
<1>6. Loops'
  BY DEF Loops, TypeOK, Waiting, Clients, Requests, Slots, Ahead
<1>7. Registered'
  <2> SUFFICES ASSUME suspends' = 0 \/ failures' = 0, NEW i \in Slots, Active'[i]
               PROVE  (<<ServiceRoutine[i], i>> \in registered \/ Setting(i) \/ Resetting(i))'
    BY DEF Registered
  <2>1. Active[i] /\ (suspends = 0 \/ failures = 0)
        /\ (<<ServiceRoutine[i], i>> \in registered \/ Setting(i) \/ Resetting(i))
    BY <1>e, <1>j DEF Registered
  <2>2. ServiceRoutine[i] \in Threads /\ ServiceRoutine[i] # NoOne /\ Pm \in Clients
        /\ (suspends = 0 => pc[Pm] = "idle")
        /\ \A t \in Threads : arg[t] # NULL /\ arg[t].type = "UNWATCH" => ServiceRoutine[i] # t
    BY <2>1 DEF Entries, Clients, Loops
  <2>3. type = "ERROR" => ~Granted'
    BY <1>a, <1>f, <1>i, <1>j DEF Granted, IsReply
  <2>4. r.type \in Types /\ NULL # r
    BY <1>b DEF Requests
  <2>5. ASSUME <<ServiceRoutine[i], i>> \in registered, <<ServiceRoutine[i], i>> \notin registered'
        PROVE  Resetting(i)'
    <3>1. r.type = "UNWATCH" /\ q.path = ServiceRoutine[i]
      BY <1>e, <2>4, <2>5 DEF Types
    <3>2. xb_request_mutex = Pm
      BY <1>a, <2>2, <2>4, <3>1
    <3> QED BY <1>a, <1>b, <1>j, <3>1, <3>2 DEF Resetting
  <2>6. ASSUME Setting(i) PROVE <<ServiceRoutine[i], i>> \in registered' \/ Setting(i)'
    <3>1. CASE ServiceRoutine[i] = xb_request_mutex
      <4>1. r.type = "WATCH" /\ w = <<ServiceRoutine[i], i>>
        BY <1>a, <2>2, <2>6, <3>1 DEF Setting, Clients
      <4>2. type = "REPLY" => <<ServiceRoutine[i], i>> \in registered'
        BY <1>e, <4>1
      <4>3. type = "ERROR" => Setting(i)'
        BY <1>j, <2>3, <2>6 DEF Setting
      <4> QED BY <1>e, <4>2, <4>3
    <3>2. CASE ServiceRoutine[i] # xb_request_mutex
      <4>1. pc[ServiceRoutine[i]] # "wait"
        BY <2>2, <3>2 DEF Waiting, Clients
      <4> QED BY <1>j, <2>6, <4>1 DEF Setting
    <3> QED BY <3>1, <3>2
  <2>7. ASSUME Resetting(i) PROVE <<ServiceRoutine[i], i>> \in registered' \/ Resetting(i)'
    <3>1. CASE /\ pc[Pm] = "wait" /\ arg[Pm].type # "UNWATCH" /\ i = arg[Pm].slot
               /\ req[1].path = ServiceRoutine[i]
      <4>1. xb_request_mutex = Pm /\ r = arg[Pm] /\ q.path = ServiceRoutine[i]
        BY <1>a, <2>2, <3>1 DEF Waiting
      <4>2. r.type = "WATCH" /\ w = <<ServiceRoutine[i], i>>
        BY <2>2, <3>1, <4>1 DEF Loops, Types, Requests
      <4>3. suspends # 0
        BY <2>2, <3>1
      <4> QED BY <1>e, <1>j, <2>2, <4>1, <4>2, <4>3
    <3>2. CASE ~(/\ pc[Pm] = "wait" /\ arg[Pm].type # "UNWATCH" /\ i = arg[Pm].slot
                 /\ req[1].path = ServiceRoutine[i])
      <4> QED BY <1>j, <2>7, <3>2 DEF Resetting, Ahead
    <3> QED BY <3>1, <3>2
  <2> QED BY <1>j, <2>1, <2>5, <2>6, <2>7
<1> QED BY <1>1, <1>2, <1>3, <1>4, <1>5, <1>6, <1>7 DEF XenBusIInv

LEMMA FireWatchKeeps == ASSUME XenBusIInv, FireWatch PROVE XenBusIInv'
<1> USE XenBusAssumption, NullAssumption DEF XenBusIInv, FireWatch, clients, request, watches, work,
                                             inbox, store, bounds, link
<1>a. PICK v \in registered :
        out' = out \o Chunks([type |-> "EVENT", slot |-> v[2], n |-> fired'])
  OBVIOUS
<1> DEFINE m == [type |-> "EVENT", slot |-> v[2], n |-> fired']
<1>b. m \in Messages /\ ~IsReply(m)
  BY DEF TypeOK, Messages, Events, IsReply
<1> HIDE DEF m
<1>c. /\ out' \in Seq(Chunk) /\ Stream' = Stream \o Chunks(m)
  BY <1>a, <1>b, Written DEF m
<1>d. UNCHANGED <<pc, arg, xb_request_mutex, req, xb_reply, xb_request_complete_event, xb_msg,
                  xb_msg_offset>>
  OBVIOUS
<1>1. TypeOK'
  BY <1>c DEF TypeOK, Chunk
<1>2. Waiting'
  BY DEF Waiting, TypeOK, Clients, Requests
<1>3. InStream'
  <2> HIDE DEF XenBusIInv, FireWatch
  <2> QED BY <1>b, <1>c, <1>d, AddKeeps, StreamType DEF InStream, XenBusIInv
<1>4. Replied'
  <2>1. /\ Replied /\ OneReply(Stream')
        /\ \A k \in 1 .. Len(Stream') : IsReply(Stream'[k][1]) =>
             k \in 1 .. Len(Stream) /\ Stream'[k] = Stream[k]
    BY <1>b, <1>c, AddedEvent, StreamType DEF Replied
  <2> HIDE DEF XenBusIInv, FireWatch
  <2> QED BY <1>d, <2>1 DEF Replied, ForHolder, NoReply, IsReply
<1>5. Entries'
  BY DEF Entries, TypeOK, Waiting, Clients
<1>6. Loops'
  BY DEF Loops, TypeOK, Waiting, Clients, Requests, Slots, Ahead
<1>7. Registered'
  <2>1. \A k \in 1 .. Len(Stream') : IsReply(Stream'[k][1]) =>
          k \in 1 .. Len(Stream) /\ Stream'[k] = Stream[k]
    BY <1>b, <1>c, AddedEvent, StreamType DEF Replied
  <2>2. Granted' => Granted
    BY <1>d, <2>1 DEF Granted, IsReply
  <2> QED BY <2>2, RegisteredStands
<1> QED BY <1>1, <1>2, <1>3, <1>4, <1>5, <1>6, <1>7

LEMMA WriteChunkKeeps == ASSUME XenBusIInv, WriteChunk PROVE XenBusIInv'
<1> USE XenBusAssumption, NullAssumption DEF XenBusIInv, WriteChunk, clients, request, watches, work,
                                             inbox, store, bounds, link
<1>a. rsp \in Seq(Chunk) /\ out \in Seq(Chunk)
  BY StreamType
<1>b. /\ Stream' = Stream /\ rsp' \in Seq(Chunk) /\ out' \in Seq(Chunk) /\ Len(rsp') <= RING
  <2>1. Stream' = Stream
    BY <1>a, MovedChunk DEF Stream
  <2>2. Head(out) \in Chunk /\ Tail(out) \in Seq(Chunk)
    BY <1>a, HeadTailProperties
  <2>3. Append(rsp, Head(out)) \in Seq(Chunk) /\ Len(Append(rsp, Head(out))) = Len(rsp) + 1
    BY <1>a, <2>2, AppendProperties
  <2>4. Len(rsp) + 1 <= RING
    BY <1>a DEF TypeOK
  <2> QED BY <2>1, <2>2, <2>3, <2>4
<1>c. UNCHANGED <<pc, arg, xb_request_mutex, req, xb_reply, xb_request_complete_event, xb_msg,
                  xb_msg_offset>>
  OBVIOUS
<1>1. TypeOK'
  BY <1>b DEF TypeOK, Chunk
<1>2. Waiting'
  BY DEF Waiting, TypeOK, Clients, Requests
<1>3. InStream'
  <2> HIDE DEF XenBusIInv, WriteChunk
  <2> QED BY <1>b, <1>c DEF InStream, InOrder, Ends, Begins, XenBusIInv
<1>4. Replied'
  <2> HIDE DEF XenBusIInv, WriteChunk
  <2> QED BY <1>b, <1>c DEF Replied, OneReply, NoReply, ForHolder, XenBusIInv
<1>5. Entries'
  BY DEF Entries, TypeOK, Waiting, Clients
<1>6. Loops'
  BY DEF Loops, TypeOK, Waiting, Clients, Requests, Slots, Ahead
<1>7. Registered'
  <2>1. Granted' => Granted
    BY <1>b, <1>c DEF Granted
  <2> QED BY <2>1, RegisteredStands
<1> QED BY <1>1, <1>2, <1>3, <1>4, <1>5, <1>6, <1>7

LEMMA SleepKeeps == ASSUME XenBusIInv, Sleep PROVE XenBusIInv'
<1> USE XenBusAssumption, NullAssumption DEF XenBusIInv, Sleep, clients, request, watches, work, inbox,
                                             store, bounds, link
<1>1. TypeOK'
  BY DEF TypeOK
<1>2. Waiting'
  BY DEF Waiting, TypeOK, Clients, Requests
<1>3. InStream'
  BY SameStream
<1>4. Replied'
  BY SameReply DEF Waiting, TypeOK, Clients
<1>5. Entries'
  BY DEF Entries, TypeOK, Waiting, Clients
<1>6. Loops'
  BY DEF Loops, TypeOK, Waiting, Clients, Requests, Slots, Ahead
<1>7. Registered'
  BY DEF Registered, Setting, Resetting, Granted, Stream, TypeOK, Waiting, Entries, Loops,
         Clients, Ahead, Slots
<1> QED BY <1>1, <1>2, <1>3, <1>4, <1>5, <1>6, <1>7

-----------------------------------------------------------------------------
(* The theorems *)

LEMMA Initially == Init => XenBusIInv
<1> SUFFICES ASSUME Init PROVE XenBusIInv
  OBVIOUS
<1> USE XenBusAssumption, NullAssumption DEF Init
<1>1. <<>> \in Seq(Sent) /\ <<>> \in Seq(Messages \X (1 .. HEADER + 1)) /\ Len(<<>>) = 0
  OBVIOUS
<1>2. TypeOK
  <2>1. rsp \in Seq(Messages \X (1 .. HEADER + 1)) /\ out \in Seq(Messages \X (1 .. HEADER + 1))
        /\ Len(rsp) <= RING /\ req \in Seq(Sent)
    BY <1>1
  <2>2. xb_msg_offset \in 0 .. HEADER + 1
    BY DEF HEADER
  <2>3. fired \in 0 .. MaxEvents /\ failures \in 0 .. MaxFailures /\ suspends \in 0 .. MaxSuspends
    OBVIOUS
  <2>4. {ServiceRoutine, Path} \subseteq [Slots -> Threads \cup {NoOne}]
    OBVIOUS
  <2>5. pc \in [Clients -> {"idle", "request", "wait", "unwatch", "disconnect", "asleep", "watch",
                          "fault"}]
    OBVIOUS
  <2>6. arg \in [Clients -> Requests \cup {NULL}] /\ Active \in [Slots -> BOOLEAN]
    OBVIOUS
  <2> QED BY <2>1, <2>2, <2>3, <2>4, <2>5, <2>6 DEF TypeOK
<1>3. Stream = <<>>
  BY <1>1, ConcatEmptySeq DEF Stream
<1>4. Waiting
  BY DEF Waiting, Clients
<1>5. InStream
  BY <1>1, <1>3 DEF InStream, InOrder, Ends, Begins
<1>6. Replied
  BY <1>1, <1>3 DEF Replied, OneReply, NoReply
<1>7. Entries
  BY DEF Entries, Clients
<1>8. Loops
  BY DEF Loops, Clients
<1>9. Registered
  BY DEF Registered
<1> QED BY <1>2, <1>4, <1>5, <1>6, <1>7, <1>8, <1>9 DEF XenBusIInv

LEMMA Stuttering == ASSUME XenBusIInv, UNCHANGED vars PROVE XenBusIInv'
<1> USE DEF XenBusIInv, vars, clients, request, watches, work, inbox, store, bounds, link
<1>1. TypeOK'
  BY DEF TypeOK
<1>2. Waiting'
  BY DEF Waiting
<1>3. InStream'
  BY SameStream
<1>4. Replied'
  BY SameReply
<1>5. Entries'
  BY DEF Entries
<1>6. Loops'
  BY DEF Loops, Ahead
<1>7. Registered'
  BY SameGranted, RegisteredStands
<1> QED BY <1>1, <1>2, <1>3, <1>4, <1>5, <1>6, <1>7

LEMMA OneStep == XenBusIInv /\ [Next]_vars => XenBusIInv'
<1> SUFFICES ASSUME XenBusIInv, [Next]_vars PROVE XenBusIInv'
  OBVIOUS
<1>1. CASE \E c \in Clients : Requesting(c)
  BY <1>1, SubmitKeeps, FaultKeeps, ReplyKeeps DEF Requesting
<1>2. CASE \E t \in Threads : Read(t) \/ AddWatch(t) \/ RemWatch(t)
  BY <1>2, ReadKeeps, AddWatchKeeps, RemWatchKeeps
<1>3. CASE Dpc
  BY <1>3, DpcStartKeeps, DpcDoneKeeps, DpcPartialKeeps, DpcReplyKeeps, DpcWatchKeeps,
     DpcWatchFailsKeeps DEF Dpc
<1>4. CASE Working
  BY <1>4, HandlerReadKeeps, HandlerReturnKeeps, WorkItemKeeps, WorkItemStaleKeeps DEF Working
<1>5. CASE Power
  BY <1>5, SuspendKeeps, SuspendWatchesKeeps, DisconnectKeeps, ConnectKeeps, ResumeWatchesKeeps
     DEF Power
<1>6. CASE Xenstored
  BY <1>6, ServeKeeps, WriteChunkKeeps, SleepKeeps DEF Xenstored
<1>7. CASE FireWatch
  BY <1>7, FireWatchKeeps
<1>8. CASE UNCHANGED vars
  BY <1>8, Stuttering
<1> QED BY <1>1, <1>2, <1>3, <1>4, <1>5, <1>6, <1>7, <1>8 DEF Next

\* XenBus never leaves its inductive invariant.
THEOREM XenBusInvariance == Spec => []XenBusIInv
<1>1. Init => XenBusIInv
  BY Initially
<1>2. XenBusIInv /\ [Next]_vars => XenBusIInv'
  BY OneStep
<1> QED BY <1>1, <1>2, PTL DEF Spec

\* What is in the ring is at the place in the stream where it is in the ring.
LEMMA RingIsStream ==
  ASSUME TypeOK
  PROVE  /\ rsp # <<>> => Stream # <<>> /\ Stream[1] = rsp[1]
         /\ \A k \in 1 .. Len(rsp) : k \in 1 .. Len(Stream) /\ Stream[k] = rsp[k]
<1>1. /\ rsp \in Seq(Chunk) /\ Len(rsp) \in Nat /\ Len(out) \in Nat
      /\ Len(Stream) = Len(rsp) + Len(out) /\ Stream \in Seq(Chunk)
  BY StreamType
<1>2. \A k \in 1 .. Len(rsp) : k \in 1 .. Len(Stream) /\ Stream[k] = rsp[k]
  BY <1>1, StreamType
<1>3. ASSUME rsp # <<>> PROVE Stream # <<>> /\ Stream[1] = rsp[1]
  <2>1. 1 \in 1 .. Len(rsp)
    BY <1>1, <1>3, EmptySeq
  <2> QED BY <1>1, <1>2, <2>1, EmptySeq
<1> QED BY <1>2, <1>3

\* A reply reaches the thread that asked, whole, and there is one at a time: the
\* assertion of xenbus_format_msg_reply and the reading in parts of XenBus_Dpc.
THEOREM MessagesAreSound == Spec => []MessagesSound
<1>1. ASSUME XenBusIInv PROVE MessagesSound
  <2>1. TypeOK /\ Waiting /\ InStream /\ Replied
    BY <1>1 DEF XenBusIInv
  <2>2. ReplyToHolder
    BY <2>1, RingIsStream DEF ReplyToHolder, Replied, Waiting, NoReply, ForHolder
  <2>3. MessageIntact
    BY <2>1, RingIsStream DEF MessageIntact, InStream, Begins, HEADER
  <2> QED BY <2>1, <2>2, <2>3 DEF MessagesSound
<1> QED BY XenBusInvariance, <1>1, PTL

\* A handler is not called for a watch that XenBus_RemWatch took out, and outside of a
\* suspend a watch that is set here is set in xenstored.
THEOREM WatchesAreSound == Spec => []WatchesSound
<1>1. ASSUME XenBusIInv PROVE WatchesSound
  <2>1. TypeOK /\ Waiting /\ Entries /\ Registered
    BY <1>1 DEF XenBusIInv
  <2>2. NoCallAfterRemove
    BY <2>1 DEF NoCallAfterRemove, Entries
  <2>3. ASSUME NEW i \in Slots, Active[i], Settled(i), pc[Pm] = "idle",
               suspends = 0 \/ failures = 0
        PROVE  <<ServiceRoutine[i], i>> \in registered
    <3>1. ~Resetting(i)
      BY <2>3 DEF Resetting
    <3>2. ServiceRoutine[i] \in Clients
      BY <2>1, <2>3 DEF Entries, Clients
    <3>3. ~Setting(i)
      BY <2>3, <3>2 DEF Setting, Settled
    <3> QED BY <2>1, <2>3, <3>1, <3>3 DEF Registered
  <2> QED BY <2>2, <2>3 DEF WatchesSound, WatchSet
<1> QED BY XenBusInvariance, <1>1, PTL

-----------------------------------------------------------------------------
(***************************************************************************)
(* VbdScsi: the list holds the requests that are queued, each once, the    *)
(* answers those on the ring, each once; so that whatever ends a request   *)
(* takes one off outstanding that was counted.                             *)
(***************************************************************************)
Keys == {"NO_SENSE", "UNIT_ATTENTION", "MEDIUM_ERROR", "ILLEGAL_REQUEST"}
XvddData == [state : {"ACTIVE", "INACTIVE", "DISCONNECTED"}, sense : Keys, cac : BOOLEAN,
            sectors : Int, new : Int]
XvsdData == [outstanding : Int, timer : BOOLEAN, stop : BOOLEAN, reset : Int, lost : Int]
SrbStates == [state : {"none", "list", "ring", "lost"}, quiet : BOOLEAN,
              cmd : Commands \cup {[op |-> "none"]}]

ScsiTypeOK ==
  /\ xvdd \in XvddData /\ xvsd \in XvsdData
  /\ srb \in [Srbs -> SrbStates]
  /\ list \in Seq(Srbs) /\ answers \in Seq([srb : Srbs \cup {"reset"}, ok : BOOLEAN])
  /\ untold \in {"none", "resize", "lost"}

\* A request is on the list or has one answer at most, as its state says.
Queued ==
  /\ \A i \in 1 .. Len(list) : srb[list[i]].state = "list"
  /\ \A i, j \in 1 .. Len(list) : list[i] = list[j] => i = j
OnceOnRing ==
  /\ \A i \in 1 .. Len(answers) : answers[i].srb # "reset" => srb[answers[i].srb].state = "ring"
  /\ \A i, j \in 1 .. Len(answers) :
       answers[i].srb # "reset" /\ answers[i].srb = answers[j].srb => i = j

Waits == {s \in Srbs : srb[s].state \in {"list", "ring", "lost"}}
Sensed ==
  /\ xvdd.cac => xvdd.sense # "NO_SENSE"
  /\ untold = "resize" => xvdd.sense = "UNIT_ATTENTION"
Counted == xvsd.outstanding = Cardinality(Waits)
Timed == scsi_pc = "idle" /\ xvsd.outstanding > 0 => xvsd.timer

ScsiIInv == ScsiTypeOK /\ Queued /\ OnceOnRing /\ Sensed /\ Counted /\ Timed

LEMMA SrbFacts ==
  /\ IsFiniteSet(Srbs) /\ "reset" \notin Srbs /\ SerialNumber \in Nat
  /\ \A S : Scsi!Cardinality(S) = Cardinality(S)
  /\ \A S \in SUBSET Srbs : IsFiniteSet(S) /\ Cardinality(S) \in Nat
<1>1. \A S : /\ Scsi!Cardinality(S) = Cardinality(S)
             /\ Scsi!IsFiniteSet(S) <=> IsFiniteSet(S)
  BY DEF Scsi!Cardinality, Cardinality, Scsi!IsFiniteSet, IsFiniteSet
<1>2. IsFiniteSet(Srbs) /\ "reset" \notin Srbs /\ SerialNumber \in Nat
  BY <1>1, MCRequestsAssumption DEF Scsi!VbdScsiAssumption
<1>3. \A S \in SUBSET Srbs : IsFiniteSet(S) /\ Cardinality(S) \in Nat
  BY <1>2, FS_Subset, FS_CardinalityType
<1> QED BY <1>1, <1>2, <1>3

\* What VbdScsi!ScsiSound says follows; that answers fit is worked out here.
LEMMA ScsiAnswersFit == AnswersFit
<1>1. \A a, b \in Int : Scsi!Clip(a, b) <= a
  BY DEF Scsi!Clip
<1>2. ASSUME NEW type \in Scsi!Types, NEW page, NEW header \in {4, 8}, NEW dbd \in BOOLEAN,
             NEW n \in {4, 5, 8, 11, 12, 36, 64}
      PROVE  /\ Scsi!FillModePage(type, page, header, dbd, n).written <= n
             /\ Scsi!FillModePage(type, page, header, dbd, n).describes
                  = Scsi!FillModePage(type, page, header, dbd, n).told
  <2> DEFINE offset == Scsi!ModeLength(type, page, header, dbd)
  <2>1. offset \in 4 .. 60
    <3> DEFINE size(p) == IF p \in Scsi!PagesOf(type, page) THEN Scsi!ModePage[p] ELSE 0
    <3>1. /\ size("FORMAT_DEVICE") \in {0, 24} /\ size("CACHING") \in {0, 12}
          /\ size("MEDIUM_TYPES") \in {0, 8}
      BY DEF Scsi!ModePage
    <3>2. offset = header + (IF dbd THEN 0 ELSE 8) + size("FORMAT_DEVICE") + size("CACHING")
                     + size("MEDIUM_TYPES")
      BY DEF Scsi!ModeLength
    <3> HIDE DEF size, offset
    <3> QED BY <3>1, <3>2
  <2> HIDE DEF offset
  <2>2. Scsi!Described(offset, header) = offset
    <3>1. header = 4 => (offset - 1) % 256 = offset - 1
      BY <2>1
    <3>2. header = 8 => offset - 2 \in 2 .. 60 \/ offset - 2 \in 0 .. 60 \/ offset < 8
      BY <2>1
    <3>3. header = 8 => offset \in 8 .. 60
      <4> DEFINE size(p) == IF p \in Scsi!PagesOf(type, page) THEN Scsi!ModePage[p] ELSE 0
      <4>1. /\ size("FORMAT_DEVICE") \in {0, 24} /\ size("CACHING") \in {0, 12}
            /\ size("MEDIUM_TYPES") \in {0, 8}
        BY DEF Scsi!ModePage
      <4>2. offset = header + (IF dbd THEN 0 ELSE 8) + size("FORMAT_DEVICE") + size("CACHING")
                       + size("MEDIUM_TYPES")
        BY DEF Scsi!ModeLength, offset
      <4> HIDE DEF size
      <4> QED BY <4>1, <4>2
    <3>4. header = 8 => (offset - 2) % 65536 = offset - 2
      BY <3>3
    <3> QED BY <3>1, <3>4, <2>1 DEF Scsi!Described
  <2>3. Scsi!Clip(n, offset) <= n
    BY <1>1, <2>1
  <2>4. \/ Scsi!FillModePage(type, page, header, dbd, n) = Scsi!Failed
        \/ Scsi!FillModePage(type, page, header, dbd, n)
             = Scsi!Data(offset, Scsi!Clip(n, offset), Scsi!Described(offset, header))
    BY DEF Scsi!FillModePage, offset
  <2> QED BY <2>2, <2>3, <2>4 DEF Scsi!Failed, Scsi!Data
<1>3. ASSUME NEW type \in Scsi!Types, NEW n \in {4, 5, 8, 11, 12, 36, 64}, NEW c \in Scsi!Modes
      PROVE  /\ Scsi!Answer(type, c, n).written <= n
             /\ Scsi!Answer(type, c, n).describes = Scsi!Answer(type, c, n).told
  <2>1. c.op \in {"MODE_SENSE", "MODE_SENSE10"} /\ c.dbd \in BOOLEAN
    BY DEF Scsi!Modes
  <2>2. Scsi!Answer(type, c, n)
          = Scsi!FillModePage(type, c.page, IF c.op = "MODE_SENSE" THEN 4 ELSE 8, c.dbd, n)
    BY <2>1 DEF Scsi!Answer
  <2> QED BY <1>2, <2>1, <2>2
<1>4. ASSUME NEW type \in Scsi!Types, NEW n \in {4, 5, 8, 11, 12, 36, 64},
             NEW c \in Scsi!Vpd \cup [op : {"READ_TOC", "REPORT_LUNS"}, page : {"TOC"}]
      PROVE  Scsi!Answer(type, c, n).describes = Scsi!Answer(type, c, n).told
  <2>1. CASE c \in Scsi!Vpd
    <3>1. c.op = "INQUIRY" /\ c.page # "STANDARD"
      BY <2>1 DEF Scsi!Vpd, Scsi!VpdPages
    <3>2. Scsi!Answer(type, c, n) = Scsi!Inquiry(type, c.page, n)
      BY <3>1 DEF Scsi!Answer
    <3>3. Scsi!Inquiry(type, c.page, n)
            = IF type = "DISK" THEN Scsi!DiskPage(c.page, n) ELSE Scsi!CdromPage(c.page)
      BY <3>1 DEF Scsi!Inquiry, Scsi!Types
    <3>4. Scsi!DiskPage(c.page, n).describes = Scsi!DiskPage(c.page, n).told
      BY DEF Scsi!DiskPage, Scsi!Data, Scsi!Failed
    <3>5. Scsi!CdromPage(c.page).describes = Scsi!CdromPage(c.page).told
      BY DEF Scsi!CdromPage, Scsi!Data, Scsi!Failed
    <3> QED BY <3>2, <3>3, <3>4, <3>5
  <2>2. CASE c \in [op : {"READ_TOC", "REPORT_LUNS"}, page : {"TOC"}]
    <3>1. c.op \in {"READ_TOC", "REPORT_LUNS"}
      BY <2>2
    <3>2. Scsi!Answer(type, c, n)
            = IF c.op = "READ_TOC" THEN Scsi!ReadToc(c.page) ELSE Scsi!ReportLuns
      BY <3>1 DEF Scsi!Answer
    <3>3. Scsi!ReadToc(c.page).describes = Scsi!ReadToc(c.page).told
          /\ Scsi!ReportLuns.describes = Scsi!ReportLuns.told
      BY DEF Scsi!ReadToc, Scsi!ReportLuns, Scsi!Data, Scsi!Failed
    <3> QED BY <3>2, <3>3
  <2> QED BY <2>1, <2>2
<1> QED BY <1>3, <1>4 DEF AnswersFit, Scsi!Fits

LEMMA ScsiConsequence ==
  ASSUME ScsiIInv
  PROVE  ScsiSound
<1>1. Scsi!SenseSound
  BY DEF ScsiIInv, ScsiTypeOK, Sensed, Scsi!SenseSound
<1>2. Scsi!OutstandingExact
  <2>1. xvsd.outstanding = Scsi!Cardinality(Waits)
    BY SrbFacts DEF ScsiIInv, Counted
  <2> QED BY <2>1 DEF ScsiIInv, Timed, Waits, Scsi!OutstandingExact
<1> QED BY <1>1, <1>2, ScsiAnswersFit DEF ScsiSound

LEMMA ScsiInit ==
  ASSUME Scsi!Init
  PROVE  ScsiIInv
<1>1. ScsiTypeOK
  <2>1. Scsi!NewSrb \in SrbStates
    BY DEF Scsi!NewSrb, SrbStates
  <2> QED BY <2>1 DEF Scsi!Init, ScsiTypeOK, XvddData, XvsdData, Keys
<1>2. Queued /\ OnceOnRing
  BY DEF Scsi!Init, Queued, OnceOnRing
<1>3. Sensed /\ Timed
  BY DEF Scsi!Init, Sensed, Timed
<1>4. Waits = {}
  BY DEF Scsi!Init, Waits, Scsi!NewSrb
<1>5. Counted
  BY <1>4, FS_EmptySet DEF Counted, Scsi!Init
<1> QED BY <1>1, <1>2, <1>3, <1>5 DEF ScsiIInv

\* A request that is given back was counted.
LEMMA ReturnKeeps ==
  ASSUME ScsiTypeOK, Counted, NEW s \in Srbs, srb[s].state \in {"list", "ring"}, Scsi!Returned(s)
  PROVE  /\ srb' \in [Srbs -> SrbStates] /\ xvsd' \in XvsdData /\ Counted'
         /\ xvsd'.outstanding < xvsd.outstanding /\ xvsd'.timer = xvsd.timer
         /\ \A t \in Srbs \ {s} : srb'[t] = srb[t]
<1>1. Scsi!NewSrb \in SrbStates /\ Scsi!NewSrb.state = "none"
  BY DEF Scsi!NewSrb, SrbStates
<1>2. srb' = [srb EXCEPT ![s] = Scsi!NewSrb] /\ xvsd' = [xvsd EXCEPT !.outstanding = @ - 1]
  BY DEF Scsi!Returned
<1>3. srb' \in [Srbs -> SrbStates] /\ \A t \in Srbs \ {s} : srb'[t] = srb[t]
  BY <1>1, <1>2 DEF ScsiTypeOK
<1>4. /\ xvsd' \in XvsdData /\ xvsd'.outstanding = xvsd.outstanding - 1
      /\ xvsd'.timer = xvsd.timer
  BY <1>2 DEF ScsiTypeOK, XvsdData
<1>5. Waits' = Waits \ {s} /\ s \in Waits
  BY <1>1, <1>2 DEF Waits, ScsiTypeOK
<1>6. Waits \in SUBSET Srbs
  BY DEF Waits
<1>7. Cardinality(Waits \ {s}) = Cardinality(Waits) - 1
  BY <1>5, <1>6, SrbFacts, FS_RemoveElement
<1>8. xvsd.outstanding \in Int
  BY DEF ScsiTypeOK, XvsdData
<1> QED BY <1>3, <1>4, <1>5, <1>7, <1>8 DEF Counted

LEMMA CompleteKeeps ==
  ASSUME NEW s \in Srbs, NEW x \in XvddData, NEW change \in {"none", "resize", "lost"},
         ScsiTypeOK, x.cac => x.sense # "NO_SENSE", change = "resize" => x.sense = "UNIT_ATTENTION",
         Scsi!Complete(s, x, change)
  PROVE  /\ xvdd' \in XvddData /\ untold' \in {"none", "resize", "lost"} /\ Sensed'
         /\ xvdd'.state = x.state
<1>1. srb[s].quiet \in BOOLEAN
  BY DEF ScsiTypeOK, SrbStates
<1>2. xvdd' = IF x.sense = "NO_SENSE" THEN x
              ELSE IF srb[s].quiet THEN [x EXCEPT !.cac = TRUE]
              ELSE [x EXCEPT !.sense = "NO_SENSE", !.cac = FALSE]
  BY <1>1 DEF Scsi!Complete, Scsi!AutoSense
<1>3. /\ xvdd' \in XvddData
      /\ xvdd'.cac => xvdd'.sense # "NO_SENSE"
      /\ srb[s].quiet => xvdd'.sense = x.sense
      /\ xvdd'.state = x.state
  BY <1>1, <1>2 DEF XvddData, Keys
<1>4. ~Scsi!Hidden(x, s)
  BY <1>1 DEF Scsi!Hidden, Scsi!AutoSense, Scsi!Given, XvddData
<1>5. untold' = Scsi!Told(change, x.sense, Scsi!Given(x, s))
  BY <1>4 DEF Scsi!Complete
<1>6. untold' \in {"none", "resize", "lost"}
      /\ (untold' = "resize" => change = "resize" /\ Scsi!Given(x, s) # "UNIT_ATTENTION")
  BY <1>5 DEF Scsi!Told
<1>7. ASSUME untold' = "resize" PROVE xvdd'.sense = "UNIT_ATTENTION"
  <2>1. x.sense = "UNIT_ATTENTION" /\ srb[s].quiet
    BY <1>1, <1>6, <1>7 DEF Scsi!Given
  <2> QED BY <2>1, <1>3
<1>8. Sensed'
  BY <1>3, <1>7 DEF Sensed
<1> QED BY <1>3, <1>6, <1>8

\* The request at the head of the list is taken off it and given back.
LEMMA FirstReturned ==
  ASSUME ScsiTypeOK, Queued, OnceOnRing, Counted, Timed, Scsi!CanProcess,
         Scsi!Returned(list[1]), list' = Tail(list), answers' = answers, scsi_pc' = scsi_pc
  PROVE  /\ list' \in Seq(Srbs) /\ srb' \in [Srbs -> SrbStates] /\ xvsd' \in XvsdData
         /\ Queued' /\ OnceOnRing' /\ Counted' /\ Timed'
<1>1. /\ list # <<>> /\ scsi_pc # "idle" /\ list \in Seq(Srbs)
  BY DEF Scsi!CanProcess, Scsi!Processing, ScsiTypeOK
<1>2. /\ Len(list) \in Nat \ {0} /\ list[1] \in Srbs /\ Tail(list) \in Seq(Srbs)
      /\ Len(Tail(list)) = Len(list) - 1
      /\ \A i \in 1 .. Len(Tail(list)) : Tail(list)[i] = list[i + 1]
  BY <1>1
<1>3. srb[list[1]].state = "list"
  BY <1>2 DEF Queued
<1>4. /\ srb' \in [Srbs -> SrbStates] /\ xvsd' \in XvsdData /\ Counted'
      /\ \A t \in Srbs \ {list[1]} : srb'[t] = srb[t]
  BY <1>2, <1>3, ReturnKeeps
<1>5. \A i \in 2 .. Len(list) : list[i] \in Srbs \ {list[1]}
  <2>1. \A i \in 2 .. Len(list) : i \in 1 .. Len(list) /\ 1 \in 1 .. Len(list) /\ i # 1
    BY <1>2
  <2> QED BY <1>1, <2>1 DEF Queued
<1>6. Queued'
  <2>1. \A i \in 1 .. Len(list') : i + 1 \in 2 .. Len(list) /\ i + 1 \in 1 .. Len(list)
                                    /\ list'[i] = list[i + 1]
    BY <1>2
  <2>2. \A i \in 1 .. Len(list') : srb'[list'[i]].state = "list"
    BY <1>4, <1>5, <2>1 DEF Queued
  <2>3. \A i, j \in 1 .. Len(list') : list'[i] = list'[j] => i = j
    <3> SUFFICES ASSUME NEW i \in 1 .. Len(list'), NEW j \in 1 .. Len(list'), list'[i] = list'[j]
                 PROVE  i = j
      OBVIOUS
    <3>1. i + 1 = j + 1
      BY <2>1 DEF Queued
    <3> QED BY <3>1, <1>2
  <2> QED BY <2>2, <2>3 DEF Queued
<1>7. OnceOnRing'
  <2>1. \A i \in 1 .. Len(answers) : answers[i].srb # "reset" =>
          answers[i].srb \in Srbs \ {list[1]}
    <3>1. \A i \in 1 .. Len(answers) : answers[i] \in [srb : Srbs \cup {"reset"}, ok : BOOLEAN]
      BY ElementOfSeq DEF ScsiTypeOK
    <3>2. \A i \in 1 .. Len(answers) : answers[i].srb \in Srbs \cup {"reset"}
      BY <3>1
    <3> QED BY <1>3, <3>2 DEF OnceOnRing
  <2> QED BY <2>1, <1>4 DEF OnceOnRing
<1>8. Timed'
  BY <1>1 DEF Timed
<1> QED BY <1>2, <1>4, <1>6, <1>7, <1>8

LEMMA NoticedSound ==
  ASSUME ScsiTypeOK, Sensed
  PROVE  /\ Scsi!Noticed \in XvddData /\ Scsi!Noticed.state = xvdd.state
         /\ Scsi!Noticed.cac => Scsi!Noticed.sense # "NO_SENSE"
         /\ Scsi!Untold \in {"none", "resize", "lost"}
         /\ Scsi!Untold = "resize" => Scsi!Noticed.sense = "UNIT_ATTENTION"
BY DEF ScsiTypeOK, Sensed, Scsi!Noticed, Scsi!Untold, XvddData, Keys

\* The requests, the list and the answers as they were.
LEMMA SameRequests ==
  ASSUME ScsiTypeOK, Queued, OnceOnRing, Counted, UNCHANGED <<srb, list, answers>>,
         xvsd' \in XvsdData, xvsd'.outstanding = xvsd.outstanding
  PROVE  /\ srb' \in [Srbs -> SrbStates] /\ list' \in Seq(Srbs)
         /\ answers' \in Seq([srb : Srbs \cup {"reset"}, ok : BOOLEAN])
         /\ Queued' /\ OnceOnRing' /\ Counted'
<1>1. Waits' = Waits
  BY DEF Waits
<1> QED BY <1>1 DEF ScsiTypeOK, Queued, OnceOnRing, Counted

LEMMA ScsiHandlersKeep ==
  ASSUME ScsiIInv,
         Scsi!Event \/ Scsi!NoDevice \/ Scsi!ControlStop \/ Scsi!ControlStart
           \/ Scsi!HandleEvent \/ Scsi!Finish
  PROVE  ScsiIInv'
<1> USE DEF ScsiIInv
<1>1. UNCHANGED <<xvdd, srb, list, answers, untold>>
  BY DEF Scsi!Event, Scsi!NoDevice, Scsi!ControlStop, Scsi!ControlStart, Scsi!HandleEvent,
         Scsi!Finish
<1>2. /\ xvsd' \in XvsdData
      /\ xvsd'.outstanding = xvsd.outstanding
      /\ scsi_pc' = "idle" => xvsd'.timer = (xvsd.outstanding > 0)
  <2>1. xvsd \in XvsdData
    BY DEF ScsiTypeOK
  <2>2. CASE Scsi!Event \/ Scsi!NoDevice \/ Scsi!ControlStart \/ Scsi!HandleEvent
    BY <2>1, <2>2 DEF Scsi!Event, Scsi!NoDevice, Scsi!ControlStart, Scsi!HandleEvent
  <2>3. CASE Scsi!ControlStop
    BY <2>1, <2>3 DEF Scsi!ControlStop, XvsdData
  <2>4. CASE Scsi!Finish
    <3>1. xvsd' = [xvsd EXCEPT !.timer = xvsd.outstanding > 0,
                               !.stop = @ /\ ~Scsi!CompleteDisconnect]
      BY <2>4 DEF Scsi!Finish, Scsi!Timer
    <3>2. (xvsd.outstanding > 0) \in BOOLEAN /\ (xvsd.stop /\ ~Scsi!CompleteDisconnect) \in BOOLEAN
      OBVIOUS
    <3> QED BY <2>1, <3>1, <3>2 DEF XvsdData
  <2> QED BY <2>2, <2>3, <2>4
<1>3. /\ srb' \in [Srbs -> SrbStates] /\ list' \in Seq(Srbs)
      /\ answers' \in Seq([srb : Srbs \cup {"reset"}, ok : BOOLEAN])
      /\ Queued' /\ OnceOnRing' /\ Counted'
  BY <1>1, <1>2, SameRequests
<1>4. ScsiTypeOK'
  BY <1>1, <1>2, <1>3 DEF ScsiTypeOK
<1>5. Sensed'
  BY <1>1 DEF Sensed
<1>6. Timed'
  BY <1>2 DEF Timed
<1> QED BY <1>3, <1>4, <1>5, <1>6

LEMMA DeviceKeeps ==
  ASSUME ScsiIInv, Scsi!DeviceCallback \/ Scsi!Connect \/ Scsi!ProcessStop
  PROVE  ScsiIInv'
<1> USE DEF ScsiIInv
<1>1. UNCHANGED <<xvsd, srb, list, answers>> /\ (scsi_pc' = "idle" => scsi_pc = "idle")
  BY DEF Scsi!DeviceCallback, Scsi!Connect, Scsi!ProcessStop, Scsi!Leave
<1>2. xvdd' \in XvddData /\ untold' \in {"none", "resize", "lost"} /\ Sensed'
  <2>1. xvdd \in XvddData /\ untold \in {"none", "resize", "lost"}
    BY DEF ScsiTypeOK
  <2>2. CASE Scsi!DeviceCallback
    <3>1. PICK n \in 1 .. MaxSectors : xvdd' = [xvdd EXCEPT !.new = n]
      BY <2>2 DEF Scsi!DeviceCallback
    <3>2. n \in Int /\ untold' = untold
      BY <2>2 DEF Scsi!DeviceCallback
    <3> QED BY <2>1, <3>1, <3>2 DEF Sensed, XvddData
  <2>3. CASE Scsi!Connect
    <3>1. PICK n \in 1 .. MaxSectors :
            xvdd' = [xvdd EXCEPT !.state = "ACTIVE", !.sectors = n, !.new = 0]
      BY <2>3 DEF Scsi!Connect
    <3>2. untold' = untold
      BY <2>3 DEF Scsi!Connect
    <3>3. xvdd' \in XvddData /\ xvdd'.cac = xvdd.cac /\ xvdd'.sense = xvdd.sense
      <4>1. n \in Int
        OBVIOUS
      <4>2. xvdd' = [state |-> "ACTIVE", sense |-> xvdd.sense, cac |-> xvdd.cac, sectors |-> n,
                     new |-> 0]
        BY <2>1, <3>1 DEF XvddData
      <4>3. xvdd.sense \in Keys /\ xvdd.cac \in BOOLEAN
        BY <2>1 DEF XvddData
      <4> QED BY <4>1, <4>2, <4>3 DEF XvddData
    <3> QED BY <2>1, <3>2, <3>3 DEF Sensed
  <2>4. CASE Scsi!ProcessStop
    <3>1. \/ UNCHANGED <<xvdd, untold>>
          \/ xvdd' = Scsi!Noticed /\ untold' = Scsi!Untold
      BY <2>4 DEF Scsi!ProcessStop
    <3> QED BY <2>1, <3>1, NoticedSound DEF Sensed
  <2> QED BY <2>2, <2>3, <2>4
<1>3. /\ srb' \in [Srbs -> SrbStates] /\ list' \in Seq(Srbs)
      /\ answers' \in Seq([srb : Srbs \cup {"reset"}, ok : BOOLEAN])
      /\ Queued' /\ OnceOnRing' /\ Counted' /\ xvsd' \in XvsdData
  BY <1>1, SameRequests DEF ScsiTypeOK
<1>4. Timed'
  BY <1>1 DEF Timed
<1> QED BY <1>2, <1>3, <1>4 DEF ScsiTypeOK

LEMMA StartIoKeeps ==
  ASSUME ScsiIInv, NEW s \in Srbs, Scsi!StartIo(s)
  PROVE  ScsiIInv'
<1> USE DEF ScsiIInv
<1>1. PICK c \in Commands, quiet \in BOOLEAN :
        srb' = [srb EXCEPT ![s] = [state |-> "list", cmd |-> c, quiet |-> quiet /\ Scsi!Scsi(c)]]
  BY DEF Scsi!StartIo
<1>2. /\ list' = Append(list, s) /\ xvsd' = [xvsd EXCEPT !.outstanding = @ + 1]
      /\ UNCHANGED <<xvdd, answers, filter, untold>> /\ scsi_pc' = "event"
      /\ srb[s].state = "none"
  BY DEF Scsi!StartIo
<1>3. /\ srb' \in [Srbs -> SrbStates] /\ srb'[s].state = "list"
      /\ \A t \in Srbs \ {s} : srb'[t] = srb[t]
  <2>1. [state |-> "list", cmd |-> c, quiet |-> quiet /\ Scsi!Scsi(c)] \in SrbStates
    BY DEF SrbStates
  <2> QED BY <1>1, <2>1 DEF ScsiTypeOK
<1>4. /\ list \in Seq(Srbs) /\ list' \in Seq(Srbs) /\ Len(list') = Len(list) + 1
      /\ \A i \in 1 .. Len(list) : list'[i] = list[i] /\ list[i] \in Srbs \ {s}
      /\ list'[Len(list) + 1] = s
  BY <1>2 DEF ScsiTypeOK, Queued
<1>5. xvsd' \in XvsdData /\ xvsd'.outstanding = xvsd.outstanding + 1
  <2>1. xvsd \in XvsdData
    BY DEF ScsiTypeOK
  <2> QED BY <1>2, <2>1 DEF XvsdData
<1>6. Queued'
  <2>1. \A i \in 1 .. Len(list') : i \in 1 .. Len(list) \/ i = Len(list) + 1
    BY <1>4
  <2>2. \A i \in 1 .. Len(list') : srb'[list'[i]].state = "list"
    BY <1>3, <1>4, <2>1 DEF Queued
  <2>3. \A i, j \in 1 .. Len(list') : list'[i] = list'[j] => i = j
    BY <1>4, <2>1 DEF Queued
  <2> QED BY <2>2, <2>3 DEF Queued
<1>7. OnceOnRing'
  <2>1. \A i \in 1 .. Len(answers) : answers[i].srb \in Srbs \cup {"reset"}
    <3>1. \A i \in 1 .. Len(answers) : answers[i] \in [srb : Srbs \cup {"reset"}, ok : BOOLEAN]
      BY ElementOfSeq DEF ScsiTypeOK
    <3> QED BY <3>1
  <2>2. \A i \in 1 .. Len(answers) : answers[i].srb # "reset" => answers[i].srb \in Srbs \ {s}
    BY <1>2, <2>1 DEF OnceOnRing
  <2> QED BY <1>2, <1>3, <2>2 DEF OnceOnRing
<1>8. Counted'
  <2>1. Waits' = Waits \cup {s} /\ s \notin Waits
    BY <1>2, <1>3 DEF Waits
  <2>2. Waits \in SUBSET Srbs
    BY DEF Waits
  <2>3. Cardinality(Waits \cup {s}) = Cardinality(Waits) + 1
    BY <2>1, <2>2, SrbFacts, FS_AddElement
  <2> QED BY <2>1, <2>3, <1>5 DEF Counted
<1>9. Sensed' /\ Timed'
  BY <1>2 DEF Sensed, Timed
<1> QED BY <1>2, <1>3, <1>4, <1>5, <1>6, <1>7, <1>8, <1>9 DEF ScsiTypeOK

LEMMA FirstKeeps ==
  ASSUME ScsiIInv, Scsi!ExecuteScsi \/ Scsi!RequestSense \/ Scsi!PlainFunction
  PROVE  ScsiIInv'
<1> USE DEF ScsiIInv
<1>1. /\ Scsi!CanProcess /\ Scsi!Returned(list[1]) /\ list' = Tail(list)
      /\ UNCHANGED <<answers, scsi_pc>>
  BY DEF Scsi!ExecuteScsi, Scsi!RequestSense, Scsi!PlainFunction, Scsi!Execute, Scsi!Complete,
         Scsi!First
<1>2. /\ list' \in Seq(Srbs) /\ srb' \in [Srbs -> SrbStates] /\ xvsd' \in XvsdData
      /\ Queued' /\ OnceOnRing' /\ Counted' /\ Timed'
  BY <1>1, FirstReturned
<1>3. list[1] \in Srbs /\ srb[list[1]].quiet \in BOOLEAN
  BY <1>1 DEF Scsi!CanProcess, ScsiTypeOK, SrbStates
<1>4. xvdd' \in XvddData /\ untold' \in {"none", "resize", "lost"} /\ Sensed'
  <2>1. CASE Scsi!ExecuteScsi
    <3> DEFINE c == srb[list[1]].cmd
               x == IF Scsi!Answer(DeviceType, c, 255).ok THEN Scsi!Noticed
                    ELSE Scsi!Refused(Scsi!Noticed, c)
    <3>1. Scsi!Complete(list[1], x, Scsi!Untold)
      BY <2>1 DEF Scsi!ExecuteScsi, Scsi!First
    <3>2. \/ x = Scsi!Noticed
          \/ x = [Scsi!Noticed EXCEPT !.sense = "ILLEGAL_REQUEST"]
      BY DEF Scsi!Refused, Scsi!Sets
    <3> HIDE DEF x, c
    <3>3. CASE x = Scsi!Noticed
      <4>1. Scsi!Complete(list[1], Scsi!Noticed, Scsi!Untold)
        BY <3>1, <3>3
      <4> QED BY <4>1, <1>3, NoticedSound, CompleteKeeps
    <3>4. CASE x = [Scsi!Noticed EXCEPT !.sense = "ILLEGAL_REQUEST"]
      <4>1. x \in XvddData /\ x.sense = "ILLEGAL_REQUEST"
        BY <3>4, NoticedSound DEF XvddData, Keys
      <4>2. xvdd' = Scsi!AutoSense(x, list[1]) /\ untold' =
              IF Scsi!Hidden(x, list[1]) THEN "hidden"
              ELSE Scsi!Told(Scsi!Untold, x.sense, Scsi!Given(x, list[1]))
        BY <3>1 DEF Scsi!Complete
      <4>3. ~Scsi!Hidden(x, list[1])
        BY <1>3, <4>1 DEF Scsi!Hidden, Scsi!AutoSense, Scsi!Given, XvddData
      <4>4. Scsi!Given(x, list[1]) \in {"NO_SENSE", "ILLEGAL_REQUEST"}
        BY <4>1 DEF Scsi!Given
      <4>5. untold' \in {"none", "lost"}
        BY <4>1, <4>2, <4>3, <4>4, NoticedSound DEF Scsi!Told
      <4>6. /\ xvdd' \in XvddData
            /\ xvdd'.cac => xvdd'.sense # "NO_SENSE"
        <5>1. xvdd' = IF srb[list[1]].quiet THEN [x EXCEPT !.cac = TRUE]
                      ELSE [x EXCEPT !.sense = "NO_SENSE", !.cac = FALSE]
          BY <1>3, <4>1, <4>2 DEF Scsi!AutoSense
        <5> QED BY <5>1, <4>1, <1>3 DEF XvddData, Keys
      <4> QED BY <4>5, <4>6 DEF Sensed
    <3> QED BY <3>2, <3>3, <3>4
  <2>2. CASE Scsi!RequestSense
    <3> DEFINE n == Scsi!Noticed
    <3>1. \/ /\ xvdd' = [n EXCEPT !.sense = "NO_SENSE", !.cac = FALSE]
             /\ untold' = Scsi!Told(Scsi!Untold, n.sense, n.sense)
          \/ /\ xvdd' = IF srb[list[1]].quiet THEN Scsi!AutoSense(n, list[1]) ELSE n
             /\ untold' = Scsi!Untold
      BY <2>2 DEF Scsi!RequestSense, Scsi!First
    <3>2. /\ n \in XvddData
          /\ n.cac => n.sense # "NO_SENSE"
          /\ Scsi!Untold \in {"none", "resize", "lost"}
          /\ Scsi!Untold = "resize" => n.sense = "UNIT_ATTENTION"
      BY NoticedSound
    <3> HIDE DEF n
    <3>3. srb[list[1]].quiet =>
            Scsi!AutoSense(n, list[1]) = IF n.sense = "NO_SENSE" THEN n ELSE [n EXCEPT !.cac = TRUE]
      BY <1>3 DEF Scsi!AutoSense
    <3>4. CASE xvdd' = [n EXCEPT !.sense = "NO_SENSE", !.cac = FALSE]
               /\ untold' = Scsi!Told(Scsi!Untold, n.sense, n.sense)
      <4>1. untold' \in {"none", "lost"}
        BY <3>2, <3>4 DEF Scsi!Told
      <4>2. xvdd' \in XvddData /\ ~xvdd'.cac
        BY <3>2, <3>4 DEF XvddData, Keys
      <4> QED BY <4>1, <4>2 DEF Sensed
    <3>5. CASE /\ xvdd' = IF srb[list[1]].quiet THEN Scsi!AutoSense(n, list[1]) ELSE n
               /\ untold' = Scsi!Untold
      <4>1. /\ xvdd' \in XvddData
            /\ xvdd'.cac => xvdd'.sense # "NO_SENSE"
            /\ xvdd'.sense = n.sense
        BY <3>2, <3>3, <3>5 DEF XvddData
      <4> QED BY <4>1, <3>2, <3>5 DEF Sensed
    <3> QED BY <3>1, <3>4, <3>5
  <2>3. CASE Scsi!PlainFunction
    BY <2>3 DEF Scsi!PlainFunction, Sensed, ScsiTypeOK
  <2> QED BY <2>1, <2>2, <2>3
<1>5. answers' \in Seq([srb : Srbs \cup {"reset"}, ok : BOOLEAN])
  BY <1>1 DEF ScsiTypeOK
<1> QED BY <1>2, <1>4, <1>5 DEF ScsiTypeOK

LEMMA PutOnRingKeeps ==
  ASSUME ScsiIInv, Scsi!PutSrbOnRing
  PROVE  ScsiIInv'
<1> USE DEF ScsiIInv
<1>1. /\ xvdd' = Scsi!Noticed /\ untold' = Scsi!Untold /\ UNCHANGED <<xvsd, answers>>
      /\ list # <<>> /\ (scsi_pc' = "idle" => scsi_pc = "idle")
      /\ \/ srb' = [srb EXCEPT ![list[1]].state = "ring"] /\ list' = Tail(list)
         \/ UNCHANGED <<srb, list>>
  BY DEF Scsi!PutSrbOnRing, Scsi!Execute, Scsi!CanProcess, Scsi!First, Scsi!Leave
<1>2. xvdd' \in XvddData /\ untold' \in {"none", "resize", "lost"} /\ Sensed'
  BY <1>1, NoticedSound DEF Sensed
<1>3. Timed'
  BY <1>1 DEF Timed
<1>4. /\ srb' \in [Srbs -> SrbStates] /\ list' \in Seq(Srbs)
      /\ answers' \in Seq([srb : Srbs \cup {"reset"}, ok : BOOLEAN])
      /\ Queued' /\ OnceOnRing' /\ Counted'
  <2>1. CASE UNCHANGED <<srb, list>>
    BY <1>1, <2>1, SameRequests DEF ScsiTypeOK
  <2>2. CASE srb' = [srb EXCEPT ![list[1]].state = "ring"] /\ list' = Tail(list)
    <3> DEFINE s == list[1]
    <3>1. /\ Len(list) \in Nat \ {0} /\ s \in Srbs /\ Tail(list) \in Seq(Srbs)
          /\ Len(Tail(list)) = Len(list) - 1
          /\ \A i \in 1 .. Len(Tail(list)) : Tail(list)[i] = list[i + 1]
      BY <1>1 DEF ScsiTypeOK
    <3>2. srb[s].state = "list" /\ srb[s] \in SrbStates
      BY <3>1 DEF Queued, ScsiTypeOK
    <3>3. /\ srb' \in [Srbs -> SrbStates] /\ srb'[s].state = "ring"
          /\ \A t \in Srbs \ {s} : srb'[t] = srb[t]
      <4>1. [srb[s] EXCEPT !.state = "ring"] \in SrbStates
            /\ [srb[s] EXCEPT !.state = "ring"].state = "ring"
        BY <3>2 DEF SrbStates
      <4>2. srb' = [srb EXCEPT ![s] = [srb[s] EXCEPT !.state = "ring"]]
        BY <2>2
      <4> HIDE DEF s
      <4> QED BY <3>1, <4>1, <4>2 DEF ScsiTypeOK
    <3>4. \A i \in 2 .. Len(list) : list[i] \in Srbs \ {s}
      <4>1. \A i \in 2 .. Len(list) : i \in 1 .. Len(list) /\ 1 \in 1 .. Len(list) /\ i # 1
        BY <3>1
      <4> QED BY <4>1 DEF Queued, ScsiTypeOK
    <3>5. Queued'
      <4>1. \A i \in 1 .. Len(list') : i + 1 \in 2 .. Len(list) /\ i + 1 \in 1 .. Len(list)
                                        /\ list'[i] = list[i + 1]
        BY <2>2, <3>1
      <4>2. \A i \in 1 .. Len(list') : srb'[list'[i]].state = "list"
        BY <3>3, <3>4, <4>1 DEF Queued
      <4>3. \A i, j \in 1 .. Len(list') : list'[i] = list'[j] => i = j
        <5> SUFFICES ASSUME NEW i \in 1 .. Len(list'), NEW j \in 1 .. Len(list'),
                            list'[i] = list'[j]
                     PROVE  i = j
          OBVIOUS
        <5>1. i + 1 = j + 1
          BY <4>1 DEF Queued
        <5> QED BY <5>1, <3>1
      <4> QED BY <4>2, <4>3 DEF Queued
    <3>6. OnceOnRing'
      <4>1. \A i \in 1 .. Len(answers) : answers[i].srb # "reset" =>
              answers[i].srb \in Srbs \ {s}
        <5>1. \A i \in 1 .. Len(answers) : answers[i] \in [srb : Srbs \cup {"reset"}, ok : BOOLEAN]
          BY ElementOfSeq DEF ScsiTypeOK
        <5>2. \A i \in 1 .. Len(answers) : answers[i].srb \in Srbs \cup {"reset"}
          BY <5>1
        <5> QED BY <3>2, <5>2 DEF OnceOnRing
      <4> QED BY <1>1, <3>3, <4>1 DEF OnceOnRing
    <3>7. Waits' = Waits
      BY <3>2, <3>3 DEF Waits
    <3> QED BY <1>1, <2>2, <3>1, <3>3, <3>5, <3>6, <3>7 DEF Counted, ScsiTypeOK
  <2> QED BY <1>1, <2>1, <2>2
<1> QED BY <1>1, <1>2, <1>3, <1>4 DEF ScsiTypeOK

LEMMA ResponseKeeps ==
  ASSUME ScsiIInv, Scsi!Response
  PROVE  ScsiIInv'
<1> USE DEF ScsiIInv
<1> DEFINE a == answers[1]
<1>1. /\ answers # <<>> /\ answers' = Tail(answers) /\ UNCHANGED <<list, scsi_pc>>
      /\ scsi_pc = "responses"
      /\ \/ a.srb \in Srbs
            /\ Scsi!Complete(a.srb, IF a.ok THEN xvdd ELSE Scsi!Sets(xvdd, "MEDIUM_ERROR"), untold)
         \/ a.srb \notin Srbs /\ xvsd' = [xvsd EXCEPT !.reset = @ - 1]
            /\ UNCHANGED <<xvdd, srb, untold>>
  BY DEF Scsi!Response, ScsiTypeOK
<1>2. /\ Len(answers) \in Nat \ {0} /\ a \in [srb : Srbs \cup {"reset"}, ok : BOOLEAN]
      /\ Len(answers') = Len(answers) - 1
      /\ answers' \in Seq([srb : Srbs \cup {"reset"}, ok : BOOLEAN])
      /\ \A i \in 1 .. Len(answers') : answers'[i] = answers[i + 1]
  <2>1. answers \in Seq([srb : Srbs \cup {"reset"}, ok : BOOLEAN])
    BY DEF ScsiTypeOK
  <2>2. Len(answers) \in Nat \ {0}
    BY <1>1, <2>1, EmptySeq
  <2>3. 1 \in 1 .. Len(answers)
    BY <2>2
  <2>4. answers[1] \in [srb : Srbs \cup {"reset"}, ok : BOOLEAN]
    BY <2>1, <2>3, ElementOfSeq
  <2> QED BY <1>1, <2>1, <2>2, <2>4, HeadTailProperties
<1>3. \A i \in 1 .. Len(answers') : i + 1 \in 1 .. Len(answers) /\ 1 \in 1 .. Len(answers) /\ i + 1 # 1
  BY <1>2
<1>4. \A i \in 1 .. Len(answers') :
        /\ answers'[i].srb # "reset" => answers'[i].srb # a.srb
        /\ answers'[i].srb # "reset" => srb[answers'[i].srb].state = "ring"
        /\ answers'[i].srb \in Srbs \cup {"reset"}
  <2>1. \A i \in 1 .. Len(answers') : answers'[i] \in [srb : Srbs \cup {"reset"}, ok : BOOLEAN]
    BY <1>2, ElementOfSeq
  <2>2. \A i \in 1 .. Len(answers') : answers'[i].srb \in Srbs \cup {"reset"}
    BY <2>1
  <2> QED BY <1>2, <1>3, <2>2 DEF OnceOnRing
<1>5. \A i, j \in 1 .. Len(answers') :
        answers'[i].srb # "reset" /\ answers'[i].srb = answers'[j].srb => i = j
  <2> SUFFICES ASSUME NEW i \in 1 .. Len(answers'), NEW j \in 1 .. Len(answers'),
                      answers'[i].srb # "reset", answers'[i].srb = answers'[j].srb
               PROVE  i = j
    OBVIOUS
  <2>1. i + 1 = j + 1
    BY <1>2, <1>3 DEF OnceOnRing
  <2> QED BY <2>1, <1>2
<1>6. CASE a.srb \in Srbs
  <2> DEFINE s == a.srb
             x == IF a.ok THEN xvdd ELSE Scsi!Sets(xvdd, "MEDIUM_ERROR")
  <2>1. Scsi!Complete(s, x, untold) /\ Scsi!Returned(s)
    BY <1>1, <1>6 DEF Scsi!Complete
  <2>2. s # "reset" /\ srb[s].state = "ring"
    BY <1>2, <1>6, SrbFacts DEF OnceOnRing
  <2>3. /\ srb' \in [Srbs -> SrbStates] /\ xvsd' \in XvsdData /\ Counted'
        /\ \A t \in Srbs \ {s} : srb'[t] = srb[t]
    BY <1>6, <2>1, <2>2, ReturnKeeps
  <2>4. Queued'
    <3>1. \A i \in 1 .. Len(list) : list[i] \in Srbs \ {s}
      BY <2>2 DEF Queued, ScsiTypeOK
    <3> QED BY <1>1, <2>3, <3>1 DEF Queued
  <2>5. OnceOnRing'
    <3>1. \A i \in 1 .. Len(answers') : answers'[i].srb # "reset" => answers'[i].srb \in Srbs \ {s}
      BY <1>4
    <3>2. \A i \in 1 .. Len(answers') :
            answers'[i].srb # "reset" => srb'[answers'[i].srb].state = "ring"
      BY <1>4, <2>3, <3>1
    <3> QED BY <1>5, <3>2 DEF OnceOnRing
  <2>6. xvdd' \in XvddData /\ untold' \in {"none", "resize", "lost"} /\ Sensed'
    <3> DEFINE y == Scsi!Sets(xvdd, "MEDIUM_ERROR")
    <3>1. y \in XvddData /\ y.sense = "MEDIUM_ERROR" /\ xvdd \in XvddData
          /\ untold \in {"none", "resize", "lost"}
      BY DEF Scsi!Sets, XvddData, Keys, ScsiTypeOK
    <3>2. CASE a.ok
      <4>1. Scsi!Complete(s, xvdd, untold)
        BY <2>1, <3>2
      <4> QED BY <1>6, <3>1, <4>1, CompleteKeeps DEF Sensed
    <3>3. CASE ~a.ok
      <4>1. Scsi!Complete(s, y, untold)
        BY <2>1, <3>3
      <4> HIDE DEF y, s
      <4>2. xvdd' = Scsi!AutoSense(y, s) /\ untold' =
              IF Scsi!Hidden(y, s) THEN "hidden"
              ELSE Scsi!Told(untold, y.sense, Scsi!Given(y, s))
        BY <4>1 DEF Scsi!Complete
      <4>3. srb[s].quiet \in BOOLEAN
        BY <1>6 DEF ScsiTypeOK, SrbStates, s
      <4>4. ~Scsi!Hidden(y, s)
        BY <3>1, <4>3 DEF Scsi!Hidden, Scsi!AutoSense, Scsi!Given, XvddData
      <4>5. Scsi!Given(y, s) \in {"NO_SENSE", "MEDIUM_ERROR"}
        BY <3>1 DEF Scsi!Given
      <4>6. untold' \in {"none", "lost"}
        BY <3>1, <4>2, <4>4, <4>5 DEF Scsi!Told
      <4>7. /\ xvdd' \in XvddData
            /\ xvdd'.cac => xvdd'.sense # "NO_SENSE"
        <5>1. xvdd' = IF srb[s].quiet THEN [y EXCEPT !.cac = TRUE]
                      ELSE [y EXCEPT !.sense = "NO_SENSE", !.cac = FALSE]
          BY <3>1, <4>2, <4>3 DEF Scsi!AutoSense
        <5> QED BY <5>1, <3>1, <4>3 DEF XvddData, Keys
      <4> QED BY <4>6, <4>7 DEF Sensed
    <3> QED BY <3>2, <3>3
  <2>7. Timed'
    BY <1>1 DEF Timed
  <2> QED BY <1>1, <1>2, <2>3, <2>4, <2>5, <2>6, <2>7 DEF ScsiTypeOK
<1>7. CASE a.srb \notin Srbs
  <2>1. xvsd' = [xvsd EXCEPT !.reset = @ - 1] /\ UNCHANGED <<xvdd, srb, untold>>
    BY <1>1, <1>7
  <2>2. xvsd' \in XvsdData /\ xvsd'.outstanding = xvsd.outstanding
    <3>1. xvsd \in XvsdData
      BY DEF ScsiTypeOK
    <3> QED BY <2>1, <3>1 DEF XvsdData
  <2>3. Waits' = Waits
    BY <2>1 DEF Waits
  <2>4. OnceOnRing'
    BY <1>4, <1>5, <2>1 DEF OnceOnRing
  <2>5. Queued' /\ Counted' /\ Sensed' /\ Timed'
    BY <1>1, <2>1, <2>2, <2>3 DEF Queued, Counted, Sensed, Timed
  <2> QED BY <1>1, <1>2, <2>1, <2>2, <2>4, <2>5 DEF ScsiTypeOK
<1> QED BY <1>6, <1>7

LEMMA BackendKeeps ==
  ASSUME ScsiIInv, Scsi!BackendAnswers
  PROVE  ScsiIInv'
<1> USE DEF ScsiIInv
<1>1. UNCHANGED <<xvdd, xvsd, srb, list, scsi_pc, untold>>
  BY DEF Scsi!BackendAnswers
<1>2. PICK a \in [srb : Srbs \cup {"reset"}, ok : BOOLEAN] :
        /\ answers' = Append(answers, a)
        /\ a.srb # "reset" => /\ srb[a.srb].state = "ring"
                              /\ \A i \in 1 .. Len(answers) : answers[i].srb # a.srb
  <2>1. CASE \E s \in Scsi!OnTheRing, ok \in BOOLEAN :
               /\ \A i \in DOMAIN answers : answers[i].srb # s
               /\ answers' = Append(answers, [srb |-> s, ok |-> ok])
    <3>1. PICK s \in Scsi!OnTheRing, ok \in BOOLEAN :
               /\ \A i \in DOMAIN answers : answers[i].srb # s
               /\ answers' = Append(answers, [srb |-> s, ok |-> ok])
      BY <2>1
    <3>2. s \in Srbs /\ srb[s].state = "ring" /\ DOMAIN answers = 1 .. Len(answers)
      BY DEF Scsi!OnTheRing, ScsiTypeOK
    <3>3. [srb |-> s, ok |-> ok] \in [srb : Srbs \cup {"reset"}, ok : BOOLEAN]
      BY <3>2
    <3> HIDE DEF Scsi!OnTheRing
    <3> DEFINE a == [srb |-> s, ok |-> ok]
    <3>4. a.srb = s /\ answers' = Append(answers, a) /\ \A i \in 1 .. Len(answers) : answers[i].srb # s
      BY <3>1, <3>2
    <3> HIDE DEF a
    <3> QED BY <3>2, <3>3, <3>4 DEF a
  <2>2. CASE answers' = Append(answers, [srb |-> "reset", ok |-> TRUE])
    <3>1. [srb |-> "reset", ok |-> TRUE] \in [srb : Srbs \cup {"reset"}, ok : BOOLEAN]
      OBVIOUS
    <3> QED BY <2>2, <3>1
  <2> QED BY <2>1, <2>2 DEF Scsi!BackendAnswers
<1>3. /\ answers' \in Seq([srb : Srbs \cup {"reset"}, ok : BOOLEAN])
      /\ Len(answers) \in Nat /\ Len(answers') = Len(answers) + 1
      /\ \A i \in 1 .. Len(answers) : answers'[i] = answers[i]
      /\ answers'[Len(answers) + 1] = a
  <2>1. answers \in Seq([srb : Srbs \cup {"reset"}, ok : BOOLEAN])
    BY DEF ScsiTypeOK
  <2> QED BY <1>2, <2>1, AppendProperties
<1>4. \A i \in 1 .. Len(answers') : i \in 1 .. Len(answers) \/ i = Len(answers) + 1
  BY <1>3
<1>5. OnceOnRing'
  <2>1. \A i \in 1 .. Len(answers') :
          answers'[i].srb # "reset" => srb[answers'[i].srb].state = "ring"
    BY <1>2, <1>3, <1>4 DEF OnceOnRing
  <2>2. \A i, j \in 1 .. Len(answers') :
          answers'[i].srb # "reset" /\ answers'[i].srb = answers'[j].srb => i = j
    BY <1>2, <1>3, <1>4 DEF OnceOnRing
  <2> QED BY <1>1, <2>1, <2>2 DEF OnceOnRing
<1>6. Waits' = Waits
  BY <1>1 DEF Waits
<1> QED BY <1>1, <1>3, <1>5, <1>6 DEF ScsiTypeOK, Queued, Counted, Sensed, Timed

\* What is given back by a reset is what was queued or on the ring.
LEMMA ResetKeeps ==
  ASSUME ScsiIInv, Scsi!Reset(Scsi!ToReset), scsi_pc' = scsi_pc
  PROVE  ScsiIInv'
<1> USE DEF ScsiIInv
<1> DEFINE S == Scsi!ToReset
           R == Scsi!OnTheRing
<1>1. /\ S = {s \in Srbs : srb[s].state \in {"list", "ring"}}
      /\ R = {s \in Srbs : srb[s].state = "ring"}
  BY DEF Scsi!ToReset, Scsi!OnTheRing
<1>2. /\ srb' = [s \in Srbs |-> IF s \in S \cup R THEN Scsi!NewSrb ELSE srb[s]]
      /\ xvsd' = [xvsd EXCEPT !.outstanding = @ - Cardinality(S), !.reset = @ + Cardinality(R)]
      /\ list' = <<>>
      /\ answers' = [i \in DOMAIN answers |-> [srb |-> "reset", ok |-> TRUE]]
      /\ UNCHANGED <<xvdd, untold>>
  BY SrbFacts DEF Scsi!Reset
<1> HIDE DEF S, R
<1>3. Cardinality(S) \in Nat /\ Cardinality(R) \in Nat
  BY <1>1, SrbFacts
<1>4. srb' \in [Srbs -> SrbStates]
      /\ \A s \in Srbs : srb'[s] = IF s \in S THEN Scsi!NewSrb ELSE srb[s]
  <2>1. Scsi!NewSrb \in SrbStates
    BY DEF Scsi!NewSrb, SrbStates
  <2>2. R \subseteq S
    BY <1>1
  <2> QED BY <1>2, <2>1, <2>2 DEF ScsiTypeOK
<1>5. /\ xvsd' \in XvsdData
      /\ xvsd'.outstanding = xvsd.outstanding - Cardinality(S)
      /\ xvsd'.timer = xvsd.timer
  <2>1. xvsd \in XvsdData
    BY DEF ScsiTypeOK
  <2>2. xvsd' = [outstanding |-> xvsd.outstanding - Cardinality(S), timer |-> xvsd.timer,
                 stop |-> xvsd.stop, reset |-> xvsd.reset + Cardinality(R), lost |-> xvsd.lost]
    BY <1>2, <2>1 DEF XvsdData
  <2>3. /\ xvsd.outstanding - Cardinality(S) \in Int /\ xvsd.reset + Cardinality(R) \in Int
        /\ xvsd.timer \in BOOLEAN /\ xvsd.stop \in BOOLEAN /\ xvsd.lost \in Int
    BY <1>3, <2>1 DEF XvsdData
  <2> QED BY <2>2, <2>3 DEF XvsdData
<1>6. /\ answers' \in Seq([srb : Srbs \cup {"reset"}, ok : BOOLEAN])
      /\ \A i \in 1 .. Len(answers') : answers'[i].srb = "reset"
  <2> DEFINE T == [srb : Srbs \cup {"reset"}, ok : BOOLEAN]
             r == [srb |-> "reset", ok |-> TRUE]
  <2>1. Len(answers) \in Nat /\ DOMAIN answers = 1 .. Len(answers)
    BY LenProperties DEF ScsiTypeOK
  <2>2. r \in T /\ r.srb = "reset"
    OBVIOUS
  <2> HIDE DEF T, r
  <2>3. answers' = [i \in 1 .. Len(answers) |-> r]
    BY <1>2, <2>1 DEF r
  <2>4. answers' \in Seq(T) /\ Len(answers') = Len(answers)
    BY <2>1, <2>2, <2>3, IsASeq
  <2> QED BY <2>2, <2>3, <2>4 DEF T
<1>7. Queued' /\ OnceOnRing'
  BY <1>2, <1>6 DEF Queued, OnceOnRing
<1>8. Counted'
  <2>1. Scsi!NewSrb.state = "none"
    BY DEF Scsi!NewSrb
  <2>2. Waits' = Waits \ S /\ S \subseteq Waits
    BY <1>1, <1>4, <2>1 DEF Waits
  <2>3. Waits \in SUBSET Srbs
    BY DEF Waits
  <2>4. /\ IsFiniteSet(Waits) /\ Cardinality(Waits) \in Nat
        /\ S \cup (Waits \ S) = Waits /\ S \cap (Waits \ S) = {}
        /\ IsFiniteSet(S) /\ IsFiniteSet(Waits \ S) /\ Cardinality(Waits \ S) \in Nat
    BY <2>2, <2>3, SrbFacts
  <2>5. Cardinality(S \cup (Waits \ S))
          = Cardinality(S) + Cardinality(Waits \ S) - Cardinality(S \cap (Waits \ S))
    BY <2>4, FS_Union
  <2>6. Cardinality(Waits) = Cardinality(S) + Cardinality(Waits \ S)
    <3>1. Cardinality(S \cap (Waits \ S)) = 0
      BY <2>4, FS_EmptySet
    <3> QED BY <2>4, <2>5, <3>1, <1>3
  <2> QED BY <1>3, <1>5, <2>2, <2>4, <2>6 DEF Counted
<1>9. Sensed'
  BY <1>2 DEF Sensed
<1>10. Timed'
  <2>1. xvsd.outstanding \in Int
    BY DEF ScsiTypeOK, XvsdData
  <2> QED BY <2>1, <1>3, <1>5 DEF Timed
<1>11. list' \in Seq(Srbs)
  BY <1>2
<1> QED BY <1>2, <1>4, <1>5, <1>6, <1>7, <1>8, <1>9, <1>10, <1>11 DEF ScsiTypeOK

LEMMA ScsiDisconnectKeeps ==
  ASSUME ScsiIInv, Scsi!Disconnect
  PROVE  ScsiIInv'
<1> USE DEF ScsiIInv
<1> DEFINE R == Scsi!OnTheRing
<1>1. /\ xvdd' = [xvdd EXCEPT !.state = "DISCONNECTED"]
      /\ answers' = <<>>
      /\ srb' = [s \in Srbs |-> IF s \in R THEN [srb[s] EXCEPT !.state = "lost"] ELSE srb[s]]
      /\ xvsd' = [xvsd EXCEPT !.reset = 0, !.lost = Scsi!Taken]
      /\ UNCHANGED <<list, scsi_pc, untold>>
  BY DEF Scsi!Disconnect
<1>2. R = {s \in Srbs : srb[s].state = "ring"}
  BY DEF Scsi!OnTheRing
<1>3. Scsi!Taken \in Int
  <2>1. Cardinality(R) \in Nat /\ Scsi!Cardinality(R) = Cardinality(R)
    BY <1>2, SrbFacts
  <2>2. xvsd.reset \in Int /\ xvsd.lost \in Int
    BY DEF ScsiTypeOK, XvsdData
  <2> QED BY <2>1, <2>2 DEF Scsi!Taken
<1> HIDE DEF R
<1>4. /\ srb' \in [Srbs -> SrbStates]
      /\ \A s \in Srbs : srb'[s].state = IF s \in R THEN "lost" ELSE srb[s].state
  <2>1. \A s \in Srbs : srb[s] \in SrbStates
    BY DEF ScsiTypeOK
  <2>2. \A x \in SrbStates : [x EXCEPT !.state = "lost"] \in SrbStates
                             /\ [x EXCEPT !.state = "lost"].state = "lost"
    BY DEF SrbStates
  <2> QED BY <1>1, <2>1, <2>2
<1>5. /\ xvsd' \in XvsdData /\ xvsd'.outstanding = xvsd.outstanding
      /\ xvsd'.timer = xvsd.timer
  <2>1. xvsd \in XvsdData
    BY DEF ScsiTypeOK
  <2>2. xvsd' = [outstanding |-> xvsd.outstanding, timer |-> xvsd.timer,
                 stop |-> xvsd.stop, reset |-> 0, lost |-> Scsi!Taken]
    BY <1>1, <2>1 DEF XvsdData
  <2>3. xvsd.outstanding \in Int /\ xvsd.timer \in BOOLEAN /\ xvsd.stop \in BOOLEAN
    BY <2>1 DEF XvsdData
  <2> QED BY <1>3, <2>2, <2>3 DEF XvsdData
<1>6. /\ xvdd' \in XvddData /\ xvdd'.sense = xvdd.sense /\ xvdd'.cac = xvdd.cac
  <2>1. xvdd \in XvddData
    BY DEF ScsiTypeOK
  <2> QED BY <1>1, <2>1 DEF XvddData
<1>7. Waits' = Waits
  BY <1>2, <1>4 DEF Waits
<1>8. Queued'
  BY <1>1, <1>2, <1>4 DEF Queued, ScsiTypeOK
<1>9. OnceOnRing' /\ answers' \in Seq([srb : Srbs \cup {"reset"}, ok : BOOLEAN])
  BY <1>1 DEF OnceOnRing
<1>10. Counted' /\ Sensed' /\ Timed'
  BY <1>1, <1>5, <1>6, <1>7 DEF Counted, Sensed, Timed
<1> QED BY <1>1, <1>4, <1>5, <1>6, <1>8, <1>9, <1>10 DEF ScsiTypeOK

LEMMA ScsiInvariance == Scsi!Spec => []ScsiIInv
<1>1. Scsi!Init => ScsiIInv
  BY ScsiInit
<1>2. ScsiIInv /\ [Scsi!Next]_(Scsi!vars) => ScsiIInv'
  <2> SUFFICES ASSUME ScsiIInv, [Scsi!Next]_(Scsi!vars) PROVE ScsiIInv'
    OBVIOUS
  <2>1. CASE Scsi!Event \/ Scsi!NoDevice \/ Scsi!ControlStop \/ Scsi!ControlStart
             \/ Scsi!HandleEvent \/ Scsi!Finish
    BY <2>1, ScsiHandlersKeep
  <2>2. CASE Scsi!DeviceCallback \/ Scsi!Connect \/ Scsi!ProcessStop
    BY <2>2, DeviceKeeps
  <2>3. CASE \E s \in Srbs : Scsi!StartIo(s)
    BY <2>3, StartIoKeeps
  <2>4. CASE Scsi!ExecuteScsi \/ Scsi!RequestSense \/ Scsi!PlainFunction
    BY <2>4, FirstKeeps
  <2>5. CASE Scsi!PutSrbOnRing
    BY <2>5, PutOnRingKeeps
  <2>6. CASE Scsi!Response
    BY <2>6, ResponseKeeps
  <2>7. CASE Scsi!BackendAnswers
    BY <2>7, BackendKeeps
  <2>8. CASE Scsi!HwScsiResetBus \/ Scsi!ResetFunction
    <3>1. Scsi!Reset(Scsi!ToReset) /\ scsi_pc' = scsi_pc
      BY <2>8 DEF Scsi!HwScsiResetBus, Scsi!ResetFunction
    <3> QED BY <3>1, ResetKeeps
  <2>9. CASE Scsi!Disconnect
    BY <2>9, ScsiDisconnectKeeps
  <2>10. CASE UNCHANGED Scsi!vars
    BY <2>10 DEF Scsi!vars, ScsiIInv, ScsiTypeOK, Queued, OnceOnRing, Sensed, Counted, Timed, Waits
  <2> QED BY <2>1, <2>2, <2>3, <2>4, <2>5, <2>6, <2>7, <2>8, <2>9, <2>10 DEF Scsi!Next
<1> QED BY <1>1, <1>2, PTL DEF Scsi!Spec

\* Sense data is never dropped, outstanding is what scsiport waits for, and the answers that
\* are put together fit, for every set of requests, limit and size of the ring (VbdScsi).
THEOREM ScsiKept == Scsi!Spec => []ScsiSound
<1>1. Scsi!Spec => []ScsiIInv
  BY ScsiInvariance
<1>2. ScsiIInv => ScsiSound
  BY ScsiConsequence
<1> QED BY <1>1, <1>2, PTL

-----------------------------------------------------------------------------
(***************************************************************************)
(* UsbHub: a device that was given an address keeps it until it is         *)
(* removed, which waits for the URBs in its queue, so that the addresses   *)
(* of the live devices and those on the stack are all there are; and a     *)
(* device that is ready has the configurations its descriptor counted.     *)
(***************************************************************************)
DeviceConfigurations == {c \in Seq(Nat) \ {<<>>} : Usb!EndpointsOf(c) \in Nat}
DeviceStates == {"created", "addressing", "describing", "configuring", "ready", "failed"}
DeviceData == [state : DeviceStates, port : Ports, address : DevIds \cup {0},
               answered : BOOLEAN, tree : Seq(DeviceConfigurations), configs : Nat]
UrbData == [state : {"queued", "waiting", "done"}, to : Handles \cup {Usb!Root}, f : Usb!Functions,
            pipe : {<<>>} \cup ((DevIds \cup {0}) \X Ports), setup : BOOLEAN, ok : BOOLEAN,
            answers : Nat]

HubTypeOK ==
  /\ hub \in {"none", "created", "open"}
  /\ addresses \in [DevIds -> Int]
  /\ dev \in [Handles -> DeviceData \cup {Usb!NoDevice}]
  /\ plugged \in [Ports -> Seq(DeviceConfigurations)]
  /\ urb \in [Urbs -> UrbData \cup {Usb!NewUrb}]

DevicesReady ==
  /\ hub # "open" => \A h \in Handles : dev[h] = Usb!NoDevice
  /\ \A h \in Handles :
       /\ h \in Usb!Live => dev[h].address \in DevIds
       /\ dev[h].state \in {"configuring", "ready"} => dev[h].configs > 0
       /\ dev[h].state = "ready" => Len(dev[h].tree) = dev[h].configs

\* The addresses on the stack and those of the devices make up all there are.
Shared ==
  hub # "none" =>
    \A a \in DevIds : addresses[a] + Cardinality({h \in Usb!Live : dev[h].address = a}) = 1

\* Only what is decoded well waits for an answer.
UrbsOnce ==
  \A u \in Urbs :
    /\ urb[u].state = "queued" /\ urb[u].to # Usb!Root => dev[urb[u].to].state = "ready"
    /\ urb[u].state \in {"queued", "waiting"} => urb[u].answers = 0
    /\ urb[u].state = "done" => urb[u].answers = 1
    /\ urb[u].state = "waiting" /\ urb[u].to # Usb!Root => urb[u].setup
    /\ urb[u].state = "waiting" => urb[u].f \notin {"VENDOR", "GET_STATUS", "OTHER"}
    /\ urb[u].state = "done" /\ urb[u].f \in {"VENDOR", "GET_STATUS", "OTHER"} => ~urb[u].ok

HubIInv == HubTypeOK /\ DevicesReady /\ Shared /\ UrbsOnce

LEMMA HubFacts ==
  /\ IsFiniteSet(Handles) /\ Buffers \subseteq Nat
  /\ Shapes \subseteq Seq(DeviceConfigurations)
  /\ \A S : Usb!Cardinality(S) = Cardinality(S)
  /\ \A S \in SUBSET Handles : IsFiniteSet(S) /\ Cardinality(S) \in Nat
<1>1. \A S : /\ Usb!Cardinality(S) = Cardinality(S)
             /\ Usb!IsFiniteSet(S) <=> IsFiniteSet(S)
  BY DEF Usb!Cardinality, Cardinality, Usb!IsFiniteSet, IsFiniteSet
<1>2. IsFiniteSet(Handles) /\ Buffers \subseteq Nat
  BY <1>1, MCRequestsAssumption DEF Usb!UsbHubAssumption
<1>3. ASSUME NEW s \in Shapes PROVE s \in Seq(DeviceConfigurations)
  <2>1. s \in Seq(Seq(Nat) \ {<<>>}) /\ \A i \in 1 .. Len(s) : Usb!EndpointsOf(s[i]) \in Nat
    BY MCRequestsAssumption DEF Usb!UsbHubAssumption
  <2>2. Len(s) \in Nat /\ s \in [1 .. Len(s) -> Seq(Nat) \ {<<>>}]
    BY <2>1, LenProperties
  <2>3. s \in [1 .. Len(s) -> DeviceConfigurations]
    BY <2>1, <2>2 DEF DeviceConfigurations
  <2>4. \A n \in Nat : [1 .. n -> DeviceConfigurations] \subseteq Seq(DeviceConfigurations)
    BY SeqDef
  <2> QED BY <2>2, <2>3, <2>4
<1>4. \A S \in SUBSET Handles : IsFiniteSet(S) /\ Cardinality(S) \in Nat
  BY <1>2, FS_Subset, FS_CardinalityType
<1> QED BY <1>1, <1>2, <1>3, <1>4

LEMMA HubConsequence ==
  ASSUME HubIInv
  PROVE  HubSound
<1> USE DEF HubIInv
<1>1. Usb!AddressesSound
  BY HubFacts DEF Shared, Usb!AddressesSound
<1>2. ASSUME NEW h \in Handles, dev[h].state = "ready", NEW length \in Buffers
      PROVE  LET first == Usb!GetUsbDescriptors(h, length)
                 query == Usb!QueryDeviceInformation(h, length)
             IN  /\ first.written <= length
                 /\ Usb!GetUsbDescriptors(h, first.told).written = first.told
                 /\ query.written <= length
                 /\ Usb!QueryDeviceInformation(h, query.told).written = query.told
  <2> DEFINE c == dev[h].tree[1]
             total == Usb!TotalLength(c)
             size == Usb!RequiredSize(h)
  <2>1. c \in DeviceConfigurations
    <3>1. dev[h] # Usb!NoDevice
      BY <1>2 DEF Usb!NoDevice
    <3>2. dev[h] \in DeviceData
      BY <3>1 DEF HubTypeOK
    <3>3. dev[h].tree \in Seq(DeviceConfigurations) /\ Len(dev[h].tree) > 0
      BY <1>2, <3>2 DEF DeviceData, DevicesReady
    <3>4. 1 \in 1 .. Len(dev[h].tree)
      BY <3>3
    <3> QED BY <3>3, <3>4, ElementOfSeq
  <2>2. c \in Seq(Nat) /\ Len(c) \in Nat /\ Usb!EndpointsOf(c) \in Nat /\ c[1] \in Nat
    BY <2>1 DEF DeviceConfigurations
  <2>3. total \in Nat /\ size \in Nat /\ length \in Nat
    <3>1. total = 9 + 9 * Len(c) + 7 * Usb!EndpointsOf(c)
      BY DEF Usb!TotalLength, Usb!HeaderOf
    <3>2. size = 44 + 16 * c[1]
      BY DEF Usb!RequiredSize, Usb!HeaderOf
    <3>3. \A x, y \in Nat : 9 + 9 * x + 7 * y \in Nat /\ 44 + 16 * x \in Nat
      OBVIOUS
    <3>4. length \in Nat
      BY HubFacts
    <3> HIDE DEF c, total, size
    <3> QED BY <2>2, <3>1, <3>2, <3>3, <3>4
  <2>4. \A n : /\ Usb!GetUsbDescriptors(h, n).written = (IF total < n THEN total ELSE n)
               /\ Usb!GetUsbDescriptors(h, n).told = total
               /\ Usb!QueryDeviceInformation(h, n).written = (IF n < size THEN 0 ELSE size)
               /\ Usb!QueryDeviceInformation(h, n).told = size
    BY DEF Usb!GetUsbDescriptors, Usb!QueryDeviceInformation, Usb!Least
  <2> HIDE DEF total, size
  <2> QED BY <2>3, <2>4
<1>3. \A u \in Urbs :
         /\ urb[u].state \in {"queued", "waiting"} => urb[u].answers = 0
         /\ urb[u].state = "done" => urb[u].answers = 1
         /\ urb[u].state = "waiting" /\ urb[u].to # Usb!Root => urb[u].setup
         /\ urb[u].state = "done" /\ urb[u].f \in {"VENDOR", "GET_STATUS", "OTHER"} => ~urb[u].ok
  BY DEF UrbsOnce
<1>4. Usb!AnswersSound
  BY <1>2, <1>3 DEF Usb!AnswersSound
<1> QED BY <1>1, <1>4 DEF HubSound, Usb!HubSound

LEMMA HubInit ==
  ASSUME Usb!Init
  PROVE  HubIInv
<1>1. HubTypeOK
  <2>1. <<>> \in Seq(DeviceConfigurations)
    OBVIOUS
  <2>2. plugged \in [Ports -> Seq(DeviceConfigurations)]
    BY <2>1, HubFacts DEF Usb!Init, Usb!NothingPlugged
  <2> QED BY <2>2 DEF HubTypeOK, Usb!Init
<1>2. \A h \in Handles : dev[h] = Usb!NoDevice /\ dev[h].state = "none"
  BY DEF Usb!Init, Usb!NoDevice
<1>3. DevicesReady /\ Shared
  BY <1>2 DEF DevicesReady, Shared, Usb!Live, Usb!Init
<1>4. UrbsOnce
  BY DEF UrbsOnce, Usb!Init, Usb!NewUrb
<1> QED BY <1>1, <1>3, <1>4 DEF HubIInv

LEMMA SameHub ==
  ASSUME HubIInv, UNCHANGED <<hub, addresses, dev, plugged, urb>>
  PROVE  HubIInv'
BY DEF HubIInv, HubTypeOK, DevicesReady, Shared, UrbsOnce, Usb!Live

LEMMA HubItselfKeeps ==
  ASSUME HubIInv,
         Usb!CreateHub \/ Usb!QueryInterface \/ Usb!Routines \/ Usb!Stopped
           \/ \E p \in Ports : Usb!Plug(p)
  PROVE  HubIInv'
<1> USE DEF HubIInv
<1>1. CASE Usb!CreateHub
  <2>1. /\ hub = "none" /\ hub' \in {"none", "created"}
        /\ addresses' = [a \in DevIds |-> 1] /\ UNCHANGED <<dev, plugged, urb>>
    BY <1>1 DEF Usb!CreateHub
  <2>2. \A h \in Handles : dev[h] = Usb!NoDevice /\ dev[h].state = "none"
    BY <2>1 DEF DevicesReady, Usb!NoDevice
  <2>3. Usb!Live' = {}
    BY <2>1, <2>2 DEF Usb!Live
  <2>4. \A a \in DevIds : Cardinality({h \in Usb!Live : dev[h].address = a})' = 0
    <3>1. \A a \in DevIds : {h \in Usb!Live' : dev'[h].address = a} = {}
      BY <2>3
    <3> QED BY <3>1, FS_EmptySet
  <2>5. Shared'
    BY <2>1, <2>4 DEF Shared
  <2>6. HubTypeOK'
    BY <2>1 DEF HubTypeOK
  <2>7. DevicesReady'
    BY <2>1, <2>2, <2>3 DEF DevicesReady
  <2>8. UrbsOnce'
    BY <2>1 DEF UrbsOnce
  <2> QED BY <2>5, <2>6, <2>7, <2>8
<1>2. CASE Usb!QueryInterface
  <2>1. hub # "none" /\ hub' \in {hub, "open"} /\ UNCHANGED <<addresses, dev, plugged, urb>>
    BY <1>2 DEF Usb!QueryInterface
  <2>2. Usb!Live' = Usb!Live
    BY <2>1 DEF Usb!Live
  <2> QED BY <2>1, <2>2 DEF HubTypeOK, DevicesReady, Shared, UrbsOnce
<1>3. CASE Usb!Routines \/ Usb!Stopped
  BY <1>3, SameHub DEF Usb!Routines, Usb!DeviceControl, Usb!InternalDeviceControl, Usb!Power,
     Usb!HubInformation, Usb!OtherRoutines, Usb!Unchanged, Usb!Stopped, Usb!vars
<1>4. CASE \E p \in Ports : Usb!Plug(p)
  <2>1. PICK p \in Ports, s \in Shapes \cup {Usb!NothingPlugged} :
          plugged' = [plugged EXCEPT ![p] = s]
    BY <1>4 DEF Usb!Plug
  <2>2. UNCHANGED <<hub, addresses, dev, urb>>
    BY <1>4 DEF Usb!Plug
  <2>3. s \in Seq(DeviceConfigurations)
    <3>1. <<>> \in Seq(DeviceConfigurations)
      OBVIOUS
    <3> QED BY <3>1, HubFacts DEF Usb!NothingPlugged
  <2>4. plugged' \in [Ports -> Seq(DeviceConfigurations)]
    BY <2>1, <2>3 DEF HubTypeOK
  <2> QED BY <2>2, <2>4 DEF HubTypeOK, DevicesReady, Shared, UrbsOnce, Usb!Live
<1> QED BY <1>1, <1>2, <1>3, <1>4

LEMMA DeviceRecord ==
  ASSUME HubIInv, NEW h \in Handles, dev[h].state # "none"
  PROVE  dev[h] \in DeviceData /\ hub = "open"
BY DEF HubIInv, HubTypeOK, DevicesReady, Usb!NoDevice

LEMMA MisuseKeeps ==
  ASSUME HubIInv, NEW why, Usb!Misuse(why)
  PROVE  HubIInv'
BY SameHub DEF Usb!Misuse

\* A device goes on with its initialisation.
LEMMA DeviceGoesOn ==
  ASSUME HubIInv, NEW h \in Handles, NEW r \in DeviceData, hub = "open",
         dev[h].state # "ready", dev' = [dev EXCEPT ![h] = r], UNCHANGED <<hub, plugged, urb>>,
         r.state # "created" => r.address \in DevIds,
         r.state \in {"configuring", "ready"} => r.configs > 0,
         r.state = "ready" => Len(r.tree) = r.configs
  PROVE  /\ dev' \in [Handles -> DeviceData \cup {Usb!NoDevice}] /\ DevicesReady' /\ UrbsOnce'
         /\ dev'[h] = r /\ \A g \in Handles \ {h} : dev'[g] = dev[g]
<1> USE DEF HubIInv
<1>1. /\ dev' \in [Handles -> DeviceData \cup {Usb!NoDevice}]
      /\ dev'[h] = r /\ \A g \in Handles \ {h} : dev'[g] = dev[g]
  BY DEF HubTypeOK
<1>2. DevicesReady'
  <2>1. \A g \in Handles : g # h => (g \in Usb!Live' <=> g \in Usb!Live)
    BY <1>1 DEF Usb!Live
  <2>2. h \in Usb!Live' => r.state # "created"
    BY <1>1 DEF Usb!Live
  <2> QED BY <1>1, <2>1, <2>2 DEF DevicesReady
<1>3. UrbsOnce'
  <2>1. \A u \in Urbs : urb[u].state = "queued" /\ urb[u].to # Usb!Root =>
          urb[u].to \in Handles \ {h}
    <3> SUFFICES ASSUME NEW u \in Urbs, urb[u].state = "queued", urb[u].to # Usb!Root
                 PROVE  urb[u].to \in Handles \ {h}
      OBVIOUS
    <3>1. urb[u] \in UrbData
      BY DEF HubTypeOK, Usb!NewUrb
    <3>2. urb[u].to \in Handles
      BY <3>1 DEF UrbData
    <3> QED BY <3>2 DEF UrbsOnce
  <2> QED BY <1>1, <2>1 DEF UrbsOnce
<1> QED BY <1>1, <1>2, <1>3

\* The same devices have the same addresses.
LEMMA SameAddresses ==
  ASSUME Shared, UNCHANGED <<hub, addresses>>,
         \A g \in Handles : /\ g \in Usb!Live' <=> g \in Usb!Live
                            /\ g \in Usb!Live => dev'[g].address = dev[g].address
  PROVE  Shared'
<1>1. \A a \in DevIds :
        {g \in Usb!Live : dev[g].address = a}' = {g \in Usb!Live : dev[g].address = a}
  <2>1. \A g \in Usb!Live : g \in Handles
    BY DEF Usb!Live
  <2>2. \A g \in Usb!Live' : g \in Handles
    BY DEF Usb!Live
  <2> QED BY <2>1, <2>2
<1> QED BY <1>1 DEF Shared

LEMMA CreateKeeps ==
  ASSUME HubIInv, NEW h \in Handles, NEW p \in Ports, Usb!CreateUsbDevice(h, p)
  PROVE  HubIInv'
<1> USE DEF HubIInv
<1> DEFINE r == [state |-> "created", port |-> p, address |-> 0, answered |-> FALSE,
                 tree |-> <<>>, configs |-> 0]
<1>1. /\ hub = "open" /\ dev[h].state = "none" /\ dev' = [dev EXCEPT ![h] = r]
      /\ UNCHANGED <<hub, addresses, plugged, urb>>
  BY DEF Usb!CreateUsbDevice, Usb!NoDevice
<1>2. r \in DeviceData /\ r.state = "created"
  <2>1. <<>> \in Seq(DeviceConfigurations)
    OBVIOUS
  <2> QED BY <2>1 DEF DeviceData, DeviceStates
<1> HIDE DEF r
<1>3. /\ dev' \in [Handles -> DeviceData \cup {Usb!NoDevice}] /\ DevicesReady' /\ UrbsOnce'
      /\ dev'[h] = r /\ \A g \in Handles \ {h} : dev'[g] = dev[g]
  BY <1>1, <1>2, DeviceGoesOn
<1>4. Shared'
  BY <1>1, <1>2, <1>3, SameAddresses DEF Usb!Live
<1> QED BY <1>1, <1>3, <1>4 DEF HubTypeOK

LEMMA InitializeKeeps ==
  ASSUME HubIInv, NEW h \in Handles, Usb!InitializeUsbDevice(h)
  PROVE  HubIInv'
<1> USE DEF HubIInv
<1>1. PICK a \in DevIds, allocated \in BOOLEAN :
        /\ addresses[a] > 0 /\ addresses' = [addresses EXCEPT ![a] = @ - 1]
        /\ dev' = [dev EXCEPT ![h].address = a,
                              ![h].state = IF allocated THEN "addressing" ELSE "failed"]
  BY DEF Usb!InitializeUsbDevice, Usb!Takes
<1>2. dev[h].state = "created" /\ UNCHANGED <<hub, plugged, urb>>
  BY DEF Usb!InitializeUsbDevice
<1>3. dev[h] \in DeviceData /\ hub = "open"
  BY <1>2, DeviceRecord
<1> DEFINE r == [dev[h] EXCEPT !.address = a,
                               !.state = IF allocated THEN "addressing" ELSE "failed"]
<1>4. r \in DeviceData /\ r.state \in {"addressing", "failed"} /\ r.address = a
  BY <1>3 DEF DeviceData, DeviceStates
<1>5. dev' = [dev EXCEPT ![h] = r]
  BY <1>1, <1>3 DEF HubTypeOK
<1> HIDE DEF r
<1>6. /\ dev' \in [Handles -> DeviceData \cup {Usb!NoDevice}] /\ DevicesReady' /\ UrbsOnce'
      /\ dev'[h] = r /\ \A g \in Handles \ {h} : dev'[g] = dev[g]
  BY <1>2, <1>3, <1>4, <1>5, DeviceGoesOn
<1>7. h \notin Usb!Live /\ Usb!Live' = Usb!Live \cup {h}
  BY <1>2, <1>4, <1>6 DEF Usb!Live
<1>8. addresses' \in [DevIds -> Int]
  BY <1>1 DEF HubTypeOK
<1>9. ASSUME NEW b \in DevIds
      PROVE  addresses'[b] + Cardinality({g \in Usb!Live : dev[g].address = b})' = 1
  <2> DEFINE S == {g \in Usb!Live : dev[g].address = b}
             S2 == {g \in Usb!Live' : dev'[g].address = b}
  <2>1. S \in SUBSET Handles /\ h \notin S
    BY <1>7 DEF Usb!Live
  <2>2. S2 = IF b = a THEN S \cup {h} ELSE S
    BY <1>4, <1>6, <1>7 DEF Usb!Live
  <2>3. addresses[b] + Cardinality(S) = 1 /\ addresses[b] \in Int
    BY <1>3 DEF Shared, HubTypeOK
  <2>4. Cardinality(S) \in Nat /\ Cardinality(S \cup {h}) = Cardinality(S) + 1
    BY <2>1, HubFacts, FS_AddElement
  <2>5. addresses'[b] = IF b = a THEN addresses[b] - 1 ELSE addresses[b]
    BY <1>1 DEF HubTypeOK
  <2>6. addresses'[b] + Cardinality(S2) = 1
    <3> HIDE DEF S, S2
    <3> QED BY <2>2, <2>3, <2>4, <2>5
  <2> QED BY <2>6
<1>10. Shared'
  BY <1>9 DEF Shared
<1> QED BY <1>2, <1>6, <1>8, <1>10 DEF HubTypeOK

\* The steps from an address to a queue: none changes the address.
LEMMA DescribedKeeps ==
  ASSUME HubIInv, NEW h \in Handles,
         Usb!SetAddress(h) \/ Usb!GetDeviceDescriptor(h) \/ Usb!GetConfiguration(h)
           \/ Usb!CreateUrbQueue(h)
  PROVE  HubIInv'
<1> USE DEF HubIInv
<1>1. dev[h].state \in {"addressing", "describing", "configuring"}
  BY DEF Usb!SetAddress, Usb!GetDeviceDescriptor, Usb!GetConfiguration, Usb!CreateUrbQueue
<1>2. dev[h] \in DeviceData /\ hub = "open" /\ h \in Usb!Live /\ dev[h].address \in DevIds
  BY <1>1, DeviceRecord DEF Usb!Live, DevicesReady
<1>3. \A s \in DeviceStates : LET r == [dev[h] EXCEPT !.state = s] IN
        /\ r \in DeviceData /\ r.state = s /\ r.address = dev[h].address
        /\ r.configs = dev[h].configs /\ r.tree = dev[h].tree
        /\ Usb!Moves(h, s) = [dev EXCEPT ![h] = r]
  BY <1>2 DEF DeviceData, Usb!Moves, HubTypeOK
<1>4. ASSUME NEW r \in DeviceData, dev' = [dev EXCEPT ![h] = r],
             UNCHANGED <<hub, addresses, plugged, urb>>,
             r.state # "created", r.address = dev[h].address,
             r.state \in {"configuring", "ready"} => r.configs > 0,
             r.state = "ready" => Len(r.tree) = r.configs
      PROVE  HubIInv'
  <2>1. /\ dev' \in [Handles -> DeviceData \cup {Usb!NoDevice}] /\ DevicesReady' /\ UrbsOnce'
        /\ dev'[h] = r /\ \A g \in Handles \ {h} : dev'[g] = dev[g]
    BY <1>1, <1>2, <1>4, DeviceGoesOn
  <2>2. r.state \notin {"none", "created"}
    BY <1>4 DEF DeviceData, DeviceStates
  <2>3. Shared'
    BY <1>2, <1>4, <2>1, <2>2, SameAddresses DEF Usb!Live
  <2> QED BY <1>4, <2>1, <2>3 DEF HubTypeOK
<1>5. ASSUME UNCHANGED <<hub, addresses, plugged, urb>>, dev' = Usb!Moves(h, "failed")
      PROVE  HubIInv'
  <2>1. "failed" \in DeviceStates
    BY DEF DeviceStates
  <2> QED BY <1>3, <1>4, <1>5, <2>1
<1>6. CASE Usb!SetAddress(h)
  <2>1. CASE dev' = Usb!Moves(h, "failed")
    BY <1>5, <1>6, <2>1 DEF Usb!SetAddress
  <2>2. CASE dev' = [Usb!Moves(h, "describing") EXCEPT
                       ![h].answered = plugged[dev[h].port] # Usb!NothingPlugged]
    <3> DEFINE q == [dev[h] EXCEPT !.state = "describing"]
               r == [q EXCEPT !.answered = plugged[dev[h].port] # Usb!NothingPlugged]
    <3>1. "describing" \in DeviceStates
      BY DEF DeviceStates
    <3>2. /\ q \in DeviceData /\ q.state = "describing" /\ q.address = dev[h].address
          /\ Usb!Moves(h, "describing") = [dev EXCEPT ![h] = q]
      BY <1>3, <3>1
    <3> HIDE DEF q
    <3>3. r \in DeviceData /\ r.state = "describing" /\ r.address = dev[h].address
      BY <3>2 DEF DeviceData
    <3>4. dev' = [dev EXCEPT ![h] = r]
      BY <2>2, <3>2 DEF HubTypeOK
    <3> HIDE DEF r
    <3>5. UNCHANGED <<hub, addresses, plugged, urb>>
      BY <1>6 DEF Usb!SetAddress
    <3> QED BY <1>4, <3>3, <3>4, <3>5
  <2> QED BY <1>6, <2>1, <2>2 DEF Usb!SetAddress
<1>7. CASE Usb!GetDeviceDescriptor(h)
  <2>1. CASE dev' = Usb!Moves(h, "failed") /\ UNCHANGED <<hub, addresses, plugged, urb>>
    BY <1>5, <2>1
  <2>2. CASE Usb!Misuse("unread descriptor")
    BY <2>2, MisuseKeeps
  <2>3. CASE /\ Usb!Answers(h)
             /\ dev' = [Usb!Moves(h, "configuring") EXCEPT ![h].configs = Len(plugged[dev[h].port])]
             /\ UNCHANGED <<hub, addresses, plugged, urb>>
    <3> DEFINE q == [dev[h] EXCEPT !.state = "configuring"]
               n == Len(plugged[dev[h].port])
               r == [q EXCEPT !.configs = n]
    <3>1. "configuring" \in DeviceStates
      BY DEF DeviceStates
    <3>2. /\ q \in DeviceData /\ q.state = "configuring" /\ q.address = dev[h].address
          /\ Usb!Moves(h, "configuring") = [dev EXCEPT ![h] = q]
      BY <1>3, <3>1
    <3>3. n \in Nat /\ n > 0
      <4>1. plugged[dev[h].port] \in Seq(DeviceConfigurations) /\ plugged[dev[h].port] # <<>>
        BY <1>2, <2>3 DEF HubTypeOK, DeviceData, Usb!Answers, Usb!NothingPlugged
      <4> QED BY <4>1, EmptySeq
    <3> HIDE DEF q, n
    <3>4. /\ r \in DeviceData /\ r.state = "configuring" /\ r.address = dev[h].address
          /\ r.configs > 0
      BY <3>2, <3>3 DEF DeviceData
    <3>5. dev' = [dev EXCEPT ![h] = r]
      BY <2>3, <3>2 DEF HubTypeOK, n
    <3> HIDE DEF r
    <3> QED BY <1>4, <2>3, <3>4, <3>5
  <2> QED BY <1>7, <2>1, <2>2, <2>3 DEF Usb!GetDeviceDescriptor
<1>8. CASE Usb!GetConfiguration(h)
  <2>1. CASE dev' = Usb!Moves(h, "failed") /\ UNCHANGED <<hub, addresses, plugged, urb>>
    BY <1>5, <2>1
  <2>2. CASE Usb!Misuse("unread descriptor")
    BY <2>2, MisuseKeeps
  <2>3. CASE /\ Usb!Built(h) < Len(plugged[dev[h].port])
             /\ dev' = [dev EXCEPT ![h].tree =
                          Append(@, plugged[dev[h].port][Usb!Built(h) + 1])]
             /\ UNCHANGED <<hub, addresses, plugged, urb>>
    <3> DEFINE s == plugged[dev[h].port]
               t == Append(dev[h].tree, s[Usb!Built(h) + 1])
               r == [dev[h] EXCEPT !.tree = t]
    <3>1. s \in Seq(DeviceConfigurations) /\ dev[h].tree \in Seq(DeviceConfigurations)
      BY <1>2 DEF HubTypeOK, DeviceData
    <3>2. Usb!Built(h) + 1 \in 1 .. Len(s)
      BY <2>3, <3>1 DEF Usb!Built
    <3>3. s[Usb!Built(h) + 1] \in DeviceConfigurations
      BY <3>1, <3>2, ElementOfSeq
    <3>4. t \in Seq(DeviceConfigurations)
      BY <3>1, <3>3, AppendProperties
    <3>5. dev[h].state = "configuring" /\ dev[h].configs > 0
      BY <1>8 DEF Usb!GetConfiguration, DevicesReady
    <3>6. dev' = [dev EXCEPT ![h] = r]
      BY <1>2, <2>3 DEF HubTypeOK
    <3> HIDE DEF t, s
    <3>7. /\ r \in DeviceData /\ r.state = "configuring" /\ r.address = dev[h].address
          /\ r.configs > 0
      BY <1>2, <3>4, <3>5 DEF DeviceData
    <3> HIDE DEF r
    <3> QED BY <1>4, <2>3, <3>6, <3>7
  <2> QED BY <1>8, <2>1, <2>2, <2>3 DEF Usb!GetConfiguration
<1>9. CASE Usb!CreateUrbQueue(h)
  <2>1. CASE dev' = Usb!Moves(h, "failed")
    BY <1>5, <1>9, <2>1 DEF Usb!CreateUrbQueue
  <2>2. CASE dev' = Usb!Moves(h, "ready")
    <3>1. /\ dev[h].state = "configuring" /\ Len(dev[h].tree) = dev[h].configs
          /\ UNCHANGED <<hub, addresses, plugged, urb>>
      BY <1>9 DEF Usb!CreateUrbQueue, Usb!Built
    <3>2. dev[h].configs > 0
      BY <3>1 DEF DevicesReady
    <3>3. "ready" \in DeviceStates
      BY DEF DeviceStates
    <3> DEFINE r == [dev[h] EXCEPT !.state = "ready"]
    <3>4. /\ r \in DeviceData /\ r.state = "ready" /\ r.address = dev[h].address
          /\ r.configs = dev[h].configs /\ r.tree = dev[h].tree
          /\ dev' = [dev EXCEPT ![h] = r]
      BY <1>3, <2>2, <3>3
    <3> HIDE DEF r
    <3> QED BY <1>4, <3>1, <3>2, <3>4
  <2> QED BY <1>9, <2>1, <2>2 DEF Usb!CreateUrbQueue
<1> QED BY <1>6, <1>7, <1>8, <1>9

LEMMA RemoveKeeps ==
  ASSUME HubIInv, NEW h \in Handles, Usb!RemoveUsbDevice(h)
  PROVE  HubIInv'
<1> USE DEF HubIInv
<1>1. CASE Usb!Misuse("half built")
  BY <1>1, MisuseKeeps
<1>2. CASE /\ addresses' = [addresses EXCEPT ![dev[h].address] = @ + 1]
           /\ dev' = [dev EXCEPT ![h] = Usb!NoDevice] /\ UNCHANGED <<hub, plugged, urb>>
  <2> DEFINE a == dev[h].address
  <2>1. dev[h].state \in {"ready", "failed"} /\ Usb!Queued(h) = {}
    BY DEF Usb!RemoveUsbDevice
  <2>2. hub = "open" /\ h \in Usb!Live /\ a \in DevIds
    BY <2>1, DeviceRecord DEF Usb!Live, DevicesReady
  <2>3. /\ dev' \in [Handles -> DeviceData \cup {Usb!NoDevice}]
        /\ dev'[h].state = "none" /\ \A g \in Handles \ {h} : dev'[g] = dev[g]
    BY <1>2 DEF HubTypeOK, Usb!NoDevice
  <2>4. Usb!Live' = Usb!Live \ {h}
    BY <2>3 DEF Usb!Live
  <2>5. DevicesReady'
    BY <1>2, <2>2, <2>3, <2>4 DEF DevicesReady
  <2>6. UrbsOnce'
    <3>1. \A u \in Urbs : urb[u].state = "queued" /\ urb[u].to # Usb!Root =>
            urb[u].to \in Handles \ {h}
      <4> SUFFICES ASSUME NEW u \in Urbs, urb[u].state = "queued", urb[u].to # Usb!Root
                   PROVE  urb[u].to \in Handles \ {h}
        OBVIOUS
      <4>1. urb[u] \in UrbData
        BY DEF HubTypeOK, Usb!NewUrb
      <4>2. urb[u].to \in Handles
        BY <4>1 DEF UrbData
      <4> QED BY <2>1, <4>2 DEF Usb!Queued
    <3> QED BY <1>2, <2>3, <3>1 DEF UrbsOnce
  <2>7. addresses' \in [DevIds -> Int]
    BY <1>2, <2>2 DEF HubTypeOK
  <2>8. ASSUME NEW b \in DevIds
        PROVE  addresses'[b] + Cardinality({g \in Usb!Live : dev[g].address = b})' = 1
    <3> DEFINE S == {g \in Usb!Live : dev[g].address = b}
               S2 == {g \in Usb!Live' : dev'[g].address = b}
    <3>1. S \in SUBSET Handles /\ (h \in S <=> b = a)
      BY <2>2 DEF Usb!Live
    <3>2. S2 = IF b = a THEN S \ {h} ELSE S
      BY <2>3, <2>4, <3>1 DEF Usb!Live
    <3>3. addresses[b] + Cardinality(S) = 1 /\ addresses[b] \in Int
      BY <2>2 DEF Shared, HubTypeOK
    <3>4. /\ Cardinality(S) \in Nat
          /\ b = a => Cardinality(S \ {h}) = Cardinality(S) - 1
      BY <3>1, HubFacts, FS_RemoveElement
    <3>5. addresses'[b] = IF b = a THEN addresses[b] + 1 ELSE addresses[b]
      BY <1>2, <2>2 DEF HubTypeOK
    <3>6. addresses'[b] + Cardinality(S2) = 1
      <4> HIDE DEF S, S2, a
      <4> QED BY <3>2, <3>3, <3>4, <3>5
    <3> QED BY <3>6
  <2>9. Shared'
    BY <2>8 DEF Shared
  <2> QED BY <1>2, <2>3, <2>5, <2>6, <2>7, <2>9 DEF HubTypeOK
<1> QED BY <1>1, <1>2 DEF Usb!RemoveUsbDevice, Usb!PutBack

NeverOk == {"VENDOR", "GET_STATUS", "OTHER"}

\* An URB goes on, and its new state is one that it may have.
LEMMA UrbGoesOn ==
  ASSUME HubIInv, NEW u \in Urbs, NEW r \in UrbData, urb' = [urb EXCEPT ![u] = r],
         UNCHANGED <<hub, addresses, dev, plugged>>,
         r.state = "queued" => /\ r.to # Usb!Root => dev[r.to].state = "ready"
                               /\ r.answers = 0,
         r.state = "waiting" => /\ r.answers = 0 /\ r.f \notin NeverOk
                                /\ r.to # Usb!Root => r.setup,
         r.state = "done" => /\ r.answers = 1
                             /\ r.f \in NeverOk => ~r.ok
  PROVE  HubIInv'
<1> USE DEF HubIInv
<1>1. /\ urb' \in [Urbs -> UrbData \cup {Usb!NewUrb}]
      /\ urb'[u] = r /\ \A v \in Urbs \ {u} : urb'[v] = urb[v]
  BY DEF HubTypeOK
<1>2. UrbsOnce'
  <2> SUFFICES ASSUME NEW v \in Urbs
               PROVE  /\ urb'[v].state = "queued" /\ urb'[v].to # Usb!Root =>
                           dev'[urb'[v].to].state = "ready"
                      /\ urb'[v].state \in {"queued", "waiting"} => urb'[v].answers = 0
                      /\ urb'[v].state = "done" => urb'[v].answers = 1
                      /\ urb'[v].state = "waiting" /\ urb'[v].to # Usb!Root => urb'[v].setup
                      /\ urb'[v].state = "waiting" => urb'[v].f \notin NeverOk
                      /\ urb'[v].state = "done" /\ urb'[v].f \in NeverOk => ~urb'[v].ok
    BY DEF UrbsOnce, NeverOk
  <2>1. CASE v = u
    BY <1>1, <2>1 DEF NeverOk
  <2>2. CASE v # u
    BY <1>1, <2>2 DEF UrbsOnce, NeverOk
  <2> QED BY <2>1, <2>2
<1>3. DevicesReady' /\ Shared'
  BY DEF DevicesReady, Shared, Usb!Live
<1> QED BY <1>1, <1>2, <1>3 DEF HubTypeOK

LEMMA UrbSubmitKeeps ==
  ASSUME HubIInv, NEW u \in Urbs, NEW to \in Handles \cup {Usb!Root}, NEW f \in Usb!Functions,
         Usb!SubmitUrb(u, to, f)
  PROVE  HubIInv'
<1> DEFINE r == [state |-> "queued", to |-> to, f |-> f, pipe |-> <<>>, setup |-> FALSE,
                 ok |-> FALSE, answers |-> 0]
<1>1. r \in UrbData /\ r.state = "queued" /\ r.to = to /\ r.answers = 0
  BY DEF UrbData
<1>2. /\ urb' = [urb EXCEPT ![u] = r] /\ UNCHANGED <<hub, addresses, dev, plugged>>
      /\ to # Usb!Root => dev[to].state = "ready"
  BY DEF Usb!SubmitUrb
<1> HIDE DEF r
<1> QED BY <1>1, <1>2, UrbGoesOn

\* An answer, to an URB that was queued or waits.
LEMMA AnsweredKeeps ==
  ASSUME HubIInv, NEW u \in Urbs, NEW ok \in BOOLEAN, urb[u].state \in {"queued", "waiting"},
         urb' = Usb!Answered(u, ok), UNCHANGED <<hub, addresses, dev, plugged>>,
         urb[u].f \in NeverOk => ~ok \/ urb[u].state = "waiting"
  PROVE  HubIInv'
<1>1. urb[u] \in UrbData
  BY DEF HubIInv, HubTypeOK, Usb!NewUrb
<1>2. urb[u].answers = 0
  BY DEF HubIInv, UrbsOnce
<1>3. urb[u].f \in NeverOk => ~ok
  BY DEF HubIInv, UrbsOnce, NeverOk
<1> DEFINE r == [urb[u] EXCEPT !.state = "done", !.ok = ok, !.answers = urb[u].answers + 1]
<1>4. urb' = [urb EXCEPT ![u] = r]
  BY <1>1 DEF Usb!Answered, HubIInv, HubTypeOK
<1>5. r \in UrbData
  <2>1. urb[u].answers + 1 \in Nat
    BY <1>2
  <2> QED BY <1>1, <2>1 DEF UrbData
<1>6. r.state = "done" /\ r.answers = urb[u].answers + 1 /\ r.ok = ok /\ r.f = urb[u].f
  BY <1>1 DEF UrbData
<1>7. r.answers = 1
  BY <1>2, <1>6
<1> HIDE DEF r
<1> QED BY <1>3, <1>4, <1>5, <1>6, <1>7, UrbGoesOn

LEMMA SentKeeps ==
  ASSUME HubIInv, NEW u \in Urbs, NEW setup \in BOOLEAN, urb[u].state = "queued",
         urb[u].to # Usb!Root, urb[u].f \notin NeverOk, setup,
         urb' = Usb!Sent(u, setup), UNCHANGED <<hub, addresses, dev, plugged>>
  PROVE  HubIInv'
<1>1. urb[u] \in UrbData
  BY DEF HubIInv, HubTypeOK, Usb!NewUrb
<1>2. urb[u].answers = 0 /\ urb[u].to \in Handles /\ dev[urb[u].to].state = "ready"
  BY <1>1 DEF HubIInv, UrbsOnce, UrbData
<1>3. dev[urb[u].to] \in DeviceData
  BY <1>2, DeviceRecord
<1> DEFINE p == <<dev[urb[u].to].address, dev[urb[u].to].port>>
           r == [urb[u] EXCEPT !.state = "waiting", !.pipe = p, !.setup = setup]
<1>4. p \in {<<>>} \cup ((DevIds \cup {0}) \X Ports)
  BY <1>3 DEF DeviceData
<1>5. urb' = [urb EXCEPT ![u] = r]
  BY <1>1 DEF Usb!Sent, Usb!PipeOf, HubIInv, HubTypeOK
<1> HIDE DEF p
<1>6. r \in UrbData
  BY <1>1, <1>4 DEF UrbData
<1>7. /\ r.state = "waiting" /\ r.answers = urb[u].answers /\ r.setup = setup
      /\ r.f = urb[u].f
  BY <1>1 DEF UrbData
<1> HIDE DEF r
<1> QED BY <1>2, <1>5, <1>6, <1>7, UrbGoesOn

LEMMA HubUrbKeeps ==
  ASSUME HubIInv, NEW u \in Urbs, Usb!HubUrb(u)
  PROVE  HubIInv'
<1>1. urb[u].state = "queued" /\ urb[u].to = Usb!Root
  BY DEF Usb!HubUrb
<1>2. CASE UNCHANGED <<hub, addresses, dev, plugged>>
           /\ (Usb!HubSelect(u) \/ Usb!HubControl(u) \/ Usb!HubPipe(u) \/ Usb!HubRefuses(u))
  <2>1. \E ok \in BOOLEAN : urb' = Usb!Answered(u, ok) /\ (urb[u].f \in NeverOk => ~ok)
    BY <1>2 DEF Usb!HubSelect, Usb!HubControl, Usb!HubPipe, Usb!HubRefuses, Usb!Decode, NeverOk
  <2> QED BY <1>1, <1>2, <2>1, AnsweredKeeps
<1>3. CASE UNCHANGED <<hub, addresses, dev, plugged>>
           /\ urb[u].f = "BULK" /\ urb' = [urb EXCEPT ![u].state = "waiting"]
  <2>1. urb[u] \in UrbData
    BY <1>1 DEF HubIInv, HubTypeOK, Usb!NewUrb
  <2>2. urb[u].answers = 0
    BY <1>1 DEF HubIInv, UrbsOnce
  <2> DEFINE r == [urb[u] EXCEPT !.state = "waiting"]
  <2>3. urb' = [urb EXCEPT ![u] = r]
    BY <1>3, <2>1 DEF HubIInv, HubTypeOK
  <2>4. r \in UrbData /\ r.state = "waiting" /\ r.answers = 0 /\ r.f = "BULK" /\ r.to = Usb!Root
    BY <1>1, <1>3, <2>1, <2>2 DEF UrbData
  <2> HIDE DEF r
  <2>5. r.f \notin NeverOk
    BY <2>4 DEF NeverOk
  <2> QED BY <1>3, <2>3, <2>4, <2>5, UrbGoesOn
<1>4. CASE Usb!Misuse("no configuration")
  BY <1>4, MisuseKeeps
<1> QED BY <1>2, <1>3, <1>4 DEF Usb!HubUrb

LEMMA DeviceUrbKeeps ==
  ASSUME HubIInv, NEW u \in Urbs, Usb!DeviceUrb(u)
  PROVE  HubIInv'
<1>1. urb[u].state = "queued" /\ urb[u].to # Usb!Root
  BY DEF Usb!DeviceUrb
<1>2. CASE Usb!Decode(urb[u].f) = "UNKNOWN" /\ urb' = Usb!Answered(u, FALSE)
           /\ UNCHANGED <<hub, addresses, dev, plugged>>
  BY <1>1, <1>2, AnsweredKeeps
<1>3. CASE Usb!Decode(urb[u].f) # "UNKNOWN"
           /\ (Usb!Select(u) \/ Usb!Control(u) \/ Usb!Bulk(u) \/ Usb!Refuse(u))
  <2>1. CASE \E why : Usb!Misuse(why)
    BY <2>1, MisuseKeeps
  <2>2. urb[u].f # "GET_STATUS"
    BY <1>3 DEF Usb!Decode
  <2>3. CASE Usb!Select(u) /\ ~\E why : Usb!Misuse(why)
    <3>1. /\ urb' = Usb!Sent(u, TRUE) /\ UNCHANGED <<hub, addresses, dev, plugged>>
          /\ urb[u].f = "SELECT_CONFIGURATION"
      BY <2>3 DEF Usb!Select
    <3> QED BY <1>1, <3>1, SentKeeps DEF NeverOk
  <2>4. CASE Usb!Control(u)
    <3>1. /\ urb' = Usb!Sent(u, TRUE) /\ UNCHANGED <<hub, addresses, dev, plugged>>
          /\ urb[u].f \in {"SELECT_INTERFACE", "RESET_PIPE", "CONTROL"}
      BY <2>2, <2>4 DEF Usb!Control
    <3> QED BY <1>1, <3>1, SentKeeps DEF NeverOk
  <2>5. CASE Usb!Bulk(u) /\ ~\E why : Usb!Misuse(why)
    <3>1. /\ urb' = Usb!Sent(u, TRUE) \/ urb' = Usb!Answered(u, FALSE)
          /\ UNCHANGED <<hub, addresses, dev, plugged>> /\ urb[u].f = "BULK"
      BY <2>5 DEF Usb!Bulk
    <3>2. urb[u].f \notin NeverOk
      BY <3>1 DEF NeverOk
    <3> QED BY <1>1, <3>1, <3>2, SentKeeps, AnsweredKeeps
  <2>6. CASE Usb!Refuse(u)
    <3>1. /\ urb' = Usb!Answered(u, urb[u].f = "ABORT_PIPE")
          /\ UNCHANGED <<hub, addresses, dev, plugged>>
      BY <2>6 DEF Usb!Refuse
    <3>2. urb[u].f \in NeverOk => ~(urb[u].f = "ABORT_PIPE")
      BY DEF NeverOk
    <3> QED BY <1>1, <3>1, <3>2, AnsweredKeeps
  <2> QED BY <1>3, <2>1, <2>3, <2>4, <2>5, <2>6
<1> QED BY <1>2, <1>3 DEF Usb!DeviceUrb

LEMMA AnswerKeeps ==
  ASSUME HubIInv, NEW u \in Urbs, Usb!Answer(u)
  PROVE  HubIInv'
<1>1. PICK ok \in BOOLEAN : urb' = Usb!Answered(u, ok)
  BY DEF Usb!Answer
<1>2. urb[u].state = "waiting" /\ UNCHANGED <<hub, addresses, dev, plugged>>
  BY DEF Usb!Answer
<1> QED BY <1>1, <1>2, AnsweredKeeps

LEMMA HubInvariance == Usb!Spec => []HubIInv
<1>1. Usb!Init => HubIInv
  BY HubInit
<1>2. HubIInv /\ [Usb!Next]_(Usb!vars) => HubIInv'
  <2> SUFFICES ASSUME HubIInv, [Usb!Next]_(Usb!vars) PROVE HubIInv'
    OBVIOUS
  <2>1. CASE \/ Usb!CreateHub \/ Usb!QueryInterface \/ Usb!Routines \/ Usb!Stopped
             \/ \E p \in Ports : Usb!Plug(p)
    BY <2>1, HubItselfKeeps
  <2>2. CASE \E p \in Ports, h \in Handles : Usb!CreateUsbDevice(h, p)
    BY <2>2, CreateKeeps
  <2>3. CASE \E h \in Handles : Usb!InitializeUsbDevice(h)
    BY <2>3, InitializeKeeps
  <2>4. CASE \E h \in Handles : Usb!SetAddress(h) \/ Usb!GetDeviceDescriptor(h)
                                \/ Usb!GetConfiguration(h) \/ Usb!CreateUrbQueue(h)
    BY <2>4, DescribedKeeps
  <2>5. CASE \E h \in Handles : Usb!RemoveUsbDevice(h)
    BY <2>5, RemoveKeeps
  <2>6. CASE \E u \in Urbs, to \in Handles \cup {Usb!Root}, f \in Usb!Functions :
               Usb!SubmitUrb(u, to, f)
    BY <2>6, UrbSubmitKeeps
  <2>7. CASE \E u \in Urbs : Usb!HubUrb(u)
    BY <2>7, HubUrbKeeps
  <2>8. CASE \E u \in Urbs : Usb!DeviceUrb(u)
    BY <2>8, DeviceUrbKeeps
  <2>9. CASE \E u \in Urbs : Usb!Answer(u)
    BY <2>9, AnswerKeeps
  <2>10. CASE UNCHANGED Usb!vars
    BY <2>10, SameHub DEF Usb!vars
  <2> QED BY <2>1, <2>2, <2>3, <2>4, <2>5, <2>6, <2>7, <2>8, <2>9, <2>10 DEF Usb!Next
<1> QED BY <1>1, <1>2, PTL DEF Usb!Spec

\* No two USB devices share an address and none is lost, every URB is answered once, and no
\* descriptor goes beyond its buffer, for every device that can be plugged in (UsbHub).
THEOREM HubKept == Usb!Spec => []HubSound
<1>1. Usb!Spec => []HubIInv
  BY HubInvariance
<1>2. HubIInv => HubSound
  BY HubConsequence
<1> QED BY <1>1, <1>2, PTL

-----------------------------------------------------------------------------
(***************************************************************************)
(* NdisMiniport: what Initialize makes of the registry and the backend     *)
(* fits, and no OID request takes more than that; a query's answer depends *)
(* on the room only by whether there is enough of it.                      *)
(***************************************************************************)
Statuses == {"none", "SUCCESS", "NOT_SUPPORTED", "TOO_SHORT", "INVALID_DATA", "MULTICAST_FULL"}
AdapterData ==
  [state : {"ACTIVE", "INACTIVE", "DISCONNECTED"}, feGso : Nat, feCsum : BOOLEAN, beSg : BOOLEAN,
   beGso : Nat, sg : BOOLEAN, csum : BOOLEAN, gso : Nat, advertised : Nat,
   tasks : {{}} \cup CsumTasks, filter : SUBSET Ndis!SupportedFilters, lookahead : Nat,
   multicast : Nat]

\* No large send of adapter a is more than a page holds, unless it has scatter/gather; before
\* NDIS 6 that goes for what the backend takes and for what NDIS has chosen, until a resume.
OnePage(n) == n + Ndis!MaxHeader <= Ndis!PageSize
Fitting(a) ==
  /\ a.state = "DISCONNECTED" => resumed
  /\ \/ a.sg
     \/ /\ OnePage(a.advertised)
        /\ Ndis!Vista \/ resumed \/ (OnePage(a.beGso) /\ OnePage(a.gso))

NdisIInv ==
  /\ os \in {"NDIS5", "NDIS60", "NDIS61"} /\ backend \in Backends /\ resumed \in BOOLEAN
  /\ xi \in AdapterData \cup {Ndis!NoAdapter}
  /\ xi # Ndis!NoAdapter => Fitting(xi)
  /\ reply.status \in Statuses

LEMMA NdisConstants ==
  /\ \A c \in Configs : c.sg \in BOOLEAN /\ c.csum \in BOOLEAN /\ c.gso \in Nat
  /\ \A b \in Backends : b.sg \in BOOLEAN /\ b.gso \in BOOLEAN /\ b.macParses \in BOOLEAN
  /\ \A t \in LargeSends : t.max \in Nat
  /\ Lengths \subseteq Nat /\ Lists \subseteq Nat
BY MCRequestsAssumption DEF Ndis!NdisMiniportAssumption

LEMMA AdapterRecord ==
  ASSUME NdisIInv, xi # Ndis!NoAdapter
  PROVE  xi \in AdapterData /\ Fitting(xi)
BY DEF NdisIInv

LEMMA NdisConsequence ==
  ASSUME NdisIInv
  PROVE  AdapterSound
<1>1. Ndis!TypeOK
  <2>1. xi \in AdapterData => /\ xi.state \in {"ACTIVE", "INACTIVE", "DISCONNECTED"}
                              /\ xi.gso \in Nat /\ xi.beGso \in Nat
                              /\ xi.filter \subseteq Ndis!SupportedFilters
    BY DEF AdapterData
  <2>2. xi = Ndis!NoAdapter => xi.state = "none"
    BY DEF Ndis!NoAdapter
  <2> QED BY <2>1, <2>2 DEF NdisIInv, Ndis!TypeOK, Statuses
<1>2. ASSUME xi # Ndis!NoAdapter, Ndis!Vista \/ ~resumed
      PROVE  /\ xi.sg \/ Ndis!LargestSend + Ndis!MaxHeader <= Ndis!PageSize
             /\ Ndis!SetTaskOffload(TRUE, {Ndis!OfferedTasks}, {Ndis!OfferedLargeSend}).answer.status
                  = "SUCCESS"
  <2>1. Fitting(xi)
    BY <1>2, AdapterRecord
  <2>2. xi.sg \/ Ndis!LargestSend + Ndis!MaxHeader <= Ndis!PageSize
    BY <1>2, <2>1 DEF Fitting, OnePage, Ndis!LargestSend
  <2>3. Ndis!AcceptsCsum(Ndis!OfferedTasks)
    BY DEF Ndis!AcceptsCsum, Ndis!OfferedTasks
  <2>4. Ndis!AcceptsLargeSend(Ndis!OfferedLargeSend)
    BY DEF Ndis!AcceptsLargeSend, Ndis!OfferedLargeSend
  <2>5. Ndis!SetTaskOffload(TRUE, {Ndis!OfferedTasks}, {Ndis!OfferedLargeSend}).answer.status
          = "SUCCESS"
    BY <2>3, <2>4 DEF Ndis!SetTaskOffload, Ndis!Succeeds, Ndis!Leaves, Ndis!Fails
  <2> QED BY <2>2, <2>5
<1> QED BY <1>1, <1>2 DEF AdapterSound, Ndis!AdapterSound, Ndis!SendsFit

LEMMA NdisInit ==
  ASSUME Ndis!Init
  PROVE  NdisIInv
BY DEF Ndis!Init, NdisIInv, Ndis!NoReply, Statuses

-----------------------------------------------------------------------------
(* What NDIS asks *)

LEMMA FourFinite ==
  ASSUME NEW a, NEW b, NEW c, NEW d
  PROVE  IsFiniteSet({a, b, c, d})
<1>1. IsFiniteSet({a}) /\ IsFiniteSet({b}) /\ IsFiniteSet({c}) /\ IsFiniteSet({d})
  BY FS_Singleton
<1>2. IsFiniteSet(({a} \cup {b}) \cup ({c} \cup {d}))
  BY <1>1, FS_Union
<1>3. {a, b, c, d} = ({a} \cup {b}) \cup ({c} \cup {d})
  OBVIOUS
<1> QED BY <1>2, <1>3

LEMMA OidsFinite == Ndis!Cardinality(Ndis!Oids) \in Nat
<1>1. \A S : Ndis!Cardinality(S) = Cardinality(S)
  BY DEF Ndis!Cardinality, Cardinality, Ndis!IsFiniteSet, IsFiniteSet
<1>2. \A S, T : IsFiniteSet(S) /\ IsFiniteSet(T) => IsFiniteSet(S \cup T)
  BY FS_Union
<1> DEFINE A1 == {"HARDWARE_STATUS", "TRANSMIT_BUFFER_SPACE", "RECEIVE_BUFFER_SPACE",
                  "TRANSMIT_BLOCK_SIZE"}
           A2 == {"RECEIVE_BLOCK_SIZE", "VENDOR_ID", "VENDOR_DRIVER_VERSION", "MAXIMUM_TOTAL_SIZE"}
           A3 == {"MAXIMUM_SEND_PACKETS", "MEDIA_SUPPORTED", "MEDIA_IN_USE", "MAXIMUM_LOOKAHEAD"}
           A4 == {"MAXIMUM_LIST_SIZE", "CURRENT_PACKET_FILTER", "CURRENT_LOOKAHEAD", "TASK_OFFLOAD"}
           A5 == {"MAXIMUM_FRAME_SIZE", "LINK_SPEED", "MAC_OPTIONS", "MEDIA_CONNECT_STATUS"}
           A6 == {"XMIT_OK", "RCV_OK", "XMIT_ERROR", "RCV_ERROR"}
           A7 == {"RCV_NO_BUFFER", "RCV_ERROR_ALIGNMENT", "XMIT_ONE_COLLISION",
                  "XMIT_MORE_COLLISIONS"}
           A8 == {"PERMANENT_ADDRESS", "CURRENT_ADDRESS", "VENDOR_DESCRIPTION", "MULTICAST_LIST"}
           A9 == {"SUPPORTED_LIST", "DRIVER_VERSION", "PNP_CAPABILITIES", "PNP_QUERY_POWER"}
           A10 == {"NETWORK_LAYER_ADDRESSES", "MACHINE_NAME", "SET_POWER", "PROTOCOL_OPTIONS"}
           A11 == {"INTERRUPT_MODERATION", "STATISTICS", "LINK_PARAMETERS", "OFFLOAD_ENCAPSULATION"}
           A12 == {"IP4_OFFLOAD_STATS", "IP6_OFFLOAD_STATS", "IP4_OFFLOAD_STATS", "IP6_OFFLOAD_STATS"}
           B1 == A1 \cup A2 \cup A3
           B2 == A4 \cup A5 \cup A6
           B3 == A7 \cup A8 \cup A9
           B4 == A10 \cup A11 \cup A12
<1>3. /\ IsFiniteSet(A1) /\ IsFiniteSet(A2) /\ IsFiniteSet(A3) /\ IsFiniteSet(A4)
      /\ IsFiniteSet(A5) /\ IsFiniteSet(A6) /\ IsFiniteSet(A7) /\ IsFiniteSet(A8)
      /\ IsFiniteSet(A9) /\ IsFiniteSet(A10) /\ IsFiniteSet(A11) /\ IsFiniteSet(A12)
  BY FourFinite
<1>4. /\ Ndis!ULongQueries \subseteq B1 \cup B2 /\ Ndis!ULongQuerySets \subseteq B2
      /\ Ndis!Stats \subseteq B2 \cup B3 /\ Ndis!Addresses \subseteq B3
      /\ {"VENDOR_DESCRIPTION", "MULTICAST_LIST"} \subseteq B3
      /\ Ndis!Queries6 \subseteq B4 /\ Ndis!Queries5 \cup {"TASK_OFFLOAD"} \subseteq B2 \cup B3
      /\ Ndis!Silent \subseteq B4 /\ Ndis!Sets6 \subseteq B4
      /\ {"NETWORK_LAYER_ADDRESSES", "MACHINE_NAME", "SET_POWER", "MULTICAST_LIST"} \subseteq B3 \cup B4
      /\ {"TASK_OFFLOAD", "PROTOCOL_OPTIONS"} \subseteq B2 \cup B4
  BY DEF Ndis!ULongQueries, Ndis!ULongQuerySets, Ndis!Stats, Ndis!Addresses, Ndis!Queries6,
         Ndis!Queries5, Ndis!Silent, Ndis!Sets6
<1> HIDE DEF A1, A2, A3, A4, A5, A6, A7, A8, A9, A10, A11, A12
<1>5. IsFiniteSet(B1) /\ IsFiniteSet(B2) /\ IsFiniteSet(B3) /\ IsFiniteSet(B4)
  BY <1>2, <1>3
<1> HIDE DEF B1, B2, B3, B4
<1>6. IsFiniteSet((B1 \cup B2) \cup (B3 \cup B4))
  BY <1>2, <1>5
<1>7. Ndis!Oids \subseteq (B1 \cup B2) \cup (B3 \cup B4)
  <2>1. Ndis!Queried \subseteq (B1 \cup B2) \cup (B3 \cup B4)
    BY <1>4 DEF Ndis!Queried
  <2>2. Ndis!Settable \subseteq (B1 \cup B2) \cup (B3 \cup B4)
    BY <1>4 DEF Ndis!Settable
  <2> QED BY <1>4, <2>1, <2>2 DEF Ndis!Oids
<1> QED BY <1>1, <1>6, <1>7, FS_Subset, FS_CardinalityType

\* The room the answer to a query needs, the counters excepted.
Need(oid) ==
  CASE oid = "MULTICAST_LIST" -> xi.multicast * Ndis!AddressLength
    [] oid = "SUPPORTED_LIST" -> Ndis!ULong * Ndis!Cardinality(Ndis!Oids)
    [] oid = "TASK_OFFLOAD" -> Ndis!SizeOf.TASK_HEADER + Ndis!SizeOf.CSUM_TASK
                               + (IF xi.beGso > 0 THEN Ndis!SizeOf.LSO_TASK ELSE 0)
    [] OTHER -> Ndis!MinLength(oid)

LEMMA MinLengthType ==
  ASSUME NEW oid
  PROVE  /\ Ndis!MinLength(oid) \in Nat
         /\ oid \in Ndis!Stats => Ndis!MinLength(oid) = 0
<1>1. oid \in Ndis!Stats => Ndis!MinLength(oid) = 0
  BY DEF Ndis!MinLength, Ndis!Stats, Ndis!ULongQueries, Ndis!ULongQuerySets, Ndis!Addresses
<1>2. Ndis!MinLength(oid) \in Nat
  BY DEF Ndis!MinLength, Ndis!ULong, Ndis!AddressLength, Ndis!SizeOf
<1> QED BY <1>1, <1>2

LEMMA NeedType ==
  ASSUME xi \in AdapterData, NEW oid
  PROVE  Need(oid) \in Nat
<1>1. xi.multicast \in Nat /\ xi.beGso \in Nat
  BY DEF AdapterData
<1>2. \A m \in Nat : m * Ndis!AddressLength \in Nat /\ Ndis!ULong * m \in Nat
  BY DEF Ndis!AddressLength, Ndis!ULong
<1>3. Ndis!SizeOf.TASK_HEADER + Ndis!SizeOf.CSUM_TASK
        + (IF xi.beGso > 0 THEN Ndis!SizeOf.LSO_TASK ELSE 0) \in Nat
  BY DEF Ndis!SizeOf
<1> QED BY <1>1, <1>2, <1>3, OidsFinite, MinLengthType DEF Need

\* A query fits in its buffer, and asks for room that will do.
LEMMA QueryFits ==
  ASSUME xi \in AdapterData, NEW oid, NEW length \in Nat
  PROVE  LET a == Ndis!Query(oid, length) IN
         /\ a.written <= length
         /\ a.status \in {"SUCCESS", "NOT_SUPPORTED", "TOO_SHORT"}
         /\ a.status = "TOO_SHORT" => /\ a.needed > length /\ a.needed \in Nat
                                      /\ Ndis!Query(oid, a.needed).status # "TOO_SHORT"
<1> DEFINE min == Ndis!MinLength(oid)
           need == Need(oid)
           known == oid \in Ndis!Oids
           served == oid \in Ndis!Queried
<1>1. min \in Nat /\ need \in Nat
  BY MinLengthType, NeedType
<1>2. ASSUME NEW n \in Nat
      PROVE  LET a == Ndis!Query(oid, n) IN
             /\ ~known \/ (n >= min /\ ~served) =>
                  a.status = "NOT_SUPPORTED" /\ a.written = 0
             /\ known /\ n < min => a.status = "TOO_SHORT" /\ a.needed = min /\ a.written = 0
             /\ known /\ n >= min /\ served => a = Ndis!QueryRoutine(oid, n)
  BY <1>1 DEF Ndis!Query, Ndis!Dispatch, Ndis!Fails, Ndis!TooShort
<1>3. CASE oid \in Ndis!Stats
  <2>1. min = 0
    BY <1>3, MinLengthType
  <2>2. \A n \in Nat : Ndis!QueryRoutine(oid, n) = Ndis!Stat(n)
    BY <1>3 DEF Ndis!QueryRoutine, Ndis!Stats
  <2>3. \A n \in Nat :
          /\ Ndis!Stat(n).written <= n
          /\ Ndis!Stat(n).status \in {"SUCCESS", "TOO_SHORT"}
          /\ Ndis!Stat(n).status = "TOO_SHORT" => n < 8 /\ Ndis!Stat(n).needed = 8
          /\ n >= 8 => Ndis!Stat(n).status = "SUCCESS"
    BY DEF Ndis!Stat, Ndis!Writes, Ndis!TooShort, Ndis!ULong, Ndis!ULong64
  <2> HIDE DEF min, known, served
  <2>4. 8 \in Nat
    OBVIOUS
  <2> QED BY <1>1, <1>2, <2>1, <2>2, <2>3, <2>4
<1>4. CASE oid \notin Ndis!Stats
  <2>1. \A n \in Nat :
          /\ Ndis!QueryRoutine(oid, n).written <= n
          /\ Ndis!QueryRoutine(oid, n).status = (IF n < need THEN "TOO_SHORT" ELSE "SUCCESS")
          /\ n < need => Ndis!QueryRoutine(oid, n).needed = need
    <3>1. \A n, m \in Nat :
            /\ Ndis!Exactly(n, m).written <= n
            /\ Ndis!Exactly(n, m).status = (IF n < m THEN "TOO_SHORT" ELSE "SUCCESS")
            /\ n < m => Ndis!Exactly(n, m).needed = m
            /\ [Ndis!Exactly(n, m) EXCEPT !.written = 0].written <= n
            /\ [Ndis!Exactly(n, m) EXCEPT !.written = 0].status = Ndis!Exactly(n, m).status
            /\ [Ndis!Exactly(n, m) EXCEPT !.written = 0].needed = Ndis!Exactly(n, m).needed
      BY DEF Ndis!Exactly, Ndis!TooShort, Ndis!Writes
    <3>2. \A n \in Nat :
            \/ Ndis!QueryRoutine(oid, n) = Ndis!Exactly(n, need)
            \/ Ndis!QueryRoutine(oid, n) = [Ndis!Exactly(n, need) EXCEPT !.written = 0]
      BY <1>4 DEF Ndis!QueryRoutine, Need, Ndis!TaskOffload
    <3> HIDE DEF need
    <3> SUFFICES ASSUME NEW n \in Nat
                 PROVE  /\ Ndis!QueryRoutine(oid, n).written <= n
                        /\ Ndis!QueryRoutine(oid, n).status
                             = (IF n < need THEN "TOO_SHORT" ELSE "SUCCESS")
                        /\ n < need => Ndis!QueryRoutine(oid, n).needed = need
      OBVIOUS
    <3>3. CASE Ndis!QueryRoutine(oid, n) = Ndis!Exactly(n, need)
      BY <1>1, <3>1, <3>3
    <3>4. CASE Ndis!QueryRoutine(oid, n) = [Ndis!Exactly(n, need) EXCEPT !.written = 0]
      BY <1>1, <3>1, <3>4
    <3> QED BY <3>2, <3>3, <3>4
  <2>2. need = min \/ min = 0
    BY DEF Need, Ndis!MinLength, Ndis!ULongQueries, Ndis!ULongQuerySets, Ndis!Addresses
  <2> HIDE DEF min, need, known, served
  <2> QED BY <1>1, <1>2, <2>1, <2>2
<1> QED BY <1>3, <1>4

-----------------------------------------------------------------------------
(* What NDIS sets *)

\* What a set request may leave: an adapter that fits, the same one if the request is refused.
LEMMA SetFits ==
  ASSUME NdisIInv, xi # Ndis!NoAdapter, NEW oid, NEW length \in Nat,
         NEW r \in Ndis!SetResults(oid, length)
  PROVE  /\ r.adapter \in AdapterData /\ Fitting(r.adapter)
         /\ r.answer.status \in Statuses \ {"none", "TOO_SHORT"}
         /\ r.answer.status # "SUCCESS" => r.adapter = xi
<1>1. xi \in AdapterData /\ Fitting(xi)
  BY AdapterRecord
<1>2. \A s \in Statuses \ {"none", "TOO_SHORT"} :
        r = Ndis!Refuses(s) => /\ r.adapter = xi /\ r.answer.status = s
  BY DEF Ndis!Refuses, Ndis!Leaves, Ndis!Fails
<1>3. \A a : r = Ndis!Succeeds(a) => r.adapter = a /\ r.answer.status = "SUCCESS"
  BY DEF Ndis!Succeeds, Ndis!Leaves, Ndis!Fails
<1>4. /\ "SUCCESS" \in Statuses \ {"none", "TOO_SHORT"}
      /\ "NOT_SUPPORTED" \in Statuses \ {"none", "TOO_SHORT"}
      /\ "INVALID_DATA" \in Statuses \ {"none", "TOO_SHORT"}
      /\ "MULTICAST_FULL" \in Statuses \ {"none", "TOO_SHORT"}
  BY DEF Statuses
<1>5. CASE \E s \in {"NOT_SUPPORTED", "INVALID_DATA", "MULTICAST_FULL"} : r = Ndis!Refuses(s)
  BY <1>1, <1>2, <1>4, <1>5
<1>6. ASSUME NEW a \in AdapterData, Fitting(a), r = Ndis!Succeeds(a)
      PROVE  /\ r.adapter \in AdapterData /\ Fitting(r.adapter)
             /\ r.answer.status \in Statuses \ {"none", "TOO_SHORT"}
             /\ r.answer.status # "SUCCESS" => r.adapter = xi
  BY <1>3, <1>4, <1>6
<1>7. CASE oid = "MULTICAST_LIST"
  <2> DEFINE a == [xi EXCEPT !.multicast = length \div Ndis!AddressLength]
  <2>1. r = Ndis!Refuses("MULTICAST_FULL") \/ r = Ndis!Succeeds(a)
    BY <1>7 DEF Ndis!SetResults, Ndis!SetMulticastList
  <2>2. length \div Ndis!AddressLength \in Nat
    BY DEF Ndis!AddressLength
  <2>3. a \in AdapterData /\ Fitting(a)
    BY <1>1, <2>2 DEF AdapterData, Fitting
  <2> HIDE DEF a
  <2> QED BY <1>5, <1>6, <2>1, <2>3
<1>8. CASE oid = "CURRENT_PACKET_FILTER"
  <2>1. PICK f \in Filters : r = Ndis!SetPacketFilter(f)
    BY <1>8 DEF Ndis!SetResults
  <2> DEFINE a == [xi EXCEPT !.filter = f]
  <2>2. \/ r = Ndis!Refuses("NOT_SUPPORTED")
        \/ f \subseteq Ndis!SupportedFilters /\ r = Ndis!Succeeds(a)
    BY <2>1 DEF Ndis!SetPacketFilter
  <2>3. f \subseteq Ndis!SupportedFilters => a \in AdapterData /\ Fitting(a)
    BY <1>1 DEF AdapterData, Fitting
  <2> HIDE DEF a
  <2> QED BY <1>5, <1>6, <2>2, <2>3
<1>9. CASE oid = "CURRENT_LOOKAHEAD"
  <2> DEFINE a == [xi EXCEPT !.lookahead = 120]
  <2>1. r = Ndis!Succeeds(a)
    BY <1>9 DEF Ndis!SetResults, Ndis!SetLookahead
  <2>2. a \in AdapterData /\ Fitting(a)
    BY <1>1 DEF AdapterData, Fitting
  <2> HIDE DEF a
  <2> QED BY <1>6, <2>1, <2>2
<1>10. CASE oid = "TASK_OFFLOAD"
  <2>1. PICK v \in BOOLEAN, c \in {{}} \cup {{t} : t \in CsumTasks},
             l \in {{}} \cup {{t} : t \in {u \in LargeSends : u.max <= xi.beGso}} :
          r = Ndis!SetTaskOffload(v, c, l)
    BY <1>10 DEF Ndis!SetResults
  <2> DEFINE max == IF l = {} THEN 0 ELSE (CHOOSE t \in l : TRUE).max
             a == [xi EXCEPT !.csum = @ \/ c # {}, !.tasks = UNION c, !.gso = max]
  <2>2. r = Ndis!Refuses("INVALID_DATA") \/ r = Ndis!Succeeds(a)
    BY <2>1 DEF Ndis!SetTaskOffload
  <2>3. max \in Nat /\ max <= xi.beGso
    <3>1. xi.beGso \in Nat
      BY <1>1 DEF AdapterData
    <3>2. CASE l = {}
      BY <3>1, <3>2
    <3>3. CASE l # {}
      <4>1. PICK t \in LargeSends : l = {t} /\ t.max <= xi.beGso
        BY <3>3
      <4>2. (CHOOSE u \in l : TRUE) = t
        BY <4>1
      <4> QED BY <3>3, <4>1, <4>2, NdisConstants
    <3> QED BY <3>2, <3>3
  <2>4. UNION c \in {{}} \cup CsumTasks
    <3>1. CASE c = {}
      BY <3>1
    <3>2. CASE c # {}
      <4>1. PICK t \in CsumTasks : c = {t}
        BY <3>2
      <4>2. UNION c = t
        BY <4>1
      <4> QED BY <4>2
    <3> QED BY <3>1, <3>2
  <2> HIDE DEF max
  <2>5. (xi.csum \/ c # {}) \in BOOLEAN
    OBVIOUS
  <2>6. a \in AdapterData /\ a.sg = xi.sg /\ a.advertised = xi.advertised /\ a.beGso = xi.beGso
        /\ a.gso = max /\ a.state = xi.state
    BY <1>1, <2>3, <2>4, <2>5 DEF AdapterData
  <2> HIDE DEF a
  <2>7. OnePage(a.beGso) => OnePage(a.gso)
    <3>1. a.beGso \in Nat
      BY <2>6 DEF AdapterData
    <3> QED BY <2>3, <2>6, <3>1 DEF OnePage, Ndis!MaxHeader, Ndis!PageSize
  <2>8. Fitting(a)
    BY <1>1, <2>6, <2>7 DEF Fitting
  <2> QED BY <1>5, <1>6, <2>2, <2>6, <2>8
<1>11. CASE oid = "OFFLOAD_ENCAPSULATION"
  <2>1. PICK e \in BOOLEAN, on \in {"ON", "OFF", "NO_CHANGE"} :
          r = Ndis!SetOffloadEncapsulation(e, on)
    BY <1>11 DEF Ndis!SetResults
  <2> DEFINE a == [xi EXCEPT !.csum = xi.feCsum, !.gso = IF xi.feCsum THEN 1 ELSE 0]
             b == [xi EXCEPT !.csum = FALSE, !.gso = 0]
  <2>2. \/ r = Ndis!Refuses("NOT_SUPPORTED") \/ r = Ndis!Succeeds(a) \/ r = Ndis!Succeeds(b)
        \/ r = Ndis!Succeeds(xi)
    BY <2>1 DEF Ndis!SetOffloadEncapsulation
  <2>3. OnePage(0) /\ OnePage(1)
    BY DEF OnePage, Ndis!MaxHeader, Ndis!PageSize
  <2>4. a \in AdapterData /\ Fitting(a)
    <3>1. xi.feCsum \in BOOLEAN
      BY <1>1 DEF AdapterData
    <3>2. (IF xi.feCsum THEN 1 ELSE 0) \in {0, 1}
      BY <3>1
    <3>3. /\ a \in AdapterData /\ a.sg = xi.sg /\ a.advertised = xi.advertised
          /\ a.beGso = xi.beGso /\ a.gso \in {0, 1} /\ a.state = xi.state
      BY <1>1, <3>1, <3>2 DEF AdapterData
    <3> HIDE DEF a
    <3> QED BY <1>1, <2>3, <3>3 DEF Fitting
  <2>5. b \in AdapterData /\ Fitting(b)
    <3>1. /\ b \in AdapterData /\ b.sg = xi.sg /\ b.advertised = xi.advertised
          /\ b.beGso = xi.beGso /\ b.gso = 0 /\ b.state = xi.state
      BY <1>1 DEF AdapterData
    <3> HIDE DEF b
    <3> QED BY <1>1, <2>3, <3>1 DEF Fitting
  <2> HIDE DEF a, b
  <2> QED BY <1>1, <1>5, <1>6, <2>2, <2>4, <2>5
<1>12. CASE oid \notin {"MULTICAST_LIST", "CURRENT_PACKET_FILTER", "CURRENT_LOOKAHEAD",
                        "TASK_OFFLOAD", "OFFLOAD_ENCAPSULATION"}
  <2>1. \/ r = Ndis!Refuses("NOT_SUPPORTED") \/ r = Ndis!Refuses("INVALID_DATA")
        \/ r = Ndis!Succeeds(xi)
    BY <1>12 DEF Ndis!SetResults, Ndis!SetNetworkLayerAddresses
  <2> QED BY <1>1, <1>5, <1>6, <2>1
<1> QED BY <1>7, <1>8, <1>9, <1>10, <1>11, <1>12

LEMMA SetAnswerFits ==
  ASSUME NdisIInv, xi # Ndis!NoAdapter, NEW oid, NEW length \in Nat,
         NEW r \in Ndis!SetAnswers(oid, length)
  PROVE  /\ r.adapter \in AdapterData /\ Fitting(r.adapter)
         /\ r.answer.status \in Statuses \ {"none"}
         /\ r.answer.status # "SUCCESS" => r.adapter = xi
         /\ r.answer.status = "TOO_SHORT" => r.answer.needed > length
<1> DEFINE early == Ndis!Dispatch(oid, length, Ndis!Settable, Ndis!Fails("SUCCESS"))
<1>1. xi \in AdapterData /\ Fitting(xi)
  BY AdapterRecord
<1>2. Ndis!MinLength(oid) \in Nat
  BY MinLengthType
<1>3. /\ early.status \in {"SUCCESS", "NOT_SUPPORTED", "TOO_SHORT"}
      /\ early.status = "TOO_SHORT" => early.needed > length
  BY <1>2 DEF Ndis!Dispatch, Ndis!Fails, Ndis!TooShort
<1>4. CASE early.status = "SUCCESS"
  <2>1. r \in Ndis!SetResults(oid, length)
    BY <1>4 DEF Ndis!SetAnswers
  <2> QED BY <2>1, SetFits
<1>5. CASE early.status # "SUCCESS"
  <2>1. r.adapter = xi /\ r.answer = early
    BY <1>5 DEF Ndis!SetAnswers
  <2>2. {"NOT_SUPPORTED", "TOO_SHORT"} \subseteq Statuses \ {"none"}
    BY DEF Statuses
  <2> HIDE DEF early
  <2> QED BY <1>1, <1>3, <1>5, <2>1, <2>2
<1> QED BY <1>4, <1>5

-----------------------------------------------------------------------------
LEMMA ClippedFits ==
  ASSUME NEW n \in Nat, NEW sg \in BOOLEAN
  PROVE  /\ Ndis!ClipToPage(n, sg) \in Nat
         /\ sg \/ OnePage(Ndis!ClipToPage(n, sg))
         /\ OnePage(n) => OnePage(Ndis!ClipToPage(n, sg))
BY DEF Ndis!ClipToPage, Ndis!Least, OnePage, Ndis!PageSize, Ndis!MaxHeader

LEMMA AdapterFits ==
  ASSUME NdisIInv, NEW c \in Configs, NEW active \in BOOLEAN
  PROVE  LET a == Ndis!Adapter(c, active)
         IN  /\ a \in AdapterData /\ a.state # "DISCONNECTED"
             /\ a.sg \/ (OnePage(a.advertised) /\ OnePage(a.beGso) /\ OnePage(a.gso))
<1> DEFINE fe == Ndis!FrontendGso(c)
           be == Ndis!Clipped(Ndis!BackendGso(backend, fe), backend)
           sg == Ndis!FrontendSg(c) /\ backend.sg
           a == Ndis!Adapter(c, active)
<1>1. /\ c.sg \in BOOLEAN /\ c.csum \in BOOLEAN /\ c.gso \in Nat
      /\ backend.sg \in BOOLEAN /\ backend.gso \in BOOLEAN
  BY NdisConstants DEF NdisIInv
<1>2. Ndis!FrontendSg(c) \in BOOLEAN
  BY <1>1 DEF Ndis!FrontendSg
<1>3. Ndis!Least(c.gso, Ndis!MaxLargeSend) \in Nat
  BY <1>1 DEF Ndis!Least, Ndis!MaxLargeSend
<1>4. fe \in Nat /\ (Ndis!FrontendSg(c) \/ OnePage(fe))
  BY <1>2, <1>3, ClippedFits DEF Ndis!FrontendGso
<1>5. OnePage(0)
  BY DEF OnePage, Ndis!MaxHeader, Ndis!PageSize
<1> HIDE DEF fe
<1>6. /\ Ndis!BackendGso(backend, fe) \in Nat
      /\ Ndis!FrontendSg(c) \/ OnePage(Ndis!BackendGso(backend, fe))
  BY <1>1, <1>4, <1>5 DEF Ndis!BackendGso
<1>7. be \in Nat /\ (sg \/ OnePage(be))
  BY <1>1, <1>2, <1>6, ClippedFits DEF Ndis!Clipped
<1>8. a = [state |-> IF active THEN "ACTIVE" ELSE "INACTIVE",
           feGso |-> fe, feCsum |-> c.csum, beSg |-> backend.sg, beGso |-> be,
           sg |-> sg,
           csum |-> Ndis!Vista /\ c.csum,
           gso |-> IF Ndis!Vista THEN be ELSE 0,
           advertised |-> IF Ndis!Vista THEN be ELSE 0,
           tasks |-> {}, filter |-> {}, lookahead |-> 120, multicast |-> 0]
  BY DEF Ndis!Adapter, fe
<1>9. sg \in BOOLEAN /\ (Ndis!Vista /\ c.csum) \in BOOLEAN
      /\ (IF Ndis!Vista THEN be ELSE 0) \in Nat
      /\ (IF active THEN "ACTIVE" ELSE "INACTIVE") \in {"ACTIVE", "INACTIVE", "DISCONNECTED"}
  BY <1>7
<1> HIDE DEF be, sg, a
<1>10. a \in AdapterData
  <2>1. {} \in {{}} \cup CsumTasks /\ {} \in SUBSET Ndis!SupportedFilters
    OBVIOUS
  <2>2. 120 \in Nat /\ 0 \in Nat
    OBVIOUS
  <2> QED BY <1>1, <1>4, <1>7, <1>8, <1>9, <2>1, <2>2 DEF AdapterData
<1>11. /\ a.sg \/ (OnePage(a.advertised) /\ OnePage(a.beGso) /\ OnePage(a.gso))
       /\ a.state # "DISCONNECTED"
  BY <1>5, <1>7, <1>8
<1> QED BY <1>10, <1>11 DEF a

LEMMA NdisStep ==
  ASSUME NdisIInv, [Ndis!Next]_(Ndis!vars)
  PROVE  /\ NdisIInv'
         /\ reply = Ndis!NoReply /\ reply' # Ndis!NoReply =>
              /\ reply'.written <= reply'.length
              /\ reply'.status = "TOO_SHORT" => reply'.needed > reply'.length
              /\ reply'.kind = "query" /\ reply'.status = "TOO_SHORT"
                   => Ndis!Query(reply'.oid, reply'.needed).status # "TOO_SHORT"
         /\ reply = Ndis!NoReply /\ reply'.status \notin {"none", "SUCCESS"} => xi' = xi
<1>1. "none" \in Statuses /\ Ndis!NoReply.status = "none" /\ os' = os /\ (Ndis!Vista' <=> Ndis!Vista)
  <2>1. os' = os
    BY DEF Ndis!Next, Ndis!Initialize, Ndis!Halt, Ndis!Suspend, Ndis!Resume, Ndis!Notices,
           Ndis!QueryInformation, Ndis!SetInformation, Ndis!TakeReply, Ndis!vars
  <2> QED BY <2>1 DEF Statuses, Ndis!NoReply, Ndis!Vista
<1>2. CASE Ndis!Initialize
  <2>1. PICK c \in Configs, active \in BOOLEAN, goesWell \in BOOLEAN :
          xi' = IF backend.macParses /\ goesWell THEN Ndis!Adapter(c, active) ELSE Ndis!NoAdapter
    BY <1>2 DEF Ndis!Initialize
  <2>2. resumed' = FALSE /\ UNCHANGED <<backend, reply>>
    BY <1>2 DEF Ndis!Initialize
  <2> DEFINE a == Ndis!Adapter(c, active)
  <2>3. /\ a \in AdapterData /\ a.state # "DISCONNECTED"
        /\ a.sg \/ (OnePage(a.advertised) /\ OnePage(a.beGso) /\ OnePage(a.gso))
    BY AdapterFits
  <2> HIDE DEF a
  <2>4. xi' \in {a, Ndis!NoAdapter}
    BY <2>1 DEF a
  <2>5. xi' # Ndis!NoAdapter => Fitting(xi)'
    BY <2>3, <2>4 DEF Fitting
  <2> QED BY <1>1, <2>2, <2>3, <2>4, <2>5 DEF NdisIInv, Ndis!NoReply
<1>3. CASE Ndis!Halt \/ Ndis!TakeReply
  <2>1. /\ xi' \in {xi, Ndis!NoAdapter} /\ reply' = Ndis!NoReply
        /\ UNCHANGED <<backend, resumed>>
    BY <1>3 DEF Ndis!Halt, Ndis!TakeReply
  <2>2. xi' # Ndis!NoAdapter => Fitting(xi)'
    BY <1>1, <2>1 DEF NdisIInv, Fitting
  <2> QED BY <1>1, <2>1, <2>2 DEF NdisIInv
<1>4. CASE Ndis!Suspend
  <2>1. /\ xi # Ndis!NoAdapter /\ xi' = [xi EXCEPT !.state = "DISCONNECTED"]
        /\ resumed' = TRUE /\ backend' \in Backends /\ reply' = reply
    BY <1>4 DEF Ndis!Suspend
  <2>2. xi \in AdapterData /\ Fitting(xi)
    BY <2>1, AdapterRecord
  <2>3. xi' \in AdapterData /\ xi'.sg = xi.sg /\ xi'.advertised = xi.advertised
    BY <2>1, <2>2 DEF AdapterData
  <2>4. Fitting(xi)'
    BY <2>1, <2>2, <2>3 DEF Fitting
  <2> QED BY <1>1, <2>1, <2>3, <2>4 DEF NdisIInv, Ndis!NoReply
<1>5. CASE Ndis!Resume
  <2> DEFINE be == Ndis!BackendGso(backend, xi.feGso)
  <2>1. /\ xi # Ndis!NoAdapter /\ xi.state = "DISCONNECTED"
        /\ xi' = [xi EXCEPT !.state = "ACTIVE", !.beSg = backend.sg, !.beGso = be]
        /\ UNCHANGED <<backend, resumed, reply>>
    BY <1>5 DEF Ndis!Resume
  <2>2. xi \in AdapterData /\ Fitting(xi)
    BY <2>1, AdapterRecord
  <2>3. backend.sg \in BOOLEAN /\ be \in Nat
    BY <2>2, NdisConstants DEF NdisIInv, AdapterData, Ndis!BackendGso
  <2> HIDE DEF be
  <2>4. xi' \in AdapterData /\ xi'.sg = xi.sg /\ xi'.advertised = xi.advertised
        /\ xi'.state = "ACTIVE"
    BY <2>1, <2>2, <2>3 DEF AdapterData
  <2>5. Ndis!Vista \/ resumed
    BY <2>1, <2>2 DEF Fitting
  <2>6. Fitting(xi)'
    BY <1>1, <2>1, <2>2, <2>4, <2>5 DEF Fitting
  <2> QED BY <1>1, <2>1, <2>4, <2>6 DEF NdisIInv, Ndis!NoReply
<1>6. CASE Ndis!QueryInformation
  <2>0. PICK oid \in Ndis!RequestOids, length \in Lengths :
          \E a \in {Ndis!Query(oid, length)} :
            reply' = [kind |-> "query", oid |-> oid, length |-> length,
                      status |-> a.status, needed |-> a.needed, written |-> a.written]
    BY <1>6 DEF Ndis!QueryInformation
  <2>1. PICK a \in {Ndis!Query(oid, length)} :
          reply' = [kind |-> "query", oid |-> oid, length |-> length,
                    status |-> a.status, needed |-> a.needed, written |-> a.written]
    BY <2>0
  <2>2. xi # Ndis!NoAdapter /\ UNCHANGED <<xi, backend, resumed>>
    BY <1>6 DEF Ndis!QueryInformation
  <2>3. xi \in AdapterData /\ length \in Nat
    BY <2>2, AdapterRecord, NdisConstants
  <2>4. /\ a.written <= length
        /\ a.status \in {"SUCCESS", "NOT_SUPPORTED", "TOO_SHORT"}
        /\ a.status = "TOO_SHORT" => /\ a.needed > length
                                     /\ Ndis!Query(oid, a.needed).status # "TOO_SHORT"
    BY <2>3, QueryFits
  <2>5. /\ reply'.written = a.written /\ reply'.length = length /\ reply'.status = a.status
        /\ reply'.needed = a.needed /\ reply'.oid = oid
    BY <2>1
  <2>6. reply'.status \in Statuses
    BY <2>4, <2>5 DEF Statuses
  <2>7. xi' # Ndis!NoAdapter => Fitting(xi)'
    BY <1>1, <2>2 DEF NdisIInv, Fitting
  <2> HIDE DEF NdisIInv
  <2>8. NdisIInv'
    BY <1>1, <2>2, <2>6, <2>7 DEF NdisIInv
  <2> QED BY <2>2, <2>4, <2>5, <2>8
<1>7. CASE Ndis!SetInformation
  <2>1. PICK oid \in Ndis!RequestOids, length \in Lengths \cup Lists :
          \E r \in Ndis!SetAnswers(oid, length) :
            /\ reply' = [kind |-> "set", oid |-> oid, length |-> length, status |-> r.answer.status,
                         needed |-> r.answer.needed, written |-> 0]
            /\ xi' = r.adapter
    BY <1>7 DEF Ndis!SetInformation
  <2>2. PICK r \in Ndis!SetAnswers(oid, length) :
            /\ reply' = [kind |-> "set", oid |-> oid, length |-> length, status |-> r.answer.status,
                         needed |-> r.answer.needed, written |-> 0]
            /\ xi' = r.adapter
    BY <2>1
  <2>3. xi # Ndis!NoAdapter /\ UNCHANGED <<backend, resumed>> /\ length \in Nat
    BY <1>7, NdisConstants DEF Ndis!SetInformation
  <2>4. /\ r.adapter \in AdapterData /\ Fitting(r.adapter)
        /\ r.answer.status \in Statuses \ {"none"}
        /\ r.answer.status # "SUCCESS" => r.adapter = xi
        /\ r.answer.status = "TOO_SHORT" => r.answer.needed > length
    BY <2>3, SetAnswerFits
  <2>5. /\ reply'.written = 0 /\ reply'.length = length /\ reply'.status = r.answer.status
        /\ reply'.needed = r.answer.needed /\ reply'.kind = "set"
    BY <2>2
  <2>6. Fitting(xi)'
    BY <1>1, <2>2, <2>3, <2>4 DEF Fitting
  <2>7. NdisIInv'
    BY <1>1, <2>2, <2>3, <2>4, <2>5, <2>6 DEF NdisIInv
  <2> QED BY <2>2, <2>3, <2>4, <2>5, <2>7
<1>8. CASE UNCHANGED Ndis!vars
  <2>1. UNCHANGED <<xi, backend, resumed, reply>>
    BY <1>8 DEF Ndis!vars
  <2>2. xi' # Ndis!NoAdapter => Fitting(xi)'
    BY <1>1, <2>1 DEF NdisIInv, Fitting
  <2> QED BY <1>1, <2>1, <2>2 DEF NdisIInv
<1> QED BY <1>2, <1>3, <1>4, <1>5, <1>6, <1>7, <1>8 DEF Ndis!Next, Ndis!Notices

LEMMA NdisInvariance == Ndis!Spec => []NdisIInv
<1>1. NdisIInv /\ [Ndis!Next]_(Ndis!vars) => NdisIInv'
  BY NdisStep
<1>2. Ndis!Init => NdisIInv
  BY NdisInit
<1> QED BY <1>1, <1>2, PTL DEF Ndis!Spec

\* NDIS never has more in a large send than the adapter can send, before NDIS 6 until the first
\* resume, whatever the registry and the backends say (NdisMiniport).
THEOREM AdapterKept == Ndis!Spec => []AdapterSound
<1>1. Ndis!Spec => []NdisIInv
  BY NdisInvariance
<1>2. NdisIInv => AdapterSound
  BY NdisConsequence
<1> QED BY <1>1, <1>2, PTL

\* Every OID request is answered within its buffer, one that asks for more room is served with
\* it, and one that is refused changes nothing, for buffers of any length (NdisMiniport).
THEOREM OidsKept == Ndis!Spec => OidsSound
<1>1. Ndis!Spec => []NdisIInv
  BY NdisInvariance
<1>2. NdisIInv /\ [Ndis!Next]_(Ndis!vars) =>
        [reply = Ndis!NoReply /\ reply' # Ndis!NoReply =>
           /\ reply'.written <= reply'.length
           /\ reply'.status = "TOO_SHORT" => reply'.needed > reply'.length
           /\ reply'.kind = "query" /\ reply'.status = "TOO_SHORT"
                => Ndis!Query(reply'.oid, reply'.needed).status # "TOO_SHORT"]_(Ndis!vars)
  BY NdisStep
<1>3. NdisIInv /\ [Ndis!Next]_(Ndis!vars) =>
        [reply = Ndis!NoReply /\ reply'.status \notin {"none", "SUCCESS"} => xi' = xi]_(Ndis!vars)
  BY NdisStep
<1>4. Ndis!Spec => Ndis!RepliesSound
  BY <1>1, <1>2, PTL DEF Ndis!Spec, Ndis!RepliesSound
<1>5. Ndis!Spec => Ndis!RefusedChangesNothing
  BY <1>1, <1>3, PTL DEF Ndis!Spec, Ndis!RefusedChangesNothing
<1> QED BY <1>4, <1>5 DEF OidsSound, Ndis!OidsSound
-----------------------------------------------------------------------------
\* The run goes on with one of the modules and leaves the others alone, so that what is shown of
\* each of them is true of it.
LEMMA OneRuns ==
  ASSUME [MCNext]_all
  PROVE  /\ [Next]_vars
         /\ [Scsi!Next]_(Scsi!vars)
         /\ [Usb!Next]_(Usb!vars)
         /\ [Ndis!Next]_(Ndis!vars)
BY DEF MCNext, Blocks, Asks, Queries, Plugs, all, xenstore, scsi, usb, ndis, vars, clients,
       request, watches, work, inbox, store, bounds, link, Scsi!vars, Usb!vars, Ndis!vars

\* All that the run MCRequests checks of xenstore requests, SRBs, URBs and OIDs holds of its
\* specification, for every value of the constants.
THEOREM RequestsKept ==
  MCSpec => [](MessagesSound /\ WatchesSound /\ ScsiSound /\ HubSound /\ AdapterSound) /\ OidsSound
<1>1. MCInit => Init /\ Scsi!Init /\ Usb!Init /\ Ndis!Init
  BY DEF MCInit
<1>2. MCSpec => Spec /\ Scsi!Spec /\ Usb!Spec /\ Ndis!Spec
  BY <1>1, OneRuns, PTL DEF MCSpec, Spec, Scsi!Spec, Usb!Spec, Ndis!Spec
<1> QED BY <1>2, MessagesAreSound, WatchesAreSound, ScsiKept, HubKept, AdapterKept, OidsKept, PTL
=============================================================================
