-------------------------------- MODULE NetRx --------------------------------
(***************************************************************************)
(* The receive half of the network driver (xennet/xennet_rx.c, the NDIS 6  *)
(* build with assertions) with the suspend and resume of xennet_common.c.  *)
(*                                                                         *)
(* Pages are granted to the backend through a ring and come back filled.   *)
(* A page has a count of references: one while the driver holds it, one    *)
(* for each piece of it in a packet lent to NDIS.  It goes back to the     *)
(* free list with its last reference.  Instances of the DPC on several     *)
(* CPUs, threads that return packets and the thread that suspends the      *)
(* device run concurrently; rx_lock is held only while the ring is read.   *)
(*                                                                         *)
(* The backend answers the slots of the ring in order, so ring holds the   *)
(* pages from rsp_cons to req_prod_pvt and rsps the responses to the first *)
(* of them.  Lengths are counted in units of data.                         *)
(***************************************************************************)
EXTENDS Naturals, FiniteSets, Sequences, SequencesExt, Functions

CONSTANTS
  Pages,             \* the memory for page buffers, named by numbers
  NoPage,
  RX_TARGET,         \* rx_target
  MAX_PB_FREELIST,   \* RX_MAX_PB_FREELIST
  MAX_PACKETS,       \* MAXIMUM_PACKETS_PER_INTERRUPT
  Stream,            \* the packets of the backend: per packet the length of its data in
                     \* each page, the mss of its GSO information (0: none), whether the
                     \* filter accepts it, whether the backend failed to copy it
  HDR, LOOK,         \* the length of a packet's headers; the lookahead beyond them
  PAGE, COALESCE, SPLIT,  \* PAGE_SIZE, config_rx_coalesce, current_gso_rx_split_type
  Dpcs, Returners, NoOne,
  MaxSuspends, MaxFailures   \* bounds

ASSUME NetRxAssumption ==
  /\ Pages \subseteq Nat /\ NoPage \notin Pages
  /\ RX_TARGET \in Nat \ {0} /\ MAX_PACKETS \in Nat \ {0}
  /\ \A i \in DOMAIN Stream : Stream[i].len # <<>> /\ Stream[i].len[1] >= HDR
  /\ SPLIT \in {"limit", "half", "none"}

VARIABLES
  device_state, rx_lock,
  allocated, freelist, ref_count, next, \* page buffers; those in rx_pb_stack; shared_buffer_t
  rsp,               \* per page the response copied to it
  hb_total, hb_free, \* header buffers: allocated; in rx_hb_stack
  ring, rsps, armed, at,  \* the shared ring; the backend's next slot
  pending, dpcqueued,
  partial,           \* rx_partial_buf and its flags
  pc, b, head, made, \* the DPC: next step; locals under rx_lock; buffers left; packets made
  rx_outstanding, rx_idle_event,
  lent,              \* packets NDIS holds
  rpc,               \* the next step of a returning thread
  pm,                \* the next step of the suspending thread
  stale, asserted,   \* a partial packet outlived a suspend; an assertion failed
  suspends, failures

pages   == <<allocated, freelist, ref_count, next, rsp>>
headers == <<hb_total, hb_free>>
shared  == <<ring, rsps, armed, at, pending>>
dpc     == <<rx_lock, partial, pc, b, head, made, dpcqueued>>
ndis    == <<rx_outstanding, rx_idle_event, lent, rpc>>
history == <<stale, asserted>>
bounds  == <<suspends, failures>>
vars    == <<device_state, pages, headers, shared, dpc, ndis, pm, history, bounds>>
-----------------------------------------------------------------------------
(* What the backend sends: per packet a slot for each page of data, and behind the
   first one a slot with the GSO information (part 0). *)

Slot(p, i) == [pkt |-> p, part |-> i, more |-> i < Len(Stream[p].len),
               extra |-> i = 1 /\ Stream[p].mss > 0]
GsoSlot(p) == [pkt |-> p, part |-> 0, more |-> FALSE, extra |-> FALSE]
Slots(p) ==
  LET data == [i \in DOMAIN Stream[p].len |-> Slot(p, i)]
  IN  IF Stream[p].mss > 0 THEN InsertAt(data, 2, GsoSlot(p)) ELSE data
NoSlot == [pkt |-> 0, part |-> 0, more |-> FALSE, extra |-> FALSE]
-----------------------------------------------------------------------------
(* Page buffers *)

Maximum(i, j) == IF i > j THEN i ELSE j
Minimum(i, j) == IF i < j THEN i ELSE j

\* The pages of a list linked by next.
Chain(nxt, p) ==
  LET f[n \in 0 .. Cardinality(Pages), q \in Pages \cup {NoPage}] ==
        IF q = NoPage \/ n = 0 THEN <<>> ELSE <<q>> \o f[n - 1, nxt[q]]
  IN  f[Cardinality(Pages), p]

Link(nxt, s, end) == [p \in Pages |->
  IF p \notin ToSet(s) THEN nxt[p]
  ELSE LET i == CHOOSE j \in DOMAIN s : s[j] = p IN IF i = Len(s) THEN end ELSE s[i + 1]]

Lowest(S, n) == [i \in 1 .. n |-> CHOOSE p \in S : Cardinality({q \in S : q < p}) = i - 1]

\* get_pb_from_freelist, n times: a free page, or else new memory.
MayAllocate == device_state \in {"initialising", "active"}
CanGet      == Cardinality(freelist) + (IF MayAllocate THEN Cardinality(Pages \ allocated) ELSE 0)
GetPages(n) ==
  LET k == Minimum(n, Cardinality(freelist))
  IN  Lowest(freelist, k) \o Lowest(Pages \ allocated, n - k)

\* put_pb_on_freelist for each page of S, when the references and links are ref and nxt:
\* its last reference puts a page on the free list, or frees it when the list is long
\* enough; what it held is forgotten.
PutPages(S, ref, nxt, copied) ==
  \E zero \in {{p \in S : ref[p] = 1}} :
  \E kept \in {ToSet(Lowest(zero, Minimum(MAX_PB_FREELIST + 1 - Cardinality(freelist),
                                        Cardinality(zero))))} :
    /\ ref_count' = [p \in Pages |-> IF p \in S THEN ref[p] - 1 ELSE ref[p]]
    /\ next' = [p \in Pages |-> IF p \in zero THEN NoPage ELSE nxt[p]]
    /\ rsp' = [p \in Pages |-> IF p \in zero THEN NoSlot ELSE copied[p]]
    /\ freelist' = freelist \cup kept
    /\ allocated' = allocated \ (zero \ kept)
-----------------------------------------------------------------------------
(* How a packet is cut (XenNet_MakePackets, XenNet_MakePacket).  Each packet for NDIS
   says whether it has a header buffer and which pages of data it refers to. *)

Total(lens) == FoldLeft(LAMBDA x, y : x + y, 0, lens)
Offset(lens, i) == Total(SubSeq(lens, 1, i - 1))

\* The pages that hold some of the data from offset from up to offset to.
Over(lens, from, to) == SelectSeq([i \in DOMAIN lens |-> i],
  LAMBDA i : Maximum(from, Offset(lens, i)) < Minimum(to, Offset(lens, i + 1)))

\* The length of the header made contiguous: as much as is asked for, if the packet has it.
BuildHeader(total_length, new_header_size) == Minimum(total_length, new_header_size)

\* What XenNet_ParsePacketHeader finds in a packet of this data.
ParsePacketHeader(lens, mss) ==
  LET total == Total(lens)
  IN  [total |-> total, tcp_length |-> total - HDR,
       header_length |-> BuildHeader(total, HDR + LOOK),
       split_required |-> mss > 0 /\ total - HDR > mss]

Cut(lens, mss) ==
  LET pi     == ParsePacketHeader(lens, mss)
      size   == CASE SPLIT = "limit" -> mss
                  [] SPLIT = "half"  -> Maximum((pi.tcp_length + 1) \div 2, mss)
                  [] SPLIT = "none"  -> 65535
      count  == (pi.tcp_length + size - 1) \div size
  IN  IF pi.split_required
      THEN [k \in 1 .. count |->
              [hdr |-> TRUE,
               over |-> Over(lens, IF k = 1 THEN pi.header_length ELSE HDR + (k - 1) * size,
                             Minimum(HDR + k * size, pi.total))]]
      ELSE IF Len(lens) = 1 \/ (COALESCE /\ pi.total <= PAGE)
      THEN <<[hdr |-> FALSE, over |-> <<1>>]>>
      ELSE <<[hdr |-> TRUE, over |-> Over(lens, pi.header_length, pi.total)]>>

\* Address and multicast list against packet_filter.
FilterAcceptPacket(p) == Stream[p].accept
-----------------------------------------------------------------------------
NoBatch   == [head |-> NoPage, tail |-> NoPage, last |-> NoPage, more |-> FALSE,
              extra |-> FALSE, packets |-> 0]
NoPartial == [buf |-> NoPage, more |-> FALSE, extra |-> FALSE]

TypeOK ==
  /\ device_state \in {"initialising", "active", "disconnecting", "disconnected"}
  /\ rx_lock \in Dpcs \cup {NoOne}
  /\ freelist \subseteq allocated /\ allocated \subseteq Pages
  /\ ref_count \in [Pages -> Nat] /\ next \in [Pages -> Pages \cup {NoPage}]
  /\ hb_total \in Nat /\ hb_free \in 0 .. hb_total
  /\ ring \in Seq(Pages) /\ Len(ring) <= RX_TARGET /\ Len(rsps) <= Len(ring)
  /\ \A v \in {armed, pending, dpcqueued, rx_idle_event, stale, asserted} : v \in BOOLEAN
  /\ pc \in [Dpcs -> {"idle", "consume", "fill", "arm", "recheck", "finish", "make"}]
  /\ rx_outstanding \in Nat
  /\ rpc \in [Returners -> {"idle", "decrement", "test"}]
  /\ pm \in {"on", "closing", "unbind", "wait", "sleep", "free", "off", "activate"}

\* Just connected and made active; the first event of the transmit half has queued the DPC.
Init ==
  /\ device_state = "active" /\ rx_lock = NoOne
  /\ allocated = {} /\ freelist = {} /\ ref_count = [p \in Pages |-> 0]
  /\ next = [p \in Pages |-> NoPage] /\ rsp = [p \in Pages |-> NoSlot]
  /\ hb_total = 0 /\ hb_free = 0
  /\ ring = <<>> /\ rsps = <<>> /\ armed = TRUE /\ at = <<1, 1>>
  /\ pending = FALSE /\ dpcqueued = TRUE
  /\ partial = NoPartial
  /\ pc = [d \in Dpcs |-> "idle"] /\ b = NoBatch
  /\ head = [d \in Dpcs |-> NoPage] /\ made = [d \in Dpcs |-> {}]
  /\ rx_outstanding = 0 /\ rx_idle_event = FALSE /\ lent = {}
  /\ rpc = [r \in Returners |-> "idle"]
  /\ pm = "on"
  /\ stale = FALSE /\ asserted = FALSE
  /\ suspends = 0 /\ failures = 0

Goto(d, from, to) == pc[d] = from /\ pc' = [pc EXCEPT ![d] = to]
-----------------------------------------------------------------------------
(* XenNet_HandleEvent_DIRQL and XenNet_RxTxDpc, up to taking rx_lock *)

HandleEvent_DIRQL ==
  /\ pending /\ pending' = FALSE
  /\ dpcqueued' = (dpcqueued \/ device_state \in {"active", "disconnecting"})
  /\ UNCHANGED <<device_state, pages, headers, ring, rsps, armed, at, rx_lock, partial, pc, b, head,
                 made, ndis, pm, history, bounds>>

\* "there is a chance that our Dpc had been queued just before the shutdown"
TooLate(d) ==
  /\ dpcqueued /\ pc[d] = "idle" /\ rx_lock = NoOne
  /\ device_state # "active"
  /\ dpcqueued' = FALSE
  /\ UNCHANGED <<device_state, pages, headers, shared, rx_lock, partial, pc, b, head, made, ndis, pm,
                 history, bounds>>

\* Mutant: the partial packet is forgotten, not joined to what follows.
EnterForget(d) ==
  /\ dpcqueued /\ rx_lock = NoOne
  /\ device_state = "active"
  /\ Goto(d, "idle", "consume")
  /\ dpcqueued' = FALSE /\ rx_lock' = d
  /\ b' = NoBatch
  /\ partial' = NoPartial
  /\ UNCHANGED <<device_state, pages, headers, shared, head, made, ndis, pm, history, bounds>>

Enter(d) ==
  /\ dpcqueued /\ rx_lock = NoOne
  /\ device_state = "active"
  /\ Goto(d, "idle", "consume")
  /\ dpcqueued' = FALSE /\ rx_lock' = d
  /\ b' = [NoBatch EXCEPT !.head = partial.buf, !.more = partial.more, !.extra = partial.extra,
              !.tail = IF partial.buf = NoPage THEN NoPage ELSE Last(Chain(next, partial.buf))]
  /\ partial' = NoPartial
  /\ UNCHANGED <<device_state, pages, headers, shared, head, made, ndis, pm, history, bounds>>
-----------------------------------------------------------------------------
(* XenNet_RxBufferCheck, under rx_lock *)

\* One response.  An error ends with the page on the free list, unless the slot is
\* extra information; the slot of GSO information behind an error reads as an error.
Consume1(s, i) ==
  LET page_buf == ring[i]
      r     == rsps[i]
      more  == IF s.b.extra THEN s.b.more ELSE r.more
      extra == IF s.b.extra THEN FALSE ELSE r.extra
  IN  IF s.b.packets >= MAX_PACKETS THEN s
      ELSE IF ~s.b.extra /\ (r.part = 0 \/ Stream[r.pkt].bad)
      THEN [s EXCEPT !.taken = i, !.back = @ \cup {page_buf}]
      ELSE [s EXCEPT !.taken = i, !.rsp[page_buf] = r,
              !.next = IF s.b.head = NoPage THEN [@ EXCEPT ![page_buf] = NoPage]
                       ELSE [@ EXCEPT ![s.b.tail] = page_buf, ![page_buf] = NoPage],
              !.b = [@ EXCEPT !.head = IF @ = NoPage THEN page_buf ELSE @,
                              !.tail = page_buf, !.more = more, !.extra = extra,
                              !.last = IF more \/ extra THEN @ ELSE page_buf,
                              !.packets = IF more \/ extra THEN @ ELSE @ + 1]]

\* for (cons = rsp_cons; cons != prod && ...; cons++)
Consume(d) ==
  /\ Goto(d, "consume", "fill")
  /\ \E s \in {FoldLeft(Consume1,
                   [b |-> b, next |-> next, rsp |-> rsp, back |-> {}, taken |-> 0],
                   [i \in DOMAIN rsps |-> i])} :
       /\ b' = s.b
       /\ ring' = SubSeq(ring, s.taken + 1, Len(ring))
       /\ rsps' = SubSeq(rsps, s.taken + 1, Len(rsps))
       /\ PutPages(s.back, ref_count, s.next, s.rsp)
  /\ UNCHANGED <<device_state, headers, armed, at, pending, rx_lock, partial, head, made, dpcqueued,
                 ndis, pm, history, bounds>>

\* XenNet_FillRing ("only refill if we are less than 3/4 full already"), then more
\* responses, or the quota, or ask for an event.
FillRing(d) ==
  /\ pc[d] = "fill"
  /\ LET batch_target == RX_TARGET - Len(ring)
         full == device_state # "active" \/ batch_target < RX_TARGET \div 4
         want == IF full THEN 0 ELSE batch_target
         free == Minimum(want, Cardinality(freelist))
     IN  \E n \in free .. Minimum(want, CanGet) : \E new \in {GetPages(n)} :
           /\ IF n = Minimum(want, CanGet) THEN UNCHANGED failures
              ELSE failures < MaxFailures /\ failures' = failures + 1
           /\ ring' = ring \o new
           /\ ref_count' = [p \in Pages |-> IF p \in ToSet(new) THEN 1 ELSE ref_count[p]]
           /\ freelist' = freelist \ ToSet(new)
           /\ allocated' = allocated \cup ToSet(new)
  /\ pc' = [pc EXCEPT ![d] = IF b.packets >= MAX_PACKETS THEN "finish"
                             ELSE IF rsps # <<>> THEN "consume" ELSE "arm"]
  /\ UNCHANGED <<device_state, next, rsp, headers, rsps, armed, at, pending, rx_lock, partial, b,
                 head, made, dpcqueued, ndis, pm, history, suspends>>

\* rsp_event = rsp_cons + 1, then look again
Arm(d) ==
  /\ Goto(d, "arm", "recheck")
  /\ armed' = (rsps = <<>>)
  /\ UNCHANGED <<device_state, pages, headers, ring, rsps, at, pending, rx_lock, partial, b, head,
                 made, dpcqueued, ndis, pm, history, bounds>>

Recheck(d) ==
  /\ Goto(d, "recheck", IF rsps # <<>> THEN "consume" ELSE "finish")
  /\ UNCHANGED <<device_state, pages, headers, shared, rx_lock, partial, b, head, made, dpcqueued,
                 ndis, pm, history, bounds>>

\* "anything past last_buf belongs to an incomplete packet"; over its quota the DPC is
\* queued again.  A run that saw part of a packet and no whole one fails
\* XN_ASSERT(!more_data_flag && !extra_info_flag) at the end of the function.
Finish(d) ==
  /\ Goto(d, "finish", "make")
  /\ head' = [head EXCEPT ![d] = b.head]
  /\ IF b.last # NoPage /\ next[b.last] # NoPage
     THEN /\ partial' = [buf |-> next[b.last], more |-> b.more, extra |-> b.extra]
          /\ next' = [next EXCEPT ![b.last] = NoPage]
     ELSE UNCHANGED <<partial, next>>
  /\ rx_lock' = NoOne /\ b' = NoBatch
  /\ asserted' = (b.last = NoPage /\ b.head # NoPage)
  /\ dpcqueued' = (dpcqueued \/ b.packets >= MAX_PACKETS)
  /\ UNCHANGED <<device_state, allocated, freelist, ref_count, rsp, headers, shared, made, ndis, pm,
                 stale, bounds>>
-----------------------------------------------------------------------------
(* XenNet_RxBufferCheck, after rx_lock is released *)

\* The flags after each buffer of list c: more data follows, extra information follows.
Flags(c) ==
  LET f[i \in 0 .. Len(c)] ==
        IF i = 0 THEN [more |-> FALSE, extra |-> FALSE]
        ELSE IF f[i - 1].extra THEN [more |-> f[i - 1].more, extra |-> FALSE]
        ELSE [more |-> rsp[c[i]].more, extra |-> rsp[c[i]].extra]
  IN  f

Ends(c) == {i \in DOMAIN c : ~Flags(c)[i].more /\ ~Flags(c)[i].extra}

\* The first packet of list c: its pages of data, and of extra information.
Buffers(c, extra) ==
  LET e == CHOOSE i \in Ends(c) : \A j \in Ends(c) : i <= j
  IN  SelectSeq(SubSeq(c, 1, e), LAMBDA p :
        \E i \in 1 .. e : c[i] = p /\ Flags(c)[i - 1].extra = extra)

Part(p) == <<rsp[p].pkt, rsp[p].part>>

\* The packets XenNet_MakePackets makes of the pages of data, when nothing fails.
PacketsOf(data, info) ==
  LET lens == [i \in DOMAIN data |-> Stream[rsp[data[i]].pkt].len[rsp[data[i]].part]]
      mss  == IF \E p \in ToSet(info) : rsp[p].part = 0 THEN Stream[rsp[data[1]].pkt].mss ELSE 0
      cut  == Cut(lens, mss)
  IN  IF ~FilterAcceptPacket(rsp[data[1]].pkt) THEN <<>>
      ELSE [k \in DOMAIN cut |->
             [first |-> IF cut[k].over = <<>> THEN NoPage ELSE data[cut[k].over[1]],
              n |-> Len(cut[k].over), hdr |-> cut[k].hdr, seg |-> k,
              parts |-> [i \in DOMAIN data |-> Part(data[i])]]]

\* The references a packet takes: its pages follow each other in the list.
Refers(pkts, data) == [p \in Pages |-> Cardinality({k \in DOMAIN pkts :
  \E i, j \in DOMAIN data : /\ data[i] = pkts[k].first /\ data[j] = p
                             /\ i <= j /\ j < i + pkts[k].n})]

\* The packets are chained for NDIS and counted.
Deliver(d, pkts) ==
  /\ made' = [made EXCEPT ![d] = @ \cup ToSet(pkts)]
  /\ rx_outstanding' = rx_outstanding + Len(pkts)

\* XenNet_MakePackets for the first packet of the list: out of memory after k packets, the
\* rest is dropped; done: the driver's own references are put back.
MakePackets(d) ==
  /\ pc[d] = "make" /\ head[d] # NoPage
  /\ \E c \in {Chain(next, head[d])} :
     \E data \in {Buffers(c, FALSE)}, info \in {Buffers(c, TRUE)} :
     \E all \in {PacketsOf(data, info)} : \E k \in 0 .. Len(all) :
     \E refs \in {Refers(SubSeq(all, 1, k), data)} :
       LET hdrs == Cardinality({i \in 1 .. k : all[i].hdr})
           new  == IF hdrs > hb_free THEN hdrs - hb_free ELSE 0
       IN  /\ new > 0 => MayAllocate
           /\ \/ k = Len(all) /\ UNCHANGED failures
              \/ k < Len(all) /\ ~MayAllocate /\ hdrs = hb_free /\ UNCHANGED failures
              \/ k < Len(all) /\ failures < MaxFailures /\ failures' = failures + 1
           /\ hb_total' = hb_total + new /\ hb_free' = hb_free + new - hdrs
           /\ PutPages(ToSet(data \o info), [p \in Pages |-> ref_count[p] + refs[p]],
                       Link(next, data, NoPage), rsp)
           /\ head' = [head EXCEPT ![d] = next[c[Len(data) + Len(info)]]]
           /\ Deliver(d, SubSeq(all, 1, k))
  /\ UNCHANGED <<device_state, shared, rx_lock, partial, pc, b, dpcqueued, rx_idle_event, lent,
                 rpc, pm, history, suspends>>

\* NdisMIndicateReceiveNetBufferLists
Indicate(d) ==
  /\ head[d] = NoPage
  /\ Goto(d, "make", "idle")
  /\ lent' = lent \cup made[d] /\ made' = [made EXCEPT ![d] = {}]
  /\ UNCHANGED <<device_state, pages, headers, shared, rx_lock, partial, b, head, dpcqueued,
                 rx_outstanding, rx_idle_event, rpc, pm, history, bounds>>

RxBufferCheck(d) ==
  \/ Consume(d) \/ FillRing(d) \/ Arm(d) \/ Recheck(d) \/ Finish(d)
  \/ MakePackets(d) \/ Indicate(d)
-----------------------------------------------------------------------------
(* XenNet_ReturnNetBufferLists, called by a thread of NDIS for one packet after another *)

\* The pages are found by the links from the packet's first one.
PagesOf(x) == SubSeq(Chain(next, x.first), 1, x.n)

ReturnBuffers(r, x) ==
  /\ rpc[r] \in {"idle", "test"} /\ x \in lent
  /\ rpc' = [rpc EXCEPT ![r] = "decrement"]
  /\ lent' = lent \ {x}
  /\ PutPages(ToSet(PagesOf(x)), ref_count, next, rsp)
  /\ hb_free' = IF x.hdr THEN hb_free + 1 ELSE hb_free
  /\ UNCHANGED <<device_state, hb_total, shared, dpc, rx_outstanding, rx_idle_event, pm,
                 history, bounds>>

DecrementOutstanding(r) ==
  /\ rpc[r] = "decrement" /\ rpc' = [rpc EXCEPT ![r] = "test"]
  /\ rx_outstanding' = rx_outstanding - 1
  /\ UNCHANGED <<device_state, pages, headers, shared, dpc, rx_idle_event, lent, pm, history,
                 bounds>>

\* Mutant: the event is set only once the device is off.
TestIdleLate(r) ==
  /\ rpc[r] = "test" /\ rpc' = [rpc EXCEPT ![r] = "idle"]
  /\ rx_idle_event' = (rx_idle_event \/ (rx_outstanding = 0 /\ device_state = "disconnected"))
  /\ UNCHANGED <<device_state, pages, headers, shared, dpc, rx_outstanding, lent, pm, history,
                 bounds>>

TestIdle(r) ==
  /\ rpc[r] = "test" /\ rpc' = [rpc EXCEPT ![r] = "idle"]
  /\ rx_idle_event' = (rx_idle_event \/ (rx_outstanding = 0 /\ device_state # "active"))
  /\ UNCHANGED <<device_state, pages, headers, shared, dpc, rx_outstanding, lent, pm, history,
                 bounds>>

ReturnNetBufferLists(r) ==
  \/ \E x \in lent : ReturnBuffers(r, x)
  \/ DecrementOutstanding(r) \/ TestIdle(r)
-----------------------------------------------------------------------------
(* The backend answers the next slot of the ring. *)

BackendAnswer ==
  /\ pm \in {"on", "closing"} /\ at[1] \in DOMAIN Stream
  /\ Len(rsps) < Len(ring)
  /\ rsps' = Append(rsps, Slots(at[1])[at[2]])
  /\ at' = IF at[2] < Len(Slots(at[1])) THEN <<at[1], at[2] + 1>> ELSE <<at[1] + 1, 1>>
  /\ armed' = FALSE /\ pending' = (pending \/ armed)
  /\ UNCHANGED <<device_state, pages, headers, ring, dpc, ndis, pm, history, bounds>>
-----------------------------------------------------------------------------
(* XenNet_Disconnect and XenNet_RxShutdown, when the domain suspends *)

Disconnect ==
  /\ pm = "on" /\ suspends < MaxSuspends /\ suspends' = suspends + 1
  /\ pm' = "closing" /\ device_state' = "disconnecting"
  /\ UNCHANGED <<pages, headers, shared, dpc, ndis, history, failures>>

\* The backend has gone to Closed, which takes messages through xenstore: an instance of
\* the DPC that was past its test of device_state has ended meanwhile (an assumption: the
\* code does not wait for it).  Then XnUnbindEvent.
CloseAndUnbind ==
  /\ pm = "closing" /\ pm' = "wait"
  /\ \A d \in Dpcs : pc[d] = "idle"
  /\ pending' = FALSE
  /\ UNCHANGED <<device_state, pages, headers, ring, rsps, armed, at, dpc, ndis, history, bounds>>

\* Mutant: the buffers are freed without a look at rx_outstanding.
ShutdownNoWait ==
  /\ pm = "wait" /\ rx_lock = NoOne
  /\ pm' = "free"
  /\ UNCHANGED <<device_state, pages, headers, shared, dpc, ndis, history, bounds>>

ShutdownTest ==
  /\ pm = "wait" /\ rx_lock = NoOne
  /\ pm' = IF rx_outstanding # 0 THEN "sleep" ELSE "free"
  /\ UNCHANGED <<device_state, pages, headers, shared, dpc, ndis, history, bounds>>

\* KeWaitForSingleObject(&xi->rx_idle_event), a synchronization event
ShutdownWake ==
  /\ pm = "sleep" /\ rx_idle_event
  /\ pm' = "wait" /\ rx_idle_event' = FALSE
  /\ UNCHANGED <<device_state, pages, headers, shared, dpc, rx_outstanding, lent, rpc, history,
                 bounds>>

\* XenNet_BufferFree: the pages on the ring are put back, then the free lists are freed.
BufferFree ==
  /\ pm = "free" /\ pm' = "off"
  /\ LET back == {p \in ToSet(ring) : ref_count[p] = 1}
     IN  /\ allocated' = allocated \ (freelist \cup back)
         /\ next' = [p \in Pages |-> IF p \in back THEN NoPage ELSE next[p]]
  /\ ref_count' = [p \in Pages |-> IF p \in ToSet(ring) THEN ref_count[p] - 1 ELSE ref_count[p]]
  /\ freelist' = {} /\ ring' = <<>> /\ rsps' = <<>>
  /\ hb_total' = hb_total - hb_free /\ hb_free' = 0
  /\ device_state' = "disconnected"
  /\ UNCHANGED <<rsp, armed, at, pending, dpc, ndis, history, bounds>>

\* XenNet_Connect and XenNet_RxInit, which fills no ring since the device is not active:
\* the DPC queued by the resume does.  rx_partial_buf is left as it was.
Connect ==
  /\ pm = "off" /\ pm' = "activate"
  /\ device_state' = "initialising"
  /\ rx_lock' = NoOne /\ rx_idle_event' = FALSE /\ rx_outstanding' = 0
  /\ armed' = TRUE
  /\ at' = IF at[2] = 1 THEN at ELSE <<at[1] + 1, 1>>
  /\ stale' = (stale \/ partial.buf # NoPage)
  /\ UNCHANGED <<pages, headers, ring, rsps, pending, partial, pc, b, head, made, dpcqueued, lent,
                 rpc, asserted, bounds>>

Activate ==
  /\ pm = "activate" /\ pm' = "on"
  /\ device_state' = "active" /\ dpcqueued' = TRUE
  /\ UNCHANGED <<pages, headers, shared, rx_lock, partial, pc, b, head, made, ndis, history, bounds>>

SuspendResume ==
  \/ Disconnect \/ CloseAndUnbind \/ ShutdownTest \/ ShutdownWake \/ BufferFree
  \/ Connect \/ Activate
-----------------------------------------------------------------------------
\* A failed assertion stops the machine.
Next ==
  /\ ~asserted
  /\ \/ HandleEvent_DIRQL \/ BackendAnswer \/ SuspendResume
     \/ \E d \in Dpcs : TooLate(d) \/ Enter(d) \/ RxBufferCheck(d)
     \/ \E r \in Returners : ReturnNetBufferLists(r)

Spec == Init /\ [][Next]_vars

\* Interrupts and queued DPCs are served, threads run, NDIS returns what it was lent, and a
\* suspend that has begun goes on.
FairSpec ==
  /\ Spec
  /\ WF_vars(~asserted /\ HandleEvent_DIRQL)
  /\ WF_vars(~asserted /\ \E d \in Dpcs : TooLate(d) \/ Enter(d))
  /\ \A d \in Dpcs : WF_vars(~asserted /\ RxBufferCheck(d))
  /\ \A r \in Returners : WF_vars(~asserted /\ ReturnNetBufferLists(r))
  /\ WF_vars(~asserted /\ (CloseAndUnbind \/ ShutdownTest \/ ShutdownWake \/ BufferFree
                            \/ Connect \/ Activate))
-----------------------------------------------------------------------------
(* Properties *)

\* The places that hold a reference to page p: the ring, the lists of the DPC, the partial
\* packet, and each packet made for NDIS or lent to it.
Holders(p) ==
  LET in(S) == Cardinality({x \in S : p \in ToSet(PagesOf(x))})
  IN  Cardinality({i \in DOMAIN ring : ring[i] = p})
      + Cardinality({d \in Dpcs : p \in ToSet(Chain(next, head[d]))})
      + Cardinality({l \in {b.head, partial.buf} : p \in ToSet(Chain(next, l))})
      + in(lent \cup UNION {made[d] : d \in Dpcs})

\* Every page of memory has as many references as holders, and is on the free list exactly
\* when it has none: no page is granted anew while NDIS or another list has it, and none
\* is forgotten.  The same of the header buffers.
PageAccounting ==
  /\ \A p \in Pages :
       /\ ref_count[p] = Holders(p)
       /\ p \in freelist => ref_count[p] = 0
       /\ p \in allocated \ freelist => ref_count[p] > 0
       /\ ref_count[p] > 0 => p \in allocated
  /\ hb_total = hb_free + Cardinality({x \in lent \cup UNION {made[d] : d \in Dpcs} : x.hdr})

\* A packet lent to NDIS refers to the parts of one packet of the backend, all of them in
\* order, and its pages still hold them; unless part of a packet outlived a suspend.
PacketWhole ==
  ~stale => \A x \in lent :
    LET p == x.parts[1][1]
    IN  /\ x.parts = [i \in DOMAIN Stream[p].len |-> <<p, i>>]
        /\ Len(PagesOf(x)) = x.n
        /\ \A i \in 1 .. x.n : \E j \in DOMAIN x.parts :
             /\ Part(PagesOf(x)[i]) = x.parts[j]
             /\ i > 1 => Part(PagesOf(x)[i - 1]) = x.parts[j - 1]

\* Once the receive half is shut down NDIS has nothing of it, and all its memory is freed
\* but for a partial packet.
QuietAfterShutdown ==
  pm \in {"off", "activate"} =>
    /\ lent = {} /\ rx_outstanding = 0 /\ hb_total = 0
    /\ allocated = ToSet(Chain(next, partial.buf))

\* Pages add up while the device works and are all back when it is shut down.
PagesSound == TypeOK /\ PageAccounting /\ QuietAfterShutdown

\* A suspend gets past the wait for the packets NDIS has.
ShutdownEnds == (pm = "wait") ~> (pm = "off" \/ asserted)

\* No response waits in the ring for an event that does not come: what the backend has
\* answered is taken, unless the device is suspended first.
ResponsesTaken == (rsps # <<>>) ~> (rsps = <<>> \/ pm # "on" \/ asserted)

\* The receive half neither hangs in a suspend nor stops receiving.
RxGoesOn == ShutdownEnds /\ ResponsesTaken
=============================================================================
