---------------------------- MODULE QueuesProofs ----------------------------
(***************************************************************************)
(* Proofs about the queues of MCQueues: packets that wait for room on the  *)
(* transmit ring, for every size of the ring, packets, lists and number of *)
(* threads, and reads that wait for data of the xenbus device, for every   *)
(* program, length of reads and writes, and size of XenBus's table.        *)
(***************************************************************************)
EXTENDS MCQueues, Integers, FiniteSetTheorems, SequenceTheorems, TLAPS

(***************************************************************************)
(* NetTx.                                                                  *)
(*                                                                         *)
(* An id is free or in one slot of data on the ring.  The shadow of the    *)
(* last slot of a packet holds it, and is answered last, so that what is   *)
(* done with a packet is done after all its slots.  NBL_REF counts at      *)
(* least the packets of a list that wait or are on the ring, and a list    *)
(* that is in a chain, or given back, has none.                            *)
(***************************************************************************)
TxPlaces == {"idle", "check", "send", "push", "gc", "harvest", "arm", "recheck", "complete", "relock"}
Shadows == [packet : Packets \cup {NoPacket}, gref : BOOLEAN]

TxTypeOK ==
  /\ device_state \in {"initialising", "active", "disconnecting", "disconnected"}
  /\ tx_lock \in Actors \cup {NoOne}
  /\ tx_waiting_pkt_list \in Seq(Packets)
  /\ tx_ring_free \in Nat
  /\ tx_id_list \in Seq(Ids)
  /\ tx_shadows \in [Ids -> Shadows]
  /\ nbl_ref \in [Nbls -> Int]
  /\ ring \subseteq Entries /\ IsFiniteSet(ring)
  /\ armed \in BOOLEAN /\ awake \in BOOLEAN /\ pending \in BOOLEAN /\ bound \in BOOLEAN
  /\ dpcqueued \in BOOLEAN
  /\ pc \in [Actors -> TxPlaces]
  /\ dont_set_event \in [Dpcs -> BOOLEAN]
  /\ chain \in [Dpcs -> SUBSET Nbls] /\ tx_packets \in [Dpcs -> Nat]
  /\ pm \in {"on", "closing", "unbind", "wait", "drain", "off", "connect", "activate", "failed"}
  /\ accepted \subseteq Nbls /\ completed \in [Nbls -> Nat]

DataPackets == {e.packet : e \in DataSlots}

\* Ids and slots: none is in two places.
Slots ==
  /\ tx_ring_free + Cardinality(ring) = RING_SIZE
  /\ IsInjective(tx_id_list)
  /\ \A id \in Ids : id \in ToSet(tx_id_list) <=> \A e \in DataSlots : e.id # id
  /\ \A e, f \in DataSlots : e.id = f.id => e = f
  /\ \A e, f \in ring : e.packet = f.packet /\ e.nth = f.nth => e = f

\* The slots of a packet: answered in order, and the last of them holds it.
Holders ==
  /\ \A e, f \in ring : e.packet = f.packet /\ e.nth < f.nth /\ f.stage = "answered" => e.stage = "answered"
  /\ \A e \in DataSlots :
       /\ tx_shadows[e.id].packet \in {NoPacket, e.packet}
       /\ \E f \in DataSlots : f.packet = e.packet /\ tx_shadows[f.id].packet = f.packet
       /\ \A f \in DataSlots :
            e.packet = f.packet /\ tx_shadows[f.id].packet # NoPacket => e.nth <= f.nth

\* Packets are in one place, of a list that was sent.
Places ==
  /\ IsInjective(tx_waiting_pkt_list)
  /\ \A e \in ring : e.packet \notin ToSet(tx_waiting_pkt_list)
  /\ \A p \in ToSet(tx_waiting_pkt_list) : NB_NBL(p) \in accepted
  /\ \A e \in ring : NB_NBL(e.packet) \in accepted

\* The packets of a list that wait or are on the ring.
Held(n) == ToSet(NetBuffers[n]) \cap (ToSet(tx_waiting_pkt_list) \cup DataPackets)

References ==
  \A n \in Nbls :
    /\ Cardinality(Held(n)) <= nbl_ref[n] /\ nbl_ref[n] <= Cardinality(Packets)
    /\ n \notin accepted => nbl_ref[n] = 0
    /\ completed[n] \in {0, 1}
    /\ completed[n] = 1 => n \in accepted /\ nbl_ref[n] = 0
    /\ \A d \in Dpcs : n \in chain[d] =>
         /\ n \in accepted /\ nbl_ref[n] = 0 /\ completed[n] = 0
         /\ \A c \in Dpcs : n \in chain[c] => c = d

\* What waits when the device is shut down came after that.
Lateness ==
  /\ device_state = "active" <=> pm = "on"
  /\ pm \in {"off", "connect", "failed"} => ToSet(tx_waiting_pkt_list) \subseteq late
  /\ forgotten \subseteq late

TxIInv == TxTypeOK /\ Slots /\ Holders /\ Places /\ References /\ Lateness

(* The constants, and sequences without repetition *)

LEMMA Sizes ==
  /\ RING_SIZE \in Nat /\ RING_SIZE > 0
  /\ IsFiniteSet(Ids) /\ Cardinality(Ids) = RING_SIZE
  /\ IsFiniteSet(Packets) /\ Cardinality(Packets) \in Nat
<1>1. RING_SIZE \in Nat /\ RING_SIZE > 0 /\ IsFiniteSet(Packets)
  BY NetTxAssumption
<1>2. IsFiniteSet(0 .. RING_SIZE - 1) /\ Cardinality(0 .. RING_SIZE - 1) = RING_SIZE
  <2>1. 0 \in Int /\ RING_SIZE - 1 \in Int /\ ~(0 > RING_SIZE - 1) /\ (RING_SIZE - 1) - 0 + 1 = RING_SIZE
    BY <1>1
  <2> QED BY <2>1, FS_Interval
<1> QED BY <1>1, <1>2, FS_CardinalityType DEF Ids

\* Each packet is of one list.
LEMMA Owner ==
  ASSUME NEW p \in Packets
  PROVE  /\ NB_NBL(p) \in Nbls /\ p \in ToSet(NetBuffers[NB_NBL(p)])
         /\ \A n \in Nbls : p \in ToSet(NetBuffers[n]) => n = NB_NBL(p)
<1>1. PICK n \in Nbls : \A m \in Nbls : p \in ToSet(NetBuffers[m]) <=> m = n
  BY NetTxAssumption
<1>2. NB_NBL(p) \in Nbls /\ p \in ToSet(NetBuffers[NB_NBL(p)])
  BY <1>1 DEF NB_NBL
<1> QED BY <1>1, <1>2

LEMMA Elements ==
  ASSUME NEW S, NEW s \in Seq(S)
  PROVE  ToSet(s) \subseteq S /\ (\A x : x \in ToSet(s) <=> \E i \in 1 .. Len(s) : s[i] = x)
BY DEF ToSet

LEMMA Rests ==
  ASSUME NEW S, NEW s \in Seq(S), s # <<>>, IsInjective(s)
  PROVE  /\ Head(s) \in S /\ Head(s) \in ToSet(s)
         /\ Tail(s) \in Seq(S) /\ IsInjective(Tail(s))
         /\ ToSet(Tail(s)) = ToSet(s) \ {Head(s)}
<1>1. Len(s) \in Nat /\ Len(s) >= 1 /\ Head(s) = s[1] /\ Tail(s) \in Seq(S) /\ Len(Tail(s)) = Len(s) - 1
  OBVIOUS
<1>2. \A i \in 1 .. Len(s) - 1 : Tail(s)[i] = s[i + 1]
  OBVIOUS
<1>3. \A i, j \in 1 .. Len(s) : s[i] = s[j] => i = j
  BY DEF IsInjective
<1>4. IsInjective(Tail(s))
  <2>1. \A i, j \in 1 .. Len(s) - 1 : Tail(s)[i] = Tail(s)[j] => i + 1 = j + 1
    BY <1>1, <1>2, <1>3
  <2>2. \A i, j \in 1 .. Len(s) - 1 : i + 1 = j + 1 => i = j
    BY <1>1
  <2> QED BY <1>1, <2>1, <2>2 DEF IsInjective
<1>5. \A x : x \in ToSet(Tail(s)) <=> x \in ToSet(s) \ {Head(s)}
  <2>1. ASSUME NEW x, x \in ToSet(Tail(s)) PROVE x \in ToSet(s) \ {Head(s)}
    <3>0. \A y : y \in ToSet(Tail(s)) <=> \E i \in 1 .. Len(Tail(s)) : Tail(s)[i] = y
      BY <1>1, Elements
    <3>1. PICK i \in 1 .. Len(s) - 1 : Tail(s)[i] = x
      BY <1>1, <2>1, <3>0
    <3>2. i + 1 \in 1 .. Len(s) /\ s[i + 1] = x /\ i + 1 # 1
      BY <1>1, <1>2, <3>1
    <3> QED BY <1>1, <1>3, <3>2, Elements
  <2>2. ASSUME NEW x, x \in ToSet(s) \ {Head(s)} PROVE x \in ToSet(Tail(s))
    <3>1. PICK i \in 1 .. Len(s) : s[i] = x
      BY <2>2, Elements
    <3>2. i # 1
      BY <1>1, <2>2, <3>1
    <3>3. i - 1 \in 1 .. Len(s) - 1 /\ (i - 1) + 1 = i
      BY <1>1, <3>2
    <3>4. Tail(s)[i - 1] = x
      BY <1>2, <3>1, <3>3
    <3> QED BY <1>1, <3>3, <3>4, Elements
  <2> QED BY <2>1, <2>2
<1>6. Head(s) \in ToSet(s) /\ Head(s) \in S
  BY <1>1, Elements
<1> QED BY <1>1, <1>4, <1>5, <1>6

LEMMA Joined ==
  ASSUME NEW S, NEW s \in Seq(S), NEW t \in Seq(S)
  PROVE  /\ s \o t \in Seq(S) /\ ToSet(s \o t) = ToSet(s) \cup ToSet(t)
         /\ IsInjective(s) /\ IsInjective(t) /\ ToSet(s) \cap ToSet(t) = {} => IsInjective(s \o t)
<1>1. /\ s \o t \in Seq(S) /\ Len(s) \in Nat /\ Len(t) \in Nat /\ Len(s \o t) = Len(s) + Len(t)
  OBVIOUS
<1>2. \A i \in 1 .. Len(s) : (s \o t)[i] = s[i]
  OBVIOUS
<1>3. \A i \in Len(s) + 1 .. Len(s) + Len(t) : (s \o t)[i] = t[i - Len(s)]
  OBVIOUS
<1>4. \A j \in 1 .. Len(t) : (s \o t)[Len(s) + j] = t[j]
  <2>1. ASSUME NEW j \in 1 .. Len(t) PROVE (s \o t)[Len(s) + j] = t[j]
    <3>1. Len(s) + j \in Len(s) + 1 .. Len(s) + Len(t) /\ (Len(s) + j) - Len(s) = j
      BY <1>1
    <3> QED BY <1>3, <3>1
  <2> QED BY <2>1
<1>5. \A x : x \in ToSet(s \o t) <=> x \in ToSet(s) \cup ToSet(t)
  <2>1. ASSUME NEW x, x \in ToSet(s \o t) PROVE x \in ToSet(s) \cup ToSet(t)
    <3>1. PICK i \in 1 .. Len(s) + Len(t) : (s \o t)[i] = x
      BY <1>1, <2>1, Elements
    <3>2. CASE i <= Len(s)
      BY <1>1, <1>2, <3>1, <3>2, Elements
    <3>3. CASE i > Len(s)
      <4>1. i \in Len(s) + 1 .. Len(s) + Len(t) /\ i - Len(s) \in 1 .. Len(t)
        BY <1>1, <3>3
      <4> QED BY <1>3, <3>1, <4>1, Elements
    <3> QED BY <1>1, <3>2, <3>3
  <2>2. ASSUME NEW x, x \in ToSet(s) PROVE x \in ToSet(s \o t)
    <3>1. PICK i \in 1 .. Len(s) : s[i] = x
      BY <2>2, Elements
    <3>2. i \in 1 .. Len(s \o t)
      BY <1>1
    <3> QED BY <1>1, <1>2, <3>1, <3>2, Elements
  <2>3. ASSUME NEW x, x \in ToSet(t) PROVE x \in ToSet(s \o t)
    <3>1. PICK i \in 1 .. Len(t) : t[i] = x
      BY <2>3, Elements
    <3>2. Len(s) + i \in 1 .. Len(s \o t)
      BY <1>1
    <3> QED BY <1>1, <1>4, <3>1, <3>2, Elements
  <2> QED BY <2>1, <2>2, <2>3
<1>6. ASSUME IsInjective(s), IsInjective(t), ToSet(s) \cap ToSet(t) = {} PROVE IsInjective(s \o t)
  <2>1. ASSUME NEW i \in 1 .. Len(s) + Len(t), NEW j \in 1 .. Len(s) + Len(t), (s \o t)[i] = (s \o t)[j]
        PROVE  i = j
    <3>1. \A k \in 1 .. Len(s) : s[k] \in ToSet(s)
      BY Elements
    <3>2. \A k \in 1 .. Len(t) : t[k] \in ToSet(t)
      BY Elements
    <3>3. CASE i <= Len(s) /\ j <= Len(s)
      BY <1>1, <1>2, <1>6, <2>1, <3>3 DEF IsInjective
    <3>4. CASE i > Len(s) /\ j > Len(s)
      <4>1. i - Len(s) \in 1 .. Len(t) /\ j - Len(s) \in 1 .. Len(t) /\ i \in Len(s) + 1 .. Len(s) + Len(t) /\ j \in Len(s) + 1 .. Len(s) + Len(t)
        BY <1>1, <3>4
      <4>2. t[i - Len(s)] = t[j - Len(s)]
        BY <1>3, <2>1, <4>1
      <4>3. i - Len(s) = j - Len(s)
        BY <1>1, <1>6, <4>1, <4>2 DEF IsInjective
      <4> QED BY <1>1, <4>3
    <3>5. CASE i <= Len(s) /\ j > Len(s)
      <4>1. i \in 1 .. Len(s) /\ j - Len(s) \in 1 .. Len(t) /\ j \in Len(s) + 1 .. Len(s) + Len(t)
        BY <1>1, <3>5
      <4> QED BY <1>2, <1>3, <1>6, <2>1, <3>1, <3>2, <4>1
    <3>6. CASE i > Len(s) /\ j <= Len(s)
      <4>1. j \in 1 .. Len(s) /\ i - Len(s) \in 1 .. Len(t) /\ i \in Len(s) + 1 .. Len(s) + Len(t)
        BY <1>1, <3>6
      <4> QED BY <1>2, <1>3, <1>6, <2>1, <3>1, <3>2, <4>1
    <3> QED BY <1>1, <3>3, <3>4, <3>5, <3>6
  <2>2. DOMAIN (s \o t) = 1 .. Len(s) + Len(t)
    BY <1>1
  <2> QED BY <2>1, <2>2 DEF IsInjective
<1> QED BY <1>1, <1>5, <1>6

\* The first m elements, and the others.
LEMMA Cut ==
  ASSUME NEW S, NEW s \in Seq(S), NEW m \in 0 .. Len(s), IsInjective(s)
  PROVE  /\ SubSeq(s, 1, m) \in Seq(S) /\ Len(SubSeq(s, 1, m)) = m /\ IsInjective(SubSeq(s, 1, m))
         /\ \A i \in 1 .. Len(s) : s[i] \in ToSet(SubSeq(s, 1, m)) <=> i <= m
         /\ ToSet(SubSeq(s, 1, m)) \subseteq ToSet(s)
<1>1. SubSeq(s, 1, m) \in Seq(S) /\ Len(SubSeq(s, 1, m)) = m /\ m \in Nat /\ m <= Len(s) /\ Len(s) \in Nat
  OBVIOUS
<1>2. \A i \in 1 .. m : SubSeq(s, 1, m)[i] = s[i]
  OBVIOUS
<1>3. \A i, j \in 1 .. Len(s) : s[i] = s[j] => i = j
  BY DEF IsInjective
<1>4. IsInjective(SubSeq(s, 1, m))
  BY <1>1, <1>2, <1>3 DEF IsInjective
<1>5. \A x : x \in ToSet(SubSeq(s, 1, m)) <=> \E i \in 1 .. m : s[i] = x
  <2>1. \A x : x \in ToSet(SubSeq(s, 1, m)) <=> \E i \in 1 .. Len(SubSeq(s, 1, m)) : SubSeq(s, 1, m)[i] = x
    BY <1>1, Elements
  <2> QED BY <1>1, <1>2, <2>1
<1>6. ASSUME NEW i \in 1 .. Len(s) PROVE s[i] \in ToSet(SubSeq(s, 1, m)) <=> i <= m
  BY <1>1, <1>3, <1>5
<1>7. \A x : x \in ToSet(SubSeq(s, 1, m)) => x \in ToSet(s)
  BY <1>1, <1>5, Elements
<1> QED BY <1>1, <1>4, <1>6, <1>7

\* An image under a function that tells its arguments apart.
LEMMA SameSize ==
  ASSUME NEW S, IsFiniteSet(S), NEW T, NEW f \in [S -> T],
         \A x, y \in S : f[x] = f[y] => x = y, \A y \in T : \E x \in S : f[x] = y
  PROVE  IsFiniteSet(T) /\ Cardinality(T) = Cardinality(S)
<1>1. f \in Injection(S, T)
  BY DEF Injection, IsInjective
<1>2. f \in Surjection(S, T)
  BY DEF Surjection
<1>3. f \in Bijection(S, T)
  BY <1>1, <1>2 DEF Bijection
<1> QED BY <1>3, FS_Bijection DEF ExistsBijection

LEMMA Distinct ==
  ASSUME NEW S, NEW s \in Seq(S), IsInjective(s)
  PROVE  IsFiniteSet(ToSet(s)) /\ Cardinality(ToSet(s)) = Len(s)
<1>1. Len(s) \in Nat /\ DOMAIN s = 1 .. Len(s)
  OBVIOUS
<1>2. IsFiniteSet(1 .. Len(s)) /\ Cardinality(1 .. Len(s)) = Len(s)
  <2>1. 1 \in Int /\ Len(s) \in Int /\ (IF 1 > Len(s) THEN 0 ELSE Len(s) - 1 + 1) = Len(s)
    BY <1>1
  <2> QED BY <2>1, FS_Interval
<1>3. s \in [1 .. Len(s) -> ToSet(s)]
  BY <1>1 DEF ToSet
<1>4. \A x, y \in 1 .. Len(s) : s[x] = s[y] => x = y
  BY <1>1 DEF IsInjective
<1>5. \A y \in ToSet(s) : \E x \in 1 .. Len(s) : s[x] = y
  BY <1>1 DEF ToSet
<1> QED BY <1>2, <1>3, <1>4, <1>5, SameSize

\* A finite set in some order.
LEMMA Ordered ==
  ASSUME NEW S, IsFiniteSet(S), NEW s \in SetToSeqs(S)
  PROVE  s \in Seq(S) /\ IsInjective(s) /\ ToSet(s) = S
<1> DEFINE n == Cardinality(S)
<1>1. n \in Nat /\ s \in [1 .. n -> S] /\ \A i, j \in 1 .. n : i # j => s[i] # s[j]
  BY FS_CardinalityType DEF SetToSeqs
<1>2. IsFiniteSet(1 .. n) /\ Cardinality(1 .. n) = n
  <2>1. 1 \in Int /\ n \in Int /\ (IF 1 > n THEN 0 ELSE n - 1 + 1) = n
    BY <1>1
  <2> QED BY <2>1, FS_Interval
<1>3. s \in Injection(1 .. n, S)
  BY <1>1 DEF Injection, IsInjective
<1>4. s \in Surjection(1 .. n, S)
  BY <1>2, <1>3, FS_Injection
<1>5. s \in Seq(S) /\ DOMAIN s = 1 .. n
  BY <1>1
<1>6. \A y \in S : \E x \in 1 .. n : s[x] = y
  BY <1>4 DEF Surjection
<1> QED BY <1>1, <1>3, <1>5, <1>6 DEF Injection, ToSet

(* Slots that go to another stage, and steps that leave them alone *)

Stages == {"private", "pushed", "taken", "answered"}

LEMMA Slot ==
  ASSUME TxIInv, NEW e \in ring
  PROVE  /\ e.id \in Ids \cup {NoId} /\ e.packet \in Packets /\ e.nth \in Nat /\ e.stage \in Stages
         /\ e = [id |-> e.id, packet |-> e.packet, nth |-> e.nth, stage |-> e.stage]
         /\ (e \in DataSlots <=> e.id # NoId)
<1>1. e \in Entries
  BY DEF TxIInv, TxTypeOK
<1>2. RING_SIZE \in Nat
  BY Sizes
<1> QED BY <1>1, <1>2 DEF Entries, Stages, DataSlots

Moved(S, stage, e) == IF e \in S THEN [e EXCEPT !.stage = stage] ELSE e

LEMMA MovedFacts ==
  ASSUME TxIInv, NEW S \in SUBSET ring, NEW stage \in Stages, ring' = Move(S, stage)
  PROVE  /\ ring' \subseteq Entries
         /\ \A e \in ring : LET f == Moved(S, stage, e) IN
              /\ f \in ring' /\ f.id = e.id /\ f.packet = e.packet /\ f.nth = e.nth
              /\ f.stage = IF e \in S THEN stage ELSE e.stage
         /\ \A f \in ring' : \E e \in ring : f = Moved(S, stage, e)
<1>1. ring \subseteq Entries
  BY DEF TxIInv, TxTypeOK
<1>2. ASSUME NEW e \in ring
      PROVE  /\ Moved(S, stage, e) \in ring' /\ Moved(S, stage, e) \in Entries
             /\ Moved(S, stage, e).id = e.id /\ Moved(S, stage, e).packet = e.packet
             /\ Moved(S, stage, e).nth = e.nth
             /\ Moved(S, stage, e).stage = IF e \in S THEN stage ELSE e.stage
  <2>1. e \in Entries
    BY <1>1
  <2>2. CASE e \in S
    <3>1. Moved(S, stage, e) = [e EXCEPT !.stage = stage]
      BY <2>2 DEF Moved
    <3>2. [e EXCEPT !.stage = stage] \in ring'
      BY <2>2 DEF Move
    <3> QED BY <2>1, <2>2, <3>1, <3>2 DEF Entries, Stages
  <2>3. CASE e \notin S
    BY <2>1, <2>3 DEF Move, Moved
  <2> QED BY <2>2, <2>3
<1>3. ASSUME NEW f \in ring' PROVE \E e \in ring : f = Moved(S, stage, e)
  <2>1. CASE f \in ring \ S
    BY <2>1 DEF Moved
  <2>2. CASE f \in {[e EXCEPT !.stage = stage] : e \in S}
    BY <2>2 DEF Moved
  <2> QED BY <2>1, <2>2 DEF Move
<1>4. ring' \subseteq Entries
  BY <1>2, <1>3
<1> QED BY <1>2, <1>3, <1>4

LEMMA MoveKeeps ==
  ASSUME TxIInv, NEW S \in SUBSET ring, NEW stage \in Stages, ring' = Move(S, stage),
         \A e \in S : /\ e.stage # "answered"
                      /\ stage = "answered" =>
                           \A f \in ring : f.packet = e.packet /\ f.nth < e.nth => f.stage = "answered",
         UNCHANGED <<tx_waiting_pkt_list, tx_ring_free, tx_id_list, tx_shadows, nbl_ref, accepted,
                     completed, chain>>
  PROVE  /\ ring' \subseteq Entries /\ IsFiniteSet(ring')
         /\ Slots' /\ Holders' /\ Places' /\ References'
         /\ DataPackets' = DataPackets
<1> DEFINE M(e) == Moved(S, stage, e)
<1>1. \A e \in ring : M(e) \in ring' /\ M(e).id = e.id /\ M(e).packet = e.packet /\ M(e).nth = e.nth
                      /\ M(e).stage = IF e \in S THEN stage ELSE e.stage
  BY MovedFacts
<1>2. \A f \in ring' : \E e \in ring : f = M(e)
  BY MovedFacts
<1> HIDE DEF M
<1>3. \A e, f \in ring : M(e) = M(f) => e = f
  <2>1. \A e, f \in ring : e.packet = f.packet /\ e.nth = f.nth => e = f
    BY DEF TxIInv, Slots
  <2> QED BY <1>1, <2>1
<1>4. IsFiniteSet(ring') /\ Cardinality(ring') = Cardinality(ring)
  <2> DEFINE g == [e \in ring |-> M(e)]
  <2>1. g \in [ring -> ring'] /\ IsFiniteSet(ring)
    BY <1>1 DEF TxIInv, TxTypeOK
  <2>2. \A e, f \in ring : g[e] = g[f] => e = f
    BY <1>3
  <2>3. \A f \in ring' : \E e \in ring : g[e] = f
    BY <1>2
  <2> HIDE DEF g
  <2> QED BY <2>1, <2>2, <2>3, SameSize
<1>5. \A e \in ring : M(e) \in DataSlots' <=> e \in DataSlots
  BY <1>1 DEF DataSlots
<1>6. \A f \in DataSlots' : \E e \in DataSlots : f = M(e)
  BY <1>2, <1>5 DEF DataSlots
<1>7. DataSlots \subseteq ring /\ DataSlots' \subseteq ring'
  BY DEF DataSlots
<1>8. DataPackets' = DataPackets
  <2>1. \A e \in DataSlots : M(e) \in DataSlots' /\ M(e).packet = e.packet
    BY <1>1, <1>5, <1>7
  <2> QED BY <1>1, <1>6, <1>7, <2>1 DEF DataPackets
<1>9. Slots'
  <2>1. \A e, f \in DataSlots : e.id = f.id => e = f
    BY DEF TxIInv, Slots
  <2>2. \A e, f \in DataSlots' : e.id = f.id => e = f
    BY <1>1, <1>6, <1>7, <2>1
  <2>3. \A e, f \in ring : e.packet = f.packet /\ e.nth = f.nth => e = f
    BY DEF TxIInv, Slots
  <2>4. \A e, f \in ring' : e.packet = f.packet /\ e.nth = f.nth => e = f
    BY <1>1, <1>2, <2>3
  <2>5. \A id : (\A e \in DataSlots' : e.id # id) <=> (\A e \in DataSlots : e.id # id)
    <3>1. \A e \in DataSlots : M(e) \in DataSlots' /\ M(e).id = e.id
      BY <1>1, <1>5, <1>7
    <3>2. \A f \in DataSlots' : \E e \in DataSlots : f.id = e.id
      BY <1>1, <1>6, <1>7
    <3> QED BY <3>1, <3>2
  <2>6. \A id \in Ids : id \in ToSet(tx_id_list) <=> \A e \in DataSlots : e.id # id
    BY DEF TxIInv, Slots
  <2>7. tx_ring_free' + Cardinality(ring') = RING_SIZE /\ IsInjective(tx_id_list')
    BY <1>4 DEF TxIInv, Slots
  <2>8. ToSet(tx_id_list)' = ToSet(tx_id_list)
    OBVIOUS
  <2> QED BY <2>2, <2>4, <2>5, <2>6, <2>7, <2>8 DEF Slots
<1>10. Holders'
  <2>1. ASSUME NEW e \in ring', NEW f \in ring', e.packet = f.packet, e.nth < f.nth, f.stage = "answered"
        PROVE  e.stage = "answered"
    <3>1. PICK a \in ring : e = M(a)
      BY <1>2
    <3>2. PICK b \in ring : f = M(b)
      BY <1>2
    <3>3. a.packet = b.packet /\ a.nth < b.nth
      BY <1>1, <2>1, <3>1, <3>2
    <3>4. a.stage = "answered"
      <4>1. CASE b \in S
        BY <1>1, <2>1, <3>2, <3>3, <4>1
      <4>2. CASE b \notin S
        BY <1>1, <2>1, <3>2, <3>3, <4>2 DEF TxIInv, Holders
      <4> QED BY <4>1, <4>2
    <3> QED BY <1>1, <3>1, <3>4
  <2>2. ASSUME NEW e \in DataSlots'
        PROVE  /\ tx_shadows'[e.id].packet \in {NoPacket, e.packet}
               /\ \E f \in DataSlots' : f.packet = e.packet /\ tx_shadows'[f.id].packet = f.packet
               /\ \A f \in DataSlots' :
                    e.packet = f.packet /\ tx_shadows'[f.id].packet # NoPacket => e.nth <= f.nth
    <3>1. PICK a \in DataSlots : e = M(a)
      BY <1>6
    <3>2. a \in ring /\ e.id = a.id /\ e.packet = a.packet /\ e.nth = a.nth
      BY <1>1, <1>7, <3>1
    <3>3. PICK b \in DataSlots : b.packet = a.packet /\ tx_shadows[b.id].packet = b.packet
      BY DEF TxIInv, Holders
    <3>4. M(b) \in DataSlots' /\ M(b).packet = b.packet /\ M(b).id = b.id
      BY <1>1, <1>5, <1>7
    <3>5. ASSUME NEW f \in DataSlots', e.packet = f.packet, tx_shadows[f.id].packet # NoPacket
          PROVE  e.nth <= f.nth
      <4>1. PICK c \in DataSlots : f = M(c)
        BY <1>6
      <4>2. f.id = c.id /\ f.packet = c.packet /\ f.nth = c.nth
        BY <1>1, <1>7, <4>1
      <4>3. a.packet = c.packet /\ tx_shadows[c.id].packet # NoPacket
        BY <3>2, <3>5, <4>2
      <4>4. Holders
        BY DEF TxIInv
      <4>5. a.nth <= c.nth
        BY <4>3, <4>4 DEF Holders
      <4> QED BY <3>2, <4>2, <4>5
    <3>6. tx_shadows[a.id].packet \in {NoPacket, a.packet}
      BY DEF TxIInv, Holders
    <3> QED BY <3>2, <3>3, <3>4, <3>5, <3>6
  <2> QED BY <2>1, <2>2 DEF Holders
<1>11. Places'
  <2>1. \A e \in ring' : \E b \in ring : e.packet = b.packet
    BY <1>1, <1>2
  <2>2. ToSet(tx_waiting_pkt_list)' = ToSet(tx_waiting_pkt_list)
    OBVIOUS
  <2> QED BY <2>1, <2>2 DEF TxIInv, Places
<1>12. References'
  <2>1. \A n \in Nbls : Held(n)' = Held(n)
    BY <1>8 DEF Held
  <2> QED BY <2>1 DEF TxIInv, References
<1>13. ring' \subseteq Entries
  BY MovedFacts
<1> QED BY <1>4, <1>8, <1>9, <1>10, <1>11, <1>12, <1>13

LEMMA OthersKeep ==
  ASSUME TxIInv, TxTypeOK', Lateness',
         UNCHANGED <<tx_waiting_pkt_list, tx_ring_free, tx_id_list, tx_shadows, nbl_ref, ring,
                     accepted, completed, chain>>
  PROVE  TxIInv'
<1>1. DataSlots' = DataSlots /\ ToSet(tx_waiting_pkt_list)' = ToSet(tx_waiting_pkt_list)
      /\ ToSet(tx_id_list)' = ToSet(tx_id_list)
  BY DEF DataSlots
<1>2. \A n \in Nbls : Held(n)' = Held(n)
  BY <1>1 DEF Held, DataPackets
<1>3. Slots'
  BY <1>1 DEF TxIInv, Slots
<1>4. Holders'
  BY <1>1 DEF TxIInv, Holders
<1>5. Places'
  BY <1>1 DEF TxIInv, Places
<1>6. References'
  BY <1>1, <1>2 DEF TxIInv, References
<1> QED BY <1>3, <1>4, <1>5, <1>6 DEF TxIInv

(* Steps that move no packet *)

LEMMA Going ==
  ASSUME TxTypeOK, NEW a \in Actors, NEW from, NEW to \in TxPlaces, Goto(a, from, to)
  PROVE  pc' \in [Actors -> TxPlaces]
BY DEF TxTypeOK, Goto

LEMMA ActorsAre == Senders \subseteq Actors /\ Dpcs \subseteq Actors
BY DEF Actors

\* What has become of a step that leaves the device's state and the lists alone.
LEMMA SameLateness ==
  ASSUME TxIInv, UNCHANGED <<device_state, tx_waiting_pkt_list, pm, forgotten, late>>
  PROVE  Lateness'
<1>1. ToSet(tx_waiting_pkt_list)' = ToSet(tx_waiting_pkt_list)
  OBVIOUS
<1> QED BY <1>1 DEF TxIInv, Lateness

LEMMA IdleKeeps ==
  ASSUME TxIInv, NEW a \in Actors, NotActive(a) \/ Active(a) \/ Stop(a)
  PROVE  TxIInv'
<1>1. /\ UNCHANGED <<device_state, tx_waiting_pkt_list, tx_ring_free, tx_id_list, tx_shadows, nbl_ref,
                     ring, armed, awake, pending, bound, dpcqueued, dont_set_event, chain, tx_packets,
                     pm, accepted, completed, forgotten, late>>
      /\ tx_lock' \in {tx_lock, NoOne}
  BY DEF NotActive, Active, Stop, driver, shared, locals, history, bounds
<1>2. \E from, to \in TxPlaces : Goto(a, from, to)
  <2>1. AfterSend(a) \in TxPlaces /\ {"check", "send", "push"} \subseteq TxPlaces
    BY DEF AfterSend, TxPlaces
  <2> QED BY <2>1 DEF NotActive, Active, Stop
<1>3. TxTypeOK
  BY DEF TxIInv
<1>4. pc' \in [Actors -> TxPlaces]
  BY <1>2, <1>3, Going
<1>5. TxTypeOK'
  BY <1>1, <1>3, <1>4 DEF TxTypeOK
<1>6. Lateness'
  BY <1>1, SameLateness
<1> QED BY <1>1, <1>5, <1>6, OthersKeep

LEMMA DpcIdleKeeps ==
  ASSUME TxIInv, NEW d \in Dpcs,
         RxTxDpc(d) \/ TooLate(d) \/ Enter(d) \/ Arm(d) \/ Recheck(d) \/ Relock(d)
  PROVE  TxIInv'
<1>1. TxTypeOK /\ d \in Actors
  BY ActorsAre DEF TxIInv
<1>2. /\ UNCHANGED <<device_state, tx_waiting_pkt_list, tx_ring_free, tx_id_list, tx_shadows, nbl_ref,
                     ring, awake, pending, bound, chain,
                     pm, accepted, completed, forgotten, late>>
  BY DEF RxTxDpc, TooLate, Enter, Arm, Recheck, Relock, driver, shared, locals, history, bounds
<1>3. \E from, to \in TxPlaces : Goto(d, from, to)
  <2>1. {"idle", "gc", "harvest", "arm", "recheck", "check", "relock"} \subseteq TxPlaces
    BY DEF TxPlaces
  <2> QED BY <2>1 DEF RxTxDpc, TooLate, Enter, Arm, Recheck, Relock
<1>4. pc' \in [Actors -> TxPlaces]
  BY <1>1, <1>3, Going
<1>5. tx_lock' \in Actors \cup {NoOne} /\ armed' \in BOOLEAN /\ dpcqueued' \in BOOLEAN
      /\ dont_set_event' \in [Dpcs -> BOOLEAN] /\ tx_packets' \in [Dpcs -> Nat]
  <2>1. /\ tx_lock \in Actors \cup {NoOne} /\ armed \in BOOLEAN /\ dpcqueued \in BOOLEAN
        /\ dont_set_event \in [Dpcs -> BOOLEAN] /\ tx_packets \in [Dpcs -> Nat]
    BY <1>1 DEF TxTypeOK
  <2>2. CASE RxTxDpc(d)
    BY <2>1, <2>2 DEF RxTxDpc, driver, shared, locals, history, bounds
  <2>3. CASE TooLate(d) \/ Recheck(d)
    BY <2>1, <2>3 DEF TooLate, Recheck, driver, shared, locals
  <2>4. CASE Enter(d)
    BY <1>1, <2>1, <2>4 DEF Enter, shared, locals
  <2>5. CASE Arm(d)
    BY <2>1, <2>5 DEF Arm, driver, locals
  <2>6. CASE Relock(d)
    BY <2>1, <2>6 DEF Relock, shared
  <2> QED BY <2>2, <2>3, <2>4, <2>5, <2>6
<1>6. TxTypeOK'
  BY <1>1, <1>2, <1>4, <1>5 DEF TxTypeOK
<1>7. Lateness'
  BY <1>2, SameLateness
<1> QED BY <1>2, <1>6, <1>7, OthersKeep

LEMMA EventKeeps ==
  ASSUME TxIInv, HandleEvent_DIRQL \/ BackendSleep
  PROVE  TxIInv'
<1>1. /\ UNCHANGED <<device_state, tx_lock, tx_waiting_pkt_list, tx_ring_free, tx_id_list, tx_shadows,
                     nbl_ref, ring, armed, bound, pc, dont_set_event, chain, tx_packets,
                     pm, accepted, completed, forgotten, late>>
      /\ (awake' \in BOOLEAN /\ pending' \in BOOLEAN /\ dpcqueued' \in BOOLEAN)
  BY DEF HandleEvent_DIRQL, BackendSleep, driver, shared, locals, history, TxIInv, TxTypeOK
<1>2. TxTypeOK'
  BY <1>1 DEF TxIInv, TxTypeOK
<1>3. Lateness'
  BY <1>1, SameLateness
<1> QED BY <1>1, <1>2, <1>3, OthersKeep

LEMMA PmKeeps ==
  ASSUME TxIInv, Disconnect \/ BackendClosed \/ UnbindEvent \/ ShutdownWait \/ Resume
                 \/ ConnectFails \/ Activate
  PROVE  TxIInv'
<1>1. UNCHANGED <<tx_lock, tx_waiting_pkt_list, tx_ring_free, tx_id_list, tx_shadows, nbl_ref, ring,
                  armed, awake, pc, dont_set_event, chain, tx_packets, accepted,
                  completed, forgotten, late>>
  BY DEF Disconnect, BackendClosed, UnbindEvent, ShutdownWait, Resume, ConnectFails, Activate,
         driver, shared, locals, history
<1>2. pending' \in BOOLEAN /\ bound' \in BOOLEAN /\ dpcqueued' \in BOOLEAN
  BY DEF Disconnect, BackendClosed, UnbindEvent, ShutdownWait, Resume, ConnectFails, Activate,
         driver, shared, TxIInv, TxTypeOK
<1>3. ToSet(tx_waiting_pkt_list)' = ToSet(tx_waiting_pkt_list)
  BY <1>1
<1>4. Lateness' /\ device_state' \in {"initialising", "active", "disconnecting", "disconnected"}
      /\ pm' \in {"on", "closing", "unbind", "wait", "drain", "off", "connect", "activate", "failed"}
  <2>1. Lateness /\ device_state \in {"initialising", "active", "disconnecting", "disconnected"}
    BY DEF TxIInv, TxTypeOK
  <2>2. CASE Disconnect
    BY <1>1, <1>3, <2>1, <2>2 DEF Disconnect, Lateness
  <2>3. CASE BackendClosed
    BY <1>1, <1>3, <2>1, <2>3 DEF BackendClosed, Lateness
  <2>4. CASE UnbindEvent
    BY <1>1, <1>3, <2>1, <2>4 DEF UnbindEvent, Lateness
  <2>5. CASE ShutdownWait
    BY <1>1, <1>3, <2>1, <2>5 DEF ShutdownWait, Lateness
  <2>6. CASE Resume
    BY <1>1, <1>3, <2>1, <2>6 DEF Resume, Lateness
  <2>7. CASE ConnectFails
    BY <1>1, <1>3, <2>1, <2>7 DEF ConnectFails, Lateness
  <2>8. CASE Activate
    BY <1>1, <1>3, <2>1, <2>8 DEF Activate, Lateness
  <2> QED BY <2>2, <2>3, <2>4, <2>5, <2>6, <2>7, <2>8
<1>5. TxTypeOK'
  BY <1>1, <1>2, <1>4 DEF TxIInv, TxTypeOK
<1> QED BY <1>1, <1>4, <1>5, OthersKeep

\* XenNet_SendQueuedPackets publishes its requests; the backend takes and answers them.
LEMMA PublishKeeps ==
  ASSUME TxIInv, (\E a \in Actors : Push(a)) \/ BackendTake \/ BackendAnswer
  PROVE  TxIInv' /\ DataPackets' = DataPackets
<1>1. /\ UNCHANGED <<device_state, tx_waiting_pkt_list, tx_ring_free, tx_id_list, tx_shadows, nbl_ref,
                     bound, dpcqueued, dont_set_event, chain, tx_packets, pm, accepted, completed,
                     forgotten, late>>
      /\ (tx_lock' \in {tx_lock, NoOne} /\ awake' \in BOOLEAN /\ armed' \in BOOLEAN /\ pending' \in BOOLEAN)
  BY DEF Push, BackendTake, BackendAnswer, driver, shared, locals, history, TxIInv, TxTypeOK
<1>2. pc' \in [Actors -> TxPlaces]
  <2>1. CASE \E a \in Actors : Push(a)
    <3>1. PICK a \in Actors : Push(a)
      BY <2>1
    <3>2. AfterSend(a) \in TxPlaces /\ Goto(a, "push", AfterSend(a))
      BY <3>1 DEF AfterSend, TxPlaces, Push
    <3> QED BY <3>2, Going DEF TxIInv
  <2>2. CASE BackendTake \/ BackendAnswer
    BY <2>2 DEF BackendTake, BackendAnswer, TxIInv, TxTypeOK
  <2> QED BY <2>1, <2>2
<1>3. \E S \in SUBSET ring, stage \in Stages :
        /\ ring' = Move(S, stage)
        /\ \A e \in S : /\ e.stage # "answered"
                        /\ stage = "answered" =>
                             \A f \in ring : f.packet = e.packet /\ f.nth < e.nth => f.stage = "answered"
  <2>1. At("private") \in SUBSET ring /\ At("pushed") \in SUBSET ring /\ At("taken") \in SUBSET ring
        /\ {"pushed", "taken", "answered"} \subseteq Stages
    BY DEF At, Stages
  <2>2. CASE \E a \in Actors : Push(a)
    <3>1. ring' = Move(At("private"), "pushed") /\ \A e \in At("private") : e.stage # "answered"
      BY <2>2 DEF Push, At
    <3> QED BY <2>1, <3>1
  <2>3. CASE BackendTake
    <3>1. ring' = Move(At("pushed"), "taken") /\ \A e \in At("pushed") : e.stage # "answered"
      BY <2>3 DEF BackendTake, At
    <3> QED BY <2>1, <3>1
  <2>4. CASE BackendAnswer
    <3>1. PICK e \in At("taken") :
            /\ \A f \in ring : f.packet = e.packet /\ f.nth < e.nth => f.stage = "answered"
            /\ ring' = Move({e}, "answered")
      BY <2>4 DEF BackendAnswer
    <3>2. {e} \in SUBSET ring /\ e.stage # "answered"
      BY <2>1 DEF At
    <3> QED BY <2>1, <3>1, <3>2
  <2> QED BY <2>2, <2>3, <2>4
<1>4. PICK S \in SUBSET ring, stage \in Stages :
        /\ ring' = Move(S, stage)
        /\ \A e \in S : /\ e.stage # "answered"
                        /\ stage = "answered" =>
                             \A f \in ring : f.packet = e.packet /\ f.nth < e.nth => f.stage = "answered"
  BY <1>3
<1>5. ring' \subseteq Entries /\ IsFiniteSet(ring') /\ Slots' /\ Holders' /\ Places' /\ References'
      /\ DataPackets' = DataPackets
  BY <1>1, <1>4, MoveKeeps
<1>6. TxTypeOK'
  BY <1>1, <1>2, <1>5 DEF TxIInv, TxTypeOK
<1>7. Lateness'
  BY <1>1, SameLateness
<1> QED BY <1>5, <1>6, <1>7 DEF TxIInv

(* XenNet_HWSendPacket *)

LEMMA IdsAddUp ==
  ASSUME TxIInv
  PROVE  /\ Len(tx_id_list) + Cardinality(DataSlots) = RING_SIZE
         /\ IsFiniteSet(DataSlots) /\ Cardinality(DataSlots) \in Nat
         /\ Cardinality(DataSlots) <= Cardinality(ring) /\ Cardinality(ring) \in Nat
<1> DEFINE Taken == {e.id : e \in DataSlots}
<1>1. DataSlots \subseteq ring /\ IsFiniteSet(ring)
  BY DEF DataSlots, TxIInv, TxTypeOK
<1>2. /\ IsFiniteSet(DataSlots) /\ Cardinality(DataSlots) \in Nat
      /\ Cardinality(DataSlots) <= Cardinality(ring) /\ Cardinality(ring) \in Nat
  BY <1>1, FS_Subset, FS_CardinalityType
<1>3. IsFiniteSet(Taken) /\ Cardinality(Taken) = Cardinality(DataSlots)
  <2> DEFINE f == [e \in DataSlots |-> e.id]
  <2>1. f \in [DataSlots -> Taken] /\ \A y \in Taken : \E e \in DataSlots : f[e] = y
    OBVIOUS
  <2>2. \A d, e \in DataSlots : f[d] = f[e] => d = e
    BY DEF TxIInv, Slots
  <2> HIDE DEF f, Taken
  <2> QED BY <1>2, <2>1, <2>2, SameSize
<1>4. tx_id_list \in Seq(Ids) /\ IsInjective(tx_id_list)
  BY DEF TxIInv, TxTypeOK, Slots
<1>5. IsFiniteSet(ToSet(tx_id_list)) /\ Cardinality(ToSet(tx_id_list)) = Len(tx_id_list) /\ Len(tx_id_list) \in Nat
  BY <1>4, Distinct
<1>6. Taken \subseteq Ids
  BY <1>1, Slot DEF DataSlots
<1>7. \A id \in Ids : id \in ToSet(tx_id_list) <=> \A e \in DataSlots : e.id # id
  BY DEF TxIInv, Slots
<1>8. ToSet(tx_id_list) \cup Taken = Ids /\ ToSet(tx_id_list) \cap Taken = {}
  <2>1. ToSet(tx_id_list) \subseteq Ids
    BY <1>4, Elements
  <2> QED BY <1>6, <1>7, <2>1
<1> HIDE DEF Taken
<1>9. Cardinality(Ids) = Len(tx_id_list) + Cardinality(DataSlots) - 0
  BY <1>3, <1>5, <1>8, FS_Union, FS_EmptySet
<1> QED BY <1>2, <1>5, <1>9, Sizes

\* The ids that k slots take are the last ones of the list.
LEMMA IdsTaken ==
  ASSUME TxIInv, NEW k \in 1 .. Len(tx_id_list)
  PROVE  /\ \A i \in 1 .. k : GetIds(k)[i] \in Ids /\ GetIds(k)[i] \in ToSet(tx_id_list)
         /\ \A i, j \in 1 .. k : GetIds(k)[i] = GetIds(k)[j] => i = j
         /\ SubSeq(tx_id_list, 1, Len(tx_id_list) - k) \in Seq(Ids)
         /\ IsInjective(SubSeq(tx_id_list, 1, Len(tx_id_list) - k))
         /\ \A id \in Ids : id \in ToSet(SubSeq(tx_id_list, 1, Len(tx_id_list) - k)) <=>
                              id \in ToSet(tx_id_list) /\ \A i \in 1 .. k : GetIds(k)[i] # id
         /\ ToSet(GetIds(k)) = {GetIds(k)[i] : i \in 1 .. k}
<1> DEFINE s == tx_id_list
           n == Len(tx_id_list)
           t == SubSeq(tx_id_list, 1, Len(tx_id_list) - k)
<1>1. s \in Seq(Ids) /\ IsInjective(s)
  BY DEF TxIInv, TxTypeOK, Slots
<1>2. n \in Nat /\ k \in Nat /\ k <= n /\ n - k \in 0 .. n /\ DOMAIN s = 1 .. n
  BY <1>1
<1>3. \A i \in 1 .. k : GetIds(k)[i] = s[n + 1 - i] /\ n + 1 - i \in 1 .. n /\ n + 1 - i > n - k
  BY <1>2 DEF GetIds
<1>4. \A i, j \in 1 .. n : s[i] = s[j] => i = j
  BY <1>1, <1>2 DEF IsInjective
<1>5. /\ t \in Seq(Ids) /\ IsInjective(t) /\ ToSet(t) \subseteq ToSet(s)
      /\ \A i \in 1 .. n : s[i] \in ToSet(t) <=> i <= n - k
  BY <1>1, <1>2, Cut
<1>6. \A x : x \in ToSet(s) <=> \E i \in 1 .. n : s[i] = x
  BY <1>1, Elements
<1>7. \A i \in 1 .. n : i > n - k => n + 1 - i \in 1 .. k /\ n + 1 - (n + 1 - i) = i
  BY <1>2
<1>8. ToSet(GetIds(k)) = {GetIds(k)[i] : i \in 1 .. k}
  BY DEF GetIds, ToSet
<1> HIDE DEF s, t, n
<1>9. \A i \in 1 .. k : GetIds(k)[i] \in Ids /\ GetIds(k)[i] \in ToSet(s)
  <2>1. \A i \in 1 .. n : s[i] \in Ids
    BY <1>1 DEF n, s
  <2> QED BY <1>3, <1>6, <2>1
<1>10. ASSUME NEW i \in 1 .. k, NEW j \in 1 .. k, GetIds(k)[i] = GetIds(k)[j] PROVE i = j
  <2>1. n + 1 - i = n + 1 - j
    BY <1>3, <1>4, <1>10
  <2> QED BY <1>2, <2>1
<1>11. ASSUME NEW id \in Ids
       PROVE  id \in ToSet(t) <=> id \in ToSet(s) /\ \A i \in 1 .. k : GetIds(k)[i] # id
  <2>1. ASSUME id \in ToSet(t) PROVE id \in ToSet(s) /\ \A i \in 1 .. k : GetIds(k)[i] # id
    <3>1. id \in ToSet(s)
      BY <1>5, <2>1
    <3>2. ASSUME NEW i \in 1 .. k, GetIds(k)[i] = id PROVE FALSE
      <4>1. n + 1 - i <= n - k
        BY <1>3, <1>5, <2>1, <3>2
      <4> QED BY <1>2, <1>3, <4>1
    <3> QED BY <3>1, <3>2
  <2>2. ASSUME id \in ToSet(s), \A i \in 1 .. k : GetIds(k)[i] # id PROVE id \in ToSet(t)
    <3>1. PICK i \in 1 .. n : s[i] = id
      BY <1>6, <2>2
    <3>2. CASE i > n - k
      BY <1>3, <1>7, <2>2, <3>1, <3>2
    <3>3. CASE ~(i > n - k)
      <4>1. i <= n - k
        BY <1>2, <3>3
      <4> QED BY <1>5, <3>1, <4>1
    <3> QED BY <3>2, <3>3
  <2> QED BY <2>1, <2>2
<1> QED BY <1>5, <1>8, <1>9, <1>10, <1>11 DEF s, t, n

LEMMA RequestFacts ==
  ASSUME TxIInv, NEW k \in 1 .. Len(tx_id_list), k <= RING_SIZE, NEW p \in Packets
  PROVE  /\ Requests(p, k) \subseteq Entries /\ IsFiniteSet(Requests(p, k))
         /\ Cardinality(Requests(p, k)) \in Nat /\ Cardinality(Requests(p, k)) <= k + 1
         /\ \A e \in Requests(p, k) : e.packet = p /\ e.stage = "private"
         /\ \A e, f \in Requests(p, k) : e.nth = f.nth => e = f
         /\ \A e \in Requests(p, k) : e.id # NoId => \E i \in 1 .. k : e.id = GetIds(k)[i] /\ e.nth = 2 * i
         /\ \A i \in 1 .. k : /\ Private(p, GetIds(k)[i], 2 * i) \in Requests(p, k)
                              /\ Private(p, GetIds(k)[i], 2 * i).id = GetIds(k)[i]
                              /\ Private(p, GetIds(k)[i], 2 * i).nth = 2 * i
         /\ \A i \in 1 .. k : GetIds(k)[i] # NoId
<1> DEFINE D == {Private(p, GetIds(k)[i], 2 * i) : i \in 1 .. k}
           X == {Private(p, NoId, 3) : q \in Gso \cap {p}}
<1>1. Requests(p, k) = D \cup X
  BY DEF Requests
<1>2. /\ RING_SIZE \in Nat /\ k \in Nat /\ RING_SIZE >= 1
      /\ \A i \in 1 .. k : 2 * i \in 1 .. 2 * RING_SIZE + 1 /\ 2 * i # 3
      /\ 3 \in 1 .. 2 * RING_SIZE + 1
  BY Sizes
<1>3. \A i \in 1 .. k : GetIds(k)[i] \in Ids
  BY IdsTaken
<1>4. NoId \notin Ids
  BY NetTxAssumption
<1>5. \A i \in 1 .. k : GetIds(k)[i] # NoId
  BY <1>3, <1>4
<1>6. \A e \in D : \E i \in 1 .. k : e = Private(p, GetIds(k)[i], 2 * i)
  OBVIOUS
<1>7. \A e \in X : e = Private(p, NoId, 3)
  OBVIOUS
<1>8. \A i \in 1 .. k : LET e == Private(p, GetIds(k)[i], 2 * i) IN
        /\ e \in D /\ e.id = GetIds(k)[i] /\ e.nth = 2 * i /\ e.packet = p /\ e.stage = "private"
        /\ e \in Entries
  BY <1>2, <1>3 DEF Private, Entries
<1>9. LET e == Private(p, NoId, 3) IN
        e.id = NoId /\ e.nth = 3 /\ e.packet = p /\ e.stage = "private" /\ e \in Entries
  BY <1>2 DEF Private, Entries
<1>10. IsFiniteSet(D) /\ Cardinality(D) = k
  <2> DEFINE f == [i \in 1 .. k |-> Private(p, GetIds(k)[i], 2 * i)]
  <2>1. f \in [1 .. k -> D] /\ \A y \in D : \E i \in 1 .. k : f[i] = y
    OBVIOUS
  <2>2. \A i, j \in 1 .. k : f[i] = f[j] => i = j
    <3>1. \A i, j \in 1 .. k : f[i] = f[j] => 2 * i = 2 * j
      BY <1>8
    <3>2. \A i, j \in 1 .. k : 2 * i = 2 * j => i = j
      BY <1>2
    <3> QED BY <3>1, <3>2
  <2>3. IsFiniteSet(1 .. k) /\ Cardinality(1 .. k) = k
    <3>1. 1 \in Int /\ k \in Int /\ (IF 1 > k THEN 0 ELSE k - 1 + 1) = k
      BY <1>2
    <3> QED BY <3>1, FS_Interval
  <2> HIDE DEF f, D
  <2>4. IsFiniteSet(D) /\ Cardinality(D) = Cardinality(1 .. k)
    BY <2>1, <2>2, <2>3, SameSize
  <2> QED BY <2>3, <2>4
<1>11. IsFiniteSet(X) /\ Cardinality(X) \in Nat /\ Cardinality(X) <= 1
  <2>1. CASE p \in Gso
    <3>1. X = {Private(p, NoId, 3)}
      BY <2>1
    <3>2. \A x : IsFiniteSet({x}) /\ Cardinality({x}) = 1
      BY FS_Singleton
    <3>3. IsFiniteSet(X) /\ Cardinality(X) = 1
      BY <3>1, <3>2
    <3> QED BY <3>3
  <2>2. CASE p \notin Gso
    <3>1. X = {}
      BY <2>2
    <3>2. IsFiniteSet(X) /\ Cardinality(X) = 0
      BY <3>1, FS_EmptySet
    <3> QED BY <3>2
  <2> QED BY <2>1, <2>2
<1> HIDE DEF D, X
<1>12. IsFiniteSet(D \cup X) /\ Cardinality(D \cup X) \in Nat /\ Cardinality(D \cup X) <= k + 1
  <2>1. IsFiniteSet(D \cup X) /\ Cardinality(D \cup X) = Cardinality(D) + Cardinality(X) - Cardinality(D \cap X)
    BY <1>10, <1>11, FS_Union
  <2>2. IsFiniteSet(D \cap X) /\ Cardinality(D \cap X) \in Nat
    BY <1>10, FS_Intersection, FS_CardinalityType
  <2>3. Cardinality(D \cup X) \in Nat
    BY <2>1, FS_CardinalityType
  <2> QED BY <1>2, <1>10, <1>11, <2>1, <2>2, <2>3
<1>13. \A e \in D \cup X : e.packet = p /\ e.stage = "private" /\ e \in Entries
  BY <1>6, <1>7, <1>8, <1>9
<1>14. ASSUME NEW e \in D \cup X, NEW f \in D \cup X, e.nth = f.nth PROVE e = f
  <2>1. CASE e \in D /\ f \in D
    <3>1. PICK i \in 1 .. k : e = Private(p, GetIds(k)[i], 2 * i)
      BY <1>6, <2>1
    <3>2. PICK j \in 1 .. k : f = Private(p, GetIds(k)[j], 2 * j)
      BY <1>6, <2>1
    <3>3. 2 * i = 2 * j
      BY <1>8, <1>14, <3>1, <3>2
    <3>4. i = j
      BY <1>2, <3>3
    <3> QED BY <3>1, <3>2, <3>4
  <2>2. CASE e \in X /\ f \in X
    BY <1>7, <2>2
  <2>3. \A g \in D : g.nth # 3
    BY <1>2, <1>6, <1>8
  <2>4. \A g \in X : g.nth = 3
    BY <1>7, <1>9
  <2> QED BY <1>14, <2>1, <2>2, <2>3, <2>4
<1>15. \A e \in D \cup X : e.id # NoId => \E i \in 1 .. k : e.id = GetIds(k)[i] /\ e.nth = 2 * i
  BY <1>6, <1>7, <1>8, <1>9
<1> QED BY <1>1, <1>5, <1>8, <1>12, <1>13, <1>14, <1>15

LEMMA HWSendPacketKeeps ==
  ASSUME TxIInv, NEW a \in Actors, NEW k \in 1 .. RING_SIZE, HWSendPacket(a, k)
  PROVE  /\ TxIInv'
         /\ ToSet(tx_waiting_pkt_list)' = ToSet(tx_waiting_pkt_list) \ {Head(tx_waiting_pkt_list)}
         /\ Head(tx_waiting_pkt_list) \in ToSet(tx_waiting_pkt_list)
         /\ DataPackets' = DataPackets \cup {Head(tx_waiting_pkt_list)}
         /\ \A id \in ToSet(tx_id_list') : id \in ToSet(tx_id_list) /\ tx_shadows'[id] = tx_shadows[id]
<1> DEFINE p == Head(tx_waiting_pkt_list)
           R == Requests(p, k)
           list == SubSeq(tx_id_list, 1, Len(tx_id_list) - k)
           last == Private(p, GetIds(k)[k], 2 * k)
<1>1. tx_waiting_pkt_list # <<>> /\ tx_waiting_pkt_list \in Seq(Packets) /\ IsInjective(tx_waiting_pkt_list)
  BY DEF HWSendPacket, TxIInv, TxTypeOK, Places
<1>2. /\ p \in Packets /\ p \in ToSet(tx_waiting_pkt_list)
      /\ Tail(tx_waiting_pkt_list) \in Seq(Packets) /\ IsInjective(Tail(tx_waiting_pkt_list))
      /\ ToSet(Tail(tx_waiting_pkt_list)) = ToSet(tx_waiting_pkt_list) \ {p}
  BY <1>1, Rests
<1>3. /\ tx_ring_free >= Frags[p] + 1 /\ (k = Frags[p] \/ k < Frags[p])
      /\ ring' = ring \cup R
      /\ tx_ring_free' = tx_ring_free - Cardinality(R)
      /\ tx_id_list' = list /\ tx_shadows' = Hold(p, k)
      /\ tx_waiting_pkt_list' = Tail(tx_waiting_pkt_list)
      /\ UNCHANGED <<device_state, tx_lock, nbl_ref, armed, awake, pending, bound, dpcqueued,
                     pc, dont_set_event, chain, tx_packets, pm, accepted, completed, forgotten, late>>
  BY DEF HWSendPacket, locals
<1>4. k \in 1 .. Len(tx_id_list) /\ k + 1 <= tx_ring_free /\ k <= RING_SIZE /\ tx_ring_free \in Nat
  <2>1. Frags[p] \in Nat /\ RING_SIZE \in Nat
    BY <1>2, NetTxAssumption
  <2>2. tx_ring_free \in Nat /\ tx_ring_free + Cardinality(ring) = RING_SIZE
    BY DEF TxIInv, TxTypeOK, Slots
  <2>3. Len(tx_id_list) \in Nat
    BY DEF TxIInv, TxTypeOK
  <2> QED BY <1>3, <2>1, <2>2, <2>3, IdsAddUp
<1>5. /\ R \subseteq Entries /\ IsFiniteSet(R) /\ Cardinality(R) \in Nat /\ Cardinality(R) <= k + 1
      /\ \A e \in R : e.packet = p /\ e.stage = "private"
      /\ \A e, f \in R : e.nth = f.nth => e = f
      /\ \A e \in R : e.id # NoId => \E i \in 1 .. k : e.id = GetIds(k)[i] /\ e.nth = 2 * i
      /\ \A i \in 1 .. k : /\ Private(p, GetIds(k)[i], 2 * i) \in R
                           /\ Private(p, GetIds(k)[i], 2 * i).id = GetIds(k)[i]
                           /\ Private(p, GetIds(k)[i], 2 * i).nth = 2 * i
      /\ \A i \in 1 .. k : GetIds(k)[i] # NoId
  BY <1>2, <1>4, RequestFacts
<1>6. /\ \A i \in 1 .. k : GetIds(k)[i] \in Ids /\ GetIds(k)[i] \in ToSet(tx_id_list)
      /\ \A i, j \in 1 .. k : GetIds(k)[i] = GetIds(k)[j] => i = j
      /\ list \in Seq(Ids) /\ IsInjective(list)
      /\ \A id \in Ids : id \in ToSet(list) <=> id \in ToSet(tx_id_list) /\ \A i \in 1 .. k : GetIds(k)[i] # id
      /\ ToSet(GetIds(k)) = {GetIds(k)[i] : i \in 1 .. k}
  BY <1>4, IdsTaken
<1>7. \A e \in ring : e.packet # p
  BY <1>2 DEF TxIInv, Places
<1>8. last \in R /\ last.id = GetIds(k)[k] /\ last.nth = 2 * k /\ k \in 1 .. k
  BY <1>4, <1>5
<1>9. ring \subseteq Entries /\ IsFiniteSet(ring) /\ TxTypeOK
  BY DEF TxIInv, TxTypeOK
<1>10. \A id \in Ids : tx_shadows'[id] =
         IF \E i \in 1 .. k : GetIds(k)[i] = id
         THEN [packet |-> IF id = GetIds(k)[k] THEN p ELSE NoPacket, gref |-> TRUE] ELSE tx_shadows[id]
  BY <1>3, <1>6 DEF Hold
<1>26. \A i \in 1 .. k : tx_shadows'[GetIds(k)[i]].packet = IF i = k THEN p ELSE NoPacket
  <2>1. ASSUME NEW i \in 1 .. k PROVE tx_shadows'[GetIds(k)[i]].packet = IF i = k THEN p ELSE NoPacket
    <3>1. GetIds(k)[i] = GetIds(k)[k] <=> i = k
      BY <1>6, <1>8
    <3>2. tx_shadows'[GetIds(k)[i]] = [packet |-> IF GetIds(k)[i] = GetIds(k)[k] THEN p ELSE NoPacket, gref |-> TRUE]
      BY <1>6, <1>10
    <3> QED BY <3>1, <3>2
  <2> QED BY <2>1
<1>11. tx_shadows' \in [Ids -> Shadows]
  BY <1>2, <1>3, <1>9 DEF Hold, TxTypeOK, Shadows
<1> HIDE DEF p, R, list, last
<1>12. DataSlots \subseteq ring /\ \A e \in DataSlots : e.id \in Ids /\ e.packet # p /\ e.id # NoId
  BY <1>7, Slot DEF DataSlots
<1>13. DataSlots' = DataSlots \cup {e \in R : e.id # NoId}
  BY <1>3 DEF DataSlots
<1>14. \A e \in DataSlots : e.id \notin ToSet(tx_id_list)
  BY <1>12 DEF TxIInv, Slots
<1>15. \A e \in DataSlots : tx_shadows'[e.id] = tx_shadows[e.id]
  BY <1>6, <1>10, <1>12, <1>14
<1>16. /\ last \in DataSlots' /\ last.packet = p /\ tx_shadows'[last.id].packet = p
       /\ p # NoPacket
  <2>1. p # NoPacket
    BY <1>2, NetTxAssumption
  <2> QED BY <1>5, <1>8, <1>26, <1>13, <2>1
<1>17. IsFiniteSet(ring') /\ ring' \subseteq Entries /\ tx_ring_free' + Cardinality(ring') = RING_SIZE
       /\ tx_ring_free' \in Nat
  <2>1. ring \cap R = {}
    BY <1>5, <1>7
  <2>2. IsFiniteSet(ring \cup R) /\ Cardinality(ring \cup R) = Cardinality(ring) + Cardinality(R) - 0
    BY <1>5, <1>9, <2>1, FS_Union, FS_EmptySet
  <2>3. tx_ring_free + Cardinality(ring) = RING_SIZE
    BY DEF TxIInv, Slots
  <2>4. Cardinality(ring) \in Nat /\ RING_SIZE \in Nat
    BY IdsAddUp, Sizes
  <2>5. ring' \subseteq Entries /\ IsFiniteSet(ring')
    BY <1>3, <1>5, <1>9, <2>2
  <2>6. tx_ring_free' \in Nat
    BY <1>3, <1>4, <1>5
  <2>7. tx_ring_free' + Cardinality(ring') = RING_SIZE
    <3>1. Cardinality(ring') = Cardinality(ring) + Cardinality(R)
      BY <1>3, <1>5, <2>2, <2>4
    <3> QED BY <1>3, <1>4, <1>5, <2>3, <2>4, <3>1
  <2> QED BY <2>5, <2>6, <2>7
<1>18. Slots'
  <2>1. ASSUME NEW id \in Ids
        PROVE  id \in ToSet(tx_id_list') <=> \A e \in DataSlots' : e.id # id
    <3>1. id \in ToSet(tx_id_list) <=> \A e \in DataSlots : e.id # id
      BY DEF TxIInv, Slots
    <3>2. (\E i \in 1 .. k : GetIds(k)[i] = id) <=> \E e \in R : e.id # NoId /\ e.id = id
      BY <1>5
    <3>3. id \in ToSet(tx_id_list') <=> id \in ToSet(tx_id_list) /\ \A i \in 1 .. k : GetIds(k)[i] # id
      BY <1>3, <1>6
    <3> QED BY <1>13, <3>1, <3>2, <3>3
  <2>2. ASSUME NEW e \in DataSlots', NEW f \in DataSlots', e.id = f.id PROVE e = f
    <3>1. CASE e \in DataSlots /\ f \in DataSlots
      BY <2>2, <3>1 DEF TxIInv, Slots
    <3>2. \A g \in R : g.id # NoId => g.id \in ToSet(tx_id_list)
      BY <1>5, <1>6
    <3>3. CASE e \in R /\ f \in R /\ e.id # NoId
      <4>1. PICK i \in 1 .. k : e.id = GetIds(k)[i] /\ e.nth = 2 * i
        BY <1>5, <3>3
      <4>2. PICK j \in 1 .. k : f.id = GetIds(k)[j] /\ f.nth = 2 * j
        BY <1>5, <2>2, <3>3
      <4>3. i = j
        BY <1>6, <2>2, <4>1, <4>2
      <4> QED BY <1>5, <3>3, <4>1, <4>2, <4>3
    <3> QED BY <1>13, <1>14, <2>2, <3>1, <3>2, <3>3
  <2>3. ASSUME NEW e \in ring', NEW f \in ring', e.packet = f.packet, e.nth = f.nth PROVE e = f
    <3>1. CASE e \in ring /\ f \in ring
      BY <2>3, <3>1 DEF TxIInv, Slots
    <3>2. CASE e \in R /\ f \in R
      BY <1>5, <2>3, <3>2
    <3> QED BY <1>3, <1>5, <1>7, <2>3, <3>1, <3>2
  <2>4. ToSet(tx_id_list)' = ToSet(tx_id_list')
    OBVIOUS
  <2>5. IsInjective(tx_id_list')
    BY <1>3, <1>6
  <2> QED BY <1>17, <2>1, <2>2, <2>3, <2>4, <2>5 DEF Slots
<1>19. Holders'
  <2>1. ASSUME NEW e \in ring', NEW f \in ring', e.packet = f.packet, e.nth < f.nth, f.stage = "answered"
        PROVE  e.stage = "answered"
    <3>1. f \in ring
      BY <1>3, <1>5, <2>1
    <3>2. e \in ring
      BY <1>3, <1>5, <1>7, <2>1, <3>1
    <3> QED BY <2>1, <3>1, <3>2 DEF TxIInv, Holders
  <2>2. ASSUME NEW e \in DataSlots'
        PROVE  /\ tx_shadows'[e.id].packet \in {NoPacket, e.packet}
               /\ \E f \in DataSlots' : f.packet = e.packet /\ tx_shadows'[f.id].packet = f.packet
               /\ \A f \in DataSlots' :
                    e.packet = f.packet /\ tx_shadows'[f.id].packet # NoPacket => e.nth <= f.nth
    <3>1. CASE e \in DataSlots
      <4>1. tx_shadows'[e.id].packet \in {NoPacket, e.packet}
        BY <1>15, <3>1 DEF TxIInv, Holders
      <4>2. PICK f \in DataSlots : f.packet = e.packet /\ tx_shadows[f.id].packet = f.packet
        BY <3>1 DEF TxIInv, Holders
      <4>3. f \in DataSlots' /\ tx_shadows'[f.id].packet = f.packet
        BY <1>13, <1>15, <4>2
      <4>4. ASSUME NEW g \in DataSlots', e.packet = g.packet, tx_shadows'[g.id].packet # NoPacket
            PROVE  e.nth <= g.nth
        <5>1. g \in DataSlots
          BY <1>5, <1>12, <1>13, <3>1, <4>4
        <5>2. tx_shadows[g.id].packet # NoPacket
          BY <1>15, <4>4, <5>1
        <5> QED BY <3>1, <4>4, <5>1, <5>2 DEF TxIInv, Holders
      <4> QED BY <4>1, <4>2, <4>3, <4>4
    <3>2. CASE e \in R /\ e.id # NoId
      <4>1. PICK i \in 1 .. k : e.id = GetIds(k)[i] /\ e.nth = 2 * i
        BY <1>5, <3>2
      <4>2. e.packet = p /\ tx_shadows'[e.id].packet \in {NoPacket, p}
        BY <1>5, <1>26, <3>2, <4>1
      <4>3. ASSUME NEW g \in DataSlots', e.packet = g.packet, tx_shadows'[g.id].packet # NoPacket
            PROVE  e.nth <= g.nth
        <5>1. g \in R /\ g.id # NoId
          BY <1>12, <1>13, <4>2, <4>3
        <5>2. PICK j \in 1 .. k : g.id = GetIds(k)[j] /\ g.nth = 2 * j
          BY <1>5, <5>1
        <5>4. j = k
          BY <1>26, <4>3, <5>2
        <5>5. k \in Nat /\ i <= k /\ i \in Nat
          BY <1>4
        <5> QED BY <4>1, <5>2, <5>4, <5>5
      <4> QED BY <1>16, <4>2, <4>3
    <3> QED BY <1>13, <3>1, <3>2
  <2> QED BY <2>1, <2>2 DEF Holders
<1>20. ToSet(tx_waiting_pkt_list)' = ToSet(tx_waiting_pkt_list) \ {p}
  BY <1>2, <1>3
<1>21. Places'
  <2>1. IsInjective(tx_waiting_pkt_list)'
    BY <1>2, <1>3
  <2>2. NB_NBL(p) \in accepted /\ \A q \in ToSet(tx_waiting_pkt_list) : NB_NBL(q) \in accepted
    BY <1>2 DEF TxIInv, Places
  <2>3. \A e \in ring : e.packet \notin ToSet(tx_waiting_pkt_list) /\ NB_NBL(e.packet) \in accepted
    BY DEF TxIInv, Places
  <2> QED BY <1>3, <1>5, <1>20, <2>1, <2>2, <2>3 DEF Places
<1>22. DataPackets' = DataPackets \cup {p}
  <2>1. \A q : q \in DataPackets' <=> \E e \in DataSlots' : e.packet = q
    BY DEF DataPackets
  <2>2. \A q : q \in DataPackets <=> \E e \in DataSlots : e.packet = q
    BY DEF DataPackets
  <2> QED BY <1>5, <1>13, <1>16, <2>1, <2>2
<1>23. References'
  <2>1. \A n \in Nbls : Held(n)' = Held(n)
    BY <1>2, <1>20, <1>22 DEF Held
  <2> QED BY <1>3, <2>1 DEF TxIInv, References
<1>24. Lateness'
  BY <1>3, <1>20 DEF TxIInv, Lateness
<1>25. TxTypeOK'
  BY <1>2, <1>3, <1>6, <1>9, <1>11, <1>17 DEF TxTypeOK
<1>27. ASSUME NEW id \in ToSet(tx_id_list')
       PROVE  id \in ToSet(tx_id_list) /\ tx_shadows'[id] = tx_shadows[id]
  <2>1. id \in Ids
    BY <1>3, <1>6, Elements
  <2> QED BY <1>3, <1>6, <1>10, <2>1
<1> QED BY <1>2, <1>18, <1>19, <1>20, <1>21, <1>22, <1>23, <1>24, <1>25, <1>27 DEF TxIInv, p

(* Lists that are sent, given back, or dropped *)

LEMMA ListFacts ==
  ASSUME NEW n \in Nbls
  PROVE  /\ NetBuffers[n] \in Seq(Packets) /\ NetBuffers[n] # <<>> /\ IsInjective(NetBuffers[n])
         /\ ToSet(NetBuffers[n]) \subseteq Packets
         /\ IsFiniteSet(ToSet(NetBuffers[n])) /\ Cardinality(ToSet(NetBuffers[n])) = Len(NetBuffers[n])
         /\ Len(NetBuffers[n]) \in Nat /\ Len(NetBuffers[n]) <= Cardinality(Packets)
         /\ \A p \in ToSet(NetBuffers[n]) : NB_NBL(p) = n
<1>1. NetBuffers[n] \in Seq(Packets) /\ NetBuffers[n] # <<>> /\ IsInjective(NetBuffers[n])
  BY NetTxAssumption
<1>2. ToSet(NetBuffers[n]) \subseteq Packets
  BY <1>1, Elements
<1>3. IsFiniteSet(ToSet(NetBuffers[n])) /\ Cardinality(ToSet(NetBuffers[n])) = Len(NetBuffers[n])
  BY <1>1, Distinct
<1>4. Len(NetBuffers[n]) <= Cardinality(Packets) /\ Len(NetBuffers[n]) \in Nat
  BY <1>1, <1>2, <1>3, Sizes, FS_Subset
<1>5. \A p \in ToSet(NetBuffers[n]) : NB_NBL(p) = n
  BY <1>2, Owner
<1> QED BY <1>1, <1>2, <1>3, <1>4, <1>5

LEMMA HeldFacts ==
  ASSUME TxIInv, NEW n \in Nbls
  PROVE  /\ IsFiniteSet(Held(n)) /\ Cardinality(Held(n)) \in Nat /\ nbl_ref[n] \in Int
         /\ Cardinality(Held(n)) <= nbl_ref[n] /\ nbl_ref[n] <= Cardinality(Packets)
         /\ \A p \in Held(n) : NB_NBL(p) = n
<1>1. Held(n) \subseteq ToSet(NetBuffers[n])
  BY DEF Held
<1>2. IsFiniteSet(Held(n)) /\ Cardinality(Held(n)) \in Nat
  BY <1>1, ListFacts, FS_Subset, FS_CardinalityType
<1> QED BY <1>1, <1>2, ListFacts DEF TxIInv, TxTypeOK, References

LEMMA SendNetBufferListsKeeps ==
  ASSUME TxIInv, NEW s \in Senders, NEW n \in Nbls, SendNetBufferLists(s, n)
  PROVE  TxIInv'
<1>1. /\ n \notin accepted /\ tx_lock' = s /\ Goto(s, "idle", "check")
      /\ tx_waiting_pkt_list' = tx_waiting_pkt_list \o NetBuffers[n]
      /\ nbl_ref' = [nbl_ref EXCEPT ![n] = Len(NetBuffers[n])]
      /\ accepted' = accepted \cup {n}
      /\ late' = (IF device_state = "active" THEN late ELSE late \cup ToSet(NetBuffers[n]))
      /\ UNCHANGED <<device_state, tx_ring_free, tx_id_list, tx_shadows, ring, armed, awake,
                     pending, bound, dpcqueued, dont_set_event, chain, tx_packets, pm, completed, forgotten>>
  BY DEF SendNetBufferLists, shared, locals
<1>2. TxTypeOK /\ s \in Actors /\ "check" \in TxPlaces
  BY ActorsAre DEF TxIInv, TxPlaces
<1>3. pc' \in [Actors -> TxPlaces]
  BY <1>1, <1>2, Going
<1>4. tx_waiting_pkt_list \in Seq(Packets) /\ IsInjective(tx_waiting_pkt_list)
  BY DEF TxIInv, TxTypeOK, Places
<1>5. \A p \in ToSet(tx_waiting_pkt_list) \cup DataPackets : p \in Packets /\ NB_NBL(p) # n
  <2>1. \A p \in ToSet(tx_waiting_pkt_list) : p \in Packets /\ NB_NBL(p) # n
    BY <1>1, <1>4, Elements DEF TxIInv, Places
  <2>2. \A e \in ring : e.packet \in Packets /\ NB_NBL(e.packet) # n
    BY <1>1, Slot DEF TxIInv, Places
  <2> QED BY <2>1, <2>2 DEF DataPackets, DataSlots
<1>6. \A p \in ToSet(NetBuffers[n]) : NB_NBL(p) = n
  BY ListFacts
<1>7. ToSet(tx_waiting_pkt_list) \cap ToSet(NetBuffers[n]) = {}
  BY <1>5, <1>6
<1>8. /\ tx_waiting_pkt_list' \in Seq(Packets) /\ IsInjective(tx_waiting_pkt_list')
      /\ ToSet(tx_waiting_pkt_list') = ToSet(tx_waiting_pkt_list) \cup ToSet(NetBuffers[n])
  BY <1>1, <1>4, <1>7, ListFacts, Joined
<1>9. ToSet(tx_waiting_pkt_list)' = ToSet(tx_waiting_pkt_list') /\ DataSlots' = DataSlots
      /\ DataPackets' = DataPackets /\ ToSet(tx_id_list)' = ToSet(tx_id_list)
  BY <1>1 DEF DataSlots, DataPackets
<1>10. Slots'
  BY <1>1, <1>9 DEF TxIInv, Slots
<1>11. Holders'
  BY <1>1, <1>9 DEF TxIInv, Holders
<1>12. Places'
  <2>1. \A e \in ring : e.packet \notin ToSet(NetBuffers[n])
    <3>1. \A e \in ring : NB_NBL(e.packet) # n
      BY <1>1 DEF TxIInv, Places
    <3> QED BY <1>6, <3>1
  <2>2. IsInjective(tx_waiting_pkt_list)'
    BY <1>8
  <2> QED BY <1>1, <1>6, <1>8, <1>9, <2>1, <2>2 DEF TxIInv, Places
<1>13. References'
  <2>1. ASSUME NEW m \in Nbls, m # n PROVE Held(m)' = Held(m) /\ nbl_ref'[m] = nbl_ref[m]
    <3>1. \A p \in ToSet(NetBuffers[m]) : NB_NBL(p) = m
      BY ListFacts
    <3>2. ToSet(NetBuffers[m]) \cap ToSet(NetBuffers[n]) = {}
      BY <1>6, <2>1, <3>1
    <3> QED BY <1>1, <1>2, <1>8, <1>9, <2>1, <3>2 DEF Held, TxTypeOK
  <2>2. nbl_ref'[n] = Len(NetBuffers[n])
    BY <1>1, <1>2 DEF TxTypeOK
  <2>3. Cardinality(Held(n)') <= Len(NetBuffers[n])
    <3>1. Held(n)' \subseteq ToSet(NetBuffers[n])
      BY DEF Held
    <3> QED BY <3>1, ListFacts, FS_Subset
  <2>4. completed[n] = 0 /\ \A d \in Dpcs : n \notin chain[d]
    BY <1>1 DEF TxIInv, References
  <2>5. Len(NetBuffers[n]) <= Cardinality(Packets)
    BY ListFacts
  <2>6. ASSUME NEW m \in Nbls
        PROVE  /\ Cardinality(Held(m)') <= nbl_ref'[m] /\ nbl_ref'[m] <= Cardinality(Packets)
               /\ m \notin accepted' => nbl_ref'[m] = 0
               /\ completed'[m] \in {0, 1}
               /\ completed'[m] = 1 => m \in accepted' /\ nbl_ref'[m] = 0
               /\ \A d \in Dpcs : m \in chain'[d] =>
                    /\ m \in accepted' /\ nbl_ref'[m] = 0 /\ completed'[m] = 0
                    /\ \A c \in Dpcs : m \in chain'[c] => c = d
    <3>1. CASE m = n
      BY <1>1, <2>2, <2>3, <2>4, <2>5, <3>1
    <3>2. CASE m # n
      BY <1>1, <2>1, <3>2 DEF TxIInv, References
    <3> QED BY <3>1, <3>2
  <2> QED BY <2>6 DEF References
<1>14. Lateness'
  BY <1>1, <1>8, <1>9 DEF TxIInv, Lateness
<1>15. TxTypeOK'
  <2>1. nbl_ref' \in [Nbls -> Int] /\ accepted' \subseteq Nbls
    BY <1>1, <1>2, ListFacts DEF TxTypeOK
  <2> QED BY <1>1, <1>2, <1>3, <1>8, <2>1 DEF TxTypeOK
<1> QED BY <1>10, <1>11, <1>12, <1>13, <1>14, <1>15 DEF TxIInv

\* Steps that change neither the ring nor the ids.
LEMMA SameRing ==
  ASSUME TxIInv, UNCHANGED <<tx_ring_free, tx_id_list, tx_shadows, ring>>
  PROVE  Slots' /\ Holders' /\ DataSlots' = DataSlots /\ DataPackets' = DataPackets
<1>1. DataSlots' = DataSlots /\ DataPackets' = DataPackets /\ ToSet(tx_id_list)' = ToSet(tx_id_list)
  BY DEF DataSlots, DataPackets
<1>2. Slots'
  BY <1>1 DEF TxIInv, Slots
<1>3. Holders'
  BY <1>1 DEF TxIInv, Holders
<1> QED BY <1>1, <1>2, <1>3

LEMMA CompleteKeeps ==
  ASSUME TxIInv, NEW d \in Dpcs, Complete(d)
  PROVE  TxIInv'
<1>1. /\ Goto(d, "complete", "relock")
      /\ completed' = [n \in Nbls |-> completed[n] + (IF n \in chain[d] THEN 1 ELSE 0)]
      /\ chain' = [chain EXCEPT ![d] = {}]
      /\ UNCHANGED <<device_state, tx_lock, tx_waiting_pkt_list, tx_ring_free, tx_id_list, tx_shadows,
                     nbl_ref, ring, armed, awake, pending, bound, dpcqueued, dont_set_event, tx_packets,
                     pm, accepted, forgotten, late>>
  BY DEF Complete, driver, shared
<1>2. TxTypeOK /\ d \in Actors /\ "relock" \in TxPlaces
  BY ActorsAre DEF TxIInv, TxPlaces
<1>3. pc' \in [Actors -> TxPlaces]
  BY <1>1, <1>2, Going
<1>4. Slots' /\ Holders' /\ DataPackets' = DataPackets
  BY <1>1, SameRing
<1>5. ToSet(tx_waiting_pkt_list)' = ToSet(tx_waiting_pkt_list)
  BY <1>1
<1>6. Places'
  BY <1>1, <1>5 DEF TxIInv, Places
<1>7. References'
  <2>1. \A n \in Nbls : Held(n)' = Held(n)
    BY <1>4, <1>5 DEF Held
  <2>2. \A c \in Dpcs : chain'[c] = IF c = d THEN {} ELSE chain[c]
    BY <1>1, <1>2 DEF TxTypeOK
  <2>3. \A n \in Nbls : completed'[n] = completed[n] + (IF n \in chain[d] THEN 1 ELSE 0)
    BY <1>1
  <2>4. ASSUME NEW n \in Nbls
        PROVE  /\ Cardinality(Held(n)') <= nbl_ref'[n] /\ nbl_ref'[n] <= Cardinality(Packets)
               /\ n \notin accepted' => nbl_ref'[n] = 0
               /\ completed'[n] \in {0, 1}
               /\ completed'[n] = 1 => n \in accepted' /\ nbl_ref'[n] = 0
               /\ \A b \in Dpcs : n \in chain'[b] =>
                    /\ n \in accepted' /\ nbl_ref'[n] = 0 /\ completed'[n] = 0
                    /\ \A c \in Dpcs : n \in chain'[c] => c = b
    <3>1. /\ Cardinality(Held(n)) <= nbl_ref[n] /\ nbl_ref[n] <= Cardinality(Packets)
          /\ n \notin accepted => nbl_ref[n] = 0
          /\ completed[n] \in {0, 1}
          /\ completed[n] = 1 => n \in accepted /\ nbl_ref[n] = 0
          /\ \A b \in Dpcs : n \in chain[b] =>
               /\ n \in accepted /\ nbl_ref[n] = 0 /\ completed[n] = 0
               /\ \A c \in Dpcs : n \in chain[c] => c = b
      BY DEF TxIInv, References
    <3>2. CASE n \in chain[d]
      BY <1>1, <2>1, <2>2, <2>3, <3>1, <3>2
    <3>3. CASE n \notin chain[d]
      BY <1>1, <2>1, <2>2, <2>3, <3>1, <3>3
    <3> QED BY <3>2, <3>3
  <2> QED BY <2>4 DEF References
<1>8. Lateness'
  BY <1>1, SameLateness
<1>9. TxTypeOK'
  <2>1. chain' \in [Dpcs -> SUBSET Nbls] /\ completed' \in [Nbls -> Nat]
    BY <1>1, <1>2 DEF TxTypeOK
  <2> QED BY <1>1, <1>2, <1>3, <2>1 DEF TxTypeOK
<1> QED BY <1>4, <1>6, <1>7, <1>8, <1>9 DEF TxIInv

\* What becomes of the counts of a list when one of its packets is taken away.
LEMMA FreePacketsKeeps ==
  ASSUME TxIInv, FreePackets
  PROVE  TxIInv'
<1>1. UNCHANGED <<tx_lock, tx_ring_free, tx_id_list, tx_shadows, ring, armed, awake, pending, bound,
                  dpcqueued, pc, dont_set_event, chain, tx_packets, accepted, forgotten, late>>
  BY DEF FreePackets, shared, locals
<1>2. TxTypeOK /\ pm = "drain"
  BY DEF TxIInv, FreePackets
<1>3. Slots' /\ Holders' /\ DataPackets' = DataPackets
  BY <1>1, SameRing
<1>4. CASE /\ tx_waiting_pkt_list # <<>>
           /\ tx_waiting_pkt_list' = Tail(tx_waiting_pkt_list)
           /\ LET n == NB_NBL(Head(tx_waiting_pkt_list)) IN
              /\ nbl_ref' = [nbl_ref EXCEPT ![n] = @ - 1]
              /\ completed' = [completed EXCEPT ![n] = @ + (IF nbl_ref[n] = 1 THEN 1 ELSE 0)]
           /\ UNCHANGED <<pm, device_state>>
  <2> DEFINE p == Head(tx_waiting_pkt_list)
  <2>1. tx_waiting_pkt_list \in Seq(Packets) /\ IsInjective(tx_waiting_pkt_list)
    BY DEF TxIInv, TxTypeOK, Places
  <2>2. /\ p \in Packets /\ p \in ToSet(tx_waiting_pkt_list)
        /\ tx_waiting_pkt_list' \in Seq(Packets) /\ IsInjective(tx_waiting_pkt_list')
        /\ ToSet(tx_waiting_pkt_list') = ToSet(tx_waiting_pkt_list) \ {p}
    BY <1>4, <2>1, Rests
  <2>3. PICK n \in Nbls : /\ n = NB_NBL(p) /\ p \in ToSet(NetBuffers[n])
                          /\ \A m \in Nbls : p \in ToSet(NetBuffers[m]) => m = n
    BY <2>2, Owner
  <2>4. /\ nbl_ref' = [nbl_ref EXCEPT ![n] = nbl_ref[n] - 1]
        /\ completed' = [completed EXCEPT ![n] = completed[n] + (IF nbl_ref[n] = 1 THEN 1 ELSE 0)]
        /\ pm' = pm /\ device_state' = device_state
    BY <1>4, <2>3
  <2> HIDE DEF p
  <2>5. ToSet(tx_waiting_pkt_list)' = ToSet(tx_waiting_pkt_list) \ {p}
    BY <2>2
  <2>6. p \notin DataPackets
    BY <2>2 DEF TxIInv, Places, DataPackets, DataSlots
  <2>7. Held(n)' = Held(n) \ {p} /\ p \in Held(n) /\ \A m \in Nbls : m # n => Held(m)' = Held(m)
    <3>1. ToSet(tx_waiting_pkt_list)' \cup DataPackets' = (ToSet(tx_waiting_pkt_list) \cup DataPackets) \ {p}
      BY <1>3, <2>5, <2>6
    <3>2. p \in ToSet(tx_waiting_pkt_list) \cup DataPackets
      BY <2>2
    <3> DEFINE X == ToSet(tx_waiting_pkt_list) \cup DataPackets
    <3>3. \A m \in Nbls : Held(m) = ToSet(NetBuffers[m]) \cap X /\ Held(m)' = ToSet(NetBuffers[m]) \cap (X \ {p})
      BY <3>1 DEF Held
    <3> HIDE DEF X
    <3>4. p \in X
      BY <3>2 DEF X
    <3>5. Held(n)' = Held(n) \ {p} /\ p \in Held(n)
      BY <2>3, <3>3, <3>4
    <3>6. ASSUME NEW m \in Nbls, m # n PROVE Held(m)' = Held(m)
      <4>1. p \notin ToSet(NetBuffers[m])
        BY <2>3, <3>6
      <4> QED BY <3>3, <4>1
    <3> QED BY <3>5, <3>6
  <2>8. /\ IsFiniteSet(Held(n)) /\ Cardinality(Held(n)) \in Nat /\ nbl_ref[n] \in Int
        /\ Cardinality(Held(n)) <= nbl_ref[n] /\ nbl_ref[n] <= Cardinality(Packets)
    BY <2>3, HeldFacts
  <2>9. Cardinality(Held(n)') = Cardinality(Held(n)) - 1 /\ Cardinality(Held(n)') \in Nat
    BY <2>7, <2>8, FS_RemoveElement, FS_CardinalityType
  <2>10. nbl_ref[n] >= 1
    BY <2>8, <2>9
  <2>11. n \in accepted /\ completed[n] = 0 /\ \A d \in Dpcs : n \notin chain[d]
    BY <2>3, <2>10 DEF TxIInv, References
  <2>12. /\ nbl_ref'[n] = nbl_ref[n] - 1
         /\ completed'[n] = (IF nbl_ref[n] = 1 THEN 1 ELSE 0)
         /\ \A m \in Nbls : m # n => nbl_ref'[m] = nbl_ref[m] /\ completed'[m] = completed[m]
         /\ nbl_ref' \in [Nbls -> Int] /\ completed' \in [Nbls -> Nat]
    BY <1>2, <2>3, <2>4, <2>8, <2>11 DEF TxTypeOK
  <2>13. References'
    <3>0. Cardinality(Packets) \in Nat
      BY Sizes
    <3>1. ASSUME NEW m \in Nbls
          PROVE  /\ Cardinality(Held(m)') <= nbl_ref'[m] /\ nbl_ref'[m] <= Cardinality(Packets)
                 /\ m \notin accepted' => nbl_ref'[m] = 0
                 /\ completed'[m] \in {0, 1}
                 /\ completed'[m] = 1 => m \in accepted' /\ nbl_ref'[m] = 0
                 /\ \A b \in Dpcs : m \in chain'[b] =>
                      /\ m \in accepted' /\ nbl_ref'[m] = 0 /\ completed'[m] = 0
                      /\ \A c \in Dpcs : m \in chain'[c] => c = b
      <4>1. CASE m = n
        <5>1. Cardinality(Held(n)') <= nbl_ref'[n] /\ nbl_ref'[n] <= Cardinality(Packets)
          BY <2>8, <2>9, <2>12, <3>0
        <5>2. completed'[n] \in {0, 1} /\ (completed'[n] = 1 => nbl_ref'[n] = 0)
          BY <2>8, <2>12
        <5> QED BY <1>1, <2>11, <4>1, <5>1, <5>2
      <4>2. CASE m # n
        BY <1>1, <2>7, <2>12, <4>2 DEF TxIInv, References
      <4> QED BY <4>1, <4>2
    <3> QED BY <3>1 DEF References
  <2>14. Places'
    <3>1. IsInjective(tx_waiting_pkt_list)'
      BY <2>2
    <3> QED BY <1>1, <2>5, <3>1 DEF TxIInv, Places
  <2>15. Lateness'
    BY <1>1, <1>2, <2>4, <2>5 DEF TxIInv, Lateness
  <2>16. TxTypeOK'
    BY <1>1, <1>2, <2>2, <2>4, <2>12 DEF TxTypeOK
  <2> QED BY <1>3, <2>13, <2>14, <2>15, <2>16 DEF TxIInv
<1>5. CASE /\ tx_waiting_pkt_list = <<>>
           /\ pm' = "off" /\ device_state' = "disconnected"
           /\ UNCHANGED <<tx_waiting_pkt_list, nbl_ref, completed>>
  <2>1. ToSet(tx_waiting_pkt_list)' = {}
    <3>1. tx_waiting_pkt_list' = <<>>
      BY <1>5
    <3> QED BY <3>1 DEF ToSet
  <2>2. Lateness'
    BY <1>1, <1>5, <2>1 DEF TxIInv, Lateness
  <2>3. TxTypeOK'
    BY <1>1, <1>2, <1>5 DEF TxTypeOK
  <2> QED BY <1>1, <1>5, <2>2, <2>3, OthersKeep
<1> QED BY <1>4, <1>5 DEF FreePackets

\* The list of ids that XenNet_TxInit builds holds each of them once.
LEMMA AllIds ==
  LET s == [i \in 1 .. RING_SIZE |-> i - 1] IN
    s \in Seq(Ids) /\ IsInjective(s) /\ ToSet(s) = Ids
<1> DEFINE s == [i \in 1 .. RING_SIZE |-> i - 1]
<1>1. RING_SIZE \in Nat
  BY Sizes
<1>2. \A i \in 1 .. RING_SIZE : i - 1 \in Ids
  BY <1>1 DEF Ids
<1>3. s \in Seq(Ids) /\ DOMAIN s = 1 .. RING_SIZE
  BY <1>1, <1>2
<1>4. IsInjective(s)
  BY <1>1, <1>3 DEF IsInjective
<1>5. \A id \in Ids : id + 1 \in 1 .. RING_SIZE /\ s[id + 1] = id
  BY <1>1 DEF Ids
<1>6. ToSet(s) = Ids
  BY <1>2, <1>3, <1>5 DEF ToSet
<1> QED BY <1>3, <1>4, <1>6

LEMMA ConnectKeeps ==
  ASSUME TxIInv, Connect
  PROVE  TxIInv'
<1>1. /\ pm = "connect" /\ pm' = "activate"
      /\ ring' = {} /\ armed' = TRUE /\ awake' = TRUE /\ bound' = TRUE /\ pending' = FALSE
      /\ tx_lock' = NoOne /\ tx_waiting_pkt_list' = <<>>
      /\ forgotten' = forgotten \cup ToSet(tx_waiting_pkt_list)
      /\ tx_ring_free' = RING_SIZE /\ tx_id_list' = [i \in 1 .. RING_SIZE |-> i - 1]
      /\ tx_shadows' = [id \in Ids |-> [tx_shadows[id] EXCEPT !.gref = FALSE]]
      /\ UNCHANGED <<device_state, nbl_ref, dpcqueued, pc, dont_set_event, chain, tx_packets,
                     accepted, completed, late>>
  BY DEF Connect, locals
<1>2. TxTypeOK
  BY DEF TxIInv
<1>3. RING_SIZE \in Nat /\ IsFiniteSet({}) /\ Cardinality({}) = 0
  BY Sizes, FS_EmptySet
<1>4. tx_id_list' \in Seq(Ids) /\ IsInjective(tx_id_list') /\ ToSet(tx_id_list') = Ids
  BY <1>1, AllIds
<1>5. DataSlots' = {} /\ DataPackets' = {}
  BY <1>1 DEF DataSlots, DataPackets
<1>6. ToSet(tx_waiting_pkt_list)' = {} /\ tx_waiting_pkt_list' \in Seq(Packets) /\ IsInjective(tx_waiting_pkt_list')
  BY <1>1 DEF ToSet, IsInjective
<1>7. Slots'
  <2>1. tx_ring_free' + Cardinality(ring') = RING_SIZE
    BY <1>1, <1>3
  <2>2. ToSet(tx_id_list)' = Ids /\ IsInjective(tx_id_list)'
    BY <1>4
  <2> QED BY <1>1, <1>5, <2>1, <2>2 DEF Slots
<1>8. Holders'
  BY <1>1, <1>5 DEF Holders
<1>9. Places'
  <2>1. IsInjective(tx_waiting_pkt_list)'
    BY <1>6
  <2> QED BY <1>1, <1>6, <2>1 DEF Places
<1>10. References'
  <2>1. ASSUME NEW n \in Nbls
        PROVE  Held(n)' = {} /\ Cardinality(Held(n)') <= nbl_ref[n]
    <3>1. Held(n)' = {}
      BY <1>5, <1>6 DEF Held
    <3>2. 0 <= nbl_ref[n]
      BY HeldFacts
    <3> QED BY <1>3, <3>1, <3>2
  <2> QED BY <1>1, <2>1 DEF TxIInv, References
<1>11. Lateness'
  BY <1>1, <1>6 DEF TxIInv, Lateness
<1>12. tx_shadows' \in [Ids -> Shadows]
  BY <1>1, <1>2 DEF TxTypeOK, Shadows
<1>13. TxTypeOK'
  BY <1>1, <1>2, <1>3, <1>4, <1>6, <1>12 DEF TxTypeOK
<1> QED BY <1>7, <1>8, <1>9, <1>10, <1>11, <1>13 DEF TxIInv

(* The loop over the responses *)

\* What the shadows say of the answered slots.
LEMMA DoneFacts ==
  ASSUME TxIInv
  PROVE  /\ \A p \in DonePackets : /\ p \in DataPackets
                                   /\ \A e \in DataSlots : e.packet = p => e.stage = "answered"
         /\ \A e \in DataSlots : e.packet \notin DonePackets =>
              \E f \in DataSlots : /\ f.packet = e.packet /\ tx_shadows[f.id].packet = f.packet
                                   /\ f.stage # "answered"
         /\ AnsweredIds = {e.id : e \in {f \in DataSlots : f.stage = "answered"}}
         /\ AnsweredIds \subseteq Ids /\ AnsweredIds \cap ToSet(tx_id_list) = {}
<1>1. DataSlots \subseteq ring /\ \A e \in DataSlots : e.id \in Ids /\ e.packet \in Packets /\ e.nth \in Nat
  BY Slot DEF DataSlots
<1>2. AnsweredIds = {e.id : e \in {f \in DataSlots : f.stage = "answered"}}
  BY DEF AnsweredIds, At, DataSlots
<1>3. AnsweredIds \subseteq Ids /\ AnsweredIds \cap ToSet(tx_id_list) = {}
  BY <1>1, <1>2 DEF TxIInv, Slots
<1>4. ASSUME NEW p \in DonePackets
      PROVE  p \in DataPackets /\ \A e \in DataSlots : e.packet = p => e.stage = "answered"
  <2>1. PICK f \in DataSlots : f.stage = "answered" /\ tx_shadows[f.id].packet = p /\ p # NoPacket
    BY <1>2 DEF DonePackets
  <2>2. f.packet = p
    BY <2>1 DEF TxIInv, Holders
  <2>3. ASSUME NEW e \in DataSlots, e.packet = p PROVE e.stage = "answered"
    <3>1. e.nth <= f.nth
      BY <2>1, <2>2, <2>3 DEF TxIInv, Holders
    <3>2. CASE e.nth = f.nth
      <4>1. e = f
        BY <1>1, <2>2, <2>3, <3>2 DEF TxIInv, Slots
      <4> QED BY <2>1, <4>1
    <3>3. CASE e.nth < f.nth
      BY <1>1, <2>1, <2>2, <2>3, <3>3 DEF TxIInv, Holders
    <3> QED BY <1>1, <3>1, <3>2, <3>3
  <2> QED BY <2>2, <2>3 DEF DataPackets
<1>5. ASSUME NEW e \in DataSlots, e.packet \notin DonePackets
      PROVE  \E f \in DataSlots : /\ f.packet = e.packet /\ tx_shadows[f.id].packet = f.packet
                                  /\ f.stage # "answered"
  <2>1. PICK f \in DataSlots : f.packet = e.packet /\ tx_shadows[f.id].packet = f.packet
    BY DEF TxIInv, Holders
  <2>2. f.packet # NoPacket
    BY <1>1, NetTxAssumption
  <2>3. f.stage # "answered"
    BY <1>2, <1>5, <2>1, <2>2 DEF DonePackets
  <2> QED BY <2>1, <2>3
<1> QED BY <1>2, <1>3, <1>4, <1>5

\* What is left on the ring, and what is free again.
LEMMA HarvestRing ==
  ASSUME TxIInv, NEW d \in Dpcs, Harvest(d)
  PROVE  /\ Slots' /\ Holders' /\ DataPackets' = DataPackets \ DonePackets
         /\ ring' \subseteq ring /\ IsFiniteSet(ring') /\ tx_ring_free' \in Nat
         /\ tx_id_list' \in Seq(Ids) /\ tx_shadows' \in [Ids -> Shadows]
         /\ ToSet(tx_id_list)' = ToSet(tx_id_list) \cup AnsweredIds
<1> DEFINE A == At("answered")
<1>1. /\ tx_ring_free' = tx_ring_free + Cardinality(A) /\ tx_id_list' \in GiveBack
      /\ tx_shadows' = [id \in Ids |-> IF id \in AnsweredIds THEN NoShadow ELSE tx_shadows[id]]
      /\ ring' = ring \ A
  BY DEF Harvest
<1>2. TxTypeOK /\ A \subseteq ring /\ IsFiniteSet(ring) /\ ring \subseteq Entries
  BY DEF TxIInv, TxTypeOK, At
<1>3. DataSlots \subseteq ring /\ \A e \in DataSlots : e.id \in Ids /\ e.packet \in Packets /\ e.nth \in Nat
  BY Slot DEF DataSlots
<1>4. \A e \in ring : e \in A <=> e.stage = "answered"
  BY DEF At
<1>5. DataSlots' = DataSlots \ A /\ \A e : e \in DataSlots' <=> e \in DataSlots /\ e.stage # "answered"
  BY <1>1, <1>3, <1>4 DEF DataSlots
<1>6. IsFiniteSet(A) /\ Cardinality(A) \in Nat /\ IsFiniteSet(ring \ A)
  BY <1>2, FS_Subset, FS_CardinalityType, FS_Difference
<1> HIDE DEF A
<1>7. Cardinality(ring) = Cardinality(A) + Cardinality(ring \ A) /\ Cardinality(ring \ A) \in Nat
  <2>1. A \cup (ring \ A) = ring /\ A \cap (ring \ A) = {}
    BY <1>2
  <2>2. Cardinality(A \cup (ring \ A)) = Cardinality(A) + Cardinality(ring \ A) - Cardinality(A \cap (ring \ A))
    BY <1>6, FS_Union
  <2>3. Cardinality(ring \ A) \in Nat /\ Cardinality({}) = 0
    BY <1>6, FS_CardinalityType, FS_EmptySet
  <2>4. Cardinality(ring) = Cardinality(A) + Cardinality(ring \ A) - 0
    BY <2>1, <2>2, <2>3
  <2> QED BY <1>6, <2>3, <2>4
<1>8. IsFiniteSet(AnsweredIds)
  BY DoneFacts, Sizes, FS_Subset
<1>9. PICK ids \in SetToSeqs(AnsweredIds) : tx_id_list' = tx_id_list \o ids
  BY <1>1 DEF GiveBack
<1>10. ids \in Seq(AnsweredIds) /\ IsInjective(ids) /\ ToSet(ids) = AnsweredIds
  BY <1>8, <1>9, Ordered
<1>11. /\ tx_id_list' \in Seq(Ids) /\ IsInjective(tx_id_list')
       /\ ToSet(tx_id_list') = ToSet(tx_id_list) \cup AnsweredIds
  <2>1. ids \in Seq(Ids)
    BY <1>10, DoneFacts
  <2>2. tx_id_list \in Seq(Ids) /\ IsInjective(tx_id_list)
    BY DEF TxIInv, TxTypeOK, Slots
  <2>3. ToSet(tx_id_list) \cap ToSet(ids) = {}
    BY <1>10, DoneFacts
  <2> QED BY <1>9, <1>10, <2>1, <2>2, <2>3, Joined
<1>12. Slots'
  <2>1. ToSet(tx_id_list)' = ToSet(tx_id_list) \cup AnsweredIds /\ IsInjective(tx_id_list)'
    BY <1>11
  <2>2. \A e, f \in DataSlots : e.id = f.id => e = f
    BY DEF TxIInv, Slots
  <2>3. ASSUME NEW id \in Ids
        PROVE  id \in ToSet(tx_id_list)' <=> \A e \in DataSlots' : e.id # id
    <3>1. id \in ToSet(tx_id_list) <=> \A e \in DataSlots : e.id # id
      BY DEF TxIInv, Slots
    <3>2. id \in AnsweredIds <=> \E e \in DataSlots : e.stage = "answered" /\ e.id = id
      BY DoneFacts
    <3> QED BY <1>5, <2>1, <2>2, <3>1, <3>2
  <2>4. \A e, f \in ring' : e.packet = f.packet /\ e.nth = f.nth => e = f
    BY <1>1 DEF TxIInv, Slots
  <2>5. \A e, f \in DataSlots' : e.id = f.id => e = f
    BY <1>5, <2>2
  <2>6. tx_ring_free' + Cardinality(ring') = RING_SIZE
    <3>1. tx_ring_free + Cardinality(ring) = RING_SIZE /\ tx_ring_free \in Nat
      BY <1>2 DEF TxIInv, Slots, TxTypeOK
    <3> QED BY <1>1, <1>6, <1>7, <3>1
  <2> QED BY <2>1, <2>3, <2>4, <2>5, <2>6 DEF Slots
<1>13. \A e \in DataSlots' : tx_shadows'[e.id] = tx_shadows[e.id]
  <2>1. ASSUME NEW e \in DataSlots' PROVE e.id \notin AnsweredIds
    <3>1. \A f \in DataSlots : f.stage = "answered" => f.id # e.id
      BY <1>5 DEF TxIInv, Slots
    <3> QED BY <3>1, DoneFacts
  <2> QED BY <1>1, <1>3, <1>5, <2>1
<1>14. Holders'
  <2>1. \A e, f \in ring' : e.packet = f.packet /\ e.nth < f.nth /\ f.stage = "answered" => e.stage = "answered"
    BY <1>1 DEF TxIInv, Holders
  <2>2. ASSUME NEW e \in DataSlots'
        PROVE  /\ tx_shadows'[e.id].packet \in {NoPacket, e.packet}
               /\ \E f \in DataSlots' : f.packet = e.packet /\ tx_shadows'[f.id].packet = f.packet
               /\ \A f \in DataSlots' :
                    e.packet = f.packet /\ tx_shadows'[f.id].packet # NoPacket => e.nth <= f.nth
    <3>1. e \in DataSlots /\ e.stage # "answered"
      BY <1>5
    <3>2. e.packet \notin DonePackets
      BY <3>1, DoneFacts
    <3>3. PICK f \in DataSlots : /\ f.packet = e.packet /\ tx_shadows[f.id].packet = f.packet
                                 /\ f.stage # "answered"
      BY <3>1, <3>2, DoneFacts
    <3>4. f \in DataSlots'
      BY <1>5, <3>3
    <3>5. tx_shadows[e.id].packet \in {NoPacket, e.packet}
      BY <3>1 DEF TxIInv, Holders
    <3>6. ASSUME NEW g \in DataSlots', e.packet = g.packet, tx_shadows'[g.id].packet # NoPacket
          PROVE  e.nth <= g.nth
      <4>1. g \in DataSlots /\ tx_shadows[g.id].packet # NoPacket
        BY <1>5, <1>13, <3>6
      <4> QED BY <3>1, <3>6, <4>1 DEF TxIInv, Holders
    <3> QED BY <1>13, <3>3, <3>4, <3>5, <3>6
  <2> QED BY <2>1, <2>2 DEF Holders
<1>15. DataPackets' = DataPackets \ DonePackets
  <2>1. \A p : p \in DataPackets' <=> \E e \in DataSlots' : e.packet = p
    BY DEF DataPackets
  <2>2. \A p : p \in DataPackets <=> \E e \in DataSlots : e.packet = p
    BY DEF DataPackets
  <2>3. ASSUME NEW p, p \in DataPackets' PROVE p \in DataPackets \ DonePackets
    BY <1>5, <2>1, <2>2, <2>3, DoneFacts
  <2>4. ASSUME NEW p, p \in DataPackets \ DonePackets PROVE p \in DataPackets'
    <3>1. PICK e \in DataSlots : e.packet = p
      BY <2>2, <2>4
    <3>2. \E f \in DataSlots : f.packet = p /\ f.stage # "answered"
      BY <2>4, <3>1, DoneFacts
    <3> QED BY <1>5, <2>1, <3>2
  <2> QED BY <2>3, <2>4
<1>16. tx_shadows' \in [Ids -> Shadows]
  BY <1>1, <1>2 DEF TxTypeOK, Shadows, NoShadow
<1>17. ring' \subseteq ring /\ IsFiniteSet(ring')
  BY <1>1, <1>6
<1>18. tx_ring_free' \in Nat
  BY <1>1, <1>2, <1>6 DEF TxTypeOK
<1> QED BY <1>11, <1>12, <1>14, <1>15, <1>16, <1>17, <1>18

LEMMA HarvestKeeps ==
  ASSUME TxIInv, NEW d \in Dpcs, Harvest(d)
  PROVE  TxIInv'
<1>1. /\ Goto(d, "harvest", IF dont_set_event[d] THEN "recheck" ELSE "arm")
      /\ nbl_ref' = [n \in Nbls |-> nbl_ref[n] - Cardinality(DoneOf(n))]
      /\ chain' = [chain EXCEPT ![d] = chain[d] \cup ChainDone]
      /\ tx_packets' = [tx_packets EXCEPT ![d] = tx_packets[d] + Cardinality(DonePackets)]
      /\ UNCHANGED <<device_state, tx_lock, tx_waiting_pkt_list, armed, awake, pending, bound,
                     dpcqueued, dont_set_event, pm, accepted, completed, forgotten, late>>
  BY DEF Harvest, history
<1>2. /\ Slots' /\ Holders' /\ DataPackets' = DataPackets \ DonePackets
      /\ ring' \subseteq ring /\ IsFiniteSet(ring') /\ tx_ring_free' \in Nat
      /\ tx_id_list' \in Seq(Ids) /\ tx_shadows' \in [Ids -> Shadows]
  BY HarvestRing
<1>3. TxTypeOK /\ d \in Actors
  BY ActorsAre DEF TxIInv
<1>4. pc' \in [Actors -> TxPlaces]
  <2>1. (IF dont_set_event[d] THEN "recheck" ELSE "arm") \in TxPlaces
    BY DEF TxPlaces
  <2> QED BY <1>1, <1>3, <2>1, Going
<1>5. DonePackets \subseteq DataPackets /\ DataPackets \subseteq Packets
  <2>1. \A e \in DataSlots : e.packet \in Packets
    BY Slot DEF DataSlots
  <2> QED BY <2>1, DoneFacts DEF DataPackets
<1>6. \A p \in DataPackets : p \notin ToSet(tx_waiting_pkt_list)
  BY DEF TxIInv, Places, DataPackets, DataSlots
<1>7. ToSet(tx_waiting_pkt_list)' = ToSet(tx_waiting_pkt_list)
  BY <1>1
<1>8. ASSUME NEW n \in Nbls
      PROVE  /\ Held(n)' = Held(n) \ DoneOf(n)
             /\ Cardinality(DoneOf(n)) \in Nat /\ Cardinality(DoneOf(n)) <= Cardinality(Held(n))
             /\ Cardinality(Held(n)') = Cardinality(Held(n)) - Cardinality(DoneOf(n))
             /\ DoneOf(n) # {} => Cardinality(DoneOf(n)) >= 1
             /\ nbl_ref'[n] = nbl_ref[n] - Cardinality(DoneOf(n))
  <2> DEFINE W == ToSet(tx_waiting_pkt_list)
  <2>1. W \cup DataPackets' = (W \cup DataPackets) \ DonePackets /\ DonePackets \subseteq W \cup DataPackets
    BY <1>2, <1>5, <1>6
  <2>2. Held(n)' = Held(n) \ DoneOf(n) /\ DoneOf(n) \subseteq Held(n)
    <3>1. Held(n)' = ToSet(NetBuffers[n]) \cap (W \cup DataPackets')
      BY <1>7 DEF Held
    <3>2. Held(n) = ToSet(NetBuffers[n]) \cap (W \cup DataPackets)
      BY DEF Held
    <3>3. DoneOf(n) = DonePackets \cap ToSet(NetBuffers[n])
      BY DEF DoneOf
    <3> HIDE DEF W
    <3> QED BY <2>1, <3>1, <3>2, <3>3
  <2>3. IsFiniteSet(Held(n)) /\ Cardinality(Held(n)) \in Nat
    BY HeldFacts
  <2> DEFINE H == Held(n)
             D == DoneOf(n)
  <2>4. IsFiniteSet(H) /\ D \subseteq H /\ Cardinality(H) \in Nat
    BY <2>2, <2>3
  <2> HIDE DEF H, D
  <2>5. IsFiniteSet(D) /\ Cardinality(D) \in Nat /\ Cardinality(D) <= Cardinality(H) /\ IsFiniteSet(H \ D)
    BY <2>4, FS_Subset, FS_CardinalityType, FS_Difference
  <2>6. Cardinality(H \ D) = Cardinality(H) - Cardinality(D)
    <3>1. D \cup (H \ D) = H /\ D \cap (H \ D) = {}
      BY <2>4
    <3>2. Cardinality(D \cup (H \ D)) = Cardinality(D) + Cardinality(H \ D) - Cardinality(D \cap (H \ D))
      BY <2>5, FS_Union
    <3>3. Cardinality(H \ D) \in Nat /\ Cardinality({}) = 0
      BY <2>5, FS_CardinalityType, FS_EmptySet
    <3> QED BY <2>4, <2>5, <3>1, <3>2, <3>3
  <2>7. D # {} => Cardinality(D) >= 1
    <3>1. D # {} => Cardinality(D) # 0
      BY <2>5, FS_EmptySet
    <3> QED BY <2>5, <3>1
  <2>8. nbl_ref'[n] = nbl_ref[n] - Cardinality(DoneOf(n))
    BY <1>1
  <2> QED BY <2>2, <2>5, <2>6, <2>7, <2>8 DEF H, D
<1>9. \A n \in Nbls : n \in ChainDone <=> DoneOf(n) # {} /\ nbl_ref[n] = Cardinality(DoneOf(n))
  BY DEF ChainDone
<1>10. ChainDone \subseteq Nbls
  BY DEF ChainDone
<1>11. \A c \in Dpcs : chain'[c] = IF c = d THEN chain[c] \cup ChainDone ELSE chain[c]
  BY <1>1, <1>3 DEF TxTypeOK
<1>12. References'
  <2>0. Cardinality(Packets) \in Nat
    BY Sizes
  <2>1. ASSUME NEW n \in Nbls
        PROVE  /\ Cardinality(Held(n)') <= nbl_ref'[n] /\ nbl_ref'[n] <= Cardinality(Packets)
               /\ n \notin accepted' => nbl_ref'[n] = 0
               /\ completed'[n] \in {0, 1}
               /\ completed'[n] = 1 => n \in accepted' /\ nbl_ref'[n] = 0
               /\ \A b \in Dpcs : n \in chain'[b] =>
                    /\ n \in accepted' /\ nbl_ref'[n] = 0 /\ completed'[n] = 0
                    /\ \A c \in Dpcs : n \in chain'[c] => c = b
    <3> DEFINE h == Cardinality(Held(n))
               k == Cardinality(DoneOf(n))
    <3>1. /\ h \in Nat /\ nbl_ref[n] \in Int /\ h <= nbl_ref[n] /\ nbl_ref[n] <= Cardinality(Packets)
      BY HeldFacts
    <3>2. /\ k \in Nat /\ k <= h /\ Cardinality(Held(n)') = h - k /\ nbl_ref'[n] = nbl_ref[n] - k
          /\ DoneOf(n) # {} => k >= 1
      BY <1>8
    <3>3. n \in ChainDone <=> DoneOf(n) # {} /\ nbl_ref[n] = k
      BY <1>9
    <3> HIDE DEF h, k
    <3>4. Cardinality(Held(n)') <= nbl_ref'[n] /\ nbl_ref'[n] <= Cardinality(Packets)
          /\ (nbl_ref[n] = 0 => nbl_ref'[n] = 0) /\ (n \in ChainDone => nbl_ref[n] >= 1 /\ nbl_ref'[n] = 0)
          /\ (nbl_ref[n] = 0 => n \notin ChainDone)
      BY <2>0, <3>1, <3>2, <3>3
    <3>5. /\ n \notin accepted => nbl_ref[n] = 0
          /\ completed[n] \in {0, 1}
          /\ completed[n] = 1 => n \in accepted /\ nbl_ref[n] = 0
          /\ \A b \in Dpcs : n \in chain[b] =>
               /\ n \in accepted /\ nbl_ref[n] = 0 /\ completed[n] = 0
               /\ \A c \in Dpcs : n \in chain[c] => c = b
      BY DEF TxIInv, References
    <3>6. ~(nbl_ref[n] >= 1 /\ nbl_ref[n] = 0)
      BY <3>1
    <3>7. CASE n \in ChainDone
      <4>1. nbl_ref[n] # 0 /\ nbl_ref'[n] = 0
        BY <3>4, <3>6, <3>7
      <4>2. completed[n] = 0 /\ n \in accepted /\ \A b \in Dpcs : n \notin chain[b]
        BY <3>5, <4>1
      <4>3. \A b \in Dpcs : n \in chain'[b] <=> b = d
        BY <1>11, <3>7, <4>2
      <4> QED BY <1>1, <3>4, <4>1, <4>2, <4>3
    <3>8. CASE n \notin ChainDone
      <4>1. \A b \in Dpcs : n \in chain'[b] <=> n \in chain[b]
        BY <1>11, <3>8
      <4> QED BY <1>1, <3>4, <3>5, <4>1
    <3> QED BY <3>7, <3>8
  <2> QED BY <2>1 DEF References
<1>13. Places'
  BY <1>1, <1>2, <1>7 DEF TxIInv, Places
<1>14. Lateness'
  BY <1>1, SameLateness
<1>15. TxTypeOK'
  <2>1. nbl_ref' \in [Nbls -> Int]
    <3>1. \A n \in Nbls : nbl_ref[n] - Cardinality(DoneOf(n)) \in Int
      BY <1>3, <1>8 DEF TxTypeOK
    <3> QED BY <1>1, <3>1
  <2>2. chain' \in [Dpcs -> SUBSET Nbls]
    BY <1>1, <1>3, <1>10 DEF TxTypeOK
  <2>3. tx_packets' \in [Dpcs -> Nat]
    <3>1. Cardinality(DonePackets) \in Nat
      BY <1>5, Sizes, FS_Subset, FS_CardinalityType
    <3> QED BY <1>1, <1>3, <3>1 DEF TxTypeOK
  <2> QED BY <1>1, <1>2, <1>3, <1>4, <2>1, <2>2, <2>3 DEF TxTypeOK
<1> QED BY <1>2, <1>12, <1>13, <1>14, <1>15 DEF TxIInv

(* The specification *)

LEMMA TxBegins == Init => TxIInv
<1> SUFFICES ASSUME Init PROVE TxIInv
  OBVIOUS
<1>1. /\ device_state = "active" /\ tx_lock = NoOne /\ tx_waiting_pkt_list = <<>>
      /\ tx_ring_free = RING_SIZE /\ tx_id_list = [i \in 1 .. RING_SIZE |-> i - 1]
      /\ tx_shadows = [id \in Ids |-> NoShadow] /\ nbl_ref = [n \in Nbls |-> 0]
      /\ ring = {} /\ armed = TRUE /\ awake = TRUE
  BY DEF Init
<1>2. /\ pending = FALSE /\ bound = TRUE /\ dpcqueued = FALSE
      /\ pc = [a \in Actors |-> "idle"] /\ dont_set_event = [d \in Dpcs |-> FALSE]
      /\ chain = [d \in Dpcs |-> {}] /\ tx_packets = [d \in Dpcs |-> 0] /\ pm = "on"
      /\ accepted = {} /\ completed = [n \in Nbls |-> 0] /\ forgotten = {} /\ late = {}
  BY DEF Init
<1>3. RING_SIZE \in Nat /\ IsFiniteSet({}) /\ Cardinality({}) = 0 /\ Cardinality(Packets) \in Nat
  BY Sizes, FS_EmptySet
<1>4. tx_id_list \in Seq(Ids) /\ IsInjective(tx_id_list) /\ ToSet(tx_id_list) = Ids
  BY <1>1, AllIds
<1>5. DataSlots = {} /\ DataPackets = {}
  BY <1>1 DEF DataSlots, DataPackets
<1>6. ToSet(tx_waiting_pkt_list) = {} /\ tx_waiting_pkt_list \in Seq(Packets) /\ IsInjective(tx_waiting_pkt_list)
  BY <1>1 DEF ToSet, IsInjective
<1>7. tx_shadows \in [Ids -> Shadows]
  BY <1>1 DEF Shadows, NoShadow
<1>8. TxTypeOK
  <2>1. nbl_ref \in [Nbls -> Int] /\ completed \in [Nbls -> Nat] /\ chain \in [Dpcs -> SUBSET Nbls]
        /\ tx_packets \in [Dpcs -> Nat] /\ dont_set_event \in [Dpcs -> BOOLEAN]
    BY <1>1, <1>2
  <2>2. pc \in [Actors -> TxPlaces]
    BY <1>2 DEF TxPlaces
  <2> QED BY <1>1, <1>2, <1>3, <1>4, <1>6, <1>7, <2>1, <2>2 DEF TxTypeOK
<1>9. Slots
  BY <1>1, <1>3, <1>4, <1>5 DEF Slots
<1>10. Holders
  BY <1>1, <1>5 DEF Holders
<1>11. Places
  BY <1>1, <1>6 DEF Places
<1>12. References
  <2>1. \A n \in Nbls : Held(n) = {}
    BY <1>5, <1>6 DEF Held
  <2>2. \A n \in Nbls : Cardinality(Held(n)) = 0
    BY <1>3, <2>1
  <2>3. \A n \in Nbls : nbl_ref[n] = 0 /\ completed[n] = 0
    BY <1>1, <1>2
  <2>4. \A n \in Nbls, d \in Dpcs : n \notin chain[d]
    BY <1>2
  <2>5. 0 <= 0 /\ 0 <= Cardinality(Packets)
    BY <1>3
  <2> QED BY <2>2, <2>3, <2>4, <2>5 DEF References
<1>13. Lateness
  BY <1>1, <1>2 DEF Lateness
<1> QED BY <1>8, <1>9, <1>10, <1>11, <1>12, <1>13 DEF TxIInv

LEMMA TxStutters == TxIInv /\ UNCHANGED vars => TxIInv'
<1> SUFFICES ASSUME TxIInv, UNCHANGED vars PROVE TxIInv'
  OBVIOUS
<1>1. UNCHANGED <<device_state, tx_lock, tx_waiting_pkt_list, tx_ring_free, tx_id_list, tx_shadows,
                  nbl_ref, ring, armed, awake, pending, bound, dpcqueued, pc, dont_set_event, chain,
                  tx_packets, pm, accepted, completed, forgotten, late>>
  BY DEF vars, driver, shared, locals, history
<1>2. TxTypeOK'
  BY <1>1 DEF TxIInv, TxTypeOK
<1>3. Lateness'
  BY <1>1, SameLateness
<1> QED BY <1>1, <1>2, <1>3, OthersKeep

LEMMA TxSteps == TxIInv /\ [Next]_vars => TxIInv'
<1> SUFFICES ASSUME TxIInv, [Next]_vars PROVE TxIInv'
  OBVIOUS
<1>1. CASE \E s \in Senders, n \in Nbls : SendNetBufferLists(s, n)
  BY <1>1, SendNetBufferListsKeeps
<1>2. ASSUME NEW a \in Actors, SendQueuedPackets(a) PROVE TxIInv'
  <2>1. CASE NotActive(a) \/ Active(a) \/ Stop(a)
    BY <2>1, IdleKeeps
  <2>2. CASE Push(a)
    BY <2>2, PublishKeeps
  <2>3. CASE \E k \in 1 .. RING_SIZE : HWSendPacket(a, k)
    BY <2>3, HWSendPacketKeeps
  <2> QED BY <1>2, <2>1, <2>2, <2>3 DEF SendQueuedPackets
<1>3. CASE HandleEvent_DIRQL
  BY <1>3, EventKeeps
<1>4. ASSUME NEW d \in Dpcs, RxTxDpc(d) \/ TxBufferGC(d) PROVE TxIInv'
  <2>1. CASE RxTxDpc(d) \/ TooLate(d) \/ Enter(d) \/ Arm(d) \/ Recheck(d) \/ Relock(d)
    BY <2>1, DpcIdleKeeps
  <2>2. CASE Harvest(d)
    BY <2>2, HarvestKeeps
  <2>3. CASE Complete(d)
    BY <2>3, CompleteKeeps
  <2> QED BY <1>4, <2>1, <2>2, <2>3 DEF TxBufferGC
<1>5. CASE Backend
  BY <1>5, EventKeeps, PublishKeeps, PmKeeps DEF Backend
<1>6. CASE SuspendResume
  BY <1>6, PmKeeps, FreePacketsKeeps, ConnectKeeps DEF SuspendResume
<1>7. CASE UNCHANGED vars
  BY <1>7, TxStutters
<1> QED BY <1>1, <1>2, <1>3, <1>4, <1>5, <1>6, <1>7 DEF Next

\* What is given back was held by nobody, and what is forgotten came too late.
LEMMA TxSays == TxIInv => ListsSound
<1> SUFFICES ASSUME TxIInv PROVE ListsSound
  OBVIOUS
<1>1. ASSUME NEW n \in Nbls
      PROVE  /\ completed[n] <= 1
             /\ completed[n] = 1 =>
                  \A p \in ToSet(NetBuffers[n]) :
                    /\ p \notin ToSet(tx_waiting_pkt_list)
                    /\ \A e \in DataSlots : e.packet # p
  <2>1. completed[n] <= 1
    <3>1. completed[n] \in {0, 1}
      BY DEF TxIInv, References
    <3> QED BY <3>1
  <2>2. ASSUME completed[n] = 1
        PROVE  ToSet(NetBuffers[n]) \cap (ToSet(tx_waiting_pkt_list) \cup DataPackets) = {}
    <3>1. nbl_ref[n] = 0
      BY <2>2 DEF TxIInv, References
    <3>2. IsFiniteSet(Held(n)) /\ Cardinality(Held(n)) = 0
      BY <3>1, HeldFacts
    <3> QED BY <3>2, FS_EmptySet DEF Held
  <2> QED BY <2>1, <2>2 DEF DataPackets
<1>2. GivenBackOnce
  BY <1>1 DEF GivenBackOnce
<1>3. OnlyLateForgotten
  BY DEF OnlyLateForgotten, TxIInv, Lateness
<1> QED BY <1>2, <1>3 DEF ListsSound

\* The inductive invariant of the transmit half, for any ring, lists and number of threads.
THEOREM TxInvariance == Spec => []TxIInv
BY TxBegins, TxSteps, PTL DEF Spec

\* A list goes back to NDIS once, when XenNet_TxBufferGC or XenNet_TxShutdown has dropped
\* NBL_REF to zero, and no packet of it waits or is on the ring any more; a packet that
\* XenNet_TxInit drops from the waiting list was sent while the device was not ACTIVE.
THEOREM ListsKept == Spec => []ListsSound
BY TxInvariance, TxSays, PTL

(***************************************************************************)
(* NetTx, the first suspend.                                               *)
(*                                                                         *)
(* Until XenNet_TxInit initialises the lock for the second time, it is     *)
(* held by the actor that runs under it and by nobody else, so that        *)
(* TxShutdown, which finds it free with no packet outstanding, leaves      *)
(* nobody behind who would use the ring.  tx_outstanding counts the        *)
(* packets on the ring and those the DPCs have taken off it.               *)
(***************************************************************************)
UnderLock == {"check", "send", "push", "harvest", "arm", "recheck"}
Working   == {"send", "push", "harvest", "arm", "recheck"}
Down      == {"drain", "off", "connect"}

\* TxInit has not been called again.
Orderly == suspends = 0 \/ pm \in {"closing", "unbind", "wait", "drain", "off", "connect", "failed"}

Locked == Orderly => \A a \in Actors : tx_lock = a <=> pc[a] \in UnderLock

FreeShadows == \A id \in ToSet(tx_id_list) : tx_shadows[id] = NoShadow

\* D[d]: the packets that instance d of the DPC has taken off the ring and not subtracted yet.
Counts(D) ==
  /\ \A d \in Dpcs : Cardinality(D[d]) = tx_packets[d]
  /\ \A d \in Dpcs : D[d] \cap (ToSet(tx_waiting_pkt_list) \cup DataPackets) = {}
  /\ \A d \in Dpcs : \A p \in D[d] : NB_NBL(p) \in accepted
  /\ \A c, d \in Dpcs : D[c] \cap D[d] # {} => c = d
  /\ tx_outstanding = Cardinality(DataPackets \cup UNION {D[d] : d \in Dpcs})

Outstanding == \E D \in [Dpcs -> SUBSET Packets] : Counts(D)

\* Lists in a chain are among the packets to subtract.
Chained ==
  \A d \in Dpcs : (chain[d] # {} => tx_packets[d] # 0) /\ (pc[d] = "relock" => chain[d] = {})

Drained == pm \in Down => tx_outstanding = 0 /\ \A a \in Actors : pc[a] \notin Working

First == /\ suspends = 0 => pm = "on"
         /\ Locked /\ FreeShadows /\ Outstanding /\ Chained /\ Drained

FirstSuspend == suspends \in Nat /\ (suspends <= 1 => First)

LEMMA UnionFacts ==
  ASSUME TxIInv, NEW D \in [Dpcs -> SUBSET Packets]
  PROVE  /\ DataPackets \subseteq Packets
         /\ LET U == DataPackets \cup UNION {D[d] : d \in Dpcs} IN
              U \subseteq Packets /\ IsFiniteSet(U) /\ Cardinality(U) \in Nat /\ Cardinality(U) <= Cardinality(Packets)
         /\ \A d \in Dpcs : D[d] \subseteq Packets /\ IsFiniteSet(D[d]) /\ Cardinality(D[d]) \in Nat
         /\ IsFiniteSet(DataPackets)
<1> DEFINE U == DataPackets \cup UNION {D[d] : d \in Dpcs}
<1>1. DataPackets \subseteq Packets
  <2>1. \A e \in DataSlots : e.packet \in Packets
    BY Slot DEF DataSlots
  <2> QED BY <2>1 DEF DataPackets
<1>2. \A d \in Dpcs : D[d] \subseteq Packets
  OBVIOUS
<1>3. U \subseteq Packets
  BY <1>1, <1>2
<1>4. ASSUME NEW S \in SUBSET Packets PROVE IsFiniteSet(S) /\ Cardinality(S) \in Nat /\ Cardinality(S) <= Cardinality(Packets)
  BY Sizes, FS_Subset, FS_CardinalityType
<1> HIDE DEF U
<1>5. IsFiniteSet(U) /\ Cardinality(U) \in Nat /\ Cardinality(U) <= Cardinality(Packets)
  BY <1>3, <1>4
<1>6. \A d \in Dpcs : IsFiniteSet(D[d]) /\ Cardinality(D[d]) \in Nat
  BY <1>4
<1>7. IsFiniteSet(DataPackets)
  BY <1>1, <1>4
<1> QED BY <1>1, <1>2, <1>3, <1>5, <1>6, <1>7 DEF U

\* No packet outstanding: the ring and the DPCs have none.
LEMMA NoneOutstanding ==
  ASSUME TxIInv, Outstanding, tx_outstanding = 0
  PROVE  DataPackets = {} /\ DataSlots = {} /\ \A d \in Dpcs : tx_packets[d] = 0
<1>1. PICK D \in [Dpcs -> SUBSET Packets] : Counts(D)
  BY DEF Outstanding
<1> DEFINE U == DataPackets \cup UNION {D[d] : d \in Dpcs}
<1>2. IsFiniteSet(U)
  BY UnionFacts
<1>3. Cardinality(U) = 0
  BY <1>1 DEF Counts
<1> HIDE DEF U
<1>4. U = {}
  BY <1>2, <1>3, FS_EmptySet
<1>5. DataPackets = {} /\ \A d \in Dpcs : D[d] = {}
  BY <1>4 DEF U
<1>6. Cardinality({}) = 0
  BY FS_EmptySet
<1>7. \A d \in Dpcs : tx_packets[d] = 0
  BY <1>1, <1>5, <1>6 DEF Counts
<1> QED BY <1>5, <1>7 DEF DataPackets

LEMMA CountsStay ==
  ASSUME TxIInv, Outstanding, UNCHANGED <<tx_packets, tx_outstanding>>, DataPackets' = DataPackets,
         accepted \subseteq accepted',
         \A p \in ToSet(tx_waiting_pkt_list)' : p \in ToSet(tx_waiting_pkt_list) \/ NB_NBL(p) \notin accepted
  PROVE  Outstanding'
<1>1. PICK D \in [Dpcs -> SUBSET Packets] : Counts(D)
  BY DEF Outstanding
<1>2. \A d \in Dpcs : D[d] \cap (ToSet(tx_waiting_pkt_list)' \cup DataPackets') = {}
  BY <1>1 DEF Counts
<1>3. Counts(D)'
  BY <1>1, <1>2 DEF Counts
<1> QED BY <1>3 DEF Outstanding

LEMMA LockMoves ==
  ASSUME TxTypeOK, Locked, Orderly' => Orderly, NEW a \in Actors, NEW from, NEW to, Goto(a, from, to),
         \/ tx_lock' = tx_lock /\ (from \in UnderLock <=> to \in UnderLock)
         \/ tx_lock' = NoOne /\ from \in UnderLock /\ to \notin UnderLock
         \/ tx_lock' = a /\ tx_lock = NoOne /\ from \notin UnderLock /\ to \in UnderLock
  PROVE  Locked'
<1> SUFFICES ASSUME Orderly' PROVE \A b \in Actors : tx_lock' = b <=> pc'[b] \in UnderLock
  BY DEF Locked
<1>1. \A b \in Actors : tx_lock = b <=> pc[b] \in UnderLock
  BY DEF Locked
<1>2. pc[a] = from /\ pc'[a] = to /\ \A b \in Actors : b # a => pc'[b] = pc[b]
  BY DEF Goto, TxTypeOK
<1>3. NoOne \notin Actors
  BY NetTxAssumption DEF Actors
<1> QED BY <1>1, <1>2, <1>3

\* Steps that count nothing and take no id.
LEMMA FirstFrame ==
  ASSUME TxIInv, First,
         UNCHANGED <<suspends, pm, tx_id_list, tx_shadows, tx_packets, chain, tx_outstanding, accepted>>,
         ToSet(tx_waiting_pkt_list)' \subseteq ToSet(tx_waiting_pkt_list), DataPackets' = DataPackets,
         Locked',
         \A a \in Actors : \/ pc'[a] = pc[a]
                           \/ pc'[a] # "relock" /\ (pm \in Down => pc'[a] \notin Working)
  PROVE  First'
<1>1. Outstanding'
  BY CountsStay DEF First
<1>2. ToSet(tx_id_list)' = ToSet(tx_id_list)
  OBVIOUS
<1>3. FreeShadows'
  BY <1>2 DEF First, FreeShadows
<1>4. Dpcs \subseteq Actors
  BY ActorsAre
<1>5. Chained'
  BY <1>4 DEF First, Chained
<1>6. Drained'
  BY DEF First, Drained
<1> QED BY <1>1, <1>3, <1>5, <1>6 DEF First

LEMMA SameOrder == UNCHANGED <<suspends, pm>> => (Orderly' <=> Orderly)
BY DEF Orderly

LEMMA SendersFirst ==
  ASSUME TxIInv, First, NEW a \in Actors, NotActive(a) \/ Active(a) \/ Stop(a) \/ Push(a)
  PROVE  First'
<1>1. UNCHANGED <<suspends, pm, tx_waiting_pkt_list, tx_id_list, tx_shadows, tx_packets, chain, tx_outstanding, accepted>>
  BY DEF NotActive, Active, Stop, Push, driver, shared, locals, history, bounds
<1>2. DataPackets' = DataPackets
  <2>1. CASE NotActive(a) \/ Active(a) \/ Stop(a)
    <3>1. ring' = ring
      BY <2>1 DEF NotActive, Active, Stop, shared
    <3> QED BY <3>1 DEF DataPackets, DataSlots
  <2>2. CASE Push(a)
    BY <2>2, PublishKeeps
  <2> QED BY <2>1, <2>2
<1>3. TxTypeOK /\ Locked /\ (Orderly' => Orderly)
  BY <1>1, SameOrder DEF TxIInv, First
<1>4. AfterSend(a) \in {"idle", "complete"}
  BY DEF AfterSend
<1>5. PICK from \in TxPlaces, to \in TxPlaces :
        /\ Goto(a, from, to)
        /\ \/ tx_lock' = tx_lock /\ (from \in UnderLock <=> to \in UnderLock)
           \/ tx_lock' = NoOne /\ from \in UnderLock /\ to \notin UnderLock
        /\ to # "relock"
        /\ from \in Working \/ device_state = "active" \/ to \notin Working
  <2>1. CASE NotActive(a)
    BY <1>4, <2>1 DEF NotActive, UnderLock, Working, TxPlaces
  <2>2. CASE Active(a)
    BY <2>2 DEF Active, driver, UnderLock, Working, TxPlaces
  <2>3. CASE Stop(a)
    BY <2>3 DEF Stop, driver, UnderLock, Working, TxPlaces
  <2>4. CASE Push(a)
    BY <1>4, <2>4 DEF Push, UnderLock, Working, TxPlaces
  <2> QED BY <2>1, <2>2, <2>3, <2>4
<1>6. Locked'
  BY <1>3, <1>5, LockMoves
<1>7. pm \in Down => from \notin Working /\ device_state # "active"
  <2>1. device_state = "active" <=> pm = "on"
    BY DEF TxIInv, Lateness
  <2>2. pc[a] = from
    BY <1>5 DEF Goto
  <2> QED BY <2>1, <2>2 DEF First, Drained, Down
<1>8. \A b \in Actors : \/ pc'[b] = pc[b]
                        \/ pc'[b] # "relock" /\ (pm \in Down => pc'[b] \notin Working)
  <2>1. pc'[a] = to /\ \A b \in Actors : b # a => pc'[b] = pc[b]
    BY <1>3, <1>5 DEF Goto, TxTypeOK
  <2> QED BY <1>5, <1>7, <2>1
<1>9. ToSet(tx_waiting_pkt_list)' = ToSet(tx_waiting_pkt_list)
  BY <1>1
<1> QED BY <1>1, <1>2, <1>6, <1>8, <1>9, FirstFrame

LEMMA DpcsFirst ==
  ASSUME TxIInv, First, NEW d \in Dpcs, RxTxDpc(d) \/ TooLate(d) \/ Enter(d) \/ Arm(d) \/ Recheck(d)
  PROVE  First'
<1>1. UNCHANGED <<suspends, pm, tx_waiting_pkt_list, tx_id_list, tx_shadows, tx_packets, chain, tx_outstanding, accepted, ring>>
  BY DEF RxTxDpc, TooLate, Enter, Arm, Recheck, driver, shared, locals, history, bounds
<1>2. DataPackets' = DataPackets /\ ToSet(tx_waiting_pkt_list)' = ToSet(tx_waiting_pkt_list)
  BY <1>1 DEF DataPackets, DataSlots
<1>3. TxTypeOK /\ Locked /\ (Orderly' => Orderly) /\ d \in Actors
  BY <1>1, SameOrder, ActorsAre DEF TxIInv, First
<1>4. PICK from \in TxPlaces, to \in TxPlaces :
        /\ Goto(d, from, to)
        /\ \/ tx_lock' = tx_lock /\ (from \in UnderLock <=> to \in UnderLock)
           \/ tx_lock' = d /\ tx_lock = NoOne /\ from \notin UnderLock /\ to \in UnderLock
        /\ to # "relock"
        /\ from \in Working \/ device_state = "active" \/ tx_outstanding # 0 \/ to \notin Working
  <2>1. CASE RxTxDpc(d)
    BY <2>1 DEF RxTxDpc, driver, UnderLock, Working, TxPlaces
  <2>2. CASE TooLate(d)
    BY <2>2 DEF TooLate, driver, UnderLock, Working, TxPlaces
  <2>3. CASE Enter(d)
    BY <2>3 DEF Enter, UnderLock, Working, TxPlaces
  <2>4. CASE Arm(d)
    BY <2>4 DEF Arm, driver, UnderLock, Working, TxPlaces
  <2>5. CASE Recheck(d)
    BY <2>5 DEF Recheck, driver, UnderLock, Working, TxPlaces
  <2> QED BY <2>1, <2>2, <2>3, <2>4, <2>5
<1>5. Locked'
  BY <1>3, <1>4, LockMoves
<1>6. pm \in Down => from \notin Working /\ device_state # "active" /\ tx_outstanding = 0
  <2>1. device_state = "active" <=> pm = "on"
    BY DEF TxIInv, Lateness
  <2>2. pc[d] = from
    BY <1>4 DEF Goto
  <2> QED BY <1>3, <2>1, <2>2 DEF First, Drained, Down
<1>7. \A b \in Actors : \/ pc'[b] = pc[b]
                        \/ pc'[b] # "relock" /\ (pm \in Down => pc'[b] \notin Working)
  <2>1. pc'[d] = to /\ \A b \in Actors : b # d => pc'[b] = pc[b]
    BY <1>3, <1>4 DEF Goto, TxTypeOK
  <2> QED BY <1>4, <1>6, <2>1
<1> QED BY <1>1, <1>2, <1>5, <1>7, FirstFrame

LEMMA OutsideFirst ==
  ASSUME TxIInv, First, HandleEvent_DIRQL \/ BackendTake \/ BackendSleep \/ BackendAnswer
  PROVE  First'
<1>1. UNCHANGED <<suspends, pm, tx_lock, pc, tx_waiting_pkt_list, tx_id_list, tx_shadows, tx_packets, chain,
                  tx_outstanding, accepted>>
  BY DEF HandleEvent_DIRQL, BackendTake, BackendSleep, BackendAnswer, driver, locals, history, bounds
<1>2. DataPackets' = DataPackets
  <2>1. CASE HandleEvent_DIRQL \/ BackendSleep
    <3>1. ring' = ring
      BY <2>1 DEF HandleEvent_DIRQL, BackendSleep
    <3> QED BY <3>1 DEF DataPackets, DataSlots
  <2>2. CASE BackendTake \/ BackendAnswer
    BY <2>2, PublishKeeps
  <2> QED BY <2>1, <2>2
<1>3. ToSet(tx_waiting_pkt_list)' = ToSet(tx_waiting_pkt_list)
  BY <1>1
<1>4. Locked'
  <2>1. Orderly' => Orderly
    BY <1>1, SameOrder
  <2> QED BY <1>1, <2>1 DEF First, Locked
<1> QED BY <1>1, <1>2, <1>3, <1>4, FirstFrame

LEMMA SendListFirst ==
  ASSUME TxIInv, First, NEW s \in Senders, NEW n \in Nbls, SendNetBufferLists(s, n)
  PROVE  First'
<1>1. /\ n \notin accepted /\ accepted' = accepted \cup {n} /\ Goto(s, "idle", "check")
      /\ tx_lock = NoOne /\ tx_lock' = s
      /\ tx_waiting_pkt_list' = tx_waiting_pkt_list \o NetBuffers[n]
      /\ UNCHANGED <<suspends, pm, tx_id_list, tx_shadows, tx_packets, chain, tx_outstanding, ring>>
  BY DEF SendNetBufferLists, shared, locals, bounds
<1>2. TxTypeOK /\ s \in Actors /\ (Orderly' => Orderly)
  BY <1>1, ActorsAre, SameOrder DEF TxIInv
<1>3. Locked'
  BY <1>1, <1>2, LockMoves DEF First, UnderLock
<1>4. DataPackets' = DataPackets /\ ToSet(tx_id_list)' = ToSet(tx_id_list)
  BY <1>1 DEF DataPackets, DataSlots
<1>5. \A p \in ToSet(tx_waiting_pkt_list)' : p \in ToSet(tx_waiting_pkt_list) \/ NB_NBL(p) \notin accepted
  <2>1. tx_waiting_pkt_list \in Seq(Packets) /\ NetBuffers[n] \in Seq(Packets)
    BY <1>2, ListFacts DEF TxTypeOK
  <2>2. ToSet(tx_waiting_pkt_list') = ToSet(tx_waiting_pkt_list) \cup ToSet(NetBuffers[n])
    BY <1>1, <2>1, Joined
  <2>3. \A p \in ToSet(NetBuffers[n]) : NB_NBL(p) = n
    BY ListFacts
  <2>4. ToSet(tx_waiting_pkt_list)' = ToSet(tx_waiting_pkt_list')
    OBVIOUS
  <2> QED BY <1>1, <2>2, <2>3, <2>4
<1>6. Outstanding'
  BY <1>1, <1>4, <1>5, CountsStay DEF First
<1>7. FreeShadows'
  BY <1>1, <1>4 DEF First, FreeShadows
<1>8. \A a \in Actors : pc'[a] = pc[a] \/ pc'[a] = "check"
  BY <1>1, <1>2 DEF Goto, TxTypeOK
<1>9. Chained'
  BY <1>1, <1>8, ActorsAre DEF First, Chained
<1>10. Drained'
  BY <1>1, <1>8 DEF First, Drained, Working
<1> QED BY <1>1, <1>3, <1>6, <1>7, <1>9, <1>10 DEF First

LEMMA HWSendPacketFirst ==
  ASSUME TxIInv, First, NEW a \in Actors, NEW k \in 1 .. RING_SIZE, HWSendPacket(a, k)
  PROVE  First'
<1> DEFINE p == Head(tx_waiting_pkt_list)
<1>1. /\ pc[a] = "send" /\ tx_outstanding' = tx_outstanding + 1
      /\ UNCHANGED <<suspends, pm, tx_lock, pc, tx_packets, chain, accepted>>
  BY DEF HWSendPacket, locals
<1>2. /\ ToSet(tx_waiting_pkt_list)' = ToSet(tx_waiting_pkt_list) \ {p}
      /\ p \in ToSet(tx_waiting_pkt_list)
      /\ DataPackets' = DataPackets \cup {p}
      /\ \A id \in ToSet(tx_id_list') : id \in ToSet(tx_id_list) /\ tx_shadows'[id] = tx_shadows[id]
  BY HWSendPacketKeeps
<1> HIDE DEF p
<1>3. ~(pm \in Down)
  BY <1>1 DEF First, Drained, Working
<1>4. Drained'
  BY <1>1, <1>3 DEF Drained
<1>5. Chained'
  BY <1>1 DEF First, Chained
<1>6. FreeShadows'
  BY <1>2 DEF First, FreeShadows
<1>7. Locked'
  BY <1>1, SameOrder DEF First, Locked
<1>8. Outstanding'
  <2>1. PICK D \in [Dpcs -> SUBSET Packets] : Counts(D)
    BY DEF First, Outstanding
  <2> DEFINE V == UNION {D[d] : d \in Dpcs}
  <2>2. p \notin DataPackets
    BY <1>2 DEF TxIInv, Places, DataPackets, DataSlots
  <2>3. \A d \in Dpcs : p \notin D[d]
    BY <1>2, <2>1 DEF Counts
  <2>4. p \notin DataPackets \cup V
    BY <2>2, <2>3
  <2>5. IsFiniteSet(DataPackets \cup V) /\ tx_outstanding = Cardinality(DataPackets \cup V)
    BY <2>1, UnionFacts DEF Counts
  <2>6. DataPackets' \cup V = (DataPackets \cup V) \cup {p}
    BY <1>2
  <2> HIDE DEF V
  <2>7. Cardinality(DataPackets' \cup V) = tx_outstanding + 1
    BY <2>4, <2>5, <2>6, FS_AddElement
  <2>8. tx_outstanding' = Cardinality(DataPackets' \cup UNION {D[d] : d \in Dpcs})
    BY <1>1, <2>7 DEF V
  <2>9. \A d \in Dpcs : D[d] \cap (ToSet(tx_waiting_pkt_list)' \cup DataPackets') = {}
    BY <1>2, <2>1, <2>3 DEF Counts
  <2>10. Counts(D)'
    BY <1>1, <2>1, <2>8, <2>9 DEF Counts
  <2> QED BY <2>10 DEF Outstanding
<1> QED BY <1>1, <1>4, <1>5, <1>6, <1>7, <1>8 DEF First

LEMMA HarvestFirst ==
  ASSUME TxIInv, First, NEW d \in Dpcs, Harvest(d)
  PROVE  First'
<1>1. /\ Goto(d, "harvest", IF dont_set_event[d] THEN "recheck" ELSE "arm")
      /\ tx_shadows' = [id \in Ids |-> IF id \in AnsweredIds THEN NoShadow ELSE tx_shadows[id]]
      /\ chain' = [chain EXCEPT ![d] = chain[d] \cup ChainDone]
      /\ tx_packets' = [tx_packets EXCEPT ![d] = tx_packets[d] + Cardinality(DonePackets)]
      /\ UNCHANGED <<suspends, pm, tx_lock, tx_waiting_pkt_list, tx_outstanding, accepted>>
  BY DEF Harvest, history, bounds
<1>2. TxTypeOK /\ d \in Actors /\ (Orderly' => Orderly)
  BY <1>1, ActorsAre, SameOrder DEF TxIInv
<1>3. Locked'
  <2>1. "harvest" \in UnderLock /\ (IF dont_set_event[d] THEN "recheck" ELSE "arm") \in UnderLock
    BY DEF UnderLock
  <2> QED BY <1>1, <1>2, <2>1, LockMoves DEF First
<1>4. DataPackets' = DataPackets \ DonePackets /\ ToSet(tx_id_list)' = ToSet(tx_id_list) \cup AnsweredIds
  BY HarvestRing
<1>5. DonePackets \subseteq DataPackets /\ DataPackets \subseteq Packets /\ AnsweredIds \subseteq Ids
  <2>1. \A e \in DataSlots : e.packet \in Packets
    BY Slot DEF DataSlots
  <2> QED BY <2>1, DoneFacts DEF DataPackets
<1>6. FreeShadows'
  <2>1. ToSet(tx_id_list) \subseteq Ids
    BY <1>2, Elements DEF TxTypeOK
  <2> QED BY <1>1, <1>4, <1>5, <2>1 DEF First, FreeShadows
<1>7. pc[d] = "harvest" /\ pc'[d] # "relock" /\ \A a \in Actors : a # d => pc'[a] = pc[a]
  BY <1>1, <1>2 DEF Goto, TxTypeOK
<1>8. ~(pm \in Down)
  BY <1>2, <1>7 DEF First, Drained, Working
<1>9. Drained'
  BY <1>1, <1>8 DEF Drained
<1>10. IsFiniteSet(DonePackets) /\ Cardinality(DonePackets) \in Nat
  BY <1>5, Sizes, FS_Subset, FS_CardinalityType
<1>11. Chained'
  <2>1. ChainDone # {} => DonePackets # {}
    BY DEF ChainDone, DoneOf
  <2>2. DonePackets # {} => Cardinality(DonePackets) # 0
    BY <1>10, FS_EmptySet
  <2>3. tx_packets[d] \in Nat /\ tx_packets'[d] = tx_packets[d] + Cardinality(DonePackets)
        /\ chain'[d] = chain[d] \cup ChainDone
    BY <1>1, <1>2 DEF TxTypeOK
  <2>4. chain'[d] # {} => tx_packets'[d] # 0
    <3>1. chain[d] # {} => tx_packets[d] # 0
      BY DEF First, Chained
    <3> QED BY <1>10, <2>1, <2>2, <2>3, <3>1
  <2>5. \A c \in Dpcs : c # d => chain'[c] = chain[c] /\ tx_packets'[c] = tx_packets[c]
    BY <1>1, <1>2 DEF TxTypeOK
  <2> QED BY <1>7, <2>4, <2>5, ActorsAre DEF First, Chained
<1>12. Outstanding'
  <2>1. PICK D \in [Dpcs -> SUBSET Packets] : Counts(D)
    BY DEF First, Outstanding
  <2>2. PICK done \in SUBSET Packets : done = DonePackets
    BY <1>5
  <2> DEFINE E == [D EXCEPT ![d] = D[d] \cup done]
  <2>3. E \in [Dpcs -> SUBSET Packets] /\ E[d] = D[d] \cup done /\ \A c \in Dpcs : c # d => E[c] = D[c]
    OBVIOUS
  <2> HIDE DEF E
  <2>4. \A c \in Dpcs : D[c] \cap done = {}
    BY <1>5, <2>1, <2>2 DEF Counts
  <2>5. IsFiniteSet(D[d]) /\ Cardinality(D[d]) = tx_packets[d] /\ IsFiniteSet(done)
    BY <1>10, <2>1, <2>2, UnionFacts DEF Counts
  <2>6. Cardinality(E[d]) = tx_packets[d] + Cardinality(done)
    <3>1. Cardinality(D[d] \cup done) = Cardinality(D[d]) + Cardinality(done) - Cardinality(D[d] \cap done)
      BY <2>5, FS_Union
    <3>2. Cardinality(D[d] \cap done) = 0
      BY <2>4, FS_EmptySet
    <3>3. Cardinality(D[d]) \in Nat /\ Cardinality(done) \in Nat
      BY <2>5, FS_CardinalityType
    <3>4. Cardinality(E[d]) = Cardinality(D[d]) + Cardinality(done) - 0
      BY <2>3, <3>1, <3>2
    <3> QED BY <2>5, <3>3, <3>4
  <2>7. \A c \in Dpcs : Cardinality(E[c]) = tx_packets'[c]
    <3>1. tx_packets'[d] = tx_packets[d] + Cardinality(done) /\ \A c \in Dpcs : c # d => tx_packets'[c] = tx_packets[c]
      BY <1>1, <1>2, <2>2 DEF TxTypeOK
    <3>2. \A c \in Dpcs : Cardinality(D[c]) = tx_packets[c]
      BY <2>1 DEF Counts
    <3> QED BY <2>3, <2>6, <3>1, <3>2
  <2>8. ToSet(tx_waiting_pkt_list)' = ToSet(tx_waiting_pkt_list)
    BY <1>1
  <2>9. \A p \in DataPackets : p \notin ToSet(tx_waiting_pkt_list) /\ NB_NBL(p) \in accepted
    BY DEF TxIInv, Places, DataPackets, DataSlots
  <2>10. \A c \in Dpcs : E[c] \cap (ToSet(tx_waiting_pkt_list)' \cup DataPackets') = {}
    <3>1. \A c \in Dpcs : D[c] \cap (ToSet(tx_waiting_pkt_list) \cup DataPackets) = {}
      BY <2>1 DEF Counts
    <3>2. done \cap (ToSet(tx_waiting_pkt_list) \cup DataPackets') = {}
      BY <1>4, <1>5, <2>2, <2>9
    <3>3. DataPackets' \subseteq DataPackets
      BY <1>4
    <3> QED BY <2>3, <2>8, <3>1, <3>2, <3>3
  <2>11. \A c \in Dpcs : \A p \in E[c] : NB_NBL(p) \in accepted
    BY <1>5, <2>1, <2>2, <2>3, <2>9 DEF Counts
  <2>12. \A b, c \in Dpcs : E[b] \cap E[c] # {} => b = c
    <3>1. \A b, c \in Dpcs : D[b] \cap D[c] # {} => b = c
      BY <2>1 DEF Counts
    <3> QED BY <2>3, <2>4, <3>1
  <2>13. DataPackets' \cup UNION {E[c] : c \in Dpcs} = DataPackets \cup UNION {D[c] : c \in Dpcs}
    <3>1. \A p : (\E c \in Dpcs : p \in E[c]) <=> (p \in done \/ \E c \in Dpcs : p \in D[c])
      BY <2>3
    <3>2. UNION {E[c] : c \in Dpcs} = done \cup UNION {D[c] : c \in Dpcs}
      BY <3>1
    <3> QED BY <1>4, <1>5, <2>2, <3>2
  <2>14. Counts(E)'
    BY <1>1, <2>1, <2>7, <2>10, <2>11, <2>12, <2>13 DEF Counts
  <2> QED BY <2>3, <2>14 DEF Outstanding
<1> QED BY <1>1, <1>3, <1>6, <1>9, <1>11, <1>12 DEF First

LEMMA CompleteFirst ==
  ASSUME TxIInv, First, NEW d \in Dpcs, Complete(d)
  PROVE  First'
<1>1. /\ Goto(d, "complete", "relock") /\ chain' = [chain EXCEPT ![d] = {}]
      /\ UNCHANGED <<suspends, pm, tx_lock, tx_waiting_pkt_list, tx_id_list, tx_shadows, tx_packets, ring,
                     tx_outstanding, accepted>>
  BY DEF Complete, driver, shared, bounds
<1>2. TxTypeOK /\ d \in Actors /\ (Orderly' => Orderly)
  BY <1>1, ActorsAre, SameOrder DEF TxIInv
<1>3. Locked'
  BY <1>1, <1>2, LockMoves DEF First, UnderLock
<1>4. DataPackets' = DataPackets /\ ToSet(tx_id_list)' = ToSet(tx_id_list)
      /\ ToSet(tx_waiting_pkt_list)' = ToSet(tx_waiting_pkt_list)
  BY <1>1 DEF DataPackets, DataSlots
<1>5. Outstanding'
  BY <1>1, <1>4, CountsStay DEF First
<1>6. FreeShadows'
  BY <1>1, <1>4 DEF First, FreeShadows
<1>7. pc'[d] = "relock" /\ \A a \in Actors : a # d => pc'[a] = pc[a]
  BY <1>1, <1>2 DEF Goto, TxTypeOK
<1>8. chain'[d] = {} /\ \A c \in Dpcs : c # d => chain'[c] = chain[c]
  BY <1>1, <1>2 DEF TxTypeOK
<1>9. Chained'
  BY <1>1, <1>7, <1>8, ActorsAre DEF First, Chained
<1>10. Drained'
  BY <1>1, <1>7 DEF First, Drained, Working
<1> QED BY <1>1, <1>3, <1>5, <1>6, <1>9, <1>10 DEF First

LEMMA RelockFirst ==
  ASSUME TxIInv, First, NEW d \in Dpcs, Relock(d)
  PROVE  First'
<1>1. /\ Goto(d, "relock", "idle") /\ tx_outstanding' = tx_outstanding - tx_packets[d]
      /\ tx_packets' = [tx_packets EXCEPT ![d] = 0]
      /\ UNCHANGED <<suspends, pm, tx_lock, tx_waiting_pkt_list, tx_id_list, tx_shadows, chain, ring, accepted>>
  BY DEF Relock, shared, history, bounds
<1>2. TxTypeOK /\ d \in Actors /\ (Orderly' => Orderly)
  BY <1>1, ActorsAre, SameOrder DEF TxIInv
<1>3. Locked'
  BY <1>1, <1>2, LockMoves DEF First, UnderLock
<1>4. DataPackets' = DataPackets /\ ToSet(tx_id_list)' = ToSet(tx_id_list)
      /\ ToSet(tx_waiting_pkt_list)' = ToSet(tx_waiting_pkt_list)
  BY <1>1 DEF DataPackets, DataSlots
<1>5. FreeShadows'
  BY <1>1, <1>4 DEF First, FreeShadows
<1>6. pc[d] = "relock" /\ pc'[d] = "idle" /\ \A a \in Actors : a # d => pc'[a] = pc[a]
  BY <1>1, <1>2 DEF Goto, TxTypeOK
<1>7. tx_packets'[d] = 0 /\ \A c \in Dpcs : c # d => tx_packets'[c] = tx_packets[c]
  BY <1>1, <1>2 DEF TxTypeOK
<1>8. Chained'
  BY <1>1, <1>6, <1>7, ActorsAre DEF First, Chained
<1>9. Drained'
  <2>1. ASSUME pm \in Down PROVE tx_outstanding' = 0
    <3>1. tx_outstanding = 0
      BY <2>1 DEF First, Drained
    <3>2. tx_packets[d] = 0
      BY <3>1, NoneOutstanding DEF First
    <3> QED BY <1>1, <3>1, <3>2
  <2> QED BY <1>1, <1>6, <2>1 DEF First, Drained, Working
<1>10. Outstanding'
  <2>1. PICK D \in [Dpcs -> SUBSET Packets] : Counts(D)
    BY DEF First, Outstanding
  <2> DEFINE E == [D EXCEPT ![d] = {}]
             U == DataPackets \cup UNION {D[c] : c \in Dpcs}
  <2>2. E \in [Dpcs -> SUBSET Packets] /\ E[d] = {} /\ \A c \in Dpcs : c # d => E[c] = D[c]
    OBVIOUS
  <2> HIDE DEF E
  <2>3. \A b, c \in Dpcs : D[b] \cap D[c] # {} => b = c
    BY <2>1 DEF Counts
  <2>4. D[d] \cap DataPackets = {}
    BY <2>1 DEF Counts
  <2>5. DataPackets \cup UNION {E[c] : c \in Dpcs} = U \ D[d]
    <3>1. \A p : (\E c \in Dpcs : p \in E[c]) <=> (p \notin D[d] /\ \E c \in Dpcs : p \in D[c])
      BY <2>2, <2>3
    <3>2. UNION {E[c] : c \in Dpcs} = (UNION {D[c] : c \in Dpcs}) \ D[d]
      BY <3>1
    <3> QED BY <2>4, <3>2
  <2>6. D[d] \subseteq U
    OBVIOUS
  <2>7. IsFiniteSet(U) /\ Cardinality(U) = tx_outstanding /\ IsFiniteSet(D[d]) /\ Cardinality(D[d]) = tx_packets[d]
    BY <2>1, UnionFacts DEF Counts
  <2> HIDE DEF U
  <2>8. Cardinality(U \ D[d]) = tx_outstanding - tx_packets[d]
    <3> DEFINE X == D[d]
    <3>1. X \subseteq U /\ IsFiniteSet(X) /\ IsFiniteSet(U) /\ Cardinality(U) = tx_outstanding
          /\ Cardinality(X) = tx_packets[d]
      BY <2>6, <2>7
    <3> HIDE DEF X
    <3>2. IsFiniteSet(U \ X)
      BY <3>1, FS_Difference
    <3>3. Cardinality(X \cup (U \ X)) = Cardinality(X) + Cardinality(U \ X) - Cardinality(X \cap (U \ X))
      BY <3>1, <3>2, FS_Union
    <3>4. X \cup (U \ X) = U /\ X \cap (U \ X) = {}
      BY <3>1
    <3>5. Cardinality(U) = Cardinality(X) + Cardinality(U \ X) - 0
      BY <3>3, <3>4, FS_EmptySet
    <3>6. Cardinality(X) \in Nat /\ Cardinality(U \ X) \in Nat
      BY <3>1, <3>2, FS_CardinalityType
    <3>7. Cardinality(U \ X) = Cardinality(U) - Cardinality(X)
      BY <3>5, <3>6
    <3> QED BY <3>1, <3>7 DEF X
  <2>9. tx_outstanding' = Cardinality(DataPackets' \cup UNION {E[c] : c \in Dpcs})
    BY <1>1, <1>4, <2>5, <2>8
  <2>10. \A c \in Dpcs : Cardinality(E[c]) = tx_packets'[c]
    <3>1. \A c \in Dpcs : Cardinality(D[c]) = tx_packets[c]
      BY <2>1 DEF Counts
    <3> QED BY <1>7, <2>2, <3>1, FS_EmptySet
  <2>11. \A c \in Dpcs : E[c] \subseteq D[c]
    BY <2>2
  <2>12. \A b, c \in Dpcs : E[b] \cap E[c] # {} => b = c
    BY <2>3, <2>11
  <2>13. \A c \in Dpcs : E[c] \cap (ToSet(tx_waiting_pkt_list)' \cup DataPackets') = {}
    BY <1>4, <2>1, <2>11 DEF Counts
  <2>14. \A c \in Dpcs : \A p \in E[c] : NB_NBL(p) \in accepted'
    BY <1>1, <2>1, <2>11 DEF Counts
  <2>15. Counts(E)'
    BY <2>9, <2>10, <2>12, <2>13, <2>14 DEF Counts
  <2> QED BY <2>2, <2>15 DEF Outstanding
<1> QED BY <1>1, <1>3, <1>5, <1>8, <1>9, <1>10 DEF First

LEMMA SuspendFirst ==
  ASSUME TxIInv, First, suspends \in Nat, suspends' <= 1,
         Disconnect \/ BackendClosed \/ UnbindEvent \/ ShutdownWait \/ FreePackets \/ Resume
         \/ ConnectFails \/ Activate
  PROVE  First'
<1>1. UNCHANGED <<tx_lock, pc, tx_id_list, tx_shadows, tx_packets, chain, ring, tx_outstanding, accepted>>
  BY DEF Disconnect, BackendClosed, UnbindEvent, ShutdownWait, FreePackets, Resume, ConnectFails, Activate,
         driver, shared, locals, history
<1>2. DataPackets' = DataPackets /\ ToSet(tx_id_list)' = ToSet(tx_id_list)
  BY <1>1 DEF DataPackets, DataSlots
<1>3. ToSet(tx_waiting_pkt_list)' \subseteq ToSet(tx_waiting_pkt_list)
  <2>1. CASE FreePackets
    <3>1. CASE tx_waiting_pkt_list # <<>> /\ tx_waiting_pkt_list' = Tail(tx_waiting_pkt_list)
      <4>1. tx_waiting_pkt_list \in Seq(Packets) /\ IsInjective(tx_waiting_pkt_list)
        BY DEF TxIInv, TxTypeOK, Places
      <4>2. ToSet(Tail(tx_waiting_pkt_list)) \subseteq ToSet(tx_waiting_pkt_list)
        BY <3>1, <4>1, Rests
      <4>3. ToSet(tx_waiting_pkt_list)' = ToSet(Tail(tx_waiting_pkt_list))
        BY <3>1
      <4> QED BY <4>2, <4>3
    <3>2. CASE tx_waiting_pkt_list' = tx_waiting_pkt_list
      BY <3>2
    <3> QED BY <2>1, <3>1, <3>2 DEF FreePackets
  <2>2. CASE Disconnect \/ BackendClosed \/ UnbindEvent \/ ShutdownWait \/ Resume \/ ConnectFails \/ Activate
    <3>1. tx_waiting_pkt_list' = tx_waiting_pkt_list
      BY <2>2 DEF Disconnect, BackendClosed, UnbindEvent, ShutdownWait, Resume, ConnectFails, Activate, driver
    <3> QED BY <3>1
  <2> QED BY <2>1, <2>2
<1>4. Outstanding' /\ Chained' /\ FreeShadows'
  <2>1. Outstanding'
    BY <1>1, <1>2, <1>3, CountsStay DEF First
  <2> QED BY <1>1, <1>2, <2>1 DEF First, Chained, FreeShadows
<1>5. /\ suspends' = 0 => pm' = "on"
      /\ Orderly' => Orderly
      /\ pm' \in Down => pm \in Down \/ ShutdownWait
  <2>1. suspends = 0 => pm = "on"
    BY DEF First
  <2>2. CASE Disconnect
    BY <2>1, <2>2 DEF Disconnect, Orderly, Down
  <2>3. CASE BackendClosed
    BY <2>1, <2>3 DEF BackendClosed, Orderly, Down, bounds
  <2>4. CASE UnbindEvent
    BY <2>1, <2>4 DEF UnbindEvent, Orderly, Down, bounds
  <2>5. CASE ShutdownWait
    BY <2>1, <2>5 DEF ShutdownWait, Orderly, Down, bounds
  <2>6. CASE FreePackets
    BY <2>1, <2>6 DEF FreePackets, Orderly, Down, bounds
  <2>7. CASE Resume
    BY <2>1, <2>7 DEF Resume, Orderly, Down, bounds
  <2>8. CASE ConnectFails
    BY <2>1, <2>8 DEF ConnectFails, Orderly, Down
  <2>9. CASE Activate
    BY <2>1, <2>9 DEF Activate, Orderly, Down, bounds
  <2> QED BY <2>2, <2>3, <2>4, <2>5, <2>6, <2>7, <2>8, <2>9
<1>6. Locked'
  BY <1>1, <1>5 DEF First, Locked
<1>7. Drained'
  <2>1. CASE pm \in Down
    BY <1>1, <2>1 DEF First, Drained
  <2>2. CASE ShutdownWait
    <3>1. tx_lock = NoOne /\ tx_outstanding = 0 /\ Orderly
      BY <2>2 DEF ShutdownWait, Orderly
    <3>2. NoOne \notin Actors
      BY NetTxAssumption DEF Actors
    <3>3. \A a \in Actors : pc[a] \notin UnderLock
      BY <3>1, <3>2 DEF First, Locked
    <3> QED BY <1>1, <3>1, <3>3 DEF Drained, UnderLock, Working
  <2> QED BY <1>5, <2>1, <2>2 DEF Drained
<1> QED BY <1>4, <1>5, <1>6, <1>7 DEF First

LEMMA ConnectFirst ==
  ASSUME TxIInv, First, Connect
  PROVE  First'
<1>1. /\ pm = "connect" /\ pm' = "activate" /\ ring' = {}
      /\ tx_waiting_pkt_list' = <<>> /\ tx_id_list' = [i \in 1 .. RING_SIZE |-> i - 1]
      /\ tx_shadows' = [id \in Ids |-> [tx_shadows[id] EXCEPT !.gref = FALSE]]
      /\ tx_outstanding' = 0
      /\ UNCHANGED <<suspends, pc, chain, tx_packets, accepted>>
  BY DEF Connect, locals, bounds
<1>2. tx_outstanding = 0
  BY <1>1 DEF First, Drained, Down
<1>3. DataPackets = {} /\ DataSlots = {} /\ \A d \in Dpcs : tx_packets[d] = 0
  BY <1>2, NoneOutstanding DEF First
<1>4. \A id \in Ids : tx_shadows[id] = NoShadow
  BY <1>3 DEF First, FreeShadows, TxIInv, Slots
<1>5. FreeShadows'
  <2>1. ToSet(tx_id_list') = Ids
    BY <1>1, AllIds
  <2>2. [NoShadow EXCEPT !.gref = FALSE] = NoShadow
    <3>1. NoShadow \in [packet : {NoPacket}, gref : {FALSE}]
      BY DEF NoShadow
    <3>2. \A r \in [packet : {NoPacket}, gref : {FALSE}] : [r EXCEPT !.gref = FALSE] = r
      OBVIOUS
    <3> QED BY <3>1, <3>2
  <2>3. \A id \in Ids : tx_shadows'[id] = [tx_shadows[id] EXCEPT !.gref = FALSE]
    BY <1>1
  <2>4. \A id \in Ids : tx_shadows'[id] = NoShadow
    BY <1>4, <2>2, <2>3
  <2> QED BY <2>1, <2>4 DEF FreeShadows
<1>6. DataPackets' = DataPackets
  BY <1>1, <1>3 DEF DataPackets, DataSlots
<1>7. ToSet(tx_waiting_pkt_list)' = {}
  BY <1>1 DEF ToSet
<1>8. Outstanding'
  BY <1>1, <1>2, <1>6, <1>7, CountsStay DEF First
<1>9. Chained'
  BY <1>1 DEF First, Chained
<1>10. suspends # 0
  BY <1>1 DEF First
<1>11. Locked' /\ Drained'
  BY <1>1, <1>10 DEF Locked, Orderly, Drained, Down
<1> QED BY <1>1, <1>5, <1>8, <1>9, <1>10, <1>11 DEF First

\* What the transmit half promises up to its first suspend.
LEMMA FirstBegins == Init => FirstSuspend
<1> SUFFICES ASSUME Init PROVE FirstSuspend
  OBVIOUS
<1>1. /\ tx_lock = NoOne /\ tx_waiting_pkt_list = <<>> /\ tx_id_list = [i \in 1 .. RING_SIZE |-> i - 1]
      /\ tx_shadows = [id \in Ids |-> NoShadow] /\ tx_outstanding = 0 /\ ring = {}
  BY DEF Init
<1>2. /\ pc = [a \in Actors |-> "idle"] /\ chain = [d \in Dpcs |-> {}]
      /\ tx_packets = [d \in Dpcs |-> 0] /\ pm = "on" /\ suspends = 0
  BY DEF Init
<1>3. Locked
  <2>1. NoOne \notin Actors
    BY NetTxAssumption DEF Actors
  <2> QED BY <1>1, <1>2, <2>1 DEF Locked, UnderLock
<1>4. FreeShadows
  <2>1. ToSet(tx_id_list) = Ids
    BY <1>1, AllIds
  <2> QED BY <1>1, <2>1 DEF FreeShadows
<1>5. Outstanding
  <2> DEFINE D == [d \in Dpcs |-> {}]
  <2>1. DataPackets = {} /\ UNION {D[d] : d \in Dpcs} = {} /\ D \in [Dpcs -> SUBSET Packets]
        /\ \A d \in Dpcs : D[d] = {}
    BY <1>1 DEF DataPackets, DataSlots
  <2> HIDE DEF D
  <2>2. DataPackets \cup UNION {D[d] : d \in Dpcs} = {}
    BY <2>1
  <2>3. Counts(D)
    BY <1>1, <1>2, <2>1, <2>2, FS_EmptySet DEF Counts
  <2> QED BY <2>1, <2>3 DEF Outstanding
<1>6. Chained /\ Drained
  BY <1>2 DEF Chained, Drained, Down
<1>7. suspends \in Nat /\ (suspends = 0 => pm = "on")
  BY <1>2
<1> QED BY <1>3, <1>4, <1>5, <1>6, <1>7 DEF FirstSuspend, First

LEMMA FirstStutters ==
  ASSUME TxIInv, First, UNCHANGED vars
  PROVE  First'
<1>1. UNCHANGED <<suspends, pm, tx_lock, pc, tx_waiting_pkt_list, tx_id_list, tx_shadows, tx_packets, chain,
                  tx_outstanding, accepted, ring>>
  BY DEF vars, driver, shared, locals, history, bounds
<1>2. DataPackets' = DataPackets /\ ToSet(tx_waiting_pkt_list)' = ToSet(tx_waiting_pkt_list)
  BY <1>1 DEF DataPackets, DataSlots
<1>3. Locked'
  <2>1. Orderly' => Orderly
    BY <1>1, SameOrder
  <2> QED BY <1>1, <2>1 DEF First, Locked
<1> QED BY <1>1, <1>2, <1>3, FirstFrame

LEMMA FirstSteps == TxIInv /\ FirstSuspend /\ [Next]_vars => FirstSuspend'
<1> SUFFICES ASSUME TxIInv, FirstSuspend, [Next]_vars PROVE FirstSuspend'
  OBVIOUS
<1>1. suspends \in Nat
  BY DEF FirstSuspend
<1>2. suspends' = suspends \/ (Disconnect /\ suspends' = suspends + 1)
  <2>1. CASE \E s \in Senders, n \in Nbls : SendNetBufferLists(s, n)
    BY <2>1 DEF SendNetBufferLists, bounds
  <2>2. ASSUME NEW a \in Actors, SendQueuedPackets(a) PROVE suspends' = suspends
    BY <2>2 DEF SendQueuedPackets, NotActive, Active, Stop, Push, HWSendPacket, bounds
  <2>3. CASE HandleEvent_DIRQL \/ Backend
    BY <2>3 DEF HandleEvent_DIRQL, Backend, BackendTake, BackendSleep, BackendAnswer, BackendClosed, bounds
  <2>4. ASSUME NEW d \in Dpcs, RxTxDpc(d) \/ TxBufferGC(d) PROVE suspends' = suspends
    BY <2>4 DEF RxTxDpc, TxBufferGC, TooLate, Enter, Harvest, Arm, Recheck, Complete, Relock, bounds
  <2>5. CASE SuspendResume
    BY <2>5 DEF SuspendResume, Disconnect, UnbindEvent, ShutdownWait, FreePackets, Resume, Connect, ConnectFails,
                Activate, bounds
  <2>6. CASE UNCHANGED vars
    BY <2>6 DEF vars, bounds
  <2> QED BY <2>1, <2>2, <2>3, <2>4, <2>5, <2>6 DEF Next
<1>3. suspends' \in Nat /\ suspends <= suspends'
  BY <1>1, <1>2
<1>4. ASSUME suspends' <= 1 PROVE First'
  <2>1. First
    BY <1>1, <1>3, <1>4 DEF FirstSuspend
  <2>2. CASE \E s \in Senders, n \in Nbls : SendNetBufferLists(s, n)
    BY <2>1, <2>2, SendListFirst
  <2>3. ASSUME NEW a \in Actors, SendQueuedPackets(a) PROVE First'
    BY <2>1, <2>3, SendersFirst, HWSendPacketFirst DEF SendQueuedPackets
  <2>4. CASE HandleEvent_DIRQL \/ Backend
    BY <1>1, <1>4, <2>1, <2>4, OutsideFirst, SuspendFirst DEF Backend
  <2>5. ASSUME NEW d \in Dpcs, RxTxDpc(d) \/ TxBufferGC(d) PROVE First'
    BY <2>1, <2>5, DpcsFirst, HarvestFirst, CompleteFirst, RelockFirst DEF TxBufferGC
  <2>6. CASE SuspendResume
    BY <1>1, <1>4, <2>1, <2>6, SuspendFirst, ConnectFirst DEF SuspendResume
  <2>7. CASE UNCHANGED vars
    BY <2>1, <2>7, FirstStutters
  <2> QED BY <2>2, <2>3, <2>4, <2>5, <2>6, <2>7 DEF Next
<1> QED BY <1>3, <1>4 DEF FirstSuspend

LEMMA FirstSays == TxIInv /\ FirstSuspend => (suspends <= 1 => SlotsSound)
<1> SUFFICES ASSUME TxIInv, First PROVE SlotsSound
  BY DEF FirstSuspend
<1>1. /\ Len(tx_id_list) + Cardinality(DataSlots) = RING_SIZE /\ Len(tx_id_list) \in Nat
      /\ tx_ring_free + Cardinality(ring) = RING_SIZE
      /\ Cardinality(DataSlots) \in Nat /\ Cardinality(ring) \in Nat /\ tx_ring_free \in Nat
      /\ RING_SIZE \in Nat
  <2>1. tx_id_list \in Seq(Ids)
    BY DEF TxIInv, TxTypeOK
  <2>2. Len(tx_id_list) \in Nat
    BY <2>1
  <2> QED BY <2>2, IdsAddUp, Sizes DEF TxIInv, TxTypeOK, Slots
<1>2. EnoughIds
  BY <1>1 DEF EnoughIds, TxIInv, Slots, First, FreeShadows
<1>3. QuietAfterShutdown
  <2> SUFFICES ASSUME pm \in Down
               PROVE  /\ \A id \in Ids : tx_shadows[id] = NoShadow
                      /\ \A a \in Actors : pc[a] \notin Working
                      /\ \A d \in Dpcs : chain[d] = {}
    BY DEF QuietAfterShutdown, Down, Working
  <2>1. tx_outstanding = 0 /\ \A a \in Actors : pc[a] \notin Working
    BY DEF First, Drained
  <2>2. DataSlots = {} /\ \A d \in Dpcs : tx_packets[d] = 0
    BY <2>1, NoneOutstanding DEF First
  <2>3. \A id \in Ids : tx_shadows[id] = NoShadow
    BY <2>2 DEF First, FreeShadows, TxIInv, Slots
  <2> QED BY <2>1, <2>2, <2>3 DEF First, Chained
<1>4. TypeOK
  <2>1. TxTypeOK
    BY DEF TxIInv
  <2>2. tx_ring_free \in 0 .. RING_SIZE /\ Len(tx_id_list) <= RING_SIZE
    BY <1>1
  <2>3. tx_outstanding \in 0 .. Cardinality(Packets)
    <3>1. PICK D \in [Dpcs -> SUBSET Packets] : Counts(D)
      BY DEF First, Outstanding
    <3>2. tx_outstanding \in Nat /\ tx_outstanding <= Cardinality(Packets)
      BY <3>1, UnionFacts DEF Counts
    <3> QED BY <3>2, Sizes
  <2>4. nbl_ref \in [Nbls -> 0 .. Cardinality(Packets)]
    <3>1. ASSUME NEW n \in Nbls PROVE nbl_ref[n] \in 0 .. Cardinality(Packets)
      <4>1. /\ Cardinality(Held(n)) \in Nat /\ nbl_ref[n] \in Int
            /\ Cardinality(Held(n)) <= nbl_ref[n] /\ nbl_ref[n] <= Cardinality(Packets)
        BY HeldFacts
      <4> QED BY <4>1, Sizes
    <3> QED BY <2>1, <3>1 DEF TxTypeOK
  <2> QED BY <2>1, <2>2, <2>3, <2>4 DEF TxTypeOK, TypeOK, TxPlaces, Shadows
<1> QED BY <1>2, <1>3, <1>4 DEF SlotsSound

\* Both invariants are one induction: what holds up to the first suspend needs the lists.
THEOREM FirstInvariance == Spec => [](TxIInv /\ FirstSuspend)
<1>1. Init => TxIInv /\ FirstSuspend
  BY TxBegins, FirstBegins
<1>2. TxIInv /\ FirstSuspend /\ [Next]_vars => TxIInv' /\ FirstSuspend'
  BY TxSteps, FirstSteps
<1> QED BY <1>1, <1>2, PTL DEF Spec

\* Ids, slots, grants and tx_outstanding add up, and after XenNet_TxShutdown nobody uses the
\* ring, for as long as the device has been suspended at most once.  After that XenNet_TxInit
\* has initialised a lock that a sender may hold, and the next shutdown may overtake it.
THEOREM SlotsKept == Spec => [](suspends <= 1 => SlotsSound)
<1>1. TxIInv /\ FirstSuspend => (suspends <= 1 => SlotsSound)
  BY FirstSays
<1> QED BY <1>1, FirstInvariance, PTL
-----------------------------------------------------------------------------
(***************************************************************************)
(* XenbusDevice: what a write has copied are the next parts of the         *)
(* program's messages, in order, and u.buffer has those of the message     *)
(* that is put together, until a write goes beyond its end; a context is   *)
(* in XenBus's table only while the handle has it, and each that the       *)
(* handle has is counted as a reference.                                   *)
(***************************************************************************)
Blank == ""
Texts == {"REPLY", "ERROR", "EVENT"}
Replies == Texts \X Nat \X {Blank}
Pieces == Replies \X {1, 2}
Writes == [pc : Device!Places, src : Seq(Nat \X Nat), dst : Nat, rep : Replies \cup {<<>>}, ctx : Nat]
Cleanups == [pc : {"open", "loop", "unwatch", "done"}, ctx : Nat]

DeviceTypeOK ==
  /\ reading \in [Threads -> Lengths \cup {0}] /\ entering \in [Threads -> Lengths \cup {0}]
  /\ io_queue \in Seq(Threads)
  /\ read_list \in Seq(Pieces) /\ queued \in Seq(Pieces) /\ given \in Seq(Pieces)
  /\ w \in Writes /\ key = Blank
  /\ buffer \in [1 .. 2 -> Nat \X Nat] /\ len \in 0 .. 2 /\ overrun \in BOOLEAN
  /\ written \in 0 .. 2 * Len(Script)
  /\ watch_list \subseteq Device!Contexts /\ table \subseteq Device!Contexts
  /\ freed \subseteq Device!Contexts /\ refs \in Int
  /\ callee \in Device!Contexts \cup {Nobody} /\ owed \in [Device!Contexts -> Nat]
  /\ cleanup \in Cleanups

\* The parts of the program's messages, one after the other, and how many have been copied.
Part(k) == <<k \div 2 + 1, (k % 2) + 1>>
Copied == written - Len(w.src)

Copying == w.pc \in {"idle", "copy"}
Source ==
  /\ Len(w.src) <= written
  /\ \A k \in 1 .. Len(w.src) : w.src[k] = Part(Copied + k - 1)
  /\ w.pc = "idle" => w.src = <<>>
  /\ w.pc = "reply" => w.rep \in Replies
Assembled ==
  /\ Copying <=> len < 2
  /\ w.pc = "copy" => w.dst = len \/ w.dst >= 2
  /\ ~Copying => w.dst >= 2
  /\ \E m \in Nat : /\ Copied = 2 * m + len
                    /\ ~overrun => \A p \in 1 .. len : buffer[p] = <<m + 1, p>>

\* A message has no more than one context.
Allocated ==
  2 * w.ctx + (IF w.pc \in {"add", "added", "refused", "reply"} THEN 0 ELSE len) <= Copied

Watching ==
  /\ watch_list \subseteq 1 .. w.ctx /\ table \subseteq 1 .. w.ctx
  /\ w.pc \in {"add", "added", "refused"} => w.ctx \in watch_list
  /\ w.pc \in {"add", "refused"} => w.ctx \notin table
  /\ w.pc # "idle" => cleanup.pc = "open"
  /\ cleanup.pc = "open" => freed = {}
  /\ cleanup.pc = "unwatch" => cleanup.ctx \in Device!Contexts \ watch_list
  /\ cleanup.pc = "done" => watch_list = {}
  /\ table \subseteq watch_list \cup (IF cleanup.pc = "unwatch" THEN {cleanup.ctx} ELSE {})
  /\ table \cap freed = {}
  /\ callee # Nobody => callee \in table

Referenced ==
  refs + (IF w.pc \in {"add", "added", "refused"} THEN 1 ELSE 0)
    = Cardinality(watch_list) + (IF cleanup.pc = "unwatch" THEN 1 ELSE 0)

DeviceIInv ==
  /\ DeviceTypeOK /\ Source /\ Assembled /\ Allocated /\ Watching /\ Referenced
  /\ Device!StreamIntact /\ Device!NobodyForgotten

LEMMA DeviceFacts ==
  /\ Len(Script) \in Nat /\ Lengths \subseteq Nat \ {0} /\ MaxWrite \in Nat
  /\ Nobody \notin Device!Contexts
  /\ \A S : Device!Cardinality(S) = Cardinality(S)
  /\ \A S : S \subseteq Device!Contexts => IsFiniteSet(S) /\ Cardinality(S) \in Nat
                                           /\ Cardinality(S) <= Len(Script)
<1>1. \A S : /\ Device!Cardinality(S) = Cardinality(S)
             /\ Device!IsFiniteSet(S) <=> IsFiniteSet(S)
  BY DEF Device!Cardinality, Cardinality, Device!IsFiniteSet, IsFiniteSet
<1>2. /\ Script \in Seq({"WATCH", "READ"}) /\ Lengths \subseteq Nat \ {0} /\ MaxWrite \in Nat
      /\ Nobody \notin Device!Contexts
  BY MCQueuesAssumption DEF Device!XenbusDeviceAssumption
<1>3. Len(Script) \in Nat
  BY <1>2, LenProperties
<1>4. IsFiniteSet(1 .. Len(Script)) /\ Cardinality(1 .. Len(Script)) = Len(Script)
  <2>1. 1 \in Int /\ Len(Script) \in Int
    BY <1>3
  <2>2. (IF 1 > Len(Script) THEN 0 ELSE Len(Script) - 1 + 1) = Len(Script)
    BY <1>3
  <2> QED BY <2>1, <2>2, FS_Interval
<1>5. ASSUME NEW S, S \subseteq Device!Contexts
      PROVE  IsFiniteSet(S) /\ Cardinality(S) \in Nat /\ Cardinality(S) <= Len(Script)
  BY <1>4, <1>5, FS_Subset, FS_CardinalityType DEF Device!Contexts
<1> QED BY <1>1, <1>2, <1>3, <1>5

\* Numbers of parts.
LEMMA PartOf ==
  ASSUME NEW m \in Nat
  PROVE  /\ Part(m) \in Nat \X Nat
         /\ Part(2 * m) = <<m + 1, 1>> /\ Part(2 * m + 1) = <<m + 1, 2>>
BY DEF Part

LEMMA WriteFields ==
  ASSUME DeviceTypeOK
  PROVE  /\ w.pc \in Device!Places /\ w.src \in Seq(Nat \X Nat) /\ w.dst \in Nat
         /\ w.rep \in Replies \cup {<<>>} /\ w.ctx \in Nat /\ Len(w.src) \in Nat
         /\ Copied \in Int /\ written \in Nat /\ len \in Nat
<1>1. /\ w.pc \in Device!Places /\ w.src \in Seq(Nat \X Nat) /\ w.dst \in Nat
      /\ w.rep \in Replies \cup {<<>>} /\ w.ctx \in Nat
  BY DEF DeviceTypeOK, Writes
<1>2. Len(w.src) \in Nat
  BY <1>1, LenProperties
<1> QED BY <1>1, <1>2, DeviceFacts DEF DeviceTypeOK, Copied

\* What DeviceSound asks for.
LEMMA DeviceConsequence ==
  ASSUME DeviceIInv
  PROVE  DeviceSound
<1> USE DEF DeviceIInv
<1>1. /\ Len(w.src) \in Nat /\ w.pc \in Device!Places /\ w.ctx \in Nat /\ written \in Nat
      /\ len \in Nat
  BY WriteFields
<1>2. refs \in 0 .. Len(Script)
  <2> DEFINE A == IF w.pc \in {"add", "added", "refused"} THEN 1 ELSE 0
             U == IF cleanup.pc = "unwatch" THEN 1 ELSE 0
             C == Cardinality(watch_list)
  <2>1. refs + A = C + U /\ A \in {0, 1} /\ U \in {0, 1} /\ refs \in Int
    BY DEF Referenced, DeviceTypeOK
  <2>2. IsFiniteSet(watch_list) /\ C \in Nat /\ C <= Len(Script) /\ Len(Script) \in Nat
    BY DeviceFacts DEF DeviceTypeOK
  <2>3. A = 1 => C > 0
    <3>1. A = 1 => w.ctx \in watch_list
      BY DEF Watching
    <3>2. C = 0 => watch_list = {}
      BY <2>2, FS_EmptySet
    <3> HIDE DEF A, C
    <3> QED BY <2>2, <3>1, <3>2
  <2>4. U = 1 => C + 1 <= Len(Script)
    <3>1. U = 1 => cleanup.ctx \in Device!Contexts \ watch_list
      BY DEF Watching
    <3>2. cleanup.ctx \in Device!Contexts \ watch_list =>
            Cardinality(watch_list \cup {cleanup.ctx}) = C + 1
      BY <2>2, FS_AddElement
    <3>3. cleanup.ctx \in Device!Contexts \ watch_list =>
            Cardinality(watch_list \cup {cleanup.ctx}) <= Len(Script)
      <4>1. watch_list \subseteq Device!Contexts
        BY DEF DeviceTypeOK
      <4> QED BY <4>1, DeviceFacts
    <3> HIDE DEF U, C
    <3> QED BY <3>1, <3>2, <3>3
  <2> HIDE DEF A, U, C
  <2> QED BY <2>1, <2>2, <2>3, <2>4
<1>3. Device!TypeOK
  <2>1. \A i \in DOMAIN io_queue : io_queue[i] \in Threads
    <3>1. io_queue \in Seq(Threads)
      BY DEF DeviceTypeOK
    <3> QED BY <3>1, LenProperties, ElementOfSeq
  <2>2. cleanup.pc \in {"open", "loop", "unwatch", "done"}
    BY DEF DeviceTypeOK, Cleanups
  <2> QED BY <1>1, <1>2, <2>1, <2>2 DEF DeviceTypeOK, Device!TypeOK, Device!BODY
<1>4. Device!MessageAssembled
  <2> SUFFICES ASSUME ~Copying, ~overrun
               PROVE  /\ 2 * Device!Number = written - Len(w.src)
                      /\ buffer = Device!Parts(Device!Number)
    BY DEF Device!MessageAssembled, Copying
  <2>1. PICK m \in Nat : /\ Copied = 2 * m + len
                         /\ \A p \in 1 .. len : buffer[p] = <<m + 1, p>>
    BY DEF Assembled
  <2>2. len = 2
    BY DEF Assembled, DeviceTypeOK
  <2>3. 1 \in 1 .. 2 /\ 2 \in 1 .. 2
    OBVIOUS
  <2>4. buffer[1] = <<m + 1, 1>> /\ buffer[2] = <<m + 1, 2>>
    BY <2>1, <2>2, <2>3
  <2>5. Device!Number = m + 1
    BY <2>4 DEF Device!Number
  <2>6. buffer = <<buffer[1], buffer[2]>>
    BY DEF DeviceTypeOK
  <2>7. buffer = Device!Parts(m + 1)
    BY <2>4, <2>6 DEF Device!Parts, Device!HEADER, Device!BODY
  <2> QED BY <2>1, <2>2, <2>5, <2>7 DEF Copied
<1>5. Device!ContextAlive
  <2> SUFFICES ASSUME callee # Nobody
               PROVE  callee \notin freed /\ cleanup.pc # "done"
    BY DEF Device!ContextAlive
  <2> QED BY DEF Watching
<1> QED BY <1>3, <1>4, <1>5 DEF DeviceSound, Device!DeviceSound

LEMMA DeviceInit ==
  ASSUME Device!Init
  PROVE  DeviceIInv
<1>1. /\ reading = [t \in Threads |-> 0] /\ entering = [t \in Threads |-> 0]
      /\ io_queue = <<>> /\ read_list = <<>> /\ queued = <<>> /\ given = <<>>
      /\ overrun = FALSE
      /\ watch_list = {} /\ freed = {} /\ table = {}
      /\ callee = Nobody /\ owed = [m \in Device!Contexts |-> 0]
  BY DEF Device!Init
<1>0. len = 0 /\ written = 0 /\ refs = 0
  BY DEF Device!Init
<1>2. w = [pc |-> "idle", src |-> <<>>, dst |-> 0, rep |-> <<>>, ctx |-> 0]
  BY DEF Device!Init, Device!NoMessage
<1>3. buffer \in [1 .. 2 -> Nat \X Nat]
  <2>1. buffer = <<<<0, 0>>, <<0, 0>>>> /\ <<0, 0>> \in Nat \X Nat
    BY DEF Device!Init
  <2> QED BY <2>1
<1>4. cleanup \in Cleanups /\ cleanup.pc = "open"
  BY DEF Device!Init, Cleanups
<1>5. w.pc = "idle" /\ w.src = <<>> /\ w.dst = 0 /\ w.ctx = 0
  BY <1>2
<1>13. w \in Writes
  <2>1. <<>> \in Seq(Nat \X Nat) /\ "idle" \in Device!Places
    BY DEF Device!Places
  <2> QED BY <1>2, <2>1 DEF Writes
<1>6. DeviceTypeOK
  <2>1. <<>> \in Seq(Threads) /\ <<>> \in Seq(Pieces)
    OBVIOUS
  <2>2. 0 \in 0 .. 2 /\ 0 \in 0 .. 2 * Len(Script)
    BY DeviceFacts
  <2>3. /\ len \in 0 .. 2 /\ written \in 0 .. 2 * Len(Script) /\ refs \in Int
    BY <1>0, <2>2
  <2>4. /\ reading \in [Threads -> Lengths \cup {0}] /\ entering \in [Threads -> Lengths \cup {0}]
        /\ owed \in [Device!Contexts -> Nat]
    BY <1>1
  <2>5. key = Blank
    BY DEF Device!Init, Blank
  <2>6. /\ io_queue \in Seq(Threads)
        /\ read_list \in Seq(Pieces) /\ queued \in Seq(Pieces) /\ given \in Seq(Pieces)
    BY <1>1, <2>1
  <2>7. /\ overrun \in BOOLEAN
        /\ watch_list \subseteq Device!Contexts /\ table \subseteq Device!Contexts
        /\ freed \subseteq Device!Contexts /\ callee \in Device!Contexts \cup {Nobody}
    BY <1>1
  <2> QED BY <1>3, <1>4, <1>13, <2>3, <2>4, <2>5, <2>6, <2>7 DEF DeviceTypeOK
<1>7. Len(w.src) = 0 /\ Copied = 0
  <2>1. Len(w.src) = 0
    BY <1>5
  <2>2. written - 0 = 0
    BY <1>0
  <2> QED BY <2>1, <2>2 DEF Copied
<1>8. Source /\ Allocated
  BY <1>0, <1>5, <1>7 DEF Source, Allocated
<1>9. Assembled
  <2>1. 0 = 2 * 0 + len /\ 1 .. len = {}
    BY <1>0
  <2>2. 0 \in Nat /\ (Copying <=> len < 2) /\ Copying
    BY <1>0, <1>5 DEF Copying
  <2>3. Copied = 2 * 0 + len
    BY <1>7, <2>1
  <2> QED BY <1>5, <2>1, <2>2, <2>3 DEF Assembled
<1>10. Watching
  BY <1>0, <1>1, <1>4, <1>5 DEF Watching
<1>11. Referenced
  BY <1>0, <1>1, <1>4, <1>5, FS_EmptySet DEF Referenced
<1>12. Device!StreamIntact /\ Device!NobodyForgotten
  <2>1. given \o read_list = queued
    BY <1>0, <1>1, <1>6, ConcatEmptySeq DEF DeviceTypeOK
  <2> QED BY <1>0, <1>1, <2>1 DEF Device!StreamIntact, Device!NobodyForgotten
<1> QED BY <1>6, <1>8, <1>9, <1>10, <1>11, <1>12 DEF DeviceIInv

-----------------------------------------------------------------------------
(* Reads *)

LEMMA CutInTwo ==
  ASSUME NEW s \in Seq(Pieces), NEW n \in 0 .. Len(s)
  PROVE  /\ SubSeq(s, 1, n) \in Seq(Pieces) /\ Device!Rest(s, n) \in Seq(Pieces)
         /\ SubSeq(s, 1, n) \o Device!Rest(s, n) = s
<1>1. Len(s) \in Nat /\ n \in Nat
  BY LenProperties
<1>2. \A i \in 1 .. Len(s) : s[i] \in Pieces
  BY ElementOfSeq
<1>3. SubSeq(s, 1, n) \in Seq(Pieces)
  <2>1. \A i \in 1 .. n : s[i] \in Pieces
    BY <1>1, <1>2
  <2> QED BY <1>1, <2>1, SubSeqProperties
<1>4. SubSeq(s, n + 1, Len(s)) \in Seq(Pieces)
  <2>1. \A i \in n + 1 .. Len(s) : s[i] \in Pieces
    BY <1>1, <1>2
  <2> QED BY <1>1, <2>1, SubSeqProperties
<1>5. SubSeq(s, 1, n) \o SubSeq(s, n + 1, Len(s)) = SubSeq(s, 1, Len(s))
  <2>1. 1 \in 1 .. Len(s) + 1 /\ n \in 1 - 1 .. Len(s) /\ Len(s) \in n .. Len(s)
    BY <1>1
  <2> QED BY <2>1, ConcatAdjacentSubSeq
<1>6. SubSeq(s, 1, Len(s)) = s
  BY SubSeqFull
<1> QED BY <1>3, <1>4, <1>5, <1>6 DEF Device!Rest

\* The order in which lists of parts are put together does not matter.
LEMMA PiecesAssociate ==
  \A a, b, c \in Seq(Pieces) : (a \o b) \o c = a \o (b \o c)
BY ConcatAssociative

\* A read takes what comes first, and leaves the rest.
LEMMA ReadTakes ==
  ASSUME DeviceTypeOK, NEW t \in Threads, NEW length \in Nat, NEW s \in Seq(Pieces),
         given \o s = queued', io_queue # <<>>, Device!ProcessReadRequest(t, length, s)
  PROVE  /\ reading' \in [Threads -> Lengths \cup {0}] /\ io_queue' \in Seq(Threads)
         /\ read_list' \in Seq(Pieces) /\ given' \in Seq(Pieces)
         /\ Device!StreamIntact'
         /\ read_list' # <<>> /\ io_queue' # <<>> => stranded'
<1> DEFINE n == IF reading[t] < length THEN 0 ELSE Device!Min2(length, Len(s))
           first == SubSeq(s, 1, n)
           rest == Device!Rest(s, n)
<1>1. /\ given' = given \o first /\ read_list' = rest
      /\ stranded' = (rest # <<>> /\ Tail(io_queue) # <<>>)
      /\ reading' = [reading EXCEPT ![t] = 0] /\ io_queue' = Tail(io_queue)
  BY DEF Device!ProcessReadRequest
<1>2. n \in 0 .. Len(s)
  <2>1. Len(s) \in Nat
    BY LenProperties
  <2> QED BY <2>1 DEF Device!Min2
<1>3. first \in Seq(Pieces) /\ rest \in Seq(Pieces) /\ first \o rest = s
  BY <1>2, CutInTwo
<1> HIDE DEF n, first, rest
<1>4. given' \in Seq(Pieces) /\ given' \o read_list' = queued'
  <2>1. given \in Seq(Pieces)
    BY DEF DeviceTypeOK
  <2>2. given \o first \in Seq(Pieces)
    BY <1>3, <2>1, ConcatProperties
  <2>3. (given \o first) \o rest = given \o (first \o rest)
    BY <1>3, <2>1, PiecesAssociate
  <2> QED BY <1>1, <1>3, <2>2, <2>3
<1>5. reading' \in [Threads -> Lengths \cup {0}]
  BY <1>1 DEF DeviceTypeOK
<1>6. io_queue' \in Seq(Threads)
  BY <1>1, HeadTailProperties DEF DeviceTypeOK
<1> QED BY <1>1, <1>3, <1>4, <1>5, <1>6 DEF Device!StreamIntact

\* What is not about reads.
Rest == <<w, buffer, len, written, overrun, watch_list, freed, refs, table, owed, cleanup, key>>

LEMMA ReadsKeep ==
  ASSUME DeviceIInv, UNCHANGED Rest, callee' \in {callee, Nobody},
         reading' \in [Threads -> Lengths \cup {0}], entering' \in [Threads -> Lengths \cup {0}],
         io_queue' \in Seq(Threads), read_list' \in Seq(Pieces), queued' \in Seq(Pieces),
         given' \in Seq(Pieces), Device!StreamIntact', Device!NobodyForgotten'
  PROVE  DeviceIInv'
<1>1. UNCHANGED <<w, buffer, len, written, overrun, watch_list, freed, refs, table, owed, cleanup,
                  key>>
  BY DEF Rest
<1>2. DeviceTypeOK'
  BY <1>1 DEF DeviceIInv, DeviceTypeOK
<1>3. Source' /\ Assembled' /\ Allocated' /\ Referenced'
  BY <1>1 DEF DeviceIInv, Source, Assembled, Allocated, Referenced, Copied, Copying
<1>4. Watching'
  BY <1>1 DEF DeviceIInv, Watching
<1> QED BY <1>2, <1>3, <1>4 DEF DeviceIInv

LEMMA EvtIoReadKeeps ==
  ASSUME DeviceIInv, NEW t \in Threads, NEW n \in Lengths, Device!EvtIoRead(t, n)
  PROVE  DeviceIInv'
<1>1. /\ reading' = [reading EXCEPT ![t] = n] /\ entering' = [entering EXCEPT ![t] = n]
      /\ io_queue' = Append(io_queue, t)
      /\ UNCHANGED <<read_list, queued, given, stranded, callee>> /\ UNCHANGED Rest
  BY DEF Device!EvtIoRead, Device!list, Device!write, Device!watches, Device!xenstored, Rest
<1>2. /\ reading' \in [Threads -> Lengths \cup {0}] /\ entering' \in [Threads -> Lengths \cup {0}]
      /\ entering'[t] = n
  BY <1>1 DEF DeviceIInv, DeviceTypeOK
<1>3. io_queue' \in Seq(Threads)
  BY <1>1, AppendProperties DEF DeviceIInv, DeviceTypeOK
<1>4. Device!StreamIntact' /\ read_list' \in Seq(Pieces) /\ queued' \in Seq(Pieces)
      /\ given' \in Seq(Pieces)
  BY <1>1 DEF DeviceIInv, DeviceTypeOK, Device!StreamIntact
<1>5. Device!NobodyForgotten'
  <2>1. entering'[t] > 0
    BY <1>2, DeviceFacts
  <2> QED BY <2>1 DEF Device!NobodyForgotten
<1> QED BY <1>1, <1>2, <1>3, <1>4, <1>5, ReadsKeep

LEMMA EvtIoReadLockedKeeps ==
  ASSUME DeviceIInv, NEW t \in Threads, Device!EvtIoReadLocked(t)
  PROVE  DeviceIInv'
<1>1. /\ entering' = [entering EXCEPT ![t] = 0] /\ queued' = queued /\ callee' = callee /\ UNCHANGED Rest
      /\ Device!ReadPended(t)
  BY DEF Device!EvtIoReadLocked, Device!write, Device!watches, Device!xenstored, Rest
<1>2. entering' \in [Threads -> Lengths \cup {0}] /\ entering[t] \in Nat
  <2>1. entering \in [Threads -> Lengths \cup {0}]
    BY DEF DeviceIInv, DeviceTypeOK
  <2>2. Lengths \cup {0} \subseteq Nat
    BY DeviceFacts
  <2> QED BY <1>1, <2>1, <2>2
<1>3. given \o read_list = queued /\ read_list \in Seq(Pieces) /\ queued \in Seq(Pieces)
  BY DEF DeviceIInv, DeviceTypeOK, Device!StreamIntact
<1>4. CASE /\ read_list # <<>> /\ io_queue # <<>>
           /\ Device!ProcessReadRequest(Head(io_queue), entering[t], read_list)
  <2>1. Head(io_queue) \in Threads
    BY <1>4, HeadTailProperties DEF DeviceIInv, DeviceTypeOK
  <2>2. /\ reading' \in [Threads -> Lengths \cup {0}] /\ io_queue' \in Seq(Threads)
        /\ read_list' \in Seq(Pieces) /\ given' \in Seq(Pieces)
        /\ Device!StreamIntact'
        /\ read_list' # <<>> /\ io_queue' # <<>> => stranded'
    <3>1. given \o read_list = queued'
      BY <1>1, <1>3
    <3> QED BY <1>2, <1>3, <1>4, <2>1, <3>1, ReadTakes DEF DeviceIInv
  <2>3. Device!NobodyForgotten'
    BY <2>2 DEF Device!NobodyForgotten
  <2> QED BY <1>1, <1>2, <1>3, <2>2, <2>3, ReadsKeep
<1>5. CASE /\ read_list = <<>> \/ io_queue = <<>>
           /\ UNCHANGED <<read_list, given, reading, io_queue, result, stranded>>
  <2>1. Device!NobodyForgotten' /\ Device!StreamIntact'
    BY <1>1, <1>3, <1>5 DEF Device!NobodyForgotten, Device!StreamIntact
  <2>2. /\ reading' \in [Threads -> Lengths \cup {0}] /\ io_queue' \in Seq(Threads)
        /\ read_list' \in Seq(Pieces) /\ queued' \in Seq(Pieces) /\ given' \in Seq(Pieces)
    BY <1>1, <1>5 DEF DeviceIInv, DeviceTypeOK
  <2> QED BY <1>1, <1>2, <2>1, <2>2, ReadsKeep
<1> QED BY <1>1, <1>4, <1>5 DEF Device!ReadPended

\* The two parts of a message.
LEMMA PartsOf ==
  ASSUME NEW m \in Replies
  PROVE  Device!Parts(m) \in Seq(Pieces) /\ Device!Parts(m) # <<>>
<1>1. <<m, 1>> \in Pieces /\ <<m, 2>> \in Pieces
  BY DEF Pieces
<1>2. <<<<m, 1>>, <<m, 2>>>> \in Seq(Pieces)
  BY <1>1
<1> QED BY <1>2 DEF Device!Parts, Device!HEADER, Device!BODY

LEMMA PutBehind ==
  ASSUME DeviceTypeOK, Device!StreamIntact, NEW e \in Seq(Pieces)
  PROVE  /\ read_list \o e \in Seq(Pieces) /\ queued \o e \in Seq(Pieces)
         /\ given \o (read_list \o e) = queued \o e
<1>1. read_list \in Seq(Pieces) /\ queued \in Seq(Pieces) /\ given \in Seq(Pieces)
  BY DEF DeviceTypeOK
<1>3. read_list \o e \in Seq(Pieces)
  BY <1>1, ConcatProperties
<1>4. queued \o e \in Seq(Pieces)
  BY <1>1, ConcatProperties
<1>5. (given \o read_list) \o e = given \o (read_list \o e)
  BY <1>1, ConcatAssociative
<1> QED BY <1>3, <1>4, <1>5 DEF Device!StreamIntact

LEMMA IoWatchKeeps ==
  ASSUME DeviceIInv, Device!IoWatch
  PROVE  DeviceIInv'
<1> DEFINE event == Device!Parts(<<"EVENT", callee, "">>)
<1>1. callee # Nobody /\ callee \in Nat
  <2>1. callee # Nobody
    BY DEF Device!IoWatch
  <2>2. callee \in Device!Contexts
    BY <2>1 DEF DeviceIInv, DeviceTypeOK
  <2> QED BY <2>1, <2>2, DeviceFacts DEF Device!Contexts
<1>2. event \in Seq(Pieces)
  <2>1. <<"EVENT", callee, "">> \in Replies
    <3>1. "EVENT" \in Texts /\ Blank \in {Blank}
      BY DEF Texts
    <3>2. <<"EVENT", callee, Blank>> \in Replies
      BY <1>1, <3>1 DEF Replies
    <3> QED BY <3>2 DEF Blank
  <2> QED BY <2>1, PartsOf
<1>3. /\ queued' = queued \o event /\ callee' = Nobody /\ entering' = entering /\ UNCHANGED Rest
      /\ \/ /\ io_queue = <<>> /\ read_list' = read_list \o event
            /\ UNCHANGED <<reading, io_queue, result, given, stranded>>
         \/ /\ io_queue # <<>>
            /\ Device!ProcessReadRequest(Head(io_queue), reading[Head(io_queue)],
                                         read_list \o event)
  BY DEF Device!IoWatch, Device!write, Device!watches, Device!xenstored, Rest
<1> HIDE DEF event
<1>4. /\ read_list \o event \in Seq(Pieces) /\ queued' \in Seq(Pieces)
      /\ given \o (read_list \o event) = queued'
  BY <1>2, <1>3, PutBehind DEF DeviceIInv
<1>5. entering' \in [Threads -> Lengths \cup {0}]
  BY <1>3 DEF DeviceIInv, DeviceTypeOK
<1>6. CASE /\ io_queue = <<>> /\ read_list' = read_list \o event
           /\ UNCHANGED <<reading, io_queue, result, given, stranded>>
  <2>1. /\ reading' \in [Threads -> Lengths \cup {0}] /\ io_queue' \in Seq(Threads)
        /\ given' \in Seq(Pieces)
    BY <1>6 DEF DeviceIInv, DeviceTypeOK
  <2>2. Device!NobodyForgotten' /\ Device!StreamIntact'
    BY <1>4, <1>6 DEF Device!NobodyForgotten, Device!StreamIntact
  <2> QED BY <1>3, <1>4, <1>5, <1>6, <2>1, <2>2, ReadsKeep
<1>7. CASE /\ io_queue # <<>>
           /\ Device!ProcessReadRequest(Head(io_queue), reading[Head(io_queue)],
                                        read_list \o event)
  <2>1. Head(io_queue) \in Threads
    BY <1>7, HeadTailProperties DEF DeviceIInv, DeviceTypeOK
  <2>2. reading[Head(io_queue)] \in Nat
    <3>1. reading \in [Threads -> Lengths \cup {0}]
      BY DEF DeviceIInv, DeviceTypeOK
    <3>2. Lengths \cup {0} \subseteq Nat
      BY DeviceFacts
    <3> QED BY <2>1, <3>1, <3>2
  <2>3. /\ reading' \in [Threads -> Lengths \cup {0}] /\ io_queue' \in Seq(Threads)
        /\ read_list' \in Seq(Pieces) /\ given' \in Seq(Pieces)
        /\ Device!StreamIntact'
        /\ read_list' # <<>> /\ io_queue' # <<>> => stranded'
    BY <1>4, <1>7, <2>1, <2>2, ReadTakes DEF DeviceIInv
  <2>4. Device!NobodyForgotten'
    BY <2>3 DEF Device!NobodyForgotten
  <2> QED BY <1>3, <1>4, <1>5, <2>3, <2>4, ReadsKeep
<1> QED BY <1>3, <1>6, <1>7

-----------------------------------------------------------------------------
(* Writes *)

\* What a write leaves alone, unless it has a reply for the list.
LEMMA WritesKeep ==
  ASSUME DeviceIInv,
         UNCHANGED <<reading, entering, io_queue, read_list, queued, given, stranded, freed, callee,
                     cleanup, key>>,
         w' \in Writes, buffer' \in [1 .. 2 -> Nat \X Nat], len' \in 0 .. 2, overrun' \in BOOLEAN,
         written' \in 0 .. 2 * Len(Script), watch_list' \subseteq Device!Contexts,
         table' \subseteq Device!Contexts, refs' \in Int, owed' \in [Device!Contexts -> Nat],
         Source', Assembled', Allocated', Watching', Referenced'
  PROVE  DeviceIInv'
<1>1. DeviceTypeOK'
  BY DEF DeviceIInv, DeviceTypeOK
<1>2. Device!StreamIntact' /\ Device!NobodyForgotten'
  BY DEF DeviceIInv, Device!StreamIntact, Device!NobodyForgotten
<1> QED BY <1>1, <1>2 DEF DeviceIInv

Setting == {"add", "added", "refused"}

LEMMA WatchesStay ==
  ASSUME DeviceIInv, UNCHANGED <<watch_list, table, freed, refs, callee, cleanup>>,
         w'.ctx = w.ctx, w.pc \notin Setting, w'.pc \notin Setting,
         w'.pc # "idle" => cleanup.pc = "open"
  PROVE  /\ Watching' /\ Referenced'
         /\ watch_list' \subseteq Device!Contexts /\ table' \subseteq Device!Contexts
         /\ refs' \in Int
<1>1. Watching'
  BY DEF DeviceIInv, Watching, Setting
<1>2. Referenced'
  BY DEF DeviceIInv, Referenced, Setting
<1> QED BY <1>1, <1>2 DEF DeviceIInv, DeviceTypeOK

LEMMA EvtIoWriteKeeps ==
  ASSUME DeviceIInv, NEW n \in 1 .. MaxWrite, Device!EvtIoWrite(n)
  PROVE  DeviceIInv'
<1> DEFINE s == [k \in 1 .. n |-> Part(written + k - 1)]
<1>1. /\ cleanup.pc = "open" /\ w.pc = "idle" /\ written + n <= 2 * Len(Script)
      /\ w' = [w EXCEPT !.pc = "copy", !.dst = len, !.src = s]
      /\ written' = written + n
      /\ UNCHANGED <<reading, entering, io_queue, read_list, queued, given, stranded, freed, callee,
                     cleanup, key, buffer, len, overrun, watch_list, refs, table, owed>>
  BY DEF Device!EvtIoWrite, Device!Idle, Device!reads, Device!list, Device!watches,
         Device!xenstored, Part
<1>2. n \in Nat /\ n > 0 /\ Len(Script) \in Nat
  BY DeviceFacts
<1>3. /\ w.src \in Seq(Nat \X Nat) /\ w.ctx \in Nat /\ written \in Nat /\ len \in Nat
      /\ w.pc \in Device!Places /\ w \in Writes
  BY WriteFields DEF DeviceIInv, DeviceTypeOK
<1>4. s \in Seq(Nat \X Nat) /\ Len(s) = n
  <2>1. \A k \in 1 .. n : Part(written + k - 1) \in Nat \X Nat
    <3>1. \A k \in 1 .. n : written + k - 1 \in Nat
      BY <1>2, <1>3
    <3> QED BY <3>1, PartOf
  <2>2. s \in [1 .. n -> Nat \X Nat]
    BY <2>1
  <2>3. s \in Seq(Nat \X Nat)
    BY <1>2, <2>2, SeqDef
  <2>4. DOMAIN s = 1 .. n
    BY <2>2
  <2> HIDE DEF s
  <2>5. Len(s) \in Nat /\ DOMAIN s = 1 .. Len(s)
    BY <2>3, LenProperties
  <2>6. \A a, b \in Nat : 1 .. a = 1 .. b => a = b
    OBVIOUS
  <2> QED BY <1>2, <2>3, <2>4, <2>5, <2>6
<1>5. \A k \in 1 .. n : s[k] = Part(written + k - 1)
  OBVIOUS
<1> HIDE DEF s
<1>6. /\ w' \in Writes /\ w'.pc = "copy" /\ w'.src = s /\ w'.dst = len /\ w'.ctx = w.ctx
  BY <1>1, <1>3, <1>4 DEF Writes, Device!Places
<1>7. Copied' = written /\ Copied = written
  <2>1. w.src = <<>>
    BY <1>1 DEF DeviceIInv, Source
  <2>2. Len(w.src) = 0
    BY <2>1
  <2>3. Copied = written
    BY <1>3, <2>2 DEF Copied
  <2>4. Copied' = written' - Len(w'.src)
    BY DEF Copied
  <2>5. written' - Len(w'.src) = written
    BY <1>1, <1>2, <1>3, <1>4, <1>6
  <2> QED BY <2>3, <2>4, <2>5
<1>8. Source'
  BY <1>1, <1>2, <1>3, <1>4, <1>5, <1>6, <1>7 DEF Source
<1>9. Assembled'
  BY <1>1, <1>6, <1>7 DEF DeviceIInv, Assembled, Copying
<1>10. Allocated'
  BY <1>1, <1>6, <1>7 DEF DeviceIInv, Allocated
<1>11. /\ Watching' /\ Referenced' /\ refs' \in Int
       /\ watch_list' \subseteq Device!Contexts /\ table' \subseteq Device!Contexts
  BY <1>1, <1>6, WatchesStay DEF Setting
<1>12. /\ buffer' \in [1 .. 2 -> Nat \X Nat] /\ len' \in 0 .. 2 /\ overrun' \in BOOLEAN
       /\ owed' \in [Device!Contexts -> Nat] /\ written' \in 0 .. 2 * Len(Script)
  <2>1. UNCHANGED <<buffer, len, overrun, owed>>
    BY <1>1
  <2>2. /\ buffer \in [1 .. 2 -> Nat \X Nat] /\ len \in 0 .. 2 /\ overrun \in BOOLEAN
        /\ owed \in [Device!Contexts -> Nat]
    BY DEF DeviceIInv, DeviceTypeOK
  <2>3. written' \in 0 .. 2 * Len(Script)
    BY <1>1, <1>2, <1>3
  <2> QED BY <2>1, <2>2, <2>3
<1> QED BY <1>1, <1>6, <1>8, <1>9, <1>10, <1>11, <1>12, WritesKeep

LEMMA RestOf ==
  ASSUME NEW S, NEW s \in Seq(S), NEW n \in 0 .. Len(s)
  PROVE  /\ Device!Rest(s, n) \in Seq(S) /\ Len(Device!Rest(s, n)) = Len(s) - n
         /\ \A k \in 1 .. Len(s) - n : Device!Rest(s, n)[k] = s[n + k]
<1>1. Len(s) \in Nat /\ n \in Nat
  BY LenProperties
<1>2. \A i \in n + 1 .. Len(s) : s[i] \in S
  <2>1. \A i \in n + 1 .. Len(s) : i \in 1 .. Len(s)
    BY <1>1
  <2> QED BY <2>1, ElementOfSeq
<1>3. n + 1 \in Int /\ Len(s) \in Int
  BY <1>1
<1> DEFINE t == SubSeq(s, n + 1, Len(s))
<1>4. /\ t \in Seq(S)
      /\ Len(t) = IF n + 1 <= Len(s) THEN Len(s) - (n + 1) + 1 ELSE 0
      /\ \A i \in 1 .. Len(s) - (n + 1) + 1 : t[i] = s[(n + 1) + i - 1]
  BY <1>2, <1>3, SubSeqProperties
<1> HIDE DEF t
<1>5. Len(t) = Len(s) - n
  <2>1. \A a \in Nat : \A b \in 0 .. a : (IF b + 1 <= a THEN a - (b + 1) + 1 ELSE 0) = a - b
    OBVIOUS
  <2> QED BY <1>1, <1>4, <2>1
<1>6. \A k \in 1 .. Len(s) - n : t[k] = s[n + k]
  <2>1. \A k \in 1 .. Len(s) - n : k \in 1 .. Len(s) - (n + 1) + 1 /\ (n + 1) + k - 1 = n + k
    BY <1>1
  <2> QED BY <1>4, <2>1
<1> QED BY <1>4, <1>5, <1>6 DEF Device!Rest, t

LEMMA CopyKeeps ==
  ASSUME DeviceIInv, Device!Copy
  PROVE  DeviceIInv'
<1> DEFINE n == Device!Min2(2 - len, Len(w.src))
           s == Device!Rest(w.src, n)
<1>1. /\ w.pc = "copy" /\ w.src # <<>>
      /\ buffer' = [p \in 1 .. 2 |-> IF p - w.dst \in 1 .. n THEN w.src[p - w.dst] ELSE buffer[p]]
      /\ len' = len + n
      /\ w' = [w EXCEPT !.pc = IF len' = 2 THEN "handle" ELSE "copy", !.dst = w.dst + n, !.src = s]
      /\ overrun' = (overrun \/ w.dst >= 2)
      /\ UNCHANGED <<reading, entering, io_queue, read_list, queued, given, stranded, freed, callee,
                     cleanup, key, written, watch_list, refs, table, owed>>
  BY DEF Device!Copy, Device!BODY, Device!reads, Device!list, Device!watches, Device!xenstored
<1>2. /\ w.src \in Seq(Nat \X Nat) /\ w.ctx \in Nat /\ written \in Nat /\ len \in Nat
      /\ w.pc \in Device!Places /\ w \in Writes /\ w.dst \in Nat /\ Len(w.src) \in Nat
      /\ Copied \in Int
  BY WriteFields DEF DeviceIInv, DeviceTypeOK
<1>3. len < 2 /\ Len(w.src) > 0
  <2>1. len < 2
    BY <1>1 DEF DeviceIInv, Assembled, Copying
  <2> QED BY <1>1, <1>2, <2>1, EmptySeq
<1>4. n \in Nat /\ n > 0 /\ n <= Len(w.src) /\ len + n <= 2
  BY <1>2, <1>3 DEF Device!Min2
<1>15. len' = len + n
  BY <1>1
<1> HIDE DEF n
<1>14. len' = len + n /\ len' \in 0 .. 2 /\ len' \in Nat
  BY <1>2, <1>4, <1>15
<1>5. /\ s \in Seq(Nat \X Nat) /\ Len(s) = Len(w.src) - n
      /\ \A k \in 1 .. Len(w.src) - n : s[k] = w.src[n + k]
  <2>1. n \in 0 .. Len(w.src)
    BY <1>2, <1>4
  <2> QED BY <1>2, <2>1, RestOf
<1> HIDE DEF s
<1>6. /\ w' \in Writes /\ w'.pc = (IF len' = 2 THEN "handle" ELSE "copy") /\ w'.src = s
      /\ w'.dst = w.dst + n /\ w'.ctx = w.ctx
  <2>1. w.dst + n \in Nat
    BY <1>2, <1>4
  <2> QED BY <1>1, <1>2, <1>5, <2>1 DEF Writes, Device!Places
<1>7. Copied' = Copied + n
  BY <1>1, <1>2, <1>4, <1>5, <1>6 DEF Copied
<1>8. Source'
  <2>1. \A k \in 1 .. Len(w.src) : w.src[k] = Part(Copied + k - 1)
    BY DEF DeviceIInv, Source
  <2>2. ASSUME NEW k \in 1 .. Len(s) PROVE s[k] = Part(Copied + n + k - 1)
    <3>1. n + k \in 1 .. Len(w.src) /\ k \in 1 .. Len(w.src) - n
      <4>1. \A a \in Nat : \A b \in 0 .. a : \A c \in 1 .. a - b : b + c \in 1 .. a
        OBVIOUS
      <4>2. k \in 1 .. Len(w.src) - n /\ n \in 0 .. Len(w.src)
        BY <1>2, <1>4, <1>5
      <4> QED BY <1>2, <4>1, <4>2
    <3>2. Copied + (n + k) - 1 = Copied + n + k - 1
      BY <1>2, <1>4, <3>1
    <3> QED BY <1>5, <2>1, <3>1, <3>2
  <2>3. Len(s) <= written
    BY <1>2, <1>4, <1>5 DEF DeviceIInv, Source
  <2> QED BY <1>1, <1>6, <1>7, <2>2, <2>3 DEF Source
<1>9. Assembled'
  <2>1. PICK m \in Nat : /\ Copied = 2 * m + len
                         /\ ~overrun => \A p \in 1 .. len : buffer[p] = <<m + 1, p>>
    BY DEF DeviceIInv, Assembled
  <2>2. w.dst = len \/ w.dst >= 2
    BY <1>1 DEF DeviceIInv, Assembled
  <2>3. Copied' = 2 * m + len'
    BY <1>1, <1>2, <1>4, <1>7, <2>1
  <2>4. ASSUME ~overrun', NEW p \in 1 .. len' PROVE buffer'[p] = <<m + 1, p>>
    <3>1. ~overrun /\ w.dst = len
      BY <1>1, <1>2, <2>2, <2>4
    <3>2. p \in 1 .. 2
      BY <1>14
    <3>3. CASE p <= len
      <4>1. p - len \notin 1 .. n /\ p \in 1 .. len
        BY <1>2, <1>4, <3>2, <3>3
      <4> QED BY <1>1, <2>1, <3>1, <3>2, <4>1
    <3>4. CASE p > len
      <4>1. p - len \in 1 .. n /\ p - len \in 1 .. Len(w.src)
        BY <1>2, <1>4, <1>14, <3>2, <3>4
      <4>2. buffer'[p] = w.src[p - len]
        BY <1>1, <3>1, <3>2, <4>1
      <4>3. w.src[p - len] = Part(Copied + (p - len) - 1)
        BY <4>1 DEF DeviceIInv, Source
      <4>4. Copied + (p - len) - 1 = 2 * m + p - 1
        BY <1>2, <2>1, <3>2
      <4>7. buffer'[p] = Part(2 * m + p - 1)
        BY <4>2, <4>3, <4>4
      <4>8. Part(2 * m) = <<m + 1, 1>> /\ Part(2 * m + 1) = <<m + 1, 2>>
        BY PartOf
      <4>5. CASE p = 1
        <5>1. 2 * m + p - 1 = 2 * m
          BY <4>5
        <5>2. Part(2 * m + p - 1) = Part(2 * m)
          BY <5>1
        <5> QED BY <4>5, <4>7, <4>8, <5>2
      <4>6. CASE p = 2
        <5>1. 2 * m + p - 1 = 2 * m + 1
          BY <4>6
        <5>2. Part(2 * m + p - 1) = Part(2 * m + 1)
          BY <5>1
        <5> QED BY <4>6, <4>7, <4>8, <5>2
      <4> QED BY <3>2, <4>5, <4>6
    <3> QED BY <1>2, <3>2, <3>3, <3>4
  <2>5. Copying' <=> len' < 2
    BY <1>6, <1>14 DEF Copying
  <2>6. /\ w'.pc = "copy" => w'.dst = len' \/ w'.dst >= 2
        /\ ~Copying' => w'.dst >= 2
    BY <1>2, <1>4, <1>6, <1>14, <2>2, <2>5
  <2> QED BY <2>3, <2>4, <2>5, <2>6 DEF Assembled
<1>10. Allocated'
  <2>1. 2 * w.ctx + len <= Copied
    BY <1>1 DEF DeviceIInv, Allocated
  <2>2. 2 * w'.ctx + len' <= Copied'
    BY <1>1, <1>2, <1>4, <1>6, <1>7, <2>1
  <2> QED BY <1>6, <2>2 DEF Allocated
<1>11. /\ Watching' /\ Referenced' /\ refs' \in Int
       /\ watch_list' \subseteq Device!Contexts /\ table' \subseteq Device!Contexts
  <2>1. cleanup.pc = "open"
    BY <1>1 DEF DeviceIInv, Watching
  <2> QED BY <1>1, <1>6, <2>1, WatchesStay DEF Setting
<1>12. buffer' \in [1 .. 2 -> Nat \X Nat]
  <2>1. ASSUME NEW p \in 1 .. 2, p - w.dst \in 1 .. n PROVE w.src[p - w.dst] \in Nat \X Nat
    <3>1. p - w.dst \in 1 .. Len(w.src)
      BY <1>2, <1>4, <2>1
    <3> QED BY <1>2, <3>1, ElementOfSeq
  <2>2. \A p \in 1 .. 2 : buffer[p] \in Nat \X Nat
    BY DEF DeviceIInv, DeviceTypeOK
  <2> QED BY <1>1, <2>1, <2>2
<1>13. /\ len' \in 0 .. 2 /\ overrun' \in BOOLEAN
       /\ owed' \in [Device!Contexts -> Nat] /\ written' \in 0 .. 2 * Len(Script)
  BY <1>1, <1>14 DEF DeviceIInv, DeviceTypeOK
<1> QED BY <1>1, <1>6, <1>8, <1>9, <1>10, <1>11, <1>12, <1>13, WritesKeep

LEMMA WriteDoneKeeps ==
  ASSUME DeviceIInv, Device!WriteDone
  PROVE  DeviceIInv'
<1>1. /\ w.pc = "copy" /\ w.src = <<>> /\ w' = [w EXCEPT !.pc = "idle", !.dst = 0]
      /\ UNCHANGED <<reading, entering, io_queue, read_list, queued, given, stranded, freed, callee,
                     cleanup, key, buffer, len, overrun, written, watch_list, refs, table, owed>>
  BY DEF Device!WriteDone, Device!reads, Device!list, Device!watches, Device!xenstored
<1>2. /\ w' \in Writes /\ w'.pc = "idle" /\ w'.src = w.src /\ w'.dst = 0 /\ w'.ctx = w.ctx
  BY <1>1 DEF DeviceIInv, DeviceTypeOK, Writes, Device!Places
<1>3. Copied' = Copied
  BY <1>1, <1>2 DEF Copied
<1>4. Source'
  BY <1>1, <1>2, <1>3 DEF DeviceIInv, Source
<1>5. Assembled'
  BY <1>1, <1>2, <1>3 DEF DeviceIInv, Assembled, Copying
<1>6. Allocated'
  BY <1>1, <1>2, <1>3 DEF DeviceIInv, Allocated
<1>7. /\ Watching' /\ Referenced' /\ refs' \in Int
      /\ watch_list' \subseteq Device!Contexts /\ table' \subseteq Device!Contexts
  BY <1>1, <1>2, WatchesStay DEF Setting
<1>8. /\ buffer' \in [1 .. 2 -> Nat \X Nat] /\ len' \in 0 .. 2 /\ overrun' \in BOOLEAN
      /\ owed' \in [Device!Contexts -> Nat] /\ written' \in 0 .. 2 * Len(Script)
  BY <1>1 DEF DeviceIInv, DeviceTypeOK
<1> QED BY <1>1, <1>2, <1>4, <1>5, <1>6, <1>7, <1>8, WritesKeep

LEMMA HandleKeeps ==
  ASSUME DeviceIInv, Device!Handle
  PROVE  DeviceIInv'
<1>1. /\ w.pc = "handle"
      /\ UNCHANGED <<reading, entering, io_queue, read_list, queued, given, stranded, freed, callee,
                     cleanup, key, buffer, len, overrun, written, refs, table, owed>>
      /\ \/ /\ w' = [w EXCEPT !.pc = "add", !.ctx = @ + 1]
            /\ watch_list' = watch_list \cup {w'.ctx}
         \/ w' = [w EXCEPT !.pc = "raw"] /\ watch_list' = watch_list
  BY DEF Device!Handle, Device!reads, Device!list, Device!xenstored
<1>2. /\ w.ctx \in Nat /\ written \in Nat /\ len \in Nat /\ w \in Writes /\ Len(w.src) \in Nat
      /\ Copied \in Int /\ Copied <= written
  <2>1. written - Len(w.src) <= written
    BY WriteFields DEF DeviceIInv
  <2> QED BY <2>1, WriteFields DEF DeviceIInv, DeviceTypeOK, Copied
<1>3. /\ len = 2 /\ w.dst >= 2 /\ 2 * w.ctx + 2 <= Copied /\ ~Copying
  <2>1. ~Copying
    BY <1>1 DEF Copying
  <2>2. len = 2
    BY <2>1 DEF DeviceIInv, Assembled, DeviceTypeOK
  <2>3. 2 * w.ctx + len <= Copied
    BY <1>1 DEF DeviceIInv, Allocated
  <2> QED BY <2>1, <2>2, <2>3 DEF DeviceIInv, Assembled
<1>4. /\ buffer' \in [1 .. 2 -> Nat \X Nat] /\ len' \in 0 .. 2 /\ overrun' \in BOOLEAN
      /\ owed' \in [Device!Contexts -> Nat] /\ written' \in 0 .. 2 * Len(Script)
  BY <1>1 DEF DeviceIInv, DeviceTypeOK
<1>5. ASSUME w' \in Writes, w'.pc \in {"add", "raw"}, w'.src = w.src, w'.dst = w.dst
      PROVE  Source' /\ Assembled' /\ Copied' = Copied
  <2>1. Copied' = Copied
    BY <1>1, <1>5 DEF Copied
  <2>2. Source'
    BY <1>1, <1>5, <2>1 DEF DeviceIInv, Source
  <2>3. Copying' = FALSE /\ len' = len
    BY <1>1, <1>5 DEF Copying
  <2>4. Assembled'
    BY <1>1, <1>3, <1>5, <2>1, <2>3 DEF DeviceIInv, Assembled
  <2> QED BY <2>1, <2>2, <2>4
<1>6. CASE w' = [w EXCEPT !.pc = "raw"] /\ watch_list' = watch_list
  <2>1. /\ w' \in Writes /\ w'.pc = "raw" /\ w'.src = w.src /\ w'.dst = w.dst /\ w'.ctx = w.ctx
    BY <1>2, <1>6 DEF Writes, Device!Places
  <2>2. Source' /\ Assembled' /\ Copied' = Copied
    BY <1>5, <2>1
  <2>3. Allocated'
    BY <1>1, <1>3, <2>1, <2>2 DEF Allocated
  <2>4. /\ Watching' /\ Referenced' /\ refs' \in Int
        /\ watch_list' \subseteq Device!Contexts /\ table' \subseteq Device!Contexts
    <3>1. cleanup.pc = "open"
      BY <1>1 DEF DeviceIInv, Watching
    <3> QED BY <1>1, <1>6, <2>1, <3>1, WatchesStay DEF Setting
  <2> QED BY <1>1, <1>4, <2>1, <2>2, <2>3, <2>4, WritesKeep
<1>7. CASE /\ w' = [w EXCEPT !.pc = "add", !.ctx = @ + 1]
           /\ watch_list' = watch_list \cup {w'.ctx}
  <2> DEFINE c == w.ctx + 1
  <2>1. c \in Nat
    BY <1>2
  <2>2. /\ w' \in Writes /\ w'.pc = "add" /\ w'.src = w.src /\ w'.dst = w.dst /\ w'.ctx = c
    BY <1>2, <1>7, <2>1 DEF Writes, Device!Places
  <2>3. Source' /\ Assembled' /\ Copied' = Copied
    BY <1>5, <2>2
  <2>4. Allocated'
    <3>1. 2 * c <= Copied
      BY <1>2, <1>3
    <3> HIDE DEF c
    <3>2. 2 * c + 0 <= Copied
      BY <2>1, <3>1
    <3> QED BY <2>2, <2>3, <3>2 DEF Allocated
  <2>5. c \in Device!Contexts
    <3>1. written \in 0 .. 2 * Len(Script) /\ Len(Script) \in Nat
      BY DeviceFacts DEF DeviceIInv, DeviceTypeOK
    <3>2. c \in 1 .. Len(Script)
      BY <1>2, <1>3, <3>1
    <3> QED BY <3>2 DEF Device!Contexts
  <2>6. c \notin table /\ c \notin watch_list /\ watch_list \subseteq 1 .. c
        /\ table \subseteq 1 .. c /\ c \in 1 .. c
    <3>1. watch_list \subseteq 1 .. w.ctx /\ table \subseteq 1 .. w.ctx
      BY DEF DeviceIInv, Watching
    <3> QED BY <1>2, <3>1
  <2> HIDE DEF c
  <2>7. watch_list' = watch_list \cup {c}
    BY <1>7, <2>2
  <2>8. cleanup.pc = "open"
    BY <1>1 DEF DeviceIInv, Watching
  <2>9. Watching'
    <3>1. /\ freed = {} /\ table \subseteq watch_list /\ table \cap freed = {}
          /\ callee # Nobody => callee \in table
      BY <2>8 DEF DeviceIInv, Watching
    <3> QED BY <1>1, <2>2, <2>6, <2>7, <2>8, <3>1 DEF Watching
  <2>10. Referenced'
    <3>1. IsFiniteSet(watch_list) /\ Cardinality(watch_list) \in Nat
      BY DeviceFacts DEF DeviceIInv, DeviceTypeOK
    <3>2. Cardinality(watch_list') = Cardinality(watch_list) + 1
      BY <2>6, <2>7, <3>1, FS_AddElement
    <3>3. refs + 0 = Cardinality(watch_list) + 0 /\ refs \in Int
      BY <1>1, <2>8 DEF DeviceIInv, Referenced, DeviceTypeOK
    <3>4. refs' + 1 = Cardinality(watch_list') + 0
      BY <1>1, <3>1, <3>2, <3>3
    <3> QED BY <1>1, <2>2, <2>8, <3>4 DEF Referenced
  <2>11. watch_list' \subseteq Device!Contexts /\ table' \subseteq Device!Contexts /\ refs' \in Int
    BY <1>1, <2>5, <2>7 DEF DeviceIInv, DeviceTypeOK
  <2> QED BY <1>1, <1>4, <2>2, <2>3, <2>4, <2>9, <2>10, <2>11, WritesKeep
<1> QED BY <1>1, <1>6, <1>7

LEMMA RawKeeps ==
  ASSUME DeviceIInv, Device!Raw
  PROVE  DeviceIInv'
<1>1. /\ w.pc = "raw" /\ w' = [w EXCEPT !.pc = "reply", !.rep = <<"REPLY", Device!Number, key>>]
      /\ UNCHANGED <<reading, entering, io_queue, read_list, queued, given, stranded, freed, callee,
                     cleanup, key, buffer, len, overrun, written, watch_list, refs, table, owed>>
  BY DEF Device!Raw, Device!reads, Device!list, Device!watches, Device!xenstored
<1>2. <<"REPLY", Device!Number, key>> \in Replies
  <2>1. buffer[1] \in Nat \X Nat
    BY DEF DeviceIInv, DeviceTypeOK
  <2>2. Device!Number \in Nat /\ key \in {Blank} /\ "REPLY" \in Texts
    BY <2>1 DEF Device!Number, DeviceIInv, DeviceTypeOK, Texts
  <2> QED BY <2>2 DEF Replies
<1>3. /\ w' \in Writes /\ w'.pc = "reply" /\ w'.src = w.src /\ w'.dst = w.dst /\ w'.ctx = w.ctx
      /\ w'.rep \in Replies
  BY <1>1, <1>2 DEF DeviceIInv, DeviceTypeOK, Writes, Device!Places
<1>4. Copied' = Copied
  BY <1>1, <1>3 DEF Copied
<1>5. Source'
  BY <1>1, <1>3, <1>4 DEF DeviceIInv, Source
<1>6. Assembled'
  BY <1>1, <1>3, <1>4 DEF DeviceIInv, Assembled, Copying
<1>7. Allocated'
  <2>1. 2 * w.ctx + len <= Copied
    BY <1>1 DEF DeviceIInv, Allocated
  <2>2. 2 * w.ctx + 0 <= Copied
    BY <2>1, WriteFields DEF DeviceIInv
  <2> QED BY <1>3, <1>4, <2>2 DEF Allocated
<1>8. /\ Watching' /\ Referenced' /\ refs' \in Int
      /\ watch_list' \subseteq Device!Contexts /\ table' \subseteq Device!Contexts
  <2>1. cleanup.pc = "open"
    BY <1>1 DEF DeviceIInv, Watching
  <2> QED BY <1>1, <1>3, <2>1, WatchesStay DEF Setting
<1>9. /\ buffer' \in [1 .. 2 -> Nat \X Nat] /\ len' \in 0 .. 2 /\ overrun' \in BOOLEAN
      /\ owed' \in [Device!Contexts -> Nat] /\ written' \in 0 .. 2 * Len(Script)
  BY <1>1 DEF DeviceIInv, DeviceTypeOK
<1> QED BY <1>1, <1>3, <1>5, <1>6, <1>7, <1>8, <1>9, WritesKeep

\* A message that has been put together stays as it is while it is handled.
LEMMA MessageStays ==
  ASSUME DeviceIInv, UNCHANGED <<buffer, len, overrun, written>>,
         w' \in Writes, w'.src = w.src, w'.dst = w.dst, w'.ctx = w.ctx,
         w.pc \in Setting, w'.pc \in Setting \cup {"reply"},
         w'.pc = "reply" => w'.rep \in Replies
  PROVE  Source' /\ Assembled' /\ Allocated'
<1>1. Copied' = Copied
  BY DEF Copied
<1>2. Source'
  BY <1>1 DEF DeviceIInv, Source, Setting
<1>3. Assembled'
  BY <1>1 DEF DeviceIInv, Assembled, Copying, Setting
<1>4. Allocated'
  BY <1>1 DEF DeviceIInv, Allocated, Setting
<1> QED BY <1>2, <1>3, <1>4

LEMMA AddWatchKeeps ==
  ASSUME DeviceIInv, Device!AddWatch
  PROVE  DeviceIInv'
<1>1. /\ w.pc = "add" /\ callee = Nobody
      /\ UNCHANGED <<reading, entering, io_queue, read_list, queued, given, stranded, freed, callee,
                     cleanup, key, buffer, len, overrun, written, watch_list, refs>>
      /\ \/ /\ table' = table \cup {w.ctx} /\ owed' = [owed EXCEPT ![w.ctx] = @ + 1]
            /\ w' = [w EXCEPT !.pc = "added"]
         \/ /\ w' = [w EXCEPT !.pc = "added"] /\ UNCHANGED <<table, owed>>
         \/ /\ w' = [w EXCEPT !.pc = "refused"] /\ UNCHANGED <<table, owed>>
  BY DEF Device!AddWatch, Device!reads, Device!list
<1>2. /\ w' \in Writes /\ w'.pc \in {"added", "refused"} /\ w'.src = w.src /\ w'.dst = w.dst
      /\ w'.ctx = w.ctx
      /\ w'.pc = "refused" => table' = table
  BY <1>1 DEF DeviceIInv, DeviceTypeOK, Writes, Device!Places
<1>3. Source' /\ Assembled' /\ Allocated'
  BY <1>1, <1>2, MessageStays DEF Setting
<1>4. /\ w.ctx \in watch_list /\ w.ctx \notin table /\ cleanup.pc = "open" /\ freed = {}
      /\ watch_list \subseteq 1 .. w.ctx /\ table \subseteq 1 .. w.ctx
      /\ table \subseteq watch_list /\ watch_list \subseteq Device!Contexts
      /\ table \subseteq Device!Contexts
  BY <1>1 DEF DeviceIInv, DeviceTypeOK, Watching
<1>5. table' \in {table, table \cup {w.ctx}} /\ owed' \in [Device!Contexts -> Nat]
  <2>1. owed \in [Device!Contexts -> Nat] /\ w.ctx \in Device!Contexts
    BY <1>4 DEF DeviceIInv, DeviceTypeOK
  <2>2. owed[w.ctx] + 1 \in Nat
    BY <2>1
  <2> QED BY <1>1, <2>1, <2>2
<1>6. Watching'
  BY <1>1, <1>2, <1>4, <1>5 DEF Watching
<1>7. Referenced'
  BY <1>1, <1>2 DEF DeviceIInv, Referenced
<1>8. /\ buffer' \in [1 .. 2 -> Nat \X Nat] /\ len' \in 0 .. 2 /\ overrun' \in BOOLEAN
      /\ written' \in 0 .. 2 * Len(Script)
      /\ watch_list' \subseteq Device!Contexts /\ table' \subseteq Device!Contexts /\ refs' \in Int
  BY <1>1, <1>4, <1>5 DEF DeviceIInv, DeviceTypeOK
<1> QED BY <1>1, <1>2, <1>3, <1>5, <1>6, <1>7, <1>8, WritesKeep

LEMMA WatchAnswerKeeps ==
  ASSUME DeviceIInv, Device!WatchAnswer
  PROVE  DeviceIInv'
<1> DEFINE text == IF w.pc = "refused" THEN "ERROR" ELSE "REPLY"
<1>1. /\ w.pc \in {"added", "refused"}
      /\ UNCHANGED <<reading, entering, io_queue, read_list, queued, given, stranded, freed, callee,
                     cleanup, key, buffer, len, overrun, written, table, owed>>
      /\ w.pc = "refused" => watch_list' = watch_list \ {w.ctx} /\ refs' = refs
      /\ w.pc = "added" => watch_list' = watch_list /\ refs' = refs + 1
      /\ w' = [w EXCEPT !.pc = "reply", !.rep = <<text, Device!Number, Blank>>]
  BY DEF Device!WatchAnswer, Device!reads, Device!list, Device!xenstored, Blank
<1>2. <<text, Device!Number, Blank>> \in Replies
  <2>1. buffer[1] \in Nat \X Nat
    BY DEF DeviceIInv, DeviceTypeOK
  <2>2. Device!Number \in Nat /\ text \in Texts /\ Blank \in {Blank}
    BY <2>1 DEF Device!Number, Texts
  <2> QED BY <2>2 DEF Replies
<1> HIDE DEF text
<1>3. /\ w' \in Writes /\ w'.pc = "reply" /\ w'.src = w.src /\ w'.dst = w.dst /\ w'.ctx = w.ctx
      /\ w'.rep \in Replies
  BY <1>1, <1>2 DEF DeviceIInv, DeviceTypeOK, Writes, Device!Places
<1>4. Source' /\ Assembled' /\ Allocated'
  BY <1>1, <1>3, MessageStays DEF Setting
<1>5. /\ w.ctx \in watch_list /\ cleanup.pc = "open" /\ freed = {}
      /\ w.pc = "refused" => w.ctx \notin table
      /\ watch_list \subseteq 1 .. w.ctx /\ table \subseteq 1 .. w.ctx
      /\ table \subseteq watch_list /\ watch_list \subseteq Device!Contexts
      /\ callee # Nobody => callee \in table
  BY <1>1 DEF DeviceIInv, DeviceTypeOK, Watching
<1>6. Watching'
  BY <1>1, <1>3, <1>5 DEF Watching
<1>7. refs + 1 = Cardinality(watch_list) + 0 /\ refs \in Int
  BY <1>1, <1>5 DEF DeviceIInv, Referenced, DeviceTypeOK
<1>8. refs' + 0 = Cardinality(watch_list') + 0 /\ refs' \in Int
  <2>1. IsFiniteSet(watch_list) /\ Cardinality(watch_list) \in Nat
    BY <1>5, DeviceFacts
  <2>2. CASE w.pc = "refused"
    <3>1. Cardinality(watch_list \ {w.ctx}) = Cardinality(watch_list) - 1
      BY <1>5, <2>1, FS_RemoveElement
    <3>2. watch_list' = watch_list \ {w.ctx} /\ refs' = refs
      BY <1>1, <2>2
    <3> QED BY <1>7, <2>1, <3>1, <3>2
  <2>3. CASE w.pc = "added"
    BY <1>1, <1>7, <2>1, <2>3
  <2>4. w.pc = "refused" \/ w.pc = "added"
    BY <1>1
  <2> QED BY <2>2, <2>3, <2>4
<1>9. Referenced'
  BY <1>1, <1>3, <1>5, <1>8 DEF Referenced
<1>10. /\ buffer' \in [1 .. 2 -> Nat \X Nat] /\ len' \in 0 .. 2 /\ overrun' \in BOOLEAN
       /\ written' \in 0 .. 2 * Len(Script) /\ owed' \in [Device!Contexts -> Nat]
       /\ watch_list' \subseteq Device!Contexts /\ table' \subseteq Device!Contexts
  BY <1>1, <1>5 DEF DeviceIInv, DeviceTypeOK
<1> QED BY <1>1, <1>3, <1>4, <1>6, <1>8, <1>9, <1>10, WritesKeep

LEMMA ReplyKeeps ==
  ASSUME DeviceIInv, Device!Reply
  PROVE  DeviceIInv'
<1> DEFINE p == Device!Parts(w.rep)
<1>1. /\ w.pc = "reply" /\ w' = [w EXCEPT !.pc = "copy", !.rep = <<>>] /\ len' = 0
      /\ read_list' = read_list \o p /\ queued' = queued \o p
      /\ stranded' = (stranded \/ io_queue # <<>>)
      /\ UNCHANGED <<reading, entering, io_queue, given, freed, callee, cleanup, key, buffer, overrun,
                     written, watch_list, refs, table, owed>>
  BY DEF Device!Reply, Device!NoMessage, Device!reads, Device!watches, Device!xenstored
<1>2. w.rep \in Replies
  BY <1>1 DEF DeviceIInv, Source
<1>3. p \in Seq(Pieces)
  BY <1>2, PartsOf
<1> HIDE DEF p
<1>4. /\ read_list' \in Seq(Pieces) /\ queued' \in Seq(Pieces) /\ Device!StreamIntact'
  BY <1>1, <1>3, PutBehind DEF DeviceIInv, Device!StreamIntact
<1>5. Device!NobodyForgotten'
  BY <1>1 DEF Device!NobodyForgotten
<1>6. /\ w' \in Writes /\ w'.pc = "copy" /\ w'.src = w.src /\ w'.dst = w.dst /\ w'.ctx = w.ctx
  BY <1>1 DEF DeviceIInv, DeviceTypeOK, Writes, Device!Places
<1>7. Copied' = Copied /\ Copied \in Int
  BY <1>1, <1>6, WriteFields DEF DeviceIInv, Copied
<1>8. Source'
  BY <1>1, <1>6, <1>7 DEF DeviceIInv, Source
<1>9. Assembled'
  <2>1. ~Copying
    BY <1>1 DEF Copying
  <2>2. len = 2 /\ w.dst >= 2
    BY <2>1 DEF DeviceIInv, Assembled, DeviceTypeOK
  <2>3. PICK m \in Nat : Copied = 2 * m + len
    BY DEF DeviceIInv, Assembled
  <2>4. m + 1 \in Nat /\ Copied' = 2 * (m + 1) + 0 /\ 1 .. 0 = {}
    BY <1>7, <2>2, <2>3
  <2>5. Copying' = TRUE
    BY <1>6 DEF Copying
  <2> QED BY <1>1, <1>6, <2>2, <2>4, <2>5 DEF Assembled
<1>10. Allocated'
  <2>1. 2 * w.ctx + 0 <= Copied
    BY <1>1 DEF DeviceIInv, Allocated
  <2> QED BY <1>1, <1>6, <1>7, <2>1 DEF Allocated
<1>11. /\ Watching' /\ Referenced' /\ refs' \in Int
       /\ watch_list' \subseteq Device!Contexts /\ table' \subseteq Device!Contexts
  <2>1. cleanup.pc = "open"
    BY <1>1 DEF DeviceIInv, Watching
  <2> QED BY <1>1, <1>6, <2>1, WatchesStay DEF Setting
<1>12. DeviceTypeOK'
  <2>1. DeviceTypeOK
    BY DEF DeviceIInv
  <2>2. len' \in 0 .. 2
    BY <1>1
  <2>3. UNCHANGED <<reading, entering, io_queue, given, freed, callee, cleanup, key, buffer, overrun,
                    written, owed>>
    BY <1>1
  <2> QED BY <1>4, <1>6, <1>11, <2>1, <2>2, <2>3 DEF DeviceTypeOK
<1> QED BY <1>4, <1>5, <1>8, <1>9, <1>10, <1>11, <1>12 DEF DeviceIInv

-----------------------------------------------------------------------------
(* Watch events and the end of the handle *)

LEMMA EventsKeep ==
  ASSUME DeviceIInv,
         UNCHANGED <<reading, entering, io_queue, read_list, queued, given, stranded, freed,
                     cleanup, key, w, buffer, len, overrun, written, watch_list, refs, table>>,
         owed' \in [Device!Contexts -> Nat], callee' = callee \/ callee' \in table \cup {Nobody}
  PROVE  DeviceIInv'
<1>1. Watching' /\ callee' \in Device!Contexts \cup {Nobody}
  BY DEF DeviceIInv, Watching, DeviceTypeOK
<1>2. DeviceTypeOK'
  BY <1>1 DEF DeviceIInv, DeviceTypeOK
<1>3. Source' /\ Assembled' /\ Allocated' /\ Referenced'
  BY DEF DeviceIInv, Source, Assembled, Allocated, Referenced, Copied, Copying
<1>4. Device!StreamIntact' /\ Device!NobodyForgotten'
  BY DEF DeviceIInv, Device!StreamIntact, Device!NobodyForgotten
<1> QED BY <1>1, <1>2, <1>3, <1>4 DEF DeviceIInv

LEMMA WorkItemKeeps ==
  ASSUME DeviceIInv, NEW m \in Device!Contexts, Device!WorkItem(m)
  PROVE  DeviceIInv'
<1>1. /\ owed[m] > 0 /\ owed' = [owed EXCEPT ![m] = @ - 1] /\ callee' \in table \cup {Nobody}
      /\ UNCHANGED <<reading, entering, io_queue, read_list, queued, given, stranded, freed,
                     cleanup, key, w, buffer, len, overrun, written, watch_list, refs, table>>
  BY DEF Device!WorkItem, Device!reads, Device!list, Device!write, Device!watches,
         Device!xenstored
<1>2. owed' \in [Device!Contexts -> Nat]
  <2>1. owed \in [Device!Contexts -> Nat]
    BY DEF DeviceIInv, DeviceTypeOK
  <2>2. owed[m] - 1 \in Nat
    BY <1>1, <2>1
  <2> QED BY <1>1, <2>1, <2>2
<1> QED BY <1>1, <1>2, EventsKeep

LEMMA FireKeeps ==
  ASSUME DeviceIInv, Device!Fire,
         UNCHANGED <<reading, entering, io_queue, read_list, queued, given, stranded, freed, callee,
                     cleanup, key, w, buffer, len, overrun, written, watch_list, refs, table>>
  PROVE  DeviceIInv'
<1>1. owed' = [m \in Device!Contexts |-> IF m \in table THEN owed[m] + 1 ELSE owed[m]]
  BY DEF Device!Fire
<1>2. \A m \in Device!Contexts : owed[m] \in Nat /\ owed[m] + 1 \in Nat
  BY DEF DeviceIInv, DeviceTypeOK
<1>3. owed' \in [Device!Contexts -> Nat]
  BY <1>1, <1>2
<1> QED BY <1>3, EventsKeep

LEMMA CleanupKeeps ==
  ASSUME DeviceIInv, Device!Cleanup \/ Device!CleanupNext \/ Device!CleanupWatch
  PROVE  DeviceIInv'
<1>1. /\ UNCHANGED <<reading, entering, io_queue, read_list, queued, given, stranded, callee, key, w,
                     buffer, len, overrun, written, owed>>
      /\ w.pc = "idle"
  <2>1. UNCHANGED <<reading, entering, io_queue, read_list, queued, given, stranded, callee, key, w,
                    buffer, len, overrun, written, owed>>
    BY DEF Device!Cleanup, Device!CleanupNext, Device!CleanupWatch, Device!reads, Device!list,
           Device!write, Device!watches, Device!xenstored
  <2>2. Device!Cleanup => w.pc = "idle"
    BY DEF Device!Cleanup
  <2>3. Device!CleanupNext \/ Device!CleanupWatch => cleanup.pc # "open"
    BY DEF Device!CleanupNext, Device!CleanupWatch
  <2> QED BY <2>1, <2>2, <2>3 DEF DeviceIInv, Watching
<1>2. Source' /\ Assembled' /\ Allocated'
  BY <1>1 DEF DeviceIInv, Source, Assembled, Allocated, Copied, Copying
<1>3. Device!StreamIntact' /\ Device!NobodyForgotten'
  BY <1>1 DEF DeviceIInv, Device!StreamIntact, Device!NobodyForgotten
<1>4. ASSUME watch_list' \subseteq Device!Contexts, table' \subseteq Device!Contexts,
             freed' \subseteq Device!Contexts, refs' \in Int, cleanup' \in Cleanups,
             Watching', Referenced'
      PROVE  DeviceIInv'
  <2>1. DeviceTypeOK'
    BY <1>1, <1>4 DEF DeviceIInv, DeviceTypeOK
  <2> QED BY <1>2, <1>3, <1>4, <2>1 DEF DeviceIInv
<1>5. /\ watch_list \subseteq Device!Contexts /\ table \subseteq Device!Contexts
      /\ freed \subseteq Device!Contexts /\ refs \in Int /\ cleanup \in Cleanups
      /\ IsFiniteSet(watch_list) /\ Cardinality(watch_list) \in Nat
  BY DeviceFacts DEF DeviceIInv, DeviceTypeOK
<1>6. CASE Device!Cleanup
  <2>1. /\ cleanup.pc = "open" /\ cleanup' = [cleanup EXCEPT !.pc = "loop"]
        /\ UNCHANGED <<watch_list, freed, refs, table>>
    BY <1>6 DEF Device!Cleanup, Device!watches
  <2>2. cleanup' \in Cleanups /\ cleanup'.pc = "loop"
    BY <1>5, <2>1 DEF Cleanups
  <2>3. Watching' /\ Referenced'
    BY <1>1, <2>1, <2>2 DEF DeviceIInv, Watching, Referenced
  <2> QED BY <1>4, <1>5, <2>1, <2>2, <2>3
<1>7. CASE Device!CleanupNext
  <2>1. cleanup.pc = "loop" /\ UNCHANGED <<freed, refs, table>>
    BY <1>7 DEF Device!CleanupNext
  <2>2. ASSUME NEW c \in watch_list, cleanup' = [pc |-> "unwatch", ctx |-> c],
               watch_list' = watch_list \ {c}
        PROVE  DeviceIInv'
    <3>1. c \in Nat
      BY <1>5, DeviceFacts DEF Device!Contexts
    <3>2. cleanup' \in Cleanups /\ cleanup'.pc = "unwatch" /\ cleanup'.ctx = c
      BY <2>2, <3>1 DEF Cleanups
    <3>3. Watching'
      BY <1>1, <1>5, <2>1, <2>2, <3>2 DEF DeviceIInv, Watching
    <3>4. refs + 0 = Cardinality(watch_list) + 0
      BY <1>1, <2>1 DEF DeviceIInv, Referenced
    <3>5. Cardinality(watch_list') = Cardinality(watch_list) - 1
      BY <1>5, <2>2, FS_RemoveElement
    <3>6. refs' + 0 = Cardinality(watch_list') + 1
      BY <1>5, <2>1, <3>4, <3>5
    <3>7. Referenced'
      BY <1>1, <3>2, <3>6 DEF Referenced
    <3>8. watch_list' \subseteq Device!Contexts
      BY <1>5, <2>2
    <3> QED BY <1>4, <1>5, <2>1, <3>2, <3>3, <3>7, <3>8
  <2>3. CASE watch_list = {} /\ cleanup' = [pc |-> "done", ctx |-> 0] /\ watch_list' = watch_list
    <3>1. cleanup' \in Cleanups /\ cleanup'.pc = "done"
      BY <2>3 DEF Cleanups
    <3>2. Watching' /\ Referenced'
      BY <1>1, <2>1, <2>3, <3>1 DEF DeviceIInv, Watching, Referenced
    <3> QED BY <1>4, <1>5, <2>1, <2>3, <3>1, <3>2
  <2> QED BY <1>7, <2>2, <2>3 DEF Device!CleanupNext
<1>8. CASE Device!CleanupWatch
  <2>1. /\ cleanup.pc = "unwatch" /\ callee = Nobody /\ table' = table \ {cleanup.ctx}
        /\ freed' = freed \cup {cleanup.ctx} /\ refs' = refs - 1
        /\ cleanup' = [pc |-> "loop", ctx |-> 0] /\ watch_list' = watch_list
    BY <1>8 DEF Device!CleanupWatch
  <2>2. cleanup' \in Cleanups /\ cleanup'.pc = "loop"
    BY <2>1 DEF Cleanups
  <2>3. cleanup.ctx \in Device!Contexts
    BY <2>1 DEF DeviceIInv, Watching
  <2>4. Watching'
    BY <1>1, <2>1, <2>2 DEF DeviceIInv, Watching
  <2>5. refs + 0 = Cardinality(watch_list) + 1
    BY <1>1, <2>1 DEF DeviceIInv, Referenced
  <2>6. refs' + 0 = Cardinality(watch_list') + 0 /\ refs' \in Int
    BY <1>5, <2>1, <2>5
  <2>7. Referenced'
    BY <1>1, <2>2, <2>6 DEF Referenced
  <2>8. table' \subseteq Device!Contexts /\ freed' \subseteq Device!Contexts
        /\ watch_list' \subseteq Device!Contexts
    BY <1>5, <2>1, <2>3
  <2> QED BY <1>4, <2>2, <2>4, <2>6, <2>7, <2>8
<1> QED BY <1>6, <1>7, <1>8

-----------------------------------------------------------------------------
LEMMA DeviceStep ==
  ASSUME DeviceIInv, [Device!Next]_(Device!vars)
  PROVE  DeviceIInv'
<1>1. CASE \E t \in Threads, n \in Lengths : t # Writer /\ Device!EvtIoRead(t, n)
  BY <1>1, EvtIoReadKeeps
<1>2. CASE \E t \in Threads : Device!EvtIoReadLocked(t)
  BY <1>2, EvtIoReadLockedKeeps
<1>3. CASE \E n \in 1 .. MaxWrite : Device!EvtIoWrite(n)
  BY <1>3, EvtIoWriteKeeps
<1>4. CASE Device!Writing
  BY <1>4, CopyKeeps, WriteDoneKeeps, HandleKeeps, RawKeeps, AddWatchKeeps, WatchAnswerKeeps,
     ReplyKeeps DEF Device!Writing
<1>5. CASE Device!Fire /\ UNCHANGED <<Device!reads, Device!list, Device!write, Device!watches, callee,
                                      cleanup, key, refusals>>
  BY <1>5, FireKeeps DEF Device!reads, Device!list, Device!write, Device!watches
<1>6. CASE \E m \in Device!Contexts : Device!WorkItem(m)
  BY <1>6, WorkItemKeeps
<1>7. CASE Device!IoWatch
  BY <1>7, IoWatchKeeps
<1>8. CASE Device!Cleanup \/ Device!CleanupNext \/ Device!CleanupWatch
  BY <1>8, CleanupKeeps
<1>9. CASE UNCHANGED Device!vars
  <2>1. UNCHANGED <<reading, entering, io_queue, read_list, queued, given, stranded, freed, callee,
                    cleanup, key, w, buffer, len, overrun, written, watch_list, refs, table, owed>>
    BY <1>9 DEF Device!vars, Device!reads, Device!list, Device!write, Device!watches,
                Device!xenstored
  <2>2. owed' \in [Device!Contexts -> Nat]
    BY <2>1 DEF DeviceIInv, DeviceTypeOK
  <2> QED BY <2>1, <2>2, EventsKeep
<1> QED BY <1>1, <1>2, <1>3, <1>4, <1>5, <1>6, <1>7, <1>8, <1>9 DEF Device!Next

LEMMA DeviceInvariance == Device!Spec => []DeviceIInv
<1>1. DeviceIInv /\ [Device!Next]_(Device!vars) => DeviceIInv'
  BY DeviceStep
<1>2. Device!Init => DeviceIInv
  BY DeviceInit
<1> QED BY <1>1, <1>2, PTL DEF Device!Spec

\* Reads of the xenbus device get every part of every reply and event once and in order, a message
\* is put together from writes however they cut it, and an event finds its context in place, for
\* every program, length of reads and writes, and size of XenBus's table (XenbusDevice).
THEOREM DeviceKept == Device!Spec => []DeviceSound
<1>1. DeviceIInv => DeviceSound
  BY DeviceConsequence
<1> QED BY <1>1, DeviceInvariance, PTL
-----------------------------------------------------------------------------
\* The run goes on with one of the modules and leaves the other alone, so that what is shown of
\* each is true of it.
LEMMA OneQueueRuns ==
  ASSUME [MCNext]_<<runs, vars, device>>
  PROVE  [Next]_vars /\ [Device!Next]_(Device!vars)
BY DEF MCNext, device, Device!vars, Device!reads, Device!list, Device!write, Device!watches,
       Device!xenstored

\* What the run MCQueues checks holds of its specification, for every value of the constants.
THEOREM QueuesKept == MCSpec => [](ListsSound /\ (suspends <= 1 => SlotsSound) /\ DeviceSound)
<1>1. MCInit => Init /\ Device!Init
  BY DEF MCInit
<1>2. MCSpec => Spec /\ Device!Spec
  BY <1>1, OneQueueRuns, PTL DEF MCSpec, Spec, Device!Spec
<1> QED BY <1>2, ListsKept, SlotsKept, DeviceKept, PTL
=============================================================================
