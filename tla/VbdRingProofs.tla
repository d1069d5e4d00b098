---------------------------- MODULE VbdRingProofs ----------------------------
(***************************************************************************)
(* Proofs about VbdRing for every number of shadows, all SRBs of any kinds *)
(* and sizes, and any number of errors, resets, failures and suspends.     *)
(*                                                                         *)
(* The invariant puts each shadow in one place (free, private, with the    *)
(* backend, answered), says that only the SRB at the head of the list can  *)
(* be half sent, that the requests of an SRB are counted right whether or  *)
(* not it was given back, and that while the device is not active nothing  *)
(* new gets a shadow, so that Closing, once it may be written, stays true. *)
(***************************************************************************)
EXTENDS VbdRing, FiniteSetTheorems, TLAPS

\* The requests of an SRB.
Requests(s) == {i \in Ids : shadows[i].srb = s}

\* Each shadow is in one place, and its fields are what that place says.
Shadows ==
  /\ pvt \cap sent = {} /\ pvt \cap Answers = {} /\ sent \cap Answers = {}
  /\ shadow_free \cap (pvt \cup sent \cup Answers) = {}
  /\ pvt \cup sent \cup Answers \cup shadow_free = Ids
  /\ \A k, l \in 1 .. Len(rsp) : rsp[k].id = rsp[l].id => k = l
  /\ \A i \in shadow_free : shadows[i] = CleanShadow
  /\ \A i \in Ids \ shadow_free : shadows[i].reset <=> shadows[i].srb = NoSrb

\* The one aligned buffer belongs to at most one request, which was not reset.
Buffer ==
  /\ \A i \in Ids : shadows[i].aligned => shadows[i].srb # NoSrb
  /\ \A i, j \in Ids : shadows[i].aligned /\ shadows[j].aligned => i = j
  /\ aligned_buffer_in_use <=> \E i \in Ids : shadows[i].aligned

\* An SRB is on the list once, and has begun only if it is the first.
List ==
  /\ \A k, l \in DOMAIN srb_list : srb_list[k] = srb_list[l] => k = l
  /\ \A k \in DOMAIN srb_list : k > 1 => entry[srb_list[k]].offset = 0

\* Where an SRB is against what its entry says.
Accounts ==
  /\ held = ToSet(srb_list) \cup InShadows
  /\ \A s \in Srbs \ held : entry[s].offset = 0
  /\ \A s \in Srbs : /\ entry[s].outstanding = Cardinality(Requests(s))
                     /\ entry[s].outstanding <= entry[s].offset
                     /\ Kind[s] \notin ReadWrite => entry[s].offset = 0
  /\ \A s \in held : Kind[s] \in ReadWrite =>
       (s \in ToSet(srb_list) <=> entry[s].offset < Blocks[s])

\* What the thread that suspends has reached, and that Closing is only seen with an empty ring.
Connection ==
  /\ device_state = CASE tm \in {"up", "start"} -> "ACTIVE"
                      [] tm \in {"closing", "waitclosing", "waitclosed"} -> "DISCONNECTING"
                      [] tm \in {"down", "waitconnected"} -> "DISCONNECTED"
  /\ tm \in {"up", "start"} => frontend = "Connected" /\ backend = "Connected"
  /\ tm = "waitconnected" => frontend = "Initialised"
  /\ workitem => AllFree /\ tm \in {"closing", "waitclosing", "waitclosed", "down"}
  /\ tm = "waitclosing" /\ "Closing" \in {frontend, backend} => AllFree
  /\ tm \in {"closing", "waitclosed", "down", "waitconnected"} => AllFree

IInv == TypeOK /\ Shadows /\ Buffer /\ List /\ Accounts /\ Connection

-----------------------------------------------------------------------------
(* Counting, and sequences *)

\* Ids is a finite set with as many elements as there are shadows.
LEMMA IdsFinite == IsFiniteSet(Ids) /\ Cardinality(Ids) = SHADOW_ENTRIES
<1>1. 0 \in Int /\ SHADOW_ENTRIES - 1 \in Int
  BY VbdRingAssumption
<1> QED BY <1>1, FS_Interval, VbdRingAssumption DEF Ids

\* A set of shadows grows or shrinks by one.
LEMMA OneMore ==
  ASSUME NEW S \in SUBSET Ids, NEW i \in Ids
  PROVE  /\ IsFiniteSet(S) /\ Cardinality(S) \in Nat
         /\ i \notin S => Cardinality(S \cup {i}) = Cardinality(S) + 1
         /\ i \in S => Cardinality(S \ {i}) = Cardinality(S) - 1
<1>1. IsFiniteSet(S)
  BY IdsFinite, FS_Subset
<1> QED BY <1>1, FS_CardinalityType, FS_AddElement, FS_RemoveElement

\* A set of shadows is empty, or has one, by its count.
LEMMA Counts ==
  ASSUME NEW S \in SUBSET Ids
  PROVE  (Cardinality(S) = 0 <=> S = {}) /\ Cardinality(S) <= SHADOW_ENTRIES
<1> QED BY OneMore, IdsFinite, FS_EmptySet, FS_Subset

\* What a list has when an element is put at its end or taken from its head.
LEMMA AppendRange ==
  ASSUME NEW S, NEW s \in Seq(S), NEW x
  PROVE  /\ Append(s, x) # <<>>
         /\ DOMAIN Append(s, x) = 1 .. Len(s) + 1
         /\ \A k \in DOMAIN s : Append(s, x)[k] = s[k]
         /\ Append(s, x)[Len(s) + 1] = x
         /\ ToSet(Append(s, x)) = ToSet(s) \cup {x}
<1>1. /\ DOMAIN s = 1 .. Len(s) /\ Len(s) \in Nat
      /\ DOMAIN Append(s, x) = 1 .. Len(s) + 1
      /\ \A k \in DOMAIN s : Append(s, x)[k] = s[k]
      /\ Append(s, x)[Len(s) + 1] = x
  OBVIOUS
<1>2. Append(s, x) # <<>>
  BY <1>1
<1>3. ToSet(Append(s, x)) \subseteq ToSet(s) \cup {x}
  BY <1>1 DEF ToSet
<1>4. ToSet(s) \cup {x} \subseteq ToSet(Append(s, x))
  <2>1. x \in ToSet(Append(s, x))
    BY <1>1 DEF ToSet
  <2>2. ToSet(s) \subseteq ToSet(Append(s, x))
    BY <1>1 DEF ToSet
  <2> QED BY <2>1, <2>2
<1> QED BY <1>1, <1>2, <1>3, <1>4

LEMMA TailRange ==
  ASSUME NEW S, NEW s \in Seq(S), s # <<>>
  PROVE  /\ Head(s) = s[1] /\ Head(s) \in S /\ Head(s) \in ToSet(s) /\ 1 \in DOMAIN s
         /\ DOMAIN s = 1 .. Len(s) /\ Len(s) \in Nat \ {0}
         /\ Tail(s) \in Seq(S) /\ Len(Tail(s)) = Len(s) - 1
         /\ DOMAIN Tail(s) = 1 .. Len(s) - 1
         /\ \A k \in DOMAIN Tail(s) : k + 1 \in DOMAIN s /\ Tail(s)[k] = s[k + 1]
         /\ ToSet(s) = ToSet(Tail(s)) \cup {Head(s)}
<1>1. /\ Head(s) = s[1] /\ Head(s) \in S /\ 1 \in DOMAIN s
      /\ DOMAIN s = 1 .. Len(s) /\ Len(s) \in Nat \ {0}
      /\ Tail(s) \in Seq(S) /\ Len(Tail(s)) = Len(s) - 1
      /\ DOMAIN Tail(s) = 1 .. Len(s) - 1
      /\ \A k \in DOMAIN Tail(s) : k + 1 \in DOMAIN s /\ Tail(s)[k] = s[k + 1]
  OBVIOUS
<1>2. ToSet(Tail(s)) \cup {Head(s)} \subseteq ToSet(s)
  BY <1>1 DEF ToSet
<1>3. ASSUME NEW k \in DOMAIN s PROVE s[k] \in ToSet(Tail(s)) \cup {Head(s)}
  <2>1. CASE k = 1
    BY <2>1, <1>1
  <2>2. CASE k # 1
    <3>1. k - 1 \in DOMAIN Tail(s) /\ (k - 1) + 1 = k
      BY <1>1, <2>2
    <3> QED BY <3>1, <1>1 DEF ToSet
  <2> QED BY <2>1, <2>2
<1>4. ToSet(s) \subseteq ToSet(Tail(s)) \cup {Head(s)}
  BY <1>3 DEF ToSet
<1> QED BY <1>1, <1>2, <1>4

\* Taking the head of a list without repetitions takes the element out.
LEMMA TailOfInjective ==
  ASSUME NEW S, NEW s \in Seq(S), s # <<>>,
         \A k, l \in DOMAIN s : s[k] = s[l] => k = l
  PROVE  /\ ToSet(Tail(s)) = ToSet(s) \ {Head(s)}
         /\ \A k, l \in DOMAIN Tail(s) : Tail(s)[k] = Tail(s)[l] => k = l
<1>1. ASSUME NEW k \in DOMAIN Tail(s) PROVE Tail(s)[k] # Head(s)
  <2>1. k + 1 \in DOMAIN s /\ Tail(s)[k] = s[k + 1] /\ k \in Nat /\ 1 \in DOMAIN s /\ Head(s) = s[1]
    BY TailRange
  <2>2. k + 1 # 1
    BY <1>1, TailRange
  <2> QED BY <2>1, <2>2
<1>2. Head(s) \notin ToSet(Tail(s))
  BY <1>1 DEF ToSet
<1>3. ASSUME NEW k \in DOMAIN Tail(s), NEW l \in DOMAIN Tail(s), Tail(s)[k] = Tail(s)[l]
      PROVE  k = l
  <2>1. k + 1 = l + 1
    BY <1>3, TailRange
  <2>2. k \in Nat /\ l \in Nat
    BY TailRange
  <2> QED BY <2>1, <2>2
<1> QED BY <1>2, <1>3, TailRange

\* The SRBs in flight are those with requests.
LEMMA InFlight ==
  ASSUME NEW sh \in [Ids -> [srb : Srbs \cup {NoSrb}, reset : BOOLEAN, aligned : BOOLEAN]],
         NEW s
  PROVE  s \in {sh[i].srb : i \in Ids} \ {NoSrb} <=> s \in Srbs /\ {i \in Ids : sh[i].srb = s} # {}
<1> QED BY VbdRingAssumption

\* The ids of the answers, when the backend adds one and when one is taken.
LEMMA AnswersAppend ==
  ASSUME TypeOK, Shadows, NEW id \in Ids \ Answers, NEW ok \in BOOLEAN,
         rsp' = Append(rsp, [id |-> id, ok |-> ok])
  PROVE  /\ rsp' \in Seq([id : Ids, ok : BOOLEAN]) /\ Len(rsp') = Len(rsp) + 1
         /\ Answers' = Answers \cup {id}
         /\ \A k, l \in 1 .. Len(rsp') : rsp'[k].id = rsp'[l].id => k = l
<1> DEFINE x == [id |-> id, ok |-> ok]
<1>1. /\ rsp \in Seq([id : Ids, ok : BOOLEAN]) /\ Len(rsp) \in Nat
      /\ rsp' \in Seq([id : Ids, ok : BOOLEAN]) /\ Len(rsp') = Len(rsp) + 1
      /\ \A k \in 1 .. Len(rsp) : rsp'[k] = rsp[k]
      /\ rsp'[Len(rsp) + 1] = x /\ x.id = id
  BY DEF TypeOK
<1>2. Answers' \subseteq Answers \cup {id}
  BY <1>1 DEF Answers
<1>3. Answers \subseteq Answers' /\ id \in Answers'
  BY <1>1 DEF Answers
<1>4. ASSUME NEW k \in 1 .. Len(rsp'), NEW l \in 1 .. Len(rsp'), rsp'[k].id = rsp'[l].id
      PROVE  k = l
  <2>1. \A m \in 1 .. Len(rsp) : rsp'[m].id \in Answers
    BY <1>1 DEF Answers
  <2> QED BY <1>1, <1>4, <2>1 DEF Shadows
<1> QED BY <1>1, <1>2, <1>3, <1>4

LEMMA AnswersTail ==
  ASSUME TypeOK, Shadows, rsp # <<>>, rsp' = Tail(rsp)
  PROVE  /\ Head(rsp).id \in Answers /\ Head(rsp).id \in Ids /\ Head(rsp).ok \in BOOLEAN
         /\ rsp' \in Seq([id : Ids, ok : BOOLEAN]) /\ Len(rsp') = Len(rsp) - 1
         /\ Answers' = Answers \ {Head(rsp).id}
         /\ \A k, l \in 1 .. Len(rsp') : rsp'[k].id = rsp'[l].id => k = l
<1>1. rsp \in Seq([id : Ids, ok : BOOLEAN])
  BY DEF TypeOK
<1>2. /\ Head(rsp) = rsp[1] /\ Head(rsp) \in [id : Ids, ok : BOOLEAN] /\ Len(rsp) \in Nat \ {0}
      /\ rsp' \in Seq([id : Ids, ok : BOOLEAN]) /\ Len(rsp') = Len(rsp) - 1
      /\ \A k \in 1 .. Len(rsp') : k + 1 \in 1 .. Len(rsp) /\ rsp'[k] = rsp[k + 1]
  BY <1>1, TailRange
<1>3. ASSUME NEW k \in 1 .. Len(rsp), k # 1 PROVE k - 1 \in 1 .. Len(rsp') /\ rsp'[k - 1] = rsp[k]
  <2>1. k - 1 \in 1 .. Len(rsp') /\ (k - 1) + 1 = k
    BY <1>2, <1>3
  <2> QED BY <1>2, <2>1
<1>4. Answers' \subseteq Answers
  BY <1>2 DEF Answers
<1>5. \A k, l \in 1 .. Len(rsp') : rsp'[k].id = rsp'[l].id => k = l
  BY <1>2 DEF Shadows
<1>6. Head(rsp).id \in Answers
  BY <1>2 DEF Answers
<1>7. Head(rsp).id \notin Answers'
  <2>1. ASSUME NEW k \in 1 .. Len(rsp') PROVE rsp'[k].id # rsp[1].id
    <3>1. k + 1 \in 1 .. Len(rsp) /\ 1 \in 1 .. Len(rsp) /\ rsp'[k] = rsp[k + 1] /\ k + 1 # 1
      BY <1>2
    <3> QED BY <3>1 DEF Shadows
  <2> QED BY <2>1, <1>2 DEF Answers
<1>8. Answers \subseteq Answers' \cup {Head(rsp).id}
  <2>1. ASSUME NEW k \in 1 .. Len(rsp) PROVE rsp[k].id \in Answers' \cup {Head(rsp).id}
    <3>1. CASE k = 1
      BY <3>1, <1>2
    <3>2. CASE k # 1
      BY <1>3, <3>2 DEF Answers
    <3> QED BY <3>1, <3>2
  <2> QED BY <2>1 DEF Answers
<1> QED BY <1>2, <1>4, <1>5, <1>6, <1>7, <1>8

-----------------------------------------------------------------------------
(* Every action keeps the invariant. *)

\* Taking an answer frees its shadow, whatever becomes of its SRB.
LEMMA Consumed ==
  ASSUME IInv, ConsumeAnswer
  PROVE  /\ Head(rsp).id \in Ids \ shadow_free /\ Head(rsp).ok \in BOOLEAN
         /\ shadows' = [shadows EXCEPT ![Head(rsp).id] = CleanShadow]
         /\ shadows' \in [Ids -> [srb : Srbs \cup {NoSrb}, reset : BOOLEAN, aligned : BOOLEAN]]
         /\ rsp' \in Seq([id : Ids, ok : BOOLEAN]) /\ todo' \in 0 .. Len(rsp')
         /\ rsp_event' \in 0 .. SHADOW_ENTRIES
         /\ Shadows' /\ Connection'
<1> USE DEF IInv
<1> DEFINE i == Head(rsp).id
<1>1. /\ todo \in 0 .. Len(rsp) /\ todo > 0 /\ rsp \in Seq([id : Ids, ok : BOOLEAN])
      /\ rsp' = Tail(rsp) /\ todo' = todo - 1
  BY DEF ConsumeAnswer, TypeOK
<1>2. rsp # <<>>
  BY <1>1
<1>3. /\ i \in Answers /\ i \in Ids /\ Head(rsp).ok \in BOOLEAN
      /\ rsp' \in Seq([id : Ids, ok : BOOLEAN]) /\ Len(rsp') = Len(rsp) - 1
      /\ Answers' = Answers \ {i}
      /\ \A k, l \in 1 .. Len(rsp') : rsp'[k].id = rsp'[l].id => k = l
  BY <1>1, <1>2, AnswersTail
<1>4. i \notin shadow_free
  BY <1>3 DEF Shadows
<1>5. todo' \in 0 .. Len(rsp')
  BY <1>1, <1>3
<1>6. rsp_event' \in 0 .. SHADOW_ENTRIES
  BY VbdRingAssumption DEF ConsumeAnswer, TypeOK
<1>7. /\ shadows \in [Ids -> [srb : Srbs \cup {NoSrb}, reset : BOOLEAN, aligned : BOOLEAN]]
      /\ shadows' = [shadows EXCEPT ![i] = CleanShadow]
  BY DEF ConsumeAnswer, TypeOK
<1>8. /\ shadows' \in [Ids -> [srb : Srbs \cup {NoSrb}, reset : BOOLEAN, aligned : BOOLEAN]]
      /\ \A j \in Ids : shadows'[j] = IF j = i THEN CleanShadow ELSE shadows[j]
  BY <1>3, <1>7 DEF CleanShadow
<1>9. pvt' = pvt /\ sent' = sent /\ shadow_free' = shadow_free \cup {i}
  BY DEF ConsumeAnswer
<1>10. Shadows'
  <2> HIDE DEF i
  <2>1. /\ pvt' \cap sent' = {} /\ pvt' \cap Answers' = {} /\ sent' \cap Answers' = {}
        /\ shadow_free' \cap (pvt' \cup sent' \cup Answers') = {}
        /\ pvt' \cup sent' \cup Answers' \cup shadow_free' = Ids
    BY <1>3, <1>9 DEF Shadows
  <2>2. \A j \in shadow_free' : shadows'[j] = CleanShadow
    BY <1>3, <1>8, <1>9, <2>1 DEF Shadows
  <2>3. \A j \in Ids \ shadow_free' : shadows'[j].reset <=> shadows'[j].srb = NoSrb
    BY <1>8, <1>9 DEF Shadows
  <2> QED BY <1>3, <2>1, <2>2, <2>3 DEF Shadows
<1>11. Connection'
  <2>1. AllFree => AllFree'
    BY <1>3, <1>9 DEF AllFree
  <2> QED BY <2>1 DEF Connection, ConsumeAnswer, conn
<1> QED BY <1>3, <1>4, <1>5, <1>6, <1>7, <1>8, <1>10, <1>11

LEMMA DiscardResetKeeps ==
  ASSUME IInv, DiscardReset
  PROVE  IInv'
<1> USE DEF IInv
<1> DEFINE i == Head(rsp).id
<1> ConsumeAnswer
  BY DEF DiscardReset
<1>1. /\ i \in Ids \ shadow_free /\ shadows' = [shadows EXCEPT ![i] = CleanShadow]
      /\ shadows' \in [Ids -> [srb : Srbs \cup {NoSrb}, reset : BOOLEAN, aligned : BOOLEAN]]
      /\ rsp' \in Seq([id : Ids, ok : BOOLEAN]) /\ todo' \in 0 .. Len(rsp')
      /\ rsp_event' \in 0 .. SHADOW_ENTRIES
      /\ Shadows' /\ Connection'
  BY Consumed
<1> HIDE DEF i
<1>2. shadows[i].srb = NoSrb /\ shadows[i].aligned = FALSE
  BY <1>1 DEF DiscardReset, Shadows, Buffer, TypeOK, i
<1>3. \A j \in Ids : shadows'[j].srb = shadows[j].srb /\ shadows'[j].aligned = shadows[j].aligned
  BY <1>1, <1>2 DEF TypeOK, CleanShadow
<1>4. TypeOK'
  BY <1>1 DEF TypeOK, DiscardReset, ConsumeAnswer, conn, i
<1>5. Buffer'
  BY <1>3 DEF Buffer, DiscardReset
<1>6. List'
  BY DEF List, DiscardReset, ConsumeAnswer
<1>7. Accounts'
  <2>1. InShadows' = InShadows
    BY <1>3 DEF InShadows
  <2>2. \A s \in Srbs : Requests(s)' = Requests(s)
    BY <1>3 DEF Requests
  <2> QED BY <2>1, <2>2 DEF Accounts, DiscardReset, ConsumeAnswer
<1> QED BY <1>1, <1>4, <1>5, <1>6, <1>7

\* Counting the requests of each SRB when one is answered.
LEMMA RespondKeeps ==
  ASSUME IInv, Respond
  PROVE  IInv'
<1> USE DEF IInv
<1> DEFINE i == Head(rsp).id
           s == shadows[i].srb
           e == [entry[s] EXCEPT !.outstanding = @ - 1, !.error = @ \/ ~Head(rsp).ok]
<1> ConsumeAnswer
  BY DEF Respond
<1>1. /\ i \in Ids \ shadow_free /\ Head(rsp).ok \in BOOLEAN
      /\ shadows' = [shadows EXCEPT ![i] = CleanShadow]
      /\ shadows' \in [Ids -> [srb : Srbs \cup {NoSrb}, reset : BOOLEAN, aligned : BOOLEAN]]
      /\ rsp' \in Seq([id : Ids, ok : BOOLEAN]) /\ todo' \in 0 .. Len(rsp')
      /\ rsp_event' \in 0 .. SHADOW_ENTRIES
      /\ Shadows' /\ Connection'
  BY Consumed
<1>2. /\ ~shadows[i].reset
      /\ entry' = [entry EXCEPT ![s] = IF Done(e, s) THEN Fresh ELSE e]
      /\ held' = IF Done(e, s) THEN held \ {s} ELSE held
      /\ cac' = (Done(e, s) /\ e.error /\ AutoSense(s))
      /\ aligned_buffer_in_use' = (aligned_buffer_in_use /\ ~shadows[i].aligned)
  BY Zenon DEF Respond
<1>3. s \in Srbs /\ s # NoSrb
  BY <1>1, <1>2, VbdRingAssumption DEF Shadows, TypeOK
<1>4. /\ \A j \in Ids : shadows'[j] = IF j = i THEN CleanShadow ELSE shadows[j]
      /\ \A t \in Srbs : Requests(t)' = IF t = s THEN Requests(s) \ {i} ELSE Requests(t)
      /\ i \in Requests(s)
  <2> HIDE DEF i
  <2>1. \A j \in Ids : shadows'[j] = IF j = i THEN CleanShadow ELSE shadows[j]
    BY <1>1 DEF TypeOK
  <2>2. ASSUME NEW t \in Srbs
        PROVE  Requests(t)' = IF t = s THEN Requests(s) \ {i} ELSE Requests(t)
    BY <2>1, <1>3, VbdRingAssumption DEF Requests, CleanShadow
  <2>3. i \in Requests(s)
    BY <1>1 DEF Requests
  <2> QED BY <2>1, <2>2, <2>3
<1>5. /\ entry[s].outstanding = Cardinality(Requests(s)) /\ entry[s].outstanding \in Nat
      /\ entry[s].offset \in Nat /\ entry[s].error \in BOOLEAN
      /\ Cardinality(Requests(s) \ {i}) = entry[s].outstanding - 1
      /\ entry[s].outstanding > 0
  <2>1. Requests(s) \in SUBSET Ids
    BY DEF Requests
  <2> HIDE DEF s, i
  <2>2. /\ Cardinality(Requests(s)) \in Nat
        /\ Cardinality(Requests(s) \ {i}) = Cardinality(Requests(s)) - 1
    BY <1>1, <1>4, <2>1, OneMore
  <2>3. Cardinality(Requests(s)) > 0
    BY <1>4, <2>1, <2>2, Counts
  <2> QED BY <1>3, <1>4, <2>2, <2>3 DEF Accounts, TypeOK
<1>6. /\ e.offset = entry[s].offset /\ e.outstanding = entry[s].outstanding - 1
      /\ e \in [offset : Nat, outstanding : Nat, error : BOOLEAN]
  <2>1. entry[s] \in [offset : Nat, outstanding : Nat, error : BOOLEAN]
    BY <1>3 DEF TypeOK
  <2>2. (entry[s].error \/ ~Head(rsp).ok) \in BOOLEAN
    OBVIOUS
  <2>3. entry[s].outstanding - 1 \in Nat
    BY <1>5
  <2> HIDE DEF i, s
  <2> QED BY <2>1, <2>2, <2>3
<1> HIDE DEF e, i, s
<1>7. \A t \in Srbs : entry'[t] = IF t # s THEN entry[t] ELSE IF Done(e, s) THEN Fresh ELSE e
  BY <1>2, <1>3 DEF TypeOK
<1>8. entry' \in [Srbs -> [offset : Nat, outstanding : Nat, error : BOOLEAN]]
  <2>1. Fresh \in [offset : Nat, outstanding : Nat, error : BOOLEAN]
    BY DEF Fresh
  <2> QED BY <1>2, <1>6, <2>1 DEF TypeOK
<1>9. /\ \A t \in Srbs : t # s => entry'[t] = entry[t]
      /\ Done(e, s) => entry'[s].offset = 0 /\ entry'[s].outstanding = 0
      /\ ~Done(e, s) => entry'[s] = e
  BY <1>3, <1>7 DEF Fresh
<1>10. Kind[s] \in ReadWrite
  BY <1>3, <1>5 DEF Accounts
<1>11. s \in held
  <2>1. s \in InShadows
    BY <1>1, <1>3 DEF InShadows, s
  <2> QED BY <2>1 DEF Accounts
<1>12. TypeOK'
  <2>1. \A t \in Srbs : entry'[t].offset <= Blocks[t]
    <3>1. CASE Done(e, s)
      <4>1. entry'[s].offset = 0 /\ Blocks[s] \in Nat
        BY <1>3, <1>9, <3>1, VbdRingAssumption
      <4>2. entry'[s].offset <= Blocks[s]
        BY <4>1
      <4> QED BY <1>9, <4>2 DEF TypeOK
    <3>2. CASE ~Done(e, s)
      <4>1. entry'[s].offset = entry[s].offset
        BY <1>6, <1>9, <3>2
      <4> QED BY <1>9, <4>1 DEF TypeOK
    <3> QED BY <3>1, <3>2
  <2>2. cac' \in BOOLEAN /\ aligned_buffer_in_use' \in BOOLEAN
    <3>1. cac' \in BOOLEAN
      BY <1>2
    <3>2. aligned_buffer_in_use' \in BOOLEAN
      BY <1>2
    <3> QED BY <3>1, <3>2
  <2>3. held' \subseteq Srbs
    BY <1>2 DEF TypeOK
  <2> QED BY <1>1, <1>8, <2>1, <2>2, <2>3 DEF TypeOK, ConsumeAnswer, conn, i
<1>13. Buffer'
  <2>1. /\ \A j \in Ids : shadows'[j].aligned => shadows'[j].srb # NoSrb
        /\ \A j, k \in Ids : shadows'[j].aligned /\ shadows'[k].aligned => j = k
    BY <1>4 DEF Buffer, CleanShadow
  <2>2. aligned_buffer_in_use' <=> \E j \in Ids : shadows'[j].aligned
    <3>1. CASE shadows[i].aligned
      BY <1>1, <1>2, <1>4, <3>1 DEF Buffer, CleanShadow
    <3>2. CASE ~shadows[i].aligned
      BY <1>1, <1>2, <1>4, <3>2 DEF Buffer, CleanShadow
    <3> QED BY <3>1, <3>2
  <2> QED BY <2>1, <2>2 DEF Buffer
<1>14. srb_list' = srb_list /\ srb_list \in Seq(Srbs)
  BY DEF ConsumeAnswer, TypeOK
<1>15. \A t \in Srbs : entry'[t].offset = entry[t].offset \/ (t = s /\ entry'[t].offset = 0)
  BY <1>6, <1>7 DEF Fresh
<1>16. List'
  <2>1. \A k \in DOMAIN srb_list : srb_list[k] \in Srbs
    BY <1>14
  <2> QED BY <1>14, <1>15, <2>1 DEF List
<1>17. Accounts'
  <2>1. \A t : t \in InShadows' <=> t \in Srbs /\ Requests(t)' # {}
    BY <1>1, InFlight DEF InShadows, Requests
  <2>2. \A t : t \in InShadows <=> t \in Srbs /\ Requests(t) # {}
    BY InFlight DEF InShadows, Requests, TypeOK
  <2>3. Requests(s) \ {i} = {} <=> e.outstanding = 0
    BY <1>5, <1>6, Counts DEF Requests
  <2>4. InShadows' = IF e.outstanding = 0 THEN InShadows \ {s} ELSE InShadows
    BY <1>3, <1>4, <2>1, <2>2, <2>3
  <2>5. s \in ToSet(srb_list) <=> entry[s].offset < Blocks[s]
    BY <1>10, <1>11 DEF Accounts
  <2>6. e.outstanding = 0 => (Done(e, s) <=> s \notin ToSet(srb_list))
    BY <1>3, <1>6, <2>5, VbdRingAssumption DEF Done, TypeOK
  <2>7. held' = ToSet(srb_list') \cup InShadows'
    BY <1>2, <1>11, <1>14, <2>4, <2>6 DEF Accounts, Done
  <2>8. ASSUME NEW t \in Srbs \ held' PROVE entry'[t].offset = 0
    BY <1>2, <1>9, <1>11, <2>8 DEF Accounts
  <2>9. ASSUME NEW t \in Srbs
        PROVE  /\ entry'[t].outstanding = Cardinality(Requests(t)')
               /\ entry'[t].outstanding <= entry'[t].offset
               /\ Kind[t] \notin ReadWrite => entry'[t].offset = 0
    <3>1. CASE t # s
      BY <1>4, <1>7, <3>1 DEF Accounts
    <3>2. CASE t = s
      <4>1. Cardinality(Requests(t)') = e.outstanding
        BY <1>4, <1>5, <1>6, <3>2
      <4>2. CASE Done(e, s)
        <5>1. e.outstanding = 0
          BY <4>2 DEF Done
        <5>2. entry'[t].outstanding = 0 /\ entry'[t].offset = 0
          BY <1>9, <3>2, <4>2
        <5> QED BY <4>1, <5>1, <5>2
      <4>3. CASE ~Done(e, s)
        <5>1. entry'[t] = e
          BY <1>9, <3>2, <4>3
        <5>2. e.outstanding <= e.offset
          BY <1>3, <1>5, <1>6 DEF Accounts
        <5> QED BY <1>10, <3>2, <4>1, <5>1, <5>2
      <4> QED BY <4>2, <4>3
    <3> QED BY <3>1, <3>2
  <2>10. ASSUME NEW t \in held', Kind[t] \in ReadWrite
         PROVE  t \in ToSet(srb_list') <=> entry'[t].offset < Blocks[t]
    <3>1. t \in Srbs /\ t \in held /\ ~(t = s /\ Done(e, s))
      BY <1>2, <2>10 DEF TypeOK
    <3> QED BY <1>6, <1>7, <1>14, <2>10, <3>1 DEF Accounts
  <2> QED BY <2>7, <2>8, <2>9, <2>10 DEF Accounts
<1> QED BY <1>1, <1>12, <1>13, <1>16, <1>17

\* Steps that leave the SRBs, the shadows and the ring alone.
LEMMA Untouched ==
  ASSUME IInv, UNCHANGED <<srbs, pool, pvt, sent, rsp>>
  PROVE  Shadows' /\ Buffer' /\ List' /\ Accounts'
<1> USE DEF IInv, srbs, pool
<1>1. Shadows'
  BY DEF Shadows, Answers
<1>2. Buffer'
  BY DEF Buffer
<1>3. List'
  BY DEF List
<1>4. Accounts'
  BY DEF Accounts, InShadows, Requests
<1> QED BY <1>1, <1>2, <1>3, <1>4

LEMMA RespondEndKeeps ==
  ASSUME IInv, RespondEnd
  PROVE  IInv'
<1> USE DEF IInv, RespondEnd, conn, srbs, pool, ring
<1>1. Shadows' /\ Buffer' /\ List' /\ Accounts'
  BY Untouched
<1>2. TypeOK'
  BY VbdRingAssumption DEF TypeOK, DeviceStates, XenbusStates
<1>3. Connection'
  BY DEF Connection, AllFree, TypeOK
<1> QED BY <1>1, <1>2, <1>3

LEMMA ConsumeKeeps ==
  ASSUME IInv, Consume
  PROVE  IInv'
<1> USE DEF IInv, Consume, conn, srbs, pool, ring, Loop
<1>1. Shadows' /\ Buffer' /\ List' /\ Accounts'
  BY Untouched
<1>2. TypeOK'
  BY VbdRingAssumption DEF TypeOK, DeviceStates, XenbusStates
<1>3. Connection'
  BY DEF Connection, AllFree, TypeOK
<1> QED BY <1>1, <1>2, <1>3

LEMMA ArmKeeps ==
  ASSUME IInv, Arm
  PROVE  IInv'
<1> USE DEF IInv, Arm, conn, srbs, pool, ring
<1>1. Shadows' /\ Buffer' /\ List' /\ Accounts'
  BY Untouched
<1>2. TypeOK'
  <2>1. Threshold \in 0 .. SHADOW_ENTRIES
    <3> DEFINE n == Cardinality(Ids \ shadow_free)
    <3>1. n \in Nat /\ n <= SHADOW_ENTRIES
      BY OneMore, Counts, IdsFinite, FS_Subset, FS_CardinalityType
    <3>2. SHADOW_ENTRIES \in Nat /\ SHADOW_ENTRIES > 0
      BY VbdRingAssumption
    <3> HIDE DEF n
    <3>3. (IF n < 2 THEN 1 ELSE n \div 2) \in 0 .. SHADOW_ENTRIES
      BY <3>1, <3>2
    <3> QED BY <3>3 DEF Threshold, n
  <2> QED BY <2>1 DEF TypeOK
<1>3. Connection'
  BY DEF Connection, AllFree, TypeOK
<1> QED BY <1>1, <1>2, <1>3

LEMMA RecheckKeeps ==
  ASSUME IInv, Recheck
  PROVE  IInv'
<1> USE DEF IInv, Recheck, conn, srbs, pool, ring, Loop
<1>1. Shadows' /\ Buffer' /\ List' /\ Accounts'
  BY Untouched
<1>2. TypeOK'
  BY VbdRingAssumption DEF TypeOK, DeviceStates, XenbusStates
<1>3. Connection'
  BY DEF Connection, AllFree, TypeOK
<1> QED BY <1>1, <1>2, <1>3

LEMMA FinishKeeps ==
  ASSUME IInv, Finish
  PROVE  IInv'
<1> USE DEF IInv, Finish, conn, srbs, pool, ring
<1>1. Shadows' /\ Buffer' /\ List' /\ Accounts'
  BY Untouched
<1>2. TypeOK'
  BY VbdRingAssumption DEF TypeOK, DeviceStates, XenbusStates
<1>3. Connection'
  BY DEF Connection, AllFree, TypeOK
<1> QED BY <1>1, <1>2, <1>3

LEMMA HandleEventDpcKeeps ==
  ASSUME IInv, HandleEventDpc
  PROVE  IInv'
<1> USE DEF IInv, HandleEventDpc, conn, srbs, pool, ring, HandleEvent, Loop
<1>1. Shadows' /\ Buffer' /\ List' /\ Accounts'
  BY Untouched
<1>2. TypeOK'
  <2>1. dpc' \in BOOLEAN
    BY Zenon
  <2> QED BY <2>1 DEF TypeOK
<1>3. Connection'
  BY DEF Connection, AllFree, TypeOK
<1> QED BY <1>1, <1>2, <1>3

LEMMA StopRingKeeps ==
  ASSUME IInv, StopRing
  PROVE  IInv'
<1> USE DEF IInv, StopRing, unconn, srbs, pool, ring, locked
<1>1. Shadows' /\ Buffer' /\ List' /\ Accounts'
  BY Untouched
<1>2. TypeOK'
  BY VbdRingAssumption DEF TypeOK, DeviceStates, XenbusStates
<1>3. Connection'
  BY DEF Connection, AllFree, TypeOK
<1> QED BY <1>1, <1>2, <1>3

LEMMA WriteClosingKeeps ==
  ASSUME IInv, WriteClosing
  PROVE  IInv'
<1> USE DEF IInv, WriteClosing, unconn, srbs, pool, ring, locked
<1>1. Shadows' /\ Buffer' /\ List' /\ Accounts'
  BY Untouched
<1>2. TypeOK'
  BY VbdRingAssumption DEF TypeOK, DeviceStates, XenbusStates
<1>3. Connection'
  BY DEF Connection, AllFree, TypeOK
<1> QED BY <1>1, <1>2, <1>3

LEMMA DisconnectWorkItemKeeps ==
  ASSUME IInv, DisconnectWorkItem
  PROVE  IInv'
<1> USE DEF IInv, DisconnectWorkItem, unconn, srbs, pool, ring, locked
<1>1. Shadows' /\ Buffer' /\ List' /\ Accounts'
  BY Untouched
<1>2. TypeOK'
  <2>1. workitem' \in BOOLEAN
    BY Zenon
  <2> QED BY <2>1 DEF TypeOK, XenbusStates
<1>3. Connection'
  BY DEF Connection, AllFree, TypeOK
<1> QED BY <1>1, <1>2, <1>3

LEMMA WriteClosedKeeps ==
  ASSUME IInv, WriteClosed
  PROVE  IInv'
<1> USE DEF IInv, WriteClosed, unconn, srbs, pool, ring, locked
<1>1. Shadows' /\ Buffer' /\ List' /\ Accounts'
  BY Untouched
<1>2. TypeOK'
  BY VbdRingAssumption DEF TypeOK, DeviceStates, XenbusStates
<1>3. Connection'
  BY DEF Connection, AllFree, TypeOK
<1> QED BY <1>1, <1>2, <1>3

LEMMA DisconnectedKeeps ==
  ASSUME IInv, Disconnected
  PROVE  IInv'
<1> USE DEF IInv, Disconnected, unconn, srbs, pool, ring, locked
<1>1. Shadows' /\ Buffer' /\ List' /\ Accounts'
  BY Untouched
<1>2. TypeOK'
  BY VbdRingAssumption DEF TypeOK, DeviceStates, XenbusStates
<1>3. Connection'
  BY DEF Connection, AllFree, TypeOK
<1> QED BY <1>1, <1>2, <1>3

LEMMA ConnectFailKeeps ==
  ASSUME IInv, ConnectFail
  PROVE  IInv'
<1> USE DEF IInv, ConnectFail, unconn, conn, srbs, pool, ring, locked
<1>1. Shadows' /\ Buffer' /\ List' /\ Accounts'
  BY Untouched
<1>2. TypeOK'
  <2>1. failures' \in Nat
    BY DEF TypeOK
  <2> QED BY <2>1 DEF TypeOK
<1>3. Connection'
  BY DEF Connection, AllFree, TypeOK
<1> QED BY <1>1, <1>2, <1>3

LEMMA ConnectedKeeps ==
  ASSUME IInv, Connected
  PROVE  IInv'
<1> USE DEF IInv, Connected, unconn, srbs, pool, ring, locked
<1>1. Shadows' /\ Buffer' /\ List' /\ Accounts'
  BY Untouched
<1>2. TypeOK'
  BY VbdRingAssumption DEF TypeOK, DeviceStates, XenbusStates
<1>3. Connection'
  BY DEF Connection, AllFree, TypeOK
<1> QED BY <1>1, <1>2, <1>3

LEMMA StartRingKeeps ==
  ASSUME IInv, StartRing
  PROVE  IInv'
<1> USE DEF IInv, StartRing, unconn, srbs, pool, ring
<1>1. Shadows' /\ Buffer' /\ List' /\ Accounts'
  BY Untouched
<1>2. TypeOK'
  BY VbdRingAssumption DEF TypeOK, DeviceStates, XenbusStates
<1>3. Connection'
  BY DEF Connection, AllFree, TypeOK
<1> QED BY <1>1, <1>2, <1>3

LEMMA BackendMovesKeeps ==
  ASSUME IInv, BackendMoves
  PROVE  IInv'
<1> USE DEF IInv, BackendMoves, unconn, srbs, pool, ring, locked
<1>1. Shadows' /\ Buffer' /\ List' /\ Accounts'
  BY Untouched
<1>2. TypeOK'
  BY VbdRingAssumption DEF TypeOK, DeviceStates, XenbusStates
<1>3. Connection'
  BY DEF Connection, AllFree, TypeOK
<1> QED BY <1>1, <1>2, <1>3

\* The requests that were private are with the backend.
LEMMA Pushed ==
  ASSUME IInv, PushRequests, UNCHANGED <<srbs, pool, rsp>>
  PROVE  Shadows' /\ Buffer' /\ List' /\ Accounts' /\ sent' \subseteq Ids /\ pvt' \subseteq Ids
<1> USE DEF IInv, PushRequests, srbs, pool
<1>1. Shadows'
  BY DEF Shadows, Answers
<1>2. Buffer'
  BY DEF Buffer
<1>3. List'
  BY DEF List
<1>4. Accounts'
  BY DEF Accounts, InShadows, Requests
<1>5. sent' \subseteq Ids /\ pvt' \subseteq Ids
  BY DEF TypeOK
<1> QED BY <1>1, <1>2, <1>3, <1>4, <1>5

LEMMA ProcessStopKeeps ==
  ASSUME IInv, ProcessStop
  PROVE  IInv'
<1> USE DEF IInv, ProcessStop, conn, srbs, pool
<1>1. Shadows' /\ Buffer' /\ List' /\ Accounts' /\ sent' \subseteq Ids /\ pvt' \subseteq Ids
  BY Pushed
<1>2. TypeOK'
  BY <1>1 DEF TypeOK, PushRequests
<1>3. Connection'
  BY DEF Connection, AllFree
<1> QED BY <1>1, <1>2, <1>3

LEMMA ProcessFailKeeps ==
  ASSUME IInv, ProcessFail
  PROVE  IInv'
<1> USE DEF IInv, ProcessFail, conn, srbs, pool
<1>1. Shadows' /\ Buffer' /\ List' /\ Accounts' /\ sent' \subseteq Ids /\ pvt' \subseteq Ids
  BY Pushed
<1>2. TypeOK'
  <2>1. failures' \in Nat
    BY DEF TypeOK
  <2> QED BY <1>1, <2>1 DEF TypeOK, PushRequests
<1>3. Connection'
  BY DEF Connection, AllFree
<1> QED BY <1>1, <1>2, <1>3

LEMMA AnswerKeeps ==
  ASSUME IInv, NEW id \in Ids, NEW ok \in BOOLEAN, Answer(id, ok)
  PROVE  IInv'
<1> USE DEF IInv, Answer, conn, srbs, pool
<1>1. id \in Ids \ Answers /\ rsp' = Append(rsp, [id |-> id, ok |-> ok])
  BY DEF Shadows
<1>2. /\ rsp' \in Seq([id : Ids, ok : BOOLEAN]) /\ Len(rsp') = Len(rsp) + 1
      /\ Answers' = Answers \cup {id}
      /\ \A k, l \in 1 .. Len(rsp') : rsp'[k].id = rsp'[l].id => k = l
  BY <1>1, AnswersAppend
<1>3. TypeOK'
  <2>1. dpc' \in BOOLEAN
    <3>1. dpc' = (dpc \/ Len(rsp') = rsp_event)
      OBVIOUS
    <3> QED BY <3>1
  <2>2. errors' \in Nat
    BY DEF TypeOK
  <2>3. todo' \in 0 .. Len(rsp')
    BY <1>2 DEF TypeOK
  <2> QED BY <1>2, <2>1, <2>2, <2>3 DEF TypeOK
<1>4. Shadows'
  BY <1>2 DEF Shadows
<1>5. Buffer'
  BY DEF Buffer
<1>6. List'
  BY DEF List
<1>7. Accounts'
  BY DEF Accounts, InShadows, Requests
<1>8. Connection'
  BY DEF Connection, AllFree
<1> QED BY <1>3, <1>4, <1>5, <1>6, <1>7, <1>8

\* With every shadow free nothing is on the ring.
LEMMA EmptyRing ==
  ASSUME Shadows, AllFree
  PROVE  pvt = {} /\ sent = {} /\ Answers = {} /\ \A i \in Ids : shadows[i] = CleanShadow
<1> QED BY DEF Shadows, AllFree

\* The new ring is as empty as the old one was: no late work item has let the backend go.
LEMMA ConnectKeeps ==
  ASSUME IInv, ~LateWorkItem, Connect
  PROVE  IInv'
<1> USE DEF IInv, Connect, unconn, locked, srbs, pool
<1>1. AllFree /\ ~workitem
  BY DEF Connection
<1>2. pvt = {} /\ sent = {} /\ Answers = {}
  BY <1>1, EmptyRing
<1>3. Len(rsp) = 0
  <2>1. Len(rsp) \in Nat
    BY DEF TypeOK
  <2>2. Len(rsp) > 0 => 1 \in 1 .. Len(rsp)
    BY <2>1
  <2>3. Len(rsp) > 0 => rsp[1].id \in Answers
    BY <2>2 DEF Answers
  <2> QED BY <1>2, <2>1, <2>3
<1>4. rsp' = <<>> /\ Len(rsp') = 0 /\ Answers' = {}
  <2>1. rsp' = <<>> /\ Len(rsp') = 0
    OBVIOUS
  <2> QED BY <2>1 DEF Answers
<1>5. TypeOK'
  <2>1. rsp' \in Seq([id : Ids, ok : BOOLEAN])
    BY <1>4
  <2>2. todo' \in 0 .. Len(rsp')
    BY <1>3, <1>4 DEF TypeOK
  <2>3. rsp_event' \in 0 .. SHADOW_ENTRIES
    BY VbdRingAssumption
  <2> QED BY <2>1, <2>2, <2>3 DEF TypeOK, XenbusStates, DeviceStates
<1>6. Shadows'
  BY <1>2, <1>4 DEF Shadows
<1>7. Buffer'
  BY DEF Buffer
<1>8. List'
  BY DEF List
<1>9. Accounts'
  BY DEF Accounts, InShadows, Requests
<1>10. Connection'
  BY <1>1 DEF Connection, AllFree
<1> QED BY <1>5, <1>6, <1>7, <1>8, <1>9, <1>10

\* A command answered at once has nothing on the ring.
LEMMA AnswerAtOnceKeeps ==
  ASSUME IInv, AnswerAtOnce
  PROVE  IInv'
<1> USE DEF IInv
<1> DEFINE s == Head(srb_list)
<1>1. /\ srb_list # <<>> /\ Kind[s] \notin ReadWrite
      /\ srb_list' = Tail(srb_list) /\ held' = held \ {s} /\ entry' = entry
      /\ UNCHANGED <<conn, workitem, pool, ring>>
  BY DEF AnswerAtOnce, CanProcess, ReadWrite
<1>2. srb_list \in Seq(Srbs) /\ \A k, l \in DOMAIN srb_list : srb_list[k] = srb_list[l] => k = l
  BY DEF TypeOK, List
<1>3. s \in Srbs /\ srb_list' \in Seq(Srbs)
  BY <1>1, <1>2, TailRange
<1>4. /\ ToSet(srb_list') = ToSet(srb_list) \ {s}
      /\ \A k, l \in DOMAIN srb_list' : srb_list'[k] = srb_list'[l] => k = l
  BY <1>1, <1>2, TailOfInjective
<1>5. s \notin InShadows
  <2>1. Cardinality(Requests(s)) = 0
    BY <1>1, <1>3 DEF Accounts, TypeOK
  <2>2. Requests(s) = {}
    BY <2>1, Counts DEF Requests
  <2> QED BY <2>2 DEF Requests, InShadows
<1>6. TypeOK'
  <2>1. cac' \in BOOLEAN
    <3>1. (cac' = FALSE) \/ cac' = cac \/ cac' = AutoSense(s)
      BY DEF AnswerAtOnce
    <3>2. cac \in BOOLEAN /\ AutoSense(s) \in BOOLEAN
      BY DEF TypeOK, AutoSense
    <3> QED BY <3>1, <3>2
  <2>2. UNCHANGED <<dpc, pc, back, todo, accepted, errors, resets, failures>>
    BY DEF AnswerAtOnce
  <2> HIDE DEF s
  <2> QED BY <1>1, <1>3, <2>1, <2>2 DEF TypeOK, conn, pool, ring
<1> HIDE DEF s
<1>7. Shadows'
  BY <1>1 DEF Shadows, Answers, pool, ring
<1>8. Buffer'
  BY <1>1 DEF Buffer, pool
<1>9. List'
  <2>1. \A k \in DOMAIN srb_list' : k \in Nat \ {0} /\ k + 1 \in DOMAIN srb_list
                                     /\ srb_list'[k] = srb_list[k + 1]
    BY <1>1, <1>2, TailRange
  <2> QED BY <1>1, <1>4, <2>1 DEF List
<1>10. Accounts'
  <2>1. InShadows' = InShadows /\ \A t : Requests(t)' = Requests(t)
    BY <1>1 DEF InShadows, Requests, pool
  <2>2. held' = ToSet(srb_list') \cup InShadows'
    BY <1>1, <1>4, <1>5, <2>1 DEF Accounts
  <2>3. \A t \in Srbs \ held' : entry'[t].offset = 0
    BY <1>1 DEF Accounts
  <2>4. ASSUME NEW t \in held', Kind[t] \in ReadWrite
        PROVE  t \in ToSet(srb_list') <=> entry'[t].offset < Blocks[t]
    BY <1>1, <1>4, <2>4 DEF Accounts
  <2> QED BY <1>1, <2>1, <2>2, <2>3, <2>4 DEF Accounts
<1>11. Connection'
  BY <1>1 DEF Connection, AllFree, conn, pool
<1> QED BY <1>6, <1>7, <1>8, <1>9, <1>10, <1>11

\* A reset gives back all there is, and marks the requests that are still on the ring.
LEMMA ResetKeeps ==
  ASSUME IInv, ResetBus, resets' \in Nat
  PROVE  IInv'
<1> USE DEF IInv
<1>1. /\ srb_list' = <<>> /\ held' = {} /\ aligned_buffer_in_use' = FALSE
      /\ entry' = [s \in Srbs |-> IF s \in held THEN Fresh ELSE entry[s]]
      /\ shadows' = [i \in Ids |-> IF shadows[i].srb = NoSrb THEN shadows[i]
                                   ELSE [srb |-> NoSrb, reset |-> TRUE, aligned |-> FALSE]]
      /\ UNCHANGED <<conn, workitem, shadow_free, ring>>
  BY DEF ResetBus, Accounts
<1>2. \A i \in Ids : /\ shadows'[i].srb = NoSrb /\ shadows'[i].aligned = FALSE
                     /\ shadows[i].srb = NoSrb => shadows'[i] = shadows[i]
                     /\ shadows[i].srb # NoSrb => shadows'[i].reset
  BY <1>1 DEF Buffer, TypeOK
<1>3. \A s \in Srbs : /\ s \in held => entry'[s] = Fresh
                      /\ s \notin held => entry'[s] = entry[s]
  BY <1>1
<1>4. TypeOK'
  <2>1. entry' \in [Srbs -> [offset : Nat, outstanding : Nat, error : BOOLEAN]]
    <3>1. Fresh \in [offset : Nat, outstanding : Nat, error : BOOLEAN]
      BY DEF Fresh
    <3> QED BY <1>1, <3>1 DEF TypeOK
  <2>2. \A s \in Srbs : entry'[s].offset <= Blocks[s]
    <3>1. \A s \in Srbs : Blocks[s] \in Nat /\ Fresh.offset = 0
      BY VbdRingAssumption DEF Fresh
    <3>2. ASSUME NEW s \in Srbs PROVE entry'[s].offset <= Blocks[s]
      <4>1. CASE s \in held
        <5>1. entry'[s].offset = 0
          BY <1>3, <3>1, <4>1
        <5> QED BY <3>1, <5>1
      <4>2. CASE s \notin held
        BY <1>3, <4>2 DEF TypeOK
      <4> QED BY <4>1, <4>2
    <3> QED BY <3>2
  <2>3. shadows' \in [Ids -> [srb : Srbs \cup {NoSrb}, reset : BOOLEAN, aligned : BOOLEAN]]
    BY <1>1 DEF TypeOK
  <2>4. aligned_buffer_in_use' \in BOOLEAN
    BY <1>1, Zenon
  <2>5. srb_list' \in Seq(Srbs) /\ held' \subseteq Srbs
    BY <1>1
  <2>6. UNCHANGED <<cac, dpc, pc, back, todo, accepted, errors, failures>>
    BY DEF ResetBus
  <2> QED BY <1>1, <2>1, <2>2, <2>3, <2>4, <2>5, <2>6 DEF TypeOK, conn, ring
<1>5. Shadows'
  <2>1. \A i \in shadow_free : shadows'[i] = CleanShadow
    <3>1. ASSUME NEW i \in shadow_free PROVE shadows'[i] = CleanShadow
      <4>1. i \in Ids /\ shadows[i] = CleanShadow /\ CleanShadow.srb = NoSrb
        BY DEF Shadows, TypeOK, CleanShadow
      <4> QED BY <1>2, <4>1
    <3> QED BY <3>1
  <2>2. \A i \in Ids \ shadow_free : shadows'[i].reset
    BY <1>2 DEF Shadows, TypeOK
  <2>3. UNCHANGED <<pvt, sent, rsp, shadow_free>> /\ Answers' = Answers
    BY <1>1 DEF Answers, ring
  <2> QED BY <1>2, <2>1, <2>2, <2>3 DEF Shadows
<1>6. Buffer'
  BY <1>1, <1>2 DEF Buffer
<1>7. List'
  BY <1>1 DEF List
<1>8. Accounts'
  <2>1. InShadows' = {} /\ ToSet(srb_list') = {}
    BY <1>1, <1>2 DEF InShadows, ToSet
  <2>2. ASSUME NEW s \in Srbs PROVE Cardinality(Requests(s)') = 0
    <3>1. Requests(s)' = {}
      BY <1>2, VbdRingAssumption DEF Requests
    <3> QED BY <3>1, FS_EmptySet
  <2>3. ASSUME NEW s \in Srbs, s \notin held PROVE entry[s].outstanding = 0 /\ entry[s].offset = 0
    BY <2>3 DEF Accounts, TypeOK
  <2>4. ASSUME NEW s \in Srbs
        PROVE  /\ entry'[s].outstanding = 0 /\ entry'[s].offset = 0
               /\ Kind[s] \notin ReadWrite => entry'[s].offset = 0
    BY <1>3, <2>3 DEF Fresh
  <2> QED BY <1>1, <2>1, <2>2, <2>4 DEF Accounts
<1>9. Connection'
  BY <1>1 DEF Connection, AllFree, conn
<1> QED BY <1>4, <1>5, <1>6, <1>7, <1>8, <1>9

LEMMA ProcessResetKeeps ==
  ASSUME IInv, ProcessReset
  PROVE  IInv'
<1>1. ResetBus /\ resets' \in Nat
  BY DEF IInv, TypeOK, ProcessReset
<1> QED BY <1>1, ResetKeeps

LEMMA HwStorResetBusKeeps ==
  ASSUME IInv, HwStorResetBus
  PROVE  IInv'
<1>1. ResetBus /\ resets' \in Nat
  BY DEF IInv, TypeOK, HwStorResetBus
<1> QED BY <1>1, ResetKeeps

LEMMA StartIoKeeps ==
  ASSUME IInv, NEW s \in Srbs, StartIo(s)
  PROVE  IInv'
<1> USE DEF IInv
<1>1. /\ s \notin held /\ held' = held \cup {s} /\ entry' = [entry EXCEPT ![s] = Fresh]
      /\ srb_list' = Append(srb_list, s) /\ accepted' = accepted + 1
      /\ UNCHANGED <<conn, workitem, pool, ring, cac, dpc, errors, resets, failures>>
  BY DEF StartIo
<1>2. srb_list \in Seq(Srbs)
  BY DEF TypeOK
<1>3. /\ srb_list' \in Seq(Srbs)
      /\ DOMAIN srb_list = 1 .. Len(srb_list) /\ Len(srb_list) \in Nat
      /\ DOMAIN srb_list' = 1 .. Len(srb_list) + 1
      /\ \A k \in DOMAIN srb_list : srb_list'[k] = srb_list[k] /\ srb_list[k] \in Srbs
      /\ srb_list'[Len(srb_list) + 1] = s
      /\ ToSet(srb_list') = ToSet(srb_list) \cup {s}
  BY <1>1, <1>2, AppendRange
<1>4. s \notin ToSet(srb_list) /\ s \notin InShadows /\ Requests(s) = {}
  <2>1. s \notin ToSet(srb_list) /\ s \notin InShadows
    BY <1>1 DEF Accounts
  <2>2. Requests(s) = {}
    BY <2>1, InFlight DEF InShadows, Requests, TypeOK
  <2> QED BY <2>1, <2>2
<1>5. \A k \in DOMAIN srb_list : srb_list[k] # s
  BY <1>4 DEF ToSet
<1>6. /\ entry'[s].offset = 0 /\ entry'[s].outstanding = 0
      /\ \A t \in Srbs : t # s => entry'[t] = entry[t]
  BY <1>1 DEF TypeOK, Fresh
<1>7. Blocks[s] \in Nat /\ (Kind[s] \in ReadWrite => Blocks[s] > 0)
  BY VbdRingAssumption
<1>8. TypeOK'
  <2>1. entry' \in [Srbs -> [offset : Nat, outstanding : Nat, error : BOOLEAN]]
    <3>1. Fresh \in [offset : Nat, outstanding : Nat, error : BOOLEAN]
      BY DEF Fresh
    <3> QED BY <1>1, <3>1 DEF TypeOK
  <2>2. entry'[s].offset <= Blocks[s]
    BY <1>6, <1>7
  <2>3. \A t \in Srbs : entry'[t].offset <= Blocks[t]
    BY <1>6, <2>2 DEF TypeOK
  <2>4. todo' \in 0 .. Len(rsp) /\ accepted' \in Nat
    BY <1>1 DEF StartIo, HandleEvent, Loop, TypeOK
  <2>5. /\ pc' \in {"free", "respond", "process", "consume", "arm", "recheck", "finish"}
        /\ back' \in {"free", "consume"}
    BY DEF StartIo, HandleEvent, Loop, TypeOK
  <2> QED BY <1>1, <1>3, <2>1, <2>3, <2>4, <2>5 DEF TypeOK, conn, pool, ring
<1>9. Shadows'
  BY <1>1 DEF Shadows, Answers, pool, ring
<1>10. Buffer'
  BY <1>1 DEF Buffer, pool
<1>11. List'
  <2>1. ASSUME NEW k \in DOMAIN srb_list', NEW l \in DOMAIN srb_list', srb_list'[k] = srb_list'[l]
        PROVE  k = l
    <3>1. k \in DOMAIN srb_list \/ k = Len(srb_list) + 1
      BY <1>3
    <3>2. l \in DOMAIN srb_list \/ l = Len(srb_list) + 1
      BY <1>3
    <3> QED BY <1>3, <1>5, <2>1, <3>1, <3>2 DEF List
  <2>2. ASSUME NEW k \in DOMAIN srb_list', k > 1 PROVE entry'[srb_list'[k]].offset = 0
    <3>1. k \in DOMAIN srb_list \/ k = Len(srb_list) + 1
      BY <1>3
    <3> QED BY <1>3, <1>5, <1>6, <2>2, <3>1 DEF List
  <2> QED BY <2>1, <2>2 DEF List
<1>12. Accounts'
  <2>1. InShadows' = InShadows /\ \A t : Requests(t)' = Requests(t)
    BY <1>1 DEF InShadows, Requests, pool
  <2>2. held' = ToSet(srb_list') \cup InShadows'
    BY <1>1, <1>3, <2>1 DEF Accounts
  <2>3. \A t \in Srbs \ held' : entry'[t].offset = 0
    BY <1>1, <1>6 DEF Accounts
  <2>4. ASSUME NEW t \in Srbs
        PROVE  /\ entry'[t].outstanding = Cardinality(Requests(t)')
               /\ entry'[t].outstanding <= entry'[t].offset
               /\ Kind[t] \notin ReadWrite => entry'[t].offset = 0
    <3>1. CASE t = s
      <4>1. Cardinality(Requests(t)') = 0
        BY <1>4, <2>1, <3>1, FS_EmptySet
      <4> QED BY <1>6, <3>1, <4>1
    <3>2. CASE t # s
      BY <1>6, <2>1, <3>2 DEF Accounts
    <3> QED BY <3>1, <3>2
  <2>5. ASSUME NEW t \in held', Kind[t] \in ReadWrite
        PROVE  t \in ToSet(srb_list') <=> entry'[t].offset < Blocks[t]
    <3>1. CASE t = s
      BY <1>3, <1>6, <1>7, <2>5, <3>1
    <3>2. CASE t # s
      BY <1>1, <1>3, <1>6, <2>5, <3>2 DEF Accounts, TypeOK
    <3> QED BY <3>1, <3>2
  <2> QED BY <2>2, <2>3, <2>4, <2>5 DEF Accounts
<1>13. Connection'
  BY <1>1 DEF Connection, AllFree, conn, pool
<1> QED BY <1>8, <1>9, <1>10, <1>11, <1>12, <1>13

\* The next request of the first SRB of the list takes a free shadow.
LEMMA PutSrbOnRingKeeps ==
  ASSUME IInv, PutSrbOnRing
  PROVE  IInv'
<1> USE DEF IInv
<1> DEFINE s == Head(srb_list)
           id == CHOOSE i \in shadow_free : TRUE
           e == [entry[s] EXCEPT !.offset = @ + 1, !.outstanding = @ + 1]
           sh == [srb |-> s, reset |-> FALSE, aligned |-> s \in Unaligned]
<1>1. /\ srb_list # <<>> /\ shadow_free # {} /\ ~aligned_buffer_in_use
      /\ Kind[s] \in ReadWrite /\ CanStart(s)
      /\ shadow_free' = shadow_free \ {id}
      /\ shadows' = [shadows EXCEPT ![id] = sh]
      /\ entry' = [entry EXCEPT ![s] = e]
      /\ srb_list' = IF Unsent(s, e.offset) THEN srb_list ELSE Tail(srb_list)
      /\ pvt' = pvt \cup {id}
      /\ UNCHANGED <<conn, workitem, held, cac, sent, rsp, rsp_event, dpc, pc, back, todo,
                     accepted, errors, resets, failures>>
  BY DEF PutSrbOnRing, CanProcess
<1>2. aligned_buffer_in_use' = (s \in Unaligned)
  BY Zenon DEF PutSrbOnRing
<1>3. id \in shadow_free /\ id \in Ids
  BY <1>1 DEF TypeOK
<1>4. srb_list \in Seq(Srbs) /\ \A k, l \in DOMAIN srb_list : srb_list[k] = srb_list[l] => k = l
  BY DEF TypeOK, List
<1>5. /\ s \in Srbs /\ s \in ToSet(srb_list) /\ s = srb_list[1] /\ s # NoSrb
      /\ Tail(srb_list) \in Seq(Srbs)
      /\ \A k \in DOMAIN Tail(srb_list) : /\ k \in Nat \ {0} /\ k + 1 \in DOMAIN srb_list
                                         /\ Tail(srb_list)[k] = srb_list[k + 1]
  BY <1>1, <1>4, TailRange, VbdRingAssumption
<1>6. /\ ToSet(Tail(srb_list)) = ToSet(srb_list) \ {s}
      /\ \A k, l \in DOMAIN Tail(srb_list) : Tail(srb_list)[k] = Tail(srb_list)[l] => k = l
  BY <1>1, <1>4, TailOfInjective
<1> HIDE DEF id, s
<1>7. s \in held /\ Blocks[s] \in Nat /\ entry[s].offset < Blocks[s]
  BY <1>1, <1>5, VbdRingAssumption DEF Accounts
<1>8. /\ entry[s] \in [offset : Nat, outstanding : Nat, error : BOOLEAN]
      /\ e.offset = entry[s].offset + 1 /\ e.outstanding = entry[s].outstanding + 1
      /\ e \in [offset : Nat, outstanding : Nat, error : BOOLEAN]
  <2>1. entry[s] \in [offset : Nat, outstanding : Nat, error : BOOLEAN]
    BY <1>5 DEF TypeOK
  <2>2. entry[s].offset + 1 \in Nat /\ entry[s].outstanding + 1 \in Nat
    BY <2>1
  <2> QED BY <2>1, <2>2
<1>9. /\ sh \in [srb : Srbs \cup {NoSrb}, reset : BOOLEAN, aligned : BOOLEAN]
      /\ sh.srb = s /\ sh.reset = FALSE /\ (sh.aligned <=> s \in Unaligned)
  <2>1. (s \in Unaligned) \in BOOLEAN
    OBVIOUS
  <2> QED BY <1>5, <2>1
<1> HIDE DEF e, sh
<1>10. /\ entry'[s] = e /\ \A t \in Srbs : t # s => entry'[t] = entry[t]
       /\ entry' \in [Srbs -> [offset : Nat, outstanding : Nat, error : BOOLEAN]]
  BY <1>1, <1>5, <1>8 DEF TypeOK
<1>11. /\ shadows'[id] = sh /\ \A i \in Ids : i # id => shadows'[i] = shadows[i]
       /\ shadows' \in [Ids -> [srb : Srbs \cup {NoSrb}, reset : BOOLEAN, aligned : BOOLEAN]]
       /\ shadows[id].srb = NoSrb
  <2>1. shadows[id].srb = NoSrb
    BY <1>3 DEF Shadows, CleanShadow
  <2> QED BY <1>1, <1>3, <1>9, <2>1 DEF TypeOK
<1>12. Unsent(s, e.offset) <=> entry[s].offset + 1 # Blocks[s]
  BY <1>7, <1>8 DEF Unsent
<1>13. TypeOK'
  <2>1. \A t \in Srbs : entry'[t].offset <= Blocks[t]
    <3>1. entry'[s].offset <= Blocks[s]
      BY <1>7, <1>8, <1>10
    <3> QED BY <1>10, <3>1 DEF TypeOK
  <2>2. srb_list' \in Seq(Srbs)
    BY <1>1, <1>4, <1>5
  <2>3. aligned_buffer_in_use' \in BOOLEAN
    BY <1>2
  <2>4. pvt' \subseteq Ids /\ shadow_free' \subseteq Ids
    BY <1>1, <1>3 DEF TypeOK
  <2> QED BY <1>1, <1>10, <1>11, <2>1, <2>2, <2>3, <2>4 DEF TypeOK, conn
<1>14. Shadows'
  <2>1. UNCHANGED <<sent, rsp>> /\ Answers' = Answers
    BY <1>1 DEF Answers
  <2>2. \A i \in shadow_free' : shadows'[i] = CleanShadow
    BY <1>1, <1>3, <1>11 DEF Shadows, TypeOK
  <2>3. \A i \in Ids \ shadow_free' : shadows'[i].reset <=> shadows'[i].srb = NoSrb
    BY <1>1, <1>3, <1>5, <1>9, <1>11 DEF Shadows
  <2> QED BY <1>1, <1>3, <2>1, <2>2, <2>3 DEF Shadows
<1>15. Buffer'
  BY <1>1, <1>2, <1>3, <1>5, <1>9, <1>11 DEF Buffer
<1>16. List'
  <2>1. CASE Unsent(s, e.offset)
    <3>1. srb_list' = srb_list
      BY <1>1, <2>1
    <3>2. \A k \in DOMAIN srb_list : k > 1 => srb_list[k] \in Srbs /\ srb_list[k] # s
      BY <1>4, <1>5
    <3> QED BY <1>10, <3>1, <3>2 DEF List
  <2>2. CASE ~Unsent(s, e.offset)
    <3>1. srb_list' = Tail(srb_list)
      BY <1>1, <2>2
    <3>2. \A k \in DOMAIN srb_list' :
            srb_list'[k] \in ToSet(srb_list) \ {s} /\ srb_list'[k] \in Srbs
      <4>1. \A k \in DOMAIN srb_list' : srb_list'[k] \in ToSet(Tail(srb_list))
        BY <3>1 DEF ToSet
      <4>2. \A k \in DOMAIN srb_list' : srb_list'[k] \in Srbs
        BY <1>5, <3>1
      <4> QED BY <1>6, <4>1, <4>2
    <3>3. ASSUME NEW k \in DOMAIN srb_list' PROVE entry'[srb_list'[k]].offset = 0
      <4>1. k + 1 \in DOMAIN srb_list /\ k + 1 > 1 /\ srb_list'[k] = srb_list[k + 1]
        BY <1>5, <3>1
      <4> QED BY <1>10, <3>2, <4>1 DEF List
    <3> QED BY <1>6, <3>1, <3>3 DEF List
  <2> QED BY <2>1, <2>2
<1>17. ToSet(srb_list') = IF entry[s].offset + 1 # Blocks[s] THEN ToSet(srb_list)
                          ELSE ToSet(srb_list) \ {s}
  BY <1>1, <1>6, <1>12
<1>18. Accounts'
  <2>1. ASSUME NEW t \in Srbs
        PROVE  Requests(t)' = IF t = s THEN Requests(t) \cup {id} ELSE Requests(t)
    BY <1>3, <1>5, <1>9, <1>11, <2>1, VbdRingAssumption DEF Requests
  <2>2. id \notin Requests(s)
    BY <1>5, <1>11 DEF Requests
  <2>3. InShadows' = InShadows \cup {s}
    <3>1. s \in InShadows'
      BY <1>3, <1>5, <1>9, <1>11 DEF InShadows
    <3>2. InShadows \subseteq InShadows'
      BY <1>11 DEF InShadows
    <3>3. InShadows' \subseteq InShadows \cup {s}
      BY <1>9, <1>11 DEF InShadows
    <3> QED BY <3>1, <3>2, <3>3
  <2>4. held' = ToSet(srb_list') \cup InShadows'
    BY <1>1, <1>7, <1>17, <2>3 DEF Accounts
  <2>5. \A t \in Srbs \ held' : entry'[t].offset = 0
    BY <1>1, <1>7, <1>10 DEF Accounts
  <2>6. ASSUME NEW t \in Srbs
        PROVE  /\ entry'[t].outstanding = Cardinality(Requests(t)')
               /\ entry'[t].outstanding <= entry'[t].offset
               /\ Kind[t] \notin ReadWrite => entry'[t].offset = 0
    <3>1. CASE t = s
      <4>1. Cardinality(Requests(t)') = Cardinality(Requests(t)) + 1
        <5>1. Requests(t) \in SUBSET Ids /\ id \notin Requests(t)
          BY <2>2, <3>1 DEF Requests
        <5> QED BY <1>3, <2>1, <3>1, <5>1, OneMore
      <4> QED BY <1>1, <1>8, <1>10, <3>1, <4>1 DEF Accounts
    <3>2. CASE t # s
      BY <1>10, <2>1, <3>2 DEF Accounts
    <3> QED BY <3>1, <3>2
  <2>7. ASSUME NEW t \in held', Kind[t] \in ReadWrite
        PROVE  t \in ToSet(srb_list') <=> entry'[t].offset < Blocks[t]
    <3>1. CASE t = s
      BY <1>5, <1>7, <1>8, <1>10, <1>17, <3>1
    <3>2. CASE t # s
      BY <1>1, <1>10, <1>17, <2>7, <3>2 DEF Accounts, TypeOK
    <3> QED BY <3>1, <3>2
  <2> QED BY <2>4, <2>5, <2>6, <2>7 DEF Accounts
<1>19. Connection'
  <2>1. device_state = "ACTIVE"
    BY <1>1 DEF CanStart, MayGo, ReadWrite, Scsi
  <2>2. tm \in {"up", "start"}
    BY <2>1 DEF Connection, TypeOK
  <2> QED BY <1>1, <2>2 DEF Connection, conn
<1> QED BY <1>13, <1>14, <1>15, <1>16, <1>18, <1>19

LEMMA NextKeeps ==
  ASSUME IInv, ~LateWorkItem, Next
  PROVE  IInv'
<1>1. CASE Locked
  BY <1>1, DiscardResetKeeps, RespondKeeps, RespondEndKeeps, ConsumeKeeps, ArmKeeps, RecheckKeeps,
     FinishKeeps, ProcessStopKeeps, PutSrbOnRingKeeps, AnswerAtOnceKeeps, ProcessResetKeeps
     DEF Locked
<1>2. CASE Thread
  BY <1>2, WriteClosingKeeps, WriteClosedKeeps, DisconnectedKeeps, ConnectKeeps, ConnectedKeeps,
     StartRingKeeps DEF Thread
<1>3. ASSUME NEW s \in Srbs, StartIo(s) PROVE IInv'
  BY <1>3, StartIoKeeps
<1>4. ASSUME NEW id \in Ids, NEW ok \in BOOLEAN, Answer(id, ok) PROVE IInv'
  BY <1>4, AnswerKeeps
<1>5. CASE ProcessFail \/ HandleEventDpc \/ HwStorResetBus \/ StopRing \/ ConnectFail
             \/ DisconnectWorkItem \/ BackendMoves
  BY <1>5, ProcessFailKeeps, HandleEventDpcKeeps, HwStorResetBusKeeps, StopRingKeeps,
     ConnectFailKeeps, DisconnectWorkItemKeeps, BackendMovesKeeps
<1> QED BY <1>1, <1>2, <1>3, <1>4, <1>5 DEF Next

LEMMA Stuttering ==
  ASSUME IInv, UNCHANGED vars
  PROVE  IInv'
<1> USE DEF IInv, vars, srbs, pool
<1>1. Shadows' /\ Buffer' /\ List' /\ Accounts'
  BY Untouched
<1>2. TypeOK'
  BY DEF TypeOK
<1>3. Connection'
  BY DEF Connection, AllFree
<1> QED BY <1>1, <1>2, <1>3

LEMMA Initially ==
  ASSUME Init
  PROVE  IInv
<1> USE DEF Init
<1>1. Len(rsp) = 0 /\ Answers = {}
  <2>1. Len(rsp) = 0
    OBVIOUS
  <2> QED BY <2>1 DEF Answers
<1>2. \A s \in Srbs : entry[s].offset = 0 /\ entry[s].outstanding = 0 /\ Blocks[s] \in Nat
  BY VbdRingAssumption DEF Fresh
<1>3. \A i \in Ids : /\ shadows[i] = CleanShadow
                     /\ shadows[i].srb = NoSrb /\ shadows[i].aligned = FALSE
  BY DEF CleanShadow
<1>4. TypeOK
  <2>1. entry \in [Srbs -> [offset : Nat, outstanding : Nat, error : BOOLEAN]]
    BY DEF Fresh
  <2>2. shadows \in [Ids -> [srb : Srbs \cup {NoSrb}, reset : BOOLEAN, aligned : BOOLEAN]]
    BY DEF CleanShadow
  <2>3. aligned_buffer_in_use \in BOOLEAN /\ cac \in BOOLEAN /\ dpc \in BOOLEAN
        /\ workitem \in BOOLEAN
    BY Zenon
  <2>4. rsp_event \in 0 .. SHADOW_ENTRIES /\ todo \in 0 .. Len(rsp)
    BY <1>1, VbdRingAssumption
  <2>5. \A s \in Srbs : entry[s].offset <= Blocks[s]
    BY <1>2
  <2> QED BY <2>1, <2>2, <2>3, <2>4, <2>5 DEF TypeOK, DeviceStates, XenbusStates
<1>5. Shadows
  BY <1>1, <1>3 DEF Shadows
<1>6. Buffer
  BY <1>3 DEF Buffer
<1>7. List
  BY DEF List
<1>8. Accounts
  <2>1. InShadows = {} /\ ToSet(srb_list) = {}
    BY <1>3 DEF InShadows, ToSet
  <2>2. ASSUME NEW s \in Srbs PROVE Cardinality(Requests(s)) = 0
    <3>1. Requests(s) = {}
      BY <1>3, VbdRingAssumption DEF Requests
    <3> QED BY <3>1, FS_EmptySet
  <2> QED BY <1>2, <2>1, <2>2 DEF Accounts
<1>9. Connection
  BY DEF Connection, AllFree
<1> QED BY <1>4, <1>5, <1>6, <1>7, <1>8, <1>9 DEF IInv

-----------------------------------------------------------------------------
(***************************************************************************)
(* The theorems.  They are about the device when the work item of a        *)
(* disconnect has run before the next connect, as in the run that checks   *)
(* them: with a late one the ring can be freed in use.                     *)
(***************************************************************************)

\* Each shadow is in one place and each SRB where its entry says, for any shadows and SRBs.
THEOREM Invariance == ~LateWorkItem => (Spec => []IInv)
<1> SUFFICES ASSUME ~LateWorkItem PROVE Spec => []IInv
  OBVIOUS
<1>1. Init => IInv
  BY Initially
<1>2. IInv /\ [Next]_vars => IInv'
  BY NextKeeps, Stuttering
<1> QED BY <1>1, <1>2, PTL DEF Spec

\* The answers on the ring are as many as the shadows they are for.
LEMMA AnswersCounted ==
  ASSUME TypeOK, Shadows
  PROVE  Len(rsp) = Cardinality(Answers)
<1>1. Len(rsp) \in Nat /\ \A k \in 1 .. Len(rsp) : rsp[k].id \in Answers
  BY DEF TypeOK, Answers
<1>2. [k \in 1 .. Len(rsp) |-> rsp[k].id] \in Bijection(1 .. Len(rsp), Answers)
  BY <1>1 DEF Answers, Shadows, Bijection, Injection, Surjection, IsInjective
<1>3. IsFiniteSet(1 .. Len(rsp)) /\ Cardinality(1 .. Len(rsp)) = Len(rsp)
  BY <1>1, FS_Interval
<1> QED BY <1>2, <1>3, FS_Bijection DEF ExistsBijection

\* Sets with nothing in common.
LEMMA DisjointCount ==
  ASSUME NEW S, NEW T, IsFiniteSet(S), IsFiniteSet(T), S \cap T = {}
  PROVE  IsFiniteSet(S \cup T) /\ Cardinality(S \cup T) = Cardinality(S) + Cardinality(T)
<1>1. /\ IsFiniteSet(S \cup T)
      /\ Cardinality(S \cup T) = Cardinality(S) + Cardinality(T) - Cardinality(S \cap T)
  BY FS_Union
<1>2. Cardinality(S \cap T) = 0 /\ Cardinality(S) \in Nat /\ Cardinality(T) \in Nat
  BY FS_EmptySet, FS_CardinalityType
<1> QED BY <1>1, <1>2

\* With the places of the shadows apart their counts add up, and the aligned buffer counts
\* the requests that use it.
LEMMA ShadowsCounted ==
  ASSUME TypeOK, Shadows, Buffer
  PROVE  ShadowsMatchRing
<1> DEFINE aligned == {i \in Ids : shadows[i].aligned}
<1>1. {pvt, sent, Answers, shadow_free} \subseteq SUBSET Ids
  BY DEF TypeOK, Shadows
<1>2. /\ IsFiniteSet(pvt) /\ IsFiniteSet(sent) /\ IsFiniteSet(Answers) /\ IsFiniteSet(shadow_free)
      /\ Cardinality(pvt) \in Nat /\ Cardinality(sent) \in Nat /\ Cardinality(Answers) \in Nat
      /\ Cardinality(shadow_free) \in Nat
  BY <1>1, IdsFinite, FS_Subset, FS_CardinalityType
<1>3. /\ Cardinality(pvt \cup sent) = Cardinality(pvt) + Cardinality(sent)
      /\ IsFiniteSet(pvt \cup sent)
  BY <1>2, DisjointCount DEF Shadows
<1>4. /\ Cardinality((pvt \cup sent) \cup Answers)
           = Cardinality(pvt \cup sent) + Cardinality(Answers)
      /\ IsFiniteSet((pvt \cup sent) \cup Answers)
  <2>1. (pvt \cup sent) \cap Answers = {}
    BY DEF Shadows
  <2> QED BY <1>2, <1>3, <2>1, DisjointCount
<1>5. Cardinality(((pvt \cup sent) \cup Answers) \cup shadow_free)
        = Cardinality((pvt \cup sent) \cup Answers) + Cardinality(shadow_free)
  <2>1. ((pvt \cup sent) \cup Answers) \cap shadow_free = {}
    BY DEF Shadows
  <2> QED BY <1>2, <1>4, <2>1, DisjointCount
<1>6. Cardinality(pvt) + Cardinality(sent) + Len(rsp) + Cardinality(shadow_free) = SHADOW_ENTRIES
  <2>1. ((pvt \cup sent) \cup Answers) \cup shadow_free = Ids
    BY DEF Shadows
  <2> QED BY <1>2, <1>3, <1>4, <1>5, <2>1, AnswersCounted, IdsFinite
<1>7. Cardinality(aligned) = IF aligned_buffer_in_use THEN 1 ELSE 0
  <2>1. CASE aligned_buffer_in_use
    <3>1. PICK i \in Ids : shadows[i].aligned
      BY <2>1 DEF Buffer
    <3>2. aligned = {i}
      BY <3>1 DEF Buffer
    <3> QED BY <2>1, <3>2, FS_Singleton
  <2>2. CASE ~aligned_buffer_in_use
    <3>1. aligned = {}
      BY <2>2 DEF Buffer
    <3> QED BY <2>2, <3>1, FS_EmptySet
  <2> QED BY <2>1, <2>2
<1>8. \A i \in pvt \cup sent \cup Answers : shadows[i].reset <=> shadows[i].srb = NoSrb
  BY <1>1 DEF Shadows
<1> QED BY <1>6, <1>7, <1>8 DEF ShadowsMatchRing, Shadows

\* The shadows, the SRBs and the ring agree, over every split, error, reset and suspend, and
\* the ring is empty when XenVbd_Disconnect frees it.
THEOREM RingIsSound == ~LateWorkItem => (Spec => []RingSound)
<1>1. ASSUME IInv PROVE SrbAccounting
  <2> USE <1>1 DEF IInv
  <2>1. IsInjective(srb_list)
    BY DEF List, IsInjective
  <2>2. \A s \in held : s \in Srbs
    BY DEF TypeOK
  <2> QED BY <2>1, <2>2 DEF SrbAccounting, Accounts, Requests
<1>2. ASSUME IInv PROVE RingFreedEmpty
  BY <1>2, EmptyRing DEF IInv, RingFreedEmpty, Connection
<1>3. IInv => RingSound
  BY <1>1, <1>2, ShadowsCounted DEF RingSound, IInv
<1> QED BY <1>3, Invariance, PTL

\* Only XenVbd_PutSrbOnRing moves an offset on.
LEMMA OffsetsKept ==
  ASSUME TypeOK, Next, ~PutSrbOnRing, NEW t \in Srbs
  PROVE  entry'[t].offset \in {0, entry[t].offset}
<1>1. entry[t] \in [offset : Nat, outstanding : Nat, error : BOOLEAN] /\ Fresh.offset = 0
  BY DEF TypeOK, Fresh
<1>2. CASE Respond
  <2> DEFINE s == shadows[Head(rsp).id].srb
             e == [entry[s] EXCEPT !.outstanding = @ - 1, !.error = @ \/ ~Head(rsp).ok]
  <2>1. entry' = [entry EXCEPT ![s] = IF Done(e, s) THEN Fresh ELSE e]
    BY <1>2, Zenon DEF Respond
  <2> HIDE DEF s
  <2>2. entry'[t] = entry[t] \/ entry'[t] = Fresh \/ (s = t /\ entry'[t] = e)
    BY <2>1 DEF TypeOK
  <2>3. s = t => e.offset = entry[t].offset
    BY <1>1
  <2> HIDE DEF e
  <2> QED BY <1>1, <2>2, <2>3
<1>3. CASE ProcessReset \/ HwStorResetBus
  <2>1. entry'[t] \in {Fresh, entry[t]}
    BY <1>3 DEF ProcessReset, HwStorResetBus, ResetBus
  <2> QED BY <1>1, <2>1
<1>4. ASSUME NEW s \in Srbs, StartIo(s) PROVE entry'[t].offset \in {0, entry[t].offset}
  <2>1. entry'[t] \in {Fresh, entry[t]}
    BY <1>4 DEF StartIo, TypeOK
  <2> QED BY <1>1, <2>1
<1>5. CASE DiscardReset \/ RespondEnd \/ Consume \/ Arm \/ Recheck \/ Finish \/ ProcessStop
             \/ AnswerAtOnce \/ ProcessFail \/ HandleEventDpc
  BY <1>5 DEF DiscardReset, RespondEnd, Consume, Arm, Recheck, Finish, ProcessStop, AnswerAtOnce,
              ProcessFail, HandleEventDpc, srbs
<1>6. CASE Thread \/ StopRing \/ ConnectFail \/ DisconnectWorkItem \/ BackendMoves
  BY <1>6 DEF Thread, WriteClosing, WriteClosed, Disconnected, Connect, Connected, StartRing,
              StopRing, ConnectFail, DisconnectWorkItem, BackendMoves, unconn, srbs
<1>7. ASSUME NEW id \in Ids, NEW ok \in BOOLEAN, Answer(id, ok)
      PROVE  entry'[t].offset \in {0, entry[t].offset}
  BY <1>7 DEF Answer, srbs
<1> QED BY <1>2, <1>3, <1>4, <1>5, <1>6, <1>7 DEF Next, Locked

\* An SRB that begins does not begin on sectors of a write in progress: one that has no
\* request in flight, but parts still to be sent, is at the head of the list, and no other
\* SRB begins before it.
THEOREM NothingPasses == ~LateWorkItem => (Spec => NothingPassesAWrite)
<1> SUFFICES ASSUME ~LateWorkItem PROVE Spec => NothingPassesAWrite
  OBVIOUS
<1> DEFINE Begins(s, t) == Kind[s] = "write" /\ entry[s].offset > 0 /\ entry[t].offset = 0
                           /\ entry'[t].offset > 0
           Apart == \A s, t \in Srbs : Begins(s, t) => ~Overlap(s, t)
<1>1. ASSUME IInv, Next, NEW s \in Srbs, NEW t \in Srbs, Begins(s, t) PROVE ~Overlap(s, t)
  <2> USE <1>1 DEF IInv
  <2>1. CASE PutSrbOnRing
    <3>1. srb_list \in Seq(Srbs) /\ srb_list # <<>> /\ CanStart(Head(srb_list))
          /\ Kind[Head(srb_list)] \in ReadWrite
      BY <2>1 DEF PutSrbOnRing, CanProcess, TypeOK
    <3>2. Head(srb_list) = srb_list[1] /\ DOMAIN srb_list \subseteq Nat \ {0}
      BY <3>1, TailRange
    <3>3. t = Head(srb_list)
      <4>1. ASSUME t # Head(srb_list) PROVE entry'[t] = entry[t]
        BY <2>1, <4>1 DEF PutSrbOnRing, TypeOK
      <4> QED BY <4>1
    <3>4. s \notin ToSet(srb_list)
      <4>1. ASSUME NEW k \in DOMAIN srb_list PROVE srb_list[k] # s
        <5>1. CASE k = 1
          BY <3>2, <3>3, <5>1
        <5>2. CASE k # 1
          BY <3>2, <5>2 DEF List
        <5> QED BY <5>1, <5>2
      <4> QED BY <4>1 DEF ToSet
    <3>5. s \in InShadows
      BY <3>4 DEF Accounts
    <3>6. ~PendingWrite(t)
      BY <3>1, <3>3 DEF CanStart
    <3>7. ~Overlap(t, s)
      BY <3>5, <3>6 DEF PendingWrite
    <3> QED BY <3>7 DEF Overlap
  <2>2. CASE ~PutSrbOnRing
    BY <2>2, OffsetsKept
  <2> QED BY <2>1, <2>2
<1>2. IInv /\ [Next]_vars => [Apart]_vars
  BY <1>1
<1> QED BY <1>2, Invariance, PTL DEF Spec, NothingPassesAWrite
=============================================================================
