-------------------------- MODULE GrantTableProofs --------------------------
(***************************************************************************)
(* Proofs about GrantTable for every set of references, drivers and pages. *)
(*                                                                         *)
(* The table that matters is the live one while the system runs, and the   *)
(* saved one from a suspend to the resume: the same is said of both        *)
(* (Expected), so that a resume makes of the second what is said of the    *)
(* first.                                                                  *)
(***************************************************************************)
EXTENDS GrantTable, TLAPS

Clear == {"tag", "frame", "permit", "untag", "push"}    \* labels where cur is not granted
Mine == {"frame", "permit", "cas", "caskeep", "untag"}  \* labels where cur has the caller's tag

\* What the freelist and the driver contexts in "who" expect of flags, frames and tags.
Expected(who, free, fl, fr, tg) ==
  /\ \A r \in free : permit \notin fl[r] /\ tg[r] = NoTag
  /\ \A u \in who :
       /\ \A r \in own[u] : r # cur[u] => tg[r] = u
       /\ pc[u] \in Clear => permit \notin fl[cur[u]]
       /\ pc[u] \in Mine => tg[cur[u]] = u
       /\ pc[u] \in {"tag", "push"} => tg[cur[u]] = NoTag
       /\ pc[u] = "permit" => fr[cur[u]] = want[cur[u]]
  /\ \A r \in Refs : permit \in fl[r] => fr[r] = want[r]
  /\ \A r \in Refs : busy \in fl[r] => permit \in fl[r]

Live == power = "on" => Expected(Contexts, gnttbl_ss \cup gnttbl_ss_copy, flags, frame, gnttbl_tag)

\* References that are free after the resume.
FreeAgain == IF hibernating THEN gnttbl_ss_copy \cup hiber_grefs ELSE gnttbl_ss

Saved ==
  power # "on" \/ hibernating =>
    Expected(Users, FreeAgain, flags_copy, frame_copy, RestoredTag)

\* OneHome, reference by reference.
Home ==
  /\ \A r \in gnttbl_ss : r \notin gnttbl_ss_copy
  /\ \A u \in Contexts : \A r \in own[u] :
       /\ r \notin gnttbl_ss /\ r \notin gnttbl_ss_copy
       /\ \A v \in Contexts : r \in own[v] => u = v
  /\ \A r \in Refs : r \in lost <=> /\ r \notin gnttbl_ss /\ r \notin gnttbl_ss_copy
                                    /\ \A u \in Contexts : r \notin own[u]

\* Who runs: the dump driver while hibernating, and nobody else; what is its own.
Parted ==
  /\ hibernating => /\ power # "frozen"
                    /\ \A u \in Users : pc[u] = "idle"
                    /\ \A r \in Refs : r \in hiber_grefs <=> \/ r \in gnttbl_ss \/ r \in own[Dump]
                                                             \/ r \in lost /\ gnttbl_tag[r] = Dump
  /\ ~hibernating => /\ gnttbl_ss_copy = {} /\ hiber_grefs = {}
                     /\ own[Dump] = {} /\ pc[Dump] = "idle"
                     /\ \A r \in Refs : gnttbl_tag[r] # Dump
  /\ \A r \in Refs : gnttbl_tag_copy[r] # Dump

Current ==
  \A u \in Contexts : IF pc[u] = "idle" THEN cur[u] = NoRef ELSE cur[u] \in own[u]

\* What is mapped, and not torn, is granted and in use.
MappedInUse ==
  /\ \A r \in Refs : mapped[r] # NoPage /\ r \notin torn =>
                     permit \in flags[r] /\ busy \in flags[r] /\ mapped[r] = want[r]
  /\ \A r \in Refs : permit \in flags[r] => frame[r] = want[r]
  /\ \A r \in Refs : busy \in flags[r] => permit \in flags[r]

IInv == TypeOK /\ Home /\ Parted /\ Current /\ Live /\ Saved /\ MappedInUse
-----------------------------------------------------------------------------
(* The drivers *)

\* A driver's step leaves alone what is saved: while hibernating only the dump driver
\* takes steps, and its references are free after the resume.
LEMMA SavedStands ==
  ASSUME IInv, NEW u \in Contexts, Running(u),
         UNCHANGED <<copies, power, hibernating, hiber_grefs, gnttbl_ss_copy>>,
         \A v \in Contexts \ {u} : own'[v] = own[v] /\ pc'[v] = pc[v] /\ cur'[v] = cur[v],
         \A r \in Refs : want'[r] = want[r] \/ r \in own[u]
  PROVE  Saved'
<1>1. CASE ~hibernating
  BY <1>1 DEF Running, Saved
<1>2. CASE hibernating
  <2>1. u = Dump /\ FreeAgain' = FreeAgain /\ RestoredTag' = RestoredTag
    BY <1>2 DEF Running, FreeAgain, RestoredTag, copies
  <2>2. Expected(Users, FreeAgain, flags_copy, frame_copy, RestoredTag)
    BY <1>2 DEF IInv, Saved
  <2>3. \A v \in Users : /\ own'[v] = own[v] /\ pc'[v] = pc[v] /\ cur'[v] = cur[v]
                         /\ pc[v] = "idle"
    BY <1>2, <2>1, GrantAssumption DEF Contexts, IInv, Parted
  <2>4. \A r \in Refs : permit \in flags_copy[r] => want'[r] = want[r]
    BY <1>2, <2>1, <2>2 DEF IInv, Parted, Expected, FreeAgain
  <2>5. Expected(Users, FreeAgain, flags_copy, frame_copy, RestoredTag)'
    BY <2>1, <2>2, <2>3, <2>4 DEF Expected, copies
  <2> QED BY <2>5 DEF Saved
<1> QED BY <1>1, <1>2

\* The reference a driver gives up: it was its own and had its tag.
LEMMA GivenUp ==
  ASSUME IInv, NEW u \in Contexts, NEW from \in Labels, NEW r \in own[u],
         Step(u, from, "idle", r), GiveUp(u, r), gnttbl_tag[r] = u,
         from = "idle" \/ r = cur[u]
  PROVE  IInv'
<1>1. TypeOK'
  <2>1. pc' \in [Contexts -> Labels] /\ cur' \in [Contexts -> Refs \cup {NoRef}]
    BY DEF IInv, TypeOK, Step, Labels
  <2>2. own' \in [Contexts -> SUBSET Refs] /\ lost' \in SUBSET Refs
    BY DEF IInv, TypeOK, GiveUp
  <2> QED BY <2>1, <2>2 DEF GiveUp, IInv, TypeOK, table, copies, freelist, backend
<1>2. Home'
  BY GrantAssumption DEF GiveUp, IInv, TypeOK, Home, freelist
<1>3. Parted'
  <2>1. CASE hibernating
    <3>1. u = Dump
      BY <2>1 DEF Step, Running
    <3>2. \A v \in Users : pc'[v] = pc[v]
      BY <3>1, GrantAssumption DEF IInv, TypeOK, Step, Contexts
    <3>3. \A q \in Refs :
            (q \in own'[Dump] \/ (q \in lost' /\ gnttbl_tag[q] = Dump))
              <=> (q \in own[Dump] \/ (q \in lost /\ gnttbl_tag[q] = Dump))
      BY <3>1 DEF IInv, TypeOK, GiveUp
    <3> QED BY <2>1, <3>2, <3>3 DEF IInv, Parted, GiveUp, freelist, copies
  <2>2. CASE ~hibernating
    <3>1. u # Dump /\ own'[Dump] = own[Dump] /\ pc'[Dump] = pc[Dump]
      BY <2>2 DEF Step, Running, GiveUp, IInv, TypeOK, Contexts
    <3> QED BY <2>2, <3>1 DEF IInv, Parted, GiveUp, freelist, copies
  <2> QED BY <2>1, <2>2
<1>4. Current'
  BY DEF Step, GiveUp, IInv, TypeOK, Current, Home
<1>5. Live'
  BY GrantAssumption DEF Step, GiveUp, IInv, TypeOK, Live, Expected, Clear, Mine, Current, table, freelist
<1>6. Saved'
  <2>1. \A v \in Contexts \ {u} : own'[v] = own[v] /\ pc'[v] = pc[v] /\ cur'[v] = cur[v]
    BY DEF Step, GiveUp, IInv, TypeOK
  <2> QED BY <2>1, SavedStands DEF Step, GiveUp, freelist
<1>7. MappedInUse'
  BY DEF GiveUp, IInv, MappedInUse, table, backend
<1> QED BY <1>1, <1>2, <1>3, <1>4, <1>5, <1>6, <1>7 DEF IInv

\* Each driver step, conjunct by conjunct.
LEMMA GetRefKeeps == ASSUME IInv, NEW u \in Contexts, GetRef(u) PROVE IInv'
<1> USE DEF GetRef, Step, IInv
<1>1. TypeOK'
  <2>1. pc' \in [Contexts -> Labels] /\ cur' \in [Contexts -> Refs \cup {NoRef}]
    BY DEF TypeOK, Labels
  <2>2. own' \in [Contexts -> SUBSET Refs] /\ gnttbl_ss' \in SUBSET Refs
    BY DEF TypeOK
  <2> QED BY <2>1, <2>2 DEF TypeOK, table, copies, backend
<1>2. Home'
  BY DEF TypeOK, Home
<1>3. Parted'
  BY GrantAssumption DEF Running, TypeOK, Parted, Home, copies, Contexts
<1>4. Current'
  BY DEF TypeOK, Current
<1>5. Live'
  BY GrantAssumption DEF TypeOK, Live, Expected, Home, Current, Clear, Mine, table
<1>6. Saved'
  <2>1. \A v \in Contexts \ {u} : own'[v] = own[v] /\ pc'[v] = pc[v] /\ cur'[v] = cur[v]
    BY DEF TypeOK
  <2> QED BY <2>1, SavedStands
<1>7. MappedInUse'
  BY DEF MappedInUse, table, backend
<1> QED BY <1>1, <1>2, <1>3, <1>4, <1>5, <1>6, <1>7

LEMMA TagRefKeeps == ASSUME IInv, NEW u \in Contexts, TagRef(u) PROVE IInv'
<1> USE DEF TagRef, Step, IInv
<1>1. TypeOK'
  BY DEF TypeOK, Labels, Current, table, copies, freelist, backend
<1>2. Home'
  BY DEF TypeOK, Home, Current, freelist
<1>3. Parted'
  BY GrantAssumption DEF Running, TypeOK, Parted, Home, Current, copies, freelist, Contexts
<1>4. Current'
  BY DEF TypeOK, Current, Home
<1>5. Live'
  BY GrantAssumption DEF TypeOK, Live, Expected, Home, Current, Clear, Mine, table, freelist, Running, Contexts, Parted
<1>6. Saved'
  <2>1. \A v \in Contexts \ {u} : own'[v] = own[v] /\ pc'[v] = pc[v] /\ cur'[v] = cur[v]
    BY DEF TypeOK
  <2>2. \A r \in Refs : want'[r] = want[r] \/ r \in own[u]
    BY DEF TypeOK, Current
  <2> QED BY <2>1, <2>2, SavedStands DEF freelist
<1>7. MappedInUse'
  BY DEF TypeOK, MappedInUse, Live, Expected, Clear, Mine, Current, Running, table, backend
<1> QED BY <1>1, <1>2, <1>3, <1>4, <1>5, <1>6, <1>7

LEMMA RegrantKeeps == ASSUME IInv, NEW u \in Contexts, Regrant(u) PROVE IInv'
<1> USE DEF Regrant, Step, IInv
<1>1. TypeOK'
  BY DEF TypeOK, Labels, Current, table, copies, freelist, backend
<1>2. Home'
  BY DEF TypeOK, Home, Current, freelist
<1>3. Parted'
  BY GrantAssumption DEF Running, TypeOK, Parted, Home, Current, copies, freelist, Contexts
<1>4. Current'
  BY DEF TypeOK, Current, Home
<1>5. Live'
  BY GrantAssumption DEF TypeOK, Live, Expected, Home, Current, Clear, Mine, table, freelist, Running, Contexts, Parted
<1>6. Saved'
  <2>1. \A v \in Contexts \ {u} : own'[v] = own[v] /\ pc'[v] = pc[v] /\ cur'[v] = cur[v]
    BY DEF TypeOK
  <2>2. \A r \in Refs : want'[r] = want[r] \/ r \in own[u]
    BY DEF TypeOK, Current
  <2> QED BY <2>1, <2>2, SavedStands DEF freelist
<1>7. MappedInUse'
  BY DEF TypeOK, MappedInUse, Live, Expected, Clear, Mine, Current, Running, table, backend
<1> QED BY <1>1, <1>2, <1>3, <1>4, <1>5, <1>6, <1>7

LEMMA SetFrameKeeps == ASSUME IInv, NEW u \in Contexts, SetFrame(u) PROVE IInv'
<1> USE DEF SetFrame, Step, IInv
<1>1. TypeOK'
  BY DEF TypeOK, Labels, Current, table, copies, freelist, backend
<1>2. Home'
  BY DEF TypeOK, Home, Current, freelist
<1>3. Parted'
  BY GrantAssumption DEF Running, TypeOK, Parted, Home, Current, copies, freelist, Contexts
<1>4. Current'
  BY DEF TypeOK, Current, Home
<1>5. Live'
  BY GrantAssumption DEF TypeOK, Live, Expected, Home, Current, Clear, Mine, table, freelist, Running, Contexts, Parted
<1>6. Saved'
  <2>1. \A v \in Contexts \ {u} : own'[v] = own[v] /\ pc'[v] = pc[v] /\ cur'[v] = cur[v]
    BY DEF TypeOK
  <2>2. \A r \in Refs : want'[r] = want[r] \/ r \in own[u]
    BY DEF TypeOK, Current
  <2> QED BY <2>1, <2>2, SavedStands DEF freelist
<1>7. MappedInUse'
  BY DEF TypeOK, MappedInUse, Live, Expected, Clear, Mine, Current, Running, table, backend
<1> QED BY <1>1, <1>2, <1>3, <1>4, <1>5, <1>6, <1>7

LEMMA SetPermitKeeps == ASSUME IInv, NEW u \in Contexts, SetPermit(u) PROVE IInv'
<1> USE DEF SetPermit, Step, IInv
<1>1. TypeOK'
  <2>1. cur[u] \in Refs /\ flags' \in [Refs -> SUBSET {permit, busy}]
    BY DEF TypeOK, Current
  <2>2. pc' \in [Contexts -> Labels] /\ cur' \in [Contexts -> Refs \cup {NoRef}]
    BY DEF TypeOK, Labels
  <2> QED BY <2>1, <2>2 DEF TypeOK, copies, freelist, backend
<1>2. Home'
  BY DEF TypeOK, Home, Current, freelist
<1>3. Parted'
  BY GrantAssumption DEF Running, TypeOK, Parted, Home, Current, copies, freelist, Contexts
<1>4. Current'
  BY DEF TypeOK, Current, Home
<1>5. Live'
  BY GrantAssumption DEF TypeOK, Live, Expected, Home, Current, Clear, Mine, table, freelist, Running, Contexts, Parted
<1>6. Saved'
  <2>1. \A v \in Contexts \ {u} : own'[v] = own[v] /\ pc'[v] = pc[v] /\ cur'[v] = cur[v]
    BY DEF TypeOK
  <2>2. \A r \in Refs : want'[r] = want[r] \/ r \in own[u]
    BY DEF TypeOK, Current
  <2> QED BY <2>1, <2>2, SavedStands DEF freelist
<1>7. MappedInUse'
  BY DEF TypeOK, MappedInUse, Live, Expected, Clear, Mine, Current, Running, table, backend
<1> QED BY <1>1, <1>2, <1>3, <1>4, <1>5, <1>6, <1>7

LEMMA FreeGrantKeeps == ASSUME IInv, NEW u \in Contexts, FreeGrant(u) PROVE IInv'
<1> USE DEF FreeGrant, Step, IInv
<1>1. TypeOK'
  BY DEF TypeOK, Labels, Current, table, copies, freelist, backend
<1>2. Home'
  BY DEF TypeOK, Home, Current, freelist
<1>3. Parted'
  BY GrantAssumption DEF Running, TypeOK, Parted, Home, Current, copies, freelist, Contexts
<1>4. Current'
  BY DEF TypeOK, Current, Home
<1>5. Live'
  BY GrantAssumption DEF TypeOK, Live, Expected, Home, Current, Clear, Mine, table, freelist, Running, Contexts, Parted
<1>6. Saved'
  <2>1. \A v \in Contexts \ {u} : own'[v] = own[v] /\ pc'[v] = pc[v] /\ cur'[v] = cur[v]
    BY DEF TypeOK
  <2>2. \A r \in Refs : want'[r] = want[r] \/ r \in own[u]
    BY DEF TypeOK, Current
  <2> QED BY <2>1, <2>2, SavedStands DEF freelist
<1>7. MappedInUse'
  BY DEF TypeOK, MappedInUse, Live, Expected, Clear, Mine, Current, Running, table, backend
<1> QED BY <1>1, <1>2, <1>3, <1>4, <1>5, <1>6, <1>7

LEMMA UntagKeeps == ASSUME IInv, NEW u \in Contexts, Untag(u) PROVE IInv'
<1> USE DEF Untag, Step, IInv
<1>1. TypeOK'
  BY DEF TypeOK, Labels, Current, table, copies, freelist, backend
<1>2. Home'
  BY DEF TypeOK, Home, Current, freelist
<1>3. Parted'
  BY GrantAssumption DEF Running, TypeOK, Parted, Home, Current, copies, freelist, Contexts
<1>4. Current'
  BY DEF TypeOK, Current, Home
<1>5. Live'
  BY GrantAssumption DEF TypeOK, Live, Expected, Home, Current, Clear, Mine, table, freelist, Running, Contexts, Parted
<1>6. Saved'
  <2>1. \A v \in Contexts \ {u} : own'[v] = own[v] /\ pc'[v] = pc[v] /\ cur'[v] = cur[v]
    BY DEF TypeOK
  <2>2. \A r \in Refs : want'[r] = want[r] \/ r \in own[u]
    BY DEF TypeOK, Current
  <2> QED BY <2>1, <2>2, SavedStands DEF freelist
<1>7. MappedInUse'
  BY DEF TypeOK, MappedInUse, Live, Expected, Clear, Mine, Current, Running, table, backend
<1> QED BY <1>1, <1>2, <1>3, <1>4, <1>5, <1>6, <1>7

LEMMA PushKeeps == ASSUME IInv, NEW u \in Contexts, Push(u) PROVE IInv'
<1> USE DEF Push, Step, IInv
<1>1. TypeOK'
  <2>1. cur[u] \in Refs /\ own' \in [Contexts -> SUBSET Refs] /\ gnttbl_ss' \in SUBSET Refs
    BY DEF TypeOK, Current
  <2>2. pc' \in [Contexts -> Labels] /\ cur' \in [Contexts -> Refs \cup {NoRef}]
    BY DEF TypeOK, Labels
  <2> QED BY <2>1, <2>2 DEF TypeOK, table, copies, backend
<1>2. Home'
  BY DEF TypeOK, Home, Current, freelist
<1>3. Parted'
  BY GrantAssumption DEF Running, TypeOK, Parted, Home, Current, copies, freelist, Contexts
<1>4. Current'
  BY DEF TypeOK, Current, Home
<1>5. Live'
  BY GrantAssumption DEF TypeOK, Live, Expected, Home, Current, Clear, Mine, table, freelist, Running, Contexts, Parted
<1>6. Saved'
  <2>1. \A v \in Contexts \ {u} : own'[v] = own[v] /\ pc'[v] = pc[v] /\ cur'[v] = cur[v]
    BY DEF TypeOK
  <2>2. \A r \in Refs : want'[r] = want[r] \/ r \in own[u]
    BY DEF TypeOK, Current
  <2> QED BY <2>1, <2>2, SavedStands DEF freelist
<1>7. MappedInUse'
  BY DEF TypeOK, MappedInUse, Live, Expected, Clear, Mine, Current, Running, table, backend
<1> QED BY <1>1, <1>2, <1>3, <1>4, <1>5, <1>6, <1>7


\* nflags = flags: the reference is in use, or the interlocked exchange follows.
LEMMA EndAccessKeeps == ASSUME IInv, NEW u \in Contexts, EndAccess(u) PROVE IInv'
<1>1. ASSUME NEW r \in own[u], busy \in flags[r], Step(u, "idle", "idle", r), GiveUp(u, r)
      PROVE  IInv'
  <2>1. gnttbl_tag[r] = u
    BY <1>1, GrantAssumption DEF Step, Running, IInv, TypeOK, Live, Expected, Current
  <2> QED BY <1>1, <2>1, GivenUp DEF Labels
<1>2. ASSUME NEW r \in own[u], permit \in flags[r], NEW to \in {"cas", "caskeep"},
             Step(u, "idle", to, r),
             UNCHANGED <<freelist, table, copies, gnttbl_tag, own, lost, want, backend, power>>
      PROVE  IInv'
  <2> USE <1>2 DEF Step, IInv
  <2>1. TypeOK'
    BY DEF TypeOK, Labels, table, copies, freelist, backend
  <2>2. Home'
    BY DEF Home, freelist
  <2>3. Parted'
    BY GrantAssumption DEF Running, TypeOK, Parted, copies, freelist, Contexts
  <2>4. Current'
    BY DEF TypeOK, Current
  <2>5. Live'
    BY GrantAssumption DEF TypeOK, Live, Expected, Current, Clear, Mine, table, freelist, Running
  <2>6. Saved'
    <3>1. \A v \in Contexts \ {u} : own'[v] = own[v] /\ pc'[v] = pc[v] /\ cur'[v] = cur[v]
      BY DEF TypeOK
    <3> QED BY <3>1, SavedStands DEF freelist
  <2>7. MappedInUse'
    BY DEF MappedInUse, table, backend
  <2> QED BY <2>1, <2>2, <2>3, <2>4, <2>5, <2>6, <2>7
<1> QED BY <1>1, <1>2 DEF EndAccess

\* The exchange takes the permission away from a reference that is not in use, or the
\* reference is given up.
LEMMA CasFlagsKeeps == ASSUME IInv, NEW u \in Contexts, CasFlags(u) PROVE IInv'
<1>1. ASSUME NEW from \in {"cas", "caskeep"}, Step(u, from, "idle", cur[u]), GiveUp(u, cur[u])
      PROVE  IInv'
  <2>1. cur[u] \in own[u] /\ from \in Labels
    BY <1>1 DEF Step, IInv, Current, Labels
  <2>2. gnttbl_tag[cur[u]] = u
    BY <1>1 DEF Step, Running, IInv, Live, Expected, Mine
  <2> QED BY <1>1, <2>1, <2>2, GivenUp
<1>2. ASSUME NEW from \in {"cas", "caskeep"}, NEW to \in {"untag", "idle"},
             Step(u, from, to, cur[u]), flags[cur[u]] = {permit},
             flags' = [flags EXCEPT ![cur[u]] = {}], want' = [want EXCEPT ![cur[u]] = NoPage],
             UNCHANGED <<freelist, frame, copies, gnttbl_tag, own, lost, backend, power>>
      PROVE  IInv'
  <2> USE <1>2 DEF Step, IInv
  <2>0. cur[u] \in own[u] /\ cur[u] \in Refs
    BY DEF Current, TypeOK
  <2>1. TypeOK'
    <3>1. pc' \in [Contexts -> Labels] /\ cur' \in [Contexts -> Refs \cup {NoRef}]
      BY DEF TypeOK, Labels
    <3>2. flags' \in [Refs -> SUBSET {permit, busy}] /\ want' \in [Refs -> Pages \cup {NoPage}]
      BY DEF TypeOK
    <3> QED BY <3>1, <3>2 DEF TypeOK, copies, freelist, backend
  <2>2. Home'
    BY DEF Home, freelist
  <2>3. Parted'
    <3>1. hibernating => \A v \in Users : pc'[v] = pc[v]
      BY GrantAssumption DEF Running, TypeOK, Contexts
    <3>2. ~hibernating => pc'[Dump] = pc[Dump]
      BY DEF Running, TypeOK, Contexts
    <3> QED BY <3>1, <3>2 DEF Parted, copies, freelist
  <2>4. Current'
    BY <2>0 DEF TypeOK, Current
  <2>5. Live'
    BY <2>0, GrantAssumption DEF TypeOK, Home, Live, Expected, Current, Clear, Mine, freelist, Running, permit, busy
  <2>6. Saved'
    <3>1. \A v \in Contexts \ {u} : own'[v] = own[v] /\ pc'[v] = pc[v] /\ cur'[v] = cur[v]
      BY DEF TypeOK
    <3>2. \A r \in Refs : want'[r] = want[r] \/ r \in own[u]
      BY <2>0 DEF TypeOK
    <3> QED BY <3>1, <3>2, SavedStands DEF freelist
  <2>7. MappedInUse'
    BY <2>0 DEF TypeOK, MappedInUse, backend, permit, busy
  <2> QED BY <2>1, <2>2, <2>3, <2>4, <2>5, <2>6, <2>7
<1>3. \/ \E from \in {"cas", "caskeep"} : Step(u, from, "idle", cur[u]) /\ GiveUp(u, cur[u])
      \/ /\ \E from \in {"cas", "caskeep"}, to \in {"untag", "idle"} : Step(u, from, to, cur[u])
         /\ flags[cur[u]] = {permit}
         /\ flags' = [flags EXCEPT ![cur[u]] = {}] /\ want' = [want EXCEPT ![cur[u]] = NoPage]
         /\ UNCHANGED <<freelist, frame, copies, gnttbl_tag, own, lost, backend, power>>
  BY DEF CasFlags
<1> QED BY <1>1, <1>2, <1>3
-----------------------------------------------------------------------------
(* The backend *)

LEMMA MapKeeps == ASSUME IInv, NEW r \in Refs, Map(r) PROVE IInv'
<1> USE DEF Map, IInv
<1>1. TypeOK'
  <2>1. flags' \in [Refs -> SUBSET {permit, busy}] /\ mapped' \in [Refs -> Pages \cup {NoPage}]
    BY DEF TypeOK
  <2> QED BY <2>1 DEF TypeOK, copies, freelist, opvars
<1>2. Home' /\ Current' /\ Parted'
  BY DEF Home, Current, Parted, freelist, opvars, copies
<1>3. Live'
  <2>1. \A q \in Refs : permit \in flags'[q] <=> permit \in flags[q]
    BY DEF TypeOK, permit, busy
  <2>2. \A q \in Refs : busy \in flags'[q] => permit \in flags'[q]
    BY <2>1 DEF TypeOK, MappedInUse
  <2>3. \A u \in Contexts : cur[u] \in Refs \/ pc[u] \notin Clear
    BY DEF TypeOK, Current, Clear
  <2> QED BY <2>1, <2>2, <2>3 DEF TypeOK, Live, Expected, freelist, opvars
<1>4. Saved'
  BY DEF Saved, Expected, FreeAgain, RestoredTag, freelist, opvars, copies
<1>5. MappedInUse'
  BY DEF TypeOK, MappedInUse, permit, busy
<1> QED BY <1>1, <1>2, <1>3, <1>4, <1>5

LEMMA UnmapKeeps == ASSUME IInv, NEW r \in Refs, Unmap(r) PROVE IInv'
<1> USE DEF Unmap, IInv
<1>1. TypeOK'
  <2>1. flags' \in [Refs -> SUBSET {permit, busy}] /\ mapped' \in [Refs -> Pages \cup {NoPage}]
    BY DEF TypeOK
  <2> QED BY <2>1 DEF TypeOK, copies, freelist, opvars
<1>2. Home' /\ Current' /\ Parted'
  BY DEF Home, Current, Parted, freelist, opvars, copies
<1>3. Live'
  <2>1. \A q \in Refs : permit \in flags'[q] <=> permit \in flags[q]
    BY DEF TypeOK, permit, busy
  <2>2. \A q \in Refs : busy \in flags'[q] => permit \in flags'[q]
    BY <2>1 DEF TypeOK, MappedInUse
  <2>3. \A u \in Contexts : cur[u] \in Refs \/ pc[u] \notin Clear
    BY DEF TypeOK, Current, Clear
  <2> QED BY <2>1, <2>2, <2>3 DEF TypeOK, Live, Expected, freelist, opvars
<1>4. Saved'
  BY DEF Saved, Expected, FreeAgain, RestoredTag, freelist, opvars, copies
<1>5. MappedInUse'
  BY DEF TypeOK, MappedInUse, permit, busy
<1> QED BY <1>1, <1>2, <1>3, <1>4, <1>5
-----------------------------------------------------------------------------
(* Suspend and resume *)

\* What the live table is expected to hold is saved as it is.
LEMMA SuspendKeeps == ASSUME IInv, Suspend PROVE IInv'
<1> USE DEF Suspend, CopyTables, IInv
<1>1. TypeOK' /\ Home' /\ Current'
  BY DEF TypeOK, Home, Current, freelist, table, opvars, backend
<1>2. Parted'
  BY DEF Parted, freelist, opvars
<1>3. Live'
  BY DEF Live
<1>4. Saved'
  <2>1. Expected(Contexts, gnttbl_ss \cup gnttbl_ss_copy, flags, frame, gnttbl_tag)
    BY DEF Live
  <2>2. RestoredTag' = gnttbl_tag /\ FreeAgain' = gnttbl_ss
    BY DEF RestoredTag, FreeAgain, freelist, TypeOK
  <2>3. Expected(Users, FreeAgain, flags_copy, frame_copy, RestoredTag)'
    BY <2>1, <2>2 DEF Expected, Contexts, opvars
  <2> QED BY <2>3 DEF Saved
<1>5. MappedInUse'
  BY DEF MappedInUse, table, backend
<1> QED BY <1>1, <1>2, <1>3, <1>4, <1>5

\* The reserved references leave the freelist that is saved, and come back with it.
LEMMA HibernateKeeps == ASSUME IInv, Hibernate PROVE IInv'
<1> USE DEF CopyTables, IInv
<1> PICK H \in SUBSET gnttbl_ss :
      /\ hiber_grefs' = H /\ gnttbl_ss_copy' = gnttbl_ss \ H /\ gnttbl_ss' = H
      /\ gnttbl_tag_copy' = [r \in Refs |-> IF r \in H THEN HIBR ELSE gnttbl_tag[r]]
  BY DEF Hibernate
<1>0. /\ power = "on" /\ ~hibernating /\ hibernating' /\ \A u \in Contexts : pc[u] = "idle"
      /\ flags_copy' = flags /\ frame_copy' = frame
      /\ UNCHANGED <<table, gnttbl_tag, opvars, own, lost, want, backend, power>>
  BY DEF Hibernate
<1>a. gnttbl_ss_copy = {} /\ own[Dump] = {} /\ H \subseteq gnttbl_ss /\ H \subseteq Refs
  BY <1>0 DEF Parted, TypeOK
<1>1. TypeOK'
  <2>1. gnttbl_tag_copy' \in [Refs -> Contexts \cup {HIBR, NoTag}]
    BY DEF TypeOK
  <2>2. hibernating' \in BOOLEAN
    BY DEF Hibernate
  <2> QED BY <1>0, <1>a, <2>1, <2>2 DEF TypeOK, table, opvars, backend
<1>2. Home' /\ Current'
  BY <1>0, <1>a DEF Home, Current, opvars, TypeOK
<1>3. Parted'
  BY <1>0, <1>a, GrantAssumption DEF Parted, TypeOK, opvars, Contexts
<1>b. Expected(Contexts, gnttbl_ss \cup gnttbl_ss_copy, flags, frame, gnttbl_tag)
  BY <1>0 DEF Live
<1>4. Live'
  BY <1>0, <1>a, <1>b DEF Live, Expected, table, opvars
<1>5. Saved'
  <2>1. /\ \A r \in Refs : RestoredTag'[r] = IF r \in H THEN NoTag ELSE gnttbl_tag[r]
        /\ FreeAgain' = gnttbl_ss
    BY <1>0 DEF RestoredTag, FreeAgain
  <2>2. \A u \in Users : \A r \in own[u] : r \in Refs /\ r \notin H
    BY DEF Home, TypeOK, Contexts
  <2>3. Expected(Users, FreeAgain, flags_copy, frame_copy, RestoredTag)'
    BY <1>0, <1>a, <1>b, <2>1, <2>2 DEF Expected, opvars, Contexts, Clear, Mine, TypeOK
  <2> QED BY <2>3 DEF Saved
<1>6. MappedInUse'
  BY <1>0 DEF MappedInUse, table, backend
<1> QED BY <1>1, <1>2, <1>3, <1>4, <1>5, <1>6

LEMMA PowerOffKeeps == ASSUME IInv, PowerOff PROVE IInv'
<1> USE DEF PowerOff, IInv
<1>1. TypeOK' /\ Home' /\ Current'
  BY DEF TypeOK, Home, Current, freelist, opvars, copies
<1>2. Parted'
  BY DEF Parted, freelist, opvars, copies
<1>3. Live' /\ MappedInUse'
  BY DEF Live, MappedInUse
<1>4. Saved'
  <2>1. FreeAgain' = FreeAgain /\ RestoredTag' = RestoredTag
    BY DEF FreeAgain, RestoredTag, freelist, copies
  <2>2. Expected(Users, FreeAgain, flags_copy, frame_copy, RestoredTag)
    BY DEF Saved
  <2>3. Expected(Users, FreeAgain, flags_copy, frame_copy, RestoredTag)'
    BY <2>1, <2>2 DEF Expected, copies, opvars
  <2> QED BY <2>3 DEF Saved
<1> QED BY <1>1, <1>2, <1>3, <1>4

\* What was saved becomes the live table; the dump driver's references are free again.
LEMMA ResumeKeeps == ASSUME IInv, Resume PROVE IInv'
<1> USE DEF Resume, IInv
<1>1. Expected(Users, FreeAgain, flags_copy, frame_copy, RestoredTag)
  BY DEF Saved
<1>2. RestoredTag \in [Refs -> Contexts \cup {HIBR, NoTag}]
  BY DEF RestoredTag, TypeOK
<1>3. /\ hibernating' = FALSE /\ gnttbl_ss' = FreeAgain /\ gnttbl_ss_copy' = {} /\ hiber_grefs' = {}
      /\ own'[Dump] = {} /\ pc'[Dump] = "idle" /\ cur'[Dump] = NoRef
      /\ \A u \in Users : own'[u] = own[u] /\ pc'[u] = pc[u] /\ cur'[u] = cur[u]
      /\ \A r \in Refs : r \in lost' <=> r \in lost /\ r \notin hiber_grefs
      /\ \A r \in Refs : want'[r] = IF r \in hiber_grefs THEN NoPage ELSE want[r]
      /\ \A r \in hiber_grefs : r \in FreeAgain
  <2>1. CASE hibernating
    BY <2>1, GrantAssumption DEF TypeOK, FreeAgain, Contexts
  <2>2. CASE ~hibernating
    BY <2>2 DEF TypeOK, FreeAgain, freelist, opvars, Parted, Current, Contexts
  <2> QED BY <2>1, <2>2
<1>4. TypeOK'
  <2>1. own' \in [Contexts -> SUBSET Refs] /\ pc' \in [Contexts -> Labels]
        /\ cur' \in [Contexts -> Refs \cup {NoRef}] /\ want' \in [Refs -> Pages \cup {NoPage}]
        /\ lost' \in SUBSET Refs
    BY DEF TypeOK, Labels, opvars
  <2>2. gnttbl_ss' \in SUBSET Refs
    BY <1>3 DEF TypeOK, FreeAgain
  <2> QED BY <1>2, <1>3, <2>1, <2>2 DEF TypeOK
<1>5. Home'
  <2>1. \A r \in Refs : r \in FreeAgain <=> \/ r \in gnttbl_ss \/ r \in gnttbl_ss_copy
                                            \/ r \in hiber_grefs
    BY DEF FreeAgain, Parted
  <2>2. \A r \in hiber_grefs : \A u \in Users : r \notin own[u]
    BY GrantAssumption DEF Parted, Home, Contexts, TypeOK
  <2>3. \A r \in Refs : r \in own[Dump] => r \in hiber_grefs
    BY DEF Parted
  <2>4. \A u \in Contexts : u = Dump \/ u \in Users
    BY DEF Contexts
  <2> QED BY <1>3, <2>1, <2>2, <2>3, <2>4 DEF Home, TypeOK, Contexts
<1>6. Parted'
  <2>1. \A r \in Refs : RestoredTag[r] # Dump
    BY GrantAssumption DEF RestoredTag, Parted, Contexts
  <2> QED BY <1>3, <2>1, GrantAssumption DEF Parted, Contexts
<1>7. Current'
  BY <1>3 DEF Current, Contexts
<1>8. Live'
  <2>1. \A r \in Refs : permit \in flags_copy[r] => want'[r] = want[r]
    BY <1>1, <1>3 DEF Expected
  <2>2. \A u \in Users : pc[u] = "permit" => want'[cur[u]] = want[cur[u]]
    <3> SUFFICES ASSUME NEW u \in Users, pc[u] = "permit" PROVE cur[u] \in Refs /\ cur[u] \notin hiber_grefs
      BY <1>3
    <3> QED BY DEF Parted, Current, Contexts, TypeOK
  <2>3. Expected(Contexts, gnttbl_ss \cup gnttbl_ss_copy, flags, frame, gnttbl_tag)'
    BY <1>1, <1>3, <2>1, <2>2 DEF Expected, Contexts, Clear, Mine
  <2> QED BY <2>3 DEF Live
<1>9. Saved'
  BY <1>3 DEF Saved
<1>10. MappedInUse'
  <2>1. \A r \in Refs : permit \in flags_copy[r] => want'[r] = want[r]
    BY <1>1, <1>3 DEF Expected
  <2>2. \A r \in Refs : mapped[r] # NoPage /\ r \notin torn' => flags_copy[r] = flags[r] /\ r \notin torn
    OBVIOUS
  <2> QED BY <1>1, <2>1, <2>2 DEF MappedInUse, Expected
<1> QED BY <1>4, <1>5, <1>6, <1>7, <1>8, <1>9, <1>10
-----------------------------------------------------------------------------
(* Theorems *)

LEMMA InitInv == Init => IInv
<1> SUFFICES ASSUME Init PROVE IInv
  OBVIOUS
<1> USE DEF Init
<1>1. TypeOK
  BY DEF TypeOK, Labels
<1>2. Home /\ Parted /\ Current
  BY GrantAssumption DEF Home, Parted, Current, Contexts
<1>3. Live /\ Saved /\ MappedInUse
  BY DEF Live, Saved, MappedInUse, Expected, Clear, Mine
<1> QED BY <1>1, <1>2, <1>3 DEF IInv

LEMMA StepInv == IInv /\ [Next]_vars => IInv'
<1> SUFFICES ASSUME IInv, [Next]_vars PROVE IInv'
  OBVIOUS
<1>1. ASSUME NEW u \in Contexts, Driver(u) PROVE IInv'
  BY <1>1, GetRefKeeps, TagRefKeeps, RegrantKeeps, SetFrameKeeps, SetPermitKeeps, EndAccessKeeps,
     CasFlagsKeeps, FreeGrantKeeps, UntagKeeps, PushKeeps DEF Driver
<1>2. CASE UNCHANGED vars
  <2> USE <1>2 DEF vars, table, copies, freelist, opvars, backend
  <2>1. TypeOK' = TypeOK /\ Home' = Home /\ Parted' = Parted /\ Current' = Current
    BY DEF TypeOK, Home, Parted, Current
  <2>2. Live' = Live /\ Saved' = Saved /\ MappedInUse' = MappedInUse
    BY DEF Live, Saved, MappedInUse, Expected, FreeAgain, RestoredTag
  <2> QED BY <2>1, <2>2 DEF IInv
<1> QED BY <1>1, <1>2, MapKeeps, UnmapKeeps, SuspendKeeps, HibernateKeeps, PowerOffKeeps,
           ResumeKeeps DEF Next

\* The inductive invariant: what drivers and freelists expect of the live table and of
\* the saved one, and who has each reference (gnttbl.c).
THEOREM Invariance == Spec => []IInv
BY InitInv, StepInv, PTL DEF Spec

\* Type correctness.
THEOREM TypeCorrect == Spec => []TypeOK
<1>1. IInv => TypeOK
  BY DEF IInv
<1> QED BY <1>1, Invariance, PTL

\* No reference is lost, handed out twice, or handed out with a permission or a tag left
\* over; the XN_ASSERTs of GetRef, GrantAccess and PutRef hold.
THEOREM GrantsAreSound == Spec => []GrantsSound
<1>1. IInv => OneHome
  <2> SUFFICES ASSUME IInv PROVE OneHome
    OBVIOUS
  <2>1. \A r : r \in Held <=> \E u \in Contexts : r \in own[u]
    BY DEF Held
  <2>2. lost = Refs \ (Held \cup gnttbl_ss \cup gnttbl_ss_copy)
    BY <2>1 DEF IInv, Home, TypeOK
  <2>3. hibernating =>
          hiber_grefs = gnttbl_ss \cup own[Dump] \cup {r \in lost : gnttbl_tag[r] = Dump}
    <3>1. Dump \in Contexts
      BY DEF Contexts
    <3> QED BY <3>1 DEF IInv, Parted, TypeOK
  <2>4. \A u, v \in Contexts : u # v => own[u] \cap own[v] = {}
    BY DEF IInv, Home
  <2> QED BY <2>1, <2>2, <2>3, <2>4 DEF IInv, Home, OneHome
<1>2. IInv => FreeIsClean
  BY DEF IInv, Live, Expected, FreeIsClean
<1>3. IInv => AssertsHold
  <2> SUFFICES ASSUME IInv, power = "on", NEW u \in Contexts, pc[u] = "permit" PROVE flags[cur[u]] = {}
    BY DEF IInv, Live, Expected, AssertsHold, Mine
  <2>1. cur[u] \in Refs /\ permit \notin flags[cur[u]]
    BY DEF IInv, Current, TypeOK, Live, Expected, Clear
  <2> QED BY <2>1 DEF IInv, Live, Expected, TypeOK
<1>4. IInv => TypeOK
  BY DEF IInv
<1> QED BY <1>1, <1>2, <1>3, <1>4, Invariance, PTL DEF GrantsSound

\* A page a backend has mapped is the one its owner grants.
THEOREM MappingsAreGranted == Spec => []MappedIsGranted
<1>1. IInv => MappedIsGranted
  BY DEF IInv, MappedInUse, MappedIsGranted
<1> QED BY <1>1, Invariance, PTL
=============================================================================
