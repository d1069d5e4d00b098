----------------------------- MODULE GrantTable -----------------------------
(***************************************************************************)
(* The grant table (xenpci/gnttbl.c): which of the guest's pages a backend *)
(* domain may map.  Device drivers take references from a lock-free stack, *)
(* grant a page through them, end the access and put them back; suspend    *)
(* and hibernation save and restore the whole table.                       *)
(*                                                                         *)
(* A user is one driver context doing one operation at a time.  Every      *)
(* access to shared memory is an action; the backend (and the hypervisor   *)
(* on its behalf) sets and clears the reading/writing flag between any two *)
(* of them.  The stack is abstracted to the set of references on it.       *)
(***************************************************************************)
EXTENDS Naturals, FiniteSets

CONSTANTS
  Refs,              \* NR_RESERVED_ENTRIES .. grant_entries - 1
  Users,             \* driver contexts of the running system
  Dump,              \* the crash/hibernation driver
  Pages,
  HIBER_GREF_COUNT,
  NoTag, HIBR, NoPage, NoRef

Contexts == Users \cup {Dump}

ASSUME GrantAssumption ==
  /\ IsFiniteSet(Refs)
  /\ HIBER_GREF_COUNT \in Nat
  /\ Dump \notin Users
  /\ NoTag \notin Contexts /\ HIBR \notin Contexts /\ NoTag # HIBR
  /\ NoPage \notin Pages /\ NoRef \notin Refs

VARIABLES
  gnttbl_ss, gnttbl_ss_copy,          \* current and saved freelist
  hibernating,                        \* gnttbl_ss_copy # NULL
  hiber_grefs,
  flags, frame, flags_copy, frame_copy,   \* gnttbl_table and its copy
  gnttbl_tag, gnttbl_tag_copy,
  pc, cur,                            \* per context: operation in progress, its ref
  own,                                \* per context: references it holds
  lost,                               \* given up by a driver after EndAccess failed
  want,                               \* page the owner is sharing (history)
  mapped,                             \* reference -> page a backend has mapped
  torn,                               \* mapped references whose flags Resume overwrote (history)
  power                               \* on; frozen: inside hvm_shutdown; off: new domain

table    == <<flags, frame>>
copies   == <<flags_copy, frame_copy, gnttbl_tag_copy>>
freelist == <<gnttbl_ss, gnttbl_ss_copy, hibernating, hiber_grefs>>
opvars   == <<pc, cur>>
backend  == <<mapped, torn>>
vars     == <<freelist, table, copies, gnttbl_tag, opvars, own, lost, want,
              backend, power>>

permit == "permit"   \* GTF_permit_access
busy   == "busy"     \* GTF_reading | GTF_writing

\* cas: EndAccess about to revoke, then free; caskeep: the same with keepref.
Labels == {"idle", "tag", "frame", "permit", "cas", "caskeep", "untag", "push"}

TypeOK ==
  /\ gnttbl_ss \in SUBSET Refs /\ gnttbl_ss_copy \in SUBSET Refs
  /\ hiber_grefs \in SUBSET Refs /\ hibernating \in BOOLEAN
  /\ flags \in [Refs -> SUBSET {permit, busy}]
  /\ flags_copy \in [Refs -> SUBSET {permit, busy}]
  /\ frame \in [Refs -> Pages \cup {NoPage}]
  /\ frame_copy \in [Refs -> Pages \cup {NoPage}]
  /\ gnttbl_tag \in [Refs -> Contexts \cup {HIBR, NoTag}]
  /\ gnttbl_tag_copy \in [Refs -> Contexts \cup {HIBR, NoTag}]
  /\ pc \in [Contexts -> Labels] /\ cur \in [Contexts -> Refs \cup {NoRef}]
  /\ own \in [Contexts -> SUBSET Refs] /\ lost \in SUBSET Refs
  /\ want \in [Refs -> Pages \cup {NoPage}]
  /\ mapped \in [Refs -> Pages \cup {NoPage}] /\ torn \in SUBSET Refs
  /\ power \in {"on", "frozen", "off"}

\* GntTbl_Init
Init ==
  /\ gnttbl_ss = Refs /\ gnttbl_ss_copy = {} /\ hibernating = FALSE /\ hiber_grefs = {}
  /\ flags = [r \in Refs |-> {}] /\ frame = [r \in Refs |-> NoPage]
  /\ flags_copy = [r \in Refs |-> {}] /\ frame_copy = [r \in Refs |-> NoPage]
  /\ gnttbl_tag = [r \in Refs |-> NoTag] /\ gnttbl_tag_copy = [r \in Refs |-> NoTag]
  /\ pc = [u \in Contexts |-> "idle"] /\ cur = [u \in Contexts |-> NoRef]
  /\ own = [u \in Contexts |-> {}] /\ lost = {}
  /\ want = [r \in Refs |-> NoPage] /\ mapped = [r \in Refs |-> NoPage] /\ torn = {}
  /\ power = "on"

\* Until GntTbl_Resume only the dump driver runs in a hibernating system.
Running(u) == power = "on" /\ (hibernating <=> u = Dump)

\* A context at "from" goes on to "to", working on reference r.
Step(u, from, to, r) ==
  /\ Running(u) /\ pc[u] = from
  /\ pc' = [pc EXCEPT ![u] = to]
  /\ cur' = [cur EXCEPT ![u] = IF to = "idle" THEN NoRef ELSE r]
-----------------------------------------------------------------------------
(* GntTbl_GetRef, GntTbl_GrantAccess *)

\* Mutant: two callers may pop the same element.
GetRefTwice(u) ==
  /\ \E r \in gnttbl_ss :
       /\ Step(u, "idle", "tag", r)
       /\ gnttbl_ss' \in {gnttbl_ss, gnttbl_ss \ {r}}
       /\ own' = [own EXCEPT ![u] = @ \cup {r}]
  /\ UNCHANGED <<gnttbl_ss_copy, hibernating, hiber_grefs, table, copies, gnttbl_tag,
                 lost, want, backend, power>>

\* stack_pop.  An empty stack returns INVALID_GRANT_REF and changes nothing.
GetRef(u) ==
  /\ \E r \in gnttbl_ss :
       /\ Step(u, "idle", "tag", r)
       /\ gnttbl_ss' = gnttbl_ss \ {r}
       /\ own' = [own EXCEPT ![u] = @ \cup {r}]
  /\ UNCHANGED <<gnttbl_ss_copy, hibernating, hiber_grefs, table, copies, gnttbl_tag,
                 lost, want, backend, power>>

\* XN_ASSERT(!tag); tag = owner.  Called alone, or from GntTbl_GrantAccess.
TagRef(u) ==
  /\ \E to \in {"idle", "frame"} : Step(u, "tag", to, cur[u])
  /\ gnttbl_tag' = [gnttbl_tag EXCEPT ![cur[u]] = u]
  /\ UNCHANGED <<freelist, table, copies, own, lost, want, backend, power>>

\* GntTbl_GrantAccess through a reference the caller already has.
Regrant(u) ==
  /\ \E r \in own[u] : permit \notin flags[r] /\ Step(u, "idle", "frame", r)
  /\ UNCHANGED <<freelist, table, copies, gnttbl_tag, own, lost, want, backend, power>>

\* gnttbl_table[ref].frame, .domid
SetFrame(u) ==
  /\ Step(u, "frame", "permit", cur[u])
  /\ \E p \in Pages : frame' = [frame EXCEPT ![cur[u]] = p]
                      /\ want' = [want EXCEPT ![cur[u]] = p]
  /\ UNCHANGED <<freelist, flags, copies, gnttbl_tag, own, lost, backend, power>>

\* XN_ASSERT(!flags); barrier; flags = GTF_permit_access
SetPermit(u) ==
  /\ Step(u, "permit", "idle", cur[u])
  /\ flags' = [flags EXCEPT ![cur[u]] = {permit}]
  /\ UNCHANGED <<freelist, frame, copies, gnttbl_tag, own, lost, want, backend, power>>
-----------------------------------------------------------------------------
(* GntTbl_EndAccess, GntTbl_PutRef *)

\* EndAccess returns FALSE.  No caller in the tree looks at the result, so the
\* driver has forgotten the reference.
GiveUp(u, r) ==
  /\ own' = [own EXCEPT ![u] = @ \ {r}]
  /\ lost' = lost \cup {r}
  /\ UNCHANGED <<freelist, table, copies, gnttbl_tag, want, backend, power>>

\* nflags = flags; the first test of the loop.
EndAccess(u) ==
  \E r \in own[u] :
    /\ permit \in flags[r]
    /\ \/ /\ busy \notin flags[r]
          /\ \E to \in {"cas", "caskeep"} : Step(u, "idle", to, r)
          /\ UNCHANGED <<freelist, table, copies, gnttbl_tag, own, lost, want,
                         backend, power>>
       \/ /\ busy \in flags[r]
          /\ Step(u, "idle", "idle", r)
          /\ GiveUp(u, r)

\* Mutant: the flags are cleared with a plain store after the test.
ClearFlags(u) ==
  /\ Step(u, "cas", "untag", cur[u]) \/ Step(u, "caskeep", "idle", cur[u])
  /\ flags' = [flags EXCEPT ![cur[u]] = {}]
  /\ want' = [want EXCEPT ![cur[u]] = NoPage]
  /\ UNCHANGED <<freelist, frame, copies, gnttbl_tag, own, lost, backend, power>>

\* InterlockedCompareExchange16(&flags, 0, GTF_permit_access).  When it fails the
\* loop tests the value it saw, which has a busy bit.
CasFlags(u) ==
  \/ /\ Step(u, "cas", "untag", cur[u]) \/ Step(u, "caskeep", "idle", cur[u])
     /\ flags[cur[u]] = {permit}
     /\ flags' = [flags EXCEPT ![cur[u]] = {}]
     /\ want' = [want EXCEPT ![cur[u]] = NoPage]
     /\ UNCHANGED <<freelist, frame, copies, gnttbl_tag, own, lost, backend, power>>
  \/ /\ \E from \in {"cas", "caskeep"} : Step(u, from, "idle", cur[u])
     /\ flags[cur[u]] # {permit}
     /\ GiveUp(u, cur[u])

\* GntTbl_PutRef on a reference that was only allocated (XnFreeGrant).
FreeGrant(u) ==
  /\ \E r \in own[u] : permit \notin flags[r] /\ Step(u, "idle", "untag", r)
  /\ UNCHANGED <<freelist, table, copies, gnttbl_tag, own, lost, want, backend, power>>

\* XN_ASSERT(tag matches); tag = 0
Untag(u) ==
  /\ Step(u, "untag", "push", cur[u])
  /\ gnttbl_tag' = [gnttbl_tag EXCEPT ![cur[u]] = NoTag]
  /\ UNCHANGED <<freelist, table, copies, own, lost, want, backend, power>>

\* stack_push
Push(u) ==
  /\ Step(u, "push", "idle", cur[u])
  /\ gnttbl_ss' = gnttbl_ss \cup {cur[u]}
  /\ own' = [own EXCEPT ![u] = @ \ {cur[u]}]
  /\ UNCHANGED <<gnttbl_ss_copy, hibernating, hiber_grefs, table, copies, gnttbl_tag,
                 lost, want, backend, power>>

Driver(u) == GetRef(u) \/ TagRef(u) \/ Regrant(u) \/ SetFrame(u) \/ SetPermit(u)
             \/ EndAccess(u) \/ CasFlags(u) \/ FreeGrant(u) \/ Untag(u) \/ Push(u)
-----------------------------------------------------------------------------
(* The backend domain, through the hypervisor *)

Map(r) ==
  /\ power # "off" /\ permit \in flags[r] /\ mapped[r] = NoPage
  /\ mapped' = [mapped EXCEPT ![r] = frame[r]]
  /\ flags' = [flags EXCEPT ![r] = @ \cup {busy}]
  /\ UNCHANGED <<freelist, frame, copies, gnttbl_tag, opvars, own, lost, want, torn, power>>

Unmap(r) ==
  /\ power # "off" /\ mapped[r] # NoPage
  /\ mapped' = [mapped EXCEPT ![r] = NoPage]
  /\ flags' = [flags EXCEPT ![r] = @ \ {busy}]
  /\ torn' = torn \ {r}
  /\ UNCHANGED <<freelist, frame, copies, gnttbl_tag, opvars, own, lost, want, power>>
-----------------------------------------------------------------------------
(* Suspend, hibernate, resume *)

CopyTables ==
  /\ flags_copy' = flags /\ frame_copy' = frame

\* GntTbl_Suspend at HIGH_LEVEL, from XenPci_Suspend0: any driver may be
\* stopped in the middle of an operation.
Suspend ==
  /\ power = "on" /\ ~hibernating
  /\ power' = "frozen"
  /\ CopyTables /\ gnttbl_tag_copy' = gnttbl_tag
  /\ UNCHANGED <<freelist, table, gnttbl_tag, opvars, own, lost, want, backend>>

\* GntTbl_Suspend at or below DISPATCH_LEVEL, from XenPci_EvtDeviceD0Exit, with
\* the children powered down: reserve up to HIBER_GREF_COUNT references, swap the
\* stack for an empty one, copy the tables, put the reserved ones on it.
Hibernate ==
  /\ power = "on" /\ ~hibernating /\ \A u \in Contexts : pc[u] = "idle"
  /\ \E H \in SUBSET gnttbl_ss :
       /\ Cardinality(H) <= HIBER_GREF_COUNT
       /\ H # gnttbl_ss => Cardinality(H) = HIBER_GREF_COUNT
       /\ hiber_grefs' = H
       /\ gnttbl_ss_copy' = gnttbl_ss \ H
       /\ gnttbl_ss' = H
       /\ gnttbl_tag_copy' = [r \in Refs |-> IF r \in H THEN HIBR ELSE gnttbl_tag[r]]
  /\ hibernating' = TRUE
  /\ CopyTables
  /\ UNCHANGED <<table, gnttbl_tag, opvars, own, lost, want, backend, power>>

\* The domain is gone; its successor starts with an empty grant table.
PowerOff ==
  /\ power = "frozen" \/ (power = "on" /\ hibernating)
  /\ power' = "off"
  /\ flags' = [r \in Refs |-> {}] /\ frame' = [r \in Refs |-> NoPage]
  /\ mapped' = [r \in Refs |-> NoPage] /\ torn' = {}
  /\ UNCHANGED <<freelist, copies, gnttbl_tag, opvars, own, lost, want>>

\* The saved tags, less those PutRef clears on the reserved references.
RestoredTag ==
  [r \in Refs |-> IF hibernating /\ r \in hiber_grefs THEN NoTag ELSE gnttbl_tag_copy[r]]

\* GntTbl_Resume: in the new domain, in the old one after a cancelled suspend
\* (power = "frozen"), or on the way back from a sleep state the domain survived.
\* The dump driver's memory is not part of the restored system.  The copies are
\* dead from here to the next GntTbl_Suspend.
Resume ==
  /\ power # "on" \/ hibernating
  /\ power' = "on"
  /\ flags' = flags_copy /\ frame' = frame_copy
  /\ torn' = {r \in Refs : mapped[r] # NoPage /\ flags_copy[r] # flags[r]} \cup torn
  /\ gnttbl_tag' = RestoredTag
  /\ flags_copy' = [r \in Refs |-> {}] /\ frame_copy' = [r \in Refs |-> NoPage]
  /\ gnttbl_tag_copy' = [r \in Refs |-> NoTag]
  /\ IF hibernating
       THEN /\ gnttbl_ss' = gnttbl_ss_copy \cup hiber_grefs
            /\ gnttbl_ss_copy' = {} /\ hiber_grefs' = {} /\ hibernating' = FALSE
            /\ own' = [own EXCEPT ![Dump] = {}]
            /\ pc' = [pc EXCEPT ![Dump] = "idle"] /\ cur' = [cur EXCEPT ![Dump] = NoRef]
            /\ lost' = lost \ hiber_grefs
            /\ want' = [r \in Refs |-> IF r \in hiber_grefs THEN NoPage ELSE want[r]]
       ELSE UNCHANGED <<freelist, opvars, own, lost, want>>
  /\ UNCHANGED mapped

Next == \/ \E u \in Contexts : Driver(u)
        \/ \E r \in Refs : Map(r) \/ Unmap(r)
        \/ Suspend \/ Hibernate \/ PowerOff \/ Resume

Spec == Init /\ [][Next]_vars
-----------------------------------------------------------------------------
(* Properties *)

\* Every reference is in exactly one place: on a freelist, held by one driver, or
\* lost.  While hibernating the reserved ones move between the alternate
\* freelist and the dump driver and everything else stands still.
Held == UNION {own[u] : u \in Contexts}

OneHome ==
  /\ gnttbl_ss \cap gnttbl_ss_copy = {}
  /\ Held \cap (gnttbl_ss \cup gnttbl_ss_copy) = {}
  /\ \A u, v \in Contexts : u # v => own[u] \cap own[v] = {}
  /\ lost = Refs \ (Held \cup gnttbl_ss \cup gnttbl_ss_copy)
  /\ hibernating =>
       hiber_grefs = gnttbl_ss \cup own[Dump] \cup {r \in lost : gnttbl_tag[r] = Dump}

\* A free reference gives no access, and neither assertion of GetRef and
\* GrantAccess can fail when it is handed out.
FreeIsClean ==
  power = "on" =>
    \A r \in gnttbl_ss \cup gnttbl_ss_copy : permit \notin flags[r] /\ gnttbl_tag[r] = NoTag

\* The XN_ASSERTs: at "tag" the reference is untagged, everywhere else it carries
\* the caller's tag, and GrantAccess finds no flags set.
AssertsHold ==
  power = "on" =>
    \A u \in Contexts :
      /\ pc[u] = "tag" => gnttbl_tag[cur[u]] = NoTag
      /\ pc[u] \in {"frame", "permit", "cas", "caskeep", "untag"} => gnttbl_tag[cur[u]] = u
      /\ pc[u] = "permit" => flags[cur[u]] = {}

\* A reference is never handed out twice, or with a permission or a tag left over
\* from before: what GetRef and GrantAccess find is what PutRef, EndAccess and Resume
\* leave behind.
GrantsSound == TypeOK /\ OneHome /\ FreeIsClean /\ AssertsHold

\* A page a backend has mapped is the page its owner is granting at that moment:
\* the frame is in place before the permission, and EndAccess only succeeds
\* against a reference that is not in use.  The exception is a mapping whose busy
\* bit a cancelled suspend overwrote with the older copy.
MappedIsGranted ==
  \A r \in Refs : mapped[r] # NoPage /\ r \notin torn =>
                   permit \in flags[r] /\ mapped[r] = want[r]
=============================================================================
