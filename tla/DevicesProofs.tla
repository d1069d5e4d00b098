--------------------------- MODULE DevicesProofs ---------------------------
(***************************************************************************)
(* Proofs about BusDriver for every set of devices, unit and amount of     *)
(* memory.  The memory: whole units move between Windows, the thread's     *)
(* list and what is lost.  The children: what a scan lists is what the     *)
(* children were, as long as nothing was removed, because the child list   *)
(* only changes when no other scan is in progress.                         *)
(*                                                                         *)
(* Then about Usb, for every set of URBs, ids and ports.  The ports: who   *)
(* has not looked at a change yet, and where the news of a port is.  The   *)
(* URBs: the ids in use and the requests on the ring are in one to one     *)
(* correspondence, and an id is at one place on its way to the backend     *)
(* and back.                                                               *)
(***************************************************************************)
EXTENDS BusDriver, Usb, FiniteSetTheorems, SequenceTheorems, TLAPS

Places == {"none", "check", "wait", "poll", "take", "give"}

\* TypeOK for the variables it leaves open.
Types ==
  /\ thread \in [pc : Places, new_target : Nat, head : Nat]
  /\ lost \in Nat /\ fails \in Nat
  /\ removed \subseteq Devices
  /\ scans \in [Callers -> [pc : {"idle", "begin", "list", "end"}, found : SUBSET Devices]]

\* Memory comes and goes in whole units; a list belongs to a thread.
WholeUnits ==
  /\ \E k \in Nat : current = Unit * k
  /\ thread.pc = "none" => thread.head = 0
  /\ fdo \in {"stopped", "started"} => thread.pc = "none"

\* What is known, or listed, or reported, was in the store and is no vetoed type.
Seen(S) == \A d \in S : d \notin Veto /\ (d \in store \/ d \in removed)

\* A scan that has listed the store has every child in its list.
ListedAll ==
  \A c \in Callers : scans[c].pc = "end" =>
    \A d \in children : d \in scans[c].found \/ d \in removed \/ fails > 0

Children ==
  /\ Seen(children) /\ Seen(marked) /\ \A c \in Callers : Seen(scans[c].found)
  /\ ListedAll

IInv == Types /\ MemoryAccounted /\ WholeUnits /\ Children
-----------------------------------------------------------------------------
(* Units *)

LEMMA OneMore == \A u, k \in Nat : u * (k + 1) = u * k + u /\ u * k \in Nat
OBVIOUS

LEMMA WholeInitial == \E k \in Nat : Initial = Unit * k
<1>1. Initial \div Unit \in Nat /\ Initial = Unit * (Initial \div Unit) + (Initial % Unit)
  BY BusAssumption
<1>2. Unit * (Initial \div Unit) \in Nat
  BY <1>1, OneMore, BusAssumption
<1> QED BY <1>1, <1>2, BusAssumption
-----------------------------------------------------------------------------
(* One action at a time *)

LEMMA SetTargetKeeps == ASSUME IInv, NEW t \in Targets, SetTarget(t) PROVE IInv'
<1> USE BusAssumption DEF SetTarget, Watched, IInv, MemoryAccounted, balloon, list, pnp
<1>1. Types'
  BY DEF Types, Places, NoScan, NoThread, Callers
<1>2. TypeOK'
  BY <1>1 DEF TypeOK, DeviceEvents, Types, Places
<1>3. (current + Unit * (thread.head + lost) = Initial /\ current >= 0)'
  OBVIOUS
<1>4. WholeUnits'
  BY DEF Types, WholeUnits, NoThread
<1>5. Children'
  BY DEF Types, TypeOK, Children, Seen, ListedAll, Scanning, NoScan, Callers
<1> QED BY <1>1, <1>2, <1>3, <1>4, <1>5

LEMMA ThreadCheckKeeps == ASSUME IInv, ThreadCheck PROVE IInv'
<1> USE BusAssumption DEF ThreadCheck, Watched, IInv, MemoryAccounted, balloon, list, pnp
<1>1. Types'
  BY DEF Types, Places, NoScan, NoThread, Callers
<1>2. TypeOK'
  BY <1>1 DEF TypeOK, DeviceEvents, Types, Places
<1>3. (current + Unit * (thread.head + lost) = Initial /\ current >= 0)'
  OBVIOUS
<1>4. WholeUnits'
  BY DEF Types, WholeUnits, NoThread
<1>5. Children'
  BY DEF Types, TypeOK, Children, Seen, ListedAll, Scanning, NoScan, Callers
<1> QED BY <1>1, <1>2, <1>3, <1>4, <1>5

LEMMA ThreadWakeKeeps == ASSUME IInv, ThreadWake PROVE IInv'
<1> USE BusAssumption DEF ThreadWake, Watched, IInv, MemoryAccounted, balloon, list, pnp
<1>0. thread.head \in Nat /\ lost \in Nat /\ target \in Nat
  BY DEF Types, TypeOK
<1>a. /\ thread' \in [pc : Places, new_target : Nat, head : Nat] /\ lost' \in Nat
      /\ thread'.head + lost' = thread.head + lost
      /\ thread'.pc = "none" => thread'.head = 0
      /\ thread.pc # "none"
  <2>1. CASE balloon_shutdown
    <3>1. thread' = NoThread /\ lost' = lost + thread.head
      BY <2>1
    <3> HIDE DEF IInv, ThreadWake
    <3> QED BY <1>0, <3>1 DEF NoThread, Places, ThreadWake
  <2>2. CASE ~balloon_shutdown
    <3>1. PICK to \in Places \ {"none"} :
            thread' = [thread EXCEPT !.new_target = target, !.pc = to] /\ lost' = lost
      BY <2>2 DEF Places
    <3>2. thread \in [pc : Places, new_target : Nat, head : Nat] /\ thread.pc # "none"
      BY DEF Types
    <3> HIDE DEF IInv, ThreadWake
    <3> QED BY <1>0, <3>1, <3>2
  <2> QED BY <2>1, <2>2
<1>1. Types'
  BY <1>a DEF Types
<1>2. TypeOK'
  BY <1>1 DEF TypeOK, DeviceEvents, Types, Places
<1>3. (current + Unit * (thread.head + lost) = Initial /\ current >= 0)'
  BY <1>a
<1>4. WholeUnits'
  <2>1. current' = current /\ fdo' = fdo
    OBVIOUS
  <2> QED BY <1>a, <2>1 DEF WholeUnits
<1>5. Children'
  BY DEF Types, TypeOK, Children, Seen, ListedAll, Scanning, NoScan, Callers
<1> QED BY <1>1, <1>2, <1>3, <1>4, <1>5

LEMMA ThreadTakesKeeps == ASSUME IInv, ThreadTakes PROVE IInv'
<1> USE BusAssumption DEF ThreadTakes, Watched, IInv, MemoryAccounted, balloon, list, pnp
<1>0. /\ thread.head \in Nat \ {0} /\ lost \in Nat /\ current \in Nat
      /\ thread'.head = thread.head - 1 /\ thread'.pc = thread.pc
  BY DEF Types, TypeOK
<1>a0. thread'.head + lost \in Nat /\ thread.head + lost = (thread'.head + lost) + 1
  BY <1>0
<1>a. Unit * (thread.head + lost) = Unit * (thread'.head + lost) + Unit
  <2> HIDE DEF ThreadTakes
  <2> QED BY <1>a0, OneMore
<1>1. Types'
  BY DEF Types, Places, NoScan, NoThread, Callers
<1>2. TypeOK'
  BY <1>1 DEF TypeOK, DeviceEvents, Types, Places
<1>3. (current + Unit * (thread.head + lost) = Initial /\ current >= 0)'
  <2>1. Unit * (thread'.head + lost) \in Nat
    BY <1>a0, OneMore
  <2>2. current' = current + Unit /\ lost' = lost
    OBVIOUS
  <2>3. current + Unit * (thread.head + lost) = Initial /\ Unit \in Nat /\ Initial \in Nat
    OBVIOUS
  <2> HIDE DEF ThreadTakes, IInv, MemoryAccounted
  <2> QED BY <2>2, <2>3, <1>0, <1>a, <2>1
<1>4. WholeUnits'
  <2>1. PICK k \in Nat : current = Unit * k
    BY DEF WholeUnits
  <2>2. current' = Unit * (k + 1) /\ k + 1 \in Nat
    BY <2>1, OneMore
  <2>3. fdo' \in {"stopped", "started"} => thread'.pc = "none"
    BY <1>0 DEF WholeUnits
  <2>4. thread'.pc # "none"
    BY <1>0
  <2> HIDE DEF ThreadTakes, IInv, MemoryAccounted
  <2> QED BY <2>2, <2>3, <2>4 DEF WholeUnits
<1>5. Children'
  BY DEF Types, TypeOK, Children, Seen, ListedAll, Scanning, NoScan, Callers
<1> QED BY <1>1, <1>2, <1>3, <1>4, <1>5

LEMMA ThreadGivesKeeps == ASSUME IInv, ThreadGives PROVE IInv'
<1> USE BusAssumption DEF ThreadGives, Watched, IInv, MemoryAccounted, balloon, list, pnp
<1>0. /\ thread.head \in Nat /\ lost \in Nat /\ current \in Nat \ {0}
      /\ thread'.head = thread.head + 1 /\ thread'.pc = thread.pc
  BY DEF Types, TypeOK
<1>a. Unit * (thread'.head + lost) = Unit * (thread.head + lost) + Unit
  <2>1. thread.head + lost \in Nat /\ thread'.head + lost = (thread.head + lost) + 1
    BY <1>0
  <2> HIDE DEF ThreadGives
  <2> QED BY <2>1, OneMore
<1>b. PICK k \in Nat : current = Unit * k
  BY DEF WholeUnits
<1>c. k # 0
  BY <1>0, <1>b
<1>d. current' = Unit * (k - 1) /\ current' \in Nat
  <2>1. k - 1 \in Nat /\ k = (k - 1) + 1
    BY <1>c
  <2>2. Unit * k = Unit * (k - 1) + Unit /\ Unit * (k - 1) \in Nat
    BY <2>1, OneMore
  <2> QED BY <1>b, <2>2
<1>1. Types'
  BY DEF Types, Places, NoScan, NoThread, Callers
<1>2. TypeOK'
  BY <1>1, <1>d DEF TypeOK, DeviceEvents, Types, Places
<1>3. (current + Unit * (thread.head + lost) = Initial /\ current >= 0)'
  <2>1. Unit * (thread.head + lost) \in Nat
    BY <1>0, OneMore
  <2>2. current' = current - Unit /\ lost' = lost
    OBVIOUS
  <2>3. current + Unit * (thread.head + lost) = Initial /\ Unit \in Nat /\ Initial \in Nat
    OBVIOUS
  <2> HIDE DEF ThreadGives, IInv, MemoryAccounted
  <2> QED BY <2>2, <2>3, <1>0, <1>a, <1>d, <2>1
<1>4. WholeUnits'
  <2>2. current' = Unit * (k - 1) /\ k - 1 \in Nat
    BY <1>c, <1>d
  <2>3. fdo' \in {"stopped", "started"} => thread'.pc = "none"
    BY <1>0 DEF WholeUnits
  <2>4. thread'.pc # "none"
    BY <1>0
  <2> HIDE DEF ThreadGives, IInv, MemoryAccounted
  <2> QED BY <2>2, <2>3, <2>4 DEF WholeUnits
<1>5. Children'
  BY DEF Types, TypeOK, Children, Seen, ListedAll, Scanning, NoScan, Callers
<1> QED BY <1>1, <1>2, <1>3, <1>4, <1>5

LEMMA ThreadRefusedKeeps == ASSUME IInv, ThreadRefused PROVE IInv'
<1> USE BusAssumption DEF ThreadRefused, Watched, IInv, MemoryAccounted, balloon, list, pnp
<1>1. Types'
  BY DEF Types, Places, NoScan, NoThread, Callers
<1>2. TypeOK'
  BY <1>1 DEF TypeOK, DeviceEvents, Types, Places
<1>3. (current + Unit * (thread.head + lost) = Initial /\ current >= 0)'
  OBVIOUS
<1>4. WholeUnits'
  <2>1. thread'.pc = "check" /\ thread.pc # "none" /\ current' = current /\ fdo' = fdo
    BY DEF Types, Wanted
  <2> HIDE DEF ThreadRefused, MemoryAccounted
  <2> QED BY <2>1 DEF WholeUnits
<1>5. Children'
  BY DEF Types, TypeOK, Children, Seen, ListedAll, Scanning, NoScan, Callers
<1> QED BY <1>1, <1>2, <1>3, <1>4, <1>5

LEMMA ThreadDoneKeeps == ASSUME IInv, ThreadDone PROVE IInv'
<1> USE BusAssumption DEF ThreadDone, Watched, IInv, MemoryAccounted, balloon, list, pnp
<1>1. Types'
  BY DEF Types, Places, NoScan, NoThread, Callers
<1>2. TypeOK'
  BY <1>1 DEF TypeOK, DeviceEvents, Types, Places
<1>3. (current + Unit * (thread.head + lost) = Initial /\ current >= 0)'
  OBVIOUS
<1>4. WholeUnits'
  BY DEF Types, WholeUnits, NoThread
<1>5. Children'
  BY DEF Types, TypeOK, Children, Seen, ListedAll, Scanning, NoScan, Callers
<1> QED BY <1>1, <1>2, <1>3, <1>4, <1>5

LEMMA HandlerTargetKeeps == ASSUME IInv, HandlerTarget PROVE IInv'
<1> USE BusAssumption DEF HandlerTarget, Watched, IInv, MemoryAccounted, balloon, list, pnp
<1>1. Types'
  BY DEF Types, Places, NoScan, NoThread, Callers
<1>2. TypeOK'
  BY <1>1 DEF TypeOK, DeviceEvents, Types, Places
<1>3. (current + Unit * (thread.head + lost) = Initial /\ current >= 0)'
  OBVIOUS
<1>4. WholeUnits'
  BY DEF Types, WholeUnits, NoThread
<1>5. Children'
  BY DEF Types, TypeOK, Children, Seen, ListedAll, Scanning, NoScan, Callers
<1> QED BY <1>1, <1>2, <1>3, <1>4, <1>5

LEMMA HandlerEventKeeps == ASSUME IInv, HandlerEvent PROVE IInv'
<1> USE BusAssumption DEF HandlerEvent, Watched, IInv, MemoryAccounted, balloon, list, pnp
<1>1. Types'
  BY DEF Types, Places, NoScan, NoThread, Callers
<1>2. TypeOK'
  BY <1>1 DEF TypeOK, DeviceEvents, Types, Places
<1>3. (current + Unit * (thread.head + lost) = Initial /\ current >= 0)'
  OBVIOUS
<1>4. WholeUnits'
  BY DEF Types, WholeUnits, NoThread
<1>5. Children'
  BY DEF Types, TypeOK, Children, Seen, ListedAll, Scanning, NoScan, Callers
<1> QED BY <1>1, <1>2, <1>3, <1>4, <1>5

LEMMA PrimeKeeps == ASSUME IInv, Prime PROVE IInv'
<1> USE BusAssumption DEF Prime, Watched, IInv, MemoryAccounted, balloon, list, pnp
<1>1. Types'
  <2>1. thread' \in [pc : Places, new_target : Nat, head : Nat]
    BY DEF TypeOK, NoThread, Places
  <2> QED BY <2>1 DEF Types
<1>2. TypeOK'
  BY <1>1 DEF TypeOK, DeviceEvents, Types, Places
<1>3. (current + Unit * (thread.head + lost) = Initial /\ current >= 0)'
  <2>1. thread'.head = thread.head
    BY DEF WholeUnits, NoThread
  <2> QED BY <2>1
<1>4. WholeUnits'
  BY DEF Types, WholeUnits, NoThread
<1>5. Children'
  BY DEF Types, TypeOK, Children, Seen, ListedAll, Scanning, NoScan, Callers
<1> QED BY <1>1, <1>2, <1>3, <1>4, <1>5

LEMMA StopFlagKeeps == ASSUME IInv, StopFlag PROVE IInv'
<1> USE BusAssumption DEF StopFlag, Watched, IInv, MemoryAccounted, balloon, list, pnp
<1>1. Types'
  BY DEF Types, Places, NoScan, NoThread, Callers
<1>2. TypeOK'
  BY <1>1 DEF TypeOK, DeviceEvents, Types, Places
<1>3. (current + Unit * (thread.head + lost) = Initial /\ current >= 0)'
  OBVIOUS
<1>4. WholeUnits'
  BY DEF Types, WholeUnits, NoThread
<1>5. Children'
  BY DEF Types, TypeOK, Children, Seen, ListedAll, Scanning, NoScan, Callers
<1> QED BY <1>1, <1>2, <1>3, <1>4, <1>5

LEMMA StopEventKeeps == ASSUME IInv, StopEvent PROVE IInv'
<1> USE BusAssumption DEF StopEvent, Watched, IInv, MemoryAccounted, balloon, list, pnp
<1>1. Types'
  BY DEF Types, Places, NoScan, NoThread, Callers
<1>2. TypeOK'
  BY <1>1 DEF TypeOK, DeviceEvents, Types, Places
<1>3. (current + Unit * (thread.head + lost) = Initial /\ current >= 0)'
  OBVIOUS
<1>4. WholeUnits'
  BY DEF Types, WholeUnits, NoThread
<1>5. Children'
  BY DEF Types, TypeOK, Children, Seen, ListedAll, Scanning, NoScan, Callers
<1> QED BY <1>1, <1>2, <1>3, <1>4, <1>5

LEMMA AttachKeeps == ASSUME IInv, NEW d \in Devices, Attach(d) PROVE IInv'
<1> USE BusAssumption DEF Attach, Watched, IInv, MemoryAccounted, balloon, list, pnp
<1>1. Types'
  BY DEF Types, Places, NoScan, NoThread, Callers
<1>2. TypeOK'
  BY <1>1 DEF TypeOK, DeviceEvents, Types, Places
<1>3. (current + Unit * (thread.head + lost) = Initial /\ current >= 0)'
  OBVIOUS
<1>4. WholeUnits'
  BY DEF Types, WholeUnits, NoThread
<1>5. Children'
  BY DEF Types, TypeOK, Children, Seen, ListedAll, Scanning, NoScan, Callers
<1> QED BY <1>1, <1>2, <1>3, <1>4, <1>5

LEMMA DetachKeeps == ASSUME IInv, NEW d \in Devices, Detach(d) PROVE IInv'
<1> USE BusAssumption DEF Detach, Watched, IInv, MemoryAccounted, balloon, list, pnp
<1>1. Types'
  BY DEF Types, Places, NoScan, NoThread, Callers
<1>2. TypeOK'
  BY <1>1 DEF TypeOK, DeviceEvents, Types, Places
<1>3. (current + Unit * (thread.head + lost) = Initial /\ current >= 0)'
  OBVIOUS
<1>4. WholeUnits'
  BY DEF Types, WholeUnits, NoThread
<1>5. Children'
  BY DEF Types, TypeOK, Children, Seen, ListedAll, Scanning, NoScan, Callers
<1> QED BY <1>1, <1>2, <1>3, <1>4, <1>5

LEMMA HandleDeviceKeeps == ASSUME IInv, NEW d \in Devices, HandleDevice(d) PROVE IInv'
<1> USE BusAssumption DEF HandleDevice, Watched, IInv, MemoryAccounted, balloon, list, pnp
<1>1. Types'
  BY DEF Types, Places, NoScan, NoThread, Callers
<1>2. TypeOK'
  BY <1>1 DEF TypeOK, DeviceEvents, Types, Places
<1>3. (current + Unit * (thread.head + lost) = Initial /\ current >= 0)'
  OBVIOUS
<1>4. WholeUnits'
  BY DEF Types, WholeUnits, NoThread
<1>5. Children'
  BY DEF Types, TypeOK, Children, Seen, ListedAll, Scanning, NoScan, Callers
<1> QED BY <1>1, <1>2, <1>3, <1>4, <1>5

LEMMA ScanBeginKeeps == ASSUME IInv, NEW c \in Callers, ScanBegin(c) PROVE IInv'
<1> USE BusAssumption DEF ScanBegin, Watched, IInv, MemoryAccounted, balloon, list, pnp
<1>1. Types'
  BY DEF Types, Places, NoScan, NoThread, Callers
<1>2. TypeOK'
  BY <1>1 DEF TypeOK, DeviceEvents, Types, Places
<1>3. (current + Unit * (thread.head + lost) = Initial /\ current >= 0)'
  OBVIOUS
<1>4. WholeUnits'
  BY DEF Types, WholeUnits, NoThread
<1>5. Children'
  BY DEF Types, TypeOK, Children, Seen, ListedAll, Scanning, NoScan, Callers
<1> QED BY <1>1, <1>2, <1>3, <1>4, <1>5

LEMMA ScanListKeeps == ASSUME IInv, NEW c \in Callers, ScanList(c) PROVE IInv'
<1> USE BusAssumption DEF ScanList, Watched, IInv, MemoryAccounted, balloon, list, pnp
<1>1. Types'
  <2>1. PICK S \in SUBSET Devices : scans' = [scans EXCEPT ![c] = [pc |-> "end", found |-> S]]
    BY DEF TypeOK
  <2>2. scans' \in [Callers -> [pc : {"idle", "begin", "list", "end"}, found : SUBSET Devices]]
    BY <2>1 DEF Types
  <2>3. fails' \in Nat
    BY DEF Types
  <2> QED BY <2>2, <2>3 DEF Types
<1>2. TypeOK'
  BY <1>1 DEF TypeOK, DeviceEvents, Types, Places
<1>3. (current + Unit * (thread.head + lost) = Initial /\ current >= 0)'
  OBVIOUS
<1>4. WholeUnits'
  BY DEF Types, WholeUnits, NoThread
<1>5. Children'
  BY DEF Types, TypeOK, Children, Seen, ListedAll, Scanning, NoScan, Callers
<1> QED BY <1>1, <1>2, <1>3, <1>4, <1>5

LEMMA ScanEndKeeps == ASSUME IInv, NEW c \in Callers, ScanEnd(c) PROVE IInv'
<1> USE BusAssumption DEF ScanEnd, Watched, IInv, MemoryAccounted, balloon, list, pnp
<1>1. Types'
  BY DEF Types, Places, NoScan, NoThread, Callers
<1>2. TypeOK'
  BY <1>1 DEF TypeOK, DeviceEvents, Types, Places
<1>3. (current + Unit * (thread.head + lost) = Initial /\ current >= 0)'
  OBVIOUS
<1>4. WholeUnits'
  BY DEF Types, WholeUnits, NoThread
<1>5. Children'
  BY DEF Types, TypeOK, Children, Seen, ListedAll, Scanning, NoScan, Callers
<1> QED BY <1>1, <1>2, <1>3, <1>4, <1>5

LEMMA StartedKeeps == ASSUME IInv, Started PROVE IInv'
<1> USE BusAssumption DEF Started, Watched, IInv, MemoryAccounted, balloon, list, pnp
<1>1. Types'
  BY DEF Types, Places, NoScan, NoThread, Callers
<1>2. TypeOK'
  BY <1>1 DEF TypeOK, DeviceEvents, Types, Places
<1>3. (current + Unit * (thread.head + lost) = Initial /\ current >= 0)'
  OBVIOUS
<1>4. WholeUnits'
  BY DEF Types, WholeUnits, NoThread
<1>5. Children'
  BY DEF Types, TypeOK, Children, Seen, ListedAll, Scanning, NoScan, Callers
<1> QED BY <1>1, <1>2, <1>3, <1>4, <1>5

LEMMA StopDoneKeeps == ASSUME IInv, StopDone PROVE IInv'
<1> USE BusAssumption DEF StopDone, Watched, IInv, MemoryAccounted, balloon, list, pnp
<1>1. Types'
  BY DEF Types, Places, NoScan, NoThread, Callers
<1>2. TypeOK'
  BY <1>1 DEF TypeOK, DeviceEvents, Types, Places
<1>3. (current + Unit * (thread.head + lost) = Initial /\ current >= 0)'
  OBVIOUS
<1>4. WholeUnits'
  BY DEF Types, WholeUnits, NoThread
<1>5. Children'
  BY DEF Types, TypeOK, Children, Seen, ListedAll, Scanning, NoScan, Callers
<1> QED BY <1>1, <1>2, <1>3, <1>4, <1>5

LEMMA HandleBalloonKeeps == ASSUME IInv, HandleBalloon PROVE IInv'
<1> USE BusAssumption DEF HandleBalloon, Watched, IInv, MemoryAccounted, balloon, list, pnp
<1>1. Types'
  BY DEF Types, Places, NoScan, NoThread, Callers
<1>2. TypeOK'
  BY <1>1 DEF TypeOK, DeviceEvents, Types, Places
<1>3. (current + Unit * (thread.head + lost) = Initial /\ current >= 0)'
  OBVIOUS
<1>4. WholeUnits'
  BY DEF Types, WholeUnits, NoThread
<1>5. Children'
  BY DEF Types, TypeOK, Children, Seen, ListedAll, Scanning, NoScan, Callers
<1> QED BY <1>1, <1>2, <1>3, <1>4, <1>5

LEMMA StartKeeps == ASSUME IInv, Start PROVE IInv'
<1> USE BusAssumption DEF Start, Watched, IInv, MemoryAccounted, balloon, list, pnp
<1>1. Types'
  BY DEF Types, Places, NoScan, NoThread, Callers
<1>2. TypeOK'
  BY <1>1 DEF TypeOK, DeviceEvents, Types, Places
<1>3. (current + Unit * (thread.head + lost) = Initial /\ current >= 0)'
  OBVIOUS
<1>4. WholeUnits'
  BY DEF Types, WholeUnits, NoThread
<1>5. Children'
  BY DEF Types, TypeOK, Children, Seen, ListedAll, Scanning, NoScan, Callers
<1> QED BY <1>1, <1>2, <1>3, <1>4, <1>5

LEMMA DownKeeps == ASSUME IInv, NEW how \in {"asleep", "suspended"}, Down(how) PROVE IInv'
<1> USE BusAssumption DEF Down, Watched, IInv, MemoryAccounted, balloon, list, pnp
<1>1. Types'
  BY DEF Types, Places, NoScan, NoThread, Callers
<1>2. TypeOK'
  BY <1>1 DEF TypeOK, DeviceEvents, Types, Places
<1>3. (current + Unit * (thread.head + lost) = Initial /\ current >= 0)'
  OBVIOUS
<1>4. WholeUnits'
  BY DEF Types, WholeUnits, NoThread
<1>5. Children'
  BY DEF Types, TypeOK, Children, Seen, ListedAll, Scanning, NoScan, Callers
<1> QED BY <1>1, <1>2, <1>3, <1>4, <1>5

LEMMA UpKeeps == ASSUME IInv, Up PROVE IInv'
<1> USE BusAssumption DEF Up, Watched, IInv, MemoryAccounted, balloon, list, pnp
<1>1. Types'
  BY DEF Types, Places, NoScan, NoThread, Callers
<1>2. TypeOK'
  BY <1>1 DEF TypeOK, DeviceEvents, Types, Places
<1>3. (current + Unit * (thread.head + lost) = Initial /\ current >= 0)'
  OBVIOUS
<1>4. WholeUnits'
  BY DEF Types, WholeUnits, NoThread
<1>5. Children'
  BY DEF Types, TypeOK, Children, Seen, ListedAll, Scanning, NoScan, Callers
<1> QED BY <1>1, <1>2, <1>3, <1>4, <1>5

-----------------------------------------------------------------------------
(* Theorems *)

LEMMA InitInv == Init => IInv
<1> SUFFICES ASSUME Init PROVE IInv
  OBVIOUS
<1> USE BusAssumption DEF Init, NoThread, NoScan
<1>1. Types
  BY DEF Types, Places, Callers
<1>2. TypeOK
  BY DEF TypeOK
<1>3. current + Unit * (thread.head + lost) = Initial /\ current >= 0
  <2>1. Unit * 0 = 0
    OBVIOUS
  <2> QED BY <2>1
<1>4. WholeUnits
  BY WholeInitial DEF WholeUnits
<1>5. Children
  BY DEF Children, Seen, ListedAll, Callers
<1> QED BY <1>1, <1>2, <1>3, <1>4, <1>5 DEF IInv, MemoryAccounted

LEMMA StepInv == IInv /\ [Next]_vars => IInv'
<1> SUFFICES ASSUME IInv, [Next]_vars PROVE IInv'
  OBVIOUS
<1>1. CASE Thread
  BY <1>1, ThreadCheckKeeps, ThreadWakeKeeps, ThreadDoneKeeps, ThreadTakesKeeps, ThreadGivesKeeps,
     ThreadRefusedKeeps DEF Thread
<1>2. CASE Handler
  BY <1>2, HandleBalloonKeeps, HandlerTargetKeeps, HandlerEventKeeps, HandleDeviceKeeps DEF Handler
<1>3. ASSUME NEW c \in Callers, Scan(c) PROVE IInv'
  BY <1>3, ScanBeginKeeps, ScanListKeeps, ScanEndKeeps DEF Scan
<1>4. CASE UNCHANGED vars
  BY <1>4 DEF vars, balloon, list, pnp, IInv, Types, MemoryAccounted, TypeOK, WholeUnits, Children,
              Seen, ListedAll
<1> QED BY <1>1, <1>2, <1>3, <1>4, SetTargetKeeps, AttachKeeps, DetachKeeps, StartKeeps, PrimeKeeps,
           StartedKeeps, StopFlagKeeps, StopEventKeeps, StopDoneKeeps, DownKeeps, UpKeeps DEF Next

\* The inductive invariant: whole units that move, and scans that list every child.
THEOREM Invariance == Spec => []IInv
BY InitInv, StepInv, PTL DEF Spec

\* The memory of the machine is what Windows has, what the thread's list holds and what
\* was lost with the list of an earlier thread; what Windows has is never negative.
THEOREM MemoryIsAccounted == Spec => []MemoryAccounted
<1>1. IInv => MemoryAccounted
  BY DEF IInv
<1> QED BY <1>1, Invariance, PTL

\* A child leaves the child list only if its directory was gone, the bus is stopped or a
\* list of directories failed (XenPci_EvtChildListScanForChildren).
THEOREM ChildrenAreKept == Spec => ChildKept
<1>1. ASSUME IInv, [Next]_vars
      PROVE  [\A d \in children \ children' :
                d \in removed \/ fails > 0 \/ fdo' = "stopped"]_vars
  <2>1. children' = children \/ (\E c \in Callers : ScanEnd(c)) \/ StopDone
    BY <1>1 DEF Next, Thread, Handler, Scan, vars, list, SetTarget, Attach, Detach, ThreadCheck,
       ThreadWake, ThreadDone, ThreadTakes, ThreadGives, ThreadRefused, HandleBalloon,
       HandlerTarget, HandlerEvent, HandleDevice, ScanBegin, ScanList, Start, Prime, Started,
       StopFlag, StopEvent, Down, Up
  <2>2. ASSUME NEW c \in Callers, ScanEnd(c), NEW d \in children \ children'
        PROVE  d \in removed \/ fails > 0
    BY <1>1, <2>2 DEF ScanEnd, IInv, Children, ListedAll
  <2>3. StopDone => fdo' = "stopped"
    BY DEF StopDone
  <2> QED BY <2>1, <2>2, <2>3
<1> QED BY <1>1, Invariance, PTL DEF Spec, ChildKept
-----------------------------------------------------------------------------
(* USB: the invariant *)

\* What a hub request changes, and where the DPC and the hub's thread may be.
Changes == Bits \cup {"disable", "reset"}
HubData == [pc : {"idle", "process", "requeue", "write"}, op : Changes \cup {"none"},
            port : Ports \cup {NoPort}, tmp : SUBSET Bits, found : BOOLEAN]
DpcPlaces == {"idle", "urbs", "complete", "change", "process", "requeue"}
DpcData == [pc : DpcPlaces, complete : Seq(Urbs), portChanged : BOOLEAN,
            port : Ports \cup {NoPort}, old : SUBSET Bits, tmp : SUBSET Bits]
ConnData == [port : Ports, speed : BOOLEAN]

PortTypes ==
  /\ status \in [Ports -> SUBSET Bits] /\ change \in [Ports -> SUBSET Bits]
  /\ plugged \in [Ports -> BOOLEAN] /\ conn \in Seq(ConnData)
  /\ interrupt \in {"none", "queued", "hub", "dpc"}
  /\ hub \in HubData /\ dpc \in DpcData
  /\ raced \in BOOLEAN /\ missed \in BOOLEAN
  /\ hub.pc = "write" => hub.port \in Ports /\ hub.op # "none"
  /\ dpc.pc = "change" => dpc.port \in Ports
  /\ interrupt = "hub" <=> hub.pc = "requeue"
  /\ interrupt = "dpc" <=> dpc.pc = "requeue"

\* What the backend said last of a port is in the conn ring or in the table.
LastOf(p, n) == conn[n].port = p /\ \A k \in DOMAIN conn : k > n => conn[k].port # p
Told ==
  device_state # "DISCONNECTED" => raced \/ \A p \in Ports :
    /\ \A n \in DOMAIN conn : LastOf(p, n) => conn[n].speed = plugged[p]
    /\ (\A n \in DOMAIN conn : conn[n].port # p) => (plugged[p] <=> "CONNECTION" \in status[p])

\* Somebody will look at the ports, or has seen a change, and then takes the transfer.
HubReports ==
  \/ hub.pc = "process"
  \/ hub.pc = "write" /\ hub.op = "reset"
  \/ hub.pc = "requeue" /\ hub.found
Reports ==
  interrupt # "none" /\ ~missed =>
    /\ SomeChange => HubReports \/ (dpc.pc # "idle" /\ dpc.portChanged)
    \* A change that is read and written is still there.
    /\ hub.pc = "write" /\ hub.op \in Bits /\ hub.tmp # {} => change[hub.port] # {}
    /\ dpc.pc = "change" /\ dpc.tmp = {} /\ change[dpc.port] # {} => HubReports

PortsIInv == PortTypes /\ Told /\ Reports

Sent  == {Urb(r) : r \in Urbs}
InUse == Ids \ ids

UrbTypes ==
  /\ device_state \in {"ACTIVE", "DISCONNECTING", "DISCONNECTED"}
  /\ queue \in Seq(Partials) /\ ring \in Seq(Partials)
  /\ ids \subseteq Ids
  /\ partials \in [Ids -> Partials \union {NoPartial}]
  /\ other \subseteq Urbs /\ freed \subseteq Partials
  /\ pvurb \in [Urbs -> [state : {"new", "sent", "done"}, ref : Int, granted : BOOLEAN]]
  /\ cancelling \in Urbs \union {NoUrb} /\ cancels \subseteq Urbs
  /\ requests \in Seq(Ids) /\ responses \in Seq(Ids) /\ working \subseteq Ids
  /\ event \in BOOLEAN /\ corrupt \in BOOLEAN

\* Every request sent is in the queue or on the ring, or collected to be completed.
Listed ==
  /\ queue \in Seq(Sent) /\ ring \in Seq(Sent)
  /\ IsInjective(queue) /\ IsInjective(ring) /\ ToSet(queue) \cap ToSet(ring) = {}
  /\ \A r \in Urbs : Urb(r) \in ToSet(queue) \cup ToSet(ring)
                       => pvurb[r].state = "sent" /\ pvurb[r].ref = 1

Collected ==
  /\ IsInjective(dpc.complete)
  /\ \A r \in ToSet(dpc.complete) :
       pvurb[r].state = "sent" /\ pvurb[r].ref = 0 /\ ~pvurb[r].granted
  /\ \A r \in Urbs : pvurb[r].state = "done" => ~pvurb[r].granted

\* The ids in use and the requests on the ring belong together.
Owned ==
  /\ \A i \in InUse : partials[i] \in ToSet(ring)
  /\ \A i, j \in InUse : partials[i] = partials[j] => i = j
  /\ \A p \in ToSet(ring) : \E i \in InUse : partials[i] = p

\* An id is on its way to the backend, or there, or on its way back.
Travels ==
  /\ IsInjective(requests) /\ IsInjective(responses)
  /\ ToSet(requests) \cup working \cup ToSet(responses) \subseteq InUse
  /\ working \cap (ToSet(requests) \cup ToSet(responses)) = {}
  /\ ToSet(requests) \cap ToSet(responses) = {}

Uncancelled ==
  /\ cancelling = NoUrb /\ other = {} /\ freed = {}
  /\ Listed /\ Collected /\ Owned /\ Travels
  /\ queue # <<>> => ids = {} \/ dpc.pc = "urbs"

UrbsIInv == UrbTypes /\ MemoryOurs /\ (cancels = {} => Uncancelled)

UsbIInv == PortsIInv /\ UrbsIInv

-----------------------------------------------------------------------------
(* The ports *)

\* Steps of the DPC and of others that have nothing to do with ports.
LEMMA PortsStay ==
  ASSUME PortsIInv, UNCHANGED ports, dpc' \in DpcData,
         dpc'.portChanged = dpc.portChanged, dpc'.tmp = dpc.tmp, dpc'.port = dpc.port,
         \/ dpc'.pc = dpc.pc
         \/ dpc.pc \in {"idle", "urbs", "complete"} /\ dpc'.pc \in {"urbs", "complete"},
         device_state' = device_state \/ device_state' = "DISCONNECTED" \/ device_state # "DISCONNECTED"
  PROVE  PortsIInv'
<1>1. PortTypes'
  BY DEF PortsIInv, PortTypes, ports
<1>2. Told'
  BY DEF PortsIInv, Told, LastOf, ports
<1>3. Reports'
  BY DEF PortsIInv, Reports, HubReports, SomeChange, ports
<1> QED BY <1>1, <1>2, <1>3 DEF PortsIInv

LEMMA PortsSame ==
  ASSUME PortsIInv, UNCHANGED <<ports, dpc>>,
         device_state' = device_state \/ device_state' = "DISCONNECTED" \/ device_state # "DISCONNECTED"
  PROVE  PortsIInv'
BY PortsStay DEF PortsIInv, PortTypes

LEMMA FreeRingsPorts == ASSUME PortsIInv, FreeRings PROVE PortsIInv'
<1>1. PortTypes'
  BY DEF FreeRings, PortsIInv, PortTypes
<1>2. Told'
  BY DEF FreeRings, Told
<1>3. Reports'
  BY DEF FreeRings, PortsIInv, Reports, HubReports, SomeChange
<1> QED BY <1>1, <1>2, <1>3 DEF PortsIInv

\* Every port has a place in an order of all of them.
LEMMA AllPorts ==
  ASSUME NEW f \in [1 .. Cardinality(Ports) -> Ports], \A i, j \in DOMAIN f : f[i] = f[j] => i = j
  PROVE  \A p \in Ports : \E i \in 1 .. Cardinality(Ports) : f[i] = p
<1>1. IsFiniteSet(Ports) /\ Cardinality(Ports) \in Nat
  BY UsbAssumption, FS_CardinalityType
<1>2. Cardinality(1 .. Cardinality(Ports)) = Cardinality(Ports)
  <2>1. 1 \in Int /\ Cardinality(Ports) \in Int
        /\ (IF 1 > Cardinality(Ports) THEN 0 ELSE Cardinality(Ports) - 1 + 1) = Cardinality(Ports)
    BY <1>1
  <2> QED BY <2>1, FS_Interval
<1>3. f \in Injection(1 .. Cardinality(Ports), Ports)
  BY DEF Injection, IsInjective
<1>4. f \in Surjection(1 .. Cardinality(Ports), Ports)
  BY <1>1, <1>2, <1>3, FS_Injection
<1> QED BY <1>4 DEF Surjection

LEMMA ConnectPorts == ASSUME PortsIInv, Connect PROVE PortsIInv'
<1>1. PICK order \in [1 .. Cardinality(Ports) -> Ports] :
        /\ \A i, j \in DOMAIN order : order[i] = order[j] => i = j
        /\ conn' = [i \in DOMAIN order |-> [port |-> order[i], speed |-> plugged[order[i]]]]
  BY DEF Connect
<1>2. Cardinality(Ports) \in Nat
  BY UsbAssumption, FS_CardinalityType
<1>3. /\ conn' \in [1 .. Cardinality(Ports) -> ConnData]
      /\ \A i \in 1 .. Cardinality(Ports) : conn'[i].port = order[i] /\ conn'[i].speed = plugged[order[i]]
  BY <1>1 DEF PortsIInv, PortTypes, ConnData
<1>4. conn' \in Seq(ConnData) /\ DOMAIN conn' = 1 .. Cardinality(Ports)
  BY <1>2, <1>3
<1>5. PortTypes'
  BY <1>4 DEF Connect, PortsIInv, PortTypes
<1>6. Told'
  <2>1. \A p \in Ports : \E i \in 1 .. Cardinality(Ports) : order[i] = p
    BY <1>1, AllPorts
  <2> QED BY <1>3, <1>4, <2>1 DEF Connect, Told, LastOf
<1>7. Reports'
  BY DEF Connect, PortsIInv, Reports, HubReports, SomeChange
<1> QED BY <1>5, <1>6, <1>7 DEF PortsIInv

LEMMA PlugPorts == ASSUME PortsIInv, NEW p \in Ports, Plug(p) PROVE PortsIInv'
<1>1. conn \in Seq(ConnData) /\ plugged \in [Ports -> BOOLEAN]
  BY DEF PortsIInv, PortTypes
<1>2. /\ conn' \in Seq(ConnData) /\ Len(conn') = Len(conn) + 1 /\ Len(conn) \in Nat
      /\ conn'[Len(conn) + 1] = [port |-> p, speed |-> ~plugged[p]]
      /\ \A i \in 1 .. Len(conn) : conn'[i] = conn[i]
  BY <1>1 DEF Plug, ConnData
<1>3. plugged' \in [Ports -> BOOLEAN] /\ plugged'[p] = ~plugged[p] /\ \A q \in Ports \ {p} : plugged'[q] = plugged[q]
  BY <1>1 DEF Plug
<1>4. PortTypes'
  BY <1>2, <1>3 DEF Plug, PortsIInv, PortTypes
<1>5. Told'
  <2> SUFFICES ASSUME ~raced', NEW q \in Ports
               PROVE  /\ \A n \in DOMAIN conn' : LastOf(q, n)' => conn'[n].speed = plugged'[q]
                      /\ (\A n \in DOMAIN conn' : conn'[n].port # q)
                            => (plugged'[q] <=> "CONNECTION" \in status'[q])
    BY DEF Told
  <2>0. DOMAIN conn' = 1 .. Len(conn) + 1 /\ DOMAIN conn = 1 .. Len(conn) /\ Len(conn) + 1 \in DOMAIN conn'
    BY <1>1, <1>2
  <2>1. CASE q = p
    BY <1>1, <1>2, <1>3, <2>0, <2>1 DEF LastOf
  <2>2. CASE q # p
    <3>1. /\ \A n \in DOMAIN conn : LastOf(q, n) => conn[n].speed = plugged[q]
          /\ (\A n \in DOMAIN conn : conn[n].port # q) => (plugged[q] <=> "CONNECTION" \in status[q])
      BY DEF PortsIInv, Told, Plug
    <3>2. \A n \in DOMAIN conn' : LastOf(q, n)' => n \in DOMAIN conn /\ LastOf(q, n)
      BY <1>1, <1>2, <2>0, <2>2 DEF LastOf
    <3>3. (\A n \in DOMAIN conn' : conn'[n].port # q) => \A n \in DOMAIN conn : conn[n].port # q
      BY <1>2, <2>0
    <3> QED BY <1>2, <1>3, <2>0, <2>2, <3>1, <3>2, <3>3 DEF Plug
  <2> QED BY <2>1, <2>2
<1>6. Reports'
  BY DEF Plug, PortsIInv, Reports, HubReports, SomeChange
<1> QED BY <1>4, <1>5, <1>6 DEF PortsIInv

LEMMA DpcConnPorts == ASSUME PortsIInv, DpcConn PROVE PortsIInv'
<1> DEFINE p == Head(conn).port
<1>1. /\ conn \in Seq(ConnData) /\ conn # <<>> /\ p \in Ports /\ Head(conn) = conn[1] /\ Head(conn).speed \in BOOLEAN
      /\ status \in [Ports -> SUBSET Bits] /\ dpc \in DpcData /\ change \in [Ports -> SUBSET Bits]
  <2>1. /\ conn \in Seq(ConnData) /\ conn # <<>>
        /\ status \in [Ports -> SUBSET Bits] /\ dpc \in DpcData /\ change \in [Ports -> SUBSET Bits]
    BY DEF DpcConn, PortsIInv, PortTypes
  <2>2. Head(conn) \in ConnData /\ Head(conn) = conn[1]
    BY <2>1
  <2> QED BY <2>1, <2>2 DEF ConnData
<1>2. /\ conn' \in Seq(ConnData) /\ Len(conn') = Len(conn) - 1 /\ Len(conn) \in Nat /\ Len(conn) >= 1
      /\ \A i \in 1 .. Len(conn) - 1 : conn'[i] = conn[i + 1]
  BY <1>1 DEF DpcConn
<1>3. /\ status' \in [Ports -> SUBSET Bits] /\ \A q \in Ports \ {p} : status'[q] = status[q]
      /\ "CONNECTION" \in status'[p] <=> Head(conn).speed
  BY <1>1 DEF DpcConn, NewStatus, Bits
<1>4. /\ dpc' \in DpcData /\ dpc'.pc = "change" /\ dpc'.port = p /\ dpc'.tmp = change[p] /\ dpc'.portChanged = dpc.portChanged
      /\ dpc.pc = "complete"
  BY <1>1 DEF DpcConn, DpcData, DpcPlaces
<1>5. PortTypes'
  BY <1>1, <1>2, <1>3, <1>4 DEF DpcConn, PortsIInv, PortTypes
<1>6. Told'
  <2> SUFFICES ASSUME ~raced', device_state' # "DISCONNECTED", NEW q \in Ports
               PROVE  /\ \A n \in DOMAIN conn' : LastOf(q, n)' => conn'[n].speed = plugged'[q]
                      /\ (\A n \in DOMAIN conn' : conn'[n].port # q)
                            => (plugged'[q] <=> "CONNECTION" \in status'[q])
    BY DEF Told
  <2>0. DOMAIN conn' = 1 .. Len(conn) - 1 /\ DOMAIN conn = 1 .. Len(conn)
    BY <1>1, <1>2
  <2>1. /\ \A n \in DOMAIN conn : LastOf(q, n) => conn[n].speed = plugged[q]
        /\ (\A n \in DOMAIN conn : conn[n].port # q) => (plugged[q] <=> "CONNECTION" \in status[q])
    BY DEF PortsIInv, Told, DpcConn, usb
  <2>2. ASSUME NEW n \in DOMAIN conn', LastOf(q, n)' PROVE conn'[n].speed = plugged'[q]
    <3>1. n + 1 \in DOMAIN conn /\ conn'[n] = conn[n + 1]
      BY <1>2, <2>0
    <3>2. ASSUME NEW k \in DOMAIN conn, k > n + 1 PROVE conn[k].port # q
      <4>1. k - 1 \in DOMAIN conn' /\ k - 1 > n /\ conn'[k - 1] = conn[k]
        BY <1>2, <2>0, <3>2
      <4> QED BY <2>2, <4>1 DEF LastOf
    <3>3. LastOf(q, n + 1)
      BY <2>2, <3>1, <3>2 DEF LastOf
    <3> QED BY <2>1, <3>1, <3>3 DEF DpcConn
  <2>3. ASSUME \A n \in DOMAIN conn' : conn'[n].port # q
        PROVE  plugged'[q] <=> "CONNECTION" \in status'[q]
    <3>1. ASSUME NEW k \in DOMAIN conn, k > 1 PROVE conn[k].port # q
      <4>1. k - 1 \in DOMAIN conn' /\ conn'[k - 1] = conn[k]
        BY <1>2, <2>0, <3>1
      <4> QED BY <2>3, <4>1
    <3>2. CASE q = p
      <4>1. 1 \in DOMAIN conn /\ LastOf(q, 1)
        BY <1>1, <1>2, <2>0, <3>1, <3>2 DEF LastOf
      <4> QED BY <1>1, <1>3, <2>1, <3>2, <4>1 DEF DpcConn
    <3>3. CASE q # p
      <4>1. \A n \in DOMAIN conn : conn[n].port # q
        BY <1>1, <1>2, <2>0, <3>1, <3>3
      <4> QED BY <1>3, <2>1, <3>3, <4>1 DEF DpcConn
    <3> QED BY <3>2, <3>3
  <2> QED BY <2>2, <2>3
<1>7. Reports'
  BY <1>4 DEF DpcConn, PortsIInv, Reports, HubReports, SomeChange
<1> QED BY <1>5, <1>6, <1>7 DEF PortsIInv

LEMMA DpcChangePorts == ASSUME PortsIInv, DpcChange PROVE PortsIInv'
<1> DEFINE p == dpc.port
           new == dpc.tmp \cup Differs(p, dpc.old)
<1>1. /\ dpc \in DpcData /\ dpc.pc = "change" /\ p \in Ports /\ change \in [Ports -> SUBSET Bits]
      /\ status \in [Ports -> SUBSET Bits]
  BY DEF DpcChange, PortsIInv, PortTypes
<1>2. new \subseteq Bits
  BY <1>1 DEF DpcData, Differs, Bits
<1>3. change' = [change EXCEPT ![p] = new]
  BY DEF DpcChange
<1>4. /\ dpc' \in DpcData /\ dpc'.pc = "complete"
      /\ dpc'.portChanged = (dpc.portChanged \/ new # {})
  BY <1>1 DEF DpcChange, DpcData, DpcPlaces
<1>5. change' \in [Ports -> SUBSET Bits] /\ change'[p] = new /\ \A q \in Ports \ {p} : change'[q] = change[q]
  BY <1>1, <1>2, <1>3
<1>6. dpc.tmp # {} => new # {}
  OBVIOUS
<1> HIDE DEF new
<1>7. PortTypes'
  BY <1>1, <1>4, <1>5 DEF DpcChange, PortsIInv, PortTypes
<1>8. Told'
  BY DEF DpcChange, PortsIInv, PortTypes, Told, LastOf, usb
<1>9. Reports'
  <2>1. dpc.portChanged \in BOOLEAN
    BY <1>1 DEF DpcData
  <2>2. SomeChange' => new # {} \/ SomeChange
    BY <1>1, <1>5 DEF SomeChange
  <2>3. HubReports' <=> HubReports
    BY DEF DpcChange, HubReports
  <2>4. hub.pc = "write" => hub.port \in Ports
    BY DEF PortsIInv, PortTypes
  <2>5. hub.pc = "write" /\ hub.op \in Bits => ~HubReports
    BY DEF HubReports, Bits
  <2>6. interrupt # "none" /\ ~missed /\ hub.pc = "write" /\ hub.op \in Bits /\ hub.tmp # {}
          => change'[hub.port] # {}
    BY <1>1, <1>5, <1>6, <2>4, <2>5 DEF PortsIInv, Reports
  <2> QED BY <1>1, <1>4, <1>5, <1>6, <2>1, <2>2, <2>3, <2>4, <2>5, <2>6 DEF DpcChange, PortsIInv, Reports
<1> QED BY <1>7, <1>8, <1>9 DEF PortsIInv

LEMMA DpcConnEndPorts == ASSUME PortsIInv, DpcConnEnd PROVE PortsIInv'
<1>1. dpc \in DpcData /\ dpc.pc = "complete"
  BY DEF DpcConnEnd, PortsIInv, PortTypes
<1>2. dpc' \in DpcData
  BY <1>1 DEF DpcConnEnd, DpcData, DpcPlaces, DpcIdle, Bits
<1>3. /\ dpc.portChanged => dpc'.pc = "process" /\ dpc'.portChanged
      /\ ~dpc.portChanged => dpc'.pc = "idle"
  BY <1>1 DEF DpcConnEnd, DpcData, DpcIdle
<1>4. dpc.portChanged \in BOOLEAN
  BY <1>1 DEF DpcData
<1>5. PortTypes'
  BY <1>1, <1>2, <1>3, <1>4 DEF DpcConnEnd, PortsIInv, PortTypes, ports
<1>6. Told'
  BY DEF DpcConnEnd, PortsIInv, Told, LastOf, usb, ports
<1>7. Reports'
  BY <1>1, <1>3, <1>4 DEF DpcConnEnd, PortsIInv, Reports, HubReports, SomeChange, ports
<1> QED BY <1>5, <1>6, <1>7 DEF PortsIInv

LEMMA DpcRetrievePorts == ASSUME PortsIInv, DpcRetrieve PROVE PortsIInv'
<1>1. dpc \in DpcData /\ dpc.pc = "process" /\ hub \in HubData /\ missed \in BOOLEAN
  BY DEF DpcRetrieve, PortsIInv, PortTypes
<1>2. SomeChange \in BOOLEAN
  BY DEF SomeChange
<1>3. dpc' \in DpcData
  <2>1. CASE interrupt = "queued"
    <3>1. dpc' = [dpc EXCEPT !.pc = "requeue", !.portChanged = SomeChange]
      BY <2>1 DEF DpcRetrieve
    <3> QED BY <1>1, <1>2, <3>1 DEF DpcData, DpcPlaces
  <2>2. CASE interrupt # "queued"
    BY <1>1, <2>2 DEF DpcRetrieve, DpcData, DpcPlaces, DpcIdle, Bits
  <2> QED BY <2>1, <2>2
<1>4. /\ interrupt = "queued" => interrupt' = "dpc" /\ dpc'.pc = "requeue" /\ dpc'.portChanged = SomeChange /\ missed' = missed
      /\ interrupt # "queued" => interrupt' = interrupt /\ dpc'.pc = "idle" /\ missed' = (missed \/ interrupt \in {"hub", "dpc"})
  BY <1>1, <1>2 DEF DpcRetrieve, Retrieve, DpcData, DpcIdle
<1>5. PortTypes'
  BY <1>1, <1>3, <1>4 DEF DpcRetrieve, PortsIInv, PortTypes
<1>6. Told'
  BY DEF DpcRetrieve, PortsIInv, Told, LastOf, usb
<1>7. Reports'
  <2>1. (SomeChange' <=> SomeChange) /\ (HubReports' <=> HubReports)
    BY DEF DpcRetrieve, SomeChange, HubReports
  <2>2. interrupt \in {"none", "queued", "hub", "dpc"}
    BY DEF PortsIInv, PortTypes
  <2> QED BY <1>1, <1>2, <1>4, <2>1, <2>2 DEF DpcRetrieve, PortsIInv, Reports
<1> QED BY <1>5, <1>6, <1>7 DEF PortsIInv

LEMMA DpcRequeuePorts == ASSUME PortsIInv, DpcRequeue PROVE PortsIInv'
<1>1. dpc \in DpcData /\ dpc.pc = "requeue" /\ interrupt = "dpc" /\ hub.pc # "requeue" /\ dpc.portChanged \in BOOLEAN
  BY DEF DpcRequeue, PortsIInv, PortTypes, DpcData
<1>2. dpc' \in DpcData /\ dpc'.pc = "idle" /\ interrupt' = (IF dpc.portChanged THEN "none" ELSE "queued")
  BY <1>1 DEF DpcRequeue, DpcData, DpcPlaces, DpcIdle, Completed, Bits
<1>3. PortTypes'
  BY <1>1, <1>2 DEF DpcRequeue, PortsIInv, PortTypes
<1>4. Told'
  BY DEF DpcRequeue, PortsIInv, Told, LastOf, usb
<1>5. Reports'
  BY <1>1, <1>2 DEF DpcRequeue, PortsIInv, Reports, HubReports, SomeChange
<1> QED BY <1>3, <1>4, <1>5 DEF PortsIInv

LEMMA HubInterruptPorts == ASSUME PortsIInv, HubInterrupt PROVE PortsIInv'
<1>1. hub \in HubData /\ hub.pc = "idle" /\ hub' \in HubData /\ hub'.pc = "process" /\ interrupt = "none" /\ interrupt' = "queued"
  BY DEF HubInterrupt, PortsIInv, PortTypes, HubData
<1>2. PortTypes'
  BY <1>1 DEF HubInterrupt, PortsIInv, PortTypes
<1>3. Told'
  BY DEF HubInterrupt, PortsIInv, Told, LastOf, usb
<1>4. Reports'
  BY <1>1 DEF HubInterrupt, PortsIInv, Reports, HubReports
<1> QED BY <1>2, <1>3, <1>4 DEF PortsIInv

LEMMA HubRetrievePorts == ASSUME PortsIInv, HubRetrieve PROVE PortsIInv'
<1>1. hub \in HubData /\ hub.pc = "process" /\ dpc \in DpcData /\ missed \in BOOLEAN
  BY DEF HubRetrieve, PortsIInv, PortTypes
<1>2. SomeChange \in BOOLEAN
  BY DEF SomeChange
<1>3. hub' \in HubData
  BY <1>1, <1>2 DEF HubRetrieve, HubData, HubIdle, Changes, Bits
<1>4. /\ interrupt = "queued" => interrupt' = "hub" /\ hub'.pc = "requeue" /\ hub'.found = SomeChange /\ missed' = missed
      /\ interrupt # "queued" => interrupt' = interrupt /\ hub'.pc = "idle" /\ missed' = (missed \/ interrupt \in {"hub", "dpc"})
  BY <1>1, <1>2 DEF HubRetrieve, Retrieve, HubData, HubIdle
<1>5. PortTypes'
  BY <1>1, <1>3, <1>4 DEF HubRetrieve, PortsIInv, PortTypes
<1>6. Told'
  BY DEF HubRetrieve, PortsIInv, Told, LastOf, usb
<1>7. Reports'
  <2>1. SomeChange' <=> SomeChange
    BY DEF HubRetrieve, SomeChange
  <2>2. interrupt \in {"none", "queued", "hub", "dpc"} /\ (dpc.pc = "change" => dpc.port \in Ports)
    BY DEF PortsIInv, PortTypes
  <2>3. dpc.pc = "change" /\ change[dpc.port] # {} => SomeChange
    BY <2>2 DEF SomeChange
  <2> QED BY <1>1, <1>2, <1>4, <2>1, <2>2, <2>3 DEF HubRetrieve, PortsIInv, Reports, HubReports
<1> QED BY <1>5, <1>6, <1>7 DEF PortsIInv

LEMMA HubRequeuePorts == ASSUME PortsIInv, HubRequeue PROVE PortsIInv'
<1>1. hub \in HubData /\ hub.pc = "requeue" /\ interrupt = "hub" /\ dpc.pc # "requeue" /\ hub.found \in BOOLEAN
  BY DEF HubRequeue, PortsIInv, PortTypes, HubData
<1>2. hub' \in HubData /\ hub'.pc = "idle" /\ interrupt' = (IF hub.found THEN "none" ELSE "queued")
  BY <1>1 DEF HubRequeue, HubData, HubIdle, Completed, Changes, Bits
<1>3. PortTypes'
  BY <1>1, <1>2 DEF HubRequeue, PortsIInv, PortTypes
<1>4. Told'
  BY DEF HubRequeue, PortsIInv, Told, LastOf, usb
<1>5. Reports'
  BY <1>1, <1>2 DEF HubRequeue, PortsIInv, Reports, HubReports, SomeChange
<1> QED BY <1>3, <1>4, <1>5 DEF PortsIInv

LEMMA HubFeaturePorts ==
  ASSUME PortsIInv, NEW p \in Ports, NEW op \in Changes, HubFeature(p, op) PROVE PortsIInv'
<1>1. /\ hub \in HubData /\ hub.pc = "idle" /\ interrupt # "hub" /\ change \in [Ports -> SUBSET Bits]
      /\ status \in [Ports -> SUBSET Bits]
  BY DEF HubFeature, PortsIInv, PortTypes
<1>2. /\ hub' \in HubData /\ hub'.pc = "write" /\ hub'.op = op /\ hub'.port = p
      /\ op \in Bits => hub'.tmp = change[p]
      /\ op # "none"
  BY <1>1 DEF HubFeature, HubData, Changes, Bits
<1>3. PortTypes'
  BY <1>1, <1>2 DEF HubFeature, PortsIInv, PortTypes
<1>4. Told'
  BY DEF HubFeature, PortsIInv, Told, LastOf, usb
<1>5. Reports'
  BY <1>1, <1>2 DEF HubFeature, PortsIInv, Reports, HubReports, SomeChange
<1> QED BY <1>3, <1>4, <1>5 DEF PortsIInv

LEMMA HubWritePorts == ASSUME PortsIInv, HubWrite PROVE PortsIInv'
<1> DEFINE p == hub.port
<1>1. /\ hub \in HubData /\ hub.pc = "write" /\ p \in Ports /\ interrupt # "hub"
      /\ change \in [Ports -> SUBSET Bits] /\ status \in [Ports -> SUBSET Bits] /\ raced \in BOOLEAN
      /\ hub.tmp \subseteq Bits
  BY DEF HubWrite, PortsIInv, PortTypes, HubData
<1>2. /\ hub' \in HubData
      /\ hub.op = "reset" => hub'.pc = "process"
      /\ hub.op # "reset" => hub'.pc = "idle"
  BY DEF HubWrite, HubData, HubIdle, Changes, Bits
<1>3. /\ change' \in [Ports -> SUBSET Bits] /\ \A q \in Ports \ {p} : change'[q] = change[q]
      /\ hub.op \in Bits => change'[p] = hub.tmp \ {hub.op}
      /\ hub.op = "disable" => change'[p] = change[p]
  <2>1. CASE hub.op \in Bits
    BY <1>1, <2>1 DEF HubWrite, Bits
  <2>2. CASE hub.op = "reset"
    <3>1. change' = [change EXCEPT ![p] = @ \cup {"RESET"}]
      BY <2>2 DEF HubWrite, Bits
    <3>2. change[p] \cup {"RESET"} \subseteq Bits
      BY <1>1 DEF Bits
    <3> QED BY <1>1, <2>2, <3>1, <3>2 DEF Bits
  <2>3. CASE hub.op \notin Bits /\ hub.op # "reset"
    BY <1>1, <2>3 DEF HubWrite
  <2> QED BY <2>1, <2>2, <2>3
<1>4. /\ status' \in [Ports -> SUBSET Bits] /\ raced' \in BOOLEAN /\ (raced => raced')
      /\ ~raced' => \A q \in Ports : "CONNECTION" \in status'[q] <=> "CONNECTION" \in status[q]
  <2>1. CASE hub.op \in Bits
    BY <1>1, <2>1 DEF HubWrite
  <2>2. CASE hub.op \notin Bits
    BY <1>1, <2>2 DEF HubWrite, Bits
  <2> QED BY <2>1, <2>2
<1>5. PortTypes'
  BY <1>1, <1>2, <1>3, <1>4 DEF HubWrite, PortsIInv, PortTypes
<1>6. Told'
  BY <1>4 DEF HubWrite, PortsIInv, Told, LastOf, usb
<1>7. Reports'
  <2>1. CASE hub.op = "reset"
    BY <1>2, <2>1 DEF HubWrite, Reports, HubReports
  <2>2. CASE hub.op # "reset"
    <3>1. hub.op \in Bits \/ hub.op = "disable"
      BY <1>1, <2>2 DEF PortsIInv, PortTypes, HubData, Changes
    <3>2. interrupt # "none" /\ ~missed /\ SomeChange' => SomeChange
      BY <1>1, <1>3, <3>1 DEF SomeChange, PortsIInv, Reports
    <3>3. interrupt # "none" /\ ~missed /\ change'[p] # {} => change[p] # {}
      BY <1>1, <1>3, <3>1 DEF PortsIInv, Reports
    <3>4. dpc.pc = "change" => dpc.port \in Ports
      BY DEF PortsIInv, PortTypes
    <3>5. ~HubReports
      BY <1>1, <2>2 DEF HubReports
    <3> QED BY <1>1, <1>2, <1>3, <2>2, <3>2, <3>3, <3>4, <3>5 DEF HubWrite, PortsIInv, Reports
  <2> QED BY <2>1, <2>2
<1> QED BY <1>5, <1>6, <1>7 DEF PortsIInv

LEMMA PortsSay == PortsIInv => PortsSound
<1> SUFFICES ASSUME PortsIInv PROVE ChangeReported /\ PortsTrue
  BY DEF PortsSound
<1>1. ChangeReported
  BY DEF ChangeReported, PortsIInv, PortTypes, Reports, HubReports
<1>2. PortsTrue
  BY DEF PortsTrue, PortsIInv, Told
<1> QED BY <1>1, <1>2
-----------------------------------------------------------------------------
(* Sequences without repetition *)

LEMMA Elements ==
  ASSUME NEW S, NEW s \in Seq(S)
  PROVE  ToSet(s) \subseteq S /\ (\A x : x \in ToSet(s) <=> \E i \in 1 .. Len(s) : s[i] = x)
BY DEF ToSet

LEMMA Rests ==
  ASSUME NEW S, NEW s \in Seq(S), s # <<>>, IsInjective(s)
  PROVE  /\ Head(s) \in S /\ Head(s) \in ToSet(s)
         /\ Tail(s) \in Seq(S) /\ IsInjective(Tail(s))
         /\ ToSet(Tail(s)) = ToSet(s) \ {Head(s)}
<1>1. Len(s) \in Nat /\ Len(s) >= 1 /\ Head(s) = s[1] /\ Tail(s) \in Seq(S) /\ Len(Tail(s)) = Len(s) - 1
  OBVIOUS
<1>2. \A i \in 1 .. Len(s) - 1 : Tail(s)[i] = s[i + 1]
  OBVIOUS
<1>3. \A i, j \in 1 .. Len(s) : s[i] = s[j] => i = j
  BY DEF IsInjective
<1>4. IsInjective(Tail(s))
  <2>1. \A i, j \in 1 .. Len(s) - 1 : Tail(s)[i] = Tail(s)[j] => i + 1 = j + 1
    BY <1>1, <1>2, <1>3
  <2>2. \A i, j \in 1 .. Len(s) - 1 : i + 1 = j + 1 => i = j
    BY <1>1
  <2> QED BY <1>1, <2>1, <2>2 DEF IsInjective
<1>5. \A x : x \in ToSet(Tail(s)) <=> x \in ToSet(s) \ {Head(s)}
  <2>1. ASSUME NEW x, x \in ToSet(Tail(s)) PROVE x \in ToSet(s) \ {Head(s)}
    <3>0. \A y : y \in ToSet(Tail(s)) <=> \E i \in 1 .. Len(Tail(s)) : Tail(s)[i] = y
      BY <1>1, Elements
    <3>1. PICK i \in 1 .. Len(s) - 1 : Tail(s)[i] = x
      BY <1>1, <2>1, <3>0
    <3>2. i + 1 \in 1 .. Len(s) /\ s[i + 1] = x /\ i + 1 # 1
      BY <1>1, <1>2, <3>1
    <3> QED BY <1>1, <1>3, <3>2, Elements
  <2>2. ASSUME NEW x, x \in ToSet(s) \ {Head(s)} PROVE x \in ToSet(Tail(s))
    <3>1. PICK i \in 1 .. Len(s) : s[i] = x
      BY <2>2, Elements
    <3>2. i # 1
      BY <1>1, <2>2, <3>1
    <3>3. i - 1 \in 1 .. Len(s) - 1 /\ (i - 1) + 1 = i
      BY <1>1, <3>2
    <3>4. Tail(s)[i - 1] = x
      BY <1>2, <3>1, <3>3
    <3> QED BY <1>1, <3>3, <3>4, Elements
  <2> QED BY <2>1, <2>2
<1>6. Head(s) \in ToSet(s) /\ Head(s) \in S
  BY <1>1, Elements
<1> QED BY <1>1, <1>4, <1>5, <1>6

LEMMA Joined ==
  ASSUME NEW S, NEW s \in Seq(S), NEW t \in Seq(S)
  PROVE  /\ s \o t \in Seq(S) /\ ToSet(s \o t) = ToSet(s) \cup ToSet(t)
         /\ IsInjective(s) /\ IsInjective(t) /\ ToSet(s) \cap ToSet(t) = {} => IsInjective(s \o t)
<1>1. /\ s \o t \in Seq(S) /\ Len(s) \in Nat /\ Len(t) \in Nat /\ Len(s \o t) = Len(s) + Len(t)
  OBVIOUS
<1>2. \A i \in 1 .. Len(s) : (s \o t)[i] = s[i]
  OBVIOUS
<1>3. \A i \in Len(s) + 1 .. Len(s) + Len(t) : (s \o t)[i] = t[i - Len(s)]
  OBVIOUS
<1>4. \A j \in 1 .. Len(t) : (s \o t)[Len(s) + j] = t[j]
  <2>1. ASSUME NEW j \in 1 .. Len(t) PROVE (s \o t)[Len(s) + j] = t[j]
    <3>1. Len(s) + j \in Len(s) + 1 .. Len(s) + Len(t) /\ (Len(s) + j) - Len(s) = j
      BY <1>1
    <3> QED BY <1>3, <3>1
  <2> QED BY <2>1
<1>5. \A x : x \in ToSet(s \o t) <=> x \in ToSet(s) \cup ToSet(t)
  <2>1. ASSUME NEW x, x \in ToSet(s \o t) PROVE x \in ToSet(s) \cup ToSet(t)
    <3>1. PICK i \in 1 .. Len(s) + Len(t) : (s \o t)[i] = x
      BY <1>1, <2>1, Elements
    <3>2. CASE i <= Len(s)
      BY <1>1, <1>2, <3>1, <3>2, Elements
    <3>3. CASE i > Len(s)
      <4>1. i \in Len(s) + 1 .. Len(s) + Len(t) /\ i - Len(s) \in 1 .. Len(t)
        BY <1>1, <3>3
      <4> QED BY <1>3, <3>1, <4>1, Elements
    <3> QED BY <1>1, <3>2, <3>3
  <2>2. ASSUME NEW x, x \in ToSet(s) PROVE x \in ToSet(s \o t)
    <3>1. PICK i \in 1 .. Len(s) : s[i] = x
      BY <2>2, Elements
    <3>2. i \in 1 .. Len(s \o t)
      BY <1>1
    <3> QED BY <1>1, <1>2, <3>1, <3>2, Elements
  <2>3. ASSUME NEW x, x \in ToSet(t) PROVE x \in ToSet(s \o t)
    <3>1. PICK i \in 1 .. Len(t) : t[i] = x
      BY <2>3, Elements
    <3>2. Len(s) + i \in 1 .. Len(s \o t)
      BY <1>1
    <3> QED BY <1>1, <1>4, <3>1, <3>2, Elements
  <2> QED BY <2>1, <2>2, <2>3
<1>6. ASSUME IsInjective(s), IsInjective(t), ToSet(s) \cap ToSet(t) = {} PROVE IsInjective(s \o t)
  <2>1. ASSUME NEW i \in 1 .. Len(s) + Len(t), NEW j \in 1 .. Len(s) + Len(t), (s \o t)[i] = (s \o t)[j]
        PROVE  i = j
    <3>1. \A k \in 1 .. Len(s) : s[k] \in ToSet(s)
      BY Elements
    <3>2. \A k \in 1 .. Len(t) : t[k] \in ToSet(t)
      BY Elements
    <3>3. CASE i <= Len(s) /\ j <= Len(s)
      BY <1>1, <1>2, <1>6, <2>1, <3>3 DEF IsInjective
    <3>4. CASE i > Len(s) /\ j > Len(s)
      <4>1. i - Len(s) \in 1 .. Len(t) /\ j - Len(s) \in 1 .. Len(t) /\ i \in Len(s) + 1 .. Len(s) + Len(t) /\ j \in Len(s) + 1 .. Len(s) + Len(t)
        BY <1>1, <3>4
      <4>2. t[i - Len(s)] = t[j - Len(s)]
        BY <1>3, <2>1, <4>1
      <4>3. i - Len(s) = j - Len(s)
        BY <1>1, <1>6, <4>1, <4>2 DEF IsInjective
      <4> QED BY <1>1, <4>3
    <3>5. CASE i <= Len(s) /\ j > Len(s)
      <4>1. i \in 1 .. Len(s) /\ j - Len(s) \in 1 .. Len(t) /\ j \in Len(s) + 1 .. Len(s) + Len(t)
        BY <1>1, <3>5
      <4> QED BY <1>2, <1>3, <1>6, <2>1, <3>1, <3>2, <4>1
    <3>6. CASE i > Len(s) /\ j <= Len(s)
      <4>1. j \in 1 .. Len(s) /\ i - Len(s) \in 1 .. Len(t) /\ i \in Len(s) + 1 .. Len(s) + Len(t)
        BY <1>1, <3>6
      <4> QED BY <1>2, <1>3, <1>6, <2>1, <3>1, <3>2, <4>1
    <3> QED BY <1>1, <3>3, <3>4, <3>5, <3>6
  <2>2. DOMAIN (s \o t) = 1 .. Len(s) + Len(t)
    BY <1>1
  <2> QED BY <2>1, <2>2 DEF IsInjective
<1> QED BY <1>1, <1>5, <1>6

\* An image under a function that tells its arguments apart.

LEMMA SameSize ==
  ASSUME NEW S, IsFiniteSet(S), NEW T, NEW f \in [S -> T],
         \A x, y \in S : f[x] = f[y] => x = y, \A y \in T : \E x \in S : f[x] = y
  PROVE  IsFiniteSet(T) /\ Cardinality(T) = Cardinality(S)
<1>1. f \in Injection(S, T)
  BY DEF Injection, IsInjective
<1>2. f \in Surjection(S, T)
  BY DEF Surjection
<1>3. f \in Bijection(S, T)
  BY <1>1, <1>2 DEF Bijection
<1> QED BY <1>3, FS_Bijection DEF ExistsBijection

LEMMA Distinct ==
  ASSUME NEW S, NEW s \in Seq(S), IsInjective(s)
  PROVE  IsFiniteSet(ToSet(s)) /\ Cardinality(ToSet(s)) = Len(s)
<1>1. Len(s) \in Nat /\ DOMAIN s = 1 .. Len(s)
  OBVIOUS
<1>2. IsFiniteSet(1 .. Len(s)) /\ Cardinality(1 .. Len(s)) = Len(s)
  <2>1. 1 \in Int /\ Len(s) \in Int /\ (IF 1 > Len(s) THEN 0 ELSE Len(s) - 1 + 1) = Len(s)
    BY <1>1
  <2> QED BY <2>1, FS_Interval
<1>3. s \in [1 .. Len(s) -> ToSet(s)]
  BY <1>1 DEF ToSet
<1>4. \A x, y \in 1 .. Len(s) : s[x] = s[y] => x = y
  BY <1>1 DEF IsInjective
<1>5. \A y \in ToSet(s) : \E x \in 1 .. Len(s) : s[x] = y
  BY <1>1 DEF ToSet
<1> QED BY <1>2, <1>3, <1>4, <1>5, SameSize

LEMMA Parted ==
  ASSUME NEW S, NEW s \in Seq(S), NEW t \in Seq(S), IsInjective(s \o t)
  PROVE  IsInjective(s) /\ IsInjective(t) /\ ToSet(s) \cap ToSet(t) = {}
<1>1. Len(s) \in Nat /\ Len(t) \in Nat /\ DOMAIN (s \o t) = 1 .. Len(s) + Len(t)
  OBVIOUS
<1>2. \A i \in 1 .. Len(s) : (s \o t)[i] = s[i] /\ i \in 1 .. Len(s) + Len(t)
  OBVIOUS
<1>3. \A j \in 1 .. Len(t) : (s \o t)[Len(s) + j] = t[j] /\ Len(s) + j \in 1 .. Len(s) + Len(t)
  <2>1. ASSUME NEW j \in 1 .. Len(t)
        PROVE  (s \o t)[Len(s) + j] = t[j] /\ Len(s) + j \in 1 .. Len(s) + Len(t)
    <3>1. Len(s) + j \in Len(s) + 1 .. Len(s) + Len(t) /\ (Len(s) + j) - Len(s) = j
      BY <1>1
    <3> QED BY <1>1, <3>1
  <2> QED BY <2>1
<1>4. \A i, j \in 1 .. Len(s) + Len(t) : (s \o t)[i] = (s \o t)[j] => i = j
  BY <1>1 DEF IsInjective
<1>5. IsInjective(s)
  BY <1>2, <1>4 DEF IsInjective
<1>6. IsInjective(t)
  <2>1. \A i, j \in 1 .. Len(t) : t[i] = t[j] => Len(s) + i = Len(s) + j
    BY <1>3, <1>4
  <2> QED BY <1>1, <2>1 DEF IsInjective
<1>7. ASSUME NEW i \in 1 .. Len(s), NEW j \in 1 .. Len(t), s[i] = t[j] PROVE FALSE
  <2>1. i = Len(s) + j
    BY <1>2, <1>3, <1>4, <1>7
  <2> QED BY <1>1, <2>1
<1> QED BY <1>5, <1>6, <1>7, Elements

\* The first n elements, and the others.
LEMMA CutInTwo ==
  ASSUME NEW S, NEW s \in Seq(S), NEW n \in 0 .. Len(s)
  PROVE  /\ SubSeq(s, 1, n) \in Seq(S) /\ SubSeq(s, n + 1, Len(s)) \in Seq(S)
         /\ Len(SubSeq(s, 1, n)) = n /\ Len(SubSeq(s, n + 1, Len(s))) = Len(s) - n
         /\ SubSeq(s, 1, n) \o SubSeq(s, n + 1, Len(s)) = s
<1>1. Len(s) \in Nat /\ n \in Nat
  BY LenProperties
<1>2. \A i \in 1 .. Len(s) : s[i] \in S
  BY ElementOfSeq
<1>3. SubSeq(s, 1, n) \in Seq(S) /\ Len(SubSeq(s, 1, n)) = n
  OBVIOUS
<1>4. SubSeq(s, n + 1, Len(s)) \in Seq(S) /\ Len(SubSeq(s, n + 1, Len(s))) = Len(s) - n
  OBVIOUS
<1>5. SubSeq(s, 1, n) \o SubSeq(s, n + 1, Len(s)) = SubSeq(s, 1, Len(s))
  <2>1. 1 \in 1 .. Len(s) + 1 /\ n \in 1 - 1 .. Len(s) /\ Len(s) \in n .. Len(s)
    BY <1>1
  <2> QED BY <2>1, ConcatAdjacentSubSeq
<1>6. SubSeq(s, 1, Len(s)) = s
  BY SubSeqFull
<1> QED BY <1>3, <1>4, <1>5, <1>6

LEMMA Appended ==
  ASSUME NEW S, NEW s \in Seq(S), NEW e \in S
  PROVE  /\ Append(s, e) \in Seq(S) /\ ToSet(Append(s, e)) = ToSet(s) \cup {e}
         /\ IsInjective(s) /\ e \notin ToSet(s) => IsInjective(Append(s, e))
<1>1. /\ Append(s, e) \in Seq(S) /\ Len(Append(s, e)) = Len(s) + 1 /\ Len(s) \in Nat
      /\ Append(s, e)[Len(s) + 1] = e
      /\ \A i \in 1 .. Len(s) : Append(s, e)[i] = s[i]
  OBVIOUS
<1>2. \A x : x \in ToSet(Append(s, e)) <=> x \in ToSet(s) \cup {e}
  <2>1. \A x : x \in ToSet(Append(s, e)) <=> \E i \in 1 .. Len(s) + 1 : Append(s, e)[i] = x
    <3>1. \A x : x \in ToSet(Append(s, e)) <=> \E i \in 1 .. Len(Append(s, e)) : Append(s, e)[i] = x
      BY <1>1, Elements
    <3> QED BY <1>1, <3>1
  <2>2. \A x : x \in ToSet(s) <=> \E i \in 1 .. Len(s) : s[i] = x
    BY Elements
  <2> QED BY <1>1, <2>1, <2>2
<1>3. ASSUME IsInjective(s), e \notin ToSet(s) PROVE IsInjective(Append(s, e))
  <2>1. \A i \in 1 .. Len(s) : s[i] # e
    BY <1>3, Elements
  <2>2. \A i, j \in 1 .. Len(s) : s[i] = s[j] => i = j
    BY <1>3 DEF IsInjective
  <2>3. \A i, j \in 1 .. Len(s) + 1 : Append(s, e)[i] = Append(s, e)[j] => i = j
    BY <1>1, <2>1, <2>2
  <2> QED BY <1>1, <2>3 DEF IsInjective
<1> QED BY <1>1, <1>2, <1>3

LEMMA Listing ==
  ASSUME NEW S, NEW s \in Seq(S), NEW p
  PROVE  On(p, s) <=> p \in ToSet(s)
BY DEF On, ToSet

LEMMA WithoutIs ==
  ASSUME NEW S, NEW s \in Seq(S), NEW p
  PROVE  /\ Without(p, s) \in Seq(S)
         /\ p \notin ToSet(s) => Without(p, s) = s
         /\ IsInjective(s) => /\ IsInjective(Without(p, s))
                              /\ ToSet(Without(p, s)) = ToSet(s) \ {p}
<1>1. CASE p \notin ToSet(s)
  BY <1>1, Listing DEF Without
<1>2. CASE p \in ToSet(s)
  <2> DEFINE i == CHOOSE k \in DOMAIN s : s[k] = p
             a == SubSeq(s, 1, i - 1)
             c == SubSeq(s, i + 1, Len(s))
  <2>1. i \in 1 .. Len(s) /\ s[i] = p /\ Len(s) \in Nat
    <3>1. \E k \in DOMAIN s : s[k] = p
      BY <1>2 DEF ToSet
    <3> QED BY <3>1
  <2>2. Without(p, s) = a \o c
    BY <1>2, Listing DEF Without, RemoveAt
  <2> HIDE DEF i
  <2>3. /\ a \in Seq(S) /\ Len(a) = i - 1 /\ \A k \in 1 .. i - 1 : a[k] = s[k]
        /\ c \in Seq(S) /\ Len(c) = Len(s) - i /\ \A k \in 1 .. Len(s) - i : c[k] = s[i + k]
    <3>1. i - 1 \in 0 .. Len(s) /\ i \in 0 .. Len(s)
      BY <2>1
    <3>2. a \in Seq(S) /\ Len(a) = i - 1 /\ c \in Seq(S) /\ Len(c) = Len(s) - i
      BY <3>1, CutInTwo
    <3>3. \A k \in 1 .. i - 1 : a[k] = s[k]
      BY <2>1
    <3>4. \A k \in 1 .. Len(s) - i : c[k] = s[i + k]
      BY <2>1
    <3> QED BY <3>2, <3>3, <3>4
  <2> HIDE DEF a, c
  <2>4. ASSUME IsInjective(s) PROVE IsInjective(a \o c) /\ ToSet(a \o c) = ToSet(s) \ {p}
    <3>1. \A k, l \in 1 .. Len(s) : s[k] = s[l] => k = l
      BY <2>4 DEF IsInjective
    <3>2. IsInjective(a)
      BY <2>1, <2>3, <3>1 DEF IsInjective
    <3>3. IsInjective(c)
      <4>1. \A k \in 1 .. Len(s) - i : c[k] = s[i + k] /\ i + k \in 1 .. Len(s)
        BY <2>1, <2>3
      <4>2. \A k, l \in 1 .. Len(s) - i : c[k] = c[l] => i + k = i + l
        BY <3>1, <4>1
      <4>3. \A k, l \in 1 .. Len(s) - i : i + k = i + l => k = l
        BY <2>1
      <4> QED BY <2>3, <4>2, <4>3 DEF IsInjective
    <3>4. /\ \A x : x \in ToSet(a) <=> \E k \in 1 .. Len(s) : k < i /\ s[k] = x
          /\ \A x : x \in ToSet(c) <=> \E k \in 1 .. Len(s) : k > i /\ s[k] = x
          /\ \A x : x \in ToSet(s) <=> \E k \in 1 .. Len(s) : s[k] = x
      <4>1. \A x : x \in ToSet(a) <=> \E k \in 1 .. i - 1 : a[k] = x
        BY <2>3, Elements
      <4>2. \A x : x \in ToSet(c) <=> \E k \in 1 .. Len(s) - i : c[k] = x
        BY <2>3, Elements
      <4>3. ASSUME NEW k \in 1 .. Len(s), k > i PROVE k - i \in 1 .. Len(s) - i /\ i + (k - i) = k
        BY <2>1, <4>3
      <4>4. ASSUME NEW k \in 1 .. Len(s) - i PROVE i + k \in 1 .. Len(s) /\ i + k > i
        BY <2>1, <4>4
      <4>5. \A x : x \in ToSet(a) <=> \E k \in 1 .. Len(s) : k < i /\ s[k] = x
        <5>1. \A k : k \in 1 .. i - 1 <=> k \in 1 .. Len(s) /\ k < i
          BY <2>1
        <5>2. \A k \in 1 .. i - 1 : a[k] = s[k]
          BY <2>3
        <5>3. \A x : x \in ToSet(a) => \E k \in 1 .. Len(s) : k < i /\ s[k] = x
          BY <4>1, <5>1, <5>2
        <5>4. \A x : (\E k \in 1 .. Len(s) : k < i /\ s[k] = x) => x \in ToSet(a)
          BY <4>1, <5>1, <5>2
        <5> QED BY <5>3, <5>4
      <4>6. \A x : x \in ToSet(c) => \E k \in 1 .. Len(s) : k > i /\ s[k] = x
        BY <2>3, <4>2, <4>4
      <4>7. \A x : (\E k \in 1 .. Len(s) : k > i /\ s[k] = x) => x \in ToSet(c)
        BY <2>3, <4>2, <4>3
      <4> QED BY <4>5, <4>6, <4>7, Elements
    <3>5. ToSet(a) \cap ToSet(c) = {}
      BY <2>1, <3>1, <3>4
    <3>6. ToSet(a) \cup ToSet(c) = ToSet(s) \ {p}
      <4>1. \A x : x \in ToSet(a) \cup ToSet(c) <=> \E k \in 1 .. Len(s) : k # i /\ s[k] = x
        BY <2>1, <3>4
      <4> QED BY <2>1, <3>1, <3>4, <4>1
    <3> QED BY <2>3, <3>2, <3>3, <3>5, <3>6, Joined
  <2>5. a \o c \in Seq(S)
    BY <2>3, Joined
  <2> QED BY <1>2, <2>2, <2>4, <2>5
<1> QED BY <1>1, <1>2


-----------------------------------------------------------------------------
(* PutRequestsOnRing *)

\* The first of a queue, and the ids they get.
Moved(q, r, first, id) ==
  /\ IsInjective(id) /\ Len(first) = Len(id)
  /\ q = first \o queue' /\ ring' = r \o first /\ requests' = requests \o id
  /\ ids' = ids \ ToSet(id)
  /\ partials' = [i \in Ids |-> partials'[i]]
  /\ \A k \in 1 .. Len(id) : partials'[id[k]] = first[k]
  /\ \A i \in Ids : i \notin ToSet(id) => partials'[i] = partials[i]
  /\ queue' # <<>> => ids' = {}

\* As many as there are ids move: what is left in the queue found no id.
LEMMA Put ==
  ASSUME NEW S, NEW q \in Seq(S), NEW r \in Seq(S), ids \subseteq Ids,
         PutRequestsOnRing(q, r, ids)
  PROVE  /\ queue' \in Seq(S)
         /\ \E first \in Seq(S), id \in Seq(ids) : Moved(q, r, first, id)
<1> DEFINE n == IF Len(q) < Cardinality(ids) THEN Len(q) ELSE Cardinality(ids)
           first == SubSeq(q, 1, n)
           rest  == SubSeq(q, n + 1, Len(q))
<1>1. IsFiniteSet(ids) /\ Cardinality(ids) \in Nat /\ Len(q) \in Nat
  <2>1. IsFiniteSet(Ids) /\ ids \in SUBSET Ids
    BY UsbAssumption
  <2>2. IsFiniteSet(ids)
    BY <2>1, FS_Subset
  <2> QED BY <2>2, FS_CardinalityType, LenProperties
<1>2. n \in 0 .. Len(q) /\ n \in Nat /\ n <= Cardinality(ids) /\ (n < Len(q) => n = Cardinality(ids))
  BY <1>1
<1>3. PICK id \in [1 .. n -> ids] :
        /\ IsInjective(id)
        /\ queue' = rest /\ ring' = r \o first
        /\ ids' = Left(ids, ToSet(id))
        /\ partials' = [i \in Ids |-> IF i \in ToSet(id) THEN q[CHOOSE k \in 1 .. n : id[k] = i]
                                     ELSE partials[i]]
        /\ requests' = requests \o id
  BY DEF PutRequestsOnRing
<1> HIDE DEF n
<1>4. /\ first \in Seq(S) /\ rest \in Seq(S) /\ Len(first) = n /\ Len(rest) = Len(q) - n
      /\ first \o rest = q
  BY <1>2, CutInTwo
<1>5. \A k \in 1 .. n : first[k] = q[k]
  BY <1>1, <1>2
<1>6. id \in Seq(ids) /\ Len(id) = n /\ DOMAIN id = 1 .. n
  BY <1>2
<1>7. \A k \in 1 .. n : id[k] \in ToSet(id) /\ id[k] \in Ids
  BY <1>6 DEF ToSet
<1>8. \A k, l \in 1 .. n : id[k] = id[l] => k = l
  BY <1>3, <1>6 DEF IsInjective
<1>9. \A k \in 1 .. n : partials'[id[k]] = first[k]
  <2>1. ASSUME NEW k \in 1 .. n PROVE partials'[id[k]] = first[k]
    <3>1. (CHOOSE l \in 1 .. n : id[l] = id[k]) = k
      BY <1>8
    <3>2. partials'[id[k]] = q[CHOOSE l \in 1 .. n : id[l] = id[k]]
      BY <1>3, <1>7
    <3> QED BY <1>5, <3>1, <3>2
  <2> QED BY <2>1
<1>10. ASSUME rest # <<>> PROVE ids \ ToSet(id) = {}
  <2>1. n = Cardinality(ids)
    <3>1. Len(rest) # 0
      BY <1>4, <1>10
    <3> QED BY <1>1, <1>2, <1>4, <3>1
  <2>2. IsFiniteSet(ToSet(id)) /\ Cardinality(ToSet(id)) = n
    BY <1>3, <1>6, Distinct
  <2>3. ToSet(id) \subseteq ids
    BY <1>6, Elements
  <2> QED BY <1>1, <2>1, <2>2, <2>3, FS_Subset
<1>11. partials' = [i \in Ids |-> partials'[i]]
  BY <1>3
<1>12. \A i \in Ids : i \notin ToSet(id) => partials'[i] = partials[i]
  BY <1>3
<1>13. Moved(q, r, first, id)
  BY <1>3, <1>4, <1>6, <1>9, <1>10, <1>11, <1>12 DEF Moved, Left
<1> QED BY <1>3, <1>4, <1>6, <1>13

LEMMA PutTypes ==
  ASSUME NEW q \in Seq(Partials), NEW r \in Seq(Partials), UrbTypes,
         PutRequestsOnRing(q, r, ids)
  PROVE  /\ queue' \in Seq(Partials) /\ ring' \in Seq(Partials) /\ ids' \subseteq Ids
         /\ partials' \in [Ids -> Partials \cup {NoPartial}] /\ requests' \in Seq(Ids)
<1>1. ids \subseteq Ids /\ partials \in [Ids -> Partials \cup {NoPartial}] /\ requests \in Seq(Ids)
  BY DEF UrbTypes
<1>2. queue' \in Seq(Partials)
  BY <1>1, Put
<1>3. PICK first \in Seq(Partials), id \in Seq(ids) : Moved(q, r, first, id)
  BY <1>1, Put
<1>4. ring' \in Seq(Partials) /\ ids' \subseteq Ids
  BY <1>1, <1>3, Joined DEF Moved
<1>5. requests' \in Seq(Ids)
  <2>1. id \in Seq(Ids)
    BY <1>1
  <2> QED BY <1>1, <1>3, <2>1, Joined DEF Moved
<1>6. \A i \in Ids : partials'[i] \in Partials \cup {NoPartial}
  <2>1. ASSUME NEW i \in Ids PROVE partials'[i] \in Partials \cup {NoPartial}
    <3>1. CASE i \notin ToSet(id)
      BY <1>1, <1>3, <3>1 DEF Moved
    <3>2. CASE i \in ToSet(id)
      <4>1. PICK k \in 1 .. Len(id) : id[k] = i
        BY <3>2, Elements
      <4>2. k \in 1 .. Len(first) /\ partials'[i] = first[k]
        BY <1>3, <4>1 DEF Moved
      <4> QED BY <4>2, ElementOfSeq
    <3> QED BY <3>1, <3>2
  <2> QED BY <2>1
<1>7. partials' \in [Ids -> Partials \cup {NoPartial}]
  BY <1>3, <1>6 DEF Moved
<1> QED BY <1>2, <1>4, <1>5, <1>7

\* What moves takes an id each: the ids and the ring still belong together.
LEMMA PutOwned ==
  ASSUME UrbTypes, NEW q \in Seq(Sent), ring \in Seq(Sent),
         IsInjective(q), IsInjective(ring), ToSet(q) \cap ToSet(ring) = {},
         Owned, Travels, PutRequestsOnRing(q, ring, ids), UNCHANGED <<working, responses>>
  PROVE  /\ queue' \in Seq(Sent) /\ ring' \in Seq(Sent)
         /\ IsInjective(queue') /\ IsInjective(ring') /\ ToSet(queue') \cap ToSet(ring') = {}
         /\ ToSet(queue') \cup ToSet(ring') = ToSet(q) \cup ToSet(ring)
         /\ Owned' /\ Travels'
         /\ queue' # <<>> => ids' = {}
<1>1. ids \subseteq Ids /\ requests \in Seq(Ids)
  BY DEF UrbTypes
<1>2. queue' \in Seq(Sent)
  BY <1>1, Put
<1>3. PICK first \in Seq(Sent), id \in Seq(ids) : Moved(q, ring, first, id)
  BY <1>1, Put
<1>4. q = first \o queue' /\ ring' = ring \o first /\ requests' = requests \o id
      /\ ids' = ids \ ToSet(id) /\ IsInjective(id) /\ Len(first) = Len(id)
  BY <1>3 DEF Moved
<1>5. /\ IsInjective(first) /\ IsInjective(queue') /\ ToSet(first) \cap ToSet(queue') = {}
      /\ ToSet(q) = ToSet(first) \cup ToSet(queue')
  BY <1>2, <1>4, Parted, Joined
<1>6. /\ ring' \in Seq(Sent) /\ IsInjective(ring') /\ ToSet(ring') = ToSet(ring) \cup ToSet(first)
  BY <1>4, <1>5, Joined
<1>7. ToSet(id) \subseteq ids /\ id \in Seq(Ids) /\ (\A x : x \in ToSet(id) <=> \E k \in 1 .. Len(id) : id[k] = x)
  BY <1>1, Elements
<1>8. InUse' = InUse \cup ToSet(id) /\ InUse \cap ToSet(id) = {}
  BY <1>1, <1>4, <1>7 DEF InUse
<1>9. \A i \in InUse : partials'[i] = partials[i]
  BY <1>3, <1>8 DEF InUse, Moved
<1>10. \A k \in 1 .. Len(id) : partials'[id[k]] = first[k]
  BY <1>3 DEF Moved
<1>11. \A x : x \in ToSet(first) <=> \E k \in 1 .. Len(id) : first[k] = x
  BY <1>4, Elements
<1>12. \A k, l \in 1 .. Len(id) : first[k] = first[l] => k = l
  <2>1. DOMAIN first = 1 .. Len(id)
    BY <1>4
  <2> QED BY <1>5, <2>1 DEF IsInjective
<1>13. Owned'
  <2>1. \A i \in InUse' : partials'[i] \in ToSet(ring')
    <3>1. \A i \in InUse : partials'[i] \in ToSet(ring)
      BY <1>9 DEF Owned
    <3>2. \A i \in ToSet(id) : partials'[i] \in ToSet(first)
      BY <1>7, <1>10, <1>11
    <3> QED BY <1>6, <1>8, <3>1, <3>2
  <2>2. ASSUME NEW i \in InUse', NEW j \in InUse', partials'[i] = partials'[j] PROVE i = j
    <3>1. CASE i \in InUse /\ j \in InUse
      BY <1>9, <2>2, <3>1 DEF Owned
    <3>2. CASE i \in ToSet(id) /\ j \in ToSet(id)
      <4>1. PICK k \in 1 .. Len(id) : id[k] = i
        BY <1>7, <3>2
      <4>2. PICK l \in 1 .. Len(id) : id[l] = j
        BY <1>7, <3>2
      <4> QED BY <1>10, <1>12, <2>2, <4>1, <4>2
    <3>3. CASE i \in InUse /\ j \in ToSet(id)
      <4>1. partials'[i] \in ToSet(ring)
        BY <1>9, <3>3 DEF Owned
      <4>2. partials'[j] \in ToSet(first)
        BY <1>7, <1>10, <1>11, <3>3
      <4> QED BY <1>5, <2>2, <4>1, <4>2
    <3>4. CASE i \in ToSet(id) /\ j \in InUse
      <4>1. partials'[j] \in ToSet(ring)
        BY <1>9, <3>4 DEF Owned
      <4>2. partials'[i] \in ToSet(first)
        BY <1>7, <1>10, <1>11, <3>4
      <4> QED BY <1>5, <2>2, <4>1, <4>2
    <3> QED BY <1>8, <3>1, <3>2, <3>3, <3>4
  <2>3. ASSUME NEW p \in ToSet(ring') PROVE \E i \in InUse' : partials'[i] = p
    <3>1. CASE p \in ToSet(ring)
      BY <1>8, <1>9, <3>1 DEF Owned
    <3>2. CASE p \in ToSet(first)
      BY <1>7, <1>8, <1>10, <1>11, <3>2
    <3> QED BY <1>6, <2>3, <3>1, <3>2
  <2> QED BY <2>1, <2>2, <2>3 DEF Owned
<1>14. Travels'
  <2>1. IsInjective(requests) /\ ToSet(requests) \subseteq InUse
    BY DEF Travels
  <2>2. ToSet(requests) \cap ToSet(id) = {}
    BY <1>8, <2>1
  <2>3. IsInjective(requests') /\ ToSet(requests') = ToSet(requests) \cup ToSet(id)
    BY <1>1, <1>4, <1>7, <2>1, <2>2, Joined
  <2> QED BY <1>8, <2>3 DEF Travels
<1>15. queue' # <<>> => ids' = {}
  BY <1>3 DEF Moved
<1> QED BY <1>2, <1>5, <1>6, <1>13, <1>14, <1>15

-----------------------------------------------------------------------------
(* The URBs, action by action *)

LEMMA SentIs ==
  /\ Sent \subseteq Partials /\ NoPartial \notin Sent
  /\ \A p \in Partials : p.of \in Urbs /\ p.unlink \in BOOLEAN
  /\ \A p \in Sent : p.of \in Urbs /\ ~p.unlink /\ p = Urb(p.of)
  /\ \A r, s \in Urbs : Urb(r) = Urb(s) => r = s
  /\ \A r \in Urbs : Urb(r) \in Sent /\ Urb(r) \in Partials /\ Unlink(r) \in Partials
<1>1. /\ \A r \in Urbs : Urb(r) \in Sent /\ Urb(r) \in Partials /\ Unlink(r) \in Partials
      /\ Sent \subseteq Partials
  BY DEF Sent, Partials
<1>2. \A p \in Sent : p.of \in Urbs /\ ~p.unlink /\ p = Urb(p.of)
  BY DEF Sent, Urb
<1>3. \A p \in Partials : p.of \in Urbs /\ p.unlink \in BOOLEAN
  <2>1. ASSUME NEW p \in Partials PROVE \E r \in Urbs : p = Urb(r) \/ p = Unlink(r)
    BY DEF Partials
  <2>2. \A r \in Urbs : /\ Urb(r).of = r /\ Urb(r).unlink = FALSE
                      /\ Unlink(r).of = r /\ Unlink(r).unlink = TRUE
    BY DEF Urb, Unlink
  <2>3. ASSUME NEW p \in Partials PROVE p.of \in Urbs /\ p.unlink \in BOOLEAN
    <3>1. PICK r \in Urbs : p = Urb(r) \/ p = Unlink(r)
      BY <2>1
    <3> QED BY <2>2, <3>1
  <2> QED BY <2>3
<1>4. \A r, s \in Urbs : Urb(r) = Urb(s) => r = s
  BY DEF Urb
<1>5. NoPartial \notin Sent
  BY <1>2, UsbAssumption DEF NoPartial
<1> QED BY <1>1, <1>2, <1>3, <1>4, <1>5

\* Nothing in the proof of the next lemma depends on the state of the device.
LEMMA UrbsStay ==
  ASSUME UrbsIInv, ~corrupt,
         UNCHANGED <<queue, ring, ids, partials, other, freed, pvurb, cancelling, cancels,
                     requests, working, responses, corrupt>>,
         device_state' \in {"ACTIVE", "DISCONNECTING", "DISCONNECTED"}, event' \in BOOLEAN,
         dpc'.complete = dpc.complete \/ dpc'.complete = <<>>,
         dpc.pc = "urbs" => dpc'.pc = "urbs"
  PROVE  UrbsIInv'
<1>1. UrbTypes'
  BY DEF UrbsIInv, UrbTypes
<1>2. MemoryOurs'
  BY DEF MemoryOurs
<1>3. ASSUME cancels' = {} PROVE Uncancelled'
  <2>1. Uncancelled
    BY <1>3 DEF UrbsIInv
  <2>2. Collected'
    <3>1. \A r \in Urbs : pvurb'[r].state = "done" => ~pvurb'[r].granted
      BY <2>1 DEF Uncancelled, Collected
    <3>2. IsInjective(dpc'.complete)
      BY <2>1 DEF Uncancelled, Collected, IsInjective
    <3>3. ToSet(dpc'.complete) \subseteq ToSet(dpc.complete)
      BY DEF ToSet
    <3> QED BY <2>1, <3>1, <3>2, <3>3 DEF Uncancelled, Collected
  <2>3. Listed' /\ Owned' /\ Travels'
    BY <2>1 DEF Uncancelled, Listed, Owned, Travels, InUse
  <2> QED BY <2>1, <2>2, <2>3 DEF Uncancelled
<1> QED BY <1>1, <1>2, <1>3 DEF UrbsIInv

LEMMA CorruptUrbs ==
  ASSUME UrbsIInv, Corrupt, cancels # {} \/ device_state = "DISCONNECTED"
  PROVE  UrbsIInv'
<1>1. UrbTypes'
  BY DEF Corrupt, UrbsIInv, UrbTypes, usb
<1>2. MemoryOurs'
  BY DEF Corrupt, MemoryOurs, usb
<1>3. Uncancelled => Uncancelled'
  BY DEF Corrupt, Uncancelled, Listed, Collected, Owned, Travels, InUse, usb
<1> QED BY <1>1, <1>2, <1>3 DEF Corrupt, UrbsIInv, usb

LEMMA PortsOnly ==
  ASSUME UrbsIInv, ~corrupt, UNCHANGED <<usb, corrupt>>, event' \in BOOLEAN,
         dpc'.complete = dpc.complete \/ dpc'.complete = <<>>,
         dpc.pc = "urbs" => dpc'.pc = "urbs"
  PROVE  UrbsIInv'
<1>1. device_state' \in {"ACTIVE", "DISCONNECTING", "DISCONNECTED"}
  BY DEF UrbsIInv, UrbTypes, usb
<1> QED BY <1>1, UrbsStay DEF usb

LEMMA SubmitUrbs ==
  ASSUME UrbsIInv, ~corrupt, NEW r \in Urbs, Submit(r)
  PROVE  UrbsIInv'
<1>1. CASE device_state = "DISCONNECTED"
  BY <1>1, CorruptUrbs DEF Submit
<1>2. CASE device_state # "DISCONNECTED"
  <2> DEFINE q == Append(queue, Urb(r))
  <2>1. /\ pvurb' = [pvurb EXCEPT ![r] = PvUrb]
        /\ PutRequestsOnRing(q, ring, ids)
        /\ UNCHANGED <<device_state, other, freed, cancelling, cancels, working, responses,
                       event, dpc, corrupt>>
        /\ pvurb[r].state = "new" /\ dpc.pc # "urbs"
    BY <1>2 DEF Submit, LockFree
  <2>2. UrbTypes
    BY DEF UrbsIInv
  <2>3. /\ pvurb' \in [Urbs -> [state : {"new", "sent", "done"}, ref : Int, granted : BOOLEAN]]
        /\ pvurb'[r].state = "sent" /\ pvurb'[r].ref = 1
        /\ \A s \in Urbs \ {r} : pvurb'[s] = pvurb[s]
    BY <2>1, <2>2 DEF UrbTypes, PvUrb
  <2>4. UrbTypes'
    <3>1. q \in Seq(Partials) /\ ring \in Seq(Partials)
      BY <2>2, SentIs DEF UrbTypes
    <3>2. /\ queue' \in Seq(Partials) /\ ring' \in Seq(Partials) /\ ids' \subseteq Ids
          /\ partials' \in [Ids -> Partials \cup {NoPartial}] /\ requests' \in Seq(Ids)
      BY <2>1, <2>2, <3>1, PutTypes
    <3> QED BY <2>1, <2>2, <2>3, <3>2 DEF UrbTypes
  <2>5. MemoryOurs'
    BY <2>1 DEF MemoryOurs
  <2>6. ASSUME cancels' = {} PROVE Uncancelled'
    <3>1. Uncancelled
      BY <2>1, <2>6 DEF UrbsIInv
    <3>2. Urb(r) \notin ToSet(queue) \cup ToSet(ring)
      BY <2>1, <3>1 DEF Uncancelled, Listed
    <3>3. q \in Seq(Sent) /\ IsInjective(q) /\ ToSet(q) = ToSet(queue) \cup {Urb(r)}
      BY <3>1, <3>2, SentIs, Appended DEF Uncancelled, Listed
    <3>4. /\ ring \in Seq(Sent) /\ IsInjective(ring) /\ ToSet(q) \cap ToSet(ring) = {}
      BY <3>1, <3>2, <3>3 DEF Uncancelled, Listed
    <3>5. /\ queue' \in Seq(Sent) /\ ring' \in Seq(Sent)
          /\ IsInjective(queue') /\ IsInjective(ring') /\ ToSet(queue') \cap ToSet(ring') = {}
          /\ ToSet(queue') \cup ToSet(ring') = ToSet(q) \cup ToSet(ring)
          /\ Owned' /\ Travels'
          /\ queue' # <<>> => ids' = {}
      BY <2>1, <2>2, <3>1, <3>3, <3>4, PutOwned DEF Uncancelled
    <3>6. Listed'
      <4>1. ASSUME NEW s \in Urbs, Urb(s) \in ToSet(queue') \cup ToSet(ring')
            PROVE  pvurb'[s].state = "sent" /\ pvurb'[s].ref = 1
        <5>1. CASE s = r
          BY <2>3, <5>1
        <5>2. CASE s # r
          <6>1. Urb(s) \in ToSet(queue) \cup ToSet(ring)
            BY <3>3, <3>5, <4>1, <5>2, SentIs
          <6> QED BY <2>3, <3>1, <5>2, <6>1 DEF Uncancelled, Listed
        <5> QED BY <5>1, <5>2
      <4> QED BY <3>5, <4>1 DEF Listed
    <3>7. Collected'
      <4>1. r \notin ToSet(dpc.complete)
        BY <2>1, <3>1 DEF Uncancelled, Collected
      <4>2. ASSUME NEW s \in ToSet(dpc.complete)
            PROVE  pvurb'[s] = pvurb[s]
        BY <2>1, <2>2, <4>1 DEF UrbTypes
      <4> QED BY <2>1, <2>3, <3>1, <4>2 DEF Uncancelled, Collected
    <3> QED BY <2>1, <3>1, <3>5, <3>6, <3>7 DEF Uncancelled
  <2> QED BY <2>4, <2>5, <2>6 DEF UrbsIInv
<1> QED BY <1>1, <1>2

LEMMA CancelUrbs ==
  ASSUME UrbsIInv, ~corrupt, NEW r \in Urbs, Cancel(r)
  PROVE  UrbsIInv'
<1>1. UrbTypes'
  BY DEF Cancel, UrbsIInv, UrbTypes
<1>2. cancels' # {} /\ MemoryOurs'
  BY DEF Cancel, MemoryOurs
<1> QED BY <1>1, <1>2 DEF UrbsIInv

\* A cancel routine frees and unlinks what it finds: only the types survive.
LEMMA CancelRoutineUrbs ==
  ASSUME UrbsIInv, ~corrupt, CancelRoutine
  PROVE  UrbsIInv'
<1> DEFINE r == cancelling
           unlinks == [i \in 1 .. Len(ring) |-> Unlink(ring[Len(ring) + 1 - i].of)]
           ref == pvurb[r].ref - Len(queue) + Len(ring)
<1>1. cancels # {}
  BY DEF CancelRoutine, UrbsIInv, Uncancelled
<1>2. UrbTypes /\ r \in Urbs
  BY DEF CancelRoutine, UrbsIInv, UrbTypes
<1>3. CASE Corrupt
  BY <1>1, <1>3, CorruptUrbs
<1>4. CASE ~Corrupt
  <2>1. /\ cancelling' = NoUrb
        /\ freed' = freed \cup {queue[i] : i \in DOMAIN queue}
        /\ other' = other \cup {ring[i].of : i \in DOMAIN ring}
        /\ \E p \in {[pvurb EXCEPT ![r].ref = ref]} : pvurb' = IF ref = 0 THEN Done(r, p) ELSE p
        /\ IF ref # 0 THEN PutRequestsOnRing(unlinks, ring, ids)
           ELSE queue' = <<>> /\ UNCHANGED <<ring, ids, partials, requests>>
        /\ UNCHANGED <<device_state, cancels, working, responses, event, corrupt>>
    BY <1>4 DEF CancelRoutine
  <2>2. /\ queue \in Seq(Partials) /\ ring \in Seq(Partials) /\ Len(queue) \in Nat /\ Len(ring) \in Nat
        /\ \A i \in 1 .. Len(queue) : queue[i] \in Partials
        /\ \A i \in 1 .. Len(ring) : ring[i] \in Partials /\ ring[i].of \in Urbs
    BY <1>2, SentIs, ElementOfSeq, LenProperties DEF UrbTypes
  <2>3. freed' \subseteq Partials /\ other' \subseteq Urbs
    <3>1. DOMAIN queue = 1 .. Len(queue) /\ DOMAIN ring = 1 .. Len(ring)
      BY <2>2
    <3> QED BY <1>2, <2>1, <2>2, <3>1 DEF UrbTypes
  <2>4. pvurb' \in [Urbs -> [state : {"new", "sent", "done"}, ref : Int, granted : BOOLEAN]]
    <3>1. ref \in Int
      BY <1>2, <2>2 DEF UrbTypes
    <3>2. [pvurb EXCEPT ![r].ref = ref] \in [Urbs -> [state : {"new", "sent", "done"}, ref : Int, granted : BOOLEAN]]
      BY <1>2, <3>1 DEF UrbTypes
    <3> HIDE DEF ref
    <3>3. Done(r, [pvurb EXCEPT ![r].ref = ref]) \in [Urbs -> [state : {"new", "sent", "done"}, ref : Int, granted : BOOLEAN]]
      BY <1>2, <3>2 DEF Done
    <3> QED BY <2>1, <3>2, <3>3
  <2>5. /\ queue' \in Seq(Partials) /\ ring' \in Seq(Partials) /\ ids' \subseteq Ids
        /\ partials' \in [Ids -> Partials \cup {NoPartial}] /\ requests' \in Seq(Ids)
    <3>1. CASE ref # 0
      <4>1. unlinks \in Seq(Partials)
        <5>1. \A i \in 1 .. Len(ring) : Unlink(ring[Len(ring) + 1 - i].of) \in Partials
          BY <2>2, SentIs
        <5> QED BY <2>2, <5>1
      <4>2. PutRequestsOnRing(unlinks, ring, ids)
        BY <2>1, <3>1
      <4> QED BY <1>2, <2>2, <4>1, <4>2, PutTypes
    <3>2. CASE ref = 0
      <4>1. <<>> \in Seq(Partials)
        OBVIOUS
      <4>2. queue' = <<>> /\ UNCHANGED <<ring, ids, partials, requests>>
        BY <2>1, <3>2
      <4> QED BY <1>2, <4>1, <4>2 DEF UrbTypes
    <3> QED BY <3>1, <3>2
  <2>6. UrbTypes'
    BY <1>2, <2>1, <2>3, <2>4, <2>5 DEF UrbTypes
  <2>7. MemoryOurs' /\ cancels' # {}
    BY <1>1, <2>1 DEF MemoryOurs
  <2> QED BY <2>6, <2>7 DEF UrbsIInv
<1> QED BY <1>3, <1>4

LEMMA BackendTakesUrbs ==
  ASSUME UrbsIInv, ~corrupt, BackendTakes
  PROVE  UrbsIInv'
<1> DEFINE id  == Head(requests)
           hit == {i \in working : /\ partials[id].unlink
                                   /\ partials[i] = Urb(partials[id].of)}
<1>1. UrbTypes
  BY DEF UrbsIInv
<1>2. /\ requests \in Seq(Ids) /\ requests # <<>> /\ id \in Ids /\ requests' = Tail(requests)
      /\ requests' \in Seq(Ids)
  BY <1>1 DEF BackendTakes, UrbTypes
<1>3. UNCHANGED <<device_state, queue, ring, ids, partials, other, freed, pvurb, cancelling,
                  cancels, dpc, corrupt>>
  BY DEF BackendTakes
<1>4. /\ partials[id].unlink => /\ \/ \E i \in hit : responses' = responses \o <<i, id>>
                                   \/ responses' = Append(responses, id)
                                /\ working' = working \ hit /\ event' = TRUE
      /\ ~partials[id].unlink => working' = working \cup {id} /\ UNCHANGED <<responses, event>>
  BY DEF BackendTakes
<1>5. UrbTypes'
  <2>1. /\ responses \in Seq(Ids) /\ working \subseteq Ids /\ event \in BOOLEAN
    BY <1>1 DEF UrbTypes
  <2>2. Append(responses, id) \in Seq(Ids)
    BY <1>2, <2>1, Appended
  <2>3. ASSUME NEW i \in hit PROVE responses \o <<i, id>> \in Seq(Ids)
    <3>1. <<i, id>> \in Seq(Ids)
      BY <1>2, <2>1
    <3> QED BY <2>1, <3>1, Joined
  <2>4. responses' \in Seq(Ids) /\ working' \subseteq Ids /\ event' \in BOOLEAN
    BY <1>2, <1>4, <2>1, <2>2, <2>3
  <2> QED BY <1>1, <1>2, <1>3, <2>4 DEF UrbTypes
<1>6. MemoryOurs'
  BY <1>3 DEF MemoryOurs
<1>7. ASSUME cancels' = {} PROVE Uncancelled'
  <2>1. Uncancelled
    BY <1>3, <1>7 DEF UrbsIInv
  <2>2. IsInjective(requests)
    BY <2>1 DEF Uncancelled, Travels
  <2>3. /\ id \in ToSet(requests) /\ IsInjective(requests')
        /\ ToSet(requests') = ToSet(requests) \ {id}
    BY <1>2, <2>2, Rests
  <2>4. id \in InUse /\ partials[id] \in ToSet(ring)
    BY <2>1, <2>3 DEF Uncancelled, Travels, Owned
  <2>5. ~partials[id].unlink
    <3>1. ToSet(ring) \subseteq Sent
      BY <2>1, Elements DEF Uncancelled, Listed
    <3> QED BY <2>4, <3>1, SentIs
  <2>6. working' = working \cup {id} /\ responses' = responses
    BY <1>4, <2>5
  <2>7. Travels'
    BY <1>3, <2>1, <2>3, <2>4, <2>6 DEF Uncancelled, Travels, InUse
  <2>8. Listed' /\ Collected' /\ Owned'
    BY <1>3, <2>1 DEF Uncancelled, Listed, Collected, Owned, InUse
  <2> QED BY <1>3, <2>1, <2>7, <2>8 DEF Uncancelled
<1> QED BY <1>5, <1>6, <1>7 DEF UrbsIInv

LEMMA BackendAnswersUrbs ==
  ASSUME UrbsIInv, ~corrupt, BackendAnswers
  PROVE  UrbsIInv'
<1>1. UrbTypes
  BY DEF UrbsIInv
<1>2. PICK id \in working :
        /\ working' = working \ {id} /\ responses' = Append(responses, id) /\ event' = TRUE
        /\ UNCHANGED <<device_state, queue, ring, ids, partials, other, freed, pvurb,
                       cancelling, cancels, requests, dpc, corrupt>>
  BY DEF BackendAnswers
<1>3. responses \in Seq(Ids) /\ id \in Ids /\ responses' \in Seq(Ids)
  BY <1>1, <1>2, Appended DEF UrbTypes
<1>4. UrbTypes'
  BY <1>1, <1>2, <1>3 DEF UrbTypes
<1>5. MemoryOurs'
  BY <1>2 DEF MemoryOurs
<1>6. ASSUME cancels' = {} PROVE Uncancelled'
  <2>1. Uncancelled
    BY <1>2, <1>6 DEF UrbsIInv
  <2>2. IsInjective(responses) /\ id \notin ToSet(responses)
    BY <1>2, <2>1 DEF Uncancelled, Travels
  <2>3. IsInjective(responses') /\ ToSet(responses') = ToSet(responses) \cup {id}
    BY <1>2, <1>3, <2>2, Appended
  <2>4. Travels'
    BY <1>2, <2>1, <2>3 DEF Uncancelled, Travels, InUse
  <2>5. Listed' /\ Collected' /\ Owned'
    BY <1>2, <2>1 DEF Uncancelled, Listed, Collected, Owned, InUse
  <2> QED BY <1>2, <2>1, <2>4, <2>5 DEF Uncancelled
<1> QED BY <1>4, <1>5, <1>6 DEF UrbsIInv

\* What the old rings carried is gone, the ids in use stay in use.
LEMMA FreeRingsUrbs ==
  ASSUME UrbsIInv, ~corrupt, FreeRings
  PROVE  UrbsIInv'
<1>1. UNCHANGED <<queue, ring, ids, partials, other, freed, pvurb, cancelling, cancels, dpc, corrupt>>
  BY DEF FreeRings
<1>2. requests' = <<>> /\ working' = {} /\ responses' = <<>>
  BY DEF FreeRings
<1>3. <<>> \in Seq(Ids)
  OBVIOUS
<1>4. UrbTypes'
  BY <1>1, <1>2, <1>3 DEF FreeRings, UrbsIInv, UrbTypes
<1>5. MemoryOurs'
  BY <1>1 DEF MemoryOurs
<1>6. ASSUME cancels' = {} PROVE Uncancelled'
  <2>1. Uncancelled
    BY <1>1, <1>6 DEF UrbsIInv
  <2>2. IsInjective(<<>>) /\ ToSet(<<>>) = {}
    BY DEF IsInjective, ToSet
  <2>3. Travels'
    BY <1>2, <2>2 DEF Travels
  <2>4. Listed' /\ Collected' /\ Owned'
    BY <1>1, <2>1 DEF Uncancelled, Listed, Collected, Owned, InUse
  <2> QED BY <1>1, <2>1, <2>3, <2>4 DEF Uncancelled
<1> QED BY <1>4, <1>5, <1>6 DEF UrbsIInv

LEMMA DpcPutUrbs ==
  ASSUME UrbsIInv, PortTypes, ~corrupt, DpcPut
  PROVE  UrbsIInv'
<1>1. UrbTypes /\ dpc \in DpcData
  BY DEF UrbsIInv, PortTypes
<1>2. /\ PutRequestsOnRing(queue, ring, ids)
      /\ dpc' = [dpc EXCEPT !.pc = "complete"]
      /\ UNCHANGED <<device_state, other, freed, pvurb, cancelling, cancels, working, responses,
                     event, corrupt>>
  BY DEF DpcPut
<1>3. dpc'.complete = dpc.complete
  BY <1>1, <1>2 DEF DpcData
<1>4. UrbTypes'
  <2>1. queue \in Seq(Partials) /\ ring \in Seq(Partials)
    BY <1>1 DEF UrbTypes
  <2>2. /\ queue' \in Seq(Partials) /\ ring' \in Seq(Partials) /\ ids' \subseteq Ids
        /\ partials' \in [Ids -> Partials \cup {NoPartial}] /\ requests' \in Seq(Ids)
    BY <1>1, <1>2, <2>1, PutTypes
  <2> QED BY <1>1, <1>2, <2>2 DEF UrbTypes
<1>5. MemoryOurs'
  BY <1>2 DEF MemoryOurs
<1>6. ASSUME cancels' = {} PROVE Uncancelled'
  <2>1. Uncancelled
    BY <1>2, <1>6 DEF UrbsIInv
  <2>2. /\ queue' \in Seq(Sent) /\ ring' \in Seq(Sent)
        /\ IsInjective(queue') /\ IsInjective(ring') /\ ToSet(queue') \cap ToSet(ring') = {}
        /\ ToSet(queue') \cup ToSet(ring') = ToSet(queue) \cup ToSet(ring)
        /\ Owned' /\ Travels'
        /\ queue' # <<>> => ids' = {}
    BY <1>1, <1>2, <2>1, PutOwned DEF Uncancelled, Listed
  <2>3. Listed'
    BY <1>2, <2>1, <2>2 DEF Uncancelled, Listed
  <2>4. Collected'
    BY <1>2, <1>3, <2>1 DEF Uncancelled, Collected
  <2> QED BY <1>2, <2>1, <2>2, <2>3, <2>4 DEF Uncancelled
<1> QED BY <1>4, <1>5, <1>6 DEF UrbsIInv

LEMMA DpcCompleteUrbs ==
  ASSUME UrbsIInv, PortTypes, ~corrupt, DpcComplete
  PROVE  UrbsIInv' /\ dpc' \in DpcData
<1> DEFINE r == Head(dpc.complete)
<1>1. /\ UrbTypes /\ dpc \in DpcData /\ dpc.complete \in Seq(Urbs) /\ dpc.complete # <<>>
      /\ r \in Urbs
  BY DEF UrbsIInv, PortTypes, DpcComplete, DpcData
<1>2. CASE Corrupt
  <2>1. pvurb[r].state = "done" \/ corrupt' = FALSE
    BY DEF DpcComplete
  <2>2. pvurb[r].state = "done"
    BY <1>2, <2>1 DEF Corrupt
  <2>3. cancels # {}
    <3>1. ASSUME cancels = {} PROVE FALSE
      <4>1. r \in ToSet(dpc.complete)
        <5>1. 1 \in 1 .. Len(dpc.complete) /\ dpc.complete[1] = r
          BY <1>1
        <5> QED BY <1>1, <5>1, Elements
      <4> QED BY <2>2, <3>1, <4>1 DEF UrbsIInv, Uncancelled, Collected
    <3> QED BY <3>1
  <2> QED BY <1>1, <1>2, <2>3, CorruptUrbs DEF Corrupt
<1>3. CASE ~Corrupt
  <2>1. /\ pvurb' = [pvurb EXCEPT ![r].state = "done"]
        /\ dpc' = [dpc EXCEPT !.complete = Tail(@)]
        /\ UNCHANGED <<device_state, queue, ring, ids, partials, other, freed, cancelling, cancels,
                       requests, working, responses, event, corrupt>>
    BY <1>3 DEF DpcComplete, Done
  <2>2. Tail(dpc.complete) \in Seq(Urbs)
    BY <1>1
  <2>3. dpc' \in DpcData /\ dpc'.complete = Tail(dpc.complete) /\ dpc'.pc = dpc.pc
    BY <1>1, <2>1, <2>2 DEF DpcData
  <2>4. /\ pvurb' \in [Urbs -> [state : {"new", "sent", "done"}, ref : Int, granted : BOOLEAN]]
        /\ pvurb'[r].granted = pvurb[r].granted
        /\ \A s \in Urbs \ {r} : pvurb'[s] = pvurb[s]
    BY <1>1, <2>1 DEF UrbTypes
  <2>5. UrbTypes'
    BY <1>1, <2>1, <2>4 DEF UrbTypes
  <2>6. MemoryOurs'
    BY <2>1 DEF MemoryOurs
  <2>7. ASSUME cancels' = {} PROVE Uncancelled'
    <3>1. Uncancelled
      BY <2>1, <2>7 DEF UrbsIInv
    <3>2. /\ r \in ToSet(dpc.complete) /\ IsInjective(dpc'.complete)
          /\ ToSet(dpc'.complete) = ToSet(dpc.complete) \ {r}
      BY <1>1, <2>3, <3>1, Rests DEF Uncancelled, Collected
    <3>3. pvurb[r].state = "sent" /\ pvurb[r].ref = 0 /\ ~pvurb[r].granted
      BY <3>1, <3>2 DEF Uncancelled, Collected
    <3>4. Listed'
      <4>1. ASSUME NEW s \in Urbs, Urb(s) \in ToSet(queue) \cup ToSet(ring)
            PROVE  pvurb'[s].state = "sent" /\ pvurb'[s].ref = 1
        BY <2>4, <3>1, <3>3, <4>1 DEF Uncancelled, Listed
      <4> QED BY <2>1, <3>1, <4>1 DEF Uncancelled, Listed
    <3>5. Collected'
      <4>1. ASSUME NEW s \in ToSet(dpc'.complete)
            PROVE  pvurb'[s].state = "sent" /\ pvurb'[s].ref = 0 /\ ~pvurb'[s].granted
        <5>1. s \in Urbs \ {r} /\ s \in ToSet(dpc.complete)
          BY <1>1, <3>2, <4>1, Elements
        <5> QED BY <2>4, <3>1, <5>1 DEF Uncancelled, Collected
      <4>2. ASSUME NEW s \in Urbs, pvurb'[s].state = "done" PROVE ~pvurb'[s].granted
        BY <2>4, <3>1, <3>3, <4>2 DEF Uncancelled, Collected
      <4> QED BY <3>2, <4>1, <4>2 DEF Collected
    <3>6. Owned' /\ Travels'
      BY <2>1, <3>1 DEF Uncancelled, Owned, Travels, InUse
    <3> QED BY <2>1, <2>3, <3>1, <3>4, <3>5, <3>6 DEF Uncancelled
  <2> QED BY <2>3, <2>5, <2>6, <2>7 DEF UrbsIInv
<1> QED BY <1>2, <1>3

\* A response gives its id back, and its request to those to complete.
LEMMA DpcResponseUrbs ==
  ASSUME UrbsIInv, PortTypes, ~corrupt, DpcResponse
  PROVE  UrbsIInv' /\ dpc' \in DpcData
<1> DEFINE id == Head(responses)
           p  == partials[id]
           o  == Linked(p)
           r  == Owner(p)
           refs == IF o = NoPartial THEN 1 ELSE 2
           Stale == \/ p \in freed \/ ~(On(p, queue) \/ On(p, ring))
                    \/ pvurb[r].state = "done"
                    \/ o # NoPartial /\ (o \in freed \/ ~(On(o, queue) \/ On(o, ring)))
<1>1. /\ UrbTypes /\ dpc \in DpcData /\ dpc.complete \in Seq(Urbs) /\ dpc.pc = "urbs"
      /\ responses \in Seq(Ids) /\ responses # <<>> /\ id \in Ids
      /\ queue \in Seq(Partials) /\ ring \in Seq(Partials)
  BY DEF UrbsIInv, PortTypes, DpcResponse, DpcData, UrbTypes
\* Without a cancel the response is for a request on the ring that is linked with none.
<1>2. ASSUME cancels = {}
      PROVE  /\ Uncancelled /\ id \in InUse /\ p \in ToSet(ring) /\ p \in Sent
             /\ p = Urb(r) /\ p.of = r /\ ~p.unlink /\ r \in Urbs /\ o = NoPartial /\ refs = 1 /\ ~Stale
             /\ IsInjective(responses') /\ ToSet(responses) = ToSet(Tail(responses)) \cup {id}
             /\ IsInjective(Tail(responses)) /\ id \notin ToSet(Tail(responses))
  <2>1. Uncancelled
    BY <1>2 DEF UrbsIInv
  <2>2. /\ id \in ToSet(responses) /\ IsInjective(Tail(responses))
        /\ ToSet(Tail(responses)) = ToSet(responses) \ {id}
    BY <1>1, <2>1, Rests DEF Uncancelled, Travels
  <2>3. id \in InUse /\ p \in ToSet(ring)
    BY <2>1, <2>2 DEF Uncancelled, Travels, Owned
  <2>4. p \in Sent
    BY <2>1, <2>3, Elements DEF Uncancelled, Listed
  <2>5. ~p.unlink /\ p.of \in Urbs /\ p = Urb(p.of)
    BY <2>4, SentIs
  <2>6. r = p.of
    BY <2>5 DEF Owner
  <2>7. o = NoPartial
    BY <2>1, <2>5 DEF Linked, Uncancelled
  <2>8. pvurb[r].state = "sent"
    BY <2>1, <2>3, <2>5, <2>6 DEF Uncancelled, Listed
  <2>9. On(p, ring)
    BY <1>1, <2>3, Listing
  <2>10. ~Stale
    BY <2>1, <2>7, <2>8, <2>9 DEF Uncancelled
  <2>11. responses' = Tail(responses)
    BY <2>10 DEF DpcResponse
  <2> QED BY <2>1, <2>2, <2>3, <2>4, <2>5, <2>6, <2>7, <2>10, <2>11
<1>3. CASE Stale
  <2>1. Corrupt
    BY <1>3 DEF DpcResponse
  <2>2. cancels # {}
    BY <1>2, <1>3
  <2> QED BY <1>1, <2>1, <2>2, CorruptUrbs DEF Corrupt
<1>4. CASE ~Stale
  <2>1. /\ responses' = Tail(responses)
        /\ queue' = Without(p, Without(o, queue))
        /\ ring' = Without(p, Without(o, ring))
        /\ freed' = freed \cup ({o} \ {NoPartial})
        /\ pvurb' = [pvurb EXCEPT ![r].ref = @ - refs, ![p.of].granted = @ /\ p.unlink]
        /\ ids' = ids \cup {id}
        /\ dpc' = [dpc EXCEPT !.complete = IF pvurb[r].ref = refs THEN Append(@, r) ELSE @]
        /\ UNCHANGED <<device_state, partials, other, cancelling, cancels, requests, working,
                       event, corrupt>>
    BY <1>4 DEF DpcResponse
  <2>2. p \in Partials
    <3>1. On(p, queue) \/ On(p, ring)
      BY <1>4
    <3> QED BY <1>1, <3>1, Listing, Elements
  <2>3. p.of \in Urbs /\ p.unlink \in BOOLEAN /\ r \in Urbs
    <3>1. p.of \in Urbs /\ p.unlink \in BOOLEAN
      BY <2>2, SentIs
    <3>2. CASE p.unlink
      <4>1. cancels # {}
        BY <1>2, <3>2
      <4>2. (CHOOSE s \in cancels : TRUE) \in cancels
        BY <4>1
      <4> QED BY <1>1, <3>1, <3>2, <4>2 DEF Owner, UrbTypes
    <3>3. CASE ~p.unlink
      BY <3>1, <3>3 DEF Owner
    <3> QED BY <3>1, <3>2, <3>3
  <2>4. o \in Partials \cup {NoPartial}
    BY <2>3, SentIs DEF Linked
  <2> HIDE DEF o, r, p
  <2>5. queue' \in Seq(Partials) /\ ring' \in Seq(Partials)
    <3>1. Without(o, queue) \in Seq(Partials) /\ Without(o, ring) \in Seq(Partials)
      BY <1>1, WithoutIs
    <3> QED BY <2>1, <3>1, WithoutIs
  <2>6. /\ pvurb' \in [Urbs -> [state : {"new", "sent", "done"}, ref : Int, granted : BOOLEAN]]
        /\ \A s \in Urbs : s # r /\ s # p.of => pvurb'[s] = pvurb[s]
        /\ \A s \in Urbs : /\ pvurb'[s].state = pvurb[s].state
                           /\ ~pvurb[s].granted => ~pvurb'[s].granted
        /\ r = p.of => pvurb'[r].ref = pvurb[r].ref - refs
        /\ ~p.unlink => ~pvurb'[p.of].granted
    <3>1. refs \in Int /\ pvurb \in [Urbs -> [state : {"new", "sent", "done"}, ref : Int, granted : BOOLEAN]]
      BY <1>1 DEF UrbTypes
    <3> HIDE DEF refs
    <3> DEFINE v == [pvurb EXCEPT ![r].ref = @ - refs]
    <3>2. /\ v \in [Urbs -> [state : {"new", "sent", "done"}, ref : Int, granted : BOOLEAN]]
          /\ v[r].ref = pvurb[r].ref - refs
          /\ \A s \in Urbs : s # r => v[s] = pvurb[s]
          /\ \A s \in Urbs : v[s].state = pvurb[s].state /\ v[s].granted = pvurb[s].granted
      BY <2>3, <3>1
    <3>3. pvurb' = [v EXCEPT ![p.of].granted = @ /\ p.unlink]
      BY <2>1
    <3> HIDE DEF v
    <3>4. /\ pvurb' \in [Urbs -> [state : {"new", "sent", "done"}, ref : Int, granted : BOOLEAN]]
          /\ \A s \in Urbs : s # p.of => pvurb'[s] = v[s]
          /\ \A s \in Urbs : pvurb'[s].state = v[s].state /\ pvurb'[s].ref = v[s].ref
          /\ pvurb'[p.of].granted = (v[p.of].granted /\ p.unlink)
      BY <2>3, <3>2, <3>3
    <3> QED BY <2>3, <3>2, <3>4
  <2>7. dpc' \in DpcData /\ dpc'.pc = "urbs"
    <3>1. Append(dpc.complete, r) \in Seq(Urbs)
      BY <1>1, <2>3, Appended
    <3> QED BY <1>1, <2>1, <3>1 DEF DpcData
  <2>8. UrbTypes'
    <3>1. Tail(responses) \in Seq(Ids)
      BY <1>1
    <3>2. freed' \subseteq Partials /\ ids' \subseteq Ids
      BY <1>1, <2>1, <2>4 DEF UrbTypes
    <3> QED BY <1>1, <2>1, <2>5, <2>6, <3>1, <3>2 DEF UrbTypes
  <2>9. MemoryOurs'
    BY <2>1 DEF MemoryOurs
  <2>10. ASSUME cancels' = {} PROVE Uncancelled'
    <3>1. cancels = {}
      BY <2>1, <2>10
    <3>2. /\ Uncancelled /\ id \in InUse /\ p \in ToSet(ring) /\ p \in Sent
          /\ p = Urb(r) /\ p.of = r /\ ~p.unlink /\ o = NoPartial /\ refs = 1
          /\ ToSet(responses) = ToSet(Tail(responses)) \cup {id}
          /\ IsInjective(Tail(responses)) /\ id \notin ToSet(Tail(responses))
      BY <1>2, <3>1 DEF o, r, p
    <3>3. /\ queue \in Seq(Sent) /\ ring \in Seq(Sent) /\ IsInjective(queue) /\ IsInjective(ring)
          /\ p \notin ToSet(queue) /\ ToSet(queue) \cap ToSet(ring) = {}
          /\ NoPartial \notin ToSet(queue) /\ NoPartial \notin ToSet(ring)
      <4>1. queue \in Seq(Sent) /\ ring \in Seq(Sent) /\ IsInjective(queue) /\ IsInjective(ring)
            /\ p \notin ToSet(queue) /\ ToSet(queue) \cap ToSet(ring) = {}
        BY <3>2 DEF Uncancelled, Listed
      <4>2. ToSet(queue) \subseteq Sent /\ ToSet(ring) \subseteq Sent
        BY <4>1, Elements
      <4> QED BY <4>1, <4>2, SentIs
    <3>4. queue' = queue
      <4>1. Without(o, queue) = queue
        BY <3>2, <3>3, WithoutIs
      <4> QED BY <2>1, <3>3, <4>1, WithoutIs
    <3>5. ring' \in Seq(Sent) /\ IsInjective(ring') /\ ToSet(ring') = ToSet(ring) \ {p}
      <4>1. Without(o, ring) = ring
        BY <3>2, <3>3, WithoutIs
      <4> QED BY <2>1, <3>3, <4>1, WithoutIs
    <3>6. freed' = {}
      BY <2>1, <3>2 DEF Uncancelled
    <3>7. pvurb[r].state = "sent" /\ pvurb[r].ref = 1
      BY <2>3, <3>2 DEF Uncancelled, Listed
    <3>8. pvurb'[r].state = "sent" /\ pvurb'[r].ref = 0 /\ ~pvurb'[r].granted
      BY <2>3, <2>6, <3>2, <3>7
    <3>9. \A s \in Urbs \ {r} : pvurb'[s] = pvurb[s]
      BY <2>6, <3>2
    <3>10. dpc'.complete = Append(dpc.complete, r)
      BY <1>1, <2>1, <3>2, <3>7 DEF DpcData
    <3>11. Listed'
      <4>1. ASSUME NEW s \in Urbs, Urb(s) \in ToSet(queue') \cup ToSet(ring')
            PROVE  pvurb'[s].state = "sent" /\ pvurb'[s].ref = 1
        <5>1. s # r /\ Urb(s) \in ToSet(queue) \cup ToSet(ring)
          BY <3>2, <3>3, <3>4, <3>5, <4>1
        <5> QED BY <3>2, <3>9, <5>1 DEF Uncancelled, Listed
      <4> QED BY <3>3, <3>4, <3>5, <4>1 DEF Listed
    <3>12. Collected'
      <4>1. r \notin ToSet(dpc.complete)
        BY <3>2, <3>7 DEF Uncancelled, Collected
      <4>2. IsInjective(dpc'.complete) /\ ToSet(dpc'.complete) = ToSet(dpc.complete) \cup {r}
        BY <1>1, <2>3, <3>2, <3>10, <4>1, Appended DEF Uncancelled, Collected
      <4>3. ASSUME NEW s \in ToSet(dpc'.complete)
            PROVE  pvurb'[s].state = "sent" /\ pvurb'[s].ref = 0 /\ ~pvurb'[s].granted
        <5>1. CASE s = r
          BY <3>8, <5>1
        <5>2. CASE s # r
          <6>1. s \in ToSet(dpc.complete) /\ s \in Urbs \ {r}
            BY <1>1, <4>2, <4>3, <5>2, Elements
          <6> QED BY <3>2, <3>9, <6>1 DEF Uncancelled, Collected
        <5> QED BY <5>1, <5>2
      <4>4. ASSUME NEW s \in Urbs, pvurb'[s].state = "done" PROVE ~pvurb'[s].granted
        BY <2>6, <3>2, <4>4 DEF Uncancelled, Collected
      <4> QED BY <4>2, <4>3, <4>4 DEF Collected
    <3>13. InUse' = InUse \ {id}
      BY <1>1, <2>1 DEF InUse
    <3>14. \A i \in InUse : i # id => partials[i] # p
      BY <3>2 DEF Uncancelled, Owned, p
    <3>15. Owned'
      <4>1. \A i \in InUse' : partials'[i] \in ToSet(ring')
        BY <2>1, <3>2, <3>5, <3>13, <3>14 DEF Uncancelled, Owned
      <4>2. \A i, j \in InUse' : partials'[i] = partials'[j] => i = j
        BY <2>1, <3>2, <3>13 DEF Uncancelled, Owned
      <4>3. ASSUME NEW x \in ToSet(ring') PROVE \E i \in InUse' : partials'[i] = x
        <5>1. x \in ToSet(ring) /\ x # p
          BY <3>5, <4>3
        <5>2. PICK i \in InUse : partials[i] = x
          BY <3>2, <5>1 DEF Uncancelled, Owned
        <5>3. i # id
          BY <5>1, <5>2 DEF p
        <5> QED BY <2>1, <3>13, <5>2, <5>3
      <4> QED BY <4>1, <4>2, <4>3 DEF Owned
    <3>16. Travels'
      BY <2>1, <3>2, <3>13 DEF Uncancelled, Travels
    <3> QED BY <2>1, <2>7, <3>2, <3>6, <3>11, <3>12, <3>15, <3>16 DEF Uncancelled
  <2> QED BY <2>7, <2>8, <2>9, <2>10 DEF UrbsIInv
<1> QED BY <1>3, <1>4

-----------------------------------------------------------------------------
LEMMA UsbBegins == UsbInit => UsbIInv
<1> SUFFICES ASSUME UsbInit PROVE UsbIInv
  OBVIOUS
<1>1. PortTypes
  <2>1. /\ status \in [Ports -> SUBSET Bits] /\ change \in [Ports -> SUBSET Bits]
        /\ plugged \in [Ports -> BOOLEAN]
    BY DEF UsbInit, Bits
  <2>2. hub \in HubData /\ dpc \in DpcData
    BY DEF UsbInit, HubIdle, DpcIdle, HubData, DpcData, DpcPlaces
  <2>3. conn \in Seq(ConnData) /\ raced \in BOOLEAN /\ missed \in BOOLEAN
        /\ interrupt \in {"none", "queued", "hub", "dpc"}
    <3>1. <<>> \in Seq(ConnData)
      OBVIOUS
    <3> QED BY <3>1 DEF UsbInit
  <2> QED BY <2>1, <2>2, <2>3 DEF UsbInit, PortTypes, HubIdle, DpcIdle
<1>2. Told
  BY DEF UsbInit, Told
<1>3. Reports
  BY DEF UsbInit, Reports
<1>4. UrbTypes
  <2>1. queue \in Seq(Partials) /\ ring \in Seq(Partials) /\ requests \in Seq(Ids) /\ responses \in Seq(Ids)
    BY DEF UsbInit
  <2>2. pvurb \in [Urbs -> [state : {"new", "sent", "done"}, ref : Int, granted : BOOLEAN]]
    BY DEF UsbInit
  <2> QED BY <2>1, <2>2 DEF UsbInit, UrbTypes
<1>5. MemoryOurs
  BY DEF UsbInit, MemoryOurs
<1>6. Uncancelled
  <2>1. IsInjective(<<>>) /\ ToSet(<<>>) = {} /\ <<>> \in Seq(Sent)
    BY DEF IsInjective, ToSet
  <2>2. InUse = {}
    BY DEF UsbInit, InUse
  <2>3. Listed
    BY <2>1 DEF UsbInit, Listed
  <2>4. Collected
    BY <2>1 DEF UsbInit, Collected, DpcIdle
  <2>5. Owned /\ Travels
    BY <2>1, <2>2 DEF UsbInit, Owned, Travels
  <2> QED BY <2>3, <2>4, <2>5 DEF UsbInit, Uncancelled
<1> QED BY <1>1, <1>2, <1>3, <1>4, <1>5, <1>6 DEF UsbIInv, PortsIInv, UrbsIInv

LEMMA UsbSteps == UsbIInv /\ [UsbNext]_usbVars => UsbIInv'
<1> SUFFICES ASSUME UsbIInv, [UsbNext]_usbVars PROVE UsbIInv'
  OBVIOUS
<1>0. PortsIInv /\ UrbsIInv /\ PortTypes /\ dpc \in DpcData /\ event \in BOOLEAN
  BY DEF UsbIInv, PortsIInv, PortTypes, UrbsIInv, UrbTypes
<1>1. CASE UNCHANGED usbVars
  <2>1. PortTypes' /\ Told' /\ Reports'
    BY <1>0, <1>1, PortsSame DEF usbVars, usb, ports, PortsIInv
  <2>2. UrbTypes' /\ MemoryOurs'
    BY <1>0, <1>1 DEF usbVars, usb, UrbsIInv, UrbTypes, MemoryOurs
  <2>3. Uncancelled => Uncancelled'
    BY <1>1 DEF usbVars, usb, Uncancelled, Listed, Collected, Owned, Travels, InUse
  <2> QED BY <1>0, <1>1, <2>1, <2>2, <2>3 DEF UsbIInv, PortsIInv, UrbsIInv, usbVars, usb
<1>2. CASE UsbNext
  <2>0. ~corrupt
    BY <1>2 DEF UsbNext
  <2>1. ASSUME NEW r \in Urbs, Submit(r) PROVE UsbIInv'
    <3>1. UNCHANGED <<ports, dpc, device_state>>
      BY <2>1 DEF Submit, Corrupt, usb
    <3> QED BY <1>0, <2>0, <2>1, <3>1, SubmitUrbs, PortsSame DEF UsbIInv
  <2>2. ASSUME NEW r \in Urbs, Cancel(r) PROVE UsbIInv'
    <3>1. UNCHANGED <<ports, dpc, device_state>>
      BY <2>2 DEF Cancel
    <3> QED BY <1>0, <2>0, <2>2, <3>1, CancelUrbs, PortsSame DEF UsbIInv
  <2>3. CASE CancelRoutine
    <3>1. UNCHANGED <<ports, dpc, device_state>>
      BY <2>3 DEF CancelRoutine, Corrupt, usb
    <3> QED BY <1>0, <2>0, <2>3, <3>1, CancelRoutineUrbs, PortsSame DEF UsbIInv
  <2>4. CASE BackendTakes
    <3>1. UNCHANGED <<ports, dpc, device_state>>
      BY <2>4 DEF BackendTakes
    <3> QED BY <1>0, <2>0, <2>4, <3>1, BackendTakesUrbs, PortsSame DEF UsbIInv
  <2>5. CASE BackendAnswers
    <3>1. UNCHANGED <<ports, dpc, device_state>>
      BY <2>5 DEF BackendAnswers
    <3> QED BY <1>0, <2>0, <2>5, <3>1, BackendAnswersUrbs, PortsSame DEF UsbIInv
  <2>6. CASE Disconnect
    <3>1. UNCHANGED <<ports, dpc>> /\ device_state # "DISCONNECTED"
      BY <2>6 DEF Disconnect
    <3>2. PortsIInv'
      BY <1>0, <3>1, PortsSame
    <3>3. /\ UNCHANGED <<queue, ring, ids, partials, other, freed, pvurb, cancelling, cancels,
                         requests, working, responses, corrupt, event, dpc>>
          /\ device_state' = "DISCONNECTING"
      BY <2>6 DEF Disconnect
    <3> QED BY <1>0, <2>0, <3>2, <3>3, UrbsStay DEF UsbIInv
  <2>7. CASE FreeRings
    BY <1>0, <2>0, <2>7, FreeRingsPorts, FreeRingsUrbs DEF UsbIInv
  <2>8. CASE Connect
    <3>1. /\ UNCHANGED <<queue, ring, ids, partials, other, freed, pvurb, cancelling, cancels,
                         requests, working, responses, corrupt, dpc>>
          /\ device_state' = "ACTIVE" /\ event' \in BOOLEAN
      BY <2>8 DEF Connect
    <3>2. UrbsIInv'
      BY <1>0, <2>0, <3>1, UrbsStay
    <3> QED BY <1>0, <2>8, <3>2, ConnectPorts DEF UsbIInv
  <2>9. CASE DpcStart
    <3>1. /\ UNCHANGED <<usb, ports, corrupt>> /\ event' = FALSE /\ dpc.pc = "idle"
          /\ dpc' = [dpc EXCEPT !.pc = "urbs"]
      BY <2>9 DEF DpcStart
    <3>2. /\ dpc' \in DpcData /\ dpc'.pc = "urbs" /\ dpc'.portChanged = dpc.portChanged
          /\ dpc'.tmp = dpc.tmp /\ dpc'.port = dpc.port /\ dpc'.complete = dpc.complete
      BY <1>0, <3>1 DEF DpcData, DpcPlaces
    <3>3. PortsIInv'
      BY <1>0, <3>1, <3>2, PortsStay DEF usb
    <3> QED BY <1>0, <2>0, <3>1, <3>2, <3>3, PortsOnly DEF UsbIInv
  <2>10. CASE DpcResponse
    <3>1. UrbsIInv' /\ dpc' \in DpcData
      BY <1>0, <2>0, <2>10, DpcResponseUrbs
    <3>2. /\ UNCHANGED <<ports, device_state>> /\ dpc'.pc = dpc.pc /\ dpc'.portChanged = dpc.portChanged
          /\ dpc'.tmp = dpc.tmp /\ dpc'.port = dpc.port
      BY <1>0, <2>10 DEF DpcResponse, Corrupt, DpcData, usb
    <3> QED BY <1>0, <3>1, <3>2, PortsStay DEF UsbIInv
  <2>11. CASE DpcPut
    <3>1. /\ UNCHANGED <<ports, device_state>> /\ dpc.pc = "urbs" /\ dpc' = [dpc EXCEPT !.pc = "complete"]
      BY <2>11 DEF DpcPut
    <3>2. /\ dpc' \in DpcData /\ dpc'.pc = "complete" /\ dpc'.portChanged = dpc.portChanged
          /\ dpc'.tmp = dpc.tmp /\ dpc'.port = dpc.port
      BY <1>0, <3>1 DEF DpcData, DpcPlaces
    <3> QED BY <1>0, <2>0, <2>11, <3>1, <3>2, PortsStay, DpcPutUrbs DEF UsbIInv
  <2>12. CASE DpcComplete
    <3>1. UrbsIInv' /\ dpc' \in DpcData
      BY <1>0, <2>0, <2>12, DpcCompleteUrbs
    <3>2. /\ UNCHANGED <<ports, device_state>> /\ dpc'.pc = dpc.pc /\ dpc'.portChanged = dpc.portChanged
          /\ dpc'.tmp = dpc.tmp /\ dpc'.port = dpc.port
      BY <1>0, <2>12 DEF DpcComplete, Corrupt, DpcData, usb
    <3> QED BY <1>0, <3>1, <3>2, PortsStay DEF UsbIInv
  <2>13. CASE DpcConn
    <3>1. UNCHANGED <<usb, corrupt, event>> /\ dpc.pc = "complete" /\ dpc'.complete = dpc.complete
      BY <1>0, <2>13 DEF DpcConn, DpcData
    <3> QED BY <1>0, <2>0, <2>13, <3>1, PortsOnly, DpcConnPorts DEF UsbIInv
  <2>14. CASE DpcChange
    <3>1. UNCHANGED <<usb, corrupt, event>> /\ dpc.pc = "change" /\ dpc'.complete = dpc.complete
      BY <1>0, <2>14 DEF DpcChange, DpcData
    <3> QED BY <1>0, <2>0, <2>14, <3>1, PortsOnly, DpcChangePorts DEF UsbIInv
  <2>15. CASE DpcConnEnd
    <3>1. /\ UNCHANGED <<usb, corrupt, event>> /\ dpc.pc = "complete"
          /\ dpc'.complete = dpc.complete \/ dpc'.complete = <<>>
      BY <1>0, <2>15 DEF DpcConnEnd, DpcData, DpcIdle
    <3> QED BY <1>0, <2>0, <2>15, <3>1, PortsOnly, DpcConnEndPorts DEF UsbIInv
  <2>16. CASE DpcRetrieve
    <3>1. /\ UNCHANGED <<usb, corrupt, event>> /\ dpc.pc = "process"
          /\ dpc'.complete = dpc.complete \/ dpc'.complete = <<>>
      BY <1>0, <2>16 DEF DpcRetrieve, DpcData, DpcIdle
    <3> QED BY <1>0, <2>0, <2>16, <3>1, PortsOnly, DpcRetrievePorts DEF UsbIInv
  <2>17. CASE DpcRequeue
    <3>1. UNCHANGED <<usb, corrupt, event>> /\ dpc.pc = "requeue" /\ dpc'.complete = <<>>
      BY <2>17 DEF DpcRequeue, DpcIdle
    <3> QED BY <1>0, <2>0, <2>17, <3>1, PortsOnly, DpcRequeuePorts DEF UsbIInv
  <2>18. ASSUME NEW p \in Ports, Plug(p) PROVE UsbIInv'
    <3>1. UNCHANGED <<usb, corrupt, dpc>> /\ event' = TRUE
      BY <2>18 DEF Plug
    <3> QED BY <1>0, <2>0, <2>18, <3>1, PortsOnly, PlugPorts DEF UsbIInv
  <2>19. ASSUME NEW p \in Ports, NEW op \in Bits \cup {"disable", "reset"}, HubFeature(p, op) PROVE UsbIInv'
    <3>1. UNCHANGED <<usb, corrupt, dpc, event>> /\ op \in Changes
      BY <2>19 DEF HubFeature, Changes
    <3> QED BY <1>0, <2>0, <2>19, <3>1, PortsOnly, HubFeaturePorts DEF UsbIInv
  <2>20. CASE HubInterrupt
    <3>1. UNCHANGED <<usb, corrupt, dpc, event>>
      BY <2>20 DEF HubInterrupt
    <3> QED BY <1>0, <2>0, <2>20, <3>1, PortsOnly, HubInterruptPorts DEF UsbIInv
  <2>21. CASE HubRetrieve
    <3>1. UNCHANGED <<usb, corrupt, dpc, event>>
      BY <2>21 DEF HubRetrieve
    <3> QED BY <1>0, <2>0, <2>21, <3>1, PortsOnly, HubRetrievePorts DEF UsbIInv
  <2>22. CASE HubRequeue
    <3>1. UNCHANGED <<usb, corrupt, dpc, event>>
      BY <2>22 DEF HubRequeue
    <3> QED BY <1>0, <2>0, <2>22, <3>1, PortsOnly, HubRequeuePorts DEF UsbIInv
  <2>23. CASE HubWrite
    <3>1. UNCHANGED <<usb, corrupt, dpc, event>>
      BY <2>23 DEF HubWrite
    <3> QED BY <1>0, <2>0, <2>23, <3>1, PortsOnly, HubWritePorts DEF UsbIInv
  <2> QED BY <1>2, <2>1, <2>2, <2>3, <2>4, <2>5, <2>6, <2>7, <2>8, <2>9, <2>10, <2>11, <2>12, <2>13,
             <2>14, <2>15, <2>16, <2>17, <2>18, <2>19, <2>20, <2>21, <2>22, <2>23
          DEF UsbNext, Dpc, HubStep
<1> QED BY <1>1, <1>2

\* As many ids are in use as there are requests on the ring.
LEMMA AsManyIds ==
  ASSUME UrbTypes, Listed, Owned
  PROVE  Cardinality(InUse) = Len(ring)
<1> DEFINE f == [i \in InUse |-> partials[i]]
<1>1. IsFiniteSet(InUse)
  <2>1. IsFiniteSet(Ids) /\ InUse \in SUBSET Ids
    BY UsbAssumption DEF InUse
  <2> QED BY <2>1, FS_Subset
<1>2. f \in [InUse -> ToSet(ring)]
  BY DEF Owned
<1>3. \A i, j \in InUse : f[i] = f[j] => i = j
  BY DEF Owned
<1>4. \A p \in ToSet(ring) : \E i \in InUse : f[i] = p
  BY DEF Owned
<1>5. Cardinality(ToSet(ring)) = Cardinality(InUse)
  BY <1>1, <1>2, <1>3, <1>4, SameSize
<1> QED BY <1>5, Distinct DEF Listed

LEMMA UrbsSay == UsbIInv => RequestsSound
<1> SUFFICES ASSUME UsbIInv PROVE RequestsSound
  OBVIOUS
<1>1. PortTypes /\ UrbTypes /\ MemoryOurs
  BY DEF UsbIInv, PortsIInv, UrbsIInv
<1>2. UsbTypeOK
  BY <1>1 DEF UsbTypeOK, PortTypes, UrbTypes
<1>3. ASSUME cancels = {}
      PROVE  /\ \A i \in Ids : i \in ids \/ On(partials[i], ring)
             /\ \A i, j \in Ids \ ids : partials[i] = partials[j] => i = j
             /\ Cardinality(Ids \ ids) = Len(ring)
             /\ (queue # <<>> => ids = {} \/ ~LockFree)
  <2>1. Uncancelled
    BY <1>3 DEF UsbIInv, UrbsIInv
  <2>2. ring \in Seq(Sent)
    BY <2>1 DEF Uncancelled, Listed
  <2>3. \A i \in Ids : i \in ids \/ On(partials[i], ring)
    BY <2>1, <2>2, Listing DEF Uncancelled, Owned, InUse
  <2>4. Cardinality(Ids \ ids) = Len(ring)
    BY <1>1, <2>1, AsManyIds DEF Uncancelled, InUse
  <2> QED BY <2>1, <2>3, <2>4 DEF Uncancelled, Owned, InUse, LockFree
<1>4. ASSUME cancels = {}, NEW r \in Urbs, pvurb[r].state = "done"
      PROVE  /\ ~pvurb[r].granted
             /\ \A i \in (Ids \ ids) \union working : partials[i] # Urb(r)
             /\ \A k \in DOMAIN requests : partials[requests[k]] # Urb(r)
  <2>1. Uncancelled
    BY <1>4 DEF UsbIInv, UrbsIInv
  <2>2. Urb(r) \notin ToSet(ring)
    BY <1>4, <2>1 DEF Uncancelled, Listed
  <2>3. \A i \in InUse : partials[i] # Urb(r)
    BY <2>1, <2>2 DEF Uncancelled, Owned
  <2>4. working \subseteq InUse /\ \A k \in DOMAIN requests : requests[k] \in InUse
    BY <1>1, <2>1 DEF Uncancelled, Travels, ToSet, UrbTypes
  <2> QED BY <1>4, <2>1, <2>3, <2>4 DEF Uncancelled, Collected, InUse
<1> QED BY <1>1, <1>2, <1>3, <1>4 DEF RequestsSound, IdsAccounted, CompletedIsReleased

\* What is behind the two: every request and every port is accounted for.
THEOREM UsbInvariance == UsbSpec => []UsbIInv
BY UsbBegins, UsbSteps, PTL DEF UsbSpec

\* Requests, their ids and the memory of both agree, through the exhaustion of the ids
\* and a suspend, as long as no cancel routine has run.
THEOREM UrbsAreSound == UsbSpec => []RequestsSound
BY UsbInvariance, UrbsSay, PTL

\* The hub driver learns of every change and finds the ports as they are.
THEOREM PortsAreSound == UsbSpec => []PortsSound
<1>1. UsbIInv => PortsSound
  BY PortsSay DEF UsbIInv
<1> QED BY <1>1, UsbInvariance, PTL
=============================================================================
