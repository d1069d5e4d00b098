------------------------------ MODULE VbdScsi ------------------------------
(***************************************************************************)
(* What the block miniport for scsiport makes of the requests it is given: *)
(* the SCSI commands it answers itself, the sense data of the device, its  *)
(* count of requests and its timer, and the control requests by which      *)
(* xenvbd_filter, which owns the connection to the backend, stops and      *)
(* starts it (xenvbd_common/common_miniport.h, xenvbd_scsiport/xenvbd.c).  *)
(* A request is one request on the ring; VbdRing has those that are split. *)
(***************************************************************************)
EXTENDS Integers, Sequences, FiniteSets

CONSTANTS Srbs,       \* requests of the class driver
          Commands,   \* what they ask: records, see Answer
          DeviceType, \* one of Types
          Shadows,    \* SHADOW_ENTRIES
          MaxSectors, \* the sizes the disk may have are 1 .. MaxSectors
          Limit,      \* of the requests scsiport may have outstanding
          SerialNumber \* its length

\* "reset" stands for a request that was reset while it was on the ring.
VbdScsiAssumption == IsFiniteSet(Srbs) /\ "reset" \notin Srbs /\ SerialNumber \in Nat

VARIABLES xvdd, xvsd, srb, list, answers, filter, pc, untold
vars == <<xvdd, xvsd, srb, list, answers, filter, pc, untold>>
-----------------------------------------------------------------------------
(***************************************************************************)
(* The commands that carry data.  An answer has the length told, what is   *)
(* written of it into a buffer of n bytes, and the length its own header   *)
(* gives.                                                                  *)
(***************************************************************************)
Failed == [ok |-> FALSE, told |-> 0, written |-> 0, describes |-> 0]
Data(told, written, describes) == [ok |-> TRUE, told |-> told, written |-> written, describes |-> describes]
Clip(a, b) == IF a < b THEN a ELSE b

Types == {"DISK", "CDROM"}   \* other types are not answered
InquiryData == 96        \* sizeof(INQUIRYDATA)
VendorSpecific == 36     \* its first 36 bytes are what is filled in
VpdPages == {"SUPPORTED_PAGES", "SERIAL_NUMBER", "DEVICE_IDENTIFIERS"}

StandardInquiry(type) ==
    IF type = "DISK" THEN Data(VendorSpecific, VendorSpecific, InquiryData)
                     ELSE Data(InquiryData, VendorSpecific, VendorSpecific)

\* A list of pages, the serial number, and the serial number twice if there is room for both.
DiskPage(page, n) ==
    LET serial == 4 + SerialNumber
        both == 4 + 2 * (4 + SerialNumber)
    IN  CASE page = "SUPPORTED_PAGES" -> Data(8, 8, 8)
          [] page = "SERIAL_NUMBER" -> Data(serial, IF n > 4 THEN Clip(n, serial) ELSE 4, serial)
          [] page = "DEVICE_IDENTIFIERS" -> Data(both, IF n >= both THEN both ELSE 4, both)
          [] OTHER -> Failed

CdromPage(page) ==
    CASE page = "SUPPORTED_PAGES" -> Data(6, 6, 6)
      [] page = "SERIAL_NUMBER" -> Data(12, 12, 12)
      [] OTHER -> Failed

Inquiry(type, page, n) ==
    CASE page = "STANDARD" -> StandardInquiry(type)
      [] page # "STANDARD" /\ type = "DISK" -> DiskPage(page, n)
      [] page # "STANDARD" /\ type = "CDROM" -> CdromPage(page)

\* The pages a disk has, and their sizes; a CD-ROM has none.
ModePage == [FORMAT_DEVICE |-> 24, CACHING |-> 12, MEDIUM_TYPES |-> 8]
PagesOf(type, page) ==
    {p \in DOMAIN ModePage : type = "DISK" /\ page \in {p, "ALL"}}

\* XenVbd_FillModePage: header, block descriptor unless refused (dbd), pages.
ModeLength(type, page, header, dbd) ==
    LET size(p) == IF p \in PagesOf(type, page) THEN ModePage[p] ELSE 0
    IN  header + (IF dbd THEN 0 ELSE 8) + size("FORMAT_DEVICE") + size("CACHING") + size("MEDIUM_TYPES")

\* ModeDataLength is one byte or two, and leaves itself out.
Described(offset, header) ==
    IF header = 4 THEN ((offset - 1) % 256) + 1 ELSE ((offset - 2) % 65536) + 2

FillModePage(type, page, header, dbd, n) ==
    IF PagesOf(type, page) = {} /\ page # "ALL" THEN Failed
    ELSE LET offset == ModeLength(type, page, header, dbd)
         IN  Data(offset, Clip(n, offset), Described(offset, header))

ReadToc(page) == IF page = "TOC" THEN Data(12, 12, 10 + 2) ELSE Failed
ReportLuns == Data(16, 16, 8 + 8)
ReadCapacity(op) == IF op = "READ_CAPACITY" THEN Data(8, 8, 8) ELSE Data(16, 16, 16)

\* What is answered to command c, the buffer of which has n bytes.
Answer(type, c, n) ==
    CASE c.op = "INQUIRY" -> Inquiry(type, c.page, n)
      [] c.op = "MODE_SENSE" -> FillModePage(type, c.page, 4, c.dbd, n)
      [] c.op = "MODE_SENSE10" -> FillModePage(type, c.page, 8, c.dbd, n)
      [] c.op \in {"READ_CAPACITY", "READ_CAPACITY16"} -> ReadCapacity(c.op)
      [] c.op = "REPORT_LUNS" -> ReportLuns
      [] c.op = "READ_TOC" -> ReadToc(c.page)
      [] c.op = "TEST_UNIT_READY" -> Data(n, 0, n)   \* and VERIFY, START_STOP_UNIT, RESERVE_UNIT, ...
      [] OTHER -> Failed                              \* WRITE_SAME, UNMAP and what it does not know

Unhandled(c) == c.op = "UNKNOWN"
OnRing(c) == c.op \in {"READ", "WRITE"}
Scsi(c) == c.op \notin {"FLUSH", "RESET_BUS", "WMI"}
-----------------------------------------------------------------------------
NewSrb == [state |-> "none", quiet |-> FALSE, cmd |-> [op |-> "none"]]
OnTheRing == {s \in Srbs : srb[s].state = "ring"}
Taken == Cardinality(OnTheRing) + xvsd.reset + xvsd.lost
RingEmpty == Taken = 0          \* shadow_free == SHADOW_ENTRIES

\* Mutant: a request that does without its sense data takes the sense with it.
AutoSenseDrop(x, s) == [x EXCEPT !.sense = "NO_SENSE", !.cac = FALSE]

\* XenVbd_MakeAutoSense: with SRB_FLAGS_DISABLE_AUTOSENSE the sense is left to be asked for.
AutoSense(x, s) ==
    CASE x.sense = "NO_SENSE" -> x
      [] x.sense # "NO_SENSE" /\ srb[s].quiet -> [x EXCEPT !.cac = TRUE]
      [] x.sense # "NO_SENSE" /\ ~srb[s].quiet -> [x EXCEPT !.sense = "NO_SENSE", !.cac = FALSE]

Given(x, s) == IF srb[s].quiet THEN "NO_SENSE" ELSE x.sense

Hidden(x, s) == AutoSense(x, s).sense # x.sense /\ Given(x, s) # x.sense

\* A change of size that was noticed is told with its sense, or lost when another takes its place.
Told(change, key, given) ==
    CASE given = "UNIT_ATTENTION" -> "none"
      [] given # "UNIT_ATTENTION" /\ change = "resize" /\ key # "UNIT_ATTENTION" -> "lost"
      [] OTHER -> change

\* XenVbd_NotificationRequestComplete: the request belongs to the class driver again.
Returned(s) ==
    /\ srb' = [srb EXCEPT ![s] = NewSrb]
    /\ xvsd' = [xvsd EXCEPT !.outstanding = @ - 1]

\* The end of a command, with the sense x holds.
Complete(s, x, change) ==
    /\ xvdd' = AutoSense(x, s)
    /\ untold' = IF Hidden(x, s) THEN "hidden" ELSE Told(change, x.sense, Given(x, s))
    /\ Returned(s)
-----------------------------------------------------------------------------
\* XenVbd_HwScsiStartIo: a command goes on the list.  One for another unit or for no device is
\* given back at once, and the events are handled all the same.
StartIo(s) ==
    /\ pc = "idle" /\ pc' = "event"
    /\ srb[s].state = "none" /\ xvsd.outstanding < Limit
    /\ xvdd.state # "INACTIVE"
    /\ \E c \in Commands, quiet \in BOOLEAN :
         srb' = [srb EXCEPT ![s] = [state |-> "list", cmd |-> c, quiet |-> quiet /\ Scsi(c)]]
    /\ list' = Append(list, s)
    /\ xvsd' = [xvsd EXCEPT !.outstanding = @ + 1]
    /\ UNCHANGED <<xvdd, answers, filter, untold>>

NoDevice == pc = "idle" /\ pc' = "event" /\ UNCHANGED <<xvdd, xvsd, srb, list, answers, filter, untold>>

\* XENVBD_CONTROL_EVENT, the interrupt as xenvbd_filter passes it on; and HwScsiTimer.
Event ==
    /\ pc = "idle" /\ pc' = "event"
    /\ xvdd.state = "ACTIVE" \/ xvsd.timer
    /\ UNCHANGED <<xvdd, xvsd, srb, list, answers, filter, untold>>

\* XENVBD_CONTROL_STOP is answered at once if nothing is on the ring, else when the ring is empty.
ControlStop ==
    /\ pc = "idle" /\ pc' = "event"
    /\ filter = "running"
    /\ \/ RingEmpty /\ filter' = "closing" /\ UNCHANGED xvsd
       \/ ~RingEmpty /\ filter' = "stopping" /\ xvsd' = [xvsd EXCEPT !.stop = TRUE]
    /\ UNCHANGED <<xvdd, srb, list, answers, untold>>

\* XENVBD_CONTROL_START.
ControlStart ==
    /\ pc = "idle" /\ pc' = "event"
    /\ filter = "starting" /\ filter' = "running"
    /\ UNCHANGED <<xvdd, xvsd, srb, list, answers, untold>>

\* XenVbd_HandleEvent: without a connection only what is no SCSI command is looked at.
HandleEvent ==
    /\ \/ pc = "event" /\ xvdd.state # "ACTIVE" /\ pc' = "only"
       \/ pc = "event" /\ xvdd.state = "ACTIVE" /\ pc' = "loop"
       \/ pc = "loop" /\ pc' = IF xvdd.cac THEN "end" ELSE "responses"
       \/ pc = "responses" /\ (answers = <<>> \/ xvdd.cac) /\ pc' = "list"
       \/ pc = "recheck" /\ pc' = IF answers # <<>> THEN "loop" ELSE "end"
    /\ UNCHANGED <<xvdd, xvsd, srb, list, answers, filter, untold>>

Sets(x, key) == [x EXCEPT !.sense = key]

\* A response: an error is a medium error, whatever sense was waiting.  That of a request that was
\* reset only gives its shadow back.
Response ==
    /\ pc = "responses" /\ answers # <<>> /\ ~xvdd.cac
    /\ answers' = Tail(answers)
    /\ LET a == Head(answers)
       IN  \/ a.srb \in Srbs /\ Complete(a.srb, IF a.ok THEN xvdd ELSE Sets(xvdd, "MEDIUM_ERROR"), untold)
           \/ a.srb \notin Srbs /\ xvsd' = [xvsd EXCEPT !.reset = @ - 1] /\ UNCHANGED <<xvdd, srb, untold>>
    /\ UNCHANGED <<list, filter, pc>>

\* The end of HandleEvent, then the timer that looks again while anything is outstanding.
CompleteDisconnect == xvdd.state = "DISCONNECTING" /\ RingEmpty /\ xvsd.stop

Timer(outstanding) == outstanding > 0

Finish ==
    /\ pc = "end" /\ pc' = "idle"
    /\ xvsd' = [xvsd EXCEPT !.timer = Timer(xvsd.outstanding), !.stop = @ /\ ~CompleteDisconnect]
    /\ filter' = IF CompleteDisconnect THEN "closing" ELSE filter
    /\ UNCHANGED <<xvdd, srb, list, answers, untold>>
-----------------------------------------------------------------------------
\* XenVbd_ProcessSrbList, one request at a time.
Processing == pc \in {"list", "only"}
Leave == pc' = IF pc = "list" THEN "recheck" ELSE "end"
First == list[1]
CanProcess == Processing /\ list # <<>> /\ Taken < Shadows
Execute == CanProcess /\ Scsi(srb[First].cmd) /\ xvdd.state = "ACTIVE"

\* The size that XenVbd_DeviceCallback read is noticed with the next command.
Resized == xvdd.new # 0 /\ xvdd.new # xvdd.sectors
Noticed == IF Resized THEN [xvdd EXCEPT !.sectors = xvdd.new, !.sense = "UNIT_ATTENTION"] ELSE xvdd
Untold == IF Resized THEN "resize" ELSE untold
Waits == Noticed.cac /\ srb[First].cmd.op # "REQUEST_SENSE"

\* Nothing to do, no shadow, no connection, or sense has to be asked for first.
ProcessStop ==
    /\ Processing /\ Leave
    /\ \/ ~CanProcess /\ UNCHANGED <<xvdd, untold>>
       \/ CanProcess /\ Scsi(srb[First].cmd) /\ xvdd.state # "ACTIVE" /\ UNCHANGED <<xvdd, untold>>
       \/ Execute /\ Waits /\ xvdd' = Noticed /\ untold' = Untold
    /\ UNCHANGED <<xvsd, srb, list, answers, filter>>

\* A read or write goes on the ring, or has to wait: for another, for memory, or for grant references.
PutSrbOnRing ==
    /\ Execute /\ ~Waits /\ OnRing(srb[First].cmd)
    /\ xvdd' = Noticed /\ untold' = Untold
    /\ \/ /\ srb' = [srb EXCEPT ![First].state = "ring"] /\ list' = Tail(list) /\ UNCHANGED pc
       \/ Leave /\ UNCHANGED <<srb, list>>
    /\ UNCHANGED <<xvsd, answers, filter>>

\* All other commands are answered here: refused ones with the sense that waits, or that of an
\* illegal request.
Refused(x, c) == IF Unhandled(c) \/ x.sense = "NO_SENSE" THEN Sets(x, "ILLEGAL_REQUEST") ELSE x

ExecuteScsi ==
    /\ Execute /\ ~Waits
    /\ ~OnRing(srb[First].cmd) /\ srb[First].cmd.op # "REQUEST_SENSE"
    /\ list' = Tail(list)
    /\ LET c == srb[First].cmd
           ok == Answer(DeviceType, c, 255).ok
       IN  Complete(First, IF ok THEN Noticed ELSE Refused(Noticed, c), Untold)
    /\ UNCHANGED <<answers, filter, pc>>

\* SCSIOP_REQUEST_SENSE writes to SenseInfoBuffer, and does nothing if there is none.
RequestSense ==
    /\ Execute /\ srb[First].cmd.op = "REQUEST_SENSE"
    /\ list' = Tail(list)
    /\ \/ /\ xvdd' = [Noticed EXCEPT !.sense = "NO_SENSE", !.cac = FALSE]
          /\ untold' = Told(Untold, Noticed.sense, Noticed.sense)
       \/ /\ xvdd' = IF srb[First].quiet THEN AutoSense(Noticed, First) ELSE Noticed
          /\ untold' = Untold
    /\ Returned(First)
    /\ UNCHANGED <<answers, filter, pc>>

\* SRB_FUNCTION_FLUSH, _SHUTDOWN, _WMI, _IO_CONTROL: nothing is done, connected or not.
PlainFunction ==
    /\ CanProcess /\ srb[First].cmd.op \in {"FLUSH", "WMI"}
    /\ list' = Tail(list)
    /\ Returned(First)
    /\ UNCHANGED <<xvdd, answers, filter, pc, untold>>

\* XenVbd_ResetBus: what is queued or on the ring goes back, each once; the shadows stay taken.
ToReset == {s \in Srbs : srb[s].state \in {"list", "ring"}}

Reset(set) ==
    /\ srb' = [s \in Srbs |-> IF s \in set \cup OnTheRing THEN NewSrb ELSE srb[s]]
    /\ xvsd' = [xvsd EXCEPT !.outstanding = @ - Cardinality(set), !.reset = @ + Cardinality(OnTheRing)]
    /\ list' = <<>>
    /\ answers' = [i \in DOMAIN answers |-> [srb |-> "reset", ok |-> TRUE]]
    /\ UNCHANGED <<xvdd, filter, untold>>

\* From scsiport, or as a request of its own, which goes back after the others.
HwScsiResetBus == pc = "idle" /\ UNCHANGED pc /\ Reset(ToReset)
ResetFunction == CanProcess /\ srb[First].cmd.op = "RESET_BUS" /\ UNCHANGED pc /\ Reset(ToReset)
-----------------------------------------------------------------------------
\* The backend answers what is on the ring, in any order.
BackendAnswers ==
    /\ xvdd.state = "ACTIVE"
    /\ \/ \E s \in OnTheRing, ok \in BOOLEAN :
            /\ \A i \in DOMAIN answers : answers[i].srb # s
            /\ answers' = Append(answers, [srb |-> s, ok |-> ok])
       \/ /\ Cardinality({i \in DOMAIN answers : answers[i].srb = "reset"}) < xvsd.reset
          /\ answers' = Append(answers, [srb |-> "reset", ok |-> TRUE])
    /\ UNCHANGED <<xvdd, xvsd, srb, list, filter, pc, untold>>

\* XenVbd_DeviceCallback in xenvbd_filter: the backend wrote Connected again.
DeviceCallback ==
    /\ xvdd.state = "ACTIVE"
    /\ \E n \in 1 .. MaxSectors : n # xvdd.new /\ xvdd' = [xvdd EXCEPT !.new = n]
    /\ UNCHANGED <<xvsd, srb, list, answers, filter, pc, untold>>

\* XenVbd_Disconnect for a suspend: the ring is freed with what is on it.
Disconnect ==
    /\ filter = "closing" /\ pc = "idle"
    /\ filter' = "down" /\ xvdd' = [xvdd EXCEPT !.state = "DISCONNECTED"]
    /\ answers' = <<>>
    /\ srb' = [s \in Srbs |-> IF s \in OnTheRing THEN [srb[s] EXCEPT !.state = "lost"] ELSE srb[s]]
    /\ xvsd' = [xvsd EXCEPT !.reset = 0, !.lost = Taken]
    /\ UNCHANGED <<list, pc, untold>>

\* XenVbd_Connect on resume.
Connect ==
    /\ filter = "down" /\ filter' = "starting"
    /\ \E n \in 1 .. MaxSectors : xvdd' = [xvdd EXCEPT !.state = "ACTIVE", !.sectors = n, !.new = 0]
    /\ UNCHANGED <<xvsd, srb, list, answers, pc, untold>>

Init ==
    /\ \E state \in {"ACTIVE", "INACTIVE"} :
         xvdd = [state |-> state, sense |-> "NO_SENSE", cac |-> FALSE, sectors |-> 1, new |-> 0]
    /\ xvsd = [outstanding |-> 0, timer |-> FALSE, stop |-> FALSE, reset |-> 0, lost |-> 0]
    /\ srb = [s \in Srbs |-> NewSrb]
    /\ list = <<>> /\ answers = <<>>
    /\ filter = IF xvdd.state = "ACTIVE" THEN "running" ELSE "none"
    /\ pc = "idle" /\ untold = "none"

Next ==
    \/ Event \/ ControlStop \/ ControlStart \/ HwScsiResetBus
    \/ HandleEvent \/ Response \/ Finish
    \/ ProcessStop \/ PutSrbOnRing \/ ExecuteScsi \/ RequestSense \/ PlainFunction \/ ResetFunction
    \/ BackendAnswers \/ DeviceCallback \/ Disconnect \/ Connect
    \/ NoDevice \/ \E s \in Srbs : StartIo(s)

Spec == Init /\ [][Next]_vars
-----------------------------------------------------------------------------
(***************************************************************************)
(* No sense is dropped: what the device has to tell goes with a request,   *)
(* or waits in last_sense_key for the next or for REQUEST_SENSE, which cac *)
(* then holds everything else up for; and a change of size the driver has  *)
(* taken over is still to be told, unless a worse sense took its place.    *)
(***************************************************************************)
SenseSound ==
    /\ untold # "hidden"
    /\ xvdd.cac => xvdd.sense # "NO_SENSE"
    /\ untold = "resize" => xvdd.sense = "UNIT_ATTENTION"

(***************************************************************************)
(* outstanding is what scsiport still waits for, however requests end: by  *)
(* a response, at once, by a reset while on the ring or queued, or never,  *)
(* with a ring that was freed; and the timer that replaces the interrupts  *)
(* that may not come runs while there is any (HwScsiStartIo, HwScsiTimer). *)
(***************************************************************************)
OutstandingExact ==
    /\ xvsd.outstanding = Cardinality({s \in Srbs : srb[s].state \in {"list", "ring", "lost"}})
    /\ pc = "idle" /\ xvsd.outstanding > 0 => xvsd.timer

\* The answers that are put together from a length and pages, for every buffer.
Modes == [op : {"MODE_SENSE", "MODE_SENSE10"}, page : DOMAIN ModePage \cup {"ALL", "OTHER"}, dbd : BOOLEAN]
Vpd == [op : {"INQUIRY"}, page : VpdPages \cup {"BLOCK_LIMITS"}]
Fits ==
    \A type \in Types, n \in {4, 5, 8, 11, 12, 36, 64} :
        /\ \A c \in Modes : Answer(type, c, n).written <= n
        /\ \A c \in Modes \cup Vpd \cup [op : {"READ_TOC", "REPORT_LUNS"}, page : {"TOC"}] :
             Answer(type, c, n).describes = Answer(type, c, n).told
(***************************************************************************)
(* What is answered to INQUIRY for a page, MODE SENSE, READ TOC and REPORT *)
(* LUNS gives the length it has, in its own header and to scsiport alike,  *)
(* and what is built from pages never goes beyond a buffer of any size.    *)
(***************************************************************************)
AnswersFit == Processing => Fits

(***************************************************************************)
(* A stop that waits for the ring to empty is answered once it has: what   *)
(* xenvbd_filter waits for before it writes Closing (CONTROL_STOP).        *)
(***************************************************************************)
StopWaitsForRing == pc = "idle" /\ xvsd.stop => ~RingEmpty

(***************************************************************************)
(* Sense data, the number of requests and the answers, taken together.     *)
(***************************************************************************)
ScsiSound == SenseSound /\ OutstandingExact /\ AnswersFit
=============================================================================
