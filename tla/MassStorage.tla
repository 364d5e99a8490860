----------------------------- MODULE MassStorage -----------------------------
(***************************************************************************)
(* usb_mass_storage.c over the bulk transfers of the host controller.      *)
(* A command is a wrapper sent out, for some commands a data phase, and a  *)
(* status read back; the device answers in order and keeps what was not    *)
(* taken.  A bulk transfer is done, is refused (-1), or is reported as done *)
(* with nothing moved: the EHCI driver does so on a timeout.                *)
(***************************************************************************)
EXTENDS Naturals, Sequences

CONSTANTS
  MaxTag,    \* bound: commands sent
  MaxLun     \* the highest unit the device reports

(* storage.left: what the device has still to send; step: where the command *)
(* in progress is; csw: the 13 bytes on the stack, which a transfer that    *)
(* moves nothing leaves as they were; buffer: the tag of the command whose  *)
(* blocks the caller's buffer holds, 0 for none.                            *)
VARIABLE storage

Csw(t, ok) == [is |-> "csw", tag |-> t, passed |-> ok]
Data(t) == [is |-> "data", tag |-> t, passed |-> TRUE]
Garbage == [is |-> "garbage", tag |-> 0, passed |-> FALSE]

MassStorageInit ==
  storage = [next_tag |-> 1, step |-> "idle", op |-> "none", csw |-> Garbage, buffer |-> 0,
             left |-> <<>>, ready |-> FALSE, probing |-> FALSE, result |-> "none",
             lun_count |-> 0]

tag == storage.next_tag - 1
Command == {"test_unit_ready", "inquiry", "read_capacity", "read", "write"}
DataIn == {"inquiry", "read_capacity", "read"}

(* What the device puts in its queue for a command. Data comes whole: a     *)
(* device that sends less says so in data_residue, which nothing reads.     *)
Answers(op) == {IF op \in DataIn THEN <<Data(tag), Csw(tag, ok)>> ELSE <<Csw(tag, ok)>> :
                  ok \in BOOLEAN}

Begun(s, op) == [s EXCEPT !.next_tag = @ + 1, !.step = "cbw", !.op = op, !.buffer = 0]

(* The probe runs the first three commands, one after the other, and then   *)
(* readies the device; get_max_lun and reset before them never fail it. A   *)
(* reset that was refused leaves in the device what it has still to send.   *)
After == [test_unit_ready |-> "inquiry", inquiry |-> "read_capacity"]

Ended(s, result) ==
  IF s.probing /\ result = "ok" /\ s.op # "read_capacity" THEN Begun(s, After[s.op])
  ELSE [s EXCEPT !.step = "idle", !.result = result,
                 !.probing = FALSE,
                 !.ready = @ \/ (s.probing /\ result = "ok")]

ProbeDisk ==
  /\ storage.step = "idle" /\ ~storage.ready
  /\ storage.next_tag + 2 <= MaxTag
  /\ \E max_lun \in 0..MaxLun, left \in {<<>>, storage.left} :
       storage' = Begun([storage EXCEPT !.probing = TRUE, !.lun_count = max_lun + 1,
                                        !.left = left, !.csw = Garbage],
                        "test_unit_ready")

Start(op) ==
  /\ storage.step = "idle" /\ storage.ready
  /\ storage.next_tag <= MaxTag
  /\ storage' = Begun(storage, op)

(* usb_mass_storage_send_cbw *)
SendCbw ==
  /\ storage.step = "cbw"
  /\ \/ \E queue \in Answers(storage.op) \cup {<<>>} :   \* <<>>: not moved, reported as done
          storage' = [storage EXCEPT !.left = @ \o queue,
                        !.step = IF storage.op = "test_unit_ready" THEN "csw" ELSE "data"]
     \/ storage' = Ended(storage, "error")

(* The data phase: the device's next packet, whatever it is, is what an IN   *)
(* transfer puts in the buffer.                                             *)
DataPhase ==
  /\ storage.step = "data"
  /\ \/ storage.op \in DataIn /\ storage.left # <<>>
        /\ storage' = [storage EXCEPT !.left = Tail(@), !.step = "csw",
                         !.buffer = IF Head(storage.left).is = "data"
                                    THEN Head(storage.left).tag ELSE 0]
     \/ storage' = [storage EXCEPT !.step = "csw",
                      !.buffer = IF storage.op = "write" THEN tag ELSE @]
     \/ storage' = Ended(storage, "error")

AnyTag(csw) == csw.is = "csw"
Verified(csw) == csw.is = "csw" /\ csw.tag = tag

(* usb_mass_storage_get_csw and the caller's test of the status *)
Judged(s) == Ended(s, IF Verified(s.csw) /\ s.csw.passed THEN "ok" ELSE "error")

GetCsw ==
  /\ storage.step = "csw"
  /\ \/ storage.left # <<>>
        /\ storage' = Judged([storage EXCEPT !.csw = Head(storage.left), !.left = Tail(@)])
     \/ storage' = Judged(storage)
     \/ storage' = Ended(storage, "error")

RemoveDisk ==
  /\ storage.step = "idle" /\ storage.ready
  /\ storage' = [storage EXCEPT !.ready = FALSE, !.result = "none"]

MassStorageNext ==
  \/ ProbeDisk \/ SendCbw \/ DataPhase \/ GetCsw \/ RemoveDisk
  \/ \E op \in {"read", "write"} : Start(op)

-----------------------------------------------------------------------------
MassStorageTypeOK ==
  /\ storage.next_tag \in 1..MaxTag + 1
  /\ storage.step \in {"idle", "cbw", "data", "csw"}
  /\ storage.op \in Command \cup {"none"}
  /\ storage.result \in {"none", "ok", "error"}

(* A read that returns 0 leaves in the caller's buffer the blocks that the  *)
(* device sent for this very command, whatever earlier transfers failed,    *)
(* timed out or left unread in the device (usb_mass_storage_read).          *)
ReadGivesItsBlocks ==
  storage.step = "idle" /\ storage.op = "read" /\ storage.result = "ok" => storage.buffer = tag
=============================================================================
