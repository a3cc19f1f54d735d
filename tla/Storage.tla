------------------------------ MODULE Storage ------------------------------
(***************************************************************************)
(* Block devices over ATA: drivers/block.c, drivers/disks/ata.c and the    *)
(* shell's blkread, blkwrite and blktest.  The drives of one channel share *)
(* its registers: the status that the driver reads is the selected drive's.*)
(* The driver polls, and the drives work in between, at any speed.         *)
(*                                                                         *)
(* External: a drive.  It sets BSY when it gets a command, takes no        *)
(* command while BSY is set, drops a transfer that was not finished when   *)
(* it gets another command, and reports an error at any point.             *)
(***************************************************************************)
EXTENDS Integers, Sequences

CONSTANTS
  DriveCount,        \* the drives of the channel: master and slave
  Sectors,           \* drive -> sectors for LBA28, words 60 and 61
  LbaMod,            \* 2^28, what the registers hold of an LBA
  MaxLba,            \* the largest LBA that is typed
  MaxDevice,         \* the largest device number that is typed
  TestLba,           \* 100
  Polls,             \* status reads of ata_wait_drq, 1000000
  Data,              \* contents of a sector
  Pattern            \* the content that blktest writes

Drives == 0 .. DriveCount - 1
Lbas == 0 .. LbaMod - 1

ASSUME StorageAssumption ==
  /\ DriveCount \in Nat \ {0} /\ LbaMod \in Nat \ {0}
  /\ Sectors \in [Drives -> 1 .. LbaMod]
  /\ Pattern \in Data
  /\ Data \ {Pattern} # {}
  /\ TestLba \in Nat /\ MaxLba \in Nat /\ MaxDevice \in Nat
  /\ Polls \in Nat \ {0}

VARIABLES
  kind,              \* drive -> "ata", "atapi" or "absent"
  unit,              \* drive -> phase, command, lba and data it works on
  sectors,           \* drive -> lba -> content
  selected,          \* the drive that the channel's registers speak to
  devices,           \* g_block_manager->devices, device number 0 first
  pc,                \* where the driver is
  op,                \* the operation it performs
  polls,             \* status reads that are left
  result,            \* what the last operation returned
  test,              \* where blktest is
  unseen             \* drives that failed to store what this operation sent

storageVars == <<kind, unit, sectors, selected, devices, pc, op, polls, result, test,
                 unseen>>

Commands == {"IDENTIFY", "READ_PIO", "WRITE_PIO", "CACHE_FLUSH"}
NoOp == [cmd |-> "none", drive |-> 0, lba |-> 0, data |-> Pattern]
Idle == [phase |-> "ready", cmd |-> "none", lba |-> 0, data |-> Pattern]

Init ==
  /\ kind \in [Drives -> {"ata", "atapi", "absent"}]
  /\ unit = [d \in Drives |-> Idle]
  /\ sectors \in [Drives -> [Lbas -> {CHOOSE x \in Data : x # Pattern}]]
  /\ selected = 0
  /\ devices = <<>>
  /\ pc = "probe"
  /\ op = [NoOp EXCEPT !.cmd = "IDENTIFY"]
  /\ polls = 0
  /\ result = [op |-> NoOp, status |-> "E_OK", data |-> Pattern]
  /\ test = "no"
  /\ unseen = {}

-----------------------------------------------------------------------------
(* The drives.                                                             *)
BSY(d) == unit[d].phase \in {"busy", "storing"}
DRQ(d) == unit[d].phase = "drq"
ERR(d) == unit[d].phase = "err"

(* The registers get a command for drive d.                                *)
Commanded(d, cmd, lba) ==
  IF kind[d] = "absent" \/ BSY(d) THEN unit
  ELSE [unit EXCEPT ![d] = [phase |-> "busy", cmd |-> cmd, lba |-> lba % LbaMod,
                            data |-> Pattern]]

(* A drive that is busy gets on: to a transfer, to an error or to the end. *)
DriveWorks(d) ==
  /\ BSY(d)
  /\ \E phase \in CASE unit[d].phase = "storing" -> {"ready", "err"}
                    [] unit[d].cmd = "CACHE_FLUSH" -> {"ready", "err"}
                    [] unit[d].cmd = "IDENTIFY" /\ kind[d] = "atapi" -> {"err"}
                    [] OTHER -> {"drq", "err"} :
       /\ unit' = [unit EXCEPT ![d].phase = phase]
       /\ sectors' = IF unit[d].phase = "storing" /\ phase = "ready"
                     THEN [sectors EXCEPT ![d][unit[d].lba] = unit[d].data] ELSE sectors
       /\ unseen' = IF unit[d].phase = "storing" /\ phase = "err"
                    THEN unseen \cup {d} ELSE unseen
  /\ UNCHANGED <<kind, selected, devices, pc, op, polls, result, test>>

-----------------------------------------------------------------------------
(* blktest reads back what it wrote, and then compares.                    *)
AfterTest(status, data) ==
  CASE test = "write" /\ status = "E_OK" -> "read"
    [] test = "read" /\ status = "E_OK" -> IF data = Pattern THEN "passed" ELSE "failed"
    [] OTHER -> "no"

(* The operation returns to its caller.                                    *)
Return(status, data) ==
  /\ result' = [op |-> op, status |-> status, data |-> data]
  /\ test' = AfterTest(status, data)
  /\ IF test' = "read" THEN /\ pc' = "wait"
                            /\ op' = [op EXCEPT !.cmd = "READ_PIO"]
                       ELSE pc' = "ready" /\ op' = NoOp
  /\ polls' = 0

(* ata_identify of the next drive, or the end of ata_driver_init.          *)
NextProbe ==
  IF op.drive + 1 < DriveCount THEN /\ pc' = "probe"
                                    /\ op' = [op EXCEPT !.drive = @ + 1]
                               ELSE pc' = "ready" /\ op' = NoOp

(* Variant: the driver does not wait.                                      *)
ata_wait_busy_Not == TRUE

(* Variant: the driver waits for a drive without an error.                 *)
ata_wait_busy_Error == ~BSY(selected) /\ ~ERR(selected)

(* The status read is that of the drive that was selected last.      *)
ata_wait_busy == ~BSY(selected)

(* The command is sent without a look at BSY.                              *)
ata_identify ==
  /\ pc = "probe"
  /\ selected' = op.drive
  /\ unit' = Commanded(op.drive, "IDENTIFY", 0)
  /\ IF kind[op.drive] = "absent" THEN NextProbe ELSE pc' = "identify" /\ UNCHANGED op
  /\ UNCHANGED <<kind, sectors, devices, polls, result, test, unseen>>

(* A drive that is not ATA shows it when BSY is clear.                     *)
ata_identify_busy ==
  /\ pc = "identify" /\ ata_wait_busy
  /\ IF kind[op.drive] = "atapi"
     THEN NextProbe /\ UNCHANGED polls
     ELSE pc' = "drq" /\ polls' = Polls /\ UNCHANGED op
  /\ UNCHANGED <<kind, unit, sectors, selected, devices, result, test, unseen>>

-----------------------------------------------------------------------------
(* block_get_device: the number is below device_count.                     *)
Known(id) == id < Len(devices)

(* Variant: the LBA is compared with the number of sectors only from above.*)
InRange_Loose(d, lba) == lba <= Sectors[d]

InRange(d, lba) == lba < Sectors[d]

(* block_read and block_write up to the driver's operation, for the        *)
(* shell's commands.                                                       *)
Start(cmd, id, lba, data) ==
  /\ pc = "ready"
  /\ Known(id) /\ InRange(devices[id + 1], lba)
  /\ op' = [cmd |-> cmd, drive |-> devices[id + 1], lba |-> lba, data |-> data]
  /\ pc' = "wait"
  /\ unseen' = {}
  /\ UNCHANGED <<kind, unit, sectors, selected, devices, polls, result>>

block_read(id, lba) == Start("READ_PIO", id, lba, Pattern)

block_write(id, lba, data) == Start("WRITE_PIO", id, lba, data)

cmd_blkread(id, lba) == block_read(id, lba) /\ test' = "no"

cmd_blkwrite(id, lba, data) == block_write(id, lba, data) /\ test' = "no"

cmd_blktest(id) == block_write(id, TestLba, Pattern) /\ test' = "write"

drive_select == op.drive

ata_select_drive_and_lba ==
  /\ pc = "wait" /\ ata_wait_busy
  /\ selected' = drive_select
  /\ unit' = Commanded(drive_select, op.cmd, op.lba)
  /\ pc' = "drq"
  /\ polls' = Polls
  /\ UNCHANGED <<kind, sectors, devices, op, result, test, unseen>>

(* A turn of ata_wait_drq.                                                 *)
ata_wait_drq ==
  /\ pc = "drq"
  /\ \/ /\ DRQ(selected) /\ ~ERR(selected) /\ polls > 0
        /\ pc' = "transfer"
        /\ UNCHANGED <<op, polls, result, test>>
     \/ /\ ~DRQ(selected) /\ ~ERR(selected) /\ polls > 0
        /\ polls' = polls - 1
        /\ UNCHANGED <<pc, op, result, test>>
     \/ /\ ERR(selected) \/ polls = 0
        /\ IF op.cmd = "IDENTIFY" THEN NextProbe /\ UNCHANGED <<polls, result, test>>
                                  ELSE Return("E_HARDWARE", Pattern)
  /\ UNCHANGED <<kind, unit, sectors, selected, devices, unseen>>

(* The driver reads 256 words: what the drive works on, not what was asked.*)
Delivered == sectors[selected][unit[selected].lba]

ata_read_block_op ==
  /\ pc = "transfer" /\ op.cmd = "READ_PIO"
  /\ unit' = [unit EXCEPT ![selected].phase = "ready"]
  /\ Return("E_OK", Delivered)
  /\ UNCHANGED <<kind, sectors, selected, devices, unseen>>

(* The identification of a drive, which is then registered.                *)
ata_identified ==
  /\ pc = "transfer" /\ op.cmd = "IDENTIFY"
  /\ unit' = [unit EXCEPT ![selected].phase = "ready"]
  /\ devices' = Append(devices, op.drive)
  /\ NextProbe
  /\ UNCHANGED <<kind, sectors, selected, polls, result, test, unseen>>

(* The driver writes 256 words; then the drive stores them.                *)
ata_write_block_op ==
  /\ pc = "transfer" /\ op.cmd = "WRITE_PIO"
  /\ unit' = [unit EXCEPT ![selected].phase = "storing", ![selected].data = op.data]
  /\ pc' = "stored"
  /\ UNCHANGED <<kind, sectors, selected, devices, op, polls, result, test, unseen>>

(* The status after the write is not looked at for an error.               *)
ata_flush ==
  /\ pc = "stored" /\ ata_wait_busy
  /\ selected' = drive_select
  /\ unit' = Commanded(drive_select, "CACHE_FLUSH", 0)
  /\ pc' = "flushed"
  /\ UNCHANGED <<kind, sectors, devices, op, polls, result, test, unseen>>

ata_flushed ==
  /\ pc = "flushed" /\ ata_wait_busy
  /\ Return("E_OK", op.data)
  /\ UNCHANGED <<kind, unit, sectors, selected, devices, unseen>>

-----------------------------------------------------------------------------
Driver ==
  \/ ata_identify \/ ata_identify_busy \/ ata_identified
  \/ ata_select_drive_and_lba \/ ata_wait_drq
  \/ ata_read_block_op \/ ata_write_block_op
  \/ ata_flush \/ ata_flushed

Shell ==
  \E id \in 0 .. MaxDevice :
    \/ cmd_blktest(id)
    \/ \E lba \in 0 .. MaxLba : \/ cmd_blkread(id, lba)
                                \/ \E x \in Data : cmd_blkwrite(id, lba, x)

Next == Driver \/ Shell \/ \E d \in Drives : DriveWorks(d)

(* The driver runs, and a drive does not stay busy for ever.               *)
Spec ==
  /\ Init /\ [][Next]_storageVars
  /\ WF_storageVars(Driver)
  /\ \A d \in Drives : WF_storageVars(DriveWorks(d))

-----------------------------------------------------------------------------
(* While the driver waits for data or transfers it, the selected drive     *)
(* works on the command that the driver sent, not on one that timed out:   *)
(* ata_wait_busy looks at the drive selected last, which may be another    *)
(* one, and still no command is sent to a drive that is busy.              *)
DriveFollows ==
  pc \in {"drq", "transfer"} =>
    /\ selected = op.drive
    /\ unit[selected].cmd = op.cmd /\ unit[selected].lba = op.lba

(* A read that succeeds returns what the sector holds that was asked for.  *)
ReadIsExact ==
  [][result' # result /\ result'.op.cmd = "READ_PIO" /\ result'.status = "E_OK"
       => result'.data = sectors[result'.op.drive][result'.op.lba]]_storageVars

(* A sector changes only while the driver writes to it, with the data that *)
(* the caller gave.                                                        *)
OnlyAskedChanges ==
  [][\A d \in Drives, l \in Lbas : sectors'[d][l] # sectors[d][l] =>
       /\ op.cmd = "WRITE_PIO" /\ op.drive = d /\ op.lba = l
       /\ sectors'[d][l] = op.data]_storageVars

(* When block_write returns E_OK the sector holds the data, unless the     *)
(* drive reported that it could not store what it was sent, which the      *)
(* driver does not look at.                                                *)
WriteIsStored ==
  [][result' # result /\ result'.op.cmd = "WRITE_PIO" /\ result'.status = "E_OK"
       => \/ sectors[result'.op.drive][result'.op.lba] = result'.op.data
          \/ result'.op.drive \in unseen]_storageVars

(* Every operation returns, and the search for drives ends, provided that  *)
(* drives do not stay busy for ever: only ata_wait_drq has a limit.        *)
OperationEnds == []<>(pc = "ready")
=============================================================================
