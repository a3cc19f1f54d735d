--------------------------- MODULE StorageProofs ---------------------------
(***************************************************************************)
(* For any number of drives on the channel, any sizes and any number of    *)
(* polls: the selected drive works on the command that the driver sent     *)
(* last, reads return the sector that was asked for, and no other sector   *)
(* than the one that is written ever changes.                              *)
(***************************************************************************)
EXTENDS Storage, TLAPS

Phases == {"ready", "busy", "drq", "storing", "err"}
Names == Commands \cup {"none"}

Units == [phase : Phases, cmd : Names, lba : Lbas, data : Data]
Ops == [cmd : Names, drive : Drives, lba : Lbas, data : Data]

Types ==
  /\ kind \in [Drives -> {"ata", "atapi", "absent"}]
  /\ unit \in [Drives -> Units]
  /\ sectors \in [Drives -> [Lbas -> Data]]
  /\ selected \in Drives
  /\ devices \in Seq(Drives)
  /\ op \in Ops

(* A registered drive is there, and only the selected one may be busy.     *)
Registered ==
  \A i \in 1 .. Len(devices) :
    /\ kind[devices[i]] # "absent"
    /\ BSY(devices[i]) => devices[i] = selected

(* During ata_driver_init the drives that are still to be identified are   *)
(* idle, and so are the registered ones, which all come before.            *)
Probing ==
  op.cmd = "IDENTIFY" =>
    /\ \A i \in 1 .. Len(devices) : devices[i] < op.drive /\ ~BSY(devices[i])
    /\ \A d \in Drives : d > op.drive \/ (d = op.drive /\ pc = "probe")
                           => unit[d].phase = "ready"

(* Where the driver is tells which operation it performs.                  *)
Places ==
  /\ pc \in {"probe", "identify"} => op.cmd = "IDENTIFY"
  /\ pc = "identify" => /\ selected = op.drive /\ kind[selected] # "absent"
                        /\ unit[selected].cmd = "IDENTIFY"
                        /\ unit[selected].lba = op.lba
  /\ pc \in {"drq", "transfer"} => op.cmd \in {"IDENTIFY", "READ_PIO", "WRITE_PIO"}
  /\ pc = "drq" /\ op.cmd = "IDENTIFY" => kind[selected] # "absent"
  /\ pc = "transfer" /\ op.cmd = "IDENTIFY" => kind[selected] # "absent"
  /\ pc = "wait" => op.cmd \in {"READ_PIO", "WRITE_PIO"}
  /\ pc \in {"stored", "flushed"} => op.cmd = "WRITE_PIO" /\ selected = op.drive
  /\ op.cmd = "IDENTIFY" => op.lba = 0
  /\ op.cmd \in {"READ_PIO", "WRITE_PIO"} =>
       \E i \in 1 .. Len(devices) : devices[i] = op.drive

(* A drive stores only what the write in progress has sent it.             *)
Storing ==
  \A d \in Drives : unit[d].phase = "storing" =>
    /\ pc = "stored" /\ d = selected /\ op.drive = d
    /\ unit[d].lba = op.lba /\ unit[d].data = op.data

IInv == Types /\ Registered /\ Probing /\ Places /\ Storing /\ DriveFollows

-----------------------------------------------------------------------------
(* What NoOp and the idle drive are made of.                               *)
LEMMA Constants ==
  /\ 0 \in Drives /\ 0 \in Lbas
  /\ Idle \in Units /\ Idle.phase = "ready"
  /\ NoOp \in Ops /\ NoOp.cmd = "none" /\ NoOp.lba = 0
  /\ [NoOp EXCEPT !.cmd = "IDENTIFY"] \in Ops
  /\ [NoOp EXCEPT !.cmd = "IDENTIFY"].cmd = "IDENTIFY"
  /\ [NoOp EXCEPT !.cmd = "IDENTIFY"].drive = 0
  /\ [NoOp EXCEPT !.cmd = "IDENTIFY"].lba = 0
<1>1. 0 \in Drives /\ 0 \in Lbas
  BY StorageAssumption DEF Drives, Lbas
<1> QED
  BY Zenon, <1>1, StorageAssumption DEF Idle, NoOp, Units, Ops, Phases, Names, Commands

(* A command that a drive takes replaces what it worked on; the other      *)
(* drives go on with theirs.                                               *)
LEMMA CommandedUnit ==
  ASSUME unit \in [Drives -> Units], NEW d \in Drives, NEW cmd \in Names, NEW lba \in Lbas
  PROVE  /\ Commanded(d, cmd, lba) \in [Drives -> Units]
         /\ \A e \in Drives : e # d => Commanded(d, cmd, lba)[e] = unit[e]
         /\ kind[d] # "absent" /\ ~BSY(d) =>
              /\ Commanded(d, cmd, lba)[d].phase = "busy"
              /\ Commanded(d, cmd, lba)[d].cmd = cmd
              /\ Commanded(d, cmd, lba)[d].lba = lba
         /\ Commanded(d, cmd, lba)[d].phase = "storing" => unit[d].phase = "storing"
         /\ Commanded(d, cmd, lba)[d].phase = "storing" => Commanded(d, cmd, lba)[d] = unit[d]
<1>1. lba % LbaMod = lba
  BY StorageAssumption DEF Lbas
<1> DEFINE u == [phase |-> "busy", cmd |-> cmd, lba |-> lba, data |-> Pattern]
<1>2. u \in Units
  BY Zenon, StorageAssumption DEF Units, Phases
<1>3. Commanded(d, cmd, lba) = IF kind[d] = "absent" \/ BSY(d) THEN unit
                                                             ELSE [unit EXCEPT ![d] = u]
  BY Zenon, <1>1 DEF Commanded
<1> QED
  BY <1>2, <1>3

(* The next drive to be identified, or none.                               *)
LEMMA NextProbeOp ==
  ASSUME op \in Ops, op.cmd = "IDENTIFY", NextProbe
  PROVE  /\ op' \in Ops
         /\ \/ /\ pc' = "probe" /\ op'.cmd = "IDENTIFY"
               /\ op'.drive = op.drive + 1 /\ op'.lba = op.lba
            \/ pc' = "ready" /\ op'.cmd = "none"
<1>1. CASE op.drive + 1 < DriveCount
  <2>1. op.drive + 1 \in Drives
    BY <1>1, StorageAssumption DEF Ops, Drives
  <2> QED
    BY Zenon, <1>1, <2>1 DEF NextProbe, Ops
<1>2. CASE ~(op.drive + 1 < DriveCount)
  BY Zenon, <1>2, Constants DEF NextProbe
<1> QED
  BY Zenon, <1>1, <1>2

(* A transfer that returns is over, or blktest goes on to read.            *)
LEMMA ReturnOp ==
  ASSUME op \in Ops, NEW status, NEW data, Return(status, data)
  PROVE  /\ op' \in Ops
         /\ \/ /\ pc' = "wait" /\ op'.cmd = "READ_PIO"
               /\ op'.drive = op.drive /\ op'.lba = op.lba
            \/ pc' = "ready" /\ op'.cmd = "none"
BY Zenon, Constants DEF Return, Ops, Names, Commands

-----------------------------------------------------------------------------
(* Before the first drive is looked for every drive is idle.               *)
LEMMA InitIInv == Init => IInv
<1> SUFFICES ASSUME Init PROVE IInv
  BY Zenon
<1> DEFINE x0 == CHOOSE x \in Data : x # Pattern
<1>1. x0 \in Data /\ sectors \in [Drives -> [Lbas -> {x0}]]
  BY Zenon, StorageAssumption DEF Init
<1> HIDE DEF x0
<1>2. sectors \in [Drives -> [Lbas -> Data]]
  <2>1. \A d \in Drives : sectors[d] \in [Lbas -> {x0}]
    BY Zenon, <1>1
  <2>2. \A d \in Drives : sectors[d] \in [Lbas -> Data]
    BY Zenon, <1>1, <2>1
  <2> QED
    BY Zenon, <1>1, <2>2
<1>3. Types
  BY <1>2, Constants DEF Init, Types
<1>4. Registered /\ Probing /\ Places /\ Storing /\ DriveFollows
  BY Constants DEF Init, Registered, Probing, Places, Storing, DriveFollows, BSY
<1> QED
  BY Zenon, <1>3, <1>4 DEF IInv

(* A drive gets IDENTIFY when it is idle.                                  *)
LEMMA IdentifyStep ==
  ASSUME IInv, ata_identify PROVE IInv'
<1> USE DEF IInv, Types, BSY
<1>1. op.drive \in Drives /\ 0 \in Lbas /\ "IDENTIFY" \in Names
  BY Zenon, Constants DEF Ops, Names, Commands
<1> DEFINE C == Commanded(op.drive, "IDENTIFY", 0)
<1>2. unit' = C
  BY Zenon DEF ata_identify, drive_select
<1>3. /\ C \in [Drives -> Units]
      /\ \A e \in Drives : e # op.drive => C[e] = unit[e]
      /\ kind[op.drive] # "absent" /\ ~BSY(op.drive) =>
           C[op.drive].phase = "busy" /\ C[op.drive].cmd = "IDENTIFY" /\ C[op.drive].lba = 0
      /\ C[op.drive].phase = "storing" => /\ unit[op.drive].phase = "storing"
                                          /\ C[op.drive] = unit[op.drive]
  BY <1>1, CommandedUnit
<1> HIDE DEF C
<1>4. op.cmd = "IDENTIFY"
  BY Zenon DEF ata_identify, Places
<1>5. NextProbe => /\ op' \in Ops
                   /\ \/ /\ pc' = "probe" /\ op'.cmd = "IDENTIFY"
                         /\ op'.drive = op.drive + 1 /\ op'.lba = op.lba
                      \/ pc' = "ready" /\ op'.cmd = "none"
  BY Zenon, <1>4, NextProbeOp
<1>7. op.drive \in Int /\ \A d \in Drives : d \in Int
  BY DEF Ops, Drives
<1>10. Types'
  BY Zenon, <1>1, <1>2, <1>3, <1>4, <1>5, <1>7 DEF ata_identify
<1>11. Registered'
  BY <1>1, <1>2, <1>3, <1>4, <1>5, <1>7 DEF ata_identify, Registered, Places, Probing
<1>12. Probing'
  <2>1. \A i \in 1 .. Len(devices) : devices[i] \in Drives /\ devices[i] < op.drive
    BY <1>4 DEF Probing
  <2>2. \A i \in 1 .. Len(devices) : ~BSY(devices[i])'
    BY <1>2, <1>3, <1>4, <1>7, <2>1 DEF ata_identify, Probing
  <2>3. \A d \in Drives : d > op.drive => unit'[d].phase = "ready"
    <3> TAKE d \in Drives
    <3> HAVE d > op.drive
    <3>1. d # op.drive /\ unit[d].phase = "ready"
      BY <1>4, <1>7 DEF Probing
    <3> QED
      BY Zenon, <1>2, <1>3, <3>1
  <2>4. CASE kind[op.drive] = "absent"
    BY <1>5, <1>7, <2>1, <2>2, <2>3, <2>4 DEF ata_identify, Probing
  <2>5. CASE kind[op.drive] # "absent"
    BY Zenon, <1>4, <1>7, <2>1, <2>2, <2>3, <2>5 DEF ata_identify, Probing
  <2> QED
    BY Zenon, <2>4, <2>5
<1>13. Places'
  BY <1>1, <1>2, <1>3, <1>4, <1>5, <1>7 DEF ata_identify, Places, Probing
<1>14. Storing'
  BY <1>1, <1>2, <1>3, <1>4, <1>5, <1>7 DEF ata_identify, Storing
<1>15. DriveFollows'
  BY Zenon, <1>1, <1>2, <1>3, <1>4, <1>5, <1>7 DEF ata_identify, DriveFollows
<1> QED
  BY Zenon, <1>10, <1>11, <1>12, <1>13, <1>14, <1>15

(* The wait after IDENTIFY ends.                                           *)
LEMMA IdentifyBusyStep ==
  ASSUME IInv, ata_identify_busy PROVE IInv'
<1> USE DEF IInv, Types, BSY
<1>4. op.cmd = "IDENTIFY"
  BY Zenon DEF ata_identify_busy, Places
<1>5. NextProbe => /\ op' \in Ops
                   /\ \/ /\ pc' = "probe" /\ op'.cmd = "IDENTIFY"
                         /\ op'.drive = op.drive + 1 /\ op'.lba = op.lba
                      \/ pc' = "ready" /\ op'.cmd = "none"
  BY <1>4, NextProbeOp
<1>7. op.drive \in Int /\ \A d \in Drives : d \in Int
  BY DEF Ops, Drives
<1>10. Types'
  BY Zenon, <1>4, <1>5, <1>7 DEF ata_identify_busy
<1>11. Registered'
  BY Zenon, <1>4, <1>5, <1>7 DEF ata_identify_busy, Registered
<1>12. Probing'
  BY <1>4, <1>5, <1>7 DEF ata_identify_busy, Probing
<1>13. Places'
  BY Zenon, <1>4, <1>5, <1>7 DEF ata_identify_busy, Places
<1>14. Storing'
  BY Zenon, <1>4, <1>5, <1>7 DEF ata_identify_busy, Storing
<1>15. DriveFollows'
  BY Zenon, <1>4, <1>5, <1>7 DEF ata_identify_busy, DriveFollows, Places
<1> QED
  BY <1>10, <1>11, <1>12, <1>13, <1>14, <1>15

(* A drive that has been identified is idle when it is registered.         *)
LEMMA IdentifiedStep ==
  ASSUME IInv, ata_identified PROVE IInv'
<1> USE DEF IInv, Types, BSY
<1>4. op.cmd = "IDENTIFY"
  BY Zenon DEF ata_identified, Places
<1>5. NextProbe => /\ op' \in Ops
                   /\ \/ /\ pc' = "probe" /\ op'.cmd = "IDENTIFY"
                         /\ op'.drive = op.drive + 1 /\ op'.lba = op.lba
                      \/ pc' = "ready" /\ op'.cmd = "none"
  BY <1>4, NextProbeOp
<1>7. op.drive \in Int /\ \A d \in Drives : d \in Int
  BY DEF Ops, Drives
<1>10. Types'
  <2>1. unit' \in [Drives -> Units]
    BY Zenon DEF ata_identified, Units, Phases
  <2>2. devices' \in Seq(Drives)
    BY DEF ata_identified, Ops
  <2> QED
    BY Zenon, <1>5, <2>1, <2>2 DEF ata_identified
<1>11. Registered'
  BY <1>4, <1>5, <1>7
  DEF ata_identified, Registered, Probing, Places, Storing, DriveFollows
<1>12. Probing'
  BY SMTT(30), <1>4, <1>5, <1>7
  DEF ata_identified, Registered, Probing, Places, Storing, DriveFollows
<1>13. Places'
  BY Zenon, <1>4, <1>5, <1>7 DEF ata_identified, Places
<1>14. Storing'
  BY <1>4, <1>5, <1>7 DEF ata_identified, Storing
<1>15. DriveFollows'
  BY Zenon, <1>4, <1>5, <1>7 DEF ata_identified, DriveFollows
<1> QED
  BY <1>10, <1>11, <1>12, <1>13, <1>14, <1>15

(* The selected drive is not busy, hence no registered drive is.           *)
LEMMA SelectStep ==
  ASSUME IInv, ata_select_drive_and_lba PROVE IInv'
<1> USE DEF IInv, Types, BSY
<1>1. op.drive \in Drives /\ op.lba \in Lbas /\ op.cmd \in Names
  BY Zenon, Constants DEF Ops, Names, Commands
<1> DEFINE C == Commanded(op.drive, op.cmd, op.lba)
<1>2. unit' = C
  BY Zenon DEF ata_select_drive_and_lba, drive_select
<1>3. /\ C \in [Drives -> Units]
      /\ \A e \in Drives : e # op.drive => C[e] = unit[e]
      /\ kind[op.drive] # "absent" /\ ~BSY(op.drive) =>
           C[op.drive].phase = "busy" /\ C[op.drive].cmd = op.cmd /\ C[op.drive].lba = op.lba
      /\ C[op.drive].phase = "storing" => /\ unit[op.drive].phase = "storing"
                                          /\ C[op.drive] = unit[op.drive]
  BY <1>1, CommandedUnit
<1> HIDE DEF C
<1>10. Types'
  BY Zenon, <1>1, <1>2, <1>3 DEF ata_select_drive_and_lba, ata_wait_busy, drive_select
<1>11. Registered'
  BY <1>1, <1>2, <1>3
  DEF ata_select_drive_and_lba, ata_wait_busy, drive_select, Registered
<1>12. Probing'
  BY Zenon, <1>1, <1>2, <1>3
  DEF ata_select_drive_and_lba, ata_wait_busy, drive_select, Probing, Places
<1>13. Places'
  BY Zenon, <1>1, <1>2, <1>3 DEF ata_select_drive_and_lba, ata_wait_busy, drive_select, Places
<1>14. Storing'
  BY <1>1, <1>2, <1>3 DEF ata_select_drive_and_lba, ata_wait_busy, drive_select, Storing
<1>15. DriveFollows'
  BY <1>1, <1>2, <1>3
  DEF ata_select_drive_and_lba, ata_wait_busy, drive_select, DriveFollows, Places, Registered
<1> QED
  BY <1>10, <1>11, <1>12, <1>13, <1>14, <1>15

(* A poll, or the end of polling.                                          *)
LEMMA WaitDrqStep ==
  ASSUME IInv, ata_wait_drq PROVE IInv'
<1> USE DEF IInv, Types, BSY
<1>1. op.drive \in Int /\ \A d \in Drives : d \in Int
  BY DEF Ops, Drives
<1>2. UNCHANGED <<kind, unit, sectors, selected, devices>>
  BY Zenon DEF ata_wait_drq
<1>3. CASE UNCHANGED op /\ pc' \in {"drq", "transfer"}
  BY <1>2, <1>3 DEF ata_wait_drq, Registered, Probing, Places, Storing, DriveFollows
<1>4. CASE op.cmd = "IDENTIFY" /\ NextProbe
  <2>1. /\ op' \in Ops
        /\ \/ /\ pc' = "probe" /\ op'.cmd = "IDENTIFY"
              /\ op'.drive = op.drive + 1 /\ op'.lba = op.lba
           \/ pc' = "ready" /\ op'.cmd = "none"
    BY Zenon, <1>4, NextProbeOp
  <2> QED
    BY SMTT(30), <1>1, <1>2, <1>4, <2>1
    DEF ata_wait_drq, Registered, Probing, Places, Storing, DriveFollows
<1>5. CASE op.cmd # "IDENTIFY" /\ Return("E_HARDWARE", Pattern)
  <2>1. /\ op' \in Ops
        /\ \/ /\ pc' = "wait" /\ op'.cmd = "READ_PIO"
              /\ op'.drive = op.drive /\ op'.lba = op.lba
           \/ pc' = "ready" /\ op'.cmd = "none"
    BY Zenon, <1>5, ReturnOp
  <2> QED
    BY <1>2, <1>5, <2>1
    DEF ata_wait_drq, Registered, Probing, Places, Storing, DriveFollows
<1> QED
  BY Zenon, <1>3, <1>4, <1>5 DEF ata_wait_drq

(* The data of a read has been taken.                                      *)
LEMMA ReadStep ==
  ASSUME IInv, ata_read_block_op PROVE IInv'
<1> USE DEF IInv, Types, BSY
<1>6. /\ op' \in Ops
      /\ \/ /\ pc' = "wait" /\ op'.cmd = "READ_PIO"
            /\ op'.drive = op.drive /\ op'.lba = op.lba
         \/ pc' = "ready" /\ op'.cmd = "none"
  BY Zenon, ReturnOp DEF ata_read_block_op
<1>10. Types'
  BY Zenon, <1>6 DEF ata_read_block_op, Units, Phases
<1>11. Registered'
  BY <1>6 DEF ata_read_block_op, Registered
<1>12. Probing'
  BY Zenon, <1>6 DEF ata_read_block_op, Probing
<1>13. Places'
  BY Zenon, <1>6 DEF ata_read_block_op, Places
<1>14. Storing'
  BY <1>6 DEF ata_read_block_op, Storing
<1>15. DriveFollows'
  BY Zenon, <1>6 DEF ata_read_block_op, DriveFollows
<1> QED
  BY <1>10, <1>11, <1>12, <1>13, <1>14, <1>15

(* The data of a write has been sent.                                      *)
LEMMA WriteStep ==
  ASSUME IInv, ata_write_block_op PROVE IInv'
<1> USE DEF IInv, Types, BSY
<1>10. Types'
  BY ZenonT(30) DEF ata_write_block_op, Units, Phases, Ops
<1>11. Registered'
  BY DEF ata_write_block_op, Registered
<1>12. Probing'
  BY Zenon DEF ata_write_block_op, Probing
<1>13. Places'
  BY Zenon DEF ata_write_block_op, Registered, Probing, Places, Storing, DriveFollows
<1>14. Storing'
  BY DEF ata_write_block_op, Storing, Places, DriveFollows
<1>15. DriveFollows'
  BY Zenon DEF ata_write_block_op, DriveFollows
<1> QED
  BY <1>10, <1>11, <1>12, <1>13, <1>14, <1>15

(* CACHE_FLUSH is sent when the write is over.                             *)
LEMMA FlushStep ==
  ASSUME IInv, ata_flush PROVE IInv'
<1> USE DEF IInv, Types, BSY
<1>1. op.drive \in Drives /\ 0 \in Lbas /\ "CACHE_FLUSH" \in Names
  BY Zenon, Constants DEF Ops, Names, Commands
<1> DEFINE C == Commanded(op.drive, "CACHE_FLUSH", 0)
<1>2. unit' = C
  BY Zenon DEF ata_flush, drive_select
<1>3. /\ C \in [Drives -> Units]
      /\ \A e \in Drives : e # op.drive => C[e] = unit[e]
      /\ kind[op.drive] # "absent" /\ ~BSY(op.drive) =>
           C[op.drive].phase = "busy" /\ C[op.drive].cmd = "CACHE_FLUSH" /\ C[op.drive].lba = 0
      /\ C[op.drive].phase = "storing" => /\ unit[op.drive].phase = "storing"
                                          /\ C[op.drive] = unit[op.drive]
  BY <1>1, CommandedUnit
<1> HIDE DEF C
<1>10. Types'
  BY Zenon, <1>1, <1>2, <1>3 DEF ata_flush, ata_wait_busy, drive_select
<1>11. Registered'
  BY <1>1, <1>2, <1>3 DEF ata_flush, ata_wait_busy, drive_select, Registered
<1>12. Probing'
  BY Zenon, <1>1, <1>2, <1>3 DEF ata_flush, ata_wait_busy, drive_select, Probing, Places
<1>13. Places'
  BY Zenon, <1>1, <1>2, <1>3 DEF ata_flush, ata_wait_busy, drive_select, Places
<1>14. Storing'
  BY <1>1, <1>2, <1>3 DEF ata_flush, ata_wait_busy, drive_select, Storing
<1>15. DriveFollows'
  BY Zenon, <1>1, <1>2, <1>3 DEF ata_flush, ata_wait_busy, drive_select, DriveFollows
<1> QED
  BY <1>10, <1>11, <1>12, <1>13, <1>14, <1>15

(* The flush is over.                                                      *)
LEMMA FlushedStep ==
  ASSUME IInv, ata_flushed PROVE IInv'
<1> USE DEF IInv, Types, BSY
<1>6. /\ op' \in Ops
      /\ \/ /\ pc' = "wait" /\ op'.cmd = "READ_PIO"
            /\ op'.drive = op.drive /\ op'.lba = op.lba
         \/ pc' = "ready" /\ op'.cmd = "none"
  BY Zenon, ReturnOp DEF ata_flushed
<1>10. Types'
  BY Zenon, <1>6 DEF ata_flushed, ata_wait_busy
<1>11. Registered'
  BY Zenon, <1>6 DEF ata_flushed, ata_wait_busy, Registered
<1>12. Probing'
  BY Zenon, <1>6 DEF ata_flushed, ata_wait_busy, Probing
<1>13. Places'
  BY Zenon, <1>6 DEF ata_flushed, ata_wait_busy, Places
<1>14. Storing'
  BY Zenon, <1>6 DEF ata_flushed, ata_wait_busy, Storing
<1>15. DriveFollows'
  BY Zenon, <1>6 DEF ata_flushed, ata_wait_busy, DriveFollows
<1> QED
  BY <1>10, <1>11, <1>12, <1>13, <1>14, <1>15

(* The shell starts a transfer within the bounds of a registered drive.    *)
LEMMA StartStep ==
  ASSUME NEW cmd \in {"READ_PIO", "WRITE_PIO"}, NEW id \in Nat, NEW lba \in Nat,
         NEW data \in Data, IInv, Start(cmd, id, lba, data) PROVE IInv'
<1> USE DEF IInv, Types, BSY
<1>1. id + 1 \in 1 .. Len(devices) /\ devices[id + 1] \in Drives
  BY DEF Start, Known
<1>2. lba \in Lbas
  BY <1>1, StorageAssumption DEF Start, InRange, Lbas
<1>3. op' \in Ops /\ op'.cmd = cmd /\ op'.drive = devices[id + 1]
  BY Zenon, <1>1, <1>2 DEF Start, Ops, Names, Commands
<1>10. Types'
  BY Zenon, <1>1, <1>2, <1>3 DEF Start, Known
<1>11. Registered'
  BY Zenon, <1>1, <1>2, <1>3 DEF Start, Known, Registered
<1>12. Probing'
  BY Zenon, <1>1, <1>2, <1>3 DEF Start, Known, Probing
<1>13. Places'
  BY Zenon, <1>1, <1>2, <1>3 DEF Start, Known, Places
<1>14. Storing'
  BY Zenon, <1>1, <1>2, <1>3 DEF Start, Known, Storing
<1>15. DriveFollows'
  BY Zenon, <1>1, <1>2, <1>3 DEF Start, Known, DriveFollows
<1> QED
  BY Zenon, <1>10, <1>11, <1>12, <1>13, <1>14, <1>15

(* A drive gets on with its command.                                       *)
LEMMA DriveStep ==
  ASSUME NEW d \in Drives, IInv, DriveWorks(d) PROVE IInv'
<1> USE DEF IInv, Types, BSY
<1>10. Types'
  BY SMTT(30) DEF DriveWorks, Units, Phases
<1>11. Registered'
  BY DEF DriveWorks, Units, Phases, Registered
<1>12. Probing'
  BY DEF DriveWorks, Units, Phases, Probing
<1>13. Places'
  BY DEF DriveWorks, Units, Phases, Places
<1>14. Storing'
  BY DEF DriveWorks, Units, Phases, Storing
<1>15. DriveFollows'
  BY DEF DriveWorks, Units, Phases, DriveFollows
<1> QED
  BY Zenon, <1>10, <1>11, <1>12, <1>13, <1>14, <1>15

(* The invariant is inductive.                                             *)
LEMMA NextIInv == IInv /\ [Next]_storageVars => IInv'
<1> SUFFICES ASSUME IInv, [Next]_storageVars PROVE IInv'
  BY Zenon
<1>1. CASE Driver
  BY Zenon, <1>1, IdentifyStep, IdentifyBusyStep, IdentifiedStep, SelectStep, WaitDrqStep,
     ReadStep, WriteStep, FlushStep, FlushedStep DEF Driver
<1>2. CASE Shell
  <2> PICK id \in 0 .. MaxDevice :
        \/ cmd_blktest(id)
        \/ \E lba \in 0 .. MaxLba : \/ cmd_blkread(id, lba)
                                    \/ \E x \in Data : cmd_blkwrite(id, lba, x)
    BY Zenon, <1>2 DEF Shell
  <2>1. CASE cmd_blktest(id)
    BY <2>1, StartStep, StorageAssumption DEF cmd_blktest, block_write
  <2>2. CASE \E lba \in 0 .. MaxLba : \/ cmd_blkread(id, lba)
                                     \/ \E x \in Data : cmd_blkwrite(id, lba, x)
    BY <2>2, StartStep, StorageAssumption DEF cmd_blkread, cmd_blkwrite, block_read, block_write
  <2> QED
    BY Zenon, <2>1, <2>2
<1>3. CASE \E d \in Drives : DriveWorks(d)
  BY Zenon, <1>3, DriveStep
<1>4. CASE UNCHANGED storageVars
  BY <1>4 DEF storageVars, IInv, Types, BSY, Registered, Probing, Places, Storing,
     DriveFollows
<1> QED
  BY Zenon, <1>1, <1>2, <1>3, <1>4 DEF Next

(* DriveFollows holds for every number of drives: although ata_wait_busy   *)
(* reads the status of the drive selected last, no read or write ever      *)
(* polls a drive that still works on an earlier command.                   *)
THEOREM DriveFollowsAlways == Spec => []DriveFollows
<1>1. IInv => DriveFollows
  BY Zenon DEF IInv
<1> QED
  BY <1>1, InitIInv, NextIInv, PTL DEF Spec

(* OnlyAskedChanges: a step changes no sector but the one that block_write *)
(* was called for, and only to the data it was called with.                *)
THEOREM OnlyAskedChangesAlways == Spec => OnlyAskedChanges
<1> DEFINE Asked == \A d \in Drives, l \in Lbas : sectors'[d][l] # sectors[d][l] =>
                      /\ op.cmd = "WRITE_PIO" /\ op.drive = d /\ op.lba = l
                      /\ sectors'[d][l] = op.data
<1>1. IInv /\ [Next]_storageVars => [Asked]_storageVars
  <2> SUFFICES ASSUME IInv, Next PROVE Asked
    BY Zenon
  <2>1. CASE \E d \in Drives : DriveWorks(d)
    <3> PICK e \in Drives : DriveWorks(e)
      BY Zenon, <2>1
    <3>1. CASE sectors' = sectors
      BY Zenon, <3>1
    <3>2. CASE /\ unit[e].phase = "storing"
               /\ sectors' = [sectors EXCEPT ![e][unit[e].lba] = unit[e].data]
      BY Zenon, <3>2 DEF IInv, Types, Storing, Places
    <3> QED
      BY Zenon, <3>1, <3>2 DEF DriveWorks
  <2>2. CASE UNCHANGED sectors
    BY Zenon, <2>2
  <2> QED
    BY Zenon, <2>1, <2>2
    DEF Next, Driver, Shell, ata_identify, ata_identify_busy, ata_identified,
       ata_select_drive_and_lba, ata_wait_drq, ata_read_block_op, ata_write_block_op,
       ata_flush, ata_flushed, cmd_blktest, cmd_blkread, cmd_blkwrite, block_read,
       block_write, Start
<1> QED
  BY <1>1, InitIInv, NextIInv, PTL DEF Spec, OnlyAskedChanges

(* ReadIsExact: block_read gives the caller the sector it asked for, also  *)
(* after reads and writes that failed or timed out on the same channel.    *)
THEOREM ReadIsExactAlways == Spec => ReadIsExact
<1> DEFINE Exact == result' # result /\ result'.op.cmd = "READ_PIO" /\ result'.status = "E_OK"
                      => result'.data = sectors[result'.op.drive][result'.op.lba]
<1>1. IInv /\ [Next]_storageVars => [Exact]_storageVars
  <2> SUFFICES ASSUME IInv, Next PROVE Exact
    BY Zenon
  <2>1. CASE ata_read_block_op
    BY Zenon, <2>1 DEF ata_read_block_op, Return, Delivered, IInv, DriveFollows
  <2>2. CASE ata_wait_drq
    BY <2>2 DEF ata_wait_drq, Return
  <2>3. CASE ata_flushed
    BY Zenon, <2>3 DEF ata_flushed, Return, IInv, Places
  <2>4. CASE UNCHANGED result
    BY Zenon, <2>4
  <2> QED
    BY Zenon, <2>1, <2>2, <2>3, <2>4 DEF Next, Driver, Shell, ata_identify, ata_identify_busy,
       ata_identified, ata_select_drive_and_lba, ata_write_block_op, ata_flush,
       cmd_blktest, cmd_blkread, cmd_blkwrite, block_read,
       block_write, Start, DriveWorks
<1> QED
  BY <1>1, InitIInv, NextIInv, PTL DEF Spec, ReadIsExact

-----------------------------------------------------------------------------
(* What the write has sent, once the drive is done with it, is in the      *)
(* sector or is known to be lost.                                          *)
Kept ==
  pc \in {"stored", "flushed"} /\ unit[op.drive].phase # "storing" =>
    sectors[op.drive][op.lba] = op.data \/ op.drive \in unseen

(* Kept is preserved: only the drive that stores changes a sector, and the *)
(* flush waits for it.                                                     *)
LEMMA NextKept == IInv /\ Kept /\ [Next]_storageVars => Kept'
<1> SUFFICES ASSUME IInv, Kept, [Next]_storageVars, pc' \in {"stored", "flushed"},
                    unit'[op'.drive].phase # "storing"
             PROVE  sectors'[op'.drive][op'.lba] = op'.data \/ op'.drive \in unseen'
  BY Zenon DEF Kept
<1>1. /\ op.drive \in Drives /\ op.lba \in Lbas /\ op.data \in Data /\ selected \in Drives
      /\ unit \in [Drives -> Units] /\ sectors \in [Drives -> [Lbas -> Data]]
  BY Zenon DEF IInv, Types, Ops
<1>2. CASE \E d \in Drives : DriveWorks(d)
  <2> PICK d \in Drives : DriveWorks(d)
    BY Zenon, <1>2
  <2>1. pc' = pc /\ op' = op
    BY Zenon DEF DriveWorks
  <2>2. CASE unit[d].phase = "storing"
    <3>1. /\ pc = "stored" /\ op.drive = d /\ unit[d].lba = op.lba /\ unit[d].data = op.data
      BY Zenon, <2>2 DEF IInv, Storing
    <3>2. \/ sectors' = [sectors EXCEPT ![d][unit[d].lba] = unit[d].data]
          \/ unseen' = unseen \cup {d}
      BY Zenon, <2>2 DEF DriveWorks
    <3> QED
      BY <1>1, <2>1, <3>1, <3>2
  <2>3. CASE unit[d].phase # "storing"
    <3>1. sectors' = sectors /\ unseen' = unseen
      BY Zenon, <2>3 DEF DriveWorks
    <3>2. unit[op.drive].phase # "storing"
      BY <1>1, <2>1, <2>3 DEF DriveWorks, Units
    <3> QED
      BY Zenon, <2>1, <3>1, <3>2 DEF Kept
  <2> QED
    BY Zenon, <2>2, <2>3
<1>3. CASE ata_flush
  <2>1. pc = "stored" /\ UNCHANGED <<op, sectors, unseen>> /\ selected = op.drive
    BY Zenon, <1>3 DEF ata_flush, IInv, Places
  <2>2. unit[op.drive].phase # "storing"
    BY Zenon, <1>3, <2>1 DEF ata_flush, ata_wait_busy, BSY
  <2> QED
    BY Zenon, <2>1, <2>2 DEF Kept
<1>4. CASE ata_write_block_op
  <2>1. selected = op.drive /\ op' = op /\ unit'[selected].phase = "storing"
    BY Zenon, <1>1, <1>4 DEF ata_write_block_op, IInv, DriveFollows, Units
  <2> QED
    BY Zenon, <2>1
<1>5. CASE UNCHANGED storageVars
  BY Zenon, <1>5 DEF Kept, storageVars
<1>6. CASE Driver /\ ~ ata_flush /\ ~ ata_write_block_op
  <2>1. pc' \notin {"stored", "flushed"}
    BY Zenon, <1>6 DEF Driver, ata_identify, ata_identify_busy, ata_identified,
       ata_select_drive_and_lba, ata_wait_drq, ata_read_block_op, ata_flushed, NextProbe, Return
  <2> QED
    BY Zenon, <2>1
<1>7. CASE Shell
  <2>1. pc' = "wait"
    BY Zenon, <1>7 DEF Shell, cmd_blktest, cmd_blkread, cmd_blkwrite, block_read, block_write, Start
  <2> QED
    BY Zenon, <2>1
<1> QED
  BY Zenon, <1>2, <1>3, <1>4, <1>5, <1>6, <1>7 DEF Next

(* WriteIsStored: block_write returns E_OK only when the sector holds the  *)
(* data or the drive has reported a failure that ata_write_block_op does   *)
(* not look at; no busy drive, late answer or other drive comes between.   *)
THEOREM WriteIsStoredAlways == Spec => WriteIsStored
<1> DEFINE Stored == result' # result /\ result'.op.cmd = "WRITE_PIO" /\ result'.status = "E_OK"
                       => \/ sectors[result'.op.drive][result'.op.lba] = result'.op.data
                          \/ result'.op.drive \in unseen
<1>1. IInv /\ Kept /\ [Next]_storageVars => [Stored]_storageVars
  <2> SUFFICES ASSUME IInv, Kept, Next PROVE Stored
    BY Zenon
  <2>1. CASE ata_flushed
    <3>1. selected = op.drive /\ pc = "flushed" /\ result'.op = op
      BY Zenon, <2>1 DEF ata_flushed, Return, IInv, Places
    <3>2. unit[op.drive].phase # "storing"
      BY Zenon, <2>1, <3>1 DEF ata_flushed, ata_wait_busy, BSY
    <3> QED
      BY Zenon, <3>1, <3>2 DEF Kept
  <2>2. CASE ata_wait_drq
    BY <2>2 DEF ata_wait_drq, Return
  <2>3. CASE ata_read_block_op
    BY Zenon, <2>3 DEF ata_read_block_op, Return
  <2>4. CASE UNCHANGED result
    BY Zenon, <2>4
  <2> QED
    BY Zenon, <2>1, <2>2, <2>3, <2>4 DEF Next, Driver, Shell, ata_identify, ata_identify_busy,
       ata_identified, ata_select_drive_and_lba, ata_write_block_op, ata_flush,
       cmd_blktest, cmd_blkread, cmd_blkwrite, block_read,
       block_write, Start, DriveWorks
<1>2. Init => Kept
  BY Zenon DEF Init, Kept
<1> QED
  BY <1>1, <1>2, InitIInv, NextIInv, NextKept, PTL DEF Spec, WriteIsStored
=============================================================================
