------------------------------- MODULE MCBoot -------------------------------
(* Boot with the driver_t structures of the kernel.                        *)
EXTENDS Boot, TLC

MCDrivers == {IDT, Keyboard, PIT, Block, ATA, NVMe}

Table ==
  IDT :> IdtDriver @@ Keyboard :> KeyboardDriver @@ PIT :> PitDriver
    @@ Block :> BlockDriver @@ ATA :> AtaDriver @@ NVMe :> NvmeDriver

MCPriority == [d \in MCDrivers |-> Table[d].priority]
MCDependsOn == [d \in MCDrivers |-> Table[d].depends_on]

(* block_driver_init may find no memory, the disks may be missing.         *)
MCCanFail == {Block, ATA, NVMe}
=============================================================================
