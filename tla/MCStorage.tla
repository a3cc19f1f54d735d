----------------------------- MODULE MCStorage -----------------------------
(* Drives for the run of Storage: the master has every sector that the     *)
(* registers can name, the slave has fewer.                                *)
EXTENDS Storage

MCSectors == [d \in Drives |-> IF d = 0 THEN LbaMod ELSE 1]
=============================================================================
