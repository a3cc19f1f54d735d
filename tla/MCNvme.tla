------------------------------ MODULE MCNvme ------------------------------
(* The instance of Nvme that TLC checks. *)
EXTENDS Nvme

MCQueueSize == [admin |-> 5, io |-> 3]
=============================================================================
