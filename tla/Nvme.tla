-------------------------------- MODULE Nvme --------------------------------
(***************************************************************************)
(* The NVMe driver (drivers/disks/nvme.c) and the controller it talks to.  *)
(*                                                                         *)
(* The driver is sequential: nvme_init runs once at boot, after that the   *)
(* shell issues one block command at a time.  The controller runs beside   *)
(* it: it fetches commands from the submission queues, completes them in   *)
(* any order, with or without an error, as late as it likes, and posts     *)
(* each completion with a phase tag that changes on every lap.  The driver *)
(* polls the head of the completion queue a bounded number of times.       *)
(*                                                                         *)
(* A command carries its number in `seq', which the program does not have: *)
(* it tells two commands apart when their 16-bit identifiers are equal.    *)
(***************************************************************************)
EXTENDS Integers, Sequences

CONSTANTS QueueSize,        \* entries of the "admin" and of the "io" queues
          IdMod,            \* 2^16: command_id is a uint16_t
          Polls,            \* iterations of a polling loop before it gives up
          MaxNamespaces,    \* NVME_MAX_NAMESPACES
          MaxBlockDevices,  \* MAX_BLOCK_DEVICES of the block layer
          OtherDevices,     \* how many ATA disks may have registered before
          MaxCommands,      \* bound: commands issued since boot
          None

Queues == {"admin", "io"}

(* A command, and what a wait for one returns.                             *)
Command ==
  [seq : Nat, cid : Nat, q : Queues, nsid : Nat, buf : Nat,
   op : {"identify", "create_cq", "create_sq", "read", "write"}]
Result == [err : {"E_OK", "E_HARDWARE", "E_TIMEOUT"}, seq : Nat, answer : Nat]

ASSUME NvmeConstants ==
  /\ QueueSize \in [Queues -> Nat \ {0, 1}]
  /\ IdMod \in Nat /\ Polls \in Nat \ {0} /\ MaxCommands \in 0 .. IdMod
  /\ MaxNamespaces \in Nat /\ MaxBlockDevices \in Nat
  /\ OtherDevices \subseteq 0 .. MaxBlockDevices
  /\ None \notin Command \cup Result

VARIABLES pc,              \* where nvme_init is; "idle" once it returned E_OK
          cur,             \* the command being waited for, or None
          ret,             \* what the last wait returned, or None
          timeout,         \* iterations left in the polling loop
          issued,          \* commands issued so far
          qp,              \* nvme_queue_pair_t of the two queue pairs
          pages, buffers,  \* memory the driver holds: queues, identify buffers
          num_namespaces, ns,
          devices,         \* the block layer's table: a namespace, 0 for ATA
          cc_enable, csts, \* the controller's registers
          ctl,             \* its position in the queues and its work
          lag              \* history: commands submitted and not yet fetched
driver == <<pc, cur, ret, timeout, issued, qp, pages, buffers, num_namespaces,
            ns, devices, cc_enable>>
vars == <<driver, csts, ctl, lag>>

Zeroed == [cid |-> 0, phase |-> 0, ok |-> TRUE, seq |-> 0]
NoQueue == [sq |-> <<>>, cq |-> <<>>, sq_tail |-> 0, cq_head |-> 0, cq_phase |-> 0]

Init ==
  /\ pc = "find" /\ cur = None /\ ret = None /\ timeout = 0 /\ issued = 0
  /\ qp = [q \in Queues |-> NoQueue]
  /\ pages = {} /\ buffers = {}
  /\ num_namespaces = 0 /\ ns = 0
  /\ devices \in {[i \in 1 .. n |-> 0] : n \in OtherDevices}
  /\ cc_enable \in BOOLEAN
  /\ csts = IF cc_enable THEN "ready" ELSE "off"
  /\ ctl = [q \in Queues |-> [head |-> 0, tail |-> 0, phase |-> 1, work |-> {}]]
  /\ lag = [q \in Queues |-> 0]

---------------------------------------------------------------------------
(* Queues. *)

command_id == issued % IdMod

nvme_init_queue_pair(q) ==
  /\ qp' = [qp EXCEPT ![q] =
              [sq |-> [i \in 0 .. QueueSize[q] - 1 |-> None],
               cq |-> [i \in 0 .. QueueSize[q] - 1 |-> Zeroed],
               sq_tail |-> 0, cq_head |-> 0, cq_phase |-> 1]]
  /\ pages' = pages \cup {q}

(* Variant: the tail moves before the command is copied. *)
nvme_submit_command_TailFirst(q, op, nsid, buf) ==
  LET cmd == [seq |-> issued + 1, cid |-> command_id, q |-> q, op |-> op,
              nsid |-> nsid, buf |-> buf] IN
    /\ issued < MaxCommands
    /\ issued' = issued + 1
    /\ qp' = [qp EXCEPT ![q].sq[(qp[q].sq_tail + 1) % QueueSize[q]] = cmd,
                        ![q].sq_tail = (@ + 1) % QueueSize[q]]
    /\ lag' = [lag EXCEPT ![q] = @ + 1]
    /\ cur' = cmd
    /\ timeout' = Polls

nvme_submit_command(q, op, nsid, buf) ==
  LET cmd == [seq |-> issued + 1, cid |-> command_id, q |-> q, op |-> op,
              nsid |-> nsid, buf |-> buf] IN
    /\ issued < MaxCommands
    /\ issued' = issued + 1
    /\ qp' = [qp EXCEPT ![q].sq[qp[q].sq_tail] = cmd,
                        ![q].sq_tail = (@ + 1) % QueueSize[q]]
    /\ lag' = [lag EXCEPT ![q] = @ + 1]
    /\ cur' = cmd
    /\ timeout' = Polls

(* Variant: the head pointer wraps without turning the expected phase. *)
Advanced_SamePhase(p, q) == [p EXCEPT !.cq_head = (@ + 1) % QueueSize[q]]

Advanced(p, q) ==
  LET head == (p.cq_head + 1) % QueueSize[q] IN
    [p EXCEPT !.cq_head = head,
              !.cq_phase = IF head = 0 THEN 1 - @ ELSE @]

(* Variant: any completion at the head is taken for the awaited one. *)
IsAnswer_Any(p, cid) == p.cq[p.cq_head].phase = p.cq_phase

IsAnswer(p, cid) ==
  /\ p.cq[p.cq_head].phase = p.cq_phase
  /\ p.cq[p.cq_head].cid = cid

Return(err, seq) ==
  /\ ret' = [err |-> err, seq |-> cur.seq, answer |-> seq]
  /\ cur' = None /\ timeout' = 0

(* Variant: a completion that is not the awaited one is dropped. *)
Poll_Skips ==
  LET p == qp[cur.q] e == p.cq[p.cq_head] IN
  /\ IF e.phase = p.cq_phase
       THEN /\ qp' = [qp EXCEPT ![cur.q] = Advanced(p, cur.q)]
            /\ IF e.cid = cur.cid
                 THEN Return(IF e.ok THEN "E_OK" ELSE "E_HARDWARE", e.seq)
                 ELSE timeout' = timeout - 1 /\ UNCHANGED <<cur, ret>>
       ELSE timeout' = timeout - 1 /\ UNCHANGED <<cur, ret, qp>>

(* Variant: the loop counts only the polls that find nothing at the head. *)
Poll_Uncounted ==
  LET p == qp[cur.q] e == p.cq[p.cq_head] IN
  IF IsAnswer(p, cur.cid)
    THEN /\ qp' = [qp EXCEPT ![cur.q] = Advanced(p, cur.q)]
         /\ Return(IF e.ok THEN "E_OK" ELSE "E_HARDWARE", e.seq)
    ELSE /\ timeout' = IF e.phase = p.cq_phase THEN timeout ELSE timeout - 1
         /\ UNCHANGED <<cur, ret, qp>>

(* One iteration of the loop: an answer to this command is consumed and    *)
(* its status returned; anything else is left where it is.                 *)
Poll ==
  LET p == qp[cur.q] e == p.cq[p.cq_head] IN
  IF IsAnswer(p, cur.cid)
    THEN /\ qp' = [qp EXCEPT ![cur.q] = Advanced(p, cur.q)]
         /\ Return(IF e.ok THEN "E_OK" ELSE "E_HARDWARE", e.seq)
    ELSE timeout' = timeout - 1 /\ UNCHANGED <<cur, ret, qp>>

nvme_wait_completion ==
  /\ cur # None
  /\ \/ timeout > 0 /\ Poll
     \/ timeout = 0 /\ Return("E_TIMEOUT", 0) /\ UNCHANGED qp
  /\ UNCHANGED <<pc, issued, pages, buffers, num_namespaces, ns, devices,
                 cc_enable, csts, ctl, lag>>

---------------------------------------------------------------------------
(* nvme_init, one action per stage. *)

Stage(from, to) == pc = from /\ pc' = to

(* The PCI scan, and the mapping of the controller's registers by the page *)
(* tables, either of which may fail; then CC.EN is cleared.                *)
nvme_find_controller ==
  /\ \/ /\ Stage("find", "disable")
        /\ cc_enable' = FALSE /\ timeout' = Polls
     \/ /\ Stage("find", "failed")
        /\ UNCHANGED <<cc_enable, timeout>>
  /\ UNCHANGED <<cur, ret, issued, qp, pages, buffers, num_namespaces, ns,
                 devices, csts, ctl, lag>>

wait_disabled ==
  /\ pc = "disable"
  /\ \/ csts # "ready" /\ Stage("disable", "admin_queues") /\ timeout' = 0
     \/ csts = "ready" /\ timeout > 0 /\ timeout' = timeout - 1 /\ UNCHANGED pc
     \/ csts = "ready" /\ timeout = 0 /\ Stage("disable", "failed") /\ UNCHANGED timeout
  /\ UNCHANGED <<cur, ret, issued, qp, pages, buffers, num_namespaces, ns,
                 devices, cc_enable, csts, ctl, lag>>

(* The admin queues are allocated, both or none, and handed to the         *)
(* controller, which is enabled.                                           *)
init_admin_queues ==
  /\ \/ /\ Stage("admin_queues", "ready")
        /\ nvme_init_queue_pair("admin")
        /\ cc_enable' = TRUE /\ timeout' = Polls
     \/ /\ Stage("admin_queues", "failed")
        /\ UNCHANGED <<qp, pages, cc_enable, timeout>>
  /\ UNCHANGED <<cur, ret, issued, buffers, num_namespaces, ns, devices, csts, ctl, lag>>

wait_ready ==
  /\ pc = "ready"
  /\ \/ csts = "ready" /\ Stage("ready", "identify") /\ timeout' = 0
     \/ csts = "off" /\ timeout > 0 /\ timeout' = timeout - 1 /\ UNCHANGED pc
     \/ /\ csts = "fatal" \/ (csts = "off" /\ timeout = 0)
        /\ Stage("ready", "failed") /\ timeout' = 0
  /\ UNCHANGED <<cur, ret, issued, qp, pages, buffers, num_namespaces, ns,
                 devices, cc_enable, csts, ctl, lag>>

(* Variant: the buffer is released as soon as the command is submitted. *)
nvme_identify_controller_FreesEarly ==
  /\ pc = "identify" /\ cur = None /\ ret = None
  /\ \/ /\ nvme_submit_command("admin", "identify", 0, issued + 1)
        /\ UNCHANGED <<pc, buffers>>
     \/ /\ Stage("identify", "failed")
        /\ buffers' \in {buffers, buffers \cup {issued + 1}}
        /\ UNCHANGED <<cur, timeout, issued, qp, lag>>
  /\ UNCHANGED <<ret, pages, num_namespaces, ns, devices, cc_enable, csts, ctl>>

(* The buffer may not be had, or the command: the buffer then stays        *)
(* allocated.  Otherwise the command is submitted and waited for.          *)
nvme_identify_controller ==
  /\ pc = "identify" /\ cur = None /\ ret = None
  /\ \/ /\ nvme_submit_command("admin", "identify", 0, issued + 1)
        /\ buffers' = buffers \cup {issued + 1}
        /\ UNCHANGED pc
     \/ /\ Stage("identify", "failed")
        /\ buffers' \in {buffers, buffers \cup {issued + 1}}
        /\ UNCHANGED <<cur, timeout, issued, qp, lag>>
  /\ UNCHANGED <<ret, pages, num_namespaces, ns, devices, cc_enable, csts, ctl>>

(* After the wait: the data is copied if the command succeeded, and the    *)
(* buffer is released whatever the wait returned.                          *)
identified ==
  /\ pc = "identify" /\ ret # None
  /\ buffers' = buffers \ {ret.seq}
  /\ \/ /\ ret.err = "E_OK" /\ Stage("identify", "io_queues")
        /\ num_namespaces' \in 0 .. MaxNamespaces + 1
     \/ ret.err # "E_OK" /\ Stage("identify", "failed") /\ UNCHANGED num_namespaces
  /\ ret' = None
  /\ UNCHANGED <<cur, timeout, issued, qp, pages, ns, devices, cc_enable, csts, ctl, lag>>

init_io_queues ==
  /\ \/ Stage("io_queues", "create_cq") /\ nvme_init_queue_pair("io")
     \/ Stage("io_queues", "failed") /\ UNCHANGED <<qp, pages>>
  /\ UNCHANGED <<cur, ret, timeout, issued, buffers, num_namespaces, ns,
                 devices, cc_enable, csts, ctl, lag>>

Create(stage) ==
  /\ pc = stage /\ cur = None /\ ret = None
  /\ nvme_submit_command("admin", stage, 0, 0)
  /\ UNCHANGED <<pc, ret, pages, buffers, num_namespaces, ns, devices,
                 cc_enable, csts, ctl>>

nvme_create_io_cq == Create("create_cq")
nvme_create_io_sq == Create("create_sq")

created(stage, next) ==
  /\ ret # None
  /\ Stage(stage, IF ret.err = "E_OK" THEN next ELSE "failed")
  /\ ret' = None /\ ns' = 1
  /\ UNCHANGED <<cur, timeout, issued, qp, pages, buffers, num_namespaces,
                 devices, cc_enable, csts, ctl, lag>>

(* One namespace of the loop.  Without a buffer it is skipped. *)
nvme_identify_namespace ==
  /\ pc = "namespaces" /\ cur = None /\ ret = None
  /\ ns <= num_namespaces /\ ns <= MaxNamespaces
  /\ \/ /\ nvme_submit_command("admin", "identify", ns, issued + 1)
        /\ buffers' = buffers \cup {issued + 1}
        /\ UNCHANGED ns
     \/ /\ ns' = ns + 1
        /\ UNCHANGED <<cur, timeout, issued, qp, buffers, lag>>
  /\ UNCHANGED <<pc, ret, pages, num_namespaces, devices, cc_enable, csts, ctl>>

block_register_device(i) ==
  devices' = IF Len(devices) < MaxBlockDevices THEN Append(devices, i) ELSE devices

(* A namespace that was identified and has blocks becomes a block device;  *)
(* one that failed, or is empty, is passed over.                           *)
namespace_identified ==
  /\ pc = "namespaces" /\ ret # None
  /\ buffers' = buffers \ {ret.seq}
  /\ \/ ret.err = "E_OK" /\ block_register_device(ns)
     \/ UNCHANGED devices
  /\ ns' = ns + 1 /\ ret' = None
  /\ UNCHANGED <<pc, cur, timeout, issued, qp, pages, num_namespaces,
                 cc_enable, csts, ctl, lag>>

nvme_init_done ==
  /\ Stage("namespaces", "idle") /\ cur = None /\ ret = None
  /\ ns > num_namespaces \/ ns > MaxNamespaces
  /\ UNCHANGED <<cur, ret, timeout, issued, qp, pages, buffers,
                 num_namespaces, ns, devices, cc_enable, csts, ctl, lag>>

---------------------------------------------------------------------------
(* Block operations, called by the block layer on a registered device.     *)

Transfer(op, id) ==
  /\ pc = "idle" /\ cur = None
  /\ id + 1 \in DOMAIN devices /\ devices[id + 1] # 0
  /\ nvme_submit_command("io", op, id + 1, 0)
  /\ ret' = None
  /\ UNCHANGED <<pc, pages, buffers, num_namespaces, ns, devices, cc_enable,
                 csts, ctl>>

nvme_read_block_op(id) == Transfer("read", id)
nvme_write_block_op(id) == Transfer("write", id)

---------------------------------------------------------------------------
(* The controller. *)

ControllerChanges ==
  /\ \/ ~cc_enable /\ csts = "ready" /\ csts' = "off"
     \/ cc_enable /\ csts = "off" /\ csts' \in {"ready", "fatal"}
  /\ UNCHANGED <<driver, ctl, lag>>

Fetch(q) ==
  /\ csts = "ready" /\ q \in pages
  /\ ctl[q].head # qp[q].sq_tail
  /\ ctl' = [ctl EXCEPT ![q].work = @ \cup {qp[q].sq[ctl[q].head]},
                        ![q].head = (@ + 1) % QueueSize[q]]
  /\ lag' = [lag EXCEPT ![q] = @ - 1]
  /\ UNCHANGED <<driver, csts>>

(* A completion is posted where the driver has made room by its doorbell.  *)
Complete(q, c, ok) ==
  LET next == (ctl[q].tail + 1) % QueueSize[q] IN
    /\ csts = "ready"
    /\ next # qp[q].cq_head
    /\ qp' = [qp EXCEPT ![q].cq[ctl[q].tail] =
                [cid |-> c.cid, phase |-> ctl[q].phase, ok |-> ok, seq |-> c.seq]]
    /\ ctl' = [ctl EXCEPT ![q].work = @ \ {c},
                          ![q].tail = next,
                          ![q].phase = IF next = 0 THEN 1 - @ ELSE @]
    /\ UNCHANGED <<pc, cur, ret, timeout, issued, pages, buffers,
                   num_namespaces, ns, devices, cc_enable, csts, lag>>

---------------------------------------------------------------------------
nvme_init ==
  \/ nvme_find_controller \/ wait_disabled \/ init_admin_queues \/ wait_ready
  \/ nvme_identify_controller \/ identified \/ init_io_queues
  \/ nvme_create_io_cq \/ created("create_cq", "create_sq")
  \/ nvme_create_io_sq \/ created("create_sq", "namespaces")
  \/ nvme_identify_namespace \/ namespace_identified \/ nvme_init_done

Driver == nvme_init \/ nvme_wait_completion

Next ==
  \/ Driver
  \/ \E id \in 0 .. MaxBlockDevices - 1 : nvme_read_block_op(id) \/ nvme_write_block_op(id)
  \/ ControllerChanges
  \/ \E q \in Queues :
       Fetch(q) \/ \E c \in ctl[q].work, ok \in BOOLEAN : Complete(q, c, ok)

Spec == Init /\ [][Next]_vars /\ WF_vars(Driver)

---------------------------------------------------------------------------
(* Properties. *)

Rings(q) == 0 .. QueueSize[q] - 1

(* A command that the driver reports as done is one the controller has     *)
(* done: the completion that nvme_wait_completion accepted was posted for  *)
(* this very command, never a late one of an earlier command, as long as   *)
(* no more commands were issued than command_id can tell apart.            *)
OwnAnswer == ret # None /\ ret.err # "E_TIMEOUT" => ret.answer = ret.seq

(* The phase tag alone tells the driver which entries were posted since    *)
(* its last lap: an entry carries the phase the driver expects there       *)
(* exactly when it lies between the driver's head and the controller's     *)
(* tail.                                                                   *)
PhaseTellsPosted ==
  \A q \in pages : \A i \in Rings(q) :
    LET dist(j) == (j - qp[q].cq_head + QueueSize[q]) % QueueSize[q]
        expected == IF i < qp[q].cq_head THEN 1 - qp[q].cq_phase ELSE qp[q].cq_phase
    IN  (qp[q].cq[i].phase = expected) <=> dist(i) < dist(ctl[q].tail)

(* The completion at the head belongs to a command nobody waits for. *)
Wedged(q) ==
  /\ q \in pages
  /\ LET p == qp[q] e == p.cq[p.cq_head] IN
       e.phase = p.cq_phase /\ (cur = None \/ cur.q # q \/ e.seq # cur.seq)

(* What a late answer does: the driver never removes it from the head of   *)
(* the queue, so no command on that queue succeeds, or fails, any more;    *)
(* each one waits out its time although the controller performs it.        *)
LateAnswerBlocks ==
  [][\A q \in Queues :
       Wedged(q) => /\ Wedged(q)'
                    /\ cur # None /\ cur.q = q /\ cur' = None => ret'.err = "E_TIMEOUT"]_vars

(* The identify buffer is held exactly as long as it is needed: from the   *)
(* submission until the wait for that command has ended, so the controller *)
(* writes into freed memory only for a command the driver gave up on, and  *)
(* none is left allocated once nvme_init has succeeded.                    *)
BufferExact ==
  /\ cur # None /\ cur.buf # 0 => buffers = {cur.buf}
  /\ pc = "idle" => buffers = {}

(* No command is lost in the submission queue: while fewer commands wait   *)
(* to be fetched than the queue has entries, the awaited one is either at  *)
(* the controller, answered, or in a slot between the controller's head    *)
(* and the tail.  nvme_submit_command itself never looks for room.         *)
SubmittedIsSeen ==
  cur # None =>
    LET q == cur.q
        dist(i) == (i - ctl[q].head + QueueSize[q]) % QueueSize[q]
    IN  \/ cur \in ctl[q].work
        \/ \E i \in Rings(q) : qp[q].cq[i].seq = cur.seq
        \/ \E i \in Rings(q) : qp[q].sq[i] = cur /\ dist(i) < dist(qp[q].sq_tail)
        \/ lag[q] >= QueueSize[q]

(* What the comment at the cmd.nsid of the block operations says: the      *)
(* number of the device plus one is the namespace of that device.          *)
NamespaceMatches ==
  cur # None /\ cur.op \in {"read", "write"} => devices[cur.nsid] = cur.nsid

(* Every wait ends, whatever the controller does, and so does nvme_init. *)
EveryWaitEnds ==
  /\ cur # None ~> cur = None
  /\ <>(pc \in {"idle", "failed"})
=============================================================================
