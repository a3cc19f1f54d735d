----------------------------- MODULE NvmeProofs -----------------------------
(***************************************************************************)
(* The safety of the NVMe driver, for queues of any size, any number of    *)
(* polls and namespaces, and a controller that answers when it likes: as   *)
(* long as command_id does not repeat, an answer is taken for the command  *)
(* it belongs to, and what becomes of a late one is exactly known.         *)
(***************************************************************************)
EXTENDS Nvme, TLAPS

(* Is slot i of a ring in the part from h up to, not including, t?         *)
Between(i, h, t) == IF h <= t THEN h <= i /\ i < t ELSE h <= i \/ i < t

(* The slot after i.                                                       *)
After(q, i) == IF i = QueueSize[q] - 1 THEN 0 ELSE i + 1

(* How far t is ahead of h.                                                *)
Ahead(q, h, t) == IF h <= t THEN t - h ELSE t - h + QueueSize[q]

(* A command or a completion that carries the identifier of a command the  *)
(* driver has issued, n being the number it has issued.                    *)
Genuine(e, n) == e.seq \in 1 .. n /\ e.cid = e.seq - 1

Completion == [cid : Nat, phase : {0, 1}, ok : BOOLEAN, seq : Nat]
Pair(q) ==
  [sq : [Rings(q) -> Command \cup {None}], cq : [Rings(q) -> Completion],
   sq_tail : Rings(q), cq_head : Rings(q), cq_phase : {0, 1}]
Controller(q) ==
  [head : Rings(q), tail : Rings(q), phase : {0, 1}, work : SUBSET Command]

(* The phase the driver expects in slot i.                                 *)
Expected(p, i) == IF i < p.cq_head THEN 1 - p.cq_phase ELSE p.cq_phase

(* The completion queue: both sides agree on the lap, phase tags mark the  *)
(* posted entries, and these are genuine.                                  *)
CompletionsOK(q, p, c, n) ==
  /\ c.phase = Expected(p, c.tail)
  /\ \A i \in Rings(q) : p.cq[i].phase = Expected(p, i) <=> Between(i, p.cq_head, c.tail)
  /\ \A i \in Rings(q) : Between(i, p.cq_head, c.tail) => Genuine(p.cq[i], n)

(* The submission queue: a slot that was never written is not in front of  *)
(* the controller, and k commands, modulo the size, wait to be fetched.    *)
SubmissionsOK(q, p, c, k, n) ==
  /\ \A i \in Rings(q) : \/ p.sq[i] \in Command /\ Genuine(p.sq[i], n)
                         \/ p.sq_tail <= i /\ c.head <= p.sq_tail
  /\ \A w \in c.work : Genuine(w, n)
  /\ k \in Nat /\ k % QueueSize[q] = Ahead(q, c.head, p.sq_tail)

QueueOK(q, p, c, k, n) ==
  /\ p \in Pair(q) /\ c \in Controller(q)
  /\ CompletionsOK(q, p, c, n)
  /\ SubmissionsOK(q, p, c, k, n)

(* Where command x of queue q is.                                          *)
Somewhere(q, x, p, c, k) ==
  \/ x \in c.work
  \/ \E i \in Rings(q) : p.cq[i].seq = x.seq /\ Between(i, p.cq_head, c.tail)
  \/ \E i \in Rings(q) : p.sq[i] = x /\ Between(i, c.head, p.sq_tail)
  \/ k >= QueueSize[q]

(* A queue that is not allocated yet is untouched.                         *)
Unused(q) ==
  /\ qp[q] = NoQueue /\ lag[q] = 0
  /\ ctl[q] = [head |-> 0, tail |-> 0, phase |-> 1, work |-> {}]

Identifying == {"identify", "namespaces"}
Creating == {"create_cq", "create_sq"}

Stages ==
  /\ pc \in Identifying \cup Creating
            \cup {"find", "disable", "admin_queues", "ready", "io_queues", "idle", "failed"}
  /\ pc \in {"find", "disable", "admin_queues"} => pages = {}
  /\ pc \in {"ready", "identify", "io_queues"} => pages = {"admin"}
  /\ pc \in Creating \cup {"namespaces", "idle"} => pages = Queues
  /\ cur # None => ret = None
  /\ cur # None \/ ret # None => pc \in Identifying \cup Creating \cup {"idle"}

(* The identify buffer that is held.                                       *)
Held ==
  IF pc \notin Identifying THEN {}
  ELSE IF cur # None THEN {cur.seq} ELSE IF ret # None THEN {ret.seq} ELSE {}

Buffers ==
  /\ pc # "failed" => buffers = Held
  /\ cur # None => cur.buf = IF pc \in Identifying THEN cur.seq ELSE 0

Awaited ==
  cur # None =>
    /\ cur.q \in pages /\ Genuine(cur, issued)
    /\ Somewhere(cur.q, cur, qp[cur.q], ctl[cur.q], lag[cur.q])

Types ==
  /\ cur \in Command \cup {None} /\ ret \in Result \cup {None}
  /\ issued \in 0 .. MaxCommands /\ ns \in Nat /\ num_namespaces \in Nat
  /\ pages \subseteq Queues

(* Something is kept for each of the two queues, and for nothing else.     *)
Arrays ==
  /\ DOMAIN qp = Queues /\ DOMAIN ctl = Queues /\ DOMAIN lag = Queues
  /\ qp = [q \in Queues |-> qp[q]] /\ ctl = [q \in Queues |-> ctl[q]]
  /\ lag = [q \in Queues |-> lag[q]]

QueuesOK ==
  /\ Arrays
  /\ \A q \in pages : QueueOK(q, qp[q], ctl[q], lag[q], issued)
  /\ \A q \in Queues \ pages : Unused(q)

IInv == Types /\ Stages /\ Buffers /\ Awaited /\ OwnAnswer /\ QueuesOK

-----------------------------------------------------------------------------
(* The steps, by what they do to the queues.                               *)

(* The queues and the awaited command stay as they are.                    *)
Quiet ==
  /\ UNCHANGED <<cur, issued, qp, pages, ctl, lag>>
  /\ ret' \in Result \cup {None} /\ ns' \in Nat /\ num_namespaces' \in Nat
  /\ Stages' /\ Buffers' /\ OwnAnswer'

(* A command is submitted; an identify command has a buffer.               *)
Submits(q, op, nsid) ==
  /\ nvme_submit_command(q, op, nsid, IF pc \in Identifying THEN issued + 1 ELSE 0)
  /\ cur = None /\ ret' = None
  /\ pc \in Identifying \cup Creating \cup {"idle"}
  /\ buffers' = IF pc \in Identifying THEN {issued + 1} ELSE {}
  /\ UNCHANGED <<ctl, pages, pc, ns, num_namespaces>>
Ops == {"identify", "create_cq", "create_sq", "read", "write"}

(* A pair of queues is allocated.                                          *)
Allocates(q) ==
  /\ nvme_init_queue_pair(q) /\ cur = None
  /\ UNCHANGED <<cur, ret, issued, buffers, num_namespaces, ns, ctl, lag>>
  /\ Stages' /\ Buffers'

(* The wait ends with err, on the completion of command a.                 *)
Returns(err, a) ==
  /\ cur # None /\ cur' = None
  /\ ret' = [err |-> err, seq |-> cur.seq, answer |-> a] /\ ret' \in Result
  /\ UNCHANGED <<issued, pages, ctl, lag, ns, num_namespaces>>
  /\ Stages' /\ Buffers'

(* What the steps make of a pair of queues, and of the controller's side.  *)
Submitted(q, p, x) ==
  [p EXCEPT !.sq = [p.sq EXCEPT ![p.sq_tail] = x],
            !.sq_tail = (p.sq_tail + 1) % QueueSize[q]]
Fetched(q, p, c) ==
  [c EXCEPT !.work = c.work \cup {p.sq[c.head]}, !.head = (c.head + 1) % QueueSize[q]]
Posted(p, c, e) == [p EXCEPT !.cq = [p.cq EXCEPT ![c.tail] = e]]
Answered(q, c, w) ==
  [c EXCEPT !.work = c.work \ {w}, !.tail = (c.tail + 1) % QueueSize[q],
            !.phase = IF (c.tail + 1) % QueueSize[q] = 0 THEN 1 - c.phase ELSE c.phase]

(* The parts of the invariant.                                             *)
LEMMA Parts ==
  IInv => /\ Types /\ Stages /\ Buffers /\ Awaited /\ OwnAnswer /\ Arrays
          /\ cur \in Command \cup {None} /\ ret \in Result \cup {None}
          /\ issued \in Nat /\ ns \in Nat /\ num_namespaces \in Nat /\ pages \subseteq Queues
          /\ \A q \in pages : QueueOK(q, qp[q], ctl[q], lag[q], issued)
          /\ \A q \in Queues \ pages : Unused(q)
          /\ cur # None => /\ cur.q \in pages /\ Genuine(cur, issued)
                           /\ Somewhere(cur.q, cur, qp[cur.q], ctl[cur.q], lag[cur.q])
  BY NvmeConstants DEF IInv, Types, QueuesOK, Awaited
LEMMA PartsNext == Types' /\ Stages' /\ Buffers' /\ Awaited' /\ OwnAnswer' /\ QueuesOK' => IInv'
  BY Zenon DEF IInv
LEMMA QueueParts ==
  ASSUME NEW q, NEW p, NEW c, NEW k, NEW n, QueueOK(q, p, c, k, n)
  PROVE  /\ p \in Pair(q) /\ c \in Controller(q) /\ k \in Nat
         /\ CompletionsOK(q, p, c, n) /\ SubmissionsOK(q, p, c, k, n)
  BY Zenon DEF QueueOK, SubmissionsOK

(* The parts of the two sides of a pair of queues.                         *)
LEMMA Fields ==
  ASSUME NEW q \in Queues, NEW p \in Pair(q), NEW c \in Controller(q)
  PROVE  /\ p.sq \in [Rings(q) -> Command \cup {None}] /\ p.cq \in [Rings(q) -> Completion]
         /\ p.sq_tail \in Rings(q) /\ p.cq_head \in Rings(q) /\ p.cq_phase \in {0, 1}
         /\ c.head \in Rings(q) /\ c.tail \in Rings(q) /\ c.phase \in {0, 1}
         /\ c.work \subseteq Command
  BY Zenon DEF Pair, Controller

(* One queue changes, the other does not.                                  *)
LEMMA Update ==
  ASSUME Arrays, NEW q \in Queues, NEW r, NEW d, NEW k,
         qp' = [qp EXCEPT ![q] = r], ctl' = [ctl EXCEPT ![q] = d], lag' = [lag EXCEPT ![q] = k]
  PROVE  /\ qp'[q] = r /\ ctl'[q] = d /\ lag'[q] = k /\ Arrays'
         /\ \A a \in Queues \ {q} : qp'[a] = qp[a] /\ ctl'[a] = ctl[a] /\ lag'[a] = lag[a]
         /\ \A a \in Queues \ {q} : Unused(a) => Unused(a)'
  BY Zenon DEF Arrays, Unused
LEMMA Same ==
  ASSUME Arrays, NEW q \in Queues
  PROVE  qp = [qp EXCEPT ![q] = qp[q]] /\ ctl = [ctl EXCEPT ![q] = ctl[q]] /\ lag = [lag EXCEPT ![q] = lag[q]]
  BY Zenon DEF Arrays

(* nvme_submit_command fills the slot at the tail and moves the tail.      *)
LEMMA SubmitDoes ==
  ASSUME Arrays, NEW q \in Queues, qp[q] \in Pair(q), NEW op \in Ops, NEW nsid \in Nat, NEW buf \in Nat,
         issued \in Nat, IdMod \in Nat \ {0}, issued % IdMod = issued,
         nvme_submit_command(q, op, nsid, buf)
  PROVE  /\ cur' \in Command /\ cur' # None /\ cur'.seq = issued + 1 /\ cur'.cid = issued
         /\ cur'.buf = buf /\ cur'.q = q /\ issued < MaxCommands /\ issued' = issued + 1
         /\ qp' = [qp EXCEPT ![q] = Submitted(q, qp[q], cur')]
         /\ lag' = [lag EXCEPT ![q] = lag[q] + 1]
<1> DEFINE cmd == [seq |-> issued + 1, cid |-> issued, q |-> q, op |-> op, nsid |-> nsid, buf |-> buf]
<1>1. cur' = cmd /\ issued < MaxCommands /\ issued' = issued + 1 /\ lag' = [lag EXCEPT ![q] = lag[q] + 1]
  BY Zenon DEF nvme_submit_command, command_id
<1>2. cmd \in Command /\ cmd.seq = issued + 1 /\ cmd.cid = issued /\ cmd.buf = buf /\ cmd.q = q
  BY DEF Command, Ops
<1>3. qp' = [qp EXCEPT ![q].sq[qp[q].sq_tail] = cmd, ![q].sq_tail = (@ + 1) % QueueSize[q]]
  BY Zenon DEF nvme_submit_command, command_id
<1> HIDE DEF cmd
<1>4. qp' = [qp EXCEPT ![q] = Submitted(q, qp[q], cmd)]
  BY Zenon, <1>3 DEF Arrays, Pair, Submitted
<1> QED
  BY Zenon, <1>1, <1>2, <1>4, NvmeConstants

(* The controller takes the command at its head.                           *)
LEMMA FetchDoes ==
  ASSUME Arrays, NEW q \in Queues, ctl[q] \in Controller(q), Fetch(q)
  PROVE  /\ q \in pages /\ ctl[q].head # qp[q].sq_tail
         /\ qp' = [qp EXCEPT ![q] = qp[q]] /\ lag' = [lag EXCEPT ![q] = lag[q] - 1]
         /\ ctl' = [ctl EXCEPT ![q] = Fetched(q, qp[q], ctl[q])]
         /\ UNCHANGED <<pc, cur, ret, issued, qp, pages, buffers, num_namespaces, ns>>
<1>1. ctl' = [ctl EXCEPT ![q].work = @ \cup {qp[q].sq[ctl[q].head]},
                         ![q].head = (@ + 1) % QueueSize[q]]
  BY Zenon DEF Fetch
<1>2. ctl' = [ctl EXCEPT ![q] = Fetched(q, qp[q], ctl[q])]
  BY Zenon, <1>1 DEF Arrays, Controller, Fetched
<1> QED
  BY Zenon, <1>2 DEF Fetch, driver, Arrays

(* The controller posts a completion.                                      *)
LEMMA CompleteDoes ==
  ASSUME Arrays, NEW q \in Queues, qp[q] \in Pair(q), ctl[q] \in Controller(q),
         NEW w \in ctl[q].work, NEW ok \in BOOLEAN, Complete(q, w, ok)
  PROVE  \E e \in Completion :
           /\ e.cid = w.cid /\ e.phase = ctl[q].phase /\ e.seq = w.seq
           /\ (ctl[q].tail + 1) % QueueSize[q] # qp[q].cq_head
           /\ qp' = [qp EXCEPT ![q] = Posted(qp[q], ctl[q], e)]
           /\ ctl' = [ctl EXCEPT ![q] = Answered(q, ctl[q], w)]
           /\ lag' = [lag EXCEPT ![q] = lag[q]]
           /\ UNCHANGED <<pc, cur, ret, issued, pages, buffers, num_namespaces, ns>>
<1> DEFINE e == [cid |-> w.cid, phase |-> ctl[q].phase, ok |-> ok, seq |-> w.seq]
<1>1. e \in Completion /\ e.cid = w.cid /\ e.phase = ctl[q].phase /\ e.seq = w.seq
  BY Fields DEF Completion, Command
<1>2. qp' = [qp EXCEPT ![q].cq[ctl[q].tail] = e]
  BY Zenon DEF Complete
<1>3. ctl' = [ctl EXCEPT ![q].work = @ \ {w}, ![q].tail = (ctl[q].tail + 1) % QueueSize[q],
                         ![q].phase = IF (ctl[q].tail + 1) % QueueSize[q] = 0 THEN 1 - @ ELSE @]
  BY Zenon DEF Complete
<1> HIDE DEF e
<1>4. qp' = [qp EXCEPT ![q] = Posted(qp[q], ctl[q], e)]
  BY Zenon, <1>2 DEF Arrays, Pair, Posted
<1>5. ctl' = [ctl EXCEPT ![q] = Answered(q, ctl[q], w)]
  BY Zenon, <1>3 DEF Arrays, Controller, Answered
<1>6. /\ (ctl[q].tail + 1) % QueueSize[q] # qp[q].cq_head /\ lag' = [lag EXCEPT ![q] = lag[q]]
      /\ UNCHANGED <<pc, cur, ret, issued, pages, buffers, num_namespaces, ns>>
  BY Zenon DEF Complete, Arrays
<1> QED
  BY Zenon, <1>1, <1>4, <1>5, <1>6

(* The stages of nvme_init that do nothing to the queues.                  *)
LEMMA StagesDo ==
  ASSUME IInv, \/ nvme_find_controller \/ wait_disabled \/ wait_ready
               \/ identified \/ namespace_identified \/ nvme_init_done
               \/ created("create_cq", "create_sq") \/ created("create_sq", "namespaces")
               \/ ControllerChanges \/ UNCHANGED vars
  PROVE  Quiet
<1>1. /\ Stages /\ Buffers /\ OwnAnswer /\ ret \in Result \cup {None}
      /\ ns \in Nat /\ num_namespaces \in Nat /\ MaxNamespaces \in Nat
  BY Zenon, Parts, NvmeConstants
<1> USE DEF Quiet, Stage, Stages, Buffers, Held, OwnAnswer, Identifying, Creating
<1>2. CASE nvme_find_controller
  BY Zenon, <1>1, <1>2 DEF nvme_find_controller
<1>3. CASE wait_disabled
  BY Zenon, <1>1, <1>3 DEF wait_disabled
<1>4. CASE wait_ready
  BY Zenon, <1>1, <1>4 DEF wait_ready
<1>5. CASE identified
  BY <1>1, <1>5 DEF identified
<1>6. CASE namespace_identified
  BY <1>1, <1>6 DEF namespace_identified
<1>7. CASE nvme_init_done
  BY Zenon, <1>1, <1>7 DEF nvme_init_done
<1>8. ASSUME NEW from \in Creating, NEW to \in {"create_sq", "namespaces"}, created(from, to)
      PROVE  Quiet
  BY Zenon, <1>1, <1>8 DEF created
<1>9. CASE ControllerChanges \/ UNCHANGED vars
  BY Zenon, <1>1, <1>9 DEF ControllerChanges, vars, driver
<1> QED
  BY Zenon, <1>2, <1>3, <1>4, <1>5, <1>6, <1>7, <1>8, <1>9

(* The steps that submit a command, or fail to.                            *)
LEMMA SubmitsDo ==
  ASSUME IInv, \/ nvme_identify_controller \/ nvme_identify_namespace
               \/ nvme_create_io_cq \/ nvme_create_io_sq
               \/ \E id \in 0 .. MaxBlockDevices - 1 : nvme_read_block_op(id) \/ nvme_write_block_op(id)
  PROVE  Quiet \/ \E q \in pages, op \in Ops, nsid \in Nat : Submits(q, op, nsid)
<1>1. /\ Stages /\ Buffers /\ OwnAnswer /\ ret \in Result \cup {None} /\ issued \in Nat
      /\ ns \in Nat /\ num_namespaces \in Nat /\ MaxBlockDevices \in Nat
  BY Zenon, Parts, NvmeConstants
<1>2. CASE nvme_identify_controller
  <2>1. CASE Stage("identify", "failed") /\ UNCHANGED <<cur, timeout, issued, qp, lag>>
    BY Zenon, <1>1, <1>2, <2>1 DEF nvme_identify_controller, Quiet, Stage, Stages, Buffers, Held,
                            OwnAnswer, Identifying, Creating
  <2>2. CASE /\ nvme_submit_command("admin", "identify", 0, issued + 1)
             /\ buffers' = buffers \cup {issued + 1} /\ UNCHANGED pc
    <3>1. /\ pc = "identify" /\ cur = None /\ ret = None /\ "admin" \in pages /\ buffers = {}
          /\ UNCHANGED <<ret, pages, num_namespaces, ns, ctl>>
      BY Zenon, <1>1, <1>2 DEF nvme_identify_controller, Stages, Buffers, Held
    <3>2. Submits("admin", "identify", 0)
      BY Zenon, <2>2, <3>1 DEF Submits, Identifying
    <3> QED
      BY Zenon, <3>1, <3>2 DEF Ops
  <2> QED
    BY Zenon, <1>2, <2>1, <2>2 DEF nvme_identify_controller
<1>3. CASE nvme_identify_namespace
  <2>1. CASE ns' = ns + 1 /\ UNCHANGED <<cur, timeout, issued, qp, buffers, lag>>
    BY <1>1, <1>3, <2>1 DEF nvme_identify_namespace, Quiet, Stages, Buffers, Held, OwnAnswer
  <2>2. CASE /\ nvme_submit_command("admin", "identify", ns, issued + 1)
             /\ buffers' = buffers \cup {issued + 1} /\ UNCHANGED ns
    <3>1. /\ pc = "namespaces" /\ cur = None /\ ret = None /\ "admin" \in pages /\ buffers = {}
          /\ UNCHANGED <<pc, ret, pages, num_namespaces, ctl>>
      BY Zenon, <1>1, <1>3 DEF nvme_identify_namespace, Stages, Buffers, Held, Queues
    <3>2. Submits("admin", "identify", ns)
      BY Zenon, <2>2, <3>1 DEF Submits, Identifying
    <3> QED
      BY Zenon, <1>1, <3>1, <3>2 DEF Ops
  <2> QED
    BY Zenon, <1>3, <2>1, <2>2 DEF nvme_identify_namespace
<1>4. ASSUME NEW stage \in Creating, Create(stage)
      PROVE  \E q \in pages, op \in Ops, nsid \in Nat : Submits(q, op, nsid)
  <2>1. /\ pc = stage /\ cur = None /\ ret = None /\ "admin" \in pages /\ buffers = {}
        /\ UNCHANGED <<pc, ret, pages, buffers, num_namespaces, ns, ctl>>
        /\ nvme_submit_command("admin", stage, 0, 0) /\ pc \notin Identifying
    BY Zenon, <1>1, <1>4 DEF Create, Stages, Buffers, Held, Creating, Identifying, Queues
  <2>2. Submits("admin", stage, 0)
    BY Zenon, <2>1 DEF Submits
  <2> QED
    BY Zenon, <2>1, <2>2 DEF Ops, Creating
<1>5. ASSUME NEW op \in {"read", "write"}, NEW id \in 0 .. MaxBlockDevices - 1, Transfer(op, id)
      PROVE  \E q \in pages, o \in Ops, nsid \in Nat : Submits(q, o, nsid)
  <2>1. /\ pc = "idle" /\ cur = None /\ ret' = None /\ "io" \in pages /\ buffers = {}
        /\ UNCHANGED <<pc, pages, buffers, num_namespaces, ns, ctl>>
        /\ nvme_submit_command("io", op, id + 1, 0) /\ pc \notin Identifying
    BY Zenon, <1>1, <1>5 DEF Transfer, Stages, Buffers, Held, Identifying, Queues
  <2>2. Submits("io", op, id + 1) /\ id + 1 \in Nat
    BY <1>1, <2>1 DEF Submits
  <2> QED
    BY Zenon, <2>1, <2>2 DEF Ops
<1> QED
  BY Zenon, <1>2, <1>3, <1>4, <1>5 DEF nvme_create_io_cq, nvme_create_io_sq, nvme_read_block_op,
                                      nvme_write_block_op, Creating

(* The stages that allocate a pair of queues, or fail to.                  *)
LEMMA AllocatesDo ==
  ASSUME IInv, init_admin_queues \/ init_io_queues
  PROVE  Quiet \/ \E q \in Queues \ pages : Allocates(q)
<1>1. /\ Stages /\ Buffers /\ OwnAnswer /\ ret \in Result \cup {None}
      /\ ns \in Nat /\ num_namespaces \in Nat
  BY Zenon, Parts
<1>2. CASE init_admin_queues
  <2>1. CASE Stage("admin_queues", "failed") /\ UNCHANGED <<qp, pages, cc_enable, timeout>>
    BY Zenon, <1>1, <1>2, <2>1 DEF init_admin_queues, Quiet, Stage, Stages, Buffers, Held,
                            OwnAnswer, Identifying, Creating
  <2>2. CASE Stage("admin_queues", "ready") /\ nvme_init_queue_pair("admin")
    <3>1. Allocates("admin") /\ pages = {}
      BY Zenon, <1>1, <1>2, <2>2 DEF init_admin_queues, Allocates, nvme_init_queue_pair, Stage, Stages,
                              Buffers, Held, Identifying, Creating
    <3> QED
      BY Zenon, <3>1 DEF Queues
  <2> QED
    BY Zenon, <1>2, <2>1, <2>2 DEF init_admin_queues
<1>3. CASE init_io_queues
  <2>1. CASE Stage("io_queues", "failed") /\ UNCHANGED <<qp, pages>>
    BY Zenon, <1>1, <1>3, <2>1 DEF init_io_queues, Quiet, Stage, Stages, Buffers, Held,
                            OwnAnswer, Identifying, Creating
  <2>2. CASE Stage("io_queues", "create_cq") /\ nvme_init_queue_pair("io")
    <3>1. pages = {"admin"} /\ pages' = Queues
      BY Zenon, <1>1, <2>2 DEF nvme_init_queue_pair, Stage, Stages, Queues
    <3>2. Allocates("io")
      BY Zenon, <1>1, <1>3, <2>2, <3>1 DEF init_io_queues, Allocates, Stage, Stages,
                                    Buffers, Held, Identifying, Creating
    <3> QED
      BY Zenon, <3>1, <3>2 DEF Queues
  <2> QED
    BY Zenon, <1>3, <2>1, <2>2 DEF init_io_queues
<1> QED
  BY Zenon, <1>2, <1>3

(* nvme_wait_completion takes the answer, polls on, or gives up.           *)
LEMMA WaitDoes ==
  ASSUME IInv, nvme_wait_completion
  PROVE  LET p == qp[cur.q] IN
         \/ Quiet
         \/ UNCHANGED qp /\ Returns("E_TIMEOUT", 0)
         \/ /\ IsAnswer(p, cur.cid) /\ qp' = [qp EXCEPT ![cur.q] = Advanced(p, cur.q)]
            /\ \E err \in {"E_OK", "E_HARDWARE"} : Return(err, p.cq[p.cq_head].seq)
            /\ \A err \in {"E_OK", "E_HARDWARE"}, a \in Nat : Return(err, a) => Returns(err, a)
<1>1. /\ Stages /\ Buffers /\ OwnAnswer /\ ret \in Result \cup {None} /\ ns \in Nat
      /\ num_namespaces \in Nat /\ cur # None /\ cur \in Command /\ ret = None
      /\ UNCHANGED <<pc, issued, pages, buffers, num_namespaces, ns, ctl, lag>>
  BY Zenon, Parts DEF nvme_wait_completion, Stages
<1>2. ASSUME NEW err \in {"E_OK", "E_HARDWARE", "E_TIMEOUT"}, NEW a \in Nat, Return(err, a)
      PROVE  Returns(err, a)
  <2>1. /\ cur' = None /\ ret' = [err |-> err, seq |-> cur.seq, answer |-> a]
        /\ ret' \in Result /\ ret' # None /\ ret'.seq = cur.seq
    BY <1>1, <1>2, NvmeConstants DEF Return, Result, Command
  <2>2. Stages' /\ Buffers'
    BY Zenon, <1>1, <2>1 DEF Stages, Buffers, Held
  <2> QED
    BY Zenon, <1>1, <2>1, <2>2 DEF Returns
<1>3. CASE timeout = 0 /\ Return("E_TIMEOUT", 0) /\ UNCHANGED qp
  BY Zenon, <1>2, <1>3
<1>4. ASSUME Poll, ~ IsAnswer(qp[cur.q], cur.cid) PROVE Quiet
  <2>1. UNCHANGED <<cur, ret, qp>>
    BY Zenon, <1>4 DEF Poll
  <2> QED
    BY Zenon, <1>1, <2>1 DEF Quiet, Stages, Buffers, Held, OwnAnswer
<1>5. CASE timeout > 0 /\ Poll /\ IsAnswer(qp[cur.q], cur.cid)
  BY Zenon, <1>2, <1>5 DEF Poll
<1> QED
  BY Zenon, <1>3, <1>4, <1>5 DEF nvme_wait_completion

-----------------------------------------------------------------------------
(* Arithmetic of the rings. *)

(* A queue has at least two entries.                                       *)
LEMMA Sizes ==
  ASSUME NEW q \in Queues
  PROVE  /\ QueueSize[q] \in Nat /\ QueueSize[q] >= 2
         /\ \A i : i \in Rings(q) <=> i \in Int /\ 0 <= i /\ i <= QueueSize[q] - 1
  BY NvmeConstants DEF Rings

LEMMA NonZero == \A q \in Queues : QueueSize[q] \in Nat \ {0}
  BY Sizes

(* Division with remainder is unique.                                      *)
LEMMA Remainder ==
  ASSUME NEW N \in Nat \ {0}, NEW d \in Int, NEW r \in 0 .. N - 1
  PROVE  (N * d + r) % N = r
<1> DEFINE x == N * d + r
           e == x \div N
           s == x % N
<1>1. x \in Int /\ e \in Int /\ s \in 0 .. N - 1 /\ x = N * e + s
  OBVIOUS
<1> HIDE DEF e, s
<1>2. N * (d - e) = s - r
  BY <1>1
<1>3. d - e \in Int /\ s - r < N /\ s - r > 0 - N
  BY <1>1
<1>4. \A a \in Int : a >= 1 => N * a >= N
  OBVIOUS
<1>5. \A a \in Int : a <= -1 => N * a <= 0 - N
  OBVIOUS
<1>6. d - e = 0
  BY <1>2, <1>3, <1>4, <1>5
<1>7. s = r
  BY <1>1, <1>2, <1>6
<1> QED
  BY Zenon, <1>7 DEF s

(* What a position does when it goes one further round.                    *)
LEMMA ModFacts ==
  ASSUME NEW N \in Nat \ {0}, NEW k \in Nat
  PROVE  /\ k % N \in 0 .. N - 1
         /\ k < N => k % N = k
         /\ (k + 1) % N = IF k % N = N - 1 THEN 0 ELSE (k % N) + 1
<1> DEFINE d == k \div N
           r == k % N
<1>1. d \in Int /\ r \in 0 .. N - 1 /\ k = N * d + r
  OBVIOUS
<1>2. k < N => k % N = k
  OBVIOUS
<1> HIDE DEF d, r
<1>3. CASE r = N - 1
  <2>1. k + 1 = N * (d + 1) + 0 /\ d + 1 \in Int /\ 0 \in 0 .. N - 1
    BY <1>1, <1>3
  <2>2. (N * (d + 1) + 0) % N = 0
    BY Zenon, <2>1, Remainder
  <2> QED
    BY Zenon, <1>1, <1>2, <1>3, <2>1, <2>2 DEF r
<1>4. CASE r # N - 1
  <2>1. k + 1 = N * d + (r + 1) /\ r + 1 \in 0 .. N - 1
    BY <1>1, <1>4
  <2>2. (N * d + (r + 1)) % N = r + 1
    BY Zenon, <1>1, <2>1, Remainder
  <2> QED
    BY Zenon, <1>1, <1>2, <1>4, <2>1, <2>2 DEF r
<1> QED
  BY Zenon, <1>3, <1>4

(* Doorbells and heads move by one slot and wrap.                          *)
LEMMA Moves ==
  ASSUME NEW q \in Queues, NEW i \in Rings(q)
  PROVE  (i + 1) % QueueSize[q] = After(q, i) /\ After(q, i) \in Rings(q)
<1>1. i \in Nat /\ i < QueueSize[q] /\ QueueSize[q] \in Nat \ {0}
  BY Sizes
<1>2. i % QueueSize[q] = i
  BY Zenon, <1>1, ModFacts
<1>3. (i + 1) % QueueSize[q] = After(q, i)
  BY Zenon, <1>1, <1>2, ModFacts DEF After
<1> QED
  BY <1>1, <1>3, Sizes DEF After

(* The distance from one position to another, round the ring.              *)
LEMMA Distance ==
  ASSUME NEW q \in Queues, NEW h \in Rings(q), NEW t \in Rings(q)
  PROVE  (t - h + QueueSize[q]) % QueueSize[q] = Ahead(q, h, t)
<1> DEFINE N == QueueSize[q]
<1>1. /\ h \in Nat /\ h < N /\ t \in Nat /\ t < N /\ N \in Nat \ {0}
  BY Sizes
<1> HIDE DEF N
<1>2. CASE h <= t
  <2>1. t - h \in 0 .. N - 1 /\ t - h + N = (t - h) + N
    BY <1>1, <1>2
  <2>2. \A x \in 0 .. N - 1 : (x + N) % N = x
    BY <1>1
  <2> QED
    BY Zenon, <1>2, <2>1, <2>2 DEF Ahead, N
<1>3. CASE t < h
  <2>1. t - h + N \in Nat /\ t - h + N < N
    BY <1>1, <1>3
  <2>2. (t - h + N) % N = t - h + N
    BY Zenon, <1>1, <2>1, ModFacts
  <2> QED
    BY <1>1, <1>3, <2>2 DEF Ahead, N
<1> QED
  BY <1>1, <1>2, <1>3

(* To be nearer than the tail is to lie between head and tail.             *)
LEMMA AheadBetween ==
  ASSUME NEW q \in Queues, NEW h \in Rings(q), NEW t \in Rings(q), NEW i \in Rings(q)
  PROVE  Ahead(q, h, i) < Ahead(q, h, t) <=> Between(i, h, t)
  BY Sizes DEF Ahead, Between

-----------------------------------------------------------------------------
(* One step on a pair of queues. *)

(* Commands of the other queue make no difference.                         *)
LEMMA OtherIssued ==
  ASSUME NEW q \in Queues, NEW p, NEW c, NEW k, NEW n \in Nat, QueueOK(q, p, c, k, n)
  PROVE  QueueOK(q, p, c, k, n + 1)
<1>1. \A e : Genuine(e, n) => Genuine(e, n + 1)
  BY DEF Genuine
<1> QED
  BY Zenon, <1>1 DEF QueueOK, CompletionsOK, SubmissionsOK

(* nvme_init_queue_pair.                                                   *)
LEMMA NewQueue ==
  ASSUME NEW q \in Queues, NEW n \in Nat, NEW p, NEW c,
         p = [sq |-> [i \in 0 .. QueueSize[q] - 1 |-> None],
              cq |-> [i \in 0 .. QueueSize[q] - 1 |-> Zeroed],
              sq_tail |-> 0, cq_head |-> 0, cq_phase |-> 1],
         c = [head |-> 0, tail |-> 0, phase |-> 1, work |-> {}]
  PROVE  QueueOK(q, p, c, 0, n)
<1>1. 0 \in Rings(q) /\ Zeroed \in Completion
  BY Sizes DEF Zeroed, Completion
<1>2. p \in Pair(q) /\ c \in Controller(q)
  BY Zenon, <1>1 DEF Pair, Controller, Rings
<1>3. CompletionsOK(q, p, c, n)
  BY <1>1, Sizes DEF CompletionsOK, Expected, Between, Zeroed, Rings
<1>4. 0 % QueueSize[q] = 0
  BY Sizes, ModFacts
<1>5. SubmissionsOK(q, p, c, 0, n)
  BY <1>1, <1>4, Sizes DEF SubmissionsOK, Ahead
<1> QED
  BY Zenon, <1>2, <1>3, <1>5 DEF QueueOK

(* nvme_submit_command.                                                    *)
LEMMA SubmitQueue ==
  ASSUME NEW q \in Queues, NEW p, NEW c, NEW k, NEW n \in Nat, QueueOK(q, p, c, k, n),
         NEW x \in Command, x.seq = n + 1, x.cid = n,
         NEW r, r = Submitted(q, p, x)
  PROVE  /\ QueueOK(q, r, c, k + 1, n + 1)
         /\ Somewhere(q, x, r, c, k + 1)
<1>1. p \in Pair(q) /\ c \in Controller(q) /\ k \in Nat
  BY Zenon DEF QueueOK, SubmissionsOK
<1>2. /\ p.sq \in [Rings(q) -> Command \cup {None}] /\ p.cq \in [Rings(q) -> Completion]
      /\ p.sq_tail \in Rings(q) /\ p.cq_head \in Rings(q) /\ p.cq_phase \in {0, 1}
      /\ c.head \in Rings(q) /\ c.tail \in Rings(q)
  BY Zenon, <1>1, Fields
<1>3. After(q, p.sq_tail) \in Rings(q) /\ (p.sq_tail + 1) % QueueSize[q] = After(q, p.sq_tail)
  BY Zenon, <1>2, Moves
<1>4. /\ r.sq = [p.sq EXCEPT ![p.sq_tail] = x] /\ r.sq_tail = After(q, p.sq_tail)
      /\ r.cq = p.cq /\ r.cq_head = p.cq_head /\ r.cq_phase = p.cq_phase
      /\ r \in Pair(q)
  BY Zenon, <1>1, <1>2, <1>3 DEF Pair, Submitted
<1>5. Genuine(x, n + 1) /\ \A e : Genuine(e, n) => Genuine(e, n + 1)
  BY DEF Genuine
<1>6. CompletionsOK(q, r, c, n + 1)
  BY Zenon, <1>4, <1>5 DEF QueueOK, CompletionsOK, Expected
<1>7. (k + 1) % QueueSize[q] = Ahead(q, c.head, r.sq_tail)
  <2>1. k % QueueSize[q] = Ahead(q, c.head, p.sq_tail)
    BY Zenon DEF QueueOK, SubmissionsOK
  <2>2. (k + 1) % QueueSize[q] = IF k % QueueSize[q] = QueueSize[q] - 1 THEN 0
                                 ELSE (k % QueueSize[q]) + 1
    BY Zenon, <1>1, NonZero, ModFacts
  <2> QED
    BY <1>2, <1>4, <2>1, <2>2, Sizes DEF Ahead, After
<1>8. SubmissionsOK(q, r, c, k + 1, n + 1)
  <2>1. ASSUME NEW i \in Rings(q)
        PROVE  \/ r.sq[i] \in Command /\ Genuine(r.sq[i], n + 1)
               \/ r.sq_tail <= i /\ c.head <= r.sq_tail
    <3>1. CASE i = p.sq_tail
      BY Zenon, <1>2, <1>4, <1>5, <3>1
    <3>2. CASE i # p.sq_tail
      <4>1. r.sq[i] = p.sq[i]
        BY Zenon, <1>2, <1>4, <3>2
      <4>2. CASE p.sq[i] \in Command /\ Genuine(p.sq[i], n)
        BY Zenon, <1>5, <4>1, <4>2
      <4>3. CASE p.sq_tail <= i /\ c.head <= p.sq_tail
        BY <1>2, <1>4, <3>2, <4>3, Sizes DEF After
      <4> QED
        BY Zenon, <4>2, <4>3 DEF QueueOK, SubmissionsOK
    <3> QED
      BY Zenon, <3>1, <3>2
  <2>2. \A w \in c.work : Genuine(w, n + 1)
    BY Zenon, <1>5 DEF QueueOK, SubmissionsOK
  <2> QED
    BY <1>1, <1>7, <2>1, <2>2 DEF SubmissionsOK
<1>9. Somewhere(q, x, r, c, k + 1)
  <2>1. CASE k + 1 >= QueueSize[q]
    BY Zenon, <2>1 DEF Somewhere
  <2>2. CASE k + 1 < QueueSize[q]
    <3>1. (k + 1) % QueueSize[q] = k + 1 /\ k % QueueSize[q] = k
      <4>1. k + 1 \in Nat /\ k < QueueSize[q]
        BY <1>1, <2>2, NonZero
      <4> QED
        BY Zenon, <1>1, <2>2, <4>1, NonZero, ModFacts
    <3>2. Ahead(q, c.head, p.sq_tail) < Ahead(q, c.head, r.sq_tail)
      BY <1>1, <1>7, <3>1 DEF QueueOK, SubmissionsOK
    <3>3. Between(p.sq_tail, c.head, r.sq_tail)
      BY <1>2, <1>3, <1>4, <3>2, AheadBetween
    <3> QED
      BY Zenon, <1>2, <1>4, <3>3 DEF Somewhere
  <2> QED
    BY <1>1, <2>1, <2>2, Sizes
<1> QED
  BY Zenon, <1>4, <1>1, <1>6, <1>8, <1>9 DEF QueueOK

(* A poll that takes the entry at the head.                                *)
LEMMA AdvanceQueue ==
  ASSUME NEW q \in Queues, NEW p, NEW c, NEW k, NEW n \in Nat, QueueOK(q, p, c, k, n),
         p.cq[p.cq_head].phase = p.cq_phase
  PROVE  /\ QueueOK(q, Advanced(p, q), c, k, n)
         /\ Genuine(p.cq[p.cq_head], n)
<1> DEFINE r == Advanced(p, q)
           h == p.cq_head
           t == c.tail
           w == After(q, h)
<1>1. p \in Pair(q) /\ c \in Controller(q)
  BY Zenon DEF QueueOK
<1>2. /\ p.cq \in [Rings(q) -> Completion] /\ h \in Rings(q) /\ p.cq_phase \in {0, 1}
      /\ t \in Rings(q) /\ c.phase \in {0, 1}
  BY Zenon, <1>1, Fields
<1>3. /\ w \in Rings(q) /\ (h + 1) % QueueSize[q] = w
      /\ 1 - p.cq_phase \in {0, 1}
  BY <1>2, Moves
<1>4. /\ r.sq = p.sq /\ r.cq = p.cq /\ r.sq_tail = p.sq_tail
      /\ r.cq_head = w /\ r.cq_phase = IF w = 0 THEN 1 - p.cq_phase ELSE p.cq_phase
      /\ r \in Pair(q)
  BY Zenon, <1>1, <1>2, <1>3 DEF Pair, Advanced
<1>5. Between(h, h, t) /\ Genuine(p.cq[h], n)
  <2>1. Expected(p, h) = p.cq_phase
    BY <1>2, Sizes DEF Expected
  <2> QED
    BY Zenon, <1>2, <2>1 DEF QueueOK, CompletionsOK
<1>6. \A i \in Rings(q) : Between(i, w, t) <=> Between(i, h, t) /\ i # h
  BY <1>2, <1>3, <1>5, Sizes DEF Between, After
<1>7. \A i \in Rings(q) : Expected(r, i) = IF i = h THEN 1 - p.cq_phase ELSE Expected(p, i)
  BY <1>2, <1>3, <1>4, Sizes DEF Expected, After
<1>8. h # t
  BY <1>2, <1>5, Sizes DEF Between
<1> HIDE DEF r, h, t, w
<1>9. c.phase = Expected(r, c.tail)
  BY Zenon, <1>2, <1>7, <1>8 DEF QueueOK, CompletionsOK, t
<1>10. ASSUME NEW i \in Rings(q)
       PROVE  /\ r.cq[i].phase = Expected(r, i) <=> Between(i, r.cq_head, c.tail)
              /\ Between(i, r.cq_head, c.tail) => Genuine(r.cq[i], n)
  <2>1. /\ p.cq[i].phase = Expected(p, i) <=> Between(i, p.cq_head, c.tail)
        /\ Between(i, p.cq_head, c.tail) => Genuine(p.cq[i], n)
    BY Zenon DEF QueueOK, CompletionsOK
  <2>2. CASE i = h
    <3>1. p.cq[i].phase = p.cq_phase
      BY Zenon, <2>2 DEF h
    <3> QED
      BY <1>2, <1>4, <1>6, <1>7, <2>2, <3>1 DEF t
  <2>3. CASE i # h
    BY Zenon, <1>4, <1>6, <1>7, <2>1, <2>3 DEF t, h
  <2> QED
    BY Zenon, <2>2, <2>3
<1>11. SubmissionsOK(q, r, c, k, n)
  BY Zenon, <1>4 DEF QueueOK, SubmissionsOK
<1> QED
  BY Zenon, <1>1, <1>4, <1>5, <1>9, <1>10, <1>11 DEF QueueOK, CompletionsOK, r, h

(* A poll that takes the entry takes the answer to the awaited command.    *)
LEMMA PollAnswer ==
  ASSUME NEW q \in Queues, NEW p, NEW c, NEW k, NEW n \in Nat, QueueOK(q, p, c, k, n),
         NEW x, Genuine(x, n), IsAnswer(p, x.cid)
  PROVE  /\ QueueOK(q, Advanced(p, q), c, k, n)
         /\ p.cq[p.cq_head].seq = x.seq /\ x.seq \in Nat
<1>1. p.cq[p.cq_head].phase = p.cq_phase /\ p.cq[p.cq_head].cid = x.cid
  BY Zenon DEF IsAnswer
<1>2. QueueOK(q, Advanced(p, q), c, k, n) /\ Genuine(p.cq[p.cq_head], n)
  BY Zenon, <1>1, AdvanceQueue
<1>3. ASSUME NEW a, NEW b, Genuine(a, n), Genuine(b, n), a.cid = b.cid
      PROVE  a.seq = b.seq /\ b.seq \in Nat
  BY <1>3 DEF Genuine
<1> QED
  BY Zenon, <1>1, <1>2, <1>3

(* The controller fetches the command at its head.                         *)
LEMMA FetchQueue ==
  ASSUME NEW q \in Queues, NEW p, NEW c, NEW k, NEW n \in Nat, QueueOK(q, p, c, k, n),
         c.head # p.sq_tail,
         NEW d, d = Fetched(q, p, c)
  PROVE  /\ QueueOK(q, p, d, k - 1, n)
         /\ \A x : Somewhere(q, x, p, c, k) => Somewhere(q, x, p, d, k - 1)
<1> DEFINE h == c.head
           t == p.sq_tail
           w == After(q, h)
           N == QueueSize[q]
<1>1. p \in Pair(q) /\ c \in Controller(q) /\ k \in Nat
  BY Zenon DEF QueueOK, SubmissionsOK
<1>2. h \in Rings(q) /\ t \in Rings(q) /\ c.work \subseteq Command
  BY Zenon, <1>1, Fields
<1>3. w \in Rings(q) /\ (h + 1) % QueueSize[q] = w
  BY Zenon, <1>2, Moves
<1>4. p.sq[h] \in Command /\ Genuine(p.sq[h], n)
  BY <1>2, Sizes DEF QueueOK, SubmissionsOK
<1>5. /\ d.head = w /\ d.tail = c.tail /\ d.phase = c.phase
      /\ d.work = c.work \cup {p.sq[h]} /\ d \in Controller(q)
  BY Zenon, <1>1, <1>2, <1>3, <1>4 DEF Controller, Fetched
<1>6. Ahead(q, w, t) = Ahead(q, h, t) - 1 /\ Ahead(q, h, t) > 0
  BY <1>2, <1>3, Sizes DEF Ahead, After
<1>7. k % N = Ahead(q, h, t)
  BY Zenon DEF QueueOK, SubmissionsOK
<1>8. k > 0 /\ (k - 1) % N = (k % N) - 1 /\ (k >= N => k - 1 >= N)
  <2>1. k > 0
    BY <1>1, <1>6, <1>7, Sizes, ModFacts
  <2>2. k - 1 \in Nat /\ N \in Nat \ {0} /\ (k - 1) + 1 = k
    BY <1>1, <2>1, Sizes
  <2>3. k % N = IF (k - 1) % N = N - 1 THEN 0 ELSE ((k - 1) % N) + 1
    BY Zenon, <2>2, ModFacts
  <2>4. (k - 1) % N \in 0 .. N - 1
    BY Zenon, <2>2, ModFacts
  <2>5. (k - 1) % N = (k % N) - 1
    BY <1>6, <1>7, <2>2, <2>3, <2>4
  <2>6. k # N
    <3>1. N - 1 \in Nat /\ N - 1 < N
      BY <2>2
    <3>2. (N - 1) % N = N - 1
      BY Zenon, <2>2, <3>1, ModFacts
    <3> QED
      BY <1>6, <1>7, <2>2, <2>3, <3>2
  <2> QED
    BY <1>1, <2>1, <2>2, <2>5, <2>6
<1> HIDE DEF h, t, w, N
<1>9. CompletionsOK(q, p, d, n)
  BY Zenon, <1>5 DEF QueueOK, CompletionsOK
<1>10. SubmissionsOK(q, p, d, k - 1, n)
  <2>1. ASSUME NEW i \in Rings(q)
        PROVE  \/ p.sq[i] \in Command /\ Genuine(p.sq[i], n)
               \/ p.sq_tail <= i /\ d.head <= p.sq_tail
    <3>1. CASE p.sq_tail <= i /\ c.head <= p.sq_tail
      BY <1>2, <1>3, <1>5, <3>1, Sizes DEF h, t, w, After
    <3> QED
      BY Zenon, <3>1 DEF QueueOK, SubmissionsOK
  <2>2. \A x \in d.work : Genuine(x, n)
    BY Zenon, <1>4, <1>5 DEF QueueOK, SubmissionsOK
  <2>3. k - 1 \in Nat /\ (k - 1) % QueueSize[q] = Ahead(q, d.head, p.sq_tail)
    BY <1>1, <1>5, <1>6, <1>7, <1>8 DEF t, N
  <2> QED
    BY Zenon, <2>1, <2>2, <2>3 DEF SubmissionsOK
<1>11. ASSUME NEW x, Somewhere(q, x, p, c, k)
       PROVE  Somewhere(q, x, p, d, k - 1)
  <2>1. CASE \E i \in Rings(q) : p.sq[i] = x /\ Between(i, c.head, p.sq_tail)
    <3>1. PICK i \in Rings(q) : p.sq[i] = x /\ Between(i, c.head, p.sq_tail)
      BY Zenon, <2>1
    <3>2. CASE i = h
      BY Zenon, <1>5, <3>1, <3>2 DEF Somewhere
    <3>3. CASE i # h
      <4>1. Between(i, w, t)
        BY <1>2, <1>3, <3>1, <3>3, Sizes DEF h, t, w, After, Between
      <4> QED
        BY Zenon, <1>5, <3>1, <4>1 DEF Somewhere, t
    <3> QED
      BY Zenon, <3>2, <3>3
  <2>2. CASE x \in c.work
    BY Zenon, <1>5, <2>2 DEF Somewhere
  <2>3. CASE \E i \in Rings(q) : p.cq[i].seq = x.seq /\ Between(i, p.cq_head, c.tail)
    BY Zenon, <1>5, <2>3 DEF Somewhere
  <2>4. CASE k >= QueueSize[q]
    BY Zenon, <1>8, <2>4 DEF Somewhere, N
  <2> QED
    BY Zenon, <1>11, <2>1, <2>2, <2>3, <2>4 DEF Somewhere
<1> QED
  BY Zenon, <1>1, <1>5, <1>9, <1>10, <1>11 DEF QueueOK

(* The controller answers w: the entry it posts is not yet in front of the *)
(* driver, for there is room, and the command is now answered.             *)
LEMMA CompleteQueue ==
  ASSUME NEW q \in Queues, NEW p, NEW c, NEW k, NEW n \in Nat, QueueOK(q, p, c, k, n),
         NEW w \in c.work, (c.tail + 1) % QueueSize[q] # p.cq_head, NEW e \in Completion,
         e.cid = w.cid, e.phase = c.phase, e.seq = w.seq
  PROVE  /\ QueueOK(q, Posted(p, c, e), Answered(q, c, w), k, n)
         /\ \A x : Somewhere(q, x, p, c, k)
                     => Somewhere(q, x, Posted(p, c, e), Answered(q, c, w), k)
<1> DEFINE r == Posted(p, c, e)
           d == Answered(q, c, w)
           h == p.cq_head
           t == c.tail
           u == After(q, t)
<1>1. p \in Pair(q) /\ c \in Controller(q)
  BY Zenon DEF QueueOK
<1>2. /\ p.cq \in [Rings(q) -> Completion] /\ h \in Rings(q) /\ t \in Rings(q)
      /\ p.cq_phase \in {0, 1} /\ c.phase \in {0, 1} /\ c.work \subseteq Command
  BY Zenon, <1>1, Fields
<1>3. u \in Rings(q) /\ (t + 1) % QueueSize[q] = u /\ 1 - c.phase \in {0, 1} /\ u # h
  BY <1>2, Moves
<1>4. Genuine(w, n) /\ w \in Command
  BY Zenon, <1>2 DEF QueueOK, SubmissionsOK
<1>5. Genuine(e, n)
  BY Zenon, <1>4 DEF Genuine
<1>6. /\ d.head = c.head /\ d.tail = u /\ d.work = c.work \ {w}
      /\ d.phase = IF u = 0 THEN 1 - c.phase ELSE c.phase
      /\ d \in Controller(q)
  BY Zenon, <1>1, <1>2, <1>3 DEF Controller, Answered
<1>7. /\ r.sq = p.sq /\ r.sq_tail = p.sq_tail /\ r.cq_head = h /\ r.cq_phase = p.cq_phase
      /\ r.cq = [p.cq EXCEPT ![t] = e] /\ r \in Pair(q)
  BY Zenon, <1>1, <1>2, <1>5 DEF Pair, Posted
<1>8. \A i \in Rings(q) : Between(i, h, u) <=> Between(i, h, t) \/ i = t
  BY <1>2, <1>3, Sizes DEF Between, After
<1>9. \A i \in Rings(q) : Expected(r, i) = Expected(p, i)
  BY Zenon, <1>7 DEF Expected
<1>10. c.phase = Expected(p, t)
  BY Zenon DEF QueueOK, CompletionsOK
<1>11. d.phase = Expected(r, u)
  BY <1>2, <1>3, <1>6, <1>7, <1>10, Sizes DEF Expected, After
<1> HIDE DEF r, d, h, t, u
<1>12. ASSUME NEW i \in Rings(q)
       PROVE  /\ r.cq[i].phase = Expected(r, i) <=> Between(i, r.cq_head, d.tail)
              /\ Between(i, r.cq_head, d.tail) => Genuine(r.cq[i], n)
  <2>1. /\ p.cq[i].phase = Expected(p, i) <=> Between(i, h, t)
        /\ Between(i, h, t) => Genuine(p.cq[i], n)
    BY Zenon DEF QueueOK, CompletionsOK, h, t
  <2>2. CASE i = t
    <3>1. r.cq[i] = e
      BY Zenon, <1>2, <1>7, <2>2
    <3> QED
      BY Zenon, <1>5, <1>6, <1>7, <1>8, <1>9, <1>10, <2>2, <3>1
  <2>3. CASE i # t
    <3>1. r.cq[i] = p.cq[i]
      BY Zenon, <1>2, <1>7, <2>3
    <3> QED
      BY Zenon, <1>6, <1>7, <1>8, <1>9, <2>1, <2>3, <3>1
  <2> QED
    BY Zenon, <2>2, <2>3
<1>13. SubmissionsOK(q, r, d, k, n)
  BY Zenon, <1>6, <1>7 DEF QueueOK, SubmissionsOK
<1>14. ASSUME NEW x, Somewhere(q, x, p, c, k)
       PROVE  Somewhere(q, x, r, d, k)
  <2>1. CASE \E i \in Rings(q) : p.cq[i].seq = x.seq /\ Between(i, p.cq_head, c.tail)
    <3>1. PICK i \in Rings(q) : p.cq[i].seq = x.seq /\ Between(i, h, t)
      BY Zenon, <2>1 DEF h, t
    <3>2. i # t
      BY <1>2, <3>1, Sizes DEF Between
    <3>3. r.cq[i].seq = x.seq /\ Between(i, r.cq_head, d.tail)
      BY Zenon, <1>2, <1>6, <1>7, <1>8, <3>1, <3>2
    <3> QED
      BY Zenon, <3>3 DEF Somewhere
  <2>2. CASE x \in c.work
    <3>1. CASE x = w
      <4>1. r.cq[t].seq = x.seq /\ Between(t, r.cq_head, d.tail)
        BY Zenon, <1>2, <1>5, <1>6, <1>7, <1>8, <3>1
      <4> QED
        BY Zenon, <1>2, <4>1 DEF Somewhere
    <3>2. CASE x # w
      BY Zenon, <1>6, <2>2, <3>2 DEF Somewhere
    <3> QED
      BY Zenon, <3>1, <3>2
  <2>3. CASE \E i \in Rings(q) : p.sq[i] = x /\ Between(i, c.head, p.sq_tail)
    BY Zenon, <1>6, <1>7, <2>3 DEF Somewhere
  <2>4. CASE k >= QueueSize[q]
    BY Zenon, <2>4 DEF Somewhere
  <2> QED
    BY Zenon, <1>14, <2>1, <2>2, <2>3, <2>4 DEF Somewhere
<1> QED
  BY Zenon, <1>6, <1>7, <1>11, <1>12, <1>13, <1>14 DEF QueueOK, CompletionsOK, r, d

-----------------------------------------------------------------------------
(* Every step keeps the invariant. *)

(* Before nvme_init there are no queues.                                   *)
LEMMA InitIInv == Init => IInv
<1> SUFFICES ASSUME Init PROVE IInv
  BY Zenon
<1>1. Types /\ Stages /\ Buffers /\ Awaited /\ OwnAnswer
  BY NvmeConstants DEF Init, Types, Stages, Buffers, Held, Awaited, OwnAnswer, Identifying, Creating
<1>2. Arrays /\ \A q \in Queues : Unused(q)
  BY DEF Init, Unused, Arrays
<1> QED
  BY Zenon, <1>1, <1>2 DEF IInv, QueuesOK, Init

(* A step that leaves the queues alone and starts no wait.                 *)
LEMMA QueuesStay ==
  ASSUME IInv, UNCHANGED <<issued, qp, pages, ctl, lag>>, cur' \in {cur, None},
         ret' \in Result \cup {None}, ns' \in Nat, num_namespaces' \in Nat,
         Stages', Buffers', OwnAnswer'
  PROVE  IInv'
<1>1. Types'
  BY Zenon DEF IInv, Types
<1>2. Awaited'
  BY Zenon DEF IInv, Awaited
<1>3. QueuesOK'
  BY Zenon DEF IInv, QueuesOK, Arrays, Unused
<1> QED
  BY Zenon, <1>1, <1>2, <1>3, PartsNext

(* One queue changes: the other is as it was.                              *)
LEMMA OneQueue ==
  ASSUME IInv, NEW q \in Queues, NEW r, NEW d, NEW k,
         QueueOK(q, r, d, k, issued'), issued' \in {issued, issued + 1}, pages' = pages \cup {q},
         qp' = [qp EXCEPT ![q] = r], ctl' = [ctl EXCEPT ![q] = d], lag' = [lag EXCEPT ![q] = k]
  PROVE  QueuesOK'
<1>1. /\ Arrays /\ issued \in Nat /\ pages \subseteq Queues
      /\ \A a \in pages : QueueOK(a, qp[a], ctl[a], lag[a], issued)
      /\ \A a \in Queues \ pages : Unused(a)
  BY Zenon, Parts
<1>2. /\ qp'[q] = r /\ ctl'[q] = d /\ lag'[q] = k /\ Arrays'
      /\ \A a \in Queues \ {q} : qp'[a] = qp[a] /\ ctl'[a] = ctl[a] /\ lag'[a] = lag[a]
      /\ \A a \in Queues \ {q} : Unused(a) => Unused(a)'
  BY Zenon, <1>1, Update
<1>3. ASSUME NEW a \in pages' PROVE QueueOK(a, qp'[a], ctl'[a], lag'[a], issued')
  <2>1. CASE a = q
    BY Zenon, <1>2, <2>1
  <2>2. CASE a # q
    <3>1. a \in Queues /\ QueueOK(a, qp[a], ctl[a], lag[a], issued)
      BY Zenon, <1>1, <2>2
    <3>2. QueueOK(a, qp[a], ctl[a], lag[a], issued')
      BY Zenon, <1>1, <3>1, OtherIssued
    <3> QED
      BY Zenon, <1>2, <2>2, <3>1, <3>2
  <2> QED
    BY Zenon, <2>1, <2>2
<1>4. \A a \in Queues \ pages' : Unused(a)'
  BY Zenon, <1>1, <1>2
<1> QED
  BY Zenon, <1>2, <1>3, <1>4 DEF QueuesOK

(* nvme_submit_command.                                                    *)
LEMMA SubmitStep ==
  ASSUME IInv, NEW q \in pages, NEW op \in Ops, NEW nsid \in Nat, Submits(q, op, nsid)
  PROVE  /\ IInv' /\ UNCHANGED pages /\ cur'.seq = issued + 1 /\ cur = None /\ cur' # None
         /\ qp' = [qp EXCEPT ![q] = Submitted(q, qp[q], cur')]
<1> DEFINE buf == IF pc \in Identifying THEN issued + 1 ELSE 0
<1>1. /\ Types /\ Stages /\ Arrays /\ q \in Queues /\ issued \in Nat /\ ns \in Nat /\ num_namespaces \in Nat
      /\ pages \subseteq Queues /\ QueueOK(q, qp[q], ctl[q], lag[q], issued)
  BY Zenon, Parts
<1>2. /\ nvme_submit_command(q, op, nsid, buf) /\ cur = None /\ ret' = None
      /\ pc \in Identifying \cup Creating \cup {"idle"}
      /\ buffers' = IF pc \in Identifying THEN {issued + 1} ELSE {}
      /\ UNCHANGED <<ctl, pages, pc, ns, num_namespaces>>
  BY Zenon DEF Submits
<1>3. buf \in Nat
  BY <1>1
<1> HIDE DEF buf
<1>4. qp[q] \in Pair(q) /\ ctl[q] \in Controller(q) /\ lag[q] \in Nat
  BY Zenon, <1>1, QueueParts
<1>5. issued < IdMod /\ IdMod \in Nat \ {0} /\ MaxCommands \in 0 .. IdMod
  BY <1>1, <1>2, NvmeConstants DEF nvme_submit_command
<1>6. issued % IdMod = issued
  BY Zenon, <1>1, <1>5, ModFacts
<1>7. /\ cur' \in Command /\ cur' # None /\ cur'.seq = issued + 1 /\ cur'.cid = issued
      /\ cur'.buf = buf /\ cur'.q = q /\ issued < MaxCommands /\ issued' = issued + 1
      /\ qp' = [qp EXCEPT ![q] = Submitted(q, qp[q], cur')]
      /\ lag' = [lag EXCEPT ![q] = lag[q] + 1] /\ ctl' = [ctl EXCEPT ![q] = ctl[q]]
  BY Zenon, <1>1, <1>2, <1>3, <1>4, <1>5, <1>6, SubmitDoes, Same
<1>8. /\ QueueOK(q, Submitted(q, qp[q], cur'), ctl[q], lag[q] + 1, issued + 1)
      /\ Somewhere(q, cur', Submitted(q, qp[q], cur'), ctl[q], lag[q] + 1)
  BY Zenon, <1>1, <1>7, SubmitQueue
<1> DEFINE r == Submitted(q, qp[q], cur')
           d == ctl[q]
           k == lag[q] + 1
<1>9. /\ qp' = [qp EXCEPT ![q] = r] /\ ctl' = [ctl EXCEPT ![q] = d] /\ lag' = [lag EXCEPT ![q] = k]
      /\ pages' = pages \cup {q} /\ QueueOK(q, r, d, k, issued') /\ Somewhere(q, cur', r, d, k)
      /\ issued' \in {issued, issued + 1}
  BY Zenon, <1>2, <1>7, <1>8
<1> HIDE DEF r, d, k
<1>10. Genuine(cur', issued') /\ issued' \in 0 .. MaxCommands
  BY <1>1, <1>5, <1>7 DEF Genuine
<1>11. QueuesOK' /\ Awaited'
  <2>1. qp'[q] = r /\ ctl'[q] = d /\ lag'[q] = k
    BY Zenon, <1>1, <1>9 DEF Arrays
  <2>2. QueuesOK'
    BY Zenon, <1>1, <1>9, OneQueue
  <2>3. /\ cur'.q = q /\ q \in pages' /\ Genuine(cur', issued')
        /\ Somewhere(q, cur', qp'[q], ctl'[q], lag'[q])
    BY Zenon, <1>2, <1>7, <1>9, <1>10, <2>1
  <2> QED
    BY Zenon, <2>2, <2>3 DEF Awaited
<1>12. Types' /\ Stages' /\ Buffers' /\ OwnAnswer'
  BY <1>1, <1>2, <1>7, <1>10 DEF Types, Stages, Buffers, Held, OwnAnswer, buf
<1> QED
  BY Zenon, <1>2, <1>7, <1>11, <1>12, PartsNext

(* nvme_init_queue_pair allocates a queue that was untouched.              *)
LEMMA AllocateStep ==
  ASSUME IInv, NEW q \in Queues \ pages, Allocates(q)
  PROVE  IInv'
<1> DEFINE r == [sq |-> [i \in 0 .. QueueSize[q] - 1 |-> None],
                 cq |-> [i \in 0 .. QueueSize[q] - 1 |-> Zeroed],
                 sq_tail |-> 0, cq_head |-> 0, cq_phase |-> 1]
<1>1. /\ Types /\ Arrays /\ OwnAnswer /\ issued \in Nat /\ Unused(q)
  BY Zenon, Parts
<1>2. /\ qp' = [qp EXCEPT ![q] = r] /\ pages' = pages \cup {q} /\ cur = None
      /\ UNCHANGED <<cur, ret, issued, buffers, num_namespaces, ns, ctl, lag>> /\ Stages' /\ Buffers'
  BY Zenon DEF Allocates, nvme_init_queue_pair
<1>3. lag[q] = 0 /\ ctl[q] = [head |-> 0, tail |-> 0, phase |-> 1, work |-> {}]
  BY Zenon, <1>1 DEF Unused
<1>4. QueueOK(q, r, ctl[q], lag[q], issued')
  BY Zenon, <1>1, <1>2, <1>3, NewQueue
<1> DEFINE d == ctl[q]
           k == lag[q]
<1> HIDE DEF r
<1>5. /\ ctl' = [ctl EXCEPT ![q] = d] /\ lag' = [lag EXCEPT ![q] = k]
      /\ q \in Queues /\ issued' \in {issued, issued + 1} /\ QueueOK(q, r, d, k, issued')
  BY Zenon, <1>1, <1>2, <1>4, Same
<1> HIDE DEF d, k
<1>6. QueuesOK'
  BY Zenon, <1>2, <1>5, OneQueue
<1>7. Types' /\ Awaited' /\ OwnAnswer'
  BY Zenon, <1>1, <1>2 DEF Types, Awaited, OwnAnswer
<1> QED
  BY Zenon, <1>2, <1>6, <1>7, PartsNext

(* The end of a wait.                                                      *)
LEMMA ReturnStep ==
  ASSUME IInv, NEW err, NEW a, Returns(err, a), err # "E_TIMEOUT" => a = cur.seq
  PROVE  Types' /\ Stages' /\ Buffers' /\ Awaited' /\ OwnAnswer'
<1>1. /\ cur' = None /\ ret' \in Result /\ ret'.err = err /\ ret'.answer = a /\ ret'.seq = cur.seq
      /\ Stages' /\ Buffers'
  BY Zenon DEF Returns
<1>2. Types'
  BY Zenon, <1>1 DEF IInv, Types, Returns
<1> QED
  BY Zenon, <1>1, <1>2 DEF Awaited, OwnAnswer

(* One iteration of the loop of nvme_wait_completion, or its end.          *)
LEMMA WaitStep ==
  ASSUME IInv, nvme_wait_completion
  PROVE  /\ IInv' /\ UNCHANGED pages /\ cur' \in {cur, None} /\ cur # None
         /\ \/ UNCHANGED <<cur, qp>>
            \/ UNCHANGED qp /\ cur' = None /\ ret'.err = "E_TIMEOUT"
            \/ /\ IsAnswer(qp[cur.q], cur.cid) /\ cur.q \in Queues
               /\ qp' = [qp EXCEPT ![cur.q] = Advanced(qp[cur.q], cur.q)]
<1> DEFINE q == cur.q
           p == qp[q]
<1>1. /\ cur # None /\ Arrays /\ issued \in Nat /\ q \in pages /\ q \in Queues
      /\ QueueOK(q, p, ctl[q], lag[q], issued) /\ Genuine(cur, issued)
  BY Zenon, Parts DEF nvme_wait_completion
<1>2. CASE Quiet
  BY Zenon, <1>1, <1>2, QueuesStay DEF Quiet
<1>3. CASE UNCHANGED qp /\ Returns("E_TIMEOUT", 0)
  <2>1. Types' /\ Stages' /\ Buffers' /\ Awaited' /\ OwnAnswer'
    BY Zenon, <1>3, ReturnStep
  <2>2. /\ cur' = None /\ ret'.err = "E_TIMEOUT" /\ ret' \in Result
        /\ UNCHANGED <<issued, qp, pages, ctl, lag>> /\ ns' \in Nat /\ num_namespaces' \in Nat
    BY Zenon, <1>3, <2>1 DEF Returns, Types
  <2> QED
    BY Zenon, <1>1, <2>1, <2>2, QueuesStay
<1>4. ASSUME IsAnswer(p, cur.cid), qp' = [qp EXCEPT ![q] = Advanced(p, q)],
             NEW err \in {"E_OK", "E_HARDWARE"}, Return(err, p.cq[p.cq_head].seq),
             \A e \in {"E_OK", "E_HARDWARE"}, a \in Nat : Return(e, a) => Returns(e, a)
      PROVE  IInv' /\ UNCHANGED pages /\ cur' = None
  <2>1. /\ QueueOK(q, Advanced(p, q), ctl[q], lag[q], issued)
        /\ p.cq[p.cq_head].seq = cur.seq /\ cur.seq \in Nat
    BY Zenon, <1>1, <1>4, PollAnswer
  <2> HIDE DEF p, q
  <2>2. Returns(err, cur.seq)
    BY Zenon, <1>4, <2>1
  <2>3. Types' /\ Stages' /\ Buffers' /\ Awaited' /\ OwnAnswer'
    BY Zenon, <2>2, ReturnStep
  <2>4. cur' = None /\ UNCHANGED <<issued, pages, ctl, lag>>
    BY Zenon, <2>2 DEF Returns
  <2>5. /\ ctl' = [ctl EXCEPT ![q] = ctl[q]] /\ lag' = [lag EXCEPT ![q] = lag[q]]
        /\ issued' \in {issued, issued + 1} /\ pages' = pages \cup {q}
        /\ QueueOK(q, Advanced(p, q), ctl[q], lag[q], issued')
    BY Zenon, <1>1, <2>1, <2>4, Same
  <2>6. QueuesOK'
    BY Zenon, <1>1, <1>4, <2>5, OneQueue
  <2> QED
    BY Zenon, <2>3, <2>4, <2>6, PartsNext
<1> HIDE DEF p, q
<1>5. \/ Quiet
      \/ UNCHANGED qp /\ Returns("E_TIMEOUT", 0)
      \/ /\ IsAnswer(p, cur.cid) /\ qp' = [qp EXCEPT ![q] = Advanced(p, q)]
         /\ \E err \in {"E_OK", "E_HARDWARE"} : Return(err, p.cq[p.cq_head].seq)
         /\ \A err \in {"E_OK", "E_HARDWARE"}, a \in Nat : Return(err, a) => Returns(err, a)
  BY Zenon, WaitDoes DEF p, q
<1> QED
  BY Zenon, <1>1, <1>2, <1>3, <1>4, <1>5 DEF p, q

(* A step of the controller leaves the driver alone.                       *)
LEMMA ControllerStep ==
  ASSUME IInv, NEW q \in pages, NEW r, NEW d, NEW k, QueueOK(q, r, d, k, issued),
         \A x : Somewhere(q, x, qp[q], ctl[q], lag[q]) => Somewhere(q, x, r, d, k),
         qp' = [qp EXCEPT ![q] = r], ctl' = [ctl EXCEPT ![q] = d], lag' = [lag EXCEPT ![q] = k],
         UNCHANGED <<pc, cur, ret, issued, pages, buffers, num_namespaces, ns>>
  PROVE  IInv'
<1>0. /\ Types /\ Stages /\ Buffers /\ OwnAnswer /\ Arrays /\ q \in Queues /\ pages \subseteq Queues
  BY Zenon, Parts
<1>1. issued' \in {issued, issued + 1} /\ pages' = pages \cup {q} /\ QueueOK(q, r, d, k, issued')
  BY Zenon
<1>2. /\ qp'[q] = r /\ ctl'[q] = d /\ lag'[q] = k
      /\ \A a \in Queues \ {q} : qp'[a] = qp[a] /\ ctl'[a] = ctl[a] /\ lag'[a] = lag[a]
  BY Zenon, <1>0 DEF Arrays
<1>3. Types' /\ Stages' /\ Buffers' /\ OwnAnswer'
  BY Zenon, <1>0 DEF Types, Stages, Buffers, Held, OwnAnswer
<1>4. Awaited'
  <2> SUFFICES ASSUME cur # None
               PROVE  /\ cur.q \in pages /\ Genuine(cur, issued)
                      /\ Somewhere(cur.q, cur, qp'[cur.q], ctl'[cur.q], lag'[cur.q])
    BY Zenon DEF Awaited
  <2>1. /\ cur.q \in pages /\ Genuine(cur, issued)
        /\ Somewhere(cur.q, cur, qp[cur.q], ctl[cur.q], lag[cur.q])
    BY Zenon, Parts
  <2> QED
    BY Zenon, <1>0, <1>2, <2>1
<1>5. QueuesOK'
  BY Zenon, <1>0, <1>1, OneQueue
<1> QED
  BY Zenon, <1>3, <1>4, <1>5, PartsNext

(* The controller fetches a command, if the queue has one.                 *)
LEMMA FetchStep ==
  ASSUME IInv, NEW q \in Queues, Fetch(q)
  PROVE  IInv' /\ UNCHANGED <<qp, pages, cur>>
<1>1. q \in pages
  BY Zenon DEF Fetch
<1>2. Arrays /\ issued \in Nat /\ QueueOK(q, qp[q], ctl[q], lag[q], issued)
  BY Zenon, <1>1, Parts
<1>3. ctl[q] \in Controller(q)
  BY Zenon, <1>2, QueueParts
<1>4. /\ ctl[q].head # qp[q].sq_tail
      /\ qp' = [qp EXCEPT ![q] = qp[q]] /\ lag' = [lag EXCEPT ![q] = lag[q] - 1]
      /\ ctl' = [ctl EXCEPT ![q] = Fetched(q, qp[q], ctl[q])]
      /\ UNCHANGED <<pc, cur, ret, issued, qp, pages, buffers, num_namespaces, ns>>
  BY Zenon, <1>2, <1>3, FetchDoes
<1>5. /\ QueueOK(q, qp[q], Fetched(q, qp[q], ctl[q]), lag[q] - 1, issued)
      /\ \A x : Somewhere(q, x, qp[q], ctl[q], lag[q])
                  => Somewhere(q, x, qp[q], Fetched(q, qp[q], ctl[q]), lag[q] - 1)
  BY Zenon, <1>2, <1>4, FetchQueue
<1> QED
  BY Zenon, <1>1, <1>4, <1>5, ControllerStep

(* The controller answers a command, with or without an error.             *)
LEMMA CompleteStep ==
  ASSUME IInv, NEW q \in Queues, NEW w \in ctl[q].work, NEW ok \in BOOLEAN, Complete(q, w, ok)
  PROVE  /\ IInv' /\ q \in pages /\ UNCHANGED <<cur, pages>>
         /\ \E e : qp' = [qp EXCEPT ![q] = Posted(qp[q], ctl[q], e)]
         /\ qp[q] \in Pair(q) /\ ctl[q] \in Controller(q)
<1>1. q \in pages
  BY Parts DEF Unused
<1>2. Arrays /\ issued \in Nat /\ QueueOK(q, qp[q], ctl[q], lag[q], issued)
  BY Zenon, <1>1, Parts
<1>3. qp[q] \in Pair(q) /\ ctl[q] \in Controller(q)
  BY Zenon, <1>2, QueueParts
<1>4. PICK e \in Completion :
        /\ e.cid = w.cid /\ e.phase = ctl[q].phase /\ e.seq = w.seq
        /\ (ctl[q].tail + 1) % QueueSize[q] # qp[q].cq_head
        /\ qp' = [qp EXCEPT ![q] = Posted(qp[q], ctl[q], e)]
        /\ ctl' = [ctl EXCEPT ![q] = Answered(q, ctl[q], w)]
        /\ lag' = [lag EXCEPT ![q] = lag[q]]
        /\ UNCHANGED <<pc, cur, ret, issued, pages, buffers, num_namespaces, ns>>
  BY <1>2, <1>3, CompleteDoes
<1>5. /\ QueueOK(q, Posted(qp[q], ctl[q], e), Answered(q, ctl[q], w), lag[q], issued)
      /\ \A x : Somewhere(q, x, qp[q], ctl[q], lag[q])
                  => Somewhere(q, x, Posted(qp[q], ctl[q], e), Answered(q, ctl[q], w), lag[q])
  BY Zenon, <1>2, <1>4, CompleteQueue
<1> QED
  BY Zenon, <1>1, <1>3, <1>4, <1>5, ControllerStep

(* What a step does, however it is taken.                                  *)
LEMMA Steps ==
  ASSUME IInv, [Next]_vars
  PROVE  \/ Quiet \/ nvme_wait_completion
         \/ \E q \in pages, op \in Ops, nsid \in Nat : Submits(q, op, nsid)
         \/ \E q \in Queues \ pages : Allocates(q)
         \/ \E q \in Queues : Fetch(q)
         \/ \E q \in Queues : \E w \in ctl[q].work, ok \in BOOLEAN : Complete(q, w, ok)
<1>1. CASE nvme_init
  BY Zenon, <1>1, StagesDo, SubmitsDo, AllocatesDo DEF nvme_init
<1>2. CASE \E id \in 0 .. MaxBlockDevices - 1 : nvme_read_block_op(id) \/ nvme_write_block_op(id)
  BY Zenon, <1>2, SubmitsDo
<1>3. CASE ControllerChanges \/ UNCHANGED vars
  BY Zenon, <1>3, StagesDo
<1> QED
  BY Zenon, <1>1, <1>2, <1>3 DEF Next, Driver

(* Every step keeps the invariant.                                         *)
LEMMA NextIInv == IInv /\ [Next]_vars => IInv'
<1> SUFFICES ASSUME IInv, [Next]_vars PROVE IInv'
  BY Zenon
<1>1. CASE Quiet
  BY Zenon, <1>1, QueuesStay DEF Quiet
<1> QED
  BY Zenon, <1>1, Steps, WaitStep, SubmitStep, AllocateStep, FetchStep, CompleteStep

(* The invariant of nvme.c and the controller holds throughout, for every  *)
(* queue size, number of polls and number of namespaces.                   *)
THEOREM NvmeAlways == Spec => []IInv
  BY InitIInv, NextIInv, PTL DEF Spec

-----------------------------------------------------------------------------
(* The theorems. *)

(* nvme_wait_completion reports a command as done or failed only on the    *)
(* completion of that very command.                                        *)
THEOREM OwnAnswerAlways == Spec => []OwnAnswer
<1>1. IInv => OwnAnswer
  BY Zenon DEF IInv
<1> QED
  BY <1>1, NvmeAlways, PTL

(* The phase tag tells exactly the posted entries, in a ring of any size.  *)
THEOREM PhaseTellsPostedAlways == Spec => []PhaseTellsPosted
<1>1. IInv => PhaseTellsPosted
  <2> SUFFICES ASSUME IInv, NEW q \in pages, NEW i \in Rings(q)
               PROVE  LET dist(j) == (j - qp[q].cq_head + QueueSize[q]) % QueueSize[q]
                      IN  qp[q].cq[i].phase = Expected(qp[q], i) <=> dist(i) < dist(ctl[q].tail)
    BY Zenon DEF PhaseTellsPosted, Expected
  <2>1. q \in Queues /\ QueueOK(q, qp[q], ctl[q], lag[q], issued)
    BY Zenon, Parts
  <2>2. /\ qp[q] \in Pair(q) /\ ctl[q] \in Controller(q)
        /\ CompletionsOK(q, qp[q], ctl[q], issued)
    BY Zenon, <2>1, QueueParts
  <2>3. qp[q].cq_head \in Rings(q) /\ ctl[q].tail \in Rings(q)
    BY Zenon, <2>1, <2>2, Fields
  <2>4. qp[q].cq[i].phase = Expected(qp[q], i) <=> Between(i, qp[q].cq_head, ctl[q].tail)
    BY Zenon, <2>2 DEF CompletionsOK
  <2> QED
    BY Zenon, <2>1, <2>3, <2>4, Distance, AheadBetween
<1> QED
  BY <1>1, NvmeAlways, PTL

(* nvme_identify_controller and nvme_identify_namespace hold their buffer  *)
(* exactly as long as the command is awaited, on every path to E_OK.       *)
THEOREM BufferExactAlways == Spec => []BufferExact
<1>1. IInv => BufferExact
  BY Zenon DEF IInv, Stages, Buffers, Held, BufferExact, Identifying, Creating
<1> QED
  BY <1>1, NvmeAlways, PTL

(* The submission queue loses no command before the controller is a whole  *)
(* queue behind.                                                           *)
THEOREM SubmittedIsSeenAlways == Spec => []SubmittedIsSeen
<1>1. IInv => SubmittedIsSeen
  <2> SUFFICES ASSUME IInv, cur # None
               PROVE  LET q == cur.q
                          dist(i) == (i - ctl[q].head + QueueSize[q]) % QueueSize[q]
                      IN  \/ cur \in ctl[q].work
                          \/ \E i \in Rings(q) : qp[q].cq[i].seq = cur.seq
                          \/ \E i \in Rings(q) : qp[q].sq[i] = cur /\ dist(i) < dist(qp[q].sq_tail)
                          \/ lag[q] >= QueueSize[q]
    BY Zenon DEF SubmittedIsSeen
  <2> DEFINE q == cur.q
  <2>1. /\ q \in Queues /\ QueueOK(q, qp[q], ctl[q], lag[q], issued)
        /\ Somewhere(q, cur, qp[q], ctl[q], lag[q])
    BY Zenon, Parts
  <2> HIDE DEF q
  <2>2. qp[q] \in Pair(q) /\ ctl[q] \in Controller(q)
    BY Zenon, <2>1, QueueParts
  <2>3. ctl[q].head \in Rings(q) /\ qp[q].sq_tail \in Rings(q)
    BY Zenon, <2>1, <2>2, Fields
  <2>4. ASSUME NEW i \in Rings(q), Between(i, ctl[q].head, qp[q].sq_tail)
        PROVE  (i - ctl[q].head + QueueSize[q]) % QueueSize[q]
                 < (qp[q].sq_tail - ctl[q].head + QueueSize[q]) % QueueSize[q]
    BY Zenon, <2>1, <2>3, <2>4, Distance, AheadBetween
  <2> QED
    BY Zenon, <2>1, <2>4 DEF Somewhere, q
<1> QED
  BY <1>1, NvmeAlways, PTL

(* The late answer at the head of a queue is genuine, so no later command  *)
(* has its identifier.                                                     *)
LEMMA WedgedEntry ==
  ASSUME IInv, NEW q \in Queues, Wedged(q)
  PROVE  /\ q \in pages /\ issued \in Nat /\ qp[q] \in Pair(q) /\ ctl[q] \in Controller(q)
         /\ qp[q].cq[qp[q].cq_head].seq \in 1 .. issued
         /\ cur # None /\ cur.q = q => ~ IsAnswer(qp[q], cur.cid)
         /\ ctl[q].tail # qp[q].cq_head
<1> DEFINE p == qp[q]
           e == p.cq[p.cq_head]
<1>1. q \in pages /\ issued \in Nat /\ e.phase = p.cq_phase /\ (cur = None \/ cur.q # q \/ e.seq # cur.seq)
  BY Zenon, Parts DEF Wedged
<1>2. QueueOK(q, p, ctl[q], lag[q], issued)
  BY Zenon, <1>1, Parts
<1>3. Genuine(e, issued)
  BY Zenon, <1>1, <1>2, AdvanceQueue
<1>4. p \in Pair(q) /\ ctl[q] \in Controller(q) /\ CompletionsOK(q, p, ctl[q], issued)
  BY Zenon, <1>2, QueueParts
<1>5. p.cq_head \in Rings(q) /\ ctl[q].tail \in Rings(q)
  BY Zenon, <1>4, Fields
<1>6. ctl[q].tail # p.cq_head
  <2> HIDE DEF p
  <2>1. Expected(p, p.cq_head) = p.cq_phase
    BY <1>5, Sizes DEF Expected
  <2>2. Between(p.cq_head, p.cq_head, ctl[q].tail)
    BY Zenon, <1>1, <1>4, <1>5, <2>1 DEF CompletionsOK
  <2> QED
    BY <1>5, <2>2, Sizes DEF Between
<1>7. ASSUME cur # None, cur.q = q PROVE e.cid # cur.cid
  <2>1. Genuine(cur, issued)
    BY Zenon, <1>7, Parts
  <2> HIDE DEF e
  <2> QED
    BY <1>1, <1>3, <1>7, <2>1 DEF Genuine
<1> QED
  BY Zenon, <1>1, <1>3, <1>4, <1>6, <1>7 DEF Genuine, IsAnswer

(* A step that leaves the head of the queue alone leaves it blocked.       *)
LEMMA WedgedStays ==
  ASSUME IInv, NEW q \in Queues, Wedged(q), q \in pages',
         qp'[q].cq[qp'[q].cq_head] = qp[q].cq[qp[q].cq_head], qp'[q].cq_phase = qp[q].cq_phase,
         cur' = cur \/ cur' = None \/ cur'.seq = issued + 1
  PROVE  Wedged(q)'
<1> DEFINE e == qp[q].cq[qp[q].cq_head]
<1>1. e.seq \in 1 .. issued /\ issued \in Nat
  BY Zenon, WedgedEntry
<1>2. \A s, n : n \in Nat /\ s \in 1 .. n => s # n + 1
  OBVIOUS
<1>3. e.seq # issued + 1
  BY Zenon, <1>1, <1>2
<1> QED
  BY Zenon, <1>3 DEF Wedged

(* A submission writes only the submission queue.                          *)
LEMMA SubmitKeepsHead ==
  ASSUME NEW q \in Queues, NEW p \in Pair(q), NEW x, NEW r, r = Submitted(q, p, x)
  PROVE  r.cq[r.cq_head] = p.cq[p.cq_head] /\ r.cq_phase = p.cq_phase
  BY Zenon DEF Submitted, Pair

(* The controller writes a slot that is not at the driver's head.          *)
LEMMA PostKeepsHead ==
  ASSUME NEW q \in Queues, NEW p \in Pair(q), NEW c \in Controller(q), NEW e,
         c.tail # p.cq_head, NEW r, r = Posted(p, c, e)
  PROVE  r.cq[r.cq_head] = p.cq[p.cq_head] /\ r.cq_phase = p.cq_phase
<1>1. p.cq_head \in Rings(q) /\ p.cq \in [Rings(q) -> Completion]
  BY Zenon, Fields
<1>2. r.cq = [p.cq EXCEPT ![c.tail] = e] /\ r.cq_head = p.cq_head /\ r.cq_phase = p.cq_phase
  BY Zenon DEF Posted, Pair
<1> QED
  BY Zenon, <1>1, <1>2

(* No step removes a late answer, or ends the wait of a command behind it  *)
(* otherwise than by a time-out.                                           *)
LEMMA WedgedStep ==
  ASSUME IInv, [Next]_vars, NEW q \in Queues, Wedged(q)
  PROVE  /\ Wedged(q)'
         /\ cur # None /\ cur.q = q /\ cur' = None => ret'.err = "E_TIMEOUT"
<1> DEFINE Goal == /\ Wedged(q)'
                   /\ cur # None /\ cur.q = q /\ cur' = None => ret'.err = "E_TIMEOUT"
<1>1. /\ Arrays /\ q \in pages /\ qp[q] \in Pair(q) /\ ctl[q] \in Controller(q)
      /\ cur # None /\ cur.q = q => ~ IsAnswer(qp[q], cur.cid)
      /\ ctl[q].tail # qp[q].cq_head /\ pages \subseteq Queues
  BY Zenon, WedgedEntry, Parts
<1>2. ASSUME UNCHANGED <<qp, pages, cur>>
      PROVE  Goal
  BY Zenon, <1>1, <1>2, WedgedStays
<1>3. CASE nvme_wait_completion
  <2>1. UNCHANGED pages /\ cur' \in {cur, None} /\ cur # None
    BY Zenon, <1>3, WaitStep
  <2>2. CASE UNCHANGED <<cur, qp>>
    BY Zenon, <1>2, <2>1, <2>2
  <2>3. CASE UNCHANGED qp /\ cur' = None /\ ret'.err = "E_TIMEOUT"
    BY Zenon, <1>1, <2>1, <2>3, WedgedStays
  <2>4. CASE /\ IsAnswer(qp[cur.q], cur.cid) /\ cur.q \in Queues
             /\ qp' = [qp EXCEPT ![cur.q] = Advanced(qp[cur.q], cur.q)]
    <3>1. cur.q # q
      BY Zenon, <1>1, <2>1, <2>4
    <3>2. qp'[q] = qp[q]
      BY Zenon, <1>1, <2>4, <3>1 DEF Arrays
    <3> QED
      BY Zenon, <1>1, <2>1, <3>1, <3>2, WedgedStays
  <2> QED
    BY Zenon, <1>3, <2>2, <2>3, <2>4, WaitStep
<1>4. ASSUME NEW a \in pages, NEW op \in Ops, NEW nsid \in Nat, Submits(a, op, nsid)
      PROVE  Goal
  <2>1. /\ UNCHANGED pages /\ cur'.seq = issued + 1 /\ cur = None /\ cur' # None
        /\ qp' = [qp EXCEPT ![a] = Submitted(a, qp[a], cur')]
    BY Zenon, <1>4, SubmitStep
  <2>2. /\ qp'[q].cq[qp'[q].cq_head] = qp[q].cq[qp[q].cq_head]
        /\ qp'[q].cq_phase = qp[q].cq_phase
    <3>1. CASE a = q
      <4>1. qp'[q] = Submitted(q, qp[q], cur')
        BY Zenon, <1>1, <2>1, <3>1 DEF Arrays
      <4> QED
        BY <1>1, <4>1, SubmitKeepsHead
    <3>2. CASE a # q
      BY Zenon, <1>1, <2>1, <3>2 DEF Arrays
    <3> QED
      BY Zenon, <3>1, <3>2
  <2> QED
    BY Zenon, <1>1, <2>1, <2>2, WedgedStays
<1>5. ASSUME NEW a \in Queues \ pages, Allocates(a)
      PROVE  Goal
  <2>1. qp'[q] = qp[q] /\ q \in pages' /\ cur' = cur
    BY Zenon, <1>1, <1>5 DEF Allocates, nvme_init_queue_pair, Arrays
  <2> QED
    BY Zenon, <2>1, WedgedStays
<1>6. ASSUME NEW a \in Queues, NEW w \in ctl[a].work, NEW ok \in BOOLEAN, Complete(a, w, ok)
      PROVE  Goal
  <2>1. PICK e : qp' = [qp EXCEPT ![a] = Posted(qp[a], ctl[a], e)] /\ UNCHANGED <<cur, pages>>
    BY Zenon, <1>6, CompleteStep
  <2>2. /\ qp'[q].cq[qp'[q].cq_head] = qp[q].cq[qp[q].cq_head]
        /\ qp'[q].cq_phase = qp[q].cq_phase
    <3>1. CASE a = q
      <4>1. qp'[q] = Posted(qp[q], ctl[q], e)
        BY Zenon, <1>1, <2>1, <3>1 DEF Arrays
      <4> QED
        BY <1>1, <4>1, PostKeepsHead
    <3>2. CASE a # q
      BY Zenon, <1>1, <2>1, <3>2 DEF Arrays
    <3> QED
      BY Zenon, <3>1, <3>2
  <2> QED
    BY Zenon, <1>1, <2>1, <2>2, WedgedStays
<1>7. CASE Quiet \/ \E a \in Queues : Fetch(a)
  <2>1. UNCHANGED <<qp, pages, cur>>
    BY Zenon, <1>7, FetchStep DEF Quiet
  <2> QED
    BY Zenon, <1>2, <2>1
<1> QED
  BY Zenon, <1>3, <1>4, <1>5, <1>6, <1>7, Steps

(* A late answer at the head of a completion queue is never taken, and     *)
(* from then on every wait on that queue ends with E_TIMEOUT.              *)
THEOREM LateAnswerBlocksAlways == Spec => LateAnswerBlocks
<1>1. IInv /\ [Next]_vars
        => [\A q \in Queues :
              Wedged(q) => /\ Wedged(q)'
                           /\ cur # None /\ cur.q = q /\ cur' = None => ret'.err = "E_TIMEOUT"]_vars
  BY Zenon, WedgedStep
<1> QED
  BY <1>1, NvmeAlways, PTL DEF Spec, LateAnswerBlocks
=============================================================================
