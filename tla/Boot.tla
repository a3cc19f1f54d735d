-------------------------------- MODULE Boot --------------------------------
(***************************************************************************)
(* Kernel start-up (kernel_main of kernel.c): the drivers are registered   *)
(* and initialised, the task system is set up, the shell task is created   *)
(* and queued, and kernel_main becomes the idle task.                      *)
(*                                                                         *)
(* Interrupts are meant to stay off until the end, but the PCI scan of the *)
(* NVMe driver turns them on (nvme_find_controller brackets each read with *)
(* cli and sti).  From then on the timer may tick between any two steps,   *)
(* also inside scheduler_add_task, so the ready queue is modelled here by  *)
(* its pointers and kernel_main's use of it one assignment at a time.  The *)
(* handlers run with interrupts off and are atomic.                        *)
(*                                                                         *)
(* A task that was switched to by the timer runs with interrupts off and   *)
(* the timer unacknowledged until it blocks: only idle's interrupt frame   *)
(* turns both back (see Scheduler).                                        *)
(***************************************************************************)
EXTENDS DriverRegistry

CONSTANTS IDT, Keyboard, PIT, Block, ATA, NVMe,
          Idle, Shell,            \* the addresses of the two tasks
          Null,
          TIME_SLICE_TICKS

ASSUME BootAssumption ==
  /\ {IDT, Keyboard, PIT, Block, ATA, NVMe} \subseteq Drivers
  /\ Idle # Shell /\ Null \notin {Idle, Shell}

VARIABLES pc,                     \* the next step of kernel_main
          registered,             \* how many register calls were made
          interrupts,             \* RFLAGS.IF
          rq,                     \* ready_queue_head, _tail and task->next
          state, time_slice,      \* of the tasks; "none" before task_create
          task_table,             \* was the task table allocated?
          current_task

bootVars == <<pc, registered, interrupts, rq, state, time_slice, task_table, current_task>>
vars == <<registryVars, bootVars>>

Tasks == {Idle, Shell}

(* The driver_t structures of the drivers.                                 *)
KeyboardDriver == [priority |-> 20, depends_on |-> IDT]
PitDriver == [priority |-> 20, depends_on |-> IDT]
BlockDriver == [priority |-> 30, depends_on |-> NoDriver]
AtaDriver == [priority |-> 40, depends_on |-> Block]
NvmeDriver == [priority |-> 40, depends_on |-> Block]

IdtDriver == [priority |-> 10, depends_on |-> NoDriver]

(* The register calls, in the order kernel_main makes them.                *)
RegistrationOrder == <<IDT, Keyboard, PIT, Block, ATA, NVMe>>

(* The queue is zeroed memory at the start.                                *)
Init ==
  /\ RegistryInit
  /\ pc = "register" /\ registered = 0
  /\ interrupts = FALSE
  /\ rq = [head |-> Null, tail |-> Null, next |-> [t \in Tasks |-> Null]]
  /\ state = [t \in Tasks |-> "none"]
  /\ time_slice = [t \in Tasks |-> 0]
  /\ task_table = FALSE
  /\ current_task = Null

-----------------------------------------------------------------------------
(* The ready queue. *)

(* Variant: emptiness is read off the tail.                                *)
scheduler_add_task_ByTail(q, t) ==
  [head |-> IF q.tail = Null THEN t ELSE q.head,
   tail |-> t,
   next |-> IF q.tail = Null THEN [q.next EXCEPT ![t] = Null]
            ELSE [[q.next EXCEPT ![t] = Null] EXCEPT ![q.tail] = t]]

scheduler_add_task(q, t) ==
  [head |-> IF q.head = Null THEN t ELSE q.head,
   tail |-> t,
   next |-> IF q.head = Null THEN [q.next EXCEPT ![t] = Null]
            ELSE [[q.next EXCEPT ![t] = Null] EXCEPT ![q.tail] = t]]

(* The queue without its head.                                             *)
scheduler_pick_next(q) ==
  LET head == q.next[q.head] IN
    [head |-> head,
     tail |-> IF head = Null THEN Null ELSE q.tail,
     next |-> [q.next EXCEPT ![q.head] = Null]]

(* The part of scheduler_tick that ends a slice.  When nothing else is     *)
(* ready the current task goes on; otherwise it joins the queue, if it     *)
(* still runs, and the head of the queue takes the CPU.                    *)
SwitchFrom(old) ==
  IF rq.head = Null
    THEN /\ time_slice' = [time_slice EXCEPT ![old] = TIME_SLICE_TICKS]
         /\ UNCHANGED <<rq, state, current_task>>
    ELSE LET new == rq.head
             rest == scheduler_pick_next(rq)
             ready == state[old] = "RUNNING"
         IN  /\ rq' = IF ready THEN scheduler_add_task(rest, old) ELSE rest
             /\ state' = [state EXCEPT ![old] = IF ready THEN "READY" ELSE @,
                                       ![new] = "RUNNING"]
             /\ time_slice' = [t \in Tasks |-> TIME_SLICE_TICKS]
             /\ current_task' = new

(* Timer interrupt: the timer ticks once the PIT is programmed.  A tick    *)
(* before scheduler_init finds no current task and returns.                *)
pit_handler ==
  /\ interrupts /\ status[PIT] = "INITIALIZED"
  /\ current_task # Null
  /\ IF time_slice[current_task] > 1
       THEN /\ time_slice' = [time_slice EXCEPT ![current_task] = @ - 1]
            /\ UNCHANGED <<rq, state, current_task, interrupts>>
       ELSE /\ SwitchFrom(current_task)
            /\ interrupts' = (current_task' = current_task)
  /\ UNCHANGED <<registryVars, pc, registered, task_table>>

(* The shell reads an empty terminal: task_block, and back to idle, whose  *)
(* frame ends the interrupt.                                               *)
shell_blocks ==
  /\ current_task = Shell
  /\ rq.head # Null
  /\ LET rest == scheduler_pick_next(rq) IN
       /\ rq' = rest
       /\ state' = [state EXCEPT ![Shell] = "BLOCKED", ![rq.head] = "RUNNING"]
       /\ current_task' = rq.head
  /\ time_slice' = [time_slice EXCEPT ![Shell] = 0, ![rq.head] = TIME_SLICE_TICKS]
  /\ interrupts' = TRUE
  /\ UNCHANGED <<registryVars, pc, registered, task_table>>

(* Keyboard interrupt: Enter is pressed and the reader is unblocked.       *)
keyboard_handler ==
  /\ interrupts
  /\ state[Shell] = "BLOCKED"
  /\ rq' = scheduler_add_task(rq, Shell)
  /\ state' = [state EXCEPT ![Shell] = "READY"]
  /\ UNCHANGED <<registryVars, pc, registered, interrupts, time_slice,
                 task_table, current_task>>

-----------------------------------------------------------------------------
(* kernel_main. *)

(* kernel_main runs until a tick gives the CPU to the shell.               *)
InKernelMain(from, to) ==
  /\ current_task # Shell
  /\ pc = from /\ pc' = to

register_drivers ==
  /\ registered + 1 \in DOMAIN RegistrationOrder
  /\ InKernelMain("register", "register")
  /\ driver_register(RegistrationOrder[registered + 1])
  /\ registered' = registered + 1
  /\ UNCHANGED <<interrupts, rq, state, time_slice, task_table, current_task>>

start_init_all ==
  /\ registered = Len(RegistrationOrder)
  /\ InKernelMain("register", "init_all")
  /\ driver_init_all
  /\ UNCHANGED <<registered, interrupts, rq, state, time_slice, task_table, current_task>>

(* The init functions.  nvme_init begins with the scan.                    *)
run_driver_init ==
  /\ pc = "init_all" /\ UNCHANGED pc
  /\ \/ skip_driver /\ UNCHANGED interrupts
     \/ \E d \in Drivers, ok \in BOOLEAN :
          init_driver(d, ok) /\ interrupts' = (interrupts \/ d = NVMe)
     \/ next_pass /\ UNCHANGED interrupts
  /\ UNCHANGED <<registered, rq, state, time_slice, task_table, current_task>>

end_init_all ==
  /\ InKernelMain("init_all", "task_init")
  /\ passes_done
  /\ UNCHANGED <<registered, interrupts, rq, state, time_slice, task_table, current_task>>

(* E_NOMEM is counted and start-up goes on.                                *)
task_init ==
  /\ InKernelMain("task_init", "scheduler_init")
  /\ \/ /\ task_table' = TRUE
        /\ current_task' = Null
        /\ rq' = [rq EXCEPT !.head = Null, !.tail = Null]
     \/ UNCHANGED <<task_table, current_task, rq>>
  /\ UNCHANGED <<registryVars, registered, interrupts, state, time_slice>>

(* Without a table, growing one from nothing fails, and so may kmalloc.    *)
task_create(t) ==
  /\ task_table
  /\ state' = [state EXCEPT ![t] = "READY"]
  /\ time_slice' = [time_slice EXCEPT ![t] = TIME_SLICE_TICKS]
  /\ rq' = [rq EXCEPT !.next[t] = Null]

(* Variant: current_task is left unset.                                    *)
scheduler_init_NoCurrent ==
  \/ /\ InKernelMain("scheduler_init", "set_current")
     /\ task_create(Idle)
     /\ UNCHANGED <<registryVars, registered, interrupts, task_table, current_task>>
  \/ /\ InKernelMain("scheduler_init", "create_shell")
     /\ UNCHANGED <<registryVars, registered, interrupts, rq, state, time_slice,
                    task_table, current_task>>
  \/ /\ InKernelMain("set_current", "create_shell")
     /\ state' = [state EXCEPT ![Idle] = "RUNNING"]
     /\ UNCHANGED <<registryVars, registered, interrupts, rq, time_slice,
                    task_table, current_task>>

scheduler_init ==
  \/ /\ InKernelMain("scheduler_init", "set_current")
     /\ task_create(Idle)
     /\ UNCHANGED <<registryVars, registered, interrupts, task_table, current_task>>
  \/ /\ InKernelMain("scheduler_init", "create_shell")
     /\ UNCHANGED <<registryVars, registered, interrupts, rq, state, time_slice,
                    task_table, current_task>>
  \/ /\ InKernelMain("set_current", "create_shell")
     /\ state' = [state EXCEPT ![Idle] = "RUNNING"]
     /\ current_task' = Idle
     /\ UNCHANGED <<registryVars, registered, interrupts, rq, time_slice, task_table>>

(* The memory that task_create(Idle) did not find is not there now either. *)
create_shell ==
  \/ /\ InKernelMain("create_shell", "add_head")
     /\ state[Idle] # "none"
     /\ task_create(Shell)
     /\ UNCHANGED <<registryVars, registered, interrupts, task_table, current_task>>
  \/ /\ InKernelMain("create_shell", "enable")
     /\ UNCHANGED <<registryVars, registered, interrupts, rq, state, time_slice,
                    task_table, current_task>>

(* scheduler_add_task(shell_task), in two steps: head, or the link of the  *)
(* last entry, then tail.                                                  *)
add_shell ==
  \/ /\ InKernelMain("add_head", "add_tail")
     /\ rq' = IF rq.head = Null
                THEN [rq EXCEPT !.head = Shell, !.next[Shell] = Null]
                ELSE [rq EXCEPT !.next = [@ EXCEPT ![Shell] = Null, ![rq.tail] = Shell]]
     /\ UNCHANGED <<registryVars, registered, interrupts, state, time_slice,
                    task_table, current_task>>
  \/ /\ InKernelMain("add_tail", "enable")
     /\ rq' = [rq EXCEPT !.tail = Shell]
     /\ UNCHANGED <<registryVars, registered, interrupts, state, time_slice,
                    task_table, current_task>>

idt_enable_interrupts ==
  /\ InKernelMain("enable", "idle_loop")
  /\ interrupts' = TRUE
  /\ UNCHANGED <<registryVars, registered, rq, state, time_slice, task_table,
                 current_task>>

kernel_main ==
  \/ register_drivers \/ start_init_all \/ run_driver_init \/ end_init_all
  \/ task_init \/ scheduler_init \/ create_shell \/ add_shell
  \/ idt_enable_interrupts

Next == kernel_main \/ pit_handler \/ shell_blocks \/ keyboard_handler

(* The timer keeps ticking, and whoever has the CPU makes progress: a      *)
(* slice is many ticks long, so kernel_main takes a step in one of the     *)
(* slices it gets however often the shell gets one in between.             *)
Spec ==
  /\ Init /\ [][Next]_vars
  /\ SF_vars(kernel_main) /\ WF_vars(pit_handler) /\ WF_vars(shell_blocks)

-----------------------------------------------------------------------------
(* Properties. *)

(* The ready queue, followed from its head.                                *)
After(t) == IF t = Null THEN Null ELSE rq.next[t]
First == rq.head
Second == After(First)

(* Start-up never loses a task, although it is interrupted: a task that is *)
(* READY is in the ready queue once, and every other one is not, from the  *)
(* moment kernel_main links the shell in; and unless kernel_main stands    *)
(* between setting head and setting tail, the tail of a queue that is not  *)
(* empty is its last task.                                                 *)
ReadyIsQueued ==
  pc \in {"add_tail", "enable", "idle_loop"} =>
    /\ After(Second) = Null
    /\ \A t \in Tasks : state[t] = "READY" <=> t \in {First, Second}
    /\ First # Null =>
         \/ rq.tail = IF Second = Null THEN First ELSE Second
         \/ pc = "add_tail" /\ current_task = Idle

(* Start-up ends: kernel_main reaches its idle loop, and a shell that was  *)
(* created gets the CPU, whenever the ticks came.                          *)
BootEnds ==
  /\ <>(pc = "idle_loop")
  /\ state[Shell] = "READY" ~> current_task = Shell
=============================================================================
