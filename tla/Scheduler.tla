----------------------------- MODULE Scheduler -----------------------------
(***************************************************************************)
(* The task system and round-robin scheduler of scheduler/task.c, run by   *)
(* the timer interrupt (interrupts/idt.asm irq0, drivers/pit.c) and by the *)
(* calls tasks make.  There is one CPU.                                    *)
(*                                                                         *)
(* A task is the address of its task_t.  It is allocated exactly while     *)
(* task_table holds it; the fields of a freed task_t keep their last       *)
(* values, so a dangling pointer is visible as an address that is not Live.*)
(*                                                                         *)
(* task_switch saves the callee-saved registers and the stack pointer, not *)
(* RFLAGS.  What the interrupt flag and the interrupt controller look like *)
(* after a switch depends on the frame the resumed task returns through,   *)
(* so both are part of the state.                                          *)
(***************************************************************************)
EXTENDS Integers, Lists

CONSTANTS
  Tasks,             \* addresses a task_t can have
  IdleTask,          \* the task kernel_main becomes
  Shell,             \* the task kernel_main creates
  Null,
  TIME_SLICE_TICKS,
  REAP_TICKS,        \* the literal 100 of scheduler_tick
  INITIAL_CAPACITY,  \* INITIAL_TASK_CAPACITY
  MaxSleep,          \* bound on the argument of task_sleep
  PkillIdle          \* does somebody type "pkill idle"?

ASSUME SchedulerAssumption ==
  /\ IdleTask \in Tasks /\ Shell \in Tasks /\ IdleTask # Shell
  /\ Null \notin Tasks
  /\ TIME_SLICE_TICKS \in Nat \ {0}
  /\ REAP_TICKS \in Nat \ {0}
  /\ INITIAL_CAPACITY \in Nat /\ INITIAL_CAPACITY >= 2
  /\ MaxSleep \in Nat \ {0}
  /\ PkillIdle \in BOOLEAN

VARIABLES
  task_table,        \* slot (= pid) -> task or Null
  task_table_capacity,
  pid,               \* task->pid
  state,             \* task->state
  time_slice,        \* task->time_slice
  wake_in,           \* task->wake_time - pit_ticks, 0 once it has passed
  frame,             \* what the task's saved stack returns through
  ready_queue,       \* head first
  sleep_queue,       \* head first
  current_task,
  reap_counter,
  interrupts,        \* RFLAGS.IF
  in_service,        \* IRQ0 acknowledged by the PIC, EOI not sent yet
  pc,                \* "run": task code; "check", "pick": inside scheduler_tick
  scan,              \* the position of curr in scheduler_check_sleeping_tasks
  entry,             \* how the current scheduler_tick was entered
  halted             \* task_return_error has stopped the machine

schedVars == <<task_table, task_table_capacity, pid, state, time_slice, wake_in,
               frame, ready_queue, sleep_queue, current_task, reap_counter,
               interrupts, in_service, pc, scan, entry, halted>>
tableVars == <<task_table, task_table_capacity, pid>>
cpuVars == <<interrupts, in_service>>
tickVars == <<pc, scan, entry>>

TaskState == {"READY", "RUNNING", "BLOCKED", "SLEEPING", "TERMINATED"}
Frame == {"new", "irq", "call"}

Slots == 0 .. task_table_capacity - 1
Live == {t \in Tasks : \E i \in Slots : task_table[i] = t}

-----------------------------------------------------------------------------
(* The state in which kernel_main enters its hlt loop: it has become the   *)
(* idle task, and the shell is created and queued.                         *)
Init ==
  /\ task_table_capacity = INITIAL_CAPACITY
  /\ task_table = [i \in 0 .. INITIAL_CAPACITY - 1 |->
                     CASE i = 0 -> IdleTask [] i = 1 -> Shell [] OTHER -> Null]
  /\ pid = [t \in Tasks |-> IF t = Shell THEN 1 ELSE 0]
  /\ state = [t \in Tasks |-> CASE t = IdleTask -> "RUNNING"
                                [] t = Shell -> "READY"
                                [] OTHER -> "TERMINATED"]
  /\ time_slice = [t \in Tasks |-> TIME_SLICE_TICKS]
  /\ wake_in = [t \in Tasks |-> 0]
  /\ frame = [t \in Tasks |-> "new"]
  /\ ready_queue = <<Shell>>
  /\ sleep_queue = <<>>
  /\ current_task = IdleTask
  /\ reap_counter = 0
  /\ interrupts = TRUE
  /\ in_service = FALSE
  /\ pc = "run"
  /\ scan = 1
  /\ entry = "irq"
  /\ halted = FALSE

-----------------------------------------------------------------------------
(* The PIC delivers an interrupt when the CPU takes interrupts and no      *)
(* interrupt of higher or equal priority is in service; IRQ0 has the       *)
(* highest priority, so an unacknowledged tick holds back every line.      *)
Deliverable == pc = "run" /\ interrupts /\ ~in_service

(* Code that only a running task other than idle executes; the idle task   *)
(* (kernel_main's loop) does nothing but hlt.                              *)
InTask == pc = "run" /\ ~halted /\ current_task # IdleTask

(* Variant: the task joins at the head.                                    *)
Enqueue_Front(q, t) == Cons(t, q)

(* scheduler_add_task puts a task at the tail of the ready queue.          *)
Enqueue(q, t) == Append(q, t)

(* Entering scheduler_tick, which starts with scheduler_check_sleeping_tasks. *)
EnterTick(how) ==
  /\ pc' = "check"
  /\ scan' = 1
  /\ entry' = how

(* Variant: the tick is not counted.                                       *)
CountTick_Lost == wake_in

(* pit_ticks++, as the wake times see it.                                  *)
CountTick == [t \in Tasks |-> IF wake_in[t] > 0 THEN wake_in[t] - 1 ELSE 0]

(* irq0 -> pit_handler: an interrupt gate clears IF, pit_ticks++.          *)
pit_handler ==
  /\ Deliverable
  /\ interrupts' = FALSE
  /\ in_service' = TRUE
  /\ wake_in' = CountTick
  /\ EnterTick("irq")
  /\ UNCHANGED <<tableVars, state, time_slice, frame, ready_queue, sleep_queue,
                 current_task, reap_counter, halted>>

(* One turn of the loop of scheduler_check_sleeping_tasks.                 *)
scheduler_check_sleeping_tasks ==
  /\ pc = "check"
  /\ scan <= Len(sleep_queue)
  /\ LET curr == sleep_queue[scan] IN
     \/ /\ wake_in[curr] = 0
        /\ sleep_queue' = RemoveAt(sleep_queue, scan)
        /\ ready_queue' = Enqueue(ready_queue, curr)
        /\ state' = [state EXCEPT ![curr] = "READY"]
        /\ UNCHANGED scan
     \/ /\ wake_in[curr] > 0
        /\ scan' = scan + 1
        /\ UNCHANGED <<sleep_queue, ready_queue, state>>
  /\ UNCHANGED <<tableVars, time_slice, wake_in, frame, current_task,
                 reap_counter, cpuVars, pc, entry, halted>>

ReapDue == reap_counter + 1 >= REAP_TICKS

(* Variant: the current task is not spared.                                *)
Reaped_Current(i) == task_table[i] # Null /\ state[task_table[i]] = "TERMINATED"

(* Variant: the scan stops one slot early.                                 *)
Reaped_NotLast(i) ==
  /\ i < task_table_capacity - 1
  /\ task_table[i] # Null
  /\ state[task_table[i]] = "TERMINATED"
  /\ task_table[i] # current_task

(* The slots that scheduler_reap_terminated empties.                       *)
Reaped(i) ==
  /\ task_table[i] # Null
  /\ state[task_table[i]] = "TERMINATED"
  /\ task_table[i] # current_task

(* After the scan of the sleep queue, scheduler_reap_terminated runs on    *)
(* every REAP_TICKS-th scheduler_tick.                                     *)
scheduler_reap_terminated ==
  /\ pc = "check"
  /\ scan > Len(sleep_queue)
  /\ pc' = "pick"
  /\ scan' = 1
  /\ reap_counter' = IF ReapDue THEN 0 ELSE reap_counter + 1
  /\ task_table' = [i \in Slots |-> IF ReapDue /\ Reaped(i) THEN Null ELSE task_table[i]]
  /\ UNCHANGED <<task_table_capacity, pid, state, time_slice, wake_in, frame, ready_queue,
                 sleep_queue, current_task, cpuVars, entry, halted>>

(* Variant: a new task starts with interrupts enabled.                     *)
ReturnThrough_NewEnables(f) ==
  /\ interrupts' = IF f \in {"irq", "new"} THEN TRUE ELSE interrupts
  /\ in_service' = IF f = "irq" THEN FALSE ELSE in_service

(* Variant: a new task starts as if the tick had returned: EOI, then sti.  *)
ReturnThrough_Preemptive(f) ==
  /\ interrupts' = IF f \in {"irq", "new"} THEN TRUE ELSE interrupts
  /\ in_service' = IF f \in {"irq", "new"} THEN FALSE ELSE in_service

(* Returning through a frame.  The tail of irq0 sends the EOI, and its     *)
(* iretq restores the IF with which the tick was taken, which was 1.       *)
(* Returning from a call, or into a task's entry point, changes neither.   *)
ReturnThrough(f) ==
  /\ interrupts' = IF f = "irq" THEN TRUE ELSE interrupts
  /\ in_service' = IF f = "irq" THEN FALSE ELSE in_service

(* scheduler_pick_next: the task it returns and the queue it leaves.       *)
Picked == IF ready_queue = <<>> THEN IdleTask ELSE Head(ready_queue)

(* Variant: the tasks behind the head are lost.                            *)
AfterPick_Dropped == <<>>

AfterPick == IF ready_queue = <<>> THEN <<>> ELSE Tail(ready_queue)

SliceLeft ==
  IF time_slice[current_task] > 0 THEN time_slice[current_task] - 1 ELSE 0

KeepRunning ==
  /\ SliceLeft > 0
  /\ time_slice' = [time_slice EXCEPT ![current_task] = SliceLeft]
  /\ ReturnThrough(entry)
  /\ UNCHANGED <<ready_queue, state, frame, current_task>>

SwitchTask ==
  LET old == current_task
      new == Picked
      runnable == state[old] = "RUNNING"
  IN
  /\ SliceLeft = 0
  /\ new # old
  /\ ready_queue' = IF runnable THEN Enqueue(AfterPick, old) ELSE AfterPick
  /\ state' = [t \in Tasks |-> CASE t = new -> "RUNNING"
                                 [] t = old /\ runnable -> "READY"
                                 [] OTHER -> state[t]]
  /\ time_slice' = [t \in Tasks |->
       CASE t = new \/ (t = old /\ runnable) -> TIME_SLICE_TICKS
         [] t = old /\ ~runnable -> 0
         [] OTHER -> time_slice[t]]
  /\ frame' = [frame EXCEPT ![old] = entry]
  /\ current_task' = new
  /\ ReturnThrough(frame[new])

ResetSlice ==
  /\ SliceLeft = 0
  /\ Picked = current_task
  /\ ready_queue' = AfterPick
  /\ time_slice' = [time_slice EXCEPT ![current_task] = TIME_SLICE_TICKS]
  /\ ReturnThrough(entry)
  /\ UNCHANGED <<state, frame, current_task>>

(* The rest of scheduler_tick: the slice, and the switch when it is over.  *)
scheduler_tick ==
  /\ pc = "pick"
  /\ pc' = "run"
  /\ KeepRunning \/ SwitchTask \/ ResetSlice
  /\ UNCHANGED <<tableVars, wake_in, sleep_queue, reap_counter, scan, entry, halted>>

-----------------------------------------------------------------------------
(* Calls that give up the CPU: the caller's slice is zeroed and it falls   *)
(* into scheduler_tick.                                                    *)
GiveUp ==
  /\ InTask
  /\ time_slice' = [time_slice EXCEPT ![current_task] = 0]
  /\ EnterTick("call")
  /\ UNCHANGED <<tableVars, frame, current_task, reap_counter, cpuVars, halted>>

task_yield ==
  /\ GiveUp
  /\ UNCHANGED <<state, wake_in, ready_queue, sleep_queue>>

task_block ==
  /\ GiveUp
  /\ state' = [state EXCEPT ![current_task] = "BLOCKED"]
  /\ UNCHANGED <<wake_in, ready_queue, sleep_queue>>

task_sleep(ticks) ==
  /\ GiveUp
  /\ ticks > 0
  /\ state' = [state EXCEPT ![current_task] = "SLEEPING"]
  /\ wake_in' = [wake_in EXCEPT ![current_task] = ticks]
  /\ sleep_queue' = Cons(current_task, sleep_queue)
  /\ UNCHANGED ready_queue

task_exit ==
  /\ GiveUp
  /\ state' = [state EXCEPT ![current_task] = "TERMINATED"]
  /\ ready_queue' = Without(ready_queue, current_task)
  /\ UNCHANGED <<wake_in, sleep_queue>>

(* The entry function of a task returns: the machine halts.                *)
task_return_error ==
  /\ InTask
  /\ halted' = TRUE
  /\ UNCHANGED <<tableVars, state, time_slice, wake_in, frame, ready_queue,
                 sleep_queue, current_task, reap_counter, cpuVars, tickVars>>

-----------------------------------------------------------------------------
(* Calls that do not give up the CPU.                                      *)

(* A task becomes ready by a call of another task or of an interrupt       *)
(* handler.                                                                *)
MakeReady(t) ==
  /\ ready_queue' = Enqueue(ready_queue, t)
  /\ state' = [state EXCEPT ![t] = "READY"]
  /\ UNCHANGED <<tableVars, time_slice, wake_in, frame, sleep_queue,
                 current_task, reap_counter, cpuVars, tickVars, halted>>

(* scheduler_add_task: the client contract is that it is called once, on a *)
(* task that task_create has just returned.                                *)
scheduler_add_task(t) ==
  /\ InTask
  /\ t \in Live /\ state[t] = "READY" /\ t \notin Range(ready_queue)
  /\ MakeReady(t)

(* task_unblock, called by a running task or by an interrupt handler.      *)
task_unblock(t) ==
  /\ InTask \/ Deliverable
  /\ t \in Live /\ state[t] = "BLOCKED"
  /\ MakeReady(t)

FreeSlots == {i \in Slots : task_table[i] = Null}

(* task_table_grow doubles the table and keeps every task in its slot.     *)
Grown == [i \in 0 .. 2 * task_table_capacity - 1 |->
            IF i < task_table_capacity THEN task_table[i] ELSE Null]

(* task_find_free_slot: the lowest free slot, or the first slot of the     *)
(* space a full table grows by.                                            *)
task_find_free_slot(i) ==
  \/ /\ i \in FreeSlots
     /\ \A j \in FreeSlots : i <= j
     /\ UNCHANGED task_table_capacity
  \/ /\ FreeSlots = {}
     /\ i = task_table_capacity
     /\ task_table_capacity' = 2 * task_table_capacity

PlacedIn(i, t) ==
  IF FreeSlots = {} THEN [Grown EXCEPT ![i] = t] ELSE [task_table EXCEPT ![i] = t]

task_create(t) ==
  /\ InTask
  /\ t \notin Live
  /\ \E i \in 0 .. task_table_capacity :
       /\ task_find_free_slot(i)
       /\ task_table' = PlacedIn(i, t)
       /\ pid' = [pid EXCEPT ![t] = i]
  /\ state' = [state EXCEPT ![t] = "READY"]
  /\ time_slice' = [time_slice EXCEPT ![t] = TIME_SLICE_TICKS]
  /\ wake_in' = [wake_in EXCEPT ![t] = 0]
  /\ frame' = [frame EXCEPT ![t] = "new"]
  /\ UNCHANGED <<ready_queue, sleep_queue, current_task, reap_counter, cpuVars,
                 tickVars, halted>>

(* task_create fails after the table has grown: kmalloc of the task_t or   *)
(* of its stack returns NULL.  Without growth the failure changes nothing. *)
task_create_nomem ==
  /\ InTask
  /\ FreeSlots = {}
  /\ task_table' = Grown
  /\ task_table_capacity' = 2 * task_table_capacity
  /\ UNCHANGED <<pid, state, time_slice, wake_in, frame, ready_queue,
                 sleep_queue, current_task, reap_counter, cpuVars, tickVars, halted>>

(* Variant: the head of the sleep queue is not looked at.                  *)
SleepersWithout_Head(t) ==
  IF sleep_queue # <<>> /\ Head(sleep_queue) = t THEN sleep_queue ELSE Without(sleep_queue, t)

SleepersWithout(t) == Without(sleep_queue, t)

task_destroy(t) ==
  /\ InTask
  /\ t \in Live
  /\ t # current_task
  /\ state' = [state EXCEPT ![t] = "TERMINATED"]
  /\ ready_queue' = Without(ready_queue, t)
  /\ sleep_queue' = SleepersWithout(t)
  /\ task_table' = IF pid[t] \in Slots THEN [task_table EXCEPT ![pid[t]] = Null]
                                       ELSE task_table
  /\ UNCHANGED <<task_table_capacity, pid, time_slice, wake_in, frame,
                 current_task, reap_counter, cpuVars, tickVars, halted>>

(* A task destroys another one; no caller but pkill names the idle task.   *)
DestroyOther(t) == t # IdleTask /\ task_destroy(t)

(* Variant: pid 0 is accepted.                                             *)
cmd_kill_AnyPid(p) ==
  /\ current_task = Shell
  /\ task_table[p] # Null
  /\ task_destroy(task_table[p])

(* The shell's kill command looks a task up by pid and rejects pid 0.      *)
cmd_kill(p) ==
  /\ current_task = Shell
  /\ p > 0
  /\ task_table[p] # Null
  /\ task_destroy(task_table[p])

(* The shell's pkill command looks a task up by name, "idle" included.     *)
cmd_pkill(t) ==
  /\ current_task = Shell
  /\ t = IdleTask => PkillIdle
  /\ task_destroy(t)

(* The hlt loop of task_return_error.                                      *)
HaltLoop == halted /\ UNCHANGED schedVars

-----------------------------------------------------------------------------
Kernel ==
  scheduler_check_sleeping_tasks \/ scheduler_reap_terminated \/ scheduler_tick

LeaveCPU ==
  task_yield \/ task_block \/ task_exit \/ (\E n \in 1 .. MaxSleep : task_sleep(n))

Next ==
  \/ pit_handler
  \/ Kernel
  \/ LeaveCPU
  \/ task_return_error
  \/ \E t \in Tasks : \/ scheduler_add_task(t) \/ task_unblock(t)
                      \/ task_create(t) \/ DestroyOther(t) \/ cmd_pkill(t)
  \/ task_create_nomem
  \/ \E p \in Slots : cmd_kill(p)
  \/ HaltLoop

Spec == Init /\ [][Next]_schedVars

(* The timer keeps ticking, and the kernel finishes what it has started.   *)
TimerFairness == WF_schedVars(pit_handler) /\ WF_schedVars(Kernel)

(* In addition, a running task sooner or later yields, blocks, sleeps or   *)
(* exits: tasks cooperate.                                                 *)
CoopSpec == Spec /\ TimerFairness /\ WF_schedVars(LeaveCPU)

-----------------------------------------------------------------------------
TypeTable ==
  /\ task_table_capacity \in Nat \ {0}
  /\ task_table \in [Slots -> Tasks \cup {Null}]
  /\ pid \in [Tasks -> Nat]

TypeTask ==
  /\ state \in [Tasks -> TaskState]
  /\ time_slice \in [Tasks -> 0 .. TIME_SLICE_TICKS]
  /\ wake_in \in [Tasks -> 0 .. MaxSleep]
  /\ frame \in [Tasks -> Frame]

TypeQueue ==
  /\ ready_queue \in Seq(Tasks)
  /\ sleep_queue \in Seq(Tasks)
  /\ current_task \in Tasks

TypeTick ==
  /\ reap_counter \in 0 .. REAP_TICKS - 1
  /\ pc \in {"run", "check", "pick"}
  /\ scan \in Nat \ {0}
  /\ entry \in {"irq", "call"}

TypeFlag ==
  interrupts \in BOOLEAN /\ in_service \in BOOLEAN /\ halted \in BOOLEAN

(* Every variable stays within its type.                                   *)
TypeOK == TypeTable /\ TypeTask /\ TypeQueue /\ TypeTick /\ TypeFlag

(* A task_t has one next pointer for both queues (task.h).  No task is     *)
(* queued twice or in both queues, the running task does not wait in the   *)
(* ready queue, and the sleep queue holds exactly the SLEEPING tasks.      *)
QueuesConsistent ==
  /\ IsInjective(ready_queue)
  /\ IsInjective(sleep_queue)
  /\ current_task \notin Range(ready_queue)
  /\ \A t \in Range(ready_queue) : state[t] = "READY"
  /\ \A t \in Live : state[t] = "SLEEPING" <=> t \in Range(sleep_queue)

(* The scheduler never holds a pointer to a freed task_t: not in           *)
(* current_task, in either queue, or in idle_task.                         *)
NoDanglingTask ==
  {current_task, IdleTask} \cup Range(ready_queue) \cup Range(sleep_queue) \subseteq Live

(* scheduler_pick_next falls back to idle_task when nothing is queued.     *)
(* The idle task is always running or queued, so the fallback is only ever *)
(* taken while idle runs: no other task leaves the CPU to a task that is   *)
(* not in the queue, and a task that gives up the CPU always loses it.     *)
IdleAvailable ==
  /\ current_task = IdleTask \/ IdleTask \in Range(ready_queue)
  /\ ready_queue = <<>> => current_task = IdleTask

(* Between scheduler calls exactly the task that runs is RUNNING.          *)
OneRunning ==
  pc = "run" => \A t \in Live : state[t] = "RUNNING" <=> t = current_task

(* A pid is the slot of its task through growth, reuse and reaping, so     *)
(* kill <pid> and task_destroy, which use one each, mean the same task.    *)
PidsConsistent ==
  \A t \in Live : \A i \in Slots : task_table[i] = t <=> i = pid[t]

(* task_switch leaves RFLAGS and the PIC as they are, and only the idle    *)
(* task is ever resumed through an irq0 frame.  So the CPU takes           *)
(* interrupts exactly while idle runs its hlt loop, and no scheduler or    *)
(* task code is ever interrupted.                                          *)
InterruptsOnlyInIdle ==
  /\ interrupts <=> (pc = "run" /\ current_task = IdleTask)
  /\ in_service <=> ~interrupts

(* Why: a task is resumed through irq0's frame only if irq0 interrupted    *)
(* it, and irq0 interrupts only idle; a call of scheduler_tick always      *)
(* comes with an exhausted slice, so it never returns to its caller.       *)
FramesMatch ==
  /\ \A t \in Tasks : frame[t] = "irq" => t = IdleTask
  /\ current_task # IdleTask => frame[IdleTask] = "irq"
  /\ pc # "run" => (entry = "irq" <=> current_task = IdleTask)
  /\ pc # "run" /\ entry = "call" => time_slice[current_task] = 0

(* A task that goes to sleep is not woken by the scheduler_tick in which   *)
(* it leaves the CPU: task_sleep rejects a time of zero.                   *)
SleeperLeaves ==
  pc = "check" /\ state[current_task] = "SLEEPING" => wake_in[current_task] > 0

(* At most the current task is RUNNING, and idle is whenever it is current.*)
RunningIsCurrent ==
  /\ \A t \in Live : state[t] = "RUNNING" => t = current_task
  /\ pc = "run" \/ current_task = IdleTask => state[current_task] = "RUNNING"

(* kill rejects pid 0, and pid 0 is the idle task's.                       *)
IdlePid == pid[IdleTask] = 0

(* All of this holds together, whatever the tasks and the timer do: the    *)
(* table, the queues, the current task, its state and the way each task    *)
(* will be resumed fit one another between any two steps of the scheduler. *)
(* No part is preserved without the others; together they are inductive.   *)
IInv ==
  /\ TypeOK
  /\ QueuesConsistent
  /\ NoDanglingTask
  /\ IdleAvailable
  /\ PidsConsistent
  /\ InterruptsOnlyInIdle
  /\ FramesMatch
  /\ SleeperLeaves
  /\ RunningIsCurrent
  /\ IdlePid

(* Round robin: tasks that wait keep their order, and a task that joins    *)
(* the ready queue joins behind all that wait already.                     *)
Position(q, t) == CHOOSE i \in DOMAIN q : q[i] = t
FifoStep ==
  \A t, u \in Range(ready_queue') :
    (/\ t \in Range(ready_queue)
     /\ u \in Range(ready_queue) => Position(ready_queue, t) < Position(ready_queue, u)
     /\ t # u)
    => Position(ready_queue', t) < Position(ready_queue', u)
RoundRobin == [][FifoStep]_schedVars

-----------------------------------------------------------------------------
(* A queued task gets the CPU, unless it is destroyed first or the machine *)
(* halts.                                                                  *)
ReadyRuns ==
  \A t \in Tasks : (t \in Range(ready_queue))
                     ~> (current_task = t \/ t \notin Live \/ halted)

(* A sleeping task wakes up: ticks go on being counted although they are   *)
(* only counted while idle runs.                                           *)
SleeperWakes ==
  \A t \in Tasks : (t \in Live /\ state[t] = "SLEEPING")
                     ~> (state[t] # "SLEEPING" \/ halted)

(* The task_t of a task that has exited is reaped.                         *)
ExitedIsReaped ==
  \A t \in Tasks : (t \in Live /\ state[t] = "TERMINATED")
                     ~> (t \notin Live \/ halted)
=============================================================================
