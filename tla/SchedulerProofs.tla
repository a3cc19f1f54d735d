-------------------------- MODULE SchedulerProofs --------------------------
(***************************************************************************)
(* The safety of the scheduler for every set of tasks, every time slice,   *)
(* reap interval and table size: the initial state has the inductive       *)
(* invariant, and the timer interrupt, scheduler_tick and the calls tasks  *)
(* make keep it.                                                           *)
(***************************************************************************)
EXTENDS Scheduler, ListTheorems

-----------------------------------------------------------------------------
(* The timer interrupt and scheduler_tick. *)

(* Steps that keep the task table keep the set of allocated tasks.         *)
LEMMA LiveKept ==
  ASSUME UNCHANGED <<task_table, task_table_capacity>>
  PROVE  Live' = Live /\ Slots' = Slots
BY Zenon DEF Live, Slots

LEMMA LiveTyped == Live \subseteq Tasks
BY Zenon DEF Live

(* Steps that leave the table alone keep what is said of it.               *)
LEMMA TableKept ==
  ASSUME IInv, UNCHANGED tableVars
  PROVE  Live' = Live /\ Slots' = Slots /\ TypeTable' /\ PidsConsistent' /\ IdlePid'
<1>1. Live' = Live /\ Slots' = Slots
  BY Zenon, LiveKept DEF tableVars
<1>. QED
  BY <1>1 DEF IInv, TypeOK, TypeTable, PidsConsistent, IdlePid, tableVars

(* kernel_main leaves the scheduler in a consistent state.                 *)
LEMMA InitIInv == Init => IInv
<1>. SUFFICES ASSUME Init PROVE IInv
  BY Zenon
<1>. USE SchedulerAssumption
<1>0. /\ ready_queue = <<Shell>> /\ <<Shell>> \in Seq(Tasks)
      /\ sleep_queue = <<>> /\ <<>> \in Seq(Tasks)
  BY DEF Init
<1>1. Slots = 0 .. INITIAL_CAPACITY - 1 /\ 0 \in Slots /\ 1 \in Slots
  BY DEF Init, Slots
<1>2. task_table \in [Slots -> Tasks \cup {Null}]
  BY Zenon, <1>1 DEF Init
<1>3. \A i \in Slots : /\ task_table[i] = IdleTask <=> i = 0
                       /\ task_table[i] = Shell <=> i = 1
                       /\ task_table[i] \in {IdleTask, Shell, Null}
  BY <1>1 DEF Init
<1>4. Live = {IdleTask, Shell}
  BY Zenon, <1>1, <1>3 DEF Live
<1>5. /\ Range(ready_queue) = {Shell}
      /\ Range(sleep_queue) = {}
      /\ IsInjective(ready_queue) /\ IsInjective(sleep_queue)
  BY <1>0 DEF Range, IsInjective
<1>6. TypeOK
  <2>1. TypeTable
    BY <1>2 DEF Init, TypeTable
  <2>2. TypeTask
    BY DEF Init, TypeTask, TaskState, Frame
  <2>3. TypeQueue
    BY Zenon, <1>0 DEF Init, TypeQueue
  <2>4. TypeTick
    BY DEF Init, TypeTick
  <2>5. TypeFlag
    BY Zenon DEF Init, TypeFlag
  <2>. QED
    BY Zenon, <2>1, <2>2, <2>3, <2>4, <2>5 DEF TypeOK
<1>7. QueuesConsistent
  BY Zenon, <1>4, <1>5 DEF Init, QueuesConsistent
<1>8. NoDanglingTask /\ IdleAvailable
  BY Zenon, <1>0, <1>4, <1>5 DEF Init, NoDanglingTask, IdleAvailable
<1>9. PidsConsistent /\ IdlePid
  BY <1>3, <1>4 DEF Init, PidsConsistent, IdlePid
<1>10. InterruptsOnlyInIdle /\ FramesMatch /\ SleeperLeaves /\ RunningIsCurrent
  BY Zenon, <1>4 DEF Init, InterruptsOnlyInIdle, FramesMatch, SleeperLeaves, RunningIsCurrent
<1>. QED
  BY Zenon, <1>6, <1>7, <1>8, <1>9, <1>10 DEF IInv

(* A timer interrupt taken in idle's loop.                                 *)
LEMMA PitHandlerIInv == IInv /\ pit_handler => IInv'
<1>. SUFFICES ASSUME IInv, pit_handler PROVE IInv'
  BY Zenon
<1>. USE SchedulerAssumption
<1>1. Live' = Live /\ TypeTable' /\ PidsConsistent' /\ IdlePid'
  BY Zenon, TableKept DEF pit_handler
<1>2. current_task = IdleTask /\ pc = "run"
  BY Zenon DEF IInv, InterruptsOnlyInIdle, pit_handler, Deliverable
<1>3. TypeOK'
  <2>1. wake_in' \in [Tasks -> 0 .. MaxSleep]
    <3>1. \A t \in Tasks : wake_in[t] \in 0 .. MaxSleep
      BY Zenon DEF IInv, TypeOK, TypeTask
    <3>2. \A n \in 0 .. MaxSleep : (IF n > 0 THEN n - 1 ELSE 0) \in 0 .. MaxSleep
      BY SMT
    <3>3. wake_in' = [t \in Tasks |-> IF wake_in[t] > 0 THEN wake_in[t] - 1 ELSE 0]
      BY Zenon DEF pit_handler, CountTick
    <3>. QED
      BY Zenon, <3>1, <3>2, <3>3
  <2>2. TypeTask'
    BY Zenon, <2>1 DEF IInv, TypeOK, TypeTask, pit_handler
  <2>3. TypeQueue' /\ TypeTick'
    BY DEF IInv, TypeOK, TypeQueue, TypeTick, pit_handler, EnterTick
  <2>4. TypeFlag'
    BY Zenon DEF IInv, TypeOK, TypeFlag, pit_handler
  <2>. QED
    BY Zenon, <1>1, <2>2, <2>3, <2>4 DEF TypeOK
<1>4. QueuesConsistent' /\ NoDanglingTask' /\ IdleAvailable'
  BY Zenon, <1>1 DEF IInv, QueuesConsistent, NoDanglingTask, IdleAvailable, pit_handler
<1>5. InterruptsOnlyInIdle'
  BY Zenon, <1>2 DEF pit_handler, EnterTick, InterruptsOnlyInIdle
<1>6. FramesMatch'
  BY Zenon, <1>2 DEF IInv, FramesMatch, pit_handler, EnterTick
<1>7. RunningIsCurrent' /\ SleeperLeaves'
  BY Zenon, <1>1, <1>2 DEF IInv, RunningIsCurrent, SleeperLeaves, pit_handler, EnterTick
<1>. QED
  BY Zenon, <1>1, <1>3, <1>4, <1>5, <1>6, <1>7 DEF IInv

(* One turn of the loop over the sleep queue.                              *)
LEMMA CheckSleepingIInv == IInv /\ scheduler_check_sleeping_tasks => IInv'
<1>. SUFFICES ASSUME IInv, scheduler_check_sleeping_tasks PROVE IInv'
  OBVIOUS
<1>. DEFINE curr == sleep_queue[scan]
<1>1. Live' = Live /\ TypeTable' /\ PidsConsistent' /\ IdlePid'
  BY Zenon, TableKept DEF scheduler_check_sleeping_tasks
<1>2. /\ scan \in 1 .. Len(sleep_queue)
      /\ sleep_queue \in Seq(Tasks) /\ ready_queue \in Seq(Tasks)
      /\ IsInjective(sleep_queue) /\ IsInjective(ready_queue)
  BY LenProperties DEF IInv, TypeOK, TypeQueue, TypeTick, QueuesConsistent,
                       scheduler_check_sleeping_tasks
<1>3. curr \in Range(sleep_queue) /\ curr \in Tasks /\ curr \in Live
  BY <1>2, RangeElements DEF IInv, NoDanglingTask
<1>4. state[curr] = "SLEEPING"
  BY Zenon, <1>3 DEF IInv, QueuesConsistent
<1>5. curr \notin Range(ready_queue)
  BY Zenon, <1>4 DEF IInv, QueuesConsistent
<1>6. CASE /\ wake_in[curr] = 0
           /\ sleep_queue' = RemoveAt(sleep_queue, scan)
           /\ ready_queue' = Enqueue(ready_queue, curr)
           /\ state' = [state EXCEPT ![curr] = "READY"]
           /\ UNCHANGED scan
  <2>. HIDE DEF curr
  <2>1. /\ sleep_queue' \in Seq(Tasks) /\ IsInjective(sleep_queue')
        /\ Range(sleep_queue') = Range(sleep_queue) \ {curr}
    BY Zenon, <1>2, <1>6, RemoveAtRange DEF curr
  <2>2. /\ ready_queue' \in Seq(Tasks) /\ IsInjective(ready_queue')
        /\ Range(ready_queue') = Range(ready_queue) \cup {curr}
    BY <1>2, <1>3, <1>5, <1>6, AppendRange DEF Enqueue
  <2>3. current_task # curr
    BY <1>4, <1>6 DEF IInv, SleeperLeaves, scheduler_check_sleeping_tasks
  <2>4. ready_queue' # <<>>
    BY Zenon, <2>2, RangeElements
  <2>5. state \in [Tasks -> TaskState] /\ state' \in [Tasks -> TaskState]
    BY Zenon, <1>6 DEF IInv, TypeOK, TypeTask, TaskState
  <2>6. TypeOK'
    <3>1. TypeTask'
      BY Zenon, <2>5 DEF IInv, TypeOK, TypeTask, scheduler_check_sleeping_tasks
    <3>2. TypeQueue'
      BY Zenon, <2>1, <2>2 DEF IInv, TypeOK, TypeQueue, scheduler_check_sleeping_tasks
    <3>3. TypeTick' /\ TypeFlag'
      BY Zenon, <1>6 DEF IInv, TypeOK, TypeTick, TypeFlag, scheduler_check_sleeping_tasks, cpuVars
    <3>. QED
      BY Zenon, <1>1, <3>1, <3>2, <3>3 DEF TypeOK
  <2>7. QueuesConsistent'
    <3>1. current_task' = current_task
      BY Zenon DEF scheduler_check_sleeping_tasks
    <3>2. current_task' \notin Range(ready_queue')
      BY Zenon, <2>2, <2>3, <3>1 DEF IInv, QueuesConsistent
    <3>3. \A t \in Range(ready_queue') : state'[t] = "READY"
      BY Zenon, <1>2, <1>3, <1>6, <2>2, <2>5, RangeElements DEF IInv, QueuesConsistent
    <3>4. \A t \in Live : state'[t] = "SLEEPING" <=> t \in Range(sleep_queue')
      BY Zenon, <1>3, <1>6, <2>1, <2>5, LiveTyped DEF IInv, QueuesConsistent
    <3>. QED
      BY Zenon, <1>1, <2>1, <2>2, <3>2, <3>3, <3>4 DEF QueuesConsistent
  <2>8. NoDanglingTask' /\ IdleAvailable'
    BY Zenon, <1>1, <1>3, <2>1, <2>2, <2>4
    DEF IInv, NoDanglingTask, IdleAvailable, scheduler_check_sleeping_tasks
  <2>9. InterruptsOnlyInIdle' /\ FramesMatch'
    BY Zenon DEF IInv, InterruptsOnlyInIdle, FramesMatch, scheduler_check_sleeping_tasks, cpuVars
  <2>10. SleeperLeaves' /\ RunningIsCurrent'
    BY <1>1, <1>3, <1>6, <2>3, <2>5, LiveTyped
    DEF IInv, SleeperLeaves, RunningIsCurrent, scheduler_check_sleeping_tasks
  <2>. QED
    BY Zenon, <1>1, <2>6, <2>7, <2>8, <2>9, <2>10 DEF IInv
<1>7. CASE /\ scan' = scan + 1
           /\ UNCHANGED <<sleep_queue, ready_queue, state>>
  <2>1. TypeOK'
    <3>0. TypeTask'
      BY Zenon, <1>7 DEF IInv, TypeOK, TypeTask, scheduler_check_sleeping_tasks
    <3>1. TypeQueue'
      BY Zenon, <1>7 DEF IInv, TypeOK, TypeQueue, scheduler_check_sleeping_tasks
    <3>2. TypeTick'
      BY <1>7 DEF IInv, TypeOK, TypeTick, scheduler_check_sleeping_tasks
    <3>3. TypeFlag'
      BY Zenon DEF IInv, TypeOK, TypeFlag, scheduler_check_sleeping_tasks, cpuVars
    <3>. QED
      BY Zenon, <1>1, <3>0, <3>1, <3>2, <3>3 DEF TypeOK
  <2>2. QueuesConsistent' /\ NoDanglingTask' /\ IdleAvailable'
    BY Zenon, <1>1, <1>7
    DEF IInv, QueuesConsistent, NoDanglingTask, IdleAvailable, scheduler_check_sleeping_tasks
  <2>3. InterruptsOnlyInIdle' /\ FramesMatch' /\ SleeperLeaves' /\ RunningIsCurrent'
    BY Zenon, <1>1, <1>7
    DEF IInv, InterruptsOnlyInIdle, FramesMatch, SleeperLeaves, RunningIsCurrent,
        scheduler_check_sleeping_tasks, cpuVars
  <2>. QED
    BY Zenon, <1>1, <2>1, <2>2, <2>3 DEF IInv
<1>. QED
  BY Zenon, <1>6, <1>7 DEF scheduler_check_sleeping_tasks
(* scheduler_reap_terminated frees only TERMINATED tasks, never the        *)
(* current one, and keeps every other task in its slot.                    *)
LEMMA ReapKeeps ==
  ASSUME IInv, scheduler_reap_terminated
  PROVE  /\ TypeTable' /\ PidsConsistent' /\ IdlePid'
         /\ Live' \subseteq Live
         /\ \A t \in Live : state[t] # "TERMINATED" \/ t = current_task => t \in Live'
<1>. USE SchedulerAssumption
<1>1. Slots' = Slots /\ task_table \in [Slots -> Tasks \cup {Null}]
  BY Zenon DEF IInv, TypeOK, TypeTable, scheduler_reap_terminated, Slots
<1>2. \A i \in Slots : \/ task_table'[i] = task_table[i]
                       \/ task_table'[i] = Null /\ Reaped(i)
  BY Zenon DEF scheduler_reap_terminated
<1>3. TypeTable'
  BY Zenon, <1>1 DEF IInv, TypeOK, TypeTable, scheduler_reap_terminated
<1>4. Live' \subseteq Live
  BY Zenon, <1>1, <1>2 DEF Live
<1>5. ASSUME NEW t \in Live, state[t] # "TERMINATED" \/ t = current_task
      PROVE  t \in Live'
  <2>1. PICK i \in Slots : task_table[i] = t
    BY Zenon DEF Live
  <2>2. task_table'[i] = t
    BY Zenon, <1>2, <1>5, <2>1 DEF Reaped
  <2>. QED
    BY Zenon, <1>1, <2>2, LiveTyped DEF Live
<1>6. ASSUME NEW t \in Live', NEW i \in Slots
      PROVE  task_table'[i] = t <=> i = pid'[t]
  <2>1. PICK j \in Slots : task_table'[j] = t
    BY Zenon, <1>1 DEF Live
  <2>2. t \in Live /\ t # Null /\ pid' = pid
    BY Zenon, <1>4, LiveTyped DEF scheduler_reap_terminated
  <2>3. \A k \in Slots : task_table'[k] = t => k = pid[t]
    BY Zenon, <1>2, <2>2 DEF IInv, PidsConsistent
  <2>. QED
    BY Zenon, <2>1, <2>2, <2>3
<1>. QED
  BY Zenon, <1>1, <1>3, <1>4, <1>5, <1>6 DEF PidsConsistent, IInv, IdlePid, scheduler_reap_terminated

(* The reaping part of scheduler_tick.                                     *)
LEMMA ReapIInv == IInv /\ scheduler_reap_terminated => IInv'
<1>. SUFFICES ASSUME IInv, scheduler_reap_terminated PROVE IInv'
  OBVIOUS
<1>. USE SchedulerAssumption
<1>1. /\ TypeTable' /\ PidsConsistent' /\ IdlePid' /\ Live' \subseteq Live
      /\ \A t \in Live : state[t] # "TERMINATED" \/ t = current_task => t \in Live'
  BY Zenon, ReapKeeps
<1>2. /\ UNCHANGED <<state, time_slice, wake_in, frame, ready_queue, sleep_queue,
                     current_task, interrupts, in_service, entry, halted>>
      /\ pc = "check" /\ pc' = "pick" /\ scan' = 1
  BY Zenon DEF scheduler_reap_terminated, cpuVars
<1>3. TypeOK'
  <2>1. reap_counter' \in 0 .. REAP_TICKS - 1
    <3>1. reap_counter \in Nat /\ reap_counter <= REAP_TICKS - 1
      BY DEF IInv, TypeOK, TypeTick
    <3>2. reap_counter' = IF reap_counter + 1 >= REAP_TICKS THEN 0 ELSE reap_counter + 1
      BY Zenon DEF scheduler_reap_terminated, ReapDue
    <3>. QED
      BY <3>1, <3>2
  <2>2. TypeTask' /\ TypeQueue'
    BY Zenon, <1>2 DEF IInv, TypeOK, TypeTask, TypeQueue
  <2>3. TypeTick' /\ TypeFlag'
    BY <1>2, <2>1 DEF IInv, TypeOK, TypeTick, TypeFlag
  <2>. QED
    BY Zenon, <1>1, <2>2, <2>3 DEF TypeOK
<1>4. QueuesConsistent' /\ IdleAvailable' /\ RunningIsCurrent'
  BY Zenon, <1>1, <1>2 DEF IInv, QueuesConsistent, IdleAvailable, RunningIsCurrent
<1>5. NoDanglingTask'
  <2>1. current_task \in Live'
    BY Zenon, <1>1 DEF IInv, NoDanglingTask
  <2>2. Range(ready_queue) \subseteq Live' /\ Range(sleep_queue) \subseteq Live'
    BY Zenon, <1>1 DEF IInv, NoDanglingTask, QueuesConsistent
  <2>3. IdleTask \in Live'
    BY Zenon, <2>1, <2>2 DEF IInv, IdleAvailable
  <2>. QED
    BY Zenon, <1>2, <2>1, <2>2, <2>3 DEF NoDanglingTask
<1>6. InterruptsOnlyInIdle' /\ FramesMatch' /\ SleeperLeaves'
  BY Zenon, <1>2 DEF IInv, InterruptsOnlyInIdle, FramesMatch, SleeperLeaves
<1>. QED
  BY Zenon, <1>1, <1>3, <1>4, <1>5, <1>6 DEF IInv

(* What every scheduler_tick does apart from choosing a task.              *)
LEMMA TickFacts ==
  ASSUME IInv, scheduler_tick
  PROVE  /\ Live' = Live /\ TypeTable' /\ PidsConsistent' /\ IdlePid' /\ TypeTick'
         /\ pc # "run" /\ pc' = "run" /\ ~interrupts /\ in_service
         /\ halted' = halted /\ wake_in' = wake_in /\ sleep_queue' = sleep_queue
<1>1. Live' = Live /\ TypeTable' /\ PidsConsistent' /\ IdlePid'
  BY Zenon, TableKept DEF scheduler_tick
<1>2. TypeTick'
  BY Zenon DEF IInv, TypeOK, TypeTick, scheduler_tick
<1>3. /\ pc = "pick" /\ pc' = "run"
      /\ halted' = halted /\ wake_in' = wake_in /\ sleep_queue' = sleep_queue
  BY Zenon DEF scheduler_tick
<1>4. ~interrupts /\ in_service
  BY Zenon, <1>3 DEF IInv, InterruptsOnlyInIdle, TypeOK, TypeFlag
<1>. QED
  BY Zenon, <1>1, <1>2, <1>3, <1>4

(* A tick that returns to the idle task it interrupted.                    *)
LEMMA IdleGoesOnIInv ==
  ASSUME IInv, scheduler_tick, current_task = IdleTask,
         time_slice' \in [Tasks -> 0 .. TIME_SLICE_TICKS],
         ReturnThrough(entry),
         UNCHANGED <<ready_queue, state, frame, current_task>>
  PROVE  IInv'
<1>. USE SchedulerAssumption
<1>1. Live' = Live /\ TypeTable' /\ PidsConsistent' /\ IdlePid'
  BY Zenon, TickFacts
<1>2. interrupts' = TRUE /\ in_service' = FALSE
  BY Zenon, TickFacts DEF IInv, FramesMatch, ReturnThrough
<1>3. TypeOK'
  <2>1. TypeTask' /\ TypeQueue'
    BY Zenon, TickFacts DEF IInv, TypeOK, TypeTask, TypeQueue
  <2>2. TypeFlag'
    BY Zenon, <1>2, TickFacts DEF IInv, TypeOK, TypeFlag
  <2>. QED
    BY Zenon, <1>1, <2>1, <2>2, TickFacts DEF TypeOK
<1>4. QueuesConsistent' /\ IdleAvailable'
  BY Zenon, <1>1, TickFacts DEF IInv, QueuesConsistent, IdleAvailable
<1>5. NoDanglingTask'
  BY Zenon, TickFacts DEF IInv, NoDanglingTask
<1>6. InterruptsOnlyInIdle' /\ FramesMatch' /\ SleeperLeaves'
  BY Zenon, <1>2, TickFacts DEF IInv, InterruptsOnlyInIdle, FramesMatch, SleeperLeaves
<1>7. RunningIsCurrent'
  BY Zenon, <1>1 DEF IInv, RunningIsCurrent
<1>. QED
  BY Zenon, <1>1, <1>3, <1>4, <1>5, <1>6, <1>7 DEF IInv
(* A tick that hands the CPU from old to the head of the ready queue.      *)
LEMMA SwitchIInv == IInv /\ scheduler_tick /\ SwitchTask => IInv'
<1>. SUFFICES ASSUME IInv, scheduler_tick, SwitchTask PROVE IInv'
  BY Zenon
<1>. USE SchedulerAssumption
<1>. DEFINE old == current_task
            new == Picked
            runnable == state[old] = "RUNNING"
<1>1. Live' = Live /\ TypeTable' /\ PidsConsistent' /\ IdlePid'
  BY Zenon, TickFacts
<1>2. /\ ready_queue \in Seq(Tasks) /\ old \in Tasks
      /\ state \in [Tasks -> TaskState] /\ frame \in [Tasks -> Frame]
      /\ time_slice \in [Tasks -> 0 .. TIME_SLICE_TICKS]
      /\ entry \in Frame
      /\ IsInjective(ready_queue) /\ old \notin Range(ready_queue)
  BY Zenon DEF IInv, TypeOK, TypeQueue, TypeTask, TypeTick, QueuesConsistent, Frame
<1>3. ready_queue # <<>> /\ new = Head(ready_queue) /\ AfterPick = Tail(ready_queue)
  BY Zenon DEF IInv, IdleAvailable, SwitchTask, Picked, AfterPick
<1>4. /\ new \in Tasks /\ new # old /\ new \notin Range(AfterPick)
      /\ AfterPick \in Seq(Tasks) /\ IsInjective(AfterPick)
      /\ Range(ready_queue) = Range(AfterPick) \cup {new}
  BY Zenon, <1>2, <1>3, TailRange DEF SwitchTask
<1>5. state[new] = "READY"
  BY Zenon, <1>4 DEF IInv, QueuesConsistent
<1>6. old = IdleTask => runnable
  BY Zenon DEF IInv, RunningIsCurrent
<1>7. /\ ready_queue' = IF runnable THEN Append(AfterPick, old) ELSE AfterPick
      /\ current_task' = new
      /\ frame' = [frame EXCEPT ![old] = entry]
      /\ \A t \in Tasks : state'[t] = IF t = new THEN "RUNNING"
                                      ELSE IF t = old /\ runnable THEN "READY"
                                      ELSE state[t]
      /\ state' \in [Tasks -> TaskState]
      /\ time_slice' \in [Tasks -> 0 .. TIME_SLICE_TICKS]
  <2>1. /\ ready_queue' = IF runnable THEN Append(AfterPick, old) ELSE AfterPick
        /\ current_task' = new
        /\ frame' = [frame EXCEPT ![old] = entry]
    BY Zenon DEF SwitchTask, Enqueue
  <2>2. state' = [t \in Tasks |-> CASE t = new -> "RUNNING"
                                    [] t = old /\ runnable -> "READY"
                                    [] OTHER -> state[t]]
    BY Zenon DEF SwitchTask
  <2>3. time_slice' = [t \in Tasks |->
          CASE t = new \/ (t = old /\ runnable) -> TIME_SLICE_TICKS
            [] t = old /\ ~runnable -> 0
            [] OTHER -> time_slice[t]]
    BY Zenon DEF SwitchTask
  <2>. HIDE DEF old, new, runnable
  <2>4. \A t \in Tasks : state'[t] = IF t = new THEN "RUNNING"
                                     ELSE IF t = old /\ runnable THEN "READY"
                                     ELSE state[t]
    BY Zenon, <1>4, <2>2
  <2>5. state' \in [Tasks -> TaskState]
    BY Zenon, <1>2, <2>2, <1>4 DEF TaskState
  <2>6. time_slice' \in [Tasks -> 0 .. TIME_SLICE_TICKS]
    BY <1>2, <1>4, <2>3
  <2>. QED
    BY Zenon, <2>1, <2>4, <2>5, <2>6
<1>8. /\ ReturnThrough(frame[new])
      /\ ~interrupts /\ in_service /\ pc # "run" /\ pc' = "run" /\ halted' = halted
      /\ wake_in' = wake_in /\ sleep_queue' = sleep_queue
  BY Zenon, TickFacts DEF SwitchTask
<1>. HIDE DEF old, new, runnable
<1>9. /\ ready_queue' \in Seq(Tasks) /\ IsInjective(ready_queue')
      /\ Range(ready_queue') = Range(AfterPick) \cup (IF runnable THEN {old} ELSE {})
  <2>1. old \notin Range(AfterPick)
    BY Zenon, <1>2, <1>4
  <2>. QED
    BY SMTT(30), <1>2, <1>4, <1>7, <2>1, AppendRange
<1>10. TypeOK'
  <2>1. TypeTask'
    BY Zenon, <1>2, <1>4, <1>7, <1>8 DEF IInv, TypeOK, TypeTask
  <2>2. TypeQueue'
    BY Zenon, <1>4, <1>7, <1>8, <1>9 DEF IInv, TypeOK, TypeQueue
  <2>3. TypeFlag'
    BY Zenon, <1>8 DEF IInv, TypeOK, TypeFlag, ReturnThrough
  <2>. QED
    BY Zenon, <1>1, <2>1, <2>2, <2>3, TickFacts DEF TypeOK
<1>11. QueuesConsistent'
  <2>1. new \notin Range(ready_queue')
    BY Zenon, <1>4, <1>9
  <2>2. \A t \in Range(ready_queue') : state'[t] = "READY"
    <3>1. \A t \in Range(AfterPick) : t \in Tasks /\ t # new /\ t # old /\ state[t] = "READY"
      BY Zenon, <1>2, <1>4, RangeElements DEF IInv, QueuesConsistent
    <3>. QED
      BY Zenon, <1>2, <1>4, <1>7, <1>9, <3>1
  <2>3. \A t \in Live' : state'[t] = "SLEEPING" <=> t \in Range(sleep_queue')
    <3>1. \A t \in Live' : t \in Tasks /\ (state[t] = "SLEEPING" <=> t \in Range(sleep_queue))
      BY Zenon, <1>1, LiveTyped DEF IInv, QueuesConsistent
    <3>. QED
      BY Zenon, <1>5, <1>7, <1>8, <3>1 DEF runnable
  <2>. QED
    BY Zenon, <1>7, <1>8, <1>9, <2>1, <2>2, <2>3 DEF IInv, QueuesConsistent
<1>12. NoDanglingTask'
  BY Zenon, <1>1, <1>4, <1>7, <1>8, <1>9 DEF IInv, NoDanglingTask, old
<1>13. IdleAvailable'
  <2>1. new = IdleTask \/ IdleTask \in Range(ready_queue')
    BY Zenon, <1>4, <1>6, <1>9 DEF IInv, IdleAvailable, old
  <2>. QED
    BY Zenon, <1>7, <1>9, <2>1, RangeElements DEF IdleAvailable
<1>14. InterruptsOnlyInIdle'
  BY Zenon, <1>4, <1>7, <1>8 DEF IInv, InterruptsOnlyInIdle, FramesMatch, ReturnThrough, old
<1>15. FramesMatch' /\ SleeperLeaves'
  BY Zenon, <1>2, <1>4, <1>7, <1>8 DEF IInv, FramesMatch, SleeperLeaves, old
<1>16. RunningIsCurrent'
  <2>1. \A t \in Live' : t \in Live /\ t \in Tasks
    BY Zenon, <1>1, LiveTyped
  <2>. QED
    BY Zenon, <1>4, <1>7, <2>1 DEF IInv, RunningIsCurrent, old, runnable
<1>. QED
  BY Zenon, <1>1, <1>10, <1>11, <1>12, <1>13, <1>14, <1>15, <1>16 DEF IInv

(* A tick keeps the running task only if it is idle: a caller's slice is   *)
(* zero, and with tasks queued the head of the queue is another task.      *)
LEMMA TickIInv == IInv /\ scheduler_tick => IInv'
<1>. SUFFICES ASSUME IInv, scheduler_tick PROVE IInv'
  OBVIOUS
<1>. USE SchedulerAssumption
<1>1. /\ time_slice \in [Tasks -> 0 .. TIME_SLICE_TICKS]
      /\ ready_queue \in Seq(Tasks) /\ current_task \in Tasks
      /\ current_task \notin Range(ready_queue)
  BY Zenon DEF IInv, TypeOK, TypeTask, TypeQueue, QueuesConsistent
<1>2. CASE KeepRunning
  <2>1. SliceLeft \in 0 .. TIME_SLICE_TICKS
    BY <1>1 DEF SliceLeft
  <2>2. time_slice' \in [Tasks -> 0 .. TIME_SLICE_TICKS]
    BY Zenon, <1>1, <1>2, <2>1 DEF KeepRunning
  <2>3. time_slice[current_task] # 0
    BY <1>2 DEF KeepRunning, SliceLeft
  <2>4. current_task = IdleTask
    BY Zenon, <2>3 DEF IInv, FramesMatch, TypeOK, TypeTick, scheduler_tick
  <2>. QED
    BY Zenon, <1>2, <2>2, <2>4, IdleGoesOnIInv DEF KeepRunning
<1>3. CASE SwitchTask
  BY Zenon, <1>3, SwitchIInv
<1>4. CASE ResetSlice
  <2>1. ready_queue = <<>>
    BY Zenon, <1>1, <1>4, TailRange DEF ResetSlice, Picked
  <2>2. current_task = IdleTask /\ ready_queue' = ready_queue
    BY Zenon, <1>4, <2>1 DEF ResetSlice, Picked, AfterPick
  <2>3. time_slice' \in [Tasks -> 0 .. TIME_SLICE_TICKS]
    BY <1>1, <1>4 DEF ResetSlice
  <2>. QED
    BY Zenon, <1>4, <2>2, <2>3, IdleGoesOnIInv DEF ResetSlice
<1>. QED
  BY Zenon, <1>2, <1>3, <1>4 DEF scheduler_tick

-----------------------------------------------------------------------------
(* The calls tasks make. *)

(* A task that leaves the CPU by a call, in state s and with or without a  *)
(* place in the sleep queue.                                               *)
LEMMA LeaveIInv ==
  ASSUME IInv, GiveUp, NEW s \in TaskState,
         state' = [state EXCEPT ![current_task] = s],
         wake_in' \in [Tasks -> 0 .. MaxSleep],
         s = "SLEEPING" => wake_in'[current_task] > 0,
         ready_queue' \in Seq(Tasks), IsInjective(ready_queue'),
         Range(ready_queue') = Range(ready_queue),
         sleep_queue' \in Seq(Tasks), IsInjective(sleep_queue'),
         Range(sleep_queue') =
           Range(sleep_queue) \cup (IF s = "SLEEPING" THEN {current_task} ELSE {})
  PROVE  IInv'
<1>. USE SchedulerAssumption
<1>1. Live' = Live /\ TypeTable' /\ PidsConsistent' /\ IdlePid'
  BY Zenon, TableKept DEF GiveUp
<1>2. /\ pc = "run" /\ current_task # IdleTask /\ current_task' = current_task
      /\ pc' = "check" /\ entry' = "call" /\ frame' = frame
      /\ UNCHANGED <<interrupts, in_service, halted, reap_counter>> /\ scan' = 1
  BY Zenon DEF GiveUp, InTask, EnterTick, cpuVars
<1>3. /\ state \in [Tasks -> TaskState] /\ current_task \in Tasks
      /\ time_slice \in [Tasks -> 0 .. TIME_SLICE_TICKS]
      /\ time_slice' = [time_slice EXCEPT ![current_task] = 0]
  BY Zenon DEF IInv, TypeOK, TypeTask, TypeQueue, GiveUp
<1>4. state[current_task] = "RUNNING"
  BY Zenon, <1>2 DEF IInv, RunningIsCurrent
<1>5. TypeOK'
  <2>1. TypeTask'
    BY SMTT(30), <1>2, <1>3 DEF IInv, TypeOK, TypeTask
  <2>2. TypeQueue'
    BY Zenon, <1>2, <1>3 DEF TypeQueue
  <2>3. TypeTick' /\ TypeFlag'
    BY <1>2 DEF IInv, TypeOK, TypeTick, TypeFlag
  <2>. QED
    BY Zenon, <1>1, <2>1, <2>2, <2>3 DEF TypeOK
<1>6. QueuesConsistent'
  <2>1. \A t \in Range(ready_queue) : t \in Tasks /\ t # current_task /\ state[t] = "READY"
    BY Zenon, RangeElements DEF IInv, QueuesConsistent, TypeOK, TypeQueue
  <2>2. \A t \in Range(ready_queue') : state'[t] = "READY"
    BY Zenon, <1>3, <2>1
  <2>3. \A t \in Live : state'[t] = "SLEEPING" <=> t \in Range(sleep_queue')
    <3>1. \A t \in Live : t \in Tasks /\ (state[t] = "SLEEPING" <=> t \in Range(sleep_queue))
      BY Zenon, LiveTyped DEF IInv, QueuesConsistent
    <3>2. \A t \in Live : t # current_task => state'[t] = state[t]
      BY Zenon, <1>3, <3>1
    <3>3. state'[current_task] = s
      BY Zenon, <1>3
    <3>. QED
      BY Zenon, <1>4, <3>1, <3>2, <3>3
  <2>. QED
    BY Zenon, <1>1, <1>2, <2>1, <2>2, <2>3 DEF QueuesConsistent
<1>7. NoDanglingTask' /\ IdleAvailable'
  <2>1. NoDanglingTask'
    BY Zenon, <1>1, <1>2 DEF IInv, NoDanglingTask
  <2>2. IdleTask \in Range(ready_queue')
    BY Zenon, <1>2 DEF IInv, IdleAvailable
  <2>. QED
    BY Zenon, <2>1, <2>2, RangeElements DEF IdleAvailable
<1>8. InterruptsOnlyInIdle'
  BY Zenon, <1>2 DEF IInv, InterruptsOnlyInIdle
<1>9. FramesMatch' /\ SleeperLeaves'
  BY Zenon, <1>2, <1>3 DEF IInv, FramesMatch, SleeperLeaves
<1>10. RunningIsCurrent'
  BY Zenon, <1>1, <1>2, <1>3, LiveTyped DEF IInv, RunningIsCurrent
<1>. QED
  BY Zenon, <1>1, <1>5, <1>6, <1>7, <1>8, <1>9, <1>10 DEF IInv

(* task_yield, task_block, task_sleep and task_exit.                       *)
LEMMA LeaveCPUIInv == IInv /\ LeaveCPU => IInv'
<1>. SUFFICES ASSUME IInv, LeaveCPU PROVE IInv'
  OBVIOUS
<1>. USE SchedulerAssumption
<1>1. /\ state \in [Tasks -> TaskState] /\ current_task \in Tasks
      /\ wake_in \in [Tasks -> 0 .. MaxSleep]
      /\ ready_queue \in Seq(Tasks) /\ sleep_queue \in Seq(Tasks)
      /\ IsInjective(ready_queue) /\ IsInjective(sleep_queue)
      /\ current_task \notin Range(ready_queue)
  BY Zenon DEF IInv, TypeOK, TypeTask, TypeQueue, QueuesConsistent
<1>2. {"RUNNING", "BLOCKED", "SLEEPING", "TERMINATED"} \subseteq TaskState
  BY Zenon DEF TaskState
<1>3. ASSUME GiveUp PROVE state[current_task] = "RUNNING"
  BY Zenon, <1>3 DEF IInv, RunningIsCurrent, GiveUp, InTask
<1>4. CASE task_yield
  <2>1. GiveUp /\ UNCHANGED <<state, wake_in, ready_queue, sleep_queue>>
    BY Zenon, <1>4 DEF task_yield
  <2>2. state' = [state EXCEPT ![current_task] = "RUNNING"]
    BY Zenon, <1>1, <1>3, <2>1
  <2>. QED
    BY Zenon, <1>1, <1>2, <2>1, <2>2, LeaveIInv
<1>5. CASE task_block
  <2>1. /\ GiveUp /\ UNCHANGED <<wake_in, ready_queue, sleep_queue>>
        /\ state' = [state EXCEPT ![current_task] = "BLOCKED"]
    BY Zenon, <1>5 DEF task_block
  <2>. QED
    BY Zenon, <1>1, <1>2, <2>1, LeaveIInv
<1>6. CASE task_exit
  <2>1. /\ GiveUp /\ UNCHANGED <<wake_in, sleep_queue>>
        /\ state' = [state EXCEPT ![current_task] = "TERMINATED"]
        /\ ready_queue' = Without(ready_queue, current_task)
    BY Zenon, <1>6 DEF task_exit
  <2>2. /\ ready_queue' \in Seq(Tasks) /\ IsInjective(ready_queue')
        /\ Range(ready_queue') = Range(ready_queue)
    <3>. DEFINE q == Without(ready_queue, current_task)
    <3>1. q \in Seq(Tasks) /\ Range(q) = Range(ready_queue) \ {current_task} /\ IsInjective(q)
      BY Zenon, <1>1, WithoutRange
    <3>. HIDE DEF q
    <3>2. Range(q) = Range(ready_queue)
      BY Zenon, <1>1, <3>1
    <3>. QED
      BY Zenon, <2>1, <3>1, <3>2 DEF q
  <2>. QED
    BY Zenon, <1>1, <1>2, <2>1, <2>2, LeaveIInv
<1>7. CASE \E n \in 1 .. MaxSleep : task_sleep(n)
  <2>1. PICK n \in 1 .. MaxSleep : task_sleep(n)
    BY Zenon, <1>7
  <2>2. /\ GiveUp /\ ready_queue' = ready_queue
        /\ state' = [state EXCEPT ![current_task] = "SLEEPING"]
        /\ wake_in' = [wake_in EXCEPT ![current_task] = n]
        /\ sleep_queue' = Cons(current_task, sleep_queue)
    BY Zenon, <2>1 DEF task_sleep
  <2>3. current_task \notin Range(sleep_queue)
    BY Zenon, <1>3, <2>2 DEF IInv, QueuesConsistent, NoDanglingTask
  <2>4. /\ sleep_queue' \in Seq(Tasks) /\ IsInjective(sleep_queue')
        /\ Range(sleep_queue') = Range(sleep_queue) \cup {current_task}
    <3>. DEFINE q == Cons(current_task, sleep_queue)
    <3>1. q \in Seq(Tasks) /\ Range(q) = Range(sleep_queue) \cup {current_task} /\ IsInjective(q)
      BY <1>1, <2>3, ConsRange
    <3>. QED
      BY Zenon, <2>2, <3>1
  <2>5. wake_in' \in [Tasks -> 0 .. MaxSleep] /\ wake_in'[current_task] > 0
    BY <1>1, <2>2
  <2>. QED
    BY Zenon, <1>1, <1>2, <2>2, <2>4, <2>5, LeaveIInv
<1>. QED
  BY Zenon, <1>4, <1>5, <1>6, <1>7 DEF LeaveCPU

(* scheduler_add_task and task_unblock.                                    *)
LEMMA MakeReadyIInv ==
  ASSUME IInv, NEW t \in Tasks, scheduler_add_task(t) \/ task_unblock(t)
  PROVE  IInv'
<1>. USE SchedulerAssumption
<1>1. /\ MakeReady(t) /\ t \in Live /\ t \notin Range(ready_queue)
      /\ state[t] \in {"READY", "BLOCKED"} /\ pc = "run"
  BY Zenon DEF scheduler_add_task, task_unblock, InTask, Deliverable, IInv, QueuesConsistent
<1>2. Live' = Live /\ TypeTable' /\ PidsConsistent' /\ IdlePid'
  BY Zenon, <1>1, TableKept DEF MakeReady
<1>3. /\ t # current_task /\ t \notin Range(sleep_queue)
      /\ state \in [Tasks -> TaskState] /\ ready_queue \in Seq(Tasks)
      /\ IsInjective(ready_queue)
  BY Zenon, <1>1 DEF IInv, RunningIsCurrent, QueuesConsistent, TypeOK, TypeTask, TypeQueue
<1>4. /\ ready_queue' \in Seq(Tasks) /\ IsInjective(ready_queue')
      /\ Range(ready_queue') = Range(ready_queue) \cup {t}
  BY <1>1, <1>3, AppendRange DEF MakeReady, Enqueue
<1>5. /\ state' = [state EXCEPT ![t] = "READY"] /\ state' \in [Tasks -> TaskState]
      /\ UNCHANGED <<time_slice, wake_in, frame, sleep_queue, current_task, reap_counter,
                     interrupts, in_service, pc, scan, entry, halted>>
  BY Zenon, <1>1, <1>3 DEF MakeReady, TaskState, cpuVars, tickVars
<1>6. TypeOK'
  <2>1. TypeTask'
    BY Zenon, <1>5 DEF IInv, TypeOK, TypeTask
  <2>2. TypeQueue'
    BY Zenon, <1>4, <1>5 DEF IInv, TypeOK, TypeQueue
  <2>3. TypeTick' /\ TypeFlag'
    BY Zenon, <1>5 DEF IInv, TypeOK, TypeTick, TypeFlag
  <2>. QED
    BY Zenon, <1>2, <2>1, <2>2, <2>3 DEF TypeOK
<1>7. QueuesConsistent'
  <2>0. /\ \A u \in Range(ready_queue) : state[u] = "READY"
        /\ IsInjective(sleep_queue) /\ current_task \notin Range(ready_queue)
    BY Zenon DEF IInv, QueuesConsistent
  <2>1. \A u \in Range(ready_queue') : state'[u] = "READY"
    <3>1. Range(ready_queue) \subseteq Tasks
      BY Zenon, <1>3, RangeElements
    <3>2. \A u \in Tasks : state'[u] = IF u = t THEN "READY" ELSE state[u]
      BY Zenon, <1>3, <1>5
    <3>. QED
      BY Zenon, <1>4, <2>0, <3>1, <3>2
  <2>2. \A u \in Live : state'[u] = "SLEEPING" <=> u \in Range(sleep_queue')
    BY Zenon, <1>3, <1>5, LiveTyped DEF IInv, QueuesConsistent
  <2>3. current_task' \notin Range(ready_queue') /\ IsInjective(sleep_queue')
    BY Zenon, <1>3, <1>4, <1>5, <2>0
  <2>. QED
    BY Zenon, <1>2, <1>4, <2>1, <2>2, <2>3 DEF QueuesConsistent
<1>8. NoDanglingTask'
  BY Zenon, <1>1, <1>2, <1>4, <1>5 DEF IInv, NoDanglingTask
<1>9. IdleAvailable'
  <2>1. ready_queue' # <<>>
    BY Zenon, <1>4, RangeElements
  <2>. QED
    BY Zenon, <1>4, <1>5, <2>1 DEF IInv, IdleAvailable
<1>10. InterruptsOnlyInIdle'
  BY Zenon, <1>5 DEF IInv, InterruptsOnlyInIdle
<1>11. FramesMatch'
  BY Zenon, <1>5 DEF IInv, FramesMatch
<1>12. SleeperLeaves' /\ RunningIsCurrent'
  BY SMTT(30), <1>1, <1>2, <1>3, <1>5, LiveTyped DEF IInv, SleeperLeaves, RunningIsCurrent
<1>. QED
  BY Zenon, <1>2, <1>6, <1>7, <1>8, <1>9, <1>10, <1>11, <1>12 DEF IInv

(* Entering a task into the slot that task_find_free_slot returns, grown   *)
(* table or not, moves no other task.                                      *)
LEMMA PlacedKeeps ==
  ASSUME TypeTable, NEW t \in Tasks, NEW i \in 0 .. task_table_capacity,
         task_find_free_slot(i), task_table' = PlacedIn(i, t)
  PROVE  /\ task_table_capacity' \in Nat \ {0}
         /\ Slots \subseteq Slots' /\ i \in Slots'
         /\ task_table' \in [Slots' -> Tasks \cup {Null}]
         /\ task_table'[i] = t
         /\ i \in Slots => task_table[i] = Null
         /\ \A j \in Slots : j # i => task_table'[j] = task_table[j]
         /\ \A j \in Slots' : j \notin Slots /\ j # i => task_table'[j] = Null
<1>. USE DEF Slots
<1>1. task_table_capacity \in Nat \ {0} /\ task_table \in [Slots -> Tasks \cup {Null}]
  BY Zenon DEF TypeTable
<1>2. CASE FreeSlots = {}
  <2>1. i = task_table_capacity /\ task_table_capacity' = 2 * task_table_capacity
    BY Zenon, <1>2 DEF task_find_free_slot
  <2>2. task_table' = [Grown EXCEPT ![i] = t]
    BY Zenon, <1>2 DEF PlacedIn
  <2>3. Grown \in [0 .. 2 * task_table_capacity - 1 -> Tasks \cup {Null}]
    BY <1>1 DEF Grown
  <2>4. Slots' = 0 .. 2 * task_table_capacity - 1 /\ i \in Slots' /\ Slots \subseteq Slots'
    BY <1>1, <2>1
  <2>5. \A j \in 0 .. 2 * task_table_capacity - 1 :
          Grown[j] = IF j < task_table_capacity THEN task_table[j] ELSE Null
    BY Zenon DEF Grown
  <2>6. \A j \in Slots' : j # i => task_table'[j] = Grown[j]
    BY Zenon, <2>2, <2>3, <2>4
  <2>. QED
    BY <1>1, <2>1, <2>2, <2>3, <2>4, <2>5, <2>6
<1>3. CASE FreeSlots # {}
  <2>1. i \in FreeSlots /\ task_table_capacity' = task_table_capacity
    BY Zenon, <1>3 DEF task_find_free_slot
  <2>2. task_table' = [task_table EXCEPT ![i] = t]
    BY Zenon, <1>3 DEF PlacedIn
  <2>. QED
    BY Zenon, <1>1, <2>1, <2>2 DEF FreeSlots
<1>. QED
  BY Zenon, <1>2, <1>3

(* task_create.                                                            *)
LEMMA CreateIInv ==
  ASSUME IInv, NEW t \in Tasks, task_create(t)
  PROVE  IInv'
<1>. USE SchedulerAssumption
<1>1. PICK i \in 0 .. task_table_capacity :
        /\ task_find_free_slot(i)
        /\ task_table' = PlacedIn(i, t)
        /\ pid' = [pid EXCEPT ![t] = i]
  BY Zenon DEF task_create
<1>2. /\ t \notin Live /\ pc = "run"
      /\ state' = [state EXCEPT ![t] = "READY"]
      /\ time_slice' = [time_slice EXCEPT ![t] = TIME_SLICE_TICKS]
      /\ wake_in' = [wake_in EXCEPT ![t] = 0]
      /\ frame' = [frame EXCEPT ![t] = "new"]
      /\ UNCHANGED <<ready_queue, sleep_queue, current_task, reap_counter, interrupts,
                     in_service, pc, scan, entry, halted>>
  BY Zenon DEF task_create, InTask, cpuVars, tickVars
<1>3. /\ t \notin Range(ready_queue) /\ t \notin Range(sleep_queue)
      /\ t # current_task /\ t # IdleTask
  BY Zenon, <1>2 DEF IInv, NoDanglingTask
<1>4. /\ task_table_capacity' \in Nat \ {0}
      /\ Slots \subseteq Slots' /\ i \in Slots'
      /\ task_table' \in [Slots' -> Tasks \cup {Null}]
      /\ task_table'[i] = t
      /\ i \in Slots => task_table[i] = Null
      /\ \A j \in Slots : j # i => task_table'[j] = task_table[j]
      /\ \A j \in Slots' : j \notin Slots /\ j # i => task_table'[j] = Null
  BY Zenon, <1>1, PlacedKeeps DEF IInv, TypeOK
<1>5. pid \in [Tasks -> Nat] /\ i \in Nat /\ pid'[t] = i
      /\ \A u \in Tasks : u # t => pid'[u] = pid[u]
  BY <1>1 DEF IInv, TypeOK, TypeTable
<1>6. TypeTable'
  BY Zenon, <1>1, <1>4, <1>5 DEF TypeTable
<1>7. Live' = Live \cup {t}
  <2>1. \A u \in Live : u \in Live'
    BY Zenon, <1>4 DEF Live
  <2>2. \A u \in Live' : u \in Live \/ u = t
    BY Zenon, <1>4 DEF Live
  <2>. QED
    BY Zenon, <1>4, <2>1, <2>2 DEF Live
<1>8. PidsConsistent' /\ IdlePid'
  <2>1. ASSUME NEW u \in Live', NEW j \in Slots' PROVE task_table'[j] = u <=> j = pid'[u]
    <3>1. CASE u = t
      <4>1. \A k \in Slots : task_table[k] # t
        BY Zenon, <1>2 DEF Live
      <4>. QED
        BY SMTT(30), <1>4, <1>5, <3>1, <4>1
    <3>2. CASE u # t
      <4>1. u \in Live /\ u \in Tasks /\ u # Null
        BY Zenon, <1>7, <3>2, LiveTyped
      <4>2. PICK k \in Slots : task_table[k] = u
        BY Zenon, <4>1 DEF Live
      <4>3. k = pid[u] /\ \A m \in Slots : task_table[m] = u <=> m = pid[u]
        BY Zenon, <4>1, <4>2 DEF IInv, PidsConsistent
      <4>4. k # i /\ task_table'[k] = u
        BY Zenon, <1>4, <4>1, <4>2
      <4>. QED
        BY Zenon, <1>4, <1>5, <3>2, <4>1, <4>3, <4>4
    <3>. QED
      BY Zenon, <3>1, <3>2
  <2>. QED
    BY Zenon, <1>3, <1>5, <2>1 DEF PidsConsistent, IInv, IdlePid
<1>9. state \in [Tasks -> TaskState] /\ state' \in [Tasks -> TaskState]
  BY Zenon, <1>2 DEF IInv, TypeOK, TypeTask, TaskState
<1>10. TypeOK'
  <2>1. TypeTask'
    BY <1>2, <1>9 DEF IInv, TypeOK, TypeTask, Frame
  <2>2. TypeQueue' /\ TypeTick'
    BY Zenon, <1>2 DEF IInv, TypeOK, TypeQueue, TypeTick
  <2>3. TypeFlag'
    BY Zenon, <1>2 DEF IInv, TypeOK, TypeFlag
  <2>. QED
    BY Zenon, <1>6, <2>1, <2>2, <2>3 DEF TypeOK
<1>11. QueuesConsistent'
  <2>0. /\ \A u \in Range(ready_queue) : state[u] = "READY" /\ u \in Live
        /\ IsInjective(ready_queue) /\ IsInjective(sleep_queue)
        /\ current_task \notin Range(ready_queue)
    BY Zenon DEF IInv, QueuesConsistent, NoDanglingTask
  <2>1. \A u \in Range(ready_queue) : state'[u] = "READY"
    BY Zenon, <1>2, <1>3, <1>9, <2>0, LiveTyped
  <2>2. \A u \in Live' : state'[u] = "SLEEPING" <=> u \in Range(sleep_queue)
    BY ZenonT(30), <1>2, <1>3, <1>7, <1>9, LiveTyped DEF IInv, QueuesConsistent
  <2>. QED
    BY Zenon, <1>2, <2>0, <2>1, <2>2 DEF QueuesConsistent
<1>12. NoDanglingTask' /\ IdleAvailable'
  BY Zenon, <1>2, <1>7 DEF IInv, NoDanglingTask, IdleAvailable
<1>13. InterruptsOnlyInIdle' /\ SleeperLeaves'
  BY Zenon, <1>2 DEF IInv, InterruptsOnlyInIdle, SleeperLeaves
<1>14. FramesMatch'
  BY Zenon, <1>2, <1>3 DEF IInv, FramesMatch, TypeOK, TypeTask
<1>15. RunningIsCurrent'
  BY Zenon, <1>2, <1>3, <1>7, <1>9, LiveTyped DEF IInv, RunningIsCurrent, TypeOK, TypeQueue
<1>. QED
  BY Zenon, <1>8, <1>10, <1>11, <1>12, <1>13, <1>14, <1>15 DEF IInv

(* A task_create that fails for want of memory may leave a larger table.   *)
LEMMA CreateNomemIInv == IInv /\ task_create_nomem => IInv'
<1>. SUFFICES ASSUME IInv, task_create_nomem PROVE IInv'
  OBVIOUS
<1>. USE SchedulerAssumption
<1>1. /\ UNCHANGED <<pid, state, time_slice, wake_in, frame, ready_queue, sleep_queue,
                     current_task, reap_counter, interrupts, in_service, pc, scan,
                     entry, halted>>
      /\ task_table' = Grown /\ task_table_capacity' = 2 * task_table_capacity
  BY Zenon DEF task_create_nomem, cpuVars, tickVars
<1>2. task_table_capacity \in Nat \ {0} /\ task_table \in [Slots -> Tasks \cup {Null}]
  BY Zenon DEF IInv, TypeOK, TypeTable
<1>3. /\ Slots \subseteq Slots' /\ Slots' = 0 .. 2 * task_table_capacity - 1
      /\ task_table_capacity' \in Nat \ {0}
      /\ task_table' \in [Slots' -> Tasks \cup {Null}]
      /\ \A j \in Slots : task_table'[j] = task_table[j]
      /\ \A j \in Slots' : j \notin Slots => task_table'[j] = Null
  BY <1>1, <1>2 DEF Slots, Grown
<1>4. Live' = Live
  BY Zenon, <1>3 DEF Live
<1>5. PidsConsistent' /\ IdlePid'
  <2>1. ASSUME NEW u \in Live, NEW j \in Slots' PROVE task_table'[j] = u <=> j = pid[u]
    <3>1. u # Null /\ \E k \in Slots : task_table[k] = u
      BY Zenon, LiveTyped DEF Live
    <3>. QED
      BY <1>3, <3>1 DEF IInv, PidsConsistent
  <2>. QED
    BY Zenon, <1>1, <1>4, <2>1 DEF PidsConsistent, IInv, IdlePid
<1>6. TypeOK'
  <2>1. TypeTable' /\ TypeTask'
    BY Zenon, <1>1, <1>3 DEF IInv, TypeOK, TypeTable, TypeTask
  <2>2. TypeQueue' /\ TypeTick'
    BY Zenon, <1>1 DEF IInv, TypeOK, TypeQueue, TypeTick
  <2>3. TypeFlag'
    BY Zenon, <1>1 DEF IInv, TypeOK, TypeFlag
  <2>. QED
    BY Zenon, <2>1, <2>2, <2>3 DEF TypeOK
<1>7. QueuesConsistent'
  BY Zenon, <1>1, <1>4 DEF IInv, QueuesConsistent
<1>8. NoDanglingTask' /\ IdleAvailable' /\ RunningIsCurrent'
  BY Zenon, <1>1, <1>4 DEF IInv, NoDanglingTask, IdleAvailable, RunningIsCurrent
<1>9. InterruptsOnlyInIdle' /\ FramesMatch' /\ SleeperLeaves'
  BY Zenon, <1>1 DEF IInv, InterruptsOnlyInIdle, FramesMatch, SleeperLeaves
<1>. QED
  BY Zenon, <1>5, <1>6, <1>7, <1>8, <1>9 DEF IInv

(* task_destroy of any task but the idle one.                              *)
LEMMA DestroyIInv ==
  ASSUME IInv, NEW t \in Tasks, t # IdleTask, task_destroy(t)
  PROVE  IInv'
<1>. USE SchedulerAssumption
<1>1. /\ t \in Live /\ t # current_task /\ pc = "run"
      /\ state' = [state EXCEPT ![t] = "TERMINATED"]
      /\ ready_queue' = Without(ready_queue, t)
      /\ sleep_queue' = Without(sleep_queue, t)
      /\ UNCHANGED <<task_table_capacity, pid, time_slice, wake_in, frame, current_task,
                     reap_counter, interrupts, in_service, pc, scan, entry, halted>>
  BY Zenon DEF task_destroy, InTask, SleepersWithout, cpuVars, tickVars
<1>2. /\ ready_queue \in Seq(Tasks) /\ sleep_queue \in Seq(Tasks)
      /\ IsInjective(ready_queue) /\ IsInjective(sleep_queue)
      /\ state \in [Tasks -> TaskState] /\ current_task \in Tasks
  BY Zenon DEF IInv, TypeOK, TypeQueue, TypeTask, QueuesConsistent
<1>3. /\ ready_queue' \in Seq(Tasks) /\ IsInjective(ready_queue')
      /\ Range(ready_queue') = Range(ready_queue) \ {t}
  <2>. DEFINE q == Without(ready_queue, t)
  <2>1. q \in Seq(Tasks) /\ Range(q) = Range(ready_queue) \ {t} /\ IsInjective(q)
    BY Zenon, <1>2, WithoutRange
  <2>. QED
    BY Zenon, <1>1, <2>1
<1>4. /\ sleep_queue' \in Seq(Tasks) /\ IsInjective(sleep_queue')
      /\ Range(sleep_queue') = Range(sleep_queue) \ {t}
  <2>. DEFINE q == Without(sleep_queue, t)
  <2>1. q \in Seq(Tasks) /\ Range(q) = Range(sleep_queue) \ {t} /\ IsInjective(q)
    BY Zenon, <1>2, WithoutRange
  <2>. QED
    BY Zenon, <1>1, <2>1
<1>5. /\ pid[t] \in Slots /\ task_table[pid[t]] = t
      /\ \A i \in Slots : task_table[i] = t => i = pid[t]
  BY Zenon, <1>1 DEF IInv, PidsConsistent, Live
<1>6. /\ Slots' = Slots
      /\ task_table \in [Slots -> Tasks \cup {Null}]
      /\ task_table' = [task_table EXCEPT ![pid[t]] = Null]
  BY Zenon, <1>1, <1>5 DEF task_destroy, Slots, IInv, TypeOK, TypeTable
<1>7. TypeTable'
  BY Zenon, <1>1, <1>6 DEF IInv, TypeOK, TypeTable
<1>8. Live' = Live \ {t}
  BY Zenon, <1>5, <1>6 DEF Live
<1>9. PidsConsistent' /\ IdlePid'
  <2>1. \A u \in Live' : u \in Live /\ u # t /\ u # Null
    BY Zenon, <1>8, LiveTyped
  <2>2. ASSUME NEW u \in Live', NEW i \in Slots PROVE task_table'[i] = u <=> i = pid[u]
    BY <1>5, <1>6, <2>1 DEF IInv, PidsConsistent
  <2>. QED
    BY Zenon, <1>1, <1>6, <2>2 DEF PidsConsistent, IInv, IdlePid
<1>10. state' \in [Tasks -> TaskState]
  BY Zenon, <1>1, <1>2 DEF TaskState
<1>11. TypeOK'
  <2>1. TypeTask' /\ TypeQueue'
    BY Zenon, <1>1, <1>2, <1>3, <1>4, <1>10 DEF IInv, TypeOK, TypeTask, TypeQueue
  <2>2. TypeTick' /\ TypeFlag'
    BY Zenon, <1>1 DEF IInv, TypeOK, TypeTick, TypeFlag
  <2>. QED
    BY Zenon, <1>7, <2>1, <2>2 DEF TypeOK
<1>12. QueuesConsistent'
  <2>1. \A u \in Range(ready_queue') : state'[u] = "READY" /\ u # current_task
    BY Zenon, <1>1, <1>2, <1>3, RangeElements DEF IInv, QueuesConsistent
  <2>2. \A u \in Live' : state'[u] = "SLEEPING" <=> u \in Range(sleep_queue')
    BY Zenon, <1>1, <1>2, <1>4, <1>8, LiveTyped DEF IInv, QueuesConsistent
  <2>. QED
    BY Zenon, <1>1, <1>3, <1>4, <2>1, <2>2 DEF QueuesConsistent
<1>13. NoDanglingTask'
  BY Zenon, <1>1, <1>3, <1>4, <1>8 DEF IInv, NoDanglingTask
<1>14. IdleAvailable'
  <2>1. current_task = IdleTask \/ IdleTask \in Range(ready_queue')
    BY Zenon, <1>3 DEF IInv, IdleAvailable
  <2>. QED
    BY <1>1, <1>3, <2>1, RangeElements DEF IdleAvailable
<1>15. InterruptsOnlyInIdle' /\ FramesMatch'
  BY Zenon, <1>1 DEF IInv, InterruptsOnlyInIdle, FramesMatch
<1>16. SleeperLeaves' /\ RunningIsCurrent'
  BY Zenon, <1>1, <1>2, <1>8, LiveTyped DEF IInv, SleeperLeaves, RunningIsCurrent
<1>. QED
  BY Zenon, <1>9, <1>11, <1>12, <1>13, <1>14, <1>15, <1>16 DEF IInv

(* kill cannot name the idle task, whose pid is 0; the others do not.      *)
LEMMA KillIInv ==
  ASSUME IInv, ~PkillIdle,
         \/ \E t \in Tasks : DestroyOther(t) \/ cmd_pkill(t)
         \/ \E p \in Slots : cmd_kill(p)
  PROVE  IInv'
<1>1. CASE \E t \in Tasks : DestroyOther(t) \/ cmd_pkill(t)
  BY Zenon, <1>1, DestroyIInv DEF DestroyOther, cmd_pkill
<1>2. CASE \E p \in Slots : cmd_kill(p)
  <2>1. PICK p \in Slots : cmd_kill(p)
    BY Zenon, <1>2
  <2>2. task_table[p] \in Live /\ p > 0 /\ task_destroy(task_table[p])
    BY Zenon, <2>1 DEF cmd_kill, task_destroy
  <2>3. task_table[p] # IdleTask
    BY <2>2 DEF IInv, PidsConsistent, IdlePid
  <2>. QED
    BY Zenon, <2>2, <2>3, LiveTyped, DestroyIInv
<1>. QED
  BY Zenon, <1>1, <1>2

(* Nothing moves: stuttering, the halted machine, or the call that halts.  *)
LEMMA HaltIInv ==
  ASSUME IInv, task_return_error \/ HaltLoop \/ UNCHANGED schedVars
  PROVE  IInv'
<1>1. /\ UNCHANGED <<tableVars, state, time_slice, wake_in, frame, ready_queue,
                     sleep_queue, current_task, reap_counter, interrupts, in_service,
                     pc, scan, entry>>
      /\ halted' \in BOOLEAN
  BY Zenon DEF task_return_error, HaltLoop, schedVars, tableVars, cpuVars, tickVars,
         IInv, TypeOK, TypeFlag
<1>2. Live' = Live /\ TypeTable' /\ PidsConsistent' /\ IdlePid'
  BY Zenon, <1>1, TableKept
<1>3. TypeOK'
  <2>1. TypeTask' /\ TypeQueue'
    BY Zenon, <1>1 DEF IInv, TypeOK, TypeTask, TypeQueue
  <2>2. TypeTick' /\ TypeFlag'
    BY Zenon, <1>1 DEF IInv, TypeOK, TypeTick, TypeFlag
  <2>. QED
    BY Zenon, <1>2, <2>1, <2>2 DEF TypeOK
<1>4. QueuesConsistent'
  BY Zenon, <1>1, <1>2 DEF IInv, QueuesConsistent
<1>5. NoDanglingTask' /\ IdleAvailable' /\ RunningIsCurrent'
  BY Zenon, <1>1, <1>2 DEF IInv, NoDanglingTask, IdleAvailable, RunningIsCurrent
<1>6. InterruptsOnlyInIdle' /\ FramesMatch' /\ SleeperLeaves'
  BY Zenon, <1>1 DEF IInv, InterruptsOnlyInIdle, FramesMatch, SleeperLeaves
<1>. QED
  BY Zenon, <1>2, <1>3, <1>4, <1>5, <1>6 DEF IInv

(* The inductive invariant of the scheduler: true when kernel_main enters  *)
(* its loop, kept by every interrupt, call and step of scheduler_tick, as  *)
(* long as nobody types "pkill idle".                                      *)
THEOREM Inductive == ASSUME ~PkillIdle PROVE Spec => []IInv
<1>1. Init => IInv
  BY Zenon, InitIInv
<1>2. IInv /\ [Next]_schedVars => IInv'
  BY Zenon, PitHandlerIInv, CheckSleepingIInv, ReapIInv, TickIInv, LeaveCPUIInv, MakeReadyIInv, CreateIInv,
     CreateNomemIInv, KillIInv, HaltIInv
  DEF Next, Kernel
<1>. QED
  BY <1>1, <1>2, PTL DEF Spec

(* Every variable of the scheduler stays within its type: in particular    *)
(* the slot numbers, the reap counter and the slices stay in range.        *)
THEOREM TypeCorrect == ASSUME ~PkillIdle PROVE Spec => []TypeOK
<1>1. IInv => TypeOK
  BY Zenon DEF IInv
<1>. QED
  BY <1>1, Inductive, PTL

(* No queue is corrupted, whatever the order of wake-ups, switches, exits  *)
(* and kills: the one next pointer of a task_t is never used twice.        *)
THEOREM QueuesSafe == ASSUME ~PkillIdle PROVE Spec => []QueuesConsistent
<1>1. IInv => QueuesConsistent
  BY Zenon DEF IInv
<1>. QED
  BY <1>1, Inductive, PTL

(* The scheduler never follows a pointer to a task_t that reaping or       *)
(* task_destroy has freed.                                                 *)
THEOREM NoUseAfterFree == ASSUME ~PkillIdle PROVE Spec => []NoDanglingTask
<1>1. IInv => NoDanglingTask
  BY Zenon DEF IInv
<1>. QED
  BY <1>1, Inductive, PTL

(* The fallback of scheduler_pick_next is taken only while idle runs.      *)
THEOREM IdleSafe == ASSUME ~PkillIdle PROVE Spec => []IdleAvailable
<1>1. IInv => IdleAvailable
  BY Zenon DEF IInv
<1>. QED
  BY <1>1, Inductive, PTL

(* A pid names one task for as long as the task is allocated.              *)
THEOREM PidsSafe == ASSUME ~PkillIdle PROVE Spec => []PidsConsistent
<1>1. IInv => PidsConsistent
  BY Zenon DEF IInv
<1>. QED
  BY <1>1, Inductive, PTL

(* No task but idle is ever preempted, and no scheduler code is ever       *)
(* interrupted: the CPU takes interrupts only in idle's hlt loop.          *)
THEOREM NoPreemption == ASSUME ~PkillIdle PROVE Spec => []InterruptsOnlyInIdle
<1>1. IInv => InterruptsOnlyInIdle
  BY Zenon DEF IInv
<1>. QED
  BY <1>1, Inductive, PTL

(* Between scheduler calls the running task, and no other, is RUNNING.     *)
THEOREM RunningSafe == ASSUME ~PkillIdle PROVE Spec => []OneRunning
<1>1. IInv => OneRunning
  BY Zenon DEF IInv, RunningIsCurrent, OneRunning
<1>. QED
  BY <1>1, Inductive, PTL

-----------------------------------------------------------------------------
(* Round robin. *)

(* Queue r follows queue q: what stands before a task of q in r is a task  *)
(* that stood before it in q already.                                      *)
Follows(q, r) ==
  \A i, j \in 1 .. Len(r), k \in 1 .. Len(q) :
    j < i /\ q[k] = r[i] => \E m \in 1 .. Len(q) : m < k /\ q[m] = r[j]

(* The place of a task in a queue that has it once.                        *)
LEMMA PositionAt ==
  ASSUME NEW q \in Seq(Tasks), IsInjective(q), NEW i \in 1 .. Len(q)
  PROVE  Position(q, q[i]) = i
<1>1. DOMAIN q = 1 .. Len(q)
  BY Zenon, LenProperties
<1>2. \A j \in DOMAIN q : q[j] = q[i] => j = i
  BY Zenon, <1>1 DEF IsInjective
<1> QED
  BY Zenon, <1>1, <1>2 DEF Position

(* A queue that follows the one before keeps the order of those who wait.  *)
LEMMA FollowsFifo ==
  ASSUME ready_queue \in Seq(Tasks), IsInjective(ready_queue),
         ready_queue' \in Seq(Tasks), IsInjective(ready_queue'),
         Follows(ready_queue, ready_queue')
  PROVE  FifoStep
<1> SUFFICES ASSUME NEW t \in Range(ready_queue'), NEW u \in Range(ready_queue'),
                    t \in Range(ready_queue), t # u,
                    u \in Range(ready_queue) => Position(ready_queue, t) < Position(ready_queue, u)
             PROVE  Position(ready_queue', t) < Position(ready_queue', u)
  BY Zenon DEF FifoStep
<1>1. PICK k \in 1 .. Len(ready_queue) : ready_queue[k] = t
  BY Zenon, RangeElements
<1>2. PICK i \in 1 .. Len(ready_queue') : ready_queue'[i] = t
  BY Zenon, RangeElements
<1>3. PICK j \in 1 .. Len(ready_queue') : ready_queue'[j] = u
  BY Zenon, RangeElements
<1>4. /\ Position(ready_queue, t) = k
      /\ Position(ready_queue', t) = i /\ Position(ready_queue', u) = j
  BY Zenon, <1>1, <1>2, <1>3, PositionAt
<1>5. ASSUME j < i PROVE FALSE
  <2>1. PICK m \in 1 .. Len(ready_queue) : m < k /\ ready_queue[m] = u
    BY <1>1, <1>2, <1>3, <1>5 DEF Follows
  <2>2. u \in Range(ready_queue) /\ Position(ready_queue, u) = m
    BY Zenon, <2>1, RangeElements, PositionAt
  <2> QED
    BY <1>4, <2>1, <2>2
<1>6. i # j
  BY Zenon, <1>2, <1>3
<1> QED
  BY <1>4, <1>5, <1>6

(* scheduler_add_task at the tail.                                         *)
LEMMA AppendFollows ==
  ASSUME NEW q \in Seq(Tasks), IsInjective(q), NEW x \in Tasks, x \notin Range(q)
  PROVE  Follows(q, Append(q, x))
<1> DEFINE r == Append(q, x)
<1>1. /\ DOMAIN q = 1 .. Len(q) /\ Len(q) \in Nat /\ Len(r) = Len(q) + 1
      /\ \A i \in 1 .. Len(q) : r[i] = q[i]
      /\ r[Len(q) + 1] = x
  BY LenProperties, AppendProperties
<1> HIDE DEF r
<1> SUFFICES ASSUME NEW i \in 1 .. Len(r), NEW j \in 1 .. Len(r), NEW k \in 1 .. Len(q),
                    j < i, q[k] = r[i]
             PROVE  \E m \in 1 .. Len(q) : m < k /\ q[m] = r[j]
  BY Zenon DEF Follows, r
<1>2. q[k] # x
  BY Zenon, RangeElements
<1>3. i \in 1 .. Len(q) /\ j \in 1 .. Len(q)
  BY <1>1, <1>2
<1>4. k = i
  BY Zenon, <1>1, <1>3 DEF IsInjective
<1> QED
  BY Zenon, <1>1, <1>3, <1>4

(* scheduler_pick_next takes the head.                                     *)
LEMMA TailFollows ==
  ASSUME NEW q \in Seq(Tasks), IsInjective(q), q # <<>>
  PROVE  Follows(q, Tail(q))
<1> DEFINE r == Tail(q)
<1>1. /\ DOMAIN q = 1 .. Len(q) /\ Len(q) \in Nat /\ Len(r) = Len(q) - 1
      /\ \A i \in 1 .. Len(r) : r[i] = q[i + 1]
  BY Zenon, LenProperties, HeadTailProperties, EmptySeq
<1> HIDE DEF r
<1> SUFFICES ASSUME NEW i \in 1 .. Len(r), NEW j \in 1 .. Len(r), NEW k \in 1 .. Len(q),
                    j < i, q[k] = r[i]
             PROVE  \E m \in 1 .. Len(q) : m < k /\ q[m] = r[j]
  BY Zenon DEF Follows, r
<1>2. i + 1 \in 1 .. Len(q) /\ j + 1 \in 1 .. Len(q) /\ j + 1 < i + 1
  BY <1>1
<1>3. k = i + 1
  BY Zenon, <1>1, <1>2 DEF IsInjective
<1> QED
  BY Zenon, <1>1, <1>2, <1>3

(* task_destroy and task_exit unlink a task.                               *)
LEMMA WithoutFollows ==
  ASSUME NEW q \in Seq(Tasks), IsInjective(q), NEW x
  PROVE  Follows(q, Without(q, x))
<1>1. DOMAIN q = 1 .. Len(q) /\ Len(q) \in Nat
  BY Zenon, LenProperties
<1>2. ASSUME NEW c \in 1 .. Len(q) PROVE Follows(q, RemoveAt(q, c))
  <2> DEFINE r == RemoveAt(q, c)
  <2>1. Len(r) = Len(q) - 1 /\ \A i \in 1 .. Len(r) : r[i] = IF i < c THEN q[i] ELSE q[i + 1]
    BY Zenon, RemoveAtElements
  <2> HIDE DEF r
  <2> SUFFICES ASSUME NEW i \in 1 .. Len(r), NEW j \in 1 .. Len(r), NEW k \in 1 .. Len(q),
                      j < i, q[k] = r[i]
               PROVE  \E m \in 1 .. Len(q) : m < k /\ q[m] = r[j]
    BY Zenon DEF Follows, r
  <2> DEFINE at(h) == IF h < c THEN h ELSE h + 1
  <2>2. at(i) \in 1 .. Len(q) /\ at(j) \in 1 .. Len(q) /\ at(j) < at(i)
    BY <1>1, <2>1
  <2>3. r[i] = q[at(i)] /\ r[j] = q[at(j)]
    BY Zenon, <2>1
  <2> HIDE DEF at
  <2>4. k = at(i)
    BY Zenon, <1>1, <2>2, <2>3 DEF IsInjective
  <2> QED
    BY Zenon, <2>2, <2>3, <2>4
<1>3. Follows(q, q)
  <2> SUFFICES ASSUME NEW i \in 1 .. Len(q), NEW j \in 1 .. Len(q), NEW k \in 1 .. Len(q),
                      j < i, q[k] = q[i]
               PROVE  \E m \in 1 .. Len(q) : m < k /\ q[m] = q[j]
    BY DEF Follows
  <2> QED
    BY Zenon, <1>1 DEF IsInjective
<1> QED
  BY Zenon, <1>2, <1>3 DEF Without

(* scheduler_tick takes the head and puts the old task at the tail.        *)
LEMMA TurnFollows ==
  ASSUME NEW q \in Seq(Tasks), IsInjective(q), q # <<>>, NEW x \in Tasks, x \notin Range(q)
  PROVE  Follows(q, Append(Tail(q), x))
<1> DEFINE s == Tail(q)
           r == Append(s, x)
<1>1. s \in Seq(Tasks) /\ Follows(q, s)
  BY Zenon, TailRange, TailFollows
<1>2. /\ Len(q) \in Nat /\ Len(s) \in Nat /\ Len(r) = Len(s) + 1
      /\ \A i \in 1 .. Len(s) : r[i] = s[i]
      /\ r[Len(s) + 1] = x
  BY <1>1, LenProperties, AppendProperties
<1> HIDE DEF r, s
<1> SUFFICES ASSUME NEW i \in 1 .. Len(r), NEW j \in 1 .. Len(r), NEW k \in 1 .. Len(q),
                    j < i, q[k] = r[i]
             PROVE  \E m \in 1 .. Len(q) : m < k /\ q[m] = r[j]
  BY Zenon DEF Follows, r, s
<1>3. q[k] # x
  BY Zenon, RangeElements
<1>4. i \in 1 .. Len(s) /\ j \in 1 .. Len(s)
  BY <1>2, <1>3
<1> QED
  BY <1>1, <1>2, <1>4 DEF Follows

(* Whatever a step does, the ready queue it leaves follows the one before. *)
LEMMA StepFollows ==
  ASSUME IInv, [Next]_schedVars
  PROVE  Follows(ready_queue, ready_queue')
<1>1. /\ ready_queue \in Seq(Tasks) /\ IsInjective(ready_queue)
      /\ current_task \in Tasks /\ current_task \notin Range(ready_queue)
  BY Zenon DEF IInv, TypeOK, TypeQueue, QueuesConsistent
<1>2. CASE ready_queue' = ready_queue
  <2>1. Without(ready_queue, Null) = ready_queue
    BY Zenon, <1>1, SchedulerAssumption, ElementOfSeq DEF Without
  <2> QED
    BY Zenon, <1>1, <1>2, <2>1, WithoutFollows
<1>3. ASSUME NEW t, ready_queue' = Without(ready_queue, t) PROVE Follows(ready_queue, ready_queue')
  BY Zenon, <1>1, <1>3, WithoutFollows
<1>4. ASSUME NEW t \in Tasks, t \notin Range(ready_queue),
             ready_queue' = Append(ready_queue, t)
      PROVE  Follows(ready_queue, ready_queue')
  BY Zenon, <1>1, <1>4, AppendFollows
<1>5. CASE scheduler_check_sleeping_tasks
  <2>1. CASE UNCHANGED ready_queue
    BY Zenon, <1>2, <2>1
  <2>2. CASE ~ UNCHANGED ready_queue
    <3> DEFINE curr == sleep_queue[scan]
    <3>1. scan \in 1 .. Len(sleep_queue) /\ ready_queue' = Append(ready_queue, curr)
      BY <1>5, <2>2 DEF scheduler_check_sleeping_tasks, Enqueue, IInv, TypeOK, TypeTick
    <3>2. curr \in Range(sleep_queue) /\ curr \in Tasks
      BY <3>1, RangeElements DEF IInv, TypeOK, TypeQueue
    <3>3. curr \notin Range(ready_queue)
      BY Zenon, <3>2 DEF IInv, QueuesConsistent, NoDanglingTask
    <3> HIDE DEF curr
    <3> QED
      BY Zenon, <1>4, <3>1, <3>2, <3>3
  <2> QED
    BY Zenon, <2>1, <2>2
<1>6. CASE scheduler_tick
  <2>1. CASE ready_queue = <<>>
    <3>1. \/ ready_queue' = ready_queue
          \/ ready_queue' = Append(ready_queue, current_task)
      BY Zenon, <1>6, <2>1 DEF scheduler_tick, KeepRunning, SwitchTask, ResetSlice, AfterPick, Enqueue
    <3> QED
      BY Zenon, <1>1, <1>2, <1>4, <3>1
  <2>2. CASE ready_queue # <<>>
    <3>1. \/ ready_queue' = ready_queue
          \/ ready_queue' = Append(Tail(ready_queue), current_task)
          \/ ready_queue' = Tail(ready_queue)
      BY Zenon, <1>6, <2>2 DEF scheduler_tick, KeepRunning, SwitchTask, ResetSlice, AfterPick, Enqueue
    <3> QED
      BY Zenon, <1>1, <1>2, <2>2, <3>1, TurnFollows, TailFollows
  <2> QED
    BY Zenon, <2>1, <2>2
<1>7. CASE LeaveCPU
  <2>1. ready_queue' = ready_queue \/ ready_queue' = Without(ready_queue, current_task)
    BY Zenon, <1>7 DEF LeaveCPU, task_yield, task_block, task_exit, task_sleep
  <2> QED
    BY Zenon, <1>2, <1>3, <2>1
<1>8. ASSUME NEW t \in Tasks, scheduler_add_task(t) \/ task_unblock(t)
      PROVE  Follows(ready_queue, ready_queue')
  <2>1. t \notin Range(ready_queue)
    BY Zenon, <1>8 DEF scheduler_add_task, task_unblock, IInv, QueuesConsistent
  <2>2. ready_queue' = Append(ready_queue, t)
    BY Zenon, <1>8 DEF scheduler_add_task, task_unblock, MakeReady, Enqueue
  <2> QED
    BY Zenon, <1>4, <2>1, <2>2
<1>9. ASSUME NEW t, task_destroy(t) PROVE Follows(ready_queue, ready_queue')
  BY Zenon, <1>3, <1>9 DEF task_destroy
<1>10. CASE pit_handler \/ scheduler_reap_terminated
  BY Zenon, <1>2, <1>10 DEF pit_handler, scheduler_reap_terminated
<1>11. CASE task_return_error \/ task_create_nomem \/ HaltLoop \/ UNCHANGED schedVars
  BY Zenon, <1>2, <1>11 DEF task_return_error, task_create_nomem, HaltLoop, schedVars
<1>12. CASE \E t \in Tasks : task_create(t)
  BY Zenon, <1>2, <1>12 DEF task_create
<1>13. CASE \E t \in Tasks : DestroyOther(t) \/ cmd_pkill(t)
  BY Zenon, <1>9, <1>13 DEF DestroyOther, cmd_pkill
<1>14. CASE \E p \in Slots : cmd_kill(p)
  BY Zenon, <1>9, <1>14 DEF cmd_kill
<1> QED
  BY Zenon, <1>5, <1>6, <1>7, <1>8, <1>10, <1>11, <1>12, <1>13, <1>14 DEF Next, Kernel

(* Queues without repetition that follow one another keep their order.     *)
LEMMA StepFifo ==
  ASSUME IInv, IInv', [Next]_schedVars PROVE FifoStep
<1>1. /\ ready_queue \in Seq(Tasks) /\ IsInjective(ready_queue)
      /\ ready_queue' \in Seq(Tasks) /\ IsInjective(ready_queue')
  BY Zenon DEF IInv, TypeOK, TypeQueue, QueuesConsistent
<1> QED
  BY Zenon, <1>1, StepFollows, FollowsFifo

(* Round robin, whatever wakes, yields, exits or is killed: a task is      *)
(* never overtaken in the ready queue.                                     *)
THEOREM NeverOvertaken == ASSUME ~PkillIdle PROVE Spec => RoundRobin
<1>1. IInv /\ IInv' /\ [Next]_schedVars => [FifoStep]_schedVars
  BY Zenon, StepFifo
<1> QED
  BY <1>1, Inductive, PTL DEF Spec, RoundRobin
=============================================================================
