--------------------------- MODULE ConsoleProofs ---------------------------
(***************************************************************************)
(* The console, for ring and line buffers of any size and any keys: no     *)
(* wake-up is lost between tty_read and tty_input_char, and the ring is a  *)
(* queue that is read a line at a time.                                    *)
(***************************************************************************)
EXTENDS Console, SchedulerProofs

(* Where the shell is in tty_read or holds what it returned.               *)
Reading == {"scan", "wait", "block", "copy", "command"}

AnyChar == Chars \cup {Newline, "NUL"}

(* The three counters of the ring agree.                                   *)
RingOK ==
  /\ buffer \in [Positions -> AnyChar]
  /\ read_pos \in Positions /\ write_pos \in Positions
  /\ count \in 0 .. TTY_BUFFER_SIZE
  /\ write_pos = Wrap(read_pos + count)

(* Who waits, and where the shell is.  In particular, the shell leaves the *)
(* CPU inside tty_read only by blocking, so no key comes between its scan  *)
(* and its task_block.                                                     *)
ShellOK ==
  /\ shell_pc \in Reading \cup {"read", "panic", "gone"}
  /\ waiting_task \in {Null, Shell}
  /\ shell_pc \in Reading => pc = "run" /\ current_task = Shell
  /\ shell_pc # "gone" => Shell \in Live /\ state[Shell] # "TERMINATED"
  /\ state[Shell] = "BLOCKED" => waiting_task = Shell /\ shell_pc = "read"
  /\ waiting_task = Shell => shell_pc = "block" \/ state[Shell] = "BLOCKED"
  /\ shell_pc = "block" => waiting_task = Shell

(* Nothing to read when the shell has decided to block, or is blocked.     *)
QuietOK == shell_pc \in {"wait", "block"} \/ state[Shell] = "BLOCKED" => ~HasNewline

(* The scan has passed `checked' characters, none of them a newline.       *)
ScanOK ==
  shell_pc = "scan" =>
    /\ checked \in 0 .. count /\ temp_pos = Wrap(read_pos + checked)
    /\ \A i \in 1 .. checked : Contents[i] # Newline

(* The first newline of s is at i.                                         *)
FirstNewline(s, i) ==
  i \in 1 .. Len(s) /\ s[i] = Newline /\ \A j \in 1 .. i - 1 : s[j] # Newline

(* The copy has not gone past the first newline nor past the buffer.       *)
CopyOK ==
  /\ cmd_buffer \in Seq(AnyChar)
  /\ shell_pc = "copy" =>
       /\ Len(cmd_buffer) <= CMD_BUFFER_SIZE - 1
       /\ \E i \in 1 .. Len(cmd_buffer) + count :
            FirstNewline(cmd_buffer \o Contents, i) /\ Len(cmd_buffer) <= i
  /\ shell_pc = "command" => cmd_buffer # <<>>

CInv == IInv /\ RingOK /\ ShellOK /\ QuietOK /\ ScanOK /\ CopyOK

-----------------------------------------------------------------------------
(* The ring as a sequence. *)

(* Positions go round, and come back when the last character is erased.    *)
LEMMA WrapValue ==
  ASSUME NEW n \in -1 .. 2 * TTY_BUFFER_SIZE
  PROVE  Wrap(n) = IF n < 0 THEN n + TTY_BUFFER_SIZE
                   ELSE IF n < TTY_BUFFER_SIZE THEN n
                   ELSE IF n < 2 * TTY_BUFFER_SIZE THEN n - TTY_BUFFER_SIZE ELSE 0
<1> DEFINE N == TTY_BUFFER_SIZE
<1>1. N \in Nat /\ N >= 1 /\ n \in Int /\ -1 <= n /\ n <= 2 * N
  BY ConsoleAssumption
<1> HIDE DEF N
<1>2. \A x \in 0 .. N - 1 : x % N = x /\ (x + N) % N = x /\ (x + N + N) % N = x
  BY <1>1
<1>3. (0 + N + N + N) % N = 0
  BY <1>1
<1>4. Wrap(n) = (n + N) % N
  BY Zenon DEF Wrap, N
<1>5. CASE n < 0
  <2>1. n + N \in 0 .. N - 1
    BY <1>1, <1>5
  <2> QED
    BY Zenon, <1>1, <1>2, <1>4, <1>5, <2>1 DEF N
<1>6. CASE n >= 0 /\ n < N
  <2>1. n \in 0 .. N - 1
    BY <1>1, <1>6
  <2> QED
    BY <1>1, <1>2, <1>4, <1>6, <2>1 DEF N
<1>7. CASE n >= N /\ n < 2 * N
  <2>1. n - N \in 0 .. N - 1 /\ n + N = (n - N) + N + N
    BY <1>1, <1>7
  <2> QED
    BY <1>1, <1>2, <1>4, <1>7, <2>1 DEF N
<1>8. CASE n = 2 * N
  <2>1. n + N = 0 + N + N + N
    BY <1>1, <1>8
  <2> QED
    BY <1>1, <1>3, <1>4, <1>8, <2>1 DEF N
<1> QED
  BY <1>1, <1>5, <1>6, <1>7, <1>8 DEF N

(* The integers of the ring, and where a position lies.                    *)
LEMMA RingSizes ==
  ASSUME RingOK
  PROVE  /\ TTY_BUFFER_SIZE \in Nat /\ TTY_BUFFER_SIZE >= 1
         /\ read_pos \in Int /\ 0 <= read_pos /\ read_pos < TTY_BUFFER_SIZE
         /\ write_pos \in Int /\ 0 <= write_pos /\ write_pos < TTY_BUFFER_SIZE
         /\ count \in Nat /\ count <= TTY_BUFFER_SIZE
         /\ \A n \in 0 .. TTY_BUFFER_SIZE :
              Wrap(read_pos + n) = IF read_pos + n < TTY_BUFFER_SIZE THEN read_pos + n
                                   ELSE read_pos + n - TTY_BUFFER_SIZE
         /\ \A n \in 0 .. TTY_BUFFER_SIZE : Wrap(read_pos + n) \in Positions
<1>1. /\ TTY_BUFFER_SIZE \in Nat /\ TTY_BUFFER_SIZE >= 1
      /\ read_pos \in Int /\ 0 <= read_pos /\ read_pos < TTY_BUFFER_SIZE
      /\ write_pos \in Int /\ 0 <= write_pos /\ write_pos < TTY_BUFFER_SIZE
      /\ count \in Nat /\ count <= TTY_BUFFER_SIZE
  BY ConsoleAssumption DEF RingOK, Positions
<1>2. ASSUME NEW n \in 0 .. TTY_BUFFER_SIZE
      PROVE  Wrap(read_pos + n) = IF read_pos + n < TTY_BUFFER_SIZE THEN read_pos + n
                                  ELSE read_pos + n - TTY_BUFFER_SIZE
  <2>1. read_pos + n \in -1 .. 2 * TTY_BUFFER_SIZE
    BY <1>1
  <2> QED
    BY <1>1, <2>1, WrapValue
<1> QED
  BY <1>1, <1>2 DEF Positions

(* One position further along the ring.                                    *)
LEMMA WrapNext ==
  ASSUME RingOK, NEW k \in 0 .. TTY_BUFFER_SIZE - 1
  PROVE  Wrap(Wrap(read_pos + k) + 1) = Wrap(read_pos + (k + 1))
<1> DEFINE w == Wrap(read_pos + k)
<1>1. /\ TTY_BUFFER_SIZE \in Nat /\ TTY_BUFFER_SIZE >= 1 /\ read_pos \in Nat /\ k \in Nat
      /\ read_pos < TTY_BUFFER_SIZE /\ k < TTY_BUFFER_SIZE
  BY RingSizes
<1>2. k \in 0 .. TTY_BUFFER_SIZE /\ k + 1 \in 0 .. TTY_BUFFER_SIZE
  BY <1>1
<1>3. CASE read_pos + k < TTY_BUFFER_SIZE
  <2>1. w = read_pos + k
    BY Zenon, <1>2, <1>3, RingSizes
  <2>2. (read_pos + k) + 1 = read_pos + (k + 1)
    BY <1>1
  <2> QED
    BY Zenon, <2>1, <2>2
<1>4. CASE ~ (read_pos + k < TTY_BUFFER_SIZE)
  <2>1. w = read_pos + k - TTY_BUFFER_SIZE
    BY Zenon, <1>2, <1>4, RingSizes
  <2>2. ~ (read_pos + (k + 1) < TTY_BUFFER_SIZE)
    BY <1>1, <1>4
  <2>3. Wrap(read_pos + (k + 1)) = read_pos + (k + 1) - TTY_BUFFER_SIZE
    BY Zenon, <1>2, <2>2, RingSizes
  <2>4. /\ w + 1 \in -1 .. 2 * TTY_BUFFER_SIZE /\ ~ (w + 1 < 0) /\ w + 1 < TTY_BUFFER_SIZE
        /\ w + 1 = read_pos + (k + 1) - TTY_BUFFER_SIZE
    BY <1>1, <1>4, <2>1
  <2> HIDE DEF w
  <2>5. Wrap(w + 1) = w + 1
    BY Zenon, <2>4, WrapValue
  <2> QED
    BY Zenon, <2>3, <2>4, <2>5 DEF w
<1> QED
  BY Zenon, <1>3, <1>4

(* The ring holds a sequence of count characters.                          *)
LEMMA ContentsSeq ==
  ASSUME RingOK
  PROVE  /\ Contents \in Seq(AnyChar) /\ Len(Contents) = count
         /\ \A i \in 1 .. count : Contents[i] = buffer[Wrap(read_pos + i - 1)]
<1>1. ASSUME NEW i \in 1 .. count PROVE buffer[Wrap(read_pos + i - 1)] \in AnyChar
  <2>1. i - 1 \in 0 .. TTY_BUFFER_SIZE /\ read_pos + i - 1 = read_pos + (i - 1)
    BY RingSizes
  <2> QED
    BY Zenon, <2>1, RingSizes DEF RingOK
<1>2. Contents \in [1 .. count -> AnyChar]
  BY Zenon, <1>1 DEF Contents
<1>3. count \in Nat
  BY Zenon, RingSizes
<1> QED
  BY <1>2, <1>3 DEF Contents

(* tty_input_char appends.                                                 *)
LEMMA ContentsStore ==
  ASSUME RingOK, NEW c \in AnyChar, count < TTY_BUFFER_SIZE,
         buffer' = [buffer EXCEPT ![write_pos] = c], write_pos' = Wrap(write_pos + 1),
         count' = count + 1, read_pos' = read_pos
  PROVE  RingOK' /\ Contents' = Append(Contents, c)
<1> USE RingSizes
<1>1. write_pos = Wrap(read_pos + count)
  BY Zenon DEF RingOK
<1>2. Wrap(write_pos + 1) = Wrap(read_pos + (count + 1)) /\ Wrap(write_pos + 1) \in Positions
  <2>1. write_pos + 1 \in -1 .. 2 * TTY_BUFFER_SIZE
    OBVIOUS
  <2>2. count \in 0 .. TTY_BUFFER_SIZE /\ count + 1 \in 0 .. TTY_BUFFER_SIZE
    OBVIOUS
  <2>3. Wrap(write_pos + 1) = IF write_pos + 1 < TTY_BUFFER_SIZE THEN write_pos + 1 ELSE 0
    BY <2>1, WrapValue
  <2> QED
    BY <1>1, <2>2, <2>3
<1>3. RingOK'
  BY <1>2 DEF RingOK
<1>4. /\ Contents \in Seq(AnyChar) /\ Len(Contents) = count
      /\ Contents' \in Seq(AnyChar) /\ Len(Contents') = count + 1
      /\ \A i \in 1 .. count : Contents[i] = buffer[Wrap(read_pos + i - 1)]
      /\ \A i \in 1 .. count + 1 : Contents'[i] = buffer'[Wrap(read_pos + i - 1)]
  <2>1. (RingOK => /\ Contents \in Seq(AnyChar) /\ Len(Contents) = count
                   /\ \A i \in 1 .. count : Contents[i] = buffer[Wrap(read_pos + i - 1)])'
    BY <1>3, ContentsSeq, PTL
  <2> QED
    BY Zenon, <1>3, <2>1, ContentsSeq DEF Wrap
<1>5. /\ Append(Contents, c) \in Seq(AnyChar) /\ Len(Append(Contents, c)) = count + 1
      /\ \A i \in 1 .. count : Append(Contents, c)[i] = Contents[i]
      /\ Append(Contents, c)[count + 1] = c
  BY <1>4, AppendProperties
<1>6. ASSUME NEW i \in 1 .. count + 1 PROVE Contents'[i] = Append(Contents, c)[i]
  <2>1. i - 1 \in 0 .. TTY_BUFFER_SIZE /\ read_pos + i - 1 = read_pos + (i - 1)
    OBVIOUS
  <2>2. CASE i = count + 1
    <3>1. Wrap(read_pos + i - 1) = write_pos
      BY <1>1, <2>1, <2>2
    <3> QED
      BY Zenon, <1>4, <1>5, <2>2, <3>1 DEF RingOK
  <2>3. CASE i # count + 1
    <3>1. i \in 1 .. count /\ Wrap(read_pos + (i - 1)) # Wrap(read_pos + count)
      BY <2>1, <2>3
    <3> QED
      BY Zenon, <1>1, <1>4, <1>5, <2>1, <3>1 DEF RingOK
  <2> QED
    BY Zenon, <2>2, <2>3
<1> QED
  BY Zenon, <1>3, <1>4, <1>5, <1>6, SeqEqual

(* Backspace takes the last character back.                                *)
LEMMA ContentsErase ==
  ASSUME RingOK, count > 0, write_pos' = Wrap(write_pos - 1), count' = count - 1,
         read_pos' = read_pos, buffer' = buffer
  PROVE  RingOK' /\ Contents' = SubSeq(Contents, 1, count - 1)
<1> USE RingSizes
<1>1. Wrap(write_pos - 1) = Wrap(read_pos + (count - 1)) /\ Wrap(write_pos - 1) \in Positions
  <2>1. write_pos - 1 \in -1 .. 2 * TTY_BUFFER_SIZE
    OBVIOUS
  <2>2. count \in 0 .. TTY_BUFFER_SIZE /\ count - 1 \in 0 .. TTY_BUFFER_SIZE
    OBVIOUS
  <2>3. Wrap(write_pos - 1) = IF write_pos - 1 < 0 THEN TTY_BUFFER_SIZE - 1 ELSE write_pos - 1
    BY <2>1, WrapValue
  <2> QED
    BY <2>2, <2>3 DEF RingOK
<1>2. RingOK'
  BY <1>1 DEF RingOK
<1>3. Contents' = [i \in 1 .. count - 1 |-> buffer[Wrap(read_pos + i - 1)]]
  BY Zenon DEF Contents, Wrap
<1>4. \A i \in 1 .. count - 1 : Contents[i] \in AnyChar
  BY ContentsSeq
<1>5. /\ SubSeq(Contents, 1, count - 1) \in Seq(AnyChar)
      /\ Len(SubSeq(Contents, 1, count - 1)) = count - 1
      /\ \A i \in 1 .. count - 1 : SubSeq(Contents, 1, count - 1)[i] = Contents[i]
  BY <1>4, SubSeqProperties
<1> QED
  BY SMTT(30), <1>2, <1>3, <1>5, ContentsSeq, LenProperties

(* The copy takes the first one.                                           *)
LEMMA ContentsTake ==
  ASSUME RingOK, count > 0, read_pos' = Wrap(read_pos + 1), count' = count - 1,
         buffer' = buffer, write_pos' = write_pos
  PROVE  /\ RingOK' /\ Contents # <<>> /\ Contents' = Tail(Contents)
         /\ buffer[read_pos] = Contents[1] /\ buffer[read_pos] \in AnyChar
<1> USE RingSizes
<1>1. /\ read_pos' = IF read_pos + 1 < TTY_BUFFER_SIZE THEN read_pos + 1 ELSE 0
      /\ read_pos' \in Positions
  <2>1. 1 \in 0 .. TTY_BUFFER_SIZE
    OBVIOUS
  <2> QED
    BY <2>1
<1>2. \A n \in 0 .. count - 1 : Wrap(read_pos' + n) = Wrap(read_pos + (n + 1))
  <2> SUFFICES ASSUME NEW n \in 0 .. count - 1
               PROVE  Wrap(read_pos' + n) = Wrap(read_pos + (n + 1))
    BY Zenon
  <2>1. read_pos' + n \in -1 .. 2 * TTY_BUFFER_SIZE /\ n + 1 \in 0 .. TTY_BUFFER_SIZE
    BY <1>1
  <2>2. Wrap(read_pos' + n) = IF read_pos' + n < TTY_BUFFER_SIZE THEN read_pos' + n
                              ELSE read_pos' + n - TTY_BUFFER_SIZE
    BY <1>1, <2>1, WrapValue
  <2>3. Wrap(read_pos + (n + 1)) = IF read_pos + (n + 1) < TTY_BUFFER_SIZE THEN read_pos + (n + 1)
                                   ELSE read_pos + (n + 1) - TTY_BUFFER_SIZE
    BY Zenon, <2>1
  <2> QED
    BY SMTT(30), <1>1, <2>2, <2>3
<1>3. RingOK'
  <2>1. write_pos = Wrap(read_pos' + (count - 1))
    BY <1>2 DEF RingOK
  <2> QED
    BY <1>1, <2>1 DEF RingOK, Wrap
<1>4. Contents' = [i \in 1 .. count - 1 |-> buffer[Wrap(read_pos' + i - 1)]]
  BY Zenon DEF Contents, Wrap
<1>5. Contents # <<>> /\ Contents \in Seq(AnyChar) /\ Len(Contents) = count
  BY ContentsSeq
<1>6. /\ Tail(Contents) \in Seq(AnyChar) /\ Len(Tail(Contents)) = count - 1
      /\ \A i \in 1 .. count - 1 : Tail(Contents)[i] = Contents[i + 1]
  BY Zenon, <1>5, HeadTailProperties
<1>7. \A i \in 1 .. count - 1 : buffer[Wrap(read_pos' + i - 1)] = Contents[i + 1]
  <2> SUFFICES ASSUME NEW i \in 1 .. count - 1
               PROVE  buffer[Wrap(read_pos' + i - 1)] = Contents[i + 1]
    BY Zenon
  <2>1. /\ i - 1 \in 0 .. count - 1 /\ read_pos' + i - 1 = read_pos' + (i - 1)
        /\ i + 1 \in 1 .. count /\ read_pos + (i + 1) - 1 = read_pos + ((i - 1) + 1)
    BY <1>1
  <2> QED
    BY Zenon, <1>2, <2>1, ContentsSeq
<1>8. Contents' = Tail(Contents)
  <2>1. Tail(Contents) \in [1 .. count - 1 -> AnyChar]
    BY Zenon, <1>6, LenProperties
  <2> QED
    BY Zenon, <1>4, <1>6, <1>7, <2>1
<1>9. buffer[read_pos] = Contents[1] /\ buffer[read_pos] \in AnyChar
  <2>1. 0 \in 0 .. TTY_BUFFER_SIZE /\ 1 \in 1 .. count /\ read_pos + 1 - 1 = read_pos + 0
        /\ read_pos + 0 = read_pos
    OBVIOUS
  <2>2. Wrap(read_pos + 1 - 1) = read_pos
    BY Zenon, <2>1
  <2> QED
    BY Zenon, <2>1, <2>2, ContentsSeq DEF RingOK
<1> QED
  BY Zenon, <1>3, <1>5, <1>8, <1>9

-----------------------------------------------------------------------------
(* What the scheduler does to the shell. *)

(* Only task_unblock ends a BLOCKED state, only task_exit a task, and a    *)
(* task that runs keeps the CPU.                                           *)
LEMMA KernelShell ==
  ASSUME IInv, pit_handler \/ Kernel \/ HaltLoop
  PROVE  /\ IInv'
         /\ state'[Shell] = "BLOCKED" <=> state[Shell] = "BLOCKED"
         /\ Shell \in Live /\ state[Shell] # "TERMINATED"
              => Shell \in Live' /\ state'[Shell] # "TERMINATED"
         /\ pc = "run" /\ current_task = Shell => UNCHANGED <<pc, current_task>>
<1> USE SchedulerAssumption
<1>1. /\ state \in [Tasks -> TaskState] /\ current_task \in Tasks
      /\ ready_queue \in Seq(Tasks) /\ sleep_queue \in Seq(Tasks) /\ scan \in Nat \ {0}
      /\ task_table \in [Slots -> Tasks \cup {Null}]
  BY Zenon DEF IInv, TypeOK, TypeTable, TypeTask, TypeQueue, TypeTick
<1>2. CASE pit_handler
  <2>1. IInv' /\ UNCHANGED <<state, task_table, task_table_capacity>>
    BY Zenon, <1>2, PitHandlerIInv DEF pit_handler, tableVars
  <2>2. current_task # Shell
    BY Zenon, <1>2 DEF pit_handler, Deliverable, IInv, InterruptsOnlyInIdle
  <2> QED
    BY Zenon, <2>1, <2>2, LiveKept
<1>3. CASE scheduler_check_sleeping_tasks
  <2>1. IInv' /\ pc # "run" /\ UNCHANGED <<task_table, task_table_capacity>>
    BY Zenon, <1>3, CheckSleepingIInv DEF scheduler_check_sleeping_tasks, tableVars
  <2>2. Live' = Live
    BY Zenon, <2>1, LiveKept
  <2>3. sleep_queue[scan] \in Range(sleep_queue)
    <3>1. scan \in 1 .. Len(sleep_queue)
      BY <1>1, <1>3 DEF scheduler_check_sleeping_tasks
    <3> QED
      BY Zenon, <1>1, <3>1, RangeElements
  <2>4. state[sleep_queue[scan]] = "SLEEPING"
    BY Zenon, <2>3 DEF IInv, QueuesConsistent, NoDanglingTask
  <2>5. state'[Shell] = state[Shell] \/ (state[Shell] = "SLEEPING" /\ state'[Shell] = "READY")
    BY Zenon, <1>1, <1>3, <2>4 DEF scheduler_check_sleeping_tasks
  <2> QED
    BY Zenon, <2>1, <2>2, <2>5
<1>4. CASE scheduler_reap_terminated
  <2>1. IInv' /\ pc # "run" /\ UNCHANGED <<state, task_table_capacity>>
    BY Zenon, <1>4, ReapIInv DEF scheduler_reap_terminated
  <2>2. Shell \in Live /\ state[Shell] # "TERMINATED" => Shell \in Live'
    BY Zenon, <1>1, <1>4, <2>1 DEF scheduler_reap_terminated, Live, Slots, Reaped
  <2> QED
    BY Zenon, <2>1, <2>2
<1>5. CASE scheduler_tick
  <2>1. IInv' /\ pc # "run" /\ UNCHANGED <<task_table, task_table_capacity>>
    BY Zenon, <1>5, TickIInv DEF scheduler_tick, tableVars
  <2>2. Live' = Live
    BY <2>1, LiveKept
  <2>3. Picked = Shell => state[Shell] = "READY"
    <3>1. ready_queue # <<>> => Head(ready_queue) \in Range(ready_queue)
      BY Zenon, <1>1, TailRange
    <3> QED
      BY Zenon, <3>1 DEF Picked, IInv, QueuesConsistent
  <2>4. \/ state'[Shell] = state[Shell]
        \/ state[Shell] \in {"READY", "RUNNING"} /\ state'[Shell] \in {"READY", "RUNNING"}
    BY Zenon, <1>1, <1>5, <2>3 DEF scheduler_tick, KeepRunning, SwitchTask, ResetSlice
  <2> QED
    BY Zenon, <2>1, <2>2, <2>4
<1>6. CASE HaltLoop
  <2>1. IInv' /\ UNCHANGED <<pc, current_task, state, task_table, task_table_capacity>>
    BY Zenon, <1>6, HaltIInv DEF HaltLoop, schedVars
  <2> QED
    BY Zenon, <2>1, LiveKept
<1> QED
  BY Zenon, <1>2, <1>3, <1>4, <1>5, <1>6 DEF Kernel

(* A step that leaves the scheduler alone.                                 *)
LEMMA SchedSame ==
  ASSUME IInv, UNCHANGED schedVars
  PROVE  IInv' /\ Live' = Live /\ UNCHANGED <<pc, current_task, state>>
<1>1. UNCHANGED <<pc, current_task, state, task_table, task_table_capacity>>
  BY Zenon DEF schedVars
<1> QED
  BY Zenon, <1>1, HaltIInv, LiveKept

(* The shell runs in its own steps.                                        *)
LEMMA ShellRuns ==
  ASSUME CInv, InShell
  PROVE  /\ pc = "run" /\ current_task = Shell /\ state[Shell] = "RUNNING" /\ Shell \in Live
         /\ state \in [Tasks -> TaskState] /\ Shell \in Tasks
         /\ waiting_task = Shell => shell_pc = "block"
<1>1. pc = "run" /\ current_task = Shell
  BY Zenon DEF InShell, InTask
<1>2. state[Shell] = "RUNNING" /\ Shell \in Live /\ state \in [Tasks -> TaskState]
  BY Zenon, <1>1 DEF CInv, IInv, RunningIsCurrent, NoDanglingTask, TypeOK, TypeTask
<1> QED
  BY Zenon, <1>1, <1>2, SchedulerAssumption DEF CInv, ShellOK

-----------------------------------------------------------------------------
(* The steps keep the invariant. *)

(* At the start the ring is empty and the shell is ready.                  *)
LEMMA InitCInv == ConsoleInit => CInv
<1> SUFFICES ASSUME ConsoleInit PROVE CInv
  BY Zenon
<1>1. IInv
  BY Zenon, InitIInv DEF ConsoleInit
<1>2. TTY_BUFFER_SIZE \in Nat /\ TTY_BUFFER_SIZE >= 1
  BY ConsoleAssumption
<1>3. Wrap(0) = 0
  BY <1>2, WrapValue
<1>4. RingOK
  BY <1>2, <1>3 DEF ConsoleInit, RingOK, Positions, AnyChar
<1>5. state[Shell] = "READY" /\ Shell \in Live
  <2>1. task_table[1] = Shell /\ 1 \in Slots
    BY SchedulerAssumption DEF ConsoleInit, Init, Slots
  <2> QED
    BY Zenon, <2>1, SchedulerAssumption DEF ConsoleInit, Init, Live
<1>6. ShellOK /\ QuietOK /\ ScanOK /\ CopyOK
  BY <1>5, SchedulerAssumption DEF ConsoleInit, ShellOK, QuietOK, ScanOK, CopyOK, Reading
<1> QED
  BY Zenon, <1>1, <1>4, <1>6 DEF CInv

(* A step that leaves the terminal and tty_read where they are.            *)
LEMMA RingSame ==
  ASSUME CInv, UNCHANGED <<buffer, read_pos, write_pos, count>>
  PROVE  RingOK' /\ Contents' = Contents /\ HasNewline' = HasNewline
<1>1. Contents' = Contents
  BY Zenon DEF Contents, Wrap
<1> QED
  BY Zenon, <1>1 DEF CInv, RingOK, HasNewline, Wrap

(* The scheduler moves tasks about, but neither takes the CPU from the     *)
(* shell inside tty_read nor wakes it.                                     *)
LEMMA InKernelStep == CInv /\ InKernel => CInv'
<1> SUFFICES ASSUME CInv, InKernel PROVE CInv'
  BY Zenon
<1>1. /\ UNCHANGED <<buffer, read_pos, write_pos, count, waiting_task, shell_pc, temp_pos,
                     checked, cmd_buffer>>
      /\ pit_handler \/ Kernel \/ HaltLoop
  BY Zenon DEF InKernel, ttyVars, readVars
<1>2. RingOK' /\ Contents' = Contents /\ HasNewline' = HasNewline
  BY Zenon, <1>1, RingSame
<1>3. /\ IInv'
      /\ state'[Shell] = "BLOCKED" <=> state[Shell] = "BLOCKED"
      /\ Shell \in Live /\ state[Shell] # "TERMINATED"
           => Shell \in Live' /\ state'[Shell] # "TERMINATED"
      /\ pc = "run" /\ current_task = Shell => UNCHANGED <<pc, current_task>>
  BY Zenon, <1>1, KernelShell DEF CInv
<1>4. ShellOK'
  BY Zenon, <1>1, <1>3 DEF CInv, ShellOK
<1>5. QuietOK'
  BY Zenon, <1>1, <1>2, <1>3 DEF CInv, QuietOK
<1>6. ScanOK' /\ CopyOK'
  BY Zenon, <1>1, <1>2 DEF CInv, ScanOK, CopyOK, Wrap, FirstNewline
<1> QED
  BY Zenon, <1>2, <1>3, <1>4, <1>5, <1>6 DEF CInv

(* A key: the CPU takes interrupts, so the shell is not inside tty_read.   *)
LEMMA KeyFacts ==
  ASSUME CInv, Deliverable
  PROVE  /\ shell_pc \notin Reading /\ shell_pc \in {"read", "panic", "gone"}
         /\ state[Shell] = "BLOCKED" <=> waiting_task = Shell
         /\ waiting_task = Shell => shell_pc = "read" /\ Shell \in Live
         /\ waiting_task \in {Null, Shell} /\ Null # Shell /\ Shell \in Tasks
<1>1. pc = "run" /\ current_task = IdleTask /\ IdleTask # Shell
  BY Zenon, SchedulerAssumption DEF CInv, IInv, InterruptsOnlyInIdle, Deliverable
<1> QED
  BY Zenon, <1>1, SchedulerAssumption DEF CInv, ShellOK, Reading

(* What a key does to the ring: nothing, one character more or one less.   *)
LEMMA KeyRing ==
  ASSUME CInv, NEW key \in Keys, keyboard_handler(key)
  PROVE  /\ RingOK'
         /\ \/ Contents' = Contents
            \/ count < TTY_BUFFER_SIZE /\ \E c \in Chars \cup {Newline} : Contents' = Append(Contents, c)
            \/ count > 0 /\ Contents' = SubSeq(Contents, 1, count - 1)
<1>1. RingOK
  BY Zenon DEF CInv
<1>2. ASSUME UNCHANGED <<buffer, read_pos, write_pos, count>>
      PROVE  RingOK' /\ Contents' = Contents
  BY Zenon, <1>2, RingSame
<1>3. ASSUME NEW c \in Chars \cup {Newline}, tty_input_char(c)
      PROVE  /\ RingOK'
             /\ \/ Contents' = Contents
                \/ count < TTY_BUFFER_SIZE /\ Contents' = Append(Contents, c)
  <2>1. c \in AnyChar
    BY Zenon DEF AnyChar
  <2>2. CASE count < TTY_BUFFER_SIZE
    BY Zenon, <1>1, <1>3, <2>1, <2>2, ContentsStore DEF tty_input_char, StoreChar
  <2>3. CASE ~ (count < TTY_BUFFER_SIZE)
    BY Zenon, <1>2, <1>3, <2>3 DEF tty_input_char, StoreChar
  <2> QED
    BY Zenon, <2>2, <2>3
<1>4. CASE key = "backspace"
  <2>1. EraseChar
    BY Zenon, <1>4 DEF keyboard_handler
  <2>2. CASE count > 0
    BY Zenon, <1>1, <2>1, <2>2, ContentsErase DEF EraseChar
  <2>3. CASE ~ (count > 0)
    BY Zenon, <1>2, <2>1, <2>3 DEF EraseChar
  <2> QED
    BY Zenon, <2>2, <2>3
<1>5. CASE key = "enter"
  BY Zenon, <1>3, <1>5 DEF keyboard_handler
<1>6. CASE key = "key"
  <2>1. PICK c \in Chars : tty_input_char(c)
    BY Zenon, <1>6 DEF keyboard_handler, Chars
  <2> QED
    BY Zenon, <1>3, <2>1
<1>7. CASE key \in {"shift", "unshift", "other"}
  <2>1. UNCHANGED <<buffer, read_pos, write_pos, count>>
    BY Zenon, <1>7 DEF keyboard_handler, ttyVars
  <2> QED
    BY Zenon, <1>2, <2>1
<1> QED
  BY Zenon, <1>4, <1>5, <1>6, <1>7, ConsoleAssumption

(* A key other than enter brings no newline.                               *)
LEMMA NoNewline ==
  ASSUME RingOK, RingOK', ~HasNewline,
         \/ Contents' = Contents
         \/ \E c \in Chars : Contents' = Append(Contents, c)
         \/ count > 0 /\ Contents' = SubSeq(Contents, 1, count - 1)
  PROVE  ~HasNewline'
<1>1. Contents \in Seq(AnyChar) /\ Len(Contents) = count /\ count \in Nat
  BY Zenon, ContentsSeq, RingSizes
<1>2. Len(Contents') = count' /\ count' \in Nat
  <2>1. (RingOK => Len(Contents) = count /\ count \in Nat)'
    BY ContentsSeq, RingSizes, PTL
  <2> QED
    BY Zenon, <2>1
<1>3. \A i \in 1 .. count : Contents[i] # Newline
  BY Zenon DEF HasNewline
<1>4. \A i \in 1 .. count' : Contents'[i] # Newline
  <2>1. CASE Contents' = Contents
    BY Zenon, <1>1, <1>2, <1>3, <2>1
  <2>2. CASE \E c \in Chars : Contents' = Append(Contents, c)
    <3>1. PICK c \in Chars : Contents' = Append(Contents, c)
      BY Zenon, <2>2
    <3>2. c \in AnyChar /\ c # Newline
      BY Zenon DEF Chars, Newline, AnyChar
    <3>3. /\ count' = count + 1 /\ Contents'[count + 1] = c
          /\ \A i \in 1 .. count : Contents'[i] = Contents[i]
      BY <1>1, <1>2, <3>1, <3>2, AppendProperties
    <3> QED
      BY <1>1, <1>3, <3>2, <3>3
  <2>3. CASE count > 0 /\ Contents' = SubSeq(Contents, 1, count - 1)
    <3>1. \A i \in 1 .. count - 1 : Contents[i] \in AnyChar
      BY <1>1, ElementOfSeq
    <3>2. /\ count' = count - 1
          /\ \A i \in 1 .. count - 1 : Contents'[i] = Contents[i]
      BY <1>1, <1>2, <2>3, <3>1, SubSeqProperties
    <3> QED
      BY <1>1, <1>3, <3>2
  <2> QED
    BY Zenon, <2>1, <2>2, <2>3
<1> QED
  BY Zenon, <1>4 DEF HasNewline

(* After a key the reader is blocked only if it was, is still registered   *)
(* and has nothing to read.                                                *)
LEMMA KeyStep ==
  ASSUME CInv, NEW key \in Keys, keyboard_handler(key)
  PROVE  CInv'
<1>1. Deliverable /\ UNCHANGED <<shell_pc, temp_pos, checked, cmd_buffer>>
  BY Zenon DEF keyboard_handler, readVars
<1>2. /\ shell_pc \notin Reading /\ shell_pc \in {"read", "panic", "gone"}
      /\ state[Shell] = "BLOCKED" <=> waiting_task = Shell
      /\ waiting_task = Shell => shell_pc = "read" /\ Shell \in Live
      /\ waiting_task \in {Null, Shell} /\ Null # Shell /\ Shell \in Tasks
  BY Zenon, <1>1, KeyFacts
<1>3. RingOK' /\ IInv /\ ShellOK /\ QuietOK
  BY Zenon, KeyRing DEF CInv
<1>4. ScanOK' /\ CopyOK'
  BY Zenon, <1>1, <1>2 DEF CInv, ScanOK, CopyOK, Reading
<1>5. ASSUME UNCHANGED <<waiting_task, schedVars>>,
             state[Shell] = "BLOCKED" /\ ~HasNewline => ~HasNewline'
      PROVE  CInv'
  <2>1. IInv' /\ Live' = Live /\ UNCHANGED <<pc, current_task, state>>
    BY Zenon, <1>3, <1>5, SchedSame
  <2>2. ShellOK'
    BY Zenon, <1>1, <1>3, <1>5, <2>1 DEF ShellOK
  <2>3. QuietOK'
    BY Zenon, <1>1, <1>2, <1>3, <1>5, <2>1 DEF QuietOK, Reading
  <2> QED
    BY Zenon, <1>3, <1>4, <2>1, <2>2, <2>3 DEF CInv
<1>6. CASE key = "enter"
  <2>1. WakeReader
    BY Zenon, <1>6 DEF keyboard_handler, tty_input_char
  <2>2. CASE waiting_task = Null
    BY Zenon, <1>2, <1>5, <2>1, <2>2 DEF WakeReader
  <2>3. CASE waiting_task = Shell
    <3>1. waiting_task' = Null /\ task_unblock(Shell)
      BY Zenon, <1>2, <2>1, <2>3 DEF WakeReader
    <3>2. IInv'
      BY Zenon, <1>2, <1>3, <3>1, MakeReadyIInv
    <3>3. /\ state' = [state EXCEPT ![Shell] = "READY"]
          /\ UNCHANGED <<task_table, task_table_capacity, pc, current_task>>
      BY Zenon, <3>1 DEF task_unblock, MakeReady, tableVars, tickVars
    <3>4. state'[Shell] = "READY" /\ Live' = Live
      BY Zenon, <1>2, <1>3, <3>3, LiveKept DEF IInv, TypeOK, TypeTask
    <3>5. ShellOK' /\ QuietOK'
      BY Zenon, <1>1, <1>2, <2>3, <3>1, <3>3, <3>4 DEF ShellOK, QuietOK, Reading
    <3> QED
      BY Zenon, <1>3, <1>4, <3>2, <3>5 DEF CInv
  <2> QED
    BY Zenon, <1>2, <2>2, <2>3
<1>7. CASE key = "key"
  <2>1. PICK c \in Chars : tty_input_char(c)
    BY <1>7 DEF keyboard_handler, Chars
  <2>2. c # Newline /\ c \in AnyChar
    BY Zenon DEF Chars, Newline, AnyChar
  <2>3. UNCHANGED <<waiting_task, schedVars>>
    BY Zenon, <2>1, <2>2 DEF tty_input_char
  <2>4. Contents' = Contents \/ Contents' = Append(Contents, c)
    <3>1. CASE count < TTY_BUFFER_SIZE
      BY Zenon, <2>1, <2>2, <3>1, ContentsStore DEF tty_input_char, StoreChar, CInv
    <3>2. CASE ~ (count < TTY_BUFFER_SIZE)
      BY Zenon, <2>1, <3>2, RingSame DEF tty_input_char, StoreChar
    <3> QED
      BY Zenon, <3>1, <3>2
  <2>5. ~HasNewline => ~HasNewline'
    BY Zenon, <1>3, <2>4, NoNewline DEF CInv
  <2> QED
    BY Zenon, <1>5, <2>3, <2>5
<1>8. CASE key = "backspace"
  <2>1. EraseChar
    BY <1>8 DEF keyboard_handler
  <2>2. Contents' = Contents \/ (count > 0 /\ Contents' = SubSeq(Contents, 1, count - 1))
    <3>1. CASE count > 0
      BY Zenon, <2>1, <3>1, ContentsErase DEF EraseChar, CInv
    <3>2. CASE ~ (count > 0)
      BY Zenon, <2>1, <3>2, RingSame DEF EraseChar
    <3> QED
      BY Zenon, <3>1, <3>2
  <2>3. ~HasNewline => ~HasNewline'
    BY Zenon, <1>3, <2>2, NoNewline DEF CInv
  <2> QED
    BY Zenon, <1>5, <2>1, <2>3 DEF EraseChar
<1>9. CASE key \in {"shift", "unshift", "other"}
  <2>1. UNCHANGED <<buffer, read_pos, write_pos, count, waiting_task, schedVars>>
    BY Zenon, <1>9 DEF keyboard_handler, ttyVars
  <2> QED
    BY Zenon, <1>5, <2>1, RingSame
<1> QED
  BY Zenon, <1>6, <1>7, <1>8, <1>9, ConsoleAssumption

-----------------------------------------------------------------------------
(* tty_read and the shell. *)

(* tty_read begins its scan at read_pos.                                   *)
LEMMA ReadStartStep == CInv /\ ReadStart => CInv'
<1> SUFFICES ASSUME CInv, ReadStart PROVE CInv'
  OBVIOUS
<1>1. /\ InShell /\ shell_pc = "read" /\ shell_pc' = "scan" /\ checked' = 0 /\ temp_pos' = read_pos
      /\ UNCHANGED <<schedVars, buffer, read_pos, write_pos, count, waiting_task, cmd_buffer>>
  BY Zenon DEF ReadStart, Quiet, ttyVars
<1>2. RingOK' /\ Contents' = Contents /\ HasNewline' = HasNewline
  BY Zenon, <1>1, RingSame
<1>3. IInv' /\ Live' = Live /\ UNCHANGED <<pc, current_task, state>>
  BY Zenon, <1>1, SchedSame DEF CInv
<1>4. pc = "run" /\ current_task = Shell /\ state[Shell] = "RUNNING" /\ waiting_task # Shell
  BY Zenon, <1>1, ShellRuns
<1>5. ShellOK' /\ QuietOK'
  BY Zenon, <1>1, <1>3, <1>4 DEF CInv, ShellOK, QuietOK, Reading
<1>6. ScanOK'
  <2>1. count \in Nat /\ 0 \in 0 .. TTY_BUFFER_SIZE /\ read_pos + 0 = read_pos
        /\ Wrap(read_pos + 0) = read_pos
    BY RingSizes DEF CInv
  <2> QED
    BY <1>1, <2>1 DEF ScanOK, Wrap
<1>7. CopyOK'
  BY Zenon, <1>1 DEF CInv, CopyOK
<1> QED
  BY Zenon, <1>2, <1>3, <1>5, <1>6, <1>7 DEF CInv

(* The scan stops at the first newline, or has seen that there is none.    *)
LEMMA ReadScanStep == CInv /\ ReadScan => CInv'
<1> SUFFICES ASSUME CInv, ReadScan PROVE CInv'
  OBVIOUS
<1>1. /\ InShell /\ shell_pc = "scan"
      /\ UNCHANGED <<schedVars, buffer, read_pos, write_pos, count, waiting_task>>
  BY Zenon DEF ReadScan, Quiet, ttyVars
<1>2. RingOK' /\ Contents' = Contents /\ HasNewline' = HasNewline
  BY Zenon, <1>1, RingSame
<1>3. IInv' /\ Live' = Live /\ UNCHANGED <<pc, current_task, state>>
  BY Zenon, <1>1, SchedSame DEF CInv
<1>4. pc = "run" /\ current_task = Shell /\ state[Shell] = "RUNNING" /\ waiting_task # Shell
  BY Zenon, <1>1, ShellRuns
<1>5. /\ checked \in 0 .. count /\ temp_pos = Wrap(read_pos + checked)
      /\ \A i \in 1 .. checked : Contents[i] # Newline
  BY Zenon, <1>1 DEF CInv, ScanOK
<1>6. /\ TTY_BUFFER_SIZE \in Nat /\ TTY_BUFFER_SIZE >= 1 /\ read_pos \in Int /\ 0 <= read_pos
      /\ read_pos < TTY_BUFFER_SIZE /\ count \in Nat /\ count <= TTY_BUFFER_SIZE
      /\ Contents \in Seq(AnyChar) /\ Len(Contents) = count
      /\ \A i \in 1 .. count : Contents[i] = buffer[Wrap(read_pos + i - 1)]
  BY Zenon, RingSizes, ContentsSeq DEF CInv
<1>7. checked < count => checked + 1 \in 1 .. count /\ Contents[checked + 1] = buffer[temp_pos]
  <2>1. checked < count => checked + 1 \in 1 .. count /\ read_pos + (checked + 1) - 1 = read_pos + checked
    BY <1>5, <1>6
  <2> QED
    BY Zenon, <1>5, <1>6, <2>1
<1>8. CASE /\ checked < count /\ buffer[temp_pos] = Newline
           /\ shell_pc' = "copy" /\ cmd_buffer' = <<>>
  <2>1. ShellOK' /\ QuietOK' /\ ScanOK'
    BY Zenon, <1>1, <1>3, <1>4, <1>8 DEF CInv, ShellOK, QuietOK, ScanOK, Reading
  <2>2. <<>> \o Contents = Contents /\ <<>> \in Seq(AnyChar) /\ Len(<<>>) = 0
    BY SMTT(30), <1>6, ConcatEmptySeq
  <2>3. FirstNewline(Contents, checked + 1)
    BY <1>5, <1>6, <1>7, <1>8 DEF FirstNewline
  <2>4. 0 <= CMD_BUFFER_SIZE - 1
    BY ConsoleAssumption
  <2>5. CopyOK'
    <3>1. /\ checked + 1 \in 1 .. 0 + count /\ 0 <= checked + 1
          /\ FirstNewline(cmd_buffer' \o Contents', checked + 1)
      BY <1>2, <1>5, <1>6, <1>7, <1>8, <2>2, <2>3
    <3> QED
      BY Zenon, <1>1, <1>8, <2>2, <2>4, <3>1 DEF CopyOK, FirstNewline
  <2> QED
    BY Zenon, <1>2, <1>3, <2>1, <2>5 DEF CInv
<1>9. CASE /\ checked < count /\ buffer[temp_pos] # Newline
           /\ temp_pos' = Wrap(temp_pos + 1) /\ checked' = checked + 1
           /\ UNCHANGED <<shell_pc, cmd_buffer>>
  <2>1. ShellOK' /\ QuietOK' /\ CopyOK'
    BY Zenon, <1>1, <1>3, <1>4, <1>9 DEF CInv, ShellOK, QuietOK, CopyOK, Reading
  <2>2. Wrap(temp_pos + 1) = Wrap(read_pos + (checked + 1))
    <3>1. checked \in 0 .. TTY_BUFFER_SIZE /\ checked + 1 \in 0 .. TTY_BUFFER_SIZE
      BY <1>5, <1>6, <1>9
    <3>2. temp_pos = Wrap(read_pos + checked) /\ checked \in 0 .. TTY_BUFFER_SIZE - 1
      BY <1>5, <1>6, <1>9
    <3> QED
      BY Zenon, <3>2, WrapNext DEF CInv
  <2>3. checked + 1 \in 0 .. count /\ \A i \in 1 .. checked + 1 : Contents[i] # Newline
    BY <1>5, <1>6, <1>7, <1>9
  <2>4. ScanOK'
    BY Zenon, <1>1, <1>2, <1>9, <2>2, <2>3 DEF ScanOK, Wrap
  <2> QED
    BY Zenon, <1>2, <1>3, <2>1, <2>4 DEF CInv
<1>10. CASE checked >= count /\ shell_pc' = "wait" /\ UNCHANGED readVars
  <2>1. ~HasNewline
    BY SMTT(30), <1>5, <1>6, <1>10 DEF HasNewline
  <2>2. ShellOK' /\ QuietOK' /\ ScanOK' /\ CopyOK'
    BY Zenon, <1>1, <1>2, <1>3, <1>4, <1>10, <2>1
       DEF CInv, ShellOK, QuietOK, ScanOK, CopyOK, Reading, readVars
  <2> QED
    BY Zenon, <1>2, <1>3, <2>2 DEF CInv
<1> QED
  BY Zenon, <1>8, <1>9, <1>10 DEF ReadScan

(* tty_read registers the shell as the one to wake.                        *)
LEMMA ReadWaitStep == CInv /\ ReadWait => CInv'
<1> SUFFICES ASSUME CInv, ReadWait PROVE CInv'
  OBVIOUS
<1>1. /\ InShell /\ shell_pc = "wait" /\ shell_pc' = "block" /\ waiting_task' = current_task
      /\ UNCHANGED <<schedVars, buffer, read_pos, write_pos, count, temp_pos, checked, cmd_buffer>>
  BY Zenon DEF ReadWait, readVars
<1>2. RingOK' /\ Contents' = Contents /\ HasNewline' = HasNewline
  BY Zenon, <1>1, RingSame
<1>3. IInv' /\ Live' = Live /\ UNCHANGED <<pc, current_task, state>>
  BY Zenon, <1>1, SchedSame DEF CInv
<1>4. pc = "run" /\ current_task = Shell /\ state[Shell] = "RUNNING"
  BY Zenon, <1>1, ShellRuns
<1>5. ShellOK' /\ QuietOK' /\ ScanOK' /\ CopyOK'
  BY Zenon, <1>1, <1>2, <1>3, <1>4 DEF CInv, ShellOK, QuietOK, ScanOK, CopyOK, Reading
<1> QED
  BY <1>2, <1>3, <1>5 DEF CInv

(* task_block, with the shell registered and no newline in the ring.       *)
LEMMA ReadBlockStep == CInv /\ ReadBlock => CInv'
<1> SUFFICES ASSUME CInv, ReadBlock PROVE CInv'
  OBVIOUS
<1>1. /\ InShell /\ shell_pc = "block" /\ shell_pc' = "read" /\ task_block
      /\ UNCHANGED <<buffer, read_pos, write_pos, count, waiting_task, temp_pos, checked, cmd_buffer>>
  BY Zenon DEF ReadBlock, readVars, ttyVars
<1>2. RingOK' /\ Contents' = Contents /\ HasNewline' = HasNewline
  BY Zenon, <1>1, RingSame
<1>3. IInv' /\ UNCHANGED <<task_table, task_table_capacity>>
  BY Zenon, <1>1, LeaveCPUIInv DEF CInv, LeaveCPU, task_block, GiveUp, tableVars
<1>4. /\ pc = "run" /\ current_task = Shell /\ Shell \in Live
      /\ state \in [Tasks -> TaskState] /\ Shell \in Tasks
  BY Zenon, <1>1, ShellRuns
<1>5. state'[Shell] = "BLOCKED" /\ Live' = Live
  BY Zenon, <1>1, <1>3, <1>4, LiveKept DEF task_block
<1>6. ShellOK' /\ QuietOK' /\ ScanOK' /\ CopyOK'
  BY Zenon, <1>1, <1>2, <1>4, <1>5 DEF CInv, ShellOK, QuietOK, ScanOK, CopyOK, Reading
<1> QED
  BY Zenon, <1>2, <1>3, <1>6 DEF CInv

(* Moving one character from the ring to the caller's buffer.              *)
LEMMA MoveOne ==
  ASSUME NEW S, NEW a \in Seq(S), NEW b \in Seq(S), b # <<>>
  PROVE  /\ Append(a, b[1]) \in Seq(S) /\ Len(Append(a, b[1])) = Len(a) + 1
         /\ Append(a, b[1]) \o Tail(b) = a \o b
<1>1. Len(b) \in Nat /\ Len(b) >= 1 /\ Len(a) \in Nat /\ b[1] \in S
  BY LenProperties, EmptySeq, ElementOfSeq
<1>2. /\ Tail(b) \in Seq(S) /\ Len(Tail(b)) = Len(b) - 1
      /\ \A i \in 1 .. Len(b) - 1 : Tail(b)[i] = b[i + 1]
  BY Zenon, HeadTailProperties
<1>3. /\ Append(a, b[1]) \in Seq(S) /\ Len(Append(a, b[1])) = Len(a) + 1
      /\ \A i \in 1 .. Len(a) : Append(a, b[1])[i] = a[i]
      /\ Append(a, b[1])[Len(a) + 1] = b[1]
  BY <1>1, AppendProperties
<1> DEFINE c == Append(a, b[1])
           t == Tail(b)
<1> HIDE DEF c, t
<1>4. /\ c \o t \in Seq(S) /\ Len(c \o t) = Len(a) + Len(b)
      /\ \A i \in 1 .. Len(a) + Len(b) :
           (c \o t)[i] = IF i <= Len(a) + 1 THEN c[i] ELSE t[i - (Len(a) + 1)]
  BY <1>1, <1>2, <1>3, ConcatProperties DEF c, t
<1>5. /\ a \o b \in Seq(S) /\ Len(a \o b) = Len(a) + Len(b)
      /\ \A i \in 1 .. Len(a) + Len(b) : (a \o b)[i] = IF i <= Len(a) THEN a[i] ELSE b[i - Len(a)]
  BY Zenon, ConcatProperties
<1>6. ASSUME NEW i \in 1 .. Len(a) + Len(b) PROVE (c \o t)[i] = (a \o b)[i]
  <2>1. CASE i <= Len(a)
    BY <1>1, <1>3, <1>4, <1>5, <2>1 DEF c
  <2>2. CASE i = Len(a) + 1
    BY <1>1, <1>3, <1>4, <1>5, <2>2 DEF c
  <2>3. CASE i > Len(a) + 1
    <3>1. i - (Len(a) + 1) \in 1 .. Len(b) - 1 /\ i - (Len(a) + 1) + 1 = i - Len(a)
      BY <1>1, <2>3
    <3>2. t[i - (Len(a) + 1)] = b[i - Len(a)]
      BY Zenon, <1>2, <3>1 DEF t
    <3> QED
      BY <1>1, <1>4, <1>5, <2>3, <3>2
  <2>4. i <= Len(a) \/ i = Len(a) + 1 \/ i > Len(a) + 1
    BY <1>1
  <2> QED
    BY Zenon, <2>1, <2>2, <2>3, <2>4
<1>7. c \o t = a \o b
  BY Zenon, <1>4, <1>5, <1>6, SeqEqual
<1> QED
  BY Zenon, <1>3, <1>7 DEF c, t

(* One turn of the copy loop leaves what is copied and what is not, put    *)
(* together, as it was.                                                    *)
LEMMA CopyTurn ==
  ASSUME CInv, ReadCopy, ~CopyDone
  PROVE  /\ RingOK' /\ shell_pc = "copy" /\ shell_pc' = "copy" /\ count' = count - 1
         /\ cmd_buffer' \in Seq(AnyChar) /\ Len(cmd_buffer') = Len(cmd_buffer) + 1
         /\ cmd_buffer' \o Contents' = cmd_buffer \o Contents
<1>1. /\ InShell /\ shell_pc = "copy" /\ shell_pc' = "copy"
      /\ cmd_buffer' = Append(cmd_buffer, buffer[read_pos])
      /\ read_pos' = Wrap(read_pos + 1) /\ count' = count - 1
      /\ UNCHANGED <<buffer, write_pos, waiting_task, schedVars>>
  BY Zenon DEF ReadCopy
<1>2. count # 0 /\ RingOK /\ cmd_buffer \in Seq(AnyChar)
  BY Zenon DEF CopyDone, CInv, CopyOK
<1>3. count > 0
  BY <1>2, RingSizes
<1>4. /\ RingOK' /\ Contents # <<>> /\ Contents' = Tail(Contents)
      /\ buffer[read_pos] = Contents[1]
  BY Zenon, <1>1, <1>2, <1>3, ContentsTake
<1>5. Contents \in Seq(AnyChar)
  BY Zenon, <1>2, ContentsSeq
<1> QED
  BY SMTT(30), <1>1, <1>2, <1>4, <1>5, MoveOne

(* The end of the copy: a line, or what of it fits.                        *)
LEMMA CopyEnd ==
  ASSUME CInv, shell_pc = "copy", CopyDone
  PROVE  \E i \in 1 .. Len(cmd_buffer) + count :
           /\ FirstNewline(cmd_buffer \o Contents, i)
           /\ Len(cmd_buffer) = IF i < CMD_BUFFER_SIZE THEN i ELSE CMD_BUFFER_SIZE - 1
<1> DEFINE s == cmd_buffer \o Contents
           n == Len(cmd_buffer)
<1>1. /\ cmd_buffer \in Seq(AnyChar) /\ n <= CMD_BUFFER_SIZE - 1
      /\ Contents \in Seq(AnyChar) /\ Len(Contents) = count
  BY Zenon, ContentsSeq DEF CInv, CopyOK
<1>2. PICK i \in 1 .. n + count : FirstNewline(s, i) /\ n <= i
  BY Zenon DEF CInv, CopyOK
<1>3. /\ n \in Nat /\ count \in Nat /\ CMD_BUFFER_SIZE \in Nat /\ CMD_BUFFER_SIZE >= 2
  BY Zenon, <1>1, LenProperties, RingSizes, ConsoleAssumption DEF CInv
<1>4. \A j \in 1 .. n : s[j] = cmd_buffer[j]
  BY <1>1, <1>3, ConcatProperties
<1>5. ASSUME cmd_buffer # <<>>, Last(cmd_buffer) = Newline PROVE n = i
  <2>1. n >= 1 /\ s[n] = Newline
    BY <1>1, <1>3, <1>4, <1>5, EmptySeq DEF Last
  <2> QED
    BY <1>2, <1>3, <2>1 DEF FirstNewline
<1> HIDE DEF s, n
<1>6. n = IF i < CMD_BUFFER_SIZE THEN i ELSE CMD_BUFFER_SIZE - 1
  <2>1. CASE count = 0
    BY <1>1, <1>2, <1>3, <2>1
  <2>2. CASE n >= CMD_BUFFER_SIZE - 1
    BY <1>1, <1>2, <1>3, <2>2
  <2>3. CASE cmd_buffer # <<>> /\ Last(cmd_buffer) = Newline
    BY <1>1, <1>3, <1>5, <2>3
  <2> QED
    BY Zenon, <2>1, <2>2, <2>3 DEF CopyDone, n
<1> QED
  BY Zenon, <1>2, <1>6 DEF s, n

(* The copy goes on, or ends with a line or with what of it fits.          *)
LEMMA ReadCopyStep == CInv /\ ReadCopy => CInv'
<1> SUFFICES ASSUME CInv, ReadCopy PROVE CInv'
  OBVIOUS
<1>1. InShell /\ shell_pc = "copy" /\ UNCHANGED <<temp_pos, checked, schedVars, waiting_task>>
  BY Zenon DEF ReadCopy, ttyVars
<1>2. IInv' /\ Live' = Live /\ UNCHANGED <<pc, current_task, state>>
  BY Zenon, <1>1, SchedSame DEF CInv
<1>3. /\ pc = "run" /\ current_task = Shell /\ state[Shell] = "RUNNING" /\ waiting_task # Shell
      /\ count \in Nat /\ Len(cmd_buffer) \in Nat
  BY Zenon, <1>1, ShellRuns, RingSizes, LenProperties DEF CInv, CopyOK
<1>4. CASE ~CopyDone
  <2>1. /\ RingOK' /\ shell_pc' = "copy" /\ count' = count - 1
        /\ cmd_buffer' \in Seq(AnyChar) /\ Len(cmd_buffer') = Len(cmd_buffer) + 1
        /\ cmd_buffer' \o Contents' = cmd_buffer \o Contents
    BY Zenon, <1>4, CopyTurn
  <2>2. ShellOK' /\ QuietOK' /\ ScanOK'
    BY Zenon, <1>1, <1>2, <1>3, <2>1 DEF CInv, ShellOK, QuietOK, ScanOK, Reading
  <2>3. PICK i \in 1 .. Len(cmd_buffer) + count :
          FirstNewline(cmd_buffer \o Contents, i) /\ Len(cmd_buffer) <= i
    BY Zenon, <1>1 DEF CInv, CopyOK
  <2>4. Len(cmd_buffer) # i
    <3>1. ASSUME Len(cmd_buffer) = i PROVE FALSE
      <4>1. /\ cmd_buffer \in Seq(AnyChar) /\ Contents \in Seq(AnyChar)
            /\ i \in 1 .. Len(cmd_buffer) + Len(Contents) /\ i <= Len(cmd_buffer)
        BY Zenon, <1>3, <2>3, <3>1, ContentsSeq DEF CInv, CopyOK
      <4>2. (cmd_buffer \o Contents)[i] = cmd_buffer[i]
        BY Zenon, <4>1, ConcatProperties
      <4>3. cmd_buffer # <<>> /\ cmd_buffer[Len(cmd_buffer)] = Newline
        BY <2>3, <3>1, <4>2 DEF FirstNewline
      <4> QED
        BY Zenon, <1>4, <4>3 DEF CopyDone, Last
    <3> QED
      BY Zenon, <3>1
  <2>5. Len(cmd_buffer') <= CMD_BUFFER_SIZE - 1 /\ Len(cmd_buffer') <= i
    BY <1>3, <1>4, <2>1, <2>3, <2>4, ConsoleAssumption DEF CopyDone
  <2>6. i \in 1 .. Len(cmd_buffer') + count'
    BY SMTT(30), <1>3, <2>1, <2>3
  <2>7. CopyOK'
    BY Zenon, <2>1, <2>3, <2>5, <2>6 DEF CopyOK, FirstNewline
  <2> QED
    BY Zenon, <1>2, <2>1, <2>2, <2>7 DEF CInv
<1>5. CASE CopyDone
  <2>1. shell_pc' = "command" /\ UNCHANGED <<cmd_buffer, buffer, read_pos, write_pos, count>>
    BY Zenon, <1>5 DEF ReadCopy, ttyVars
  <2>2. RingOK'
    BY Zenon, <2>1, RingSame
  <2>3. cmd_buffer # <<>>
    BY SMTT(30), <1>1, <1>3, <1>5, CopyEnd, ConsoleAssumption
  <2>4. ShellOK' /\ QuietOK' /\ ScanOK' /\ CopyOK'
    BY Zenon, <1>1, <1>2, <1>3, <2>1, <2>3 DEF CInv, ShellOK, QuietOK, ScanOK, CopyOK, Reading
  <2> QED
    BY Zenon, <1>2, <2>2, <2>4 DEF CInv
<1> QED
  BY Zenon, <1>4, <1>5

(* The shell runs the line: it comes back to tty_read, exits or stops the  *)
(* machine.                                                                *)
LEMMA CommandStep == CInv /\ RunCommand => CInv'
<1> SUFFICES ASSUME CInv, RunCommand PROVE CInv'
  OBVIOUS
<1>1. /\ InShell /\ UNCHANGED <<buffer, read_pos, write_pos, count, waiting_task, temp_pos, checked>>
      /\ cmd_buffer' \in {cmd_buffer, <<>>} /\ shell_pc \in {"command", "panic"}
      /\ shell_pc' \in {"read", "panic", "gone"}
  BY Zenon DEF RunCommand, shell_run, cmd_exit, cmd_panic, kernel_panic, Quiet, ttyVars, readVars
<1>2. RingOK' /\ Contents' = Contents /\ HasNewline' = HasNewline
  BY Zenon, <1>1, RingSame
<1>3. /\ pc = "run" /\ current_task = Shell /\ state[Shell] = "RUNNING" /\ Shell \in Live
      /\ state \in [Tasks -> TaskState] /\ Shell \in Tasks /\ waiting_task # Shell
  BY Zenon, <1>1, ShellRuns
<1>4. ScanOK' /\ CopyOK'
  <2>1. cmd_buffer' \in Seq(AnyChar)
    BY Zenon, <1>1, EmptySeq DEF CInv, CopyOK
  <2>2. shell_pc' # "scan" /\ shell_pc' # "copy" /\ shell_pc' # "command"
    BY Zenon, <1>1
  <2> QED
    BY Zenon, <2>1, <2>2 DEF ScanOK, CopyOK
<1>5. /\ IInv' /\ Live' = Live /\ state'[Shell] # "BLOCKED"
      /\ state'[Shell] = "TERMINATED" => shell_pc' = "gone"
  <2>1. CASE shell_run
    BY Zenon, <1>3, <2>1, SchedSame DEF CInv, shell_run, Quiet
  <2>2. CASE cmd_exit
    <3>1. IInv' /\ UNCHANGED <<task_table, task_table_capacity>>
      BY Zenon, <2>2, LeaveCPUIInv DEF CInv, cmd_exit, LeaveCPU, task_exit, GiveUp, tableVars
    <3> QED
      BY Zenon, <1>3, <2>2, <3>1, LiveKept DEF cmd_exit, task_exit
  <2>3. CASE cmd_panic
    <3>1. MaxSleep \in 1 .. MaxSleep
      BY SchedulerAssumption
    <3>2. IInv' /\ UNCHANGED <<task_table, task_table_capacity>>
      BY Zenon, <2>3, <3>1, LeaveCPUIInv DEF CInv, cmd_panic, LeaveCPU, task_sleep, GiveUp, tableVars
    <3> QED
      BY Zenon, <1>3, <2>3, <3>2, LiveKept DEF cmd_panic, task_sleep
  <2>4. CASE kernel_panic
    <3>1. task_return_error /\ UNCHANGED <<task_table, task_table_capacity, state>>
      BY Zenon, <2>4 DEF kernel_panic, InShell, task_return_error, tableVars
    <3> QED
      BY Zenon, <1>3, <3>1, HaltIInv, LiveKept DEF CInv
  <2> QED
    BY Zenon, <2>1, <2>2, <2>3, <2>4 DEF RunCommand
<1>6. ShellOK' /\ QuietOK'
  BY Zenon, <1>1, <1>3, <1>5 DEF CInv, ShellOK, QuietOK, Reading
<1> QED
  BY Zenon, <1>2, <1>4, <1>5, <1>6 DEF CInv

(* Every step keeps the invariant.                                         *)
LEMMA NextCInv == CInv /\ [ConsoleNext]_consoleVars => CInv'
<1> SUFFICES ASSUME CInv, [ConsoleNext]_consoleVars PROVE CInv'
  BY Zenon
<1>1. CASE UNCHANGED consoleVars
  <2>1. InKernel \/ (UNCHANGED schedVars /\ UNCHANGED <<buffer, read_pos, write_pos, count,
          waiting_task, shell_pc, temp_pos, checked, cmd_buffer>>)
    BY Zenon, <1>1 DEF consoleVars, ttyVars, readVars
  <2>2. IInv' /\ Live' = Live /\ UNCHANGED <<pc, current_task, state>>
    BY Zenon, <1>1, SchedSame DEF consoleVars, CInv
  <2>3. RingOK' /\ Contents' = Contents /\ HasNewline' = HasNewline
    BY Zenon, <1>1, RingSame DEF consoleVars, ttyVars
  <2>4. ShellOK' /\ QuietOK' /\ ScanOK' /\ CopyOK'
    BY Zenon, <1>1, <2>2, <2>3 DEF consoleVars, ttyVars, readVars, CInv, ShellOK, QuietOK, ScanOK, CopyOK,
                            Wrap, FirstNewline
  <2> QED
    BY Zenon, <2>2, <2>3, <2>4 DEF CInv
<1> QED
  BY Zenon, <1>1, InKernelStep, KeyStep, ReadStartStep, ReadScanStep, ReadWaitStep, ReadBlockStep,
     ReadCopyStep, CommandStep DEF ConsoleNext, tty_read

-----------------------------------------------------------------------------
(* What the invariant is for.                                              *)

(* The invariant of the console holds throughout, for every ring and       *)
(* buffer size, set of keys, and parameters of the scheduler.              *)
THEOREM ConsoleAlways == ConsoleSpec => []CInv
<1> QED
  BY InitCInv, NextCInv, PTL DEF ConsoleSpec

(* NoLostWakeup, for every ring, buffer and time slice: a shell asleep in  *)
(* tty_read is registered in waiting_task, and no newline is in the ring.  *)
THEOREM NeverLostWakeup == ConsoleSpec => []NoLostWakeup
<1>1. CInv => NoLostWakeup
  BY Zenon DEF CInv, ShellOK, QuietOK, NoLostWakeup
<1> QED
  BY <1>1, ConsoleAlways, PTL

(* WaiterIsReader, for every ring, buffer and time slice: whoever          *)
(* tty_input_char wakes exists, and is blocked or about to block.          *)
THEOREM WaiterAlwaysReader == ConsoleSpec => []WaiterIsReader
<1>1. CInv => WaiterIsReader
  BY Zenon DEF CInv, ShellOK, WaiterIsReader
<1> QED
  BY <1>1, ConsoleAlways, PTL

-----------------------------------------------------------------------------
(* The ring is a queue of lines.                                           *)

Unread == IF shell_pc = "copy" THEN cmd_buffer \o Contents ELSE Contents
HeldLine == IF shell_pc = "command" THEN cmd_buffer ELSE <<>>

(* Two sequences put together come apart again.                            *)
LEMMA SplitConcat ==
  ASSUME NEW S, NEW a \in Seq(S), NEW b \in Seq(S)
  PROVE  /\ SubSeq(a \o b, 1, Len(a)) = a
         /\ SubSeq(a \o b, Len(a) + 1, Len(a \o b)) = b
<1> DEFINE s == a \o b
           m == Len(a)
           n == Len(b)
<1>1. /\ m \in Nat /\ n \in Nat /\ s \in Seq(S) /\ Len(s) = m + n
      /\ \A i \in 1 .. m + n : s[i] = IF i <= m THEN a[i] ELSE b[i - m]
      /\ \A i \in 1 .. m + n : s[i] \in S
  <2>1. m \in Nat /\ n \in Nat
    BY Zenon, LenProperties
  <2>2. /\ s \in Seq(S) /\ Len(s) = m + n
        /\ \A i \in 1 .. m + n : s[i] = IF i <= m THEN a[i] ELSE b[i - m]
    BY Zenon, <2>1, ConcatProperties
  <2> HIDE DEF s, m, n
  <2>3. \A i \in 1 .. Len(s) : s[i] \in S
    BY Zenon, <2>2, ElementOfSeq
  <2> QED
    BY Zenon, <2>1, <2>2, <2>3
<1> HIDE DEF s
<1>2. SubSeq(s, 1, m) = a
  <2>1. \A i \in 1 .. m : s[i] \in S
    BY <1>1
  <2>2. /\ SubSeq(s, 1, m) \in Seq(S) /\ Len(SubSeq(s, 1, m)) = m
        /\ \A i \in 1 .. m : SubSeq(s, 1, m)[i] = s[i]
    BY <1>1, <2>1, SubSeqProperties
  <2>3. \A i \in 1 .. m : SubSeq(s, 1, m)[i] = a[i]
    BY <1>1, <2>2
  <2> QED
    BY Zenon, <2>2, <2>3, SeqEqual
<1>3. SubSeq(s, m + 1, m + n) = b
  <2>1. \A i \in m + 1 .. m + n : s[i] \in S
    BY <1>1
  <2>2. /\ SubSeq(s, m + 1, m + n) \in Seq(S) /\ Len(SubSeq(s, m + 1, m + n)) = n
        /\ \A i \in 1 .. n : SubSeq(s, m + 1, m + n)[i] = s[m + i]
    BY SMTT(30), <1>1, <2>1, SubSeqProperties
  <2>3. ASSUME NEW i \in 1 .. n PROVE s[m + i] = b[i]
    <3>1. m + i \in 1 .. m + n /\ ~ (m + i <= m) /\ (m + i) - m = i
      BY <1>1
    <3> QED
      BY Zenon, <1>1, <3>1
  <2>4. \A i \in 1 .. n : SubSeq(s, m + 1, m + n)[i] = b[i]
    BY Zenon, <2>2, <2>3
  <2> QED
    BY Zenon, <2>2, <2>4, SeqEqual
<1> QED
  BY Zenon, <1>1, <1>2, <1>3 DEF s

(* A key types a character, takes one back, or does nothing.               *)
LEMMA KeyLine ==
  ASSUME CInv, NEW key \in Keys, keyboard_handler(key)
  PROVE  Line!Next \/ (Unread' = Unread /\ HeldLine' = HeldLine)
<1>1. Deliverable /\ UNCHANGED shell_pc
  BY Zenon DEF keyboard_handler
<1>2. shell_pc # "copy" /\ shell_pc # "command" /\ shell_pc' # "copy" /\ shell_pc' # "command"
  BY Zenon, <1>1, KeyFacts
<1>3. /\ Unread = Contents /\ Unread' = Contents' /\ HeldLine = <<>> /\ HeldLine' = <<>>
      /\ Len(Contents) = count /\ Contents \in Seq(AnyChar)
  BY Zenon, <1>2, ContentsSeq DEF Unread, HeldLine, CInv
<1>4. CASE Contents' = Contents
  BY Zenon, <1>3, <1>4
<1>5. ASSUME count < TTY_BUFFER_SIZE, NEW c \in Chars \cup {Newline}, Contents' = Append(Contents, c)
      PROVE  Line!Type(c)
  BY Zenon, <1>3, <1>5 DEF Line!Type, Unread, HeldLine
<1>6. CASE count > 0 /\ Contents' = SubSeq(Contents, 1, count - 1)
  <2>1. Contents # <<>>
    BY <1>3, <1>6, EmptySeq, RingSizes DEF CInv
  <2>2. Line!Erase
    BY Zenon, <1>3, <1>6, <2>1 DEF Line!Erase, Unread, HeldLine
  <2> QED
    BY Zenon, <2>2 DEF Line!Next
<1> QED
  BY Zenon, <1>4, <1>5, <1>6, KeyRing DEF Line!Next

(* The last step of tty_read hands over a line; the others show nothing.   *)
LEMMA ReadLine ==
  ASSUME CInv, tty_read
  PROVE  Line!Next \/ (Unread' = Unread /\ HeldLine' = HeldLine)
<1>1. CASE ReadStart \/ ReadWait \/ ReadBlock
  <2>1. /\ UNCHANGED <<buffer, read_pos, write_pos, count>>
        /\ shell_pc \in {"read", "wait", "block"} /\ shell_pc' \in {"scan", "block", "read"}
    BY Zenon, <1>1 DEF ReadStart, ReadWait, ReadBlock, Quiet, ttyVars
  <2> QED
    BY Zenon, <2>1, RingSame DEF Unread, HeldLine
<1>2. CASE ReadScan
  <2>1. /\ UNCHANGED <<buffer, read_pos, write_pos, count>> /\ shell_pc = "scan"
        /\ shell_pc' \in {"scan", "wait"} \/ (shell_pc' = "copy" /\ cmd_buffer' = <<>>)
    BY Zenon, <1>2 DEF ReadScan, Quiet, ttyVars
  <2>2. Contents' = Contents /\ <<>> \o Contents = Contents
    BY Zenon, <2>1, RingSame, ContentsSeq, ConcatEmptySeq DEF CInv
  <2> QED
    BY Zenon, <2>1, <2>2 DEF Unread, HeldLine
<1>3. CASE ReadCopy /\ ~CopyDone
  BY Zenon, <1>3, CopyTurn DEF Unread, HeldLine
<1>4. CASE ReadCopy /\ CopyDone
  <2>1. /\ UNCHANGED <<buffer, read_pos, write_pos, count, cmd_buffer>>
        /\ shell_pc = "copy" /\ shell_pc' = "command"
    BY Zenon, <1>4 DEF ReadCopy, ttyVars
  <2> DEFINE s == cmd_buffer \o Contents
  <2>2. /\ Contents' = Contents /\ Contents \in Seq(AnyChar) /\ cmd_buffer \in Seq(AnyChar)
        /\ s \in Seq(AnyChar)
    BY Zenon, <2>1, RingSame, ContentsSeq, ConcatProperties DEF CInv, CopyOK
  <2>3. PICK i \in 1 .. Len(cmd_buffer) + count :
          /\ FirstNewline(s, i)
          /\ Len(cmd_buffer) = IF i < CMD_BUFFER_SIZE THEN i ELSE CMD_BUFFER_SIZE - 1
    BY Zenon, <1>4, <2>1, CopyEnd
  <2>4. /\ SubSeq(s, 1, Len(cmd_buffer)) = cmd_buffer
        /\ SubSeq(s, Len(cmd_buffer) + 1, Len(s)) = Contents
    BY <2>2, SplitConcat
  <2>5. Unread = s /\ Unread' = Contents /\ HeldLine = <<>> /\ HeldLine' = cmd_buffer
    BY Zenon, <2>1, <2>2 DEF Unread, HeldLine
  <2>6. DOMAIN s = 1 .. Len(s)
    BY Zenon, <2>2, LenProperties
  <2> HIDE DEF s
  <2>7. /\ i \in DOMAIN Unread /\ Unread[i] = Newline
        /\ \A j \in 1 .. i - 1 : Unread[j] # Newline
        /\ LET n == IF i < CMD_BUFFER_SIZE THEN i ELSE CMD_BUFFER_SIZE - 1 IN
           /\ HeldLine' = SubSeq(Unread, 1, n)
           /\ Unread' = SubSeq(Unread, n + 1, Len(Unread))
    BY Zenon, <2>3, <2>4, <2>5, <2>6 DEF FirstNewline
  <2>8. Line!Read
    BY Zenon, <2>5, <2>7 DEF Line!Read, Unread, HeldLine
  <2> QED
    BY Zenon, <2>8 DEF Line!Next
<1> QED
  BY Zenon, <1>1, <1>2, <1>3, <1>4 DEF tty_read

(* The shell lets go of the line when it has run it.                       *)
LEMMA CommandLine ==
  ASSUME CInv, RunCommand
  PROVE  Line!Next \/ (Unread' = Unread /\ HeldLine' = HeldLine)
<1>1. /\ UNCHANGED <<buffer, read_pos, write_pos, count>>
      /\ shell_pc' \in {"read", "panic", "gone"}
      /\ shell_pc = "command" \/ shell_pc = "panic"
  BY Zenon DEF RunCommand, shell_run, cmd_exit, cmd_panic, kernel_panic, Quiet, ttyVars
<1>2. Unread' = Unread /\ HeldLine' = <<>>
  BY Zenon, <1>1, RingSame DEF Unread, HeldLine
<1>3. CASE shell_pc = "panic"
  BY Zenon, <1>2, <1>3 DEF HeldLine
<1>4. CASE shell_pc = "command"
  <2>1. HeldLine # <<>>
    BY Zenon, <1>4 DEF HeldLine, CInv, CopyOK
  <2>2. Line!Done
    BY Zenon, <1>2, <2>1 DEF Line!Done, Unread, HeldLine
  <2> QED
    BY Zenon, <2>2 DEF Line!Next
<1> QED
  BY Zenon, <1>1, <1>3, <1>4

(* ReadsLines, for every ring, buffer and time slice: tty_input_char and   *)
(* tty_read, which touch the ring one character at a time, together act as *)
(* a queue of characters from which a line is taken in one step.           *)
THEOREM ConsoleReadsLines == ConsoleSpec => ReadsLines
<1>1. ConsoleInit => Line!Init
  <2> SUFFICES ASSUME ConsoleInit PROVE Line!Init
    OBVIOUS
  <2>1. shell_pc = "read" /\ count = 0 /\ CInv
    BY Zenon, InitCInv DEF ConsoleInit
  <2>2. Contents = <<>>
    BY Zenon, <2>1, ContentsSeq, EmptySeq DEF CInv
  <2> QED
    BY Zenon, <2>1, <2>2 DEF Line!Init
<1>2. CInv /\ [ConsoleNext]_consoleVars => [Line!Next]_<<Unread, HeldLine>>
  <2> SUFFICES ASSUME CInv, [ConsoleNext]_consoleVars
               PROVE  Line!Next \/ (Unread' = Unread /\ HeldLine' = HeldLine)
    BY Zenon
  <2>1. CASE InKernel \/ UNCHANGED consoleVars
    <3>1. UNCHANGED <<buffer, read_pos, write_pos, count, shell_pc, cmd_buffer>>
      BY Zenon, <2>1 DEF InKernel, consoleVars, ttyVars, readVars
    <3> QED
      BY Zenon, <3>1, RingSame DEF Unread, HeldLine
  <2> QED
    BY Zenon, <2>1, KeyLine, ReadLine, CommandLine DEF ConsoleNext
<1> QED
  BY <1>1, <1>2, ConsoleAlways, PTL
  DEF ConsoleSpec, ReadsLines, Line!Spec, Line!lineVars, Unread, HeldLine
=============================================================================
