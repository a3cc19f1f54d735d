------------------------------ MODULE Console ------------------------------
(***************************************************************************)
(* The console of the running system: the keyboard interrupt               *)
(* (drivers/keyboard.c, interrupts/idt.asm irq1), the terminal's ring      *)
(* buffer (tty/tty.c) and the shell task that reads it (shell_run), on top *)
(* of the scheduler.  The tasks are the two the kernel starts: idle and    *)
(* the shell.                                                              *)
(*                                                                         *)
(* tty_read and tty_input_char share the ring and waiting_task without a   *)
(* lock.  Every access of tty_read is a step of its own here, so that an   *)
(* interrupt may come between any two of them if the CPU would take it.    *)
(***************************************************************************)
EXTENDS Scheduler

CONSTANTS
  TTY_BUFFER_SIZE,
  CMD_BUFFER_SIZE,
  Keys               \* keys somebody may press

ASSUME ConsoleAssumption ==
  /\ TTY_BUFFER_SIZE \in Nat \ {0}
  /\ CMD_BUFFER_SIZE \in Nat /\ CMD_BUFFER_SIZE >= 2
  /\ Keys \subseteq {"key", "enter", "backspace", "shift", "unshift", "other"}

VARIABLES
  buffer, read_pos, write_pos, count,   \* tty_t
  waiting_task,
  shift_pressed,
  shell_pc,          \* where the shell is
  temp_pos, checked, \* locals of tty_read's scan
  cmd_buffer         \* the first bytes_read characters

ttyVars == <<buffer, read_pos, write_pos, count, waiting_task>>
readVars == <<temp_pos, checked, cmd_buffer>>
consoleVars == <<schedVars, ttyVars, shift_pressed, shell_pc, readVars>>

Chars == {"x", "X"}
Newline == "\n"
Positions == 0 .. TTY_BUFFER_SIZE - 1

Wrap(n) == (n + TTY_BUFFER_SIZE) % TTY_BUFFER_SIZE

(* The unread characters, oldest first.                                    *)
Contents == [i \in 1 .. count |-> buffer[Wrap(read_pos + i - 1)]]

ConsoleInit ==
  /\ Init
  /\ buffer = [i \in Positions |-> "NUL"]
  /\ read_pos = 0 /\ write_pos = 0 /\ count = 0
  /\ waiting_task = Null
  /\ shift_pressed = FALSE
  /\ shell_pc = "read"
  /\ temp_pos = 0 /\ checked = 0
  /\ cmd_buffer = <<>>

-----------------------------------------------------------------------------
(* tty_input_char of a backspace.                                          *)
EraseChar ==
  /\ IF count > 0
     THEN write_pos' = Wrap(write_pos - 1) /\ count' = count - 1
     ELSE UNCHANGED <<write_pos, count>>
  /\ UNCHANGED <<buffer, read_pos, waiting_task, schedVars>>

StoreChar(c) ==
  IF count < TTY_BUFFER_SIZE
  THEN /\ buffer' = [buffer EXCEPT ![write_pos] = c]
       /\ write_pos' = Wrap(write_pos + 1)
       /\ count' = count + 1
  ELSE UNCHANGED <<buffer, write_pos, count>>

(* Variant: waiting_task is cleared and nobody is woken.                   *)
WakeReader_Nobody == waiting_task' = Null /\ UNCHANGED schedVars

(* Variant: waiting_task is not cleared.                                   *)
WakeReader_Keeps ==
  /\ UNCHANGED waiting_task
  /\ IF waiting_task # Null /\ state[waiting_task] = "BLOCKED"
     THEN task_unblock(waiting_task) ELSE UNCHANGED schedVars

WakeReader ==
  IF waiting_task = Null
  THEN UNCHANGED <<waiting_task, schedVars>>
  ELSE /\ waiting_task' = Null
       /\ IF state[waiting_task] = "BLOCKED" THEN task_unblock(waiting_task)
                                              ELSE UNCHANGED schedVars

(* tty_input_char of any other character; only a newline wakes the reader. *)
tty_input_char(c) ==
  /\ StoreChar(c)
  /\ IF c = Newline THEN WakeReader ELSE UNCHANGED <<waiting_task, schedVars>>
  /\ UNCHANGED read_pos

(* irq1: keyboard_handler, EOI, iretq.  An interrupt gate keeps IF clear   *)
(* until the iretq, so the handler is one step.  "other" is a key release  *)
(* or a scancode without a character.                                      *)
keyboard_handler(key) ==
  /\ Deliverable
  /\ UNCHANGED <<shell_pc, readVars>>
  /\ CASE key = "shift"     -> shift_pressed' = TRUE /\ UNCHANGED <<schedVars, ttyVars>>
       [] key = "unshift"   -> shift_pressed' = FALSE /\ UNCHANGED <<schedVars, ttyVars>>
       [] key = "other"     -> UNCHANGED <<shift_pressed, schedVars, ttyVars>>
       [] key = "backspace" -> EraseChar /\ UNCHANGED shift_pressed
       [] key = "enter"     -> tty_input_char(Newline) /\ UNCHANGED shift_pressed
       [] key = "key"       -> /\ tty_input_char(IF shift_pressed THEN "X" ELSE "x")
                               /\ UNCHANGED shift_pressed

-----------------------------------------------------------------------------
InShell == InTask /\ current_task = Shell
Quiet == UNCHANGED <<schedVars, ttyVars, shift_pressed>>

(* tty_read: top of its outer loop.                                        *)
ReadStart ==
  /\ InShell /\ shell_pc = "read"
  /\ temp_pos' = read_pos
  /\ checked' = 0
  /\ shell_pc' = "scan"
  /\ Quiet /\ UNCHANGED cmd_buffer

(* One turn of the loop that looks for a newline.                          *)
ReadScan ==
  /\ InShell /\ shell_pc = "scan"
  /\ \/ /\ checked < count /\ buffer[temp_pos] = Newline
        /\ shell_pc' = "copy"
        /\ cmd_buffer' = <<>>
        /\ UNCHANGED <<temp_pos, checked>>
     \/ /\ checked < count /\ buffer[temp_pos] # Newline
        /\ temp_pos' = Wrap(temp_pos + 1)
        /\ checked' = checked + 1
        /\ UNCHANGED <<shell_pc, cmd_buffer>>
     \/ /\ checked >= count
        /\ shell_pc' = "wait"
        /\ UNCHANGED readVars
  /\ Quiet

ReadWait ==
  /\ InShell /\ shell_pc = "wait"
  /\ waiting_task' = current_task
  /\ shell_pc' = "block"
  /\ UNCHANGED <<schedVars, buffer, read_pos, write_pos, count, shift_pressed, readVars>>

(* task_block; the task resumes at the top of the loop.                    *)
ReadBlock ==
  /\ InShell /\ shell_pc = "block"
  /\ task_block
  /\ shell_pc' = "read"
  /\ UNCHANGED <<ttyVars, shift_pressed, readVars>>

(* Variant: the copy does not stop after the newline.                      *)
CopyDone_PastNewline == count = 0 \/ Len(cmd_buffer) >= CMD_BUFFER_SIZE - 1

CopyDone ==
  \/ count = 0
  \/ Len(cmd_buffer) >= CMD_BUFFER_SIZE - 1
  \/ cmd_buffer # <<>> /\ Last(cmd_buffer) = Newline

(* One turn of the loop that moves characters to the caller's buffer.      *)
ReadCopy ==
  /\ InShell /\ shell_pc = "copy"
  /\ \/ /\ ~CopyDone
        /\ cmd_buffer' = Append(cmd_buffer, buffer[read_pos])
        /\ read_pos' = Wrap(read_pos + 1)
        /\ count' = count - 1
        /\ UNCHANGED <<shell_pc, buffer, write_pos, waiting_task, schedVars>>
     \/ /\ CopyDone
        /\ shell_pc' = "command"
        /\ UNCHANGED <<cmd_buffer, ttyVars, schedVars>>
  /\ UNCHANGED <<shift_pressed, temp_pos, checked>>

tty_read == ReadStart \/ ReadScan \/ ReadWait \/ ReadBlock \/ ReadCopy

-----------------------------------------------------------------------------
(* shell_run with the line it has read: an empty line and every command    *)
(* but two lead back to tty_read.                                          *)
EmptyLine == Front(cmd_buffer) = <<>> /\ Last(cmd_buffer) = Newline

shell_run ==
  /\ InShell /\ shell_pc = "command"
  /\ shell_pc' = "read"
  /\ cmd_buffer' = <<>>
  /\ Quiet /\ UNCHANGED <<temp_pos, checked>>

cmd_exit ==
  /\ InShell /\ shell_pc = "command" /\ ~EmptyLine
  /\ task_exit
  /\ shell_pc' = "gone"
  /\ UNCHANGED <<ttyVars, shift_pressed, readVars>>

(* The panic command sleeps and then stops the machine.                    *)
cmd_panic ==
  /\ InShell /\ shell_pc = "command" /\ ~EmptyLine
  /\ task_sleep(MaxSleep)
  /\ shell_pc' = "panic"
  /\ UNCHANGED <<ttyVars, shift_pressed, readVars>>

kernel_panic ==
  /\ InShell /\ shell_pc = "panic"
  /\ halted' = TRUE
  /\ UNCHANGED <<tableVars, state, time_slice, wake_in, frame, ready_queue,
                 sleep_queue, current_task, reap_counter, cpuVars, tickVars,
                 ttyVars, shift_pressed, shell_pc, readVars>>

RunCommand == shell_run \/ cmd_exit \/ cmd_panic \/ kernel_panic

-----------------------------------------------------------------------------
InKernel ==
  /\ pit_handler \/ Kernel \/ HaltLoop
  /\ UNCHANGED <<ttyVars, shift_pressed, shell_pc, readVars>>

ConsoleNext ==
  \/ InKernel
  \/ \E key \in Keys : keyboard_handler(key)
  \/ tty_read
  \/ RunCommand

ConsoleSpec == ConsoleInit /\ [][ConsoleNext]_consoleVars

(* The timer ticks, and what the CPU has started to execute it goes on     *)
(* executing; nobody has to press a key.                                   *)
ConsoleFairSpec ==
  ConsoleSpec /\ WF_consoleVars(InKernel) /\ WF_consoleVars(tty_read \/ RunCommand)

-----------------------------------------------------------------------------
HasNewline == \E i \in 1 .. count : Contents[i] = Newline

(* A reader asleep in tty_read is registered to be woken, and no complete  *)
(* line is waiting for it: a newline that arrives while tty_read decides   *)
(* to block is never missed.                                               *)
NoLostWakeup ==
  state[Shell] = "BLOCKED" => waiting_task = Shell /\ ~HasNewline

(* tty_input_char only ever wakes a task that exists and that is blocked   *)
(* or about to block in tty_read: waiting_task is never left behind.       *)
WaiterIsReader ==
  waiting_task # Null =>
    /\ waiting_task \in Live
    /\ shell_pc = "block" \/ state[waiting_task] = "BLOCKED"

(* The ring buffer, read and written in several steps by two parties,      *)
(* behaves as a queue of characters read a line at a time.                 *)
Line == INSTANCE LineDiscipline WITH
  Room <- TTY_BUFFER_SIZE,
  ReadSize <- CMD_BUFFER_SIZE,
  input <- IF shell_pc = "copy" THEN cmd_buffer \o Contents ELSE Contents,
  line <- IF shell_pc = "command" THEN cmd_buffer ELSE <<>>
ReadsLines == Line!Spec

(* A complete line reaches the shell, unless backspace takes its newline   *)
(* back first, or the shell exits or the machine stops.                    *)
LineIsRead ==
  HasNewline ~> (~HasNewline \/ shell_pc \in {"command", "gone"} \/ halted)
=============================================================================
