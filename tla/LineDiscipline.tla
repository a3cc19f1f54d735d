--------------------------- MODULE LineDiscipline ---------------------------
(***************************************************************************)
(* What tty.h promises a reader: characters are queued in the order they   *)
(* are typed, backspace takes back the last one, and a read returns one    *)
(* line, through its newline, or as much of it as fits the caller's buffer.*)
(* Nothing typed while there is room is lost, repeated or reordered.       *)
(***************************************************************************)
EXTENDS Integers, Sequences

CONSTANTS
  Chars,       \* characters other than the newline
  Newline,
  Room,        \* how many characters can wait
  ReadSize     \* the size the reader passes

VARIABLES
  input,       \* what has been typed and not been read
  line         \* what the reader holds; empty when it holds nothing

lineVars == <<input, line>>

Init == input = <<>> /\ line = <<>>

Type(c) ==
  /\ Len(input) < Room
  /\ input' = Append(input, c)
  /\ UNCHANGED line

Erase ==
  /\ input # <<>>
  /\ input' = SubSeq(input, 1, Len(input) - 1)
  /\ UNCHANGED line

Read ==
  /\ line = <<>>
  /\ \E i \in DOMAIN input :
       /\ input[i] = Newline
       /\ \A j \in 1 .. i - 1 : input[j] # Newline
       /\ LET n == IF i < ReadSize THEN i ELSE ReadSize - 1 IN
          /\ line' = SubSeq(input, 1, n)
          /\ input' = SubSeq(input, n + 1, Len(input))

Done == line # <<>> /\ line' = <<>> /\ UNCHANGED input

Next == (\E c \in Chars \cup {Newline} : Type(c)) \/ Erase \/ Read \/ Done

Spec == Init /\ [][Next]_lineVars
=============================================================================
