-------------------------------- MODULE Tty ---------------------------------
(***************************************************************************)
(* What the console is to processes: lines that are edited until they are  *)
(* complete and then read in order, and bytes that leave in the order in   *)
(* which they were written.                                                *)
(***************************************************************************)
EXTENDS Integers, Sequences

CONSTANTS
  Char, Byte,
  End, Eof,   \* the characters that end a line, and the one that ends the file
  Room

VARIABLES line, ready, out

Init == line = <<>> /\ ready = <<>> /\ out = <<>>

(* A character is added to the line; one that ends it, or takes the last   *)
(* of the room there is, makes the line ready.                             *)
Type(c) ==
  /\ Len(ready) + Len(line) < Room
  /\ IF c \in End \/ Len(ready) + Len(line) + 1 = Room
     THEN line' = <<>> /\ ready' = ready \o line \o <<c>>
     ELSE line' = Append(line, c) /\ UNCHANGED ready
  /\ UNCHANGED out

(* The last character, or all of them, are taken back. *)
Erase == line # <<>> /\ line' \in {<<>>, SubSeq(line, 1, Len(line) - 1)} /\ UNCHANGED <<ready, out>>

(* A read takes characters from the front, none behind the end of a line,  *)
(* and an end of file only by itself.                                      *)
Take(k) ==
  /\ k <= Len(ready) /\ \A i \in 1..(k - 1) : ready[i] \notin End
  /\ k > 1 => ready[k] # Eof
  /\ ready' = SubSeq(ready, k + 1, Len(ready))
  /\ UNCHANGED <<line, out>>

Write(b) == out' = Append(out, b) /\ UNCHANGED <<line, ready>>
Sent == out # <<>> /\ out' = Tail(out) /\ UNCHANGED <<line, ready>>

Next ==
  \/ \E c \in Char : Type(c)
  \/ Erase \/ Sent
  \/ \E k \in 1..Room : Take(k)
  \/ \E b \in Byte : Write(b)

Spec == Init /\ [][Next]_<<line, ready, out>>
=============================================================================
