------------------------------ MODULE NamedPipe ------------------------------
(***************************************************************************)
(* A Linux FIFO as the board's threads and scripts use it.  An end is      *)
(* counted from the moment open() is called, and a call that finds no      *)
(* partner sleeps until one arrives; it returns even if the partner has    *)
(* left again by then.  Data no end holds any more is gone.                *)
(***************************************************************************)
EXTENDS Sequences

Motion == 1     \* \x01, the byte that says something happened
Settle == 66    \* \x42, the byte the scripts send after it
Newline == 10   \* what echo adds

NewPipe == [readers |-> {}, writers |-> {}, asleep |-> {}, data |-> <<>>]

OpenToRead(p, r) ==
    [p EXCEPT !.readers = @ \cup {r},
              !.asleep = IF p.writers = {} THEN @ \cup {r} ELSE @ \ p.writers]

OpenToWrite(p, w) ==
    [p EXCEPT !.writers = @ \cup {w},
              !.asleep = IF p.readers = {} THEN @ \cup {w} ELSE @ \ p.readers]

CloseEnd(p, x) ==
    LET q == [p EXCEPT !.readers = @ \ {x}, !.writers = @ \ {x}]
    IN  IF q.readers = {} /\ q.writers = {} THEN [q EXCEPT !.data = <<>>] ELSE q

Put(p, bytes) == [p EXCEPT !.data = @ \o bytes]

\* read(fd, &byte, 1): a byte, or the end of file, which leaves byte alone.
ReadByte(p, q, r, old, new) ==
    /\ r \notin p.asleep
    /\ \/ p.data # <<>> /\ new = Head(p.data) /\ q = [p EXCEPT !.data = Tail(@)]
       \/ p.data = <<>> /\ p.writers = {} /\ new = old /\ q = p

(* The two scripts: echo -e "\x01" > pipe; echo -e "\x42" > pipe.  Writing  *)
(* where nobody reads kills the shell.                                     *)

ScriptSteps == {"open1", "write1", "close1", "open2", "write2", "close2", "exit"}

Script(p, q, w, from, to) ==
    \/ /\ \/ from = "open1" /\ to = "write1"
          \/ from = "open2" /\ to = "write2"
       /\ q = OpenToWrite(p, w)
    \/ /\ w \notin p.asleep /\ p.readers # {}
       /\ \/ from = "write1" /\ to = "close1" /\ q = Put(p, <<Motion, Newline>>)
          \/ from = "write2" /\ to = "close2" /\ q = Put(p, <<Settle, Newline>>)
    \/ /\ from \in {"write1", "write2"} /\ w \notin p.asleep /\ p.readers = {}
       /\ to = "exit" /\ q = CloseEnd(p, w)
    \/ /\ \/ from = "close1" /\ to = "open2"
          \/ from = "close2" /\ to = "exit"
       /\ q = CloseEnd(p, w)
=============================================================================
