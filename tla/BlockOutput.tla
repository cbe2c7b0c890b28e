---------------------------- MODULE BlockOutput ----------------------------
(***************************************************************************)
(* What the executors promise about the output of blocks, without queues,  *)
(* threads or calls: the console gets the commands of a session one after  *)
(* the other, in the order they were executed; the file of a block gets    *)
(* the commands of that block; a session is over when both are done.  A    *)
(* file that cannot be opened loses its block and nothing else.            *)
(***************************************************************************)
EXTENDS Naturals, Sequences

CONSTANTS Session,  (* Whoever executes blocks.                       *)
          Size      (* Sizes of a block, with the closing entry.      *)

VARIABLES bulks,     (* The blocks executed so far: session and size. *)
          console,   (* What the console received                     *)
          file,      (* and what the file of each block received.     *)
          unopened,  (* Blocks whose file could not be opened.        *)
          closed     (* Sessions that are over.                       *)

vars == <<bulks, console, file, unopened, closed>>

Init == bulks = <<>> /\ console = <<>> /\ file = <<>> /\ unopened = {} /\ closed = {}

BlocksOf(s) == {b \in 1..Len(bulks) : bulks[b].session = s}

(* Console entries of block b are its commands, by their numbers. *)
IsPrinted(b, i) == \E k \in 1..Len(console) : console[k] = [bulk |-> b, cmd |-> i]
AllPrinted(b) == IsPrinted(b, bulks[b].size)
IsWritten(b) == b \in unopened \/ Len(file[b]) = bulks[b].size

Execute(s, n) ==
  /\ s \notin closed
  /\ bulks' = Append(bulks, [session |-> s, size |-> n])
  /\ file' = Append(file, <<>>)
  /\ UNCHANGED <<console, unopened, closed>>

(* The next command of the oldest block of session s not yet printed. *)
PrintNext(s) ==
  \E b \in BlocksOf(s) : \E i \in 1..bulks[b].size :
    /\ console' = Append(console, [bulk |-> b, cmd |-> i])
    /\ ~IsPrinted(b, i)
    /\ i > 1 => IsPrinted(b, i - 1)
    /\ \A a \in BlocksOf(s) : a < b => AllPrinted(a)
    /\ UNCHANGED <<bulks, file, unopened, closed>>

Write(b) ==
  /\ ~IsWritten(b)
  /\ file' = [file EXCEPT ![b] = Append(@, [bulk |-> b, cmd |-> Len(@) + 1])]
  /\ UNCHANGED <<bulks, console, unopened, closed>>

FailToOpen(b) ==
  /\ file[b] = <<>> /\ b \notin unopened
  /\ unopened' = unopened \union {b}
  /\ UNCHANGED <<bulks, console, file, closed>>

Close(s) ==
  /\ s \notin closed
  /\ closed' = closed \union {s}
  /\ \A b \in BlocksOf(s) : AllPrinted(b) /\ IsWritten(b)
  /\ UNCHANGED <<bulks, console, file, unopened>>

Next ==
  \/ \E s \in Session : (\E n \in Size : Execute(s, n)) \/ PrintNext(s) \/ Close(s)
  \/ \E b \in 1..Len(bulks) : Write(b) \/ FailToOpen(b)

Spec == Init /\ [][Next]_vars

=============================================================================
