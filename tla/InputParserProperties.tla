----------------------- MODULE InputParserProperties -----------------------
(***************************************************************************)
(* What a session makes of its whole input: the blocks the input asks for, *)
(* and the abstract assembly of blocks.                                    *)
(***************************************************************************)
EXTENDS InputParser

(* The texts of the blocks executed, without the line ends that close them,*)
(* and of what is pending.                                                 *)
Texts(cmds, n) == [i \in 1..n |-> cmds[i].cmd]
Blocks == [k \in 1..Len(executed) |-> Texts(executed[k].cmds, Len(executed[k].cmds) - 1)]
Pending == Texts(q_, Len(q_))

-----------------------------------------------------------------------------
(* The blocks of the session against what its input means. *)

Meaning == INSTANCE InputMeaning

Assembles(texts) ==
  LET a == Meaning!Assembled(texts, chunk_size_)
  IN  CASE pc = "idle"   -> Blocks = a.blocks /\ Pending = a.cur
        [] pc = "closed" -> Blocks = Meaning!AllBlocks(texts, chunk_size_)
        [] OTHER         -> TRUE

(* The blocks, and what is pending between calls, are those of the lines   *)
(* received, wherever the client cut its lines into buffers: nothing is    *)
(* lost, repeated, reordered or grouped otherwise, as long as no closing   *)
(* brace was unmatched.  An end of the session completes a static block.   *)
AssemblesBuffers == stray = 0 => Assembles(received)

-----------------------------------------------------------------------------
(* The session implements the abstract assembly of blocks, whose commands  *)
(* are pieces of the inputs.                                               *)

Pieces(text) == {SubSeq(text, i + 1, j) : i, j \in 0..Len(text)}
AllPieces == UNION {Pieces(text) : text \in Buffer \union Script}
Piece == AllPieces \intersect Line

(* A closing call has read the whole stream. *)
More == ~ \/ pc = "closed"
          \/ pc # "idle" /\ ~save_status_at_stop_ /\ stream = <<>>

Assembly == INSTANCE BulkAssembly WITH
  Command <- Piece,
  N       <- chunk_size_,
  pending <- Pending,
  depth   <- IF pc = "closed" THEN 0 ELSE block_count_,
  blocks  <- Blocks,
  more    <- More,
  done    <- pc = "closed"

(* Clients that close no brace they have not opened. *)
MatchedSpec == Init /\ [][Next /\ stray' = 0]_vars

(* With such a client every step of the session is a step of the abstract  *)
(* assembly, or none: blocks are completed in the order, and at the        *)
(* moments, the assembly allows.                                           *)
ImplementsAssembly == Assembly!Spec

-----------------------------------------------------------------------------
(* The inductive invariant of both, for such clients. *)

(* What follows the first k symbols of a text. *)
Rest(text, k) == SubSeq(text, k + 1, Len(text))
LastInput == received[Len(received)]

(* A stream that is not good is empty, a call ends with an empty one that  *)
(* the next receive can clear, and what is unread is the end of an input.  *)
StreamInv ==
  /\ stream # <<>> =>
       received # <<>> /\ \E k \in 0..Len(LastInput) : stream = Rest(LastInput, k)
  /\ eofbit \/ failbit => stream = <<>>
  /\ pc = "idle" => stream = <<>> /\ (eofbit => failbit) /\ ~save_status_at_stop_
  /\ ~save_status_at_stop0
  /\ save_status_at_stop_ => received # <<>>
  /\ pc # "closed" /\ ~save_status_at_stop_ /\ last_stat_ = "kStop" => stream = <<>>
  /\ pc = "idle" /\ received = <<>> => last_stat_ # "kStop"

(* What the commands read so far make.  The code completes a static block  *)
(* only when it would read on: it may still be in the queue.               *)
Made == [blocks |-> Blocks, cur |-> Pending, depth |-> block_count_]
Current == Meaning!Cut(Made, chunk_size_)

(* The symbols of the last buffer that were read end with a line, and made *)
(* what the session holds.                                                 *)
IsMadeOf(a, text) ==
  \E k \in 0..Len(text) :
    /\ stream = Rest(text, k)
    /\ Meaning!Reading(a, text, k, chunk_size_) = Meaning!State(Current, <<>>)

(* Between calls, and whenever a stream is exhausted, the session holds    *)
(* what its whole input makes; within a call, what the symbols read make.  *)
MeaningInv ==
  /\ pc = "closed" => Blocks = Meaning!AllBlocks(received, chunk_size_)
  /\ pc = "idle" \/ (pc # "closed" /\ save_status_at_stop_ /\ stream = <<>>) =>
       Current = Meaning!Assembled(received, chunk_size_)
  /\ pc \in {"process", "bulk"} /\ ~save_status_at_stop_ /\ stream = <<>> =>
       Meaning!LastBlocks(Current) = Meaning!AllBlocks(received, chunk_size_)
  /\ pc \in {"process", "bulk"} /\ stream # <<>> =>
       /\ received # <<>>
       /\ IsMadeOf(Meaning!MadeBy(received, Len(received) - 1, chunk_size_),
                   LastInput)
  /\ pc = "idle" /\ block_count_ = 0 /\ Len(q_) = chunk_size_ => q_ = <<>>

(* A session without an unmatched closing brace so far: its stream can take*)
(* input whenever it is expected to, and it has grouped exactly the lines  *)
(* it has read, however they were cut into calls of libasync_receive.      *)
MatchedInv == stray = 0 => StreamInv /\ MeaningInv

=============================================================================
