----------------------- MODULE BulkProgramProperties -----------------------
(***************************************************************************)
(* What the output of the program must be for its input, and the inductive *)
(* invariant it follows from.                                              *)
(***************************************************************************)
EXTENDS BulkProgram, SequencesExt

(* The processor with what InputParserProperties says of it. *)
Processor == INSTANCE InputParserProperties WITH
  chunk_size_ <- cmd_chunk_sz, ChunkSize <- Nat, Buffer <- {}, MaxReceive <- 0

(* A command of a block that was executed, known by number.                *)
Numbered == [bulk : 1..Len(bulks), cmd : Nat]

(* Every variable holds a value of its type; a program that runs has       *)
(* options the executors can work with.                                    *)
TypeOK ==
  /\ chunk_arg \in ChunkArg /\ thread_arg \in ThreadArg
  /\ phase \in {"arguments", "running", "ended"}
  /\ phase = "running" => chunk_arg \in Nat \ {0} /\ thread_count \in Nat \ {0}
  /\ Processor!TypeOK
  /\ exec_pc \in {"idle", "log", "print", "pack", "open", "write"}
  /\ os_ \in {Cout} \union 1..Len(bulks)
  /\ bulks \in Seq([session : {Main}, size : Nat])
  /\ log_queue_ \in Seq(Numbered) /\ bulk_q_ \in Seq(Numbered)
  /\ console \in Seq(Numbered)
  /\ file \in Seq(Seq(Numbered)) /\ Len(file) = Len(bulks)
  /\ left \in Nat /\ unopened \subseteq 1..Len(bulks) /\ closed \subseteq {Main}

-----------------------------------------------------------------------------
(* The output. *)

(* A command written to the console or to a file: its text, or the line    *)
(* end that closes the block.                                              *)
Entry(e) ==
  LET c == executed[e.bulk].cmds[e.cmd]
  IN  IF c.type = "cmdLast" THEN <<NL>> ELSE c.cmd

Entries(s) == [k \in 1..Len(s) |-> Entry(s[k])]

(* One line for each block. *)
Lines(blocks) == [b \in 1..Len(blocks) |-> Append(blocks[b], <<NL>>)]

(* When the program ends, the console shows the blocks its whole input     *)
(* asks for and nothing else: one line each, in order.  Nothing the parser *)
(* reads is lost on the way through the executor, and nothing is diverted  *)
(* to a file, whichever executor runs (no unmatched closing brace).        *)
PrintsTheInput ==
  phase = "ended" /\ received # <<>> /\ stray = 0 =>
    Entries(console)
      = FlattenSeq(Lines(Processor!Meaning!AllBlocks(<<received[1]>>, chunk_arg)))

(* The console shows block b in the n places after the first k. *)
Shows(b, k, n) ==
  \A j \in 1..Len(console) : console[j].bulk = b <=> j \in (k + 1)..(k + n)

(* When the program ends the console shows every block executed in one     *)
(* piece, and its file holds the same commands in the same order; a file   *)
(* that could not be opened is missing altogether, and takes nothing from  *)
(* the others.                                                             *)
FilesMirrorConsole ==
  phase = "ended" =>
    /\ Len(file) = Len(executed)
    /\ \A b \in 1..Len(file) : \E k, n \in 0..Len(console) :
         /\ Shows(b, k, n)
         /\ file[b] = IF b \in unopened THEN <<>> ELSE SubSeq(console, k + 1, k + n)

(* The smallest block is one command and its line end, the largest has a   *)
(* command for every symbol of the input: its line can be empty.           *)
BlockSizes == UNION {2..(Len(text) + 1) : text \in Script}

Promise == INSTANCE BlockOutput WITH Session <- {Main}, Size <- BlockSizes

(* The program keeps what the executors promise about the console and the  *)
(* files of blocks: the synchronous executor too prints block after block, *)
(* writes to each file the commands of its block only, and has done both   *)
(* when the program ends.                                                  *)
ImplementsOutput == Promise!Spec

(* On every command line and every input the program ends, or, if it has   *)
(* threads to wait for, has at least executed all its blocks: no input, and*)
(* no block size the options let through, keeps the loops of the processor *)
(* and of the synchronous executor going.                                  *)
ProgramEnds == <>(phase = "ended" \/ (Threaded /\ pc = "closed"))

-----------------------------------------------------------------------------
(* The inductive invariant. *)

(* What a processor that was started has received.                         *)
OneInput == {<<text>> : text \in Script}

(* Nothing has happened before the processor starts; then it processes one *)
(* input, whose end is the end of it.                                      *)
PhaseInv ==
  /\ phase = "arguments" => Processor!Init /\ Sync!Init
  /\ phase = "arguments" \/ received = <<>> => executed = <<>>
  /\ phase = "running" =>
       pc \in {"process", "bulk", "closed"} /\ received \in OneInput
  /\ phase # "ended" => closed = {}
  /\ phase = "ended" /\ received # <<>> =>
       pc = "closed" /\ chunk_arg \in Nat /\ received \in OneInput
  /\ ~save_status_at_stop_ /\ ~save_status_at_stop0

(* Every command in the queue has taken a symbol of the input. *)
FitsInput == received # <<>> => Len(q_) + Len(stream) <= Len(received[1])

(* The executor is given the blocks of the processor. *)
BlocksAgree ==
  /\ Len(bulks) = Len(executed)
  /\ \A b \in 1..Len(bulks) : bulks[b].size = Len(executed[b].cmds)

(* The commands of all blocks, and the order they are printed in. *)
IdsOf(blocks) ==
  UNION {{[bulk |-> b, cmd |-> i] : i \in 1..blocks[b].size} : b \in 1..Len(blocks)}
Ids == IdsOf(bulks)
Before(e, f) == e.bulk < f.bulk \/ (e.bulk = f.bulk /\ e.cmd < f.cmd)
Follows(f, e) ==
  \/ e.cmd < bulks[e.bulk].size /\ f.bulk = e.bulk /\ f.cmd = e.cmd + 1
  \/ e.cmd = bulks[e.bulk].size /\ f.bulk = e.bulk + 1 /\ f.cmd = 1

(* The console shows commands in this order, from the first one on and     *)
(* without a gap.                                                          *)
ConsoleInv ==
  /\ console \in Seq(Ids)
  /\ \A j, k \in 1..Len(console) : j < k => Before(console[j], console[k])
  /\ console # <<>> => console[1] = [bulk |-> 1, cmd |-> 1]
  /\ \A k \in 1..(Len(console) - 1) : Follows(console[k + 1], console[k])
  /\ \A k \in 1..Len(console) : \A e \in Ids :
       Before(e, console[k]) => Output!IsPrinted(e.bulk, e.cmd)

(* A file holds the first commands of its block. *)
FirstCommands(b, n) == [i \in 1..n |-> [bulk |-> b, cmd |-> i]]
FileInv ==
  \A b \in 1..Len(bulks) :
    /\ Len(file[b]) <= bulks[b].size
    /\ file[b] = FirstCommands(b, Len(file[b]))
    /\ b \in unopened => file[b] = <<>>

Done(b) == Output!AllPrinted(b) /\ Output!IsWritten(b)

(* The threads have been joined when the program ends. *)
EndInv == phase = "ended" => exec_pc = "idle" /\ \A b \in 1..Len(bulks) : Done(b)

(* The synchronous executor: a queue holds the last commands of the newest *)
(* block, and the stream of its context is the console while it prints.    *)
LastCommands(n) ==
  [i \in 1..n |-> [bulk |-> Sync!Newest, cmd |-> bulks[Sync!Newest].size - n + i]]
Untouched == file[Sync!Newest] = <<>> /\ Sync!Newest \notin unopened
Older == \A b \in 1..(Len(bulks) - 1) : Done(b)

AtIdle ==
  /\ log_queue_ = <<>> /\ bulk_q_ = <<>> /\ left = 0
  /\ ~Threaded => \A b \in 1..Len(bulks) : Done(b)
AtLog ==
  /\ log_queue_ = <<>> /\ bulk_q_ = <<>> /\ os_ = Cout /\ Untouched
  /\ ~Output!IsPrinted(Sync!Newest, 1)
AtPrint ==
  /\ bulk_q_ = <<>> /\ os_ = Cout /\ Untouched
  /\ Len(log_queue_) <= bulks[Sync!Newest].size
  /\ log_queue_ = LastCommands(Len(log_queue_))
  /\ \A i \in 1..bulks[Sync!Newest].size :
       Output!IsPrinted(Sync!Newest, i) <=> i <= bulks[Sync!Newest].size - Len(log_queue_)
AtPack ==
  /\ log_queue_ = <<>> /\ bulk_q_ = <<>> /\ Untouched
  /\ Output!AllPrinted(Sync!Newest)
AtOpen ==
  /\ log_queue_ = <<>> /\ bulk_q_ = Sync!Commands /\ Untouched
  /\ Output!AllPrinted(Sync!Newest)
AtWrite ==
  /\ log_queue_ = <<>> /\ Output!AllPrinted(Sync!Newest)
  /\ left = Len(bulk_q_) /\ left <= bulks[Sync!Newest].size
  /\ bulk_q_ = LastCommands(left)
  /\ \/ Sync!Newest \in unopened
     \/ Len(file[Sync!Newest]) = bulks[Sync!Newest].size - left

SyncInv ==
  /\ Threaded => exec_pc = "idle"
  /\ exec_pc # "idle" => Len(bulks) > 0 /\ Older /\ phase = "running"
  /\ exec_pc = "idle" => AtIdle
  /\ exec_pc = "log" => AtLog
  /\ exec_pc = "print" => AtPrint
  /\ exec_pc = "pack" => AtPack
  /\ exec_pc = "open" => AtOpen
  /\ exec_pc = "write" => AtWrite

(* The invariant of the whole program: the processor keeps its own, the    *)
(* blocks it hands over are those the executor prints and writes, each in  *)
(* full before the next one when there are no threads.                     *)
IInv ==
  /\ Processor!IInv /\ Processor!MatchedInv
  /\ PhaseInv /\ FitsInput /\ BlocksAgree
  /\ ConsoleInv /\ FileInv /\ EndInv /\ SyncInv

=============================================================================
