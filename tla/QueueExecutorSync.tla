-------------------------- MODULE QueueExecutorSync --------------------------
(***************************************************************************)
(* The executor of a program with fewer than two threads: the workers of   *)
(* QueueExecutorMulti run in the calling thread, first the one that prints *)
(* the block, then the one that writes its file.                           *)
(*                                                                         *)
(* Commands write to the stream of the context they are given.  The file   *)
(* command changes that stream in the context of its caller, so what the   *)
(* next block prints goes to the console only because each block gets a    *)
(* context of its own, and its workers run in this order.                  *)
(***************************************************************************)
EXTENDS Naturals, Sequences

CONSTANTS
  Main,       (* Whose blocks are executed.                                *)
  Cout,       (* The stream of a context that writes to stdout; the others *)
              (* are the files, known by the numbers of their blocks.      *)
  OpenFails   (* Whether opening a file may fail.                          *)

VARIABLES
  bulks,       (* The blocks executed so far.                                *)
  pc,          (* Where the call in progress is.                             *)
  os_,         (* The stream of its context: Cout, or the file of a block.   *)
  log_queue_,  (* QueueExecutorMulti::log_queue_,                            *)
  q_,          (* QueueExecutorToFileInitializer::q_,                        *)
  left,        (* commands the file command will still take from it.         *)
  console,     (* History: what std::cout received,                          *)
  file,        (* what the file of each block received,                      *)
  unopened     (* and the blocks whose file could not be opened.             *)

outVars == <<console, file, unopened>>
vars == <<bulks, pc, os_, log_queue_, q_, left, outVars>>

Init ==
  /\ bulks = <<>> /\ pc = "idle" /\ os_ = Cout
  /\ log_queue_ = <<>> /\ q_ = <<>> /\ left = 0
  /\ console = <<>> /\ file = <<>> /\ unopened = {}

Newest == Len(bulks)

(* Mutant of Commands: the closing entry of the block is not moved. *)
CommandsShort == [i \in 1..bulks[Newest].size - 1 |-> [bulk |-> Newest, cmd |-> i]]

(* move_commands_to_array: the commands of the block, known by number.     *)
Commands == [i \in 1..bulks[Newest].size |-> [bulk |-> Newest, cmd |-> i]]

(* A command writes itself to a stream. *)
Output(os, cmd) ==
  /\ console' = IF os = Cout THEN Append(console, cmd) ELSE console
  /\ file' = IF os = Cout \/ os \in unopened THEN file
             ELSE [file EXCEPT ![os] = Append(@, cmd)]
  /\ UNCHANGED unopened

(* Mutant of ContextStream: blocks share one context. *)
ContextStreamShared == os_

(* exec_queue copies the processor's context, which is never redirected.   *)
ContextStream == Cout

(* The block leaves the input queue, with a context of its own. *)
Execute(n) ==
  /\ pc = "idle"
  /\ bulks' = Append(bulks, [session |-> Main, size |-> n])
  /\ file' = Append(file, <<>>)
  /\ os_' = ContextStream
  /\ pc' = "log"
  /\ UNCHANGED <<log_queue_, q_, left, console, unopened>>

(* The first worker: the commands are copied to the log queue and ...      *)
CopyToLog ==
  /\ pc = "log"
  /\ log_queue_' = log_queue_ \o Commands
  /\ pc' = "print"
  /\ UNCHANGED <<bulks, os_, q_, left, outVars>>

(* ... all of it is executed. *)
PrintCommand ==
  /\ pc = "print" /\ log_queue_ # <<>>
  /\ log_queue_' = Tail(log_queue_)
  /\ Output(os_, Head(log_queue_))
  /\ UNCHANGED <<bulks, pc, os_, q_, left>>

EndPrint ==
  /\ pc = "print" /\ log_queue_ = <<>>
  /\ pc' = "pack"
  /\ UNCHANGED <<bulks, os_, log_queue_, q_, left, outVars>>

(* Mutant of Packed: the first command of the block is left out. *)
PackedShort(q) == q \o Tail(Commands)
Packed(q) == q \o Commands

(* The second worker: one file command with a copy of the block in a queue *)
(* kept for all blocks.  It is queued and executed at once.                *)
Pack ==
  /\ pc = "pack"
  /\ q_' = Packed(q_)
  /\ pc' = "open"
  /\ UNCHANGED <<bulks, os_, log_queue_, left, outVars>>

(* CommandToFileInitDecorator: the file is opened, the stream of the       *)
(* caller's context redirected to it; BulkCommand takes its commands.      *)
Open ==
  /\ pc = "open"
  /\ \E opened \in IF OpenFails THEN BOOLEAN ELSE {TRUE} :
       unopened' = IF opened THEN unopened ELSE unopened \union {Newest}
  /\ os_' = Newest
  /\ left' = IF Len(Commands) < Len(q_) THEN Len(Commands) ELSE Len(q_)
  /\ pc' = "write"
  /\ UNCHANGED <<bulks, log_queue_, q_, console, file>>

Write ==
  /\ pc = "write" /\ left > 0
  /\ q_' = Tail(q_) /\ left' = left - 1
  /\ Output(Newest, Head(q_))
  /\ UNCHANGED <<bulks, pc, os_, log_queue_>>

Return ==
  /\ pc = "write" /\ left = 0
  /\ pc' = "idle"
  /\ UNCHANGED <<bulks, os_, log_queue_, q_, left, outVars>>

Step == CopyToLog \/ PrintCommand \/ EndPrint \/ Pack \/ Open \/ Write \/ Return

=============================================================================
