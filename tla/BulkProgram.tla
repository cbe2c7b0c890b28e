----------------------------- MODULE BulkProgram -----------------------------
(***************************************************************************)
(* The standalone program `async`, from its arguments to its output:       *)
(*                                                                         *)
(*   Options            what the arguments make it do,                     *)
(*   create_processor   which executor it runs blocks with,                *)
(*   InputParser        the processor over the whole standard input,       *)
(*   QueueExecutorSync  the executor in the calling thread,                *)
(*   BlockOutput        what the threaded executor promises, which         *)
(*                      QueueExecutorMT is shown to keep.                  *)
(*                                                                         *)
(* --help prints a text and decides nothing: it is left out.               *)
(***************************************************************************)
EXTENDS Naturals, Sequences

CONSTANTS
  Char, OpenBrace, CloseBrace, NL,
  Script,     (* What the standard input may hold.                          *)
  ChunkArg,   (* What chunk_size                                            *)
  ThreadArg,  (* and thread_count may be given as, and                      *)
  NotGiven,   (* an argument that is not given.                             *)
  Main,       (* The only session.                                          *)
  Cout,       (* The stream of a context that writes to stdout.             *)
  OpenFails   (* Whether opening a file may fail.                           *)

(* With three threads or more two of them write files, and QueueExecutorMT *)
(* does not implement BlockOutput.                                         *)
ASSUME ArgumentAssumption ==
  /\ NotGiven \notin Nat
  /\ ChunkArg \subseteq Nat \union {NotGiven}
  /\ ThreadArg \subseteq 0..2 \union {NotGiven}

ASSUME InputAssumption ==
  /\ OpenBrace \notin Char /\ CloseBrace \notin Char /\ NL \notin Char
  /\ OpenBrace # CloseBrace /\ OpenBrace # NL /\ CloseBrace # NL
  /\ Script \subseteq Seq(Char \union {OpenBrace, CloseBrace, NL})

(* The files are known by the numbers of their blocks. *)
ASSUME StreamAssumption == Cout \notin Nat

VARIABLES
  chunk_arg, thread_arg,  (* The command line,                              *)
  phase,                  (* what main is doing: see Init, Refuse, Finish.  *)
  (* The processor's session, as in InputParser. *)
  stream, eofbit, failbit, save_status_at_stop_, cmd_count_, block_count_,
  last_cmd_, last_stat_, last_bulk_id_, q_, q_bulk_size_, q_bulk_id_, bulk_id,
  bulk_size, save_status_at_stop0, pc, received, executed, stray,
  (* The executor, as in QueueExecutorSync and BlockOutput. *)
  bulks, exec_pc, os_, log_queue_, bulk_q_, left, console, file, unopened, closed

argVars == <<chunk_arg, thread_arg>>
inputVars == <<stream, eofbit, failbit, save_status_at_stop_, cmd_count_,
               block_count_, last_cmd_, last_stat_, last_bulk_id_, q_,
               q_bulk_size_, q_bulk_id_, bulk_id, bulk_size,
               save_status_at_stop0, pc, received, executed, stray>>
syncVars == <<exec_pc, os_, log_queue_, bulk_q_, left>>
outVars == <<bulks, console, file, unopened>>
vars == <<argVars, phase, inputVars, syncVars, outVars, closed>>

(* The size of a static block: main insists on an argument, and does not   *)
(* come to use the default.                                                *)
cmd_chunk_sz == IF chunk_arg = NotGiven THEN 3 ELSE chunk_arg

Input == INSTANCE InputParser WITH
  chunk_size_ <- cmd_chunk_sz, ChunkSize <- Nat, Buffer <- {}, MaxReceive <- 0

Sync == INSTANCE QueueExecutorSync WITH pc <- exec_pc, q_ <- bulk_q_

Output == INSTANCE BlockOutput WITH Session <- {Main}, Size <- Nat

Init ==
  /\ chunk_arg \in ChunkArg /\ thread_arg \in ThreadArg
  /\ phase = "arguments"
  /\ Input!Init /\ Sync!Init
  /\ closed = {}

-----------------------------------------------------------------------------
(* Mutants of Rejected: the notifier of one of the options is missing. *)
RejectedChunkOnly == chunk_arg = 0
RejectedThreadsOnly == thread_arg = 0

(* The notifiers of both options throw for zero. *)
Rejected == chunk_arg = 0 \/ thread_arg = 0

(* Without a chunk size help is printed and main returns. *)
Refuse ==
  /\ phase = "arguments"
  /\ Rejected \/ chunk_arg = NotGiven
  /\ phase' = "ended"
  /\ UNCHANGED <<argVars, inputVars, syncVars, outVars, closed>>

(* The processor is created and starts on the standard input. *)
Start ==
  /\ phase = "arguments"
  /\ ~Rejected /\ chunk_arg # NotGiven
  /\ UNCHANGED argVars
  /\ \E text \in Script : Input!Standalone(text)
  /\ phase' = "running"
  /\ UNCHANGED <<syncVars, outVars, closed>>

thread_count == IF thread_arg = NotGiven THEN 2 ELSE thread_arg
Threaded == thread_count >= 2

(* exec_queue hands the newest block to the executor. *)
Execute(size) ==
  \/ Threaded /\ Output!Execute(Main, size) /\ UNCHANGED syncVars
  \/ ~Threaded /\ Sync!Execute(size) /\ UNCHANGED closed

(* One iteration of the processor, which is inside the executor while the  *)
(* synchronous one runs a block.                                           *)
Process ==
  /\ phase = "running" /\ exec_pc = "idle"
  /\ UNCHANGED argVars
  /\ Input!Step
  /\ IF executed' = executed
     THEN UNCHANGED <<syncVars, outVars, closed>>
     ELSE Execute(Len(executed'[Len(executed')].cmds))
  /\ UNCHANGED phase

(* A step of the synchronous executor, ... *)
RunBlock ==
  /\ Sync!Step
  /\ UNCHANGED <<argVars, phase, inputVars, closed>>

(* ... or of the threads of the other one. *)
RunThreads ==
  /\ Threaded
  /\ \/ Output!PrintNext(Main)
     \/ \E b \in 1..Len(bulks) : Output!Write(b) \/ (OpenFails /\ Output!FailToOpen(b))
  /\ UNCHANGED <<argVars, phase, inputVars, syncVars>>

(* The processor has returned and is destroyed: threads are joined. *)
Finish ==
  /\ phase = "running" /\ pc = "closed"
  /\ \/ Threaded /\ Output!Close(Main)
     \/ ~Threaded /\ exec_pc = "idle" /\ closed' = {Main} /\ UNCHANGED outVars
  /\ phase' = "ended"
  /\ UNCHANGED <<argVars, inputVars, syncVars>>

Next == Refuse \/ Start \/ Process \/ RunBlock \/ RunThreads \/ Finish

Spec == Init /\ [][Next]_vars

(* The main thread runs.  Nothing is assumed of the others: one may miss   *)
(* its notification, and then the join of Finish does not return.          *)
FairSpec ==
  Spec /\ WF_vars(Refuse \/ Start \/ Process \/ RunBlock \/ (~Threaded /\ Finish))

=============================================================================
