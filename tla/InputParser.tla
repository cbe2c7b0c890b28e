----------------------------- MODULE InputParser -----------------------------
(***************************************************************************)
(* One processing session of the bulk server, from the bytes handed to     *)
(* libasync_receive to the blocks handed to the queue executor:            *)
(*                                                                         *)
(*   LibAsyncCtx_t (async.cpp)   the stringstream bytes are appended to,   *)
(*   Processor     (bulk.cpp)    the loop that reads blocks and runs them, *)
(*   InputParser   (bulk.cpp)    the line parser that groups commands,     *)
(*   CommandQueue  (bulk.cpp)    the queue the current block is built in.  *)
(*                                                                         *)
(* The stream holds symbols: a character of a command, a brace, or the     *)
(* line end.  A step of the model is one iteration of the loop in          *)
(* read_next_bulk, that is one call of read_command with everything the    *)
(* loop does about its outcome.  The whole call runs under guard_mx, so    *)
(* nothing else touches these variables between two of its steps.          *)
(***************************************************************************)
EXTENDS Naturals, Sequences

CONSTANTS
  Char,        (* The characters of commands, other than the braces.         *)
  OpenBrace,   (* The character that, alone on a line, opens a dynamic block *)
  CloseBrace,  (* and the one that closes it.                                *)
  NL,          (* The line end.                                              *)
  Buffer,      (* The contents a call of libasync_receive may carry.         *)
  Script,      (* The contents the standard input of `async` may have.       *)
  MaxReceive,  (* Bound: how many times a client calls libasync_receive.     *)
  ChunkSize    (* The sizes of static blocks a session may be given.         *)

Symbol == Char \union {OpenBrace, CloseBrace, NL}

ASSUME SymbolAssumption ==
  /\ OpenBrace \notin Char /\ CloseBrace \notin Char /\ NL \notin Char
  /\ OpenBrace # CloseBrace /\ OpenBrace # NL /\ CloseBrace # NL

ASSUME InputAssumption ==
  /\ Buffer \subseteq Seq(Symbol)
  /\ Script \subseteq Seq(Symbol)
  /\ MaxReceive \in Nat

(* libasync_connect takes any size_t: zero is not refused there. *)
ASSUME ChunkAssumption == ChunkSize \subseteq Nat

VARIABLES
  chunk_size_,           (* The size of a static block.                      *)
  stream,                (* Unread symbols of the session's stringstream     *)
  eofbit, failbit,       (* and its state bits.                              *)
  save_status_at_stop_,  (* Parser: TRUE while a receive is being processed, *)
  cmd_count_,            (* commands read since the last block boundary,     *)
  block_count_,          (* depth of open braces,                            *)
  last_cmd_,             (* text of the last command read,                   *)
  last_stat_,            (* the status machine,                              *)
  last_bulk_id_,         (* number of the block being read.                  *)
  q_,                    (* The input queue: the block being built,          *)
  q_bulk_size_,          (* ICommandQueue::bulk_size_                        *)
  q_bulk_id_,            (* and ICommandQueue::bulk_id_.                     *)
  bulk_id,               (* The static counter blocks are numbered from.     *)
  bulk_size,             (* Local of read_next_bulk.                         *)
  save_status_at_stop0,  (* Local of Processor::process.                     *)
  pc,                    (* Where the session is, see PC.                    *)
  received,              (* History: the buffers the client has sent,        *)
  executed,              (* the blocks given to the executor, in order,      *)
  stray                  (* and how many unmatched closing lines were read.  *)

streamVars == <<stream, eofbit, failbit>>
parserVars == <<cmd_count_, block_count_, last_cmd_, last_stat_>>
idVars     == <<last_bulk_id_, q_bulk_id_, bulk_id>>
queueVars  == <<q_, q_bulk_size_, bulk_size, executed>>
callVars   == <<save_status_at_stop_, save_status_at_stop0, pc>>
vars == <<chunk_size_, streamVars, parserVars, idVars, queueVars, callVars,
          received, stray>>

(* "idle": between calls; "process": at the head of the loop of            *)
(* Processor::process; "bulk": at the head of the loop of read_next_bulk;  *)
(* "closed": the context is erased, or the standalone program has ended.   *)
PC == {"idle", "process", "bulk", "closed"}
Status == {"kReading", "kReady", "kIgnore", "kStop"}

Line == Seq(Symbol \ {NL})
Command == [type : {"cmdFirst", "cmdSimple", "cmdLast"}, cmd : Line, bulk_id : Nat]
Bulk == [id : Nat, kind : {"static", "dynamic"}, cmds : Seq(Command)]

Init ==
  /\ chunk_size_ \in ChunkSize
  /\ stream = <<>> /\ eofbit = FALSE /\ failbit = FALSE
  /\ save_status_at_stop_ = FALSE /\ save_status_at_stop0 = FALSE
  /\ cmd_count_ = 0 /\ block_count_ = 0 /\ last_cmd_ = <<>>
  /\ last_stat_ = "kReading"
  /\ last_bulk_id_ = 0 /\ q_bulk_id_ = 0 /\ bulk_id = 0
  /\ q_ = <<>> /\ q_bulk_size_ = 0 /\ bulk_size = 0
  /\ pc = "idle"
  /\ received = <<>> /\ executed = <<>> /\ stray = 0

-----------------------------------------------------------------------------
(* The stream: std::stringstream as LibAsyncCtx_t and read_command use it. *)

(* Mutant of Feed: the bits of a stream that failed are not cleared. *)
FeedNoClear(data) ==
  /\ stream' = IF eofbit \/ failbit THEN stream ELSE stream \o data
  /\ UNCHANGED <<eofbit, failbit>>

(* `if( !*iostream() ) clear()`, then `*iostream() << data`: only failbit  *)
(* makes the stream false, but the insertion writes nothing, and fails,    *)
(* unless all bits are clear.                                              *)
Feed(data) ==
  LET kept == eofbit /\ ~failbit
  IN  IF data # <<>> /\ kept
      THEN /\ failbit' = TRUE
           /\ UNCHANGED <<stream, eofbit>>
      ELSE /\ stream' = stream \o data
           /\ failbit' = FALSE
           /\ eofbit' = kept

(* The line std::getline finds at the front of s has n symbols. *)
IsLine(s, n) ==
  /\ \A i \in 1..n : s[i] # NL
  /\ n < Len(s) => s[n + 1] = NL

CanGetLine == ~eofbit /\ ~failbit /\ stream # <<>>

(* getline succeeds: the line and its end are extracted; a line that the   *)
(* end of the stream cuts short is returned too, and leaves eofbit.        *)
TakeLine(n) ==
  /\ CanGetLine
  /\ IsLine(stream, n)
  /\ stream' = SubSeq(stream, n + 2, Len(stream))
  /\ eofbit' = (n = Len(stream))
  /\ UNCHANGED failbit

(* getline finds nothing, or a stream that is not good. *)
FailLine ==
  /\ ~CanGetLine
  /\ failbit' = TRUE
  /\ eofbit' = (eofbit \/ ~failbit)
  /\ UNCHANGED stream

-----------------------------------------------------------------------------
(* Mutant of SetStatus: a block boundary does not restart the count. *)
SetStatusNoReset(st, cc, bc) ==
  LET dropped == st # last_stat_ /\ st = "kStop" /\ ~save_status_at_stop_
  IN  /\ last_stat_' = st
      /\ cmd_count_' = IF dropped THEN 0 ELSE cc
      /\ block_count_' = IF dropped THEN 0 ELSE bc

(* InputParser::set_status, called when the counters are cc and bc. *)
SetStatus(st, cc, bc) ==
  LET changed == st # last_stat_
      dropped == changed /\ st = "kStop" /\ ~save_status_at_stop_
  IN  /\ last_stat_' = st
      /\ cmd_count_' = IF dropped \/ (changed /\ st = "kReady") THEN 0 ELSE cc
      /\ block_count_' = IF dropped THEN 0 ELSE bc

(* create_command: a SimpleCommand tagged with the parser's block number. *)
NewCommand(type, cmd) == [type |-> type, cmd |-> cmd, bulk_id |-> last_bulk_id_]

(* kReading in read_next_bulk: the command is pushed, the first one of a   *)
(* block in the decorator that prints the heading of the line.             *)
PushCommand(cmd) ==
  /\ q_' = Append(q_, NewCommand(IF q_ = <<>> THEN "cmdFirst" ELSE "cmdSimple", cmd))
  /\ bulk_size' = bulk_size + 1
  /\ UNCHANGED <<q_bulk_size_, executed, callVars>>

(* kReady when there is nothing to run: the loop goes on. *)
NothingReady == bulk_size = 0 /\ q_ = <<>>

(* kReady otherwise: a closing entry is pushed, read_next_bulk returns and *)
(* Processor::exec_queue moves bulk_size_ commands out of the queue into   *)
(* an array for the workers.                                               *)
ExecQueue(kind) ==
  LET cmds == IF q_ = <<>> THEN q_ ELSE Append(q_, NewCommand("cmdLast", <<>>))
      size == IF q_ = <<>> THEN bulk_size ELSE bulk_size + 1
      moved == IF size < Len(cmds) THEN size ELSE Len(cmds)
  IN  /\ bulk_size' = size
      /\ q_bulk_size_' = size
      /\ executed' = Append(executed, [id   |-> q_bulk_id_,
                                       kind |-> kind,
                                       cmds |-> SubSeq(cmds, 1, moved)])
      /\ q_' = SubSeq(cmds, moved + 1, Len(cmds))
      /\ pc' = "process"
      /\ UNCHANGED <<save_status_at_stop_, save_status_at_stop0>>

(* kStop: read_next_bulk returns, Processor::process ends its loop, drops  *)
(* the queue unless the state is to be kept, and restores the flag.  A     *)
(* receive returns; a disconnect erases the context.                       *)
StopProcessing ==
  /\ q_' = IF save_status_at_stop_ THEN q_ ELSE <<>>
  /\ q_bulk_size_' = bulk_size
  /\ save_status_at_stop_' = save_status_at_stop0
  /\ pc' = IF save_status_at_stop_ THEN "idle" ELSE "closed"
  /\ UNCHANGED <<bulk_size, executed, save_status_at_stop0>>

(* What the loops of read_next_bulk and Processor::process do once         *)
(* read_command has left status st and last command cmd.                   *)
OnStatus(st, cmd, kind) ==
  \/ st = "kIgnore" /\ UNCHANGED <<queueVars, callVars>>
  \/ st = "kReading" /\ PushCommand(cmd)
  \/ st = "kReady" /\ NothingReady /\ UNCHANGED <<queueVars, callVars>>
  \/ st = "kReady" /\ ~NothingReady /\ ExecQueue(kind)
  \/ st = "kStop" /\ StopProcessing

-----------------------------------------------------------------------------
(* The steps of a call in progress. *)

(* Mutant of CarriedSize: the size of a block begun earlier is forgotten. *)
CarriedSizeLost == 0

(* The size read_next_bulk starts from: of a block begun by an earlier     *)
(* call, what that call counted.                                           *)
CarriedSize ==
  IF (save_status_at_stop_ /\ last_stat_ # "kReady") \/ q_ # <<>>
  THEN q_bulk_size_ ELSE 0

(* Mutants of TakesNumber: every call, or only the first, takes a number. *)
TakesNumberAlways == TRUE
TakesNumberOnce == bulk_id = 0

(* A block that starts on an empty queue takes a new number. *)
TakesNumber == q_ = <<>>

(* Entry of read_next_bulk. *)
ReadNextBulk ==
  /\ pc = "process"
  /\ bulk_size' = CarriedSize
  /\ IF TakesNumber
     THEN /\ bulk_id' = bulk_id + 1
          /\ last_bulk_id_' = bulk_id'
          /\ q_bulk_id_' = bulk_id'
     ELSE UNCHANGED idVars
  /\ pc' = "bulk"
  /\ UNCHANGED <<chunk_size_, streamVars, parserVars, q_, q_bulk_size_, executed,
                 save_status_at_stop_, save_status_at_stop0, received, stray>>

(* Mutant of ChunkComplete: the block is let grow by one command. *)
ChunkCompleteLate ==
  /\ \/ ~save_status_at_stop_ /\ cmd_count_ > 0 /\ last_stat_ = "kStop"
     \/ cmd_count_ > chunk_size_
  /\ block_count_ = 0

(* read_command reports a block boundary without reading: the static block *)
(* has chunk_size_ commands, or the session is closing on a shorter one.   *)
ChunkComplete ==
  /\ \/ ~save_status_at_stop_ /\ cmd_count_ > 0 /\ last_stat_ = "kStop"
     \/ cmd_count_ = chunk_size_
  /\ block_count_ = 0

EndOfChunk ==
  /\ pc = "bulk"
  /\ ChunkComplete
  /\ SetStatus("kReady", cmd_count_, block_count_)
  /\ OnStatus("kReady", last_cmd_, "static")
  /\ UNCHANGED <<chunk_size_, streamVars, last_cmd_, idVars, received, stray>>

(* Mutants of EndStatus: the end of the input always stops; it never stops *)
(* a session that is closing between blocks.                               *)
EndStatusStops == "kStop"
EndStatusNeverStops ==
  IF save_status_at_stop_ \/ block_count_ > 0 THEN "kStop" ELSE "kReady"

(* getline fails: the status read_command chooses then. *)
EndStatus ==
  IF save_status_at_stop_ \/ block_count_ > 0 \/ last_stat_ = "kReady"
  THEN "kStop" ELSE "kReady"

EndOfInput ==
  /\ pc = "bulk"
  /\ ~ChunkComplete
  /\ FailLine
  /\ SetStatus(EndStatus, cmd_count_, block_count_)
  /\ OnStatus(EndStatus, last_cmd_, "static")
  /\ UNCHANGED <<chunk_size_, last_cmd_, idVars, received, stray>>

(* The line is a command. *)
ReadCommand(line) ==
  /\ line \notin {<<OpenBrace>>, <<CloseBrace>>}
  /\ last_cmd_' = line
  /\ SetStatus("kReading", cmd_count_ + 1, block_count_)
  /\ OnStatus("kReading", line, "static")
  /\ UNCHANGED stray

(* Mutant of BeginBlock: a nested opening brace ends a block too. *)
BeginBlockNested(line) ==
  /\ line = <<OpenBrace>>
  /\ SetStatus("kReady", cmd_count_, block_count_ + 1)
  /\ OnStatus("kReady", last_cmd_, "static")
  /\ UNCHANGED <<last_cmd_, stray>>

(* The line is an opening brace: only the outermost one ends a block. *)
BeginBlock(line) ==
  LET st == IF block_count_ = 0 THEN "kReady" ELSE "kIgnore"
  IN  /\ line = <<OpenBrace>>
      /\ SetStatus(st, cmd_count_, block_count_ + 1)
      /\ OnStatus(st, last_cmd_, "static")
      /\ UNCHANGED <<last_cmd_, stray>>

(* Mutant of EndBlock: an unmatched closing brace is counted. *)
EndBlockUnmatched(line) ==
  LET st == IF block_count_ = 1 THEN "kReady" ELSE "kIgnore"
  IN  /\ line = <<CloseBrace>>
      /\ SetStatus(st, cmd_count_, block_count_ - 1)
      /\ OnStatus(st, last_cmd_, "dynamic")
      /\ UNCHANGED <<last_cmd_, stray>>

(* The line is a closing brace that matches: the outermost one ends the    *)
(* dynamic block.                                                          *)
EndBlock(line) ==
  LET st == IF block_count_ = 1 THEN "kReady" ELSE "kIgnore"
  IN  /\ line = <<CloseBrace>>
      /\ block_count_ > 0
      /\ SetStatus(st, cmd_count_, block_count_ - 1)
      /\ OnStatus(st, last_cmd_, "dynamic")
      /\ UNCHANGED <<last_cmd_, stray>>

(* The line is a closing brace that matches nothing: no status is set, so  *)
(* the loop acts on the previous status and the previous command again.    *)
StrayClose(line) ==
  /\ line = <<CloseBrace>>
  /\ block_count_ = 0
  /\ OnStatus(last_stat_, last_cmd_, "static")
  /\ stray' = stray + 1
  /\ UNCHANGED parserVars

(* read_command gets a line and acts on its token. *)
ReadLine ==
  /\ pc = "bulk"
  /\ ~ChunkComplete
  /\ \E n \in 0..Len(stream) :
       /\ TakeLine(n)
       /\ LET line == SubSeq(stream, 1, n)
          IN  \/ ReadCommand(line)
              \/ BeginBlock(line)
              \/ EndBlock(line)
              \/ StrayClose(line)
  /\ UNCHANGED <<chunk_size_, idVars, received>>

-----------------------------------------------------------------------------
(* The calls. *)

(* LibAsyncCtx_t::receive up to the loop of Processor::process. *)
Process(data, save) ==
  /\ pc = "idle"
  /\ Feed(data)
  /\ save_status_at_stop0' = save_status_at_stop_
  /\ save_status_at_stop_' = save
  /\ pc' = "process"
  /\ UNCHANGED <<chunk_size_, parserVars, idVars, queueVars, stray>>

(* libasync_receive. *)
Receive(buf) ==
  /\ Len(received) < MaxReceive
  /\ Process(buf, TRUE)
  /\ received' = Append(received, buf)

(* libasync_disconnect. *)
Disconnect ==
  /\ Process(<<>>, FALSE)
  /\ UNCHANGED received

(* The standalone program: one process() over the whole standard input. *)
Standalone(text) ==
  /\ received = <<>>
  /\ Process(text, FALSE)
  /\ received' = <<text>>

Step == ReadNextBulk \/ EndOfChunk \/ EndOfInput \/ ReadLine

Next ==
  \/ \E buf \in Buffer : Receive(buf)
  \/ \E text \in Script : Standalone(text)
  \/ Disconnect
  \/ Step

Spec == Init /\ [][Next]_vars

(* A call that holds guard_mx runs: nothing it does can block. *)
FairSpec == Spec /\ WF_vars(Step)

-----------------------------------------------------------------------------
(* Properties. *)

(* Every variable holds a value of the type the source declares for it.    *)
TypeOK ==
  /\ chunk_size_ \in ChunkSize
  /\ stream \in Seq(Symbol) /\ eofbit \in BOOLEAN /\ failbit \in BOOLEAN
  /\ save_status_at_stop_ \in BOOLEAN /\ save_status_at_stop0 \in BOOLEAN
  /\ cmd_count_ \in Nat /\ block_count_ \in Nat
  /\ last_cmd_ \in Line /\ last_stat_ \in Status
  /\ last_bulk_id_ \in Nat /\ q_bulk_id_ \in Nat /\ bulk_id \in Nat
  /\ q_ \in Seq(Command) /\ q_bulk_size_ \in Nat /\ bulk_size \in Nat
  /\ pc \in PC
  /\ received \in Seq(Seq(Symbol)) /\ executed \in Seq(Bulk) /\ stray \in Nat

(* A block of the executor prints as one line: a heading command first,    *)
(* the line end last, delimited commands between, and at least one command.*)
(* read_next_bulk counts what it pushes across calls, exec_queue takes that*)
(* many: one too few would carry a line end into the next block.           *)
IsWholeBlock(cmds) ==
  /\ Len(cmds) >= 2
  /\ \A i \in 1..Len(cmds) :
       cmds[i].type = IF i = Len(cmds) THEN "cmdLast"
                      ELSE IF i = 1 THEN "cmdFirst" ELSE "cmdSimple"

BlocksAreWhole == \A k \in 1..Len(executed) : IsWholeBlock(executed[k].cmds)

(* Block numbers are positive and strictly increase: the worker queues     *)
(* start with number 0 and drop a block whose number is the one they hold. *)
BlockIdsIncrease ==
  /\ \A k \in 1..Len(executed) : executed[k].id > 0
  /\ \A j, k \in 1..Len(executed) : j < k => executed[j].id < executed[k].id

(* A command is tagged with the number of the block it is executed in, also*)
(* when the block was begun by an earlier receive.                         *)
CommandsCarryBlockId ==
  \A k \in 1..Len(executed) : \A i \in 1..Len(executed[k].cmds) :
    executed[k].cmds[i].bulk_id = executed[k].id

(* A static block has at most chunk_size_ commands, however the input is   *)
(* cut into receives and whatever dynamic blocks precede it, as long as no *)
(* closing brace was unmatched.                                            *)
StaticBlocksBounded ==
  stray = 0 => \A k \in 1..Len(executed) :
                 executed[k].kind = "static" => Len(executed[k].cmds) - 1 <= chunk_size_

(* A step drops queued commands without running them only when the session *)
(* ends inside an open dynamic block (no unmatched braces so far).         *)
Drops == q_ # <<>> /\ q_' = <<>> /\ executed' = executed
DropsOnlyOpenBlock ==
  [][Drops /\ stray' = 0 => pc' = "closed" /\ block_count_ > 0]_vars

(* Every call returns: the loop of Processor::process ends for any input.  *)
CallReturns == pc \in {"process", "bulk"} ~> pc \in {"idle", "closed"}

-----------------------------------------------------------------------------
(* The inductive invariant behind the safety properties. *)

(* The size counted across calls is the length of the queue, except between*)
(* a block's execution and the next entry of read_next_bulk.               *)
SizeAgrees ==
  /\ pc = "bulk" => bulk_size = Len(q_)
  /\ pc = "idle" => q_bulk_size_ = Len(q_)
  /\ pc = "process" => \/ q_bulk_size_ = Len(q_)
                       \/ q_ = <<>> /\ last_stat_ = "kReady"

(* The queue holds the beginning of a block, tagged with its number. *)
QueueIsBlockStart ==
  \A i \in 1..Len(q_) :
    /\ q_[i].type = IF i = 1 THEN "cmdFirst" ELSE "cmdSimple"
    /\ q_[i].bulk_id = bulk_id

(* After a block boundary nothing is pending. *)
ReadyIsEmpty == last_stat_ = "kReady" => q_ = <<>> /\ cmd_count_ = 0

(* The number of the block being read is newer than those executed. *)
NumbersAgree ==
  /\ last_bulk_id_ = bulk_id /\ q_bulk_id_ = bulk_id
  /\ \A k \in 1..Len(executed) : executed[k].id <= bulk_id
  /\ pc = "bulk" \/ q_ # <<>> =>
       bulk_id > 0 /\ \A k \in 1..Len(executed) : executed[k].id < bulk_id

(* Without unmatched braces the parser's count is the queue's length, and  *)
(* outside braces it is within the chunk.                                  *)
CountAgrees ==
  stray = 0 /\ pc # "closed" =>
    /\ cmd_count_ = Len(q_)
    /\ block_count_ = 0 => cmd_count_ <= chunk_size_

(* The inductive invariant. *)
IInv ==
  /\ SizeAgrees /\ QueueIsBlockStart /\ ReadyIsEmpty /\ NumbersAgree /\ CountAgrees
  /\ BlocksAreWhole /\ BlockIdsIncrease /\ CommandsCarryBlockId /\ StaticBlocksBounded

=============================================================================
