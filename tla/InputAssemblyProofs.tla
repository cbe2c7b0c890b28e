------------------------ MODULE InputAssemblyProofs ------------------------
(***************************************************************************)
(* Proofs about what a session makes of its whole input: the blocks are    *)
(* those the input asks for, and the session implements BulkAssembly.      *)
(***************************************************************************)
EXTENDS InputParserProperties, InputParserProofs, InductionLemmas

-----------------------------------------------------------------------------
(* The texts of commands and blocks. *)

(* They are lines, as many as there are commands.                          *)
LEMMA TextsType ==
  ASSUME NEW cmds \in Seq(Command), NEW n \in 0..Len(cmds)
  PROVE  /\ Texts(cmds, n) \in Seq(Line) /\ Len(Texts(cmds, n)) = n
         /\ \A i \in 1..n : Texts(cmds, n)[i] = cmds[i].cmd
<1>1. ASSUME NEW i \in 1..n PROVE cmds[i].cmd \in Line
  <2>1. cmds[i] \in Command
    BY ElementOfSeq
  <2> QED
    BY <2>1 DEF Command
<1>2. n \in Nat
  OBVIOUS
<1> QED
  BY <1>1, <1>2 DEF Texts

(* The pending texts are those of the queue.                               *)
LEMMA PendingType ==
  ASSUME TypeOK
  PROVE  /\ Pending \in Seq(Line) /\ Len(Pending) = Len(q_) /\ Len(q_) \in Nat
         /\ Pending = <<>> <=> q_ = <<>>
<1>1. q_ \in Seq(Command) /\ Len(q_) \in Nat
  BY DEF TypeOK
<1>2. Pending \in Seq(Line) /\ Len(Pending) = Len(q_)
  BY <1>1, TextsType DEF Pending
<1> QED
  BY <1>1, <1>2

(* The texts of the blocks.                                                *)
LEMMA BlocksType ==
  ASSUME TypeOK
  PROVE  Len(Blocks) = Len(executed) /\ DOMAIN Blocks = 1..Len(executed) /\ Len(executed) \in Nat
  BY DEF TypeOK, Blocks

-----------------------------------------------------------------------------
(* No step changes the size of a static block.                             *)
LEMMA ChunkStays == ASSUME [Next]_vars PROVE UNCHANGED chunk_size_
  BY DEF Next, Step, vars, Receive, Standalone, Disconnect, Process,
         ReadNextBulk, EndOfChunk, EndOfInput, ReadLine

-----------------------------------------------------------------------------
(* What a step does to the texts. *)

Stays == Blocks' = Blocks /\ Pending' = Pending
Takes(line) == Blocks' = Blocks /\ Pending' = Append(Pending, line)
Flushes ==
  /\ Blocks' = IF Pending = <<>> THEN Blocks ELSE Append(Blocks, Pending)
  /\ Pending' = <<>>

(* The queue and the blocks executed are not touched.                      *)
LEMMA StaysWhenUnchanged == ASSUME UNCHANGED <<q_, executed>> PROVE Stays
  BY DEF Stays, Blocks, Pending, Texts

(* A command is pushed.                                                    *)
LEMMA PushTakes ==
  ASSUME TypeOK, NEW cmd \in Line, PushCommand(cmd)
  PROVE  Takes(cmd)
<1> PICK c : c = NewCommand(IF q_ = <<>> THEN "cmdFirst" ELSE "cmdSimple", cmd)
  OBVIOUS
<1>1. c \in Command /\ c.cmd = cmd
  BY NewCommandType DEF NewCommand
<1>2. q_ \in Seq(Command) /\ q_' = Append(q_, c) /\ executed' = executed
  BY DEF TypeOK, PushCommand
<1>3. /\ Len(q_) \in Nat /\ q_' \in Seq(Command) /\ Len(q_') = Len(q_) + 1
      /\ \A i \in 1..Len(q_) : q_'[i] = q_[i]
      /\ q_'[Len(q_) + 1] = c
  BY <1>1, <1>2, AppendProperties
<1>4. /\ Pending \in Seq(Line) /\ Len(Pending) = Len(q_)
      /\ \A i \in 1..Len(q_) : Pending[i] = q_[i].cmd
  BY <1>2, <1>3, TextsType DEF Pending
<1>5. /\ Pending' \in Seq(Line) /\ Len(Pending') = Len(q_) + 1
      /\ \A i \in 1..(Len(q_) + 1) : Pending'[i] = q_'[i].cmd
  <2>1. Pending' = Texts(q_', Len(q_'))
    BY DEF Pending, Texts
  <2> QED
    BY <1>3, <2>1, TextsType
<1>6. Pending' = Append(Pending, cmd)
  <2>1. /\ Append(Pending, cmd) \in Seq(Line) /\ Len(Append(Pending, cmd)) = Len(q_) + 1
        /\ \A i \in 1..Len(q_) : Append(Pending, cmd)[i] = Pending[i]
        /\ Append(Pending, cmd)[Len(q_) + 1] = cmd
    BY <1>4, AppendProperties
  <2>2. \A i \in 1..(Len(q_) + 1) : Pending'[i] = Append(Pending, cmd)[i]
    BY <1>1, <1>3, <1>4, <1>5, <2>1
  <2> HIDE DEF Pending
  <2> QED
    BY <1>5, <2>1, <2>2, SeqEqual
<1> QED
  BY <1>2, <1>6 DEF Takes, Blocks, Texts

(* exec_queue takes all that is pending as a block.                        *)
LEMMA ExecFlushes ==
  ASSUME TypeOK, IInv, pc = "bulk", NEW kind \in {"static", "dynamic"}, ~NothingReady,
         ExecQueue(kind)
  PROVE  Flushes
<1>1. PICK cmds \in Seq(Command) :
        /\ executed' = Append(executed, [id |-> bulk_id, kind |-> kind, cmds |-> cmds])
        /\ Len(cmds) = Len(q_) + 1
        /\ \A i \in 1..Len(q_) : cmds[i] = q_[i]
  BY ExecQueueTakesAll DEF IInv
<1> PICK b : b = [id |-> bulk_id, kind |-> kind, cmds |-> cmds]
  OBVIOUS
<1>2. q_ # <<>> /\ q_' = <<>> /\ q_ \in Seq(Command) /\ Len(q_) \in Nat
  BY ExecQueueTakesAll DEF IInv, TypeOK
<1>3. /\ executed \in Seq(Bulk) /\ Len(executed) \in Nat /\ b \in Bulk /\ b.cmds = cmds
      /\ executed' = Append(executed, b)
  BY <1>1 DEF TypeOK, Bulk
<1>4. /\ Len(executed') = Len(executed) + 1 /\ executed'[Len(executed) + 1] = b
      /\ \A k \in 1..Len(executed) : executed'[k] = executed[k]
  BY <1>3, AppendProperties
<1>5. Texts(cmds, Len(cmds) - 1) = Pending /\ Pending \in Seq(Line) /\ Pending # <<>>
  <2>1. Len(cmds) - 1 = Len(q_) /\ Len(q_) \in 0..Len(cmds)
    BY <1>1, <1>2
  <2>2. Pending \in Seq(Line) /\ Pending # <<>>
    BY <1>2, PendingType
  <2> QED
    BY <1>1, <2>1, <2>2 DEF Texts, Pending
<1>6. Pending' = <<>>
  BY <1>2 DEF Pending, Texts
<1>7. Blocks' = Append(Blocks, Pending)
  <2> DEFINE T(c) == Texts(c, Len(c) - 1)
             m == Len(executed)
             S == {T(executed[k].cmds) : k \in 1..m} \union {Pending}
  <2>1. /\ Blocks = [k \in 1..m |-> T(executed[k].cmds)]
        /\ Blocks' = [k \in 1..(m + 1) |-> T(executed'[k].cmds)]
    BY <1>4 DEF Blocks, Texts
  <2>2. T(executed'[m + 1].cmds) = Pending
    BY <1>3, <1>4, <1>5
  <2>3. \A k \in 1..m : executed'[k] = executed[k]
    BY <1>4
  <2> HIDE DEF T
  <2>4. Blocks \in Seq(S) /\ Len(Blocks) = m
    BY <1>3, <2>1
  <2>5. Blocks' \in Seq(S) /\ Len(Blocks') = m + 1
    BY <1>3, <2>1, <2>2, <2>3
  <2>6. Append(Blocks, Pending) \in Seq(S) /\ Len(Append(Blocks, Pending)) = m + 1
        /\ \A k \in 1..m : Append(Blocks, Pending)[k] = Blocks[k]
        /\ Append(Blocks, Pending)[m + 1] = Pending
    BY <2>4, AppendProperties
  <2>7. \A k \in 1..(m + 1) : Blocks'[k] = Append(Blocks, Pending)[k]
    BY <1>3, <2>1, <2>2, <2>3, <2>6
  <2> HIDE DEF S
  <2> QED
    BY <2>5, <2>6, <2>7, SeqEqual
<1> QED
  BY <1>5, <1>6, <1>7 DEF Flushes

(* What the loops do about a status.                                       *)
LEMMA OnStatusSteps ==
  ASSUME TypeOK, IInv, pc = "bulk", NEW st, NEW cmd \in Line,
         NEW kind \in {"static", "dynamic"}, OnStatus(st, cmd, kind), st # "kStop"
  PROVE  /\ st \in {"kIgnore", "kReading", "kReady"}
         /\ st = "kIgnore" => Stays
         /\ st = "kReading" => Takes(cmd)
         /\ st = "kReady" => Flushes
         /\ pc' \in {"process", "bulk"}
         /\ UNCHANGED <<save_status_at_stop_, save_status_at_stop0>>
<1>1. CASE st = "kIgnore" /\ UNCHANGED <<queueVars, callVars>>
  BY <1>1, StaysWhenUnchanged DEF queueVars, callVars
<1>2. CASE st = "kReading" /\ PushCommand(cmd)
  BY <1>2, PushTakes DEF PushCommand, callVars
<1>3. CASE st = "kReady" /\ NothingReady /\ UNCHANGED <<queueVars, callVars>>
  <2>1. Stays /\ Pending = <<>>
    BY <1>3, StaysWhenUnchanged, PendingType DEF queueVars, NothingReady
  <2> QED
    BY <1>3, <2>1 DEF Stays, Flushes, callVars
<1>4. CASE st = "kReady" /\ ~NothingReady /\ ExecQueue(kind)
  BY <1>4, ExecFlushes DEF ExecQueue
<1> QED
  BY <1>1, <1>2, <1>3, <1>4 DEF OnStatus

-----------------------------------------------------------------------------
(* The steps of a session whose client closes no brace it has not opened.  *)

(* A line is read: a command, or a brace that is the outermost or not.     *)
ReadsLine(line) ==
  \/ /\ line \notin {<<OpenBrace>>, <<CloseBrace>>}
     /\ Takes(line) /\ block_count_' = block_count_
     /\ block_count_ = 0 => Len(Pending) < chunk_size_
  \/ /\ line = <<OpenBrace>>
     /\ IF block_count_ = 0 THEN Flushes ELSE Stays
     /\ block_count_' = block_count_ + 1
  \/ /\ line = <<CloseBrace>> /\ block_count_ > 0
     /\ IF block_count_ = 1 THEN Flushes ELSE Stays
     /\ block_count_' = block_count_ - 1

(* So a step that reads a line does.                                       *)
LEMMA ReadLineSteps ==
  ASSUME TypeOK, IInv, ReadLine, stray' = 0
  PROVE  /\ pc = "bulk" /\ stray = 0 /\ UNCHANGED received
         /\ \E n \in 0..Len(stream) :
              TakeLine(n) /\ SubSeq(stream, 1, n) \in Line /\ ReadsLine(SubSeq(stream, 1, n))
         /\ pc' \in {"process", "bulk"} /\ last_stat_' # "kStop"
         /\ UNCHANGED <<save_status_at_stop_, save_status_at_stop0>>
<1>1. PICK n \in 0..Len(stream) :
        /\ TakeLine(n)
        /\ LET line == SubSeq(stream, 1, n)
           IN  ReadCommand(line) \/ BeginBlock(line) \/ EndBlock(line) \/ StrayClose(line)
  BY DEF ReadLine
<1> PICK line : line = SubSeq(stream, 1, n)
  OBVIOUS
<1>2. /\ pc = "bulk" /\ ~ChunkComplete /\ UNCHANGED received
      /\ block_count_ \in Nat /\ cmd_count_ \in Nat /\ stray \in Nat /\ last_cmd_ \in Line
  BY DEF ReadLine, TypeOK
<1>3. line \in Line
  BY <1>1, LineType DEF TakeLine, TypeOK
<1>4. CASE ReadCommand(line)
  <2>1. /\ SetStatus("kReading", cmd_count_ + 1, block_count_)
        /\ OnStatus("kReading", line, "static") /\ stray' = stray
        /\ line \notin {<<OpenBrace>>, <<CloseBrace>>}
    BY <1>4 DEF ReadCommand
  <2>2. last_stat_' = "kReading" /\ block_count_' = block_count_
    BY <2>1 DEF SetStatus
  <2>3. /\ Takes(line) /\ pc' \in {"process", "bulk"}
        /\ UNCHANGED <<save_status_at_stop_, save_status_at_stop0>>
    BY <1>2, <1>3, <2>1, OnStatusSteps
  <2>4. block_count_ = 0 => Len(Pending) < chunk_size_
    <3>1. stray = 0 /\ Len(Pending) = Len(q_)
      BY <2>1, PendingType
    <3>2. cmd_count_ = Len(q_) /\ (block_count_ = 0 => cmd_count_ <= chunk_size_)
      BY <1>2, <3>1 DEF IInv, CountAgrees
    <3> QED
      BY <1>2, <3>1, <3>2, ChunkIsNat DEF ChunkComplete
  <2> QED
    BY <1>1, <1>2, <1>3, <2>1, <2>2, <2>3, <2>4 DEF ReadsLine
<1>5. CASE BeginBlock(line)
  <2>1. PICK st \in {"kReady", "kIgnore"} :
          /\ st = IF block_count_ = 0 THEN "kReady" ELSE "kIgnore"
          /\ SetStatus(st, cmd_count_, block_count_ + 1)
          /\ OnStatus(st, last_cmd_, "static") /\ stray' = stray /\ line = <<OpenBrace>>
    BY <1>5 DEF BeginBlock
  <2>2. last_stat_' = st /\ block_count_' = block_count_ + 1
    BY <2>1 DEF SetStatus
  <2>3. /\ st = "kReady" => Flushes
        /\ st = "kIgnore" => Stays
        /\ pc' \in {"process", "bulk"}
        /\ UNCHANGED <<save_status_at_stop_, save_status_at_stop0>>
    BY <1>2, <2>1, OnStatusSteps
  <2> QED
    BY <1>1, <1>2, <1>3, <2>1, <2>2, <2>3 DEF ReadsLine
<1>6. CASE EndBlock(line)
  <2>1. PICK st \in {"kReady", "kIgnore"} :
          /\ st = IF block_count_ = 1 THEN "kReady" ELSE "kIgnore"
          /\ SetStatus(st, cmd_count_, block_count_ - 1)
          /\ OnStatus(st, last_cmd_, "dynamic") /\ stray' = stray
          /\ line = <<CloseBrace>> /\ block_count_ > 0
    BY <1>6 DEF EndBlock
  <2>2. last_stat_' = st /\ block_count_' = block_count_ - 1
    BY <2>1 DEF SetStatus
  <2>3. /\ st = "kReady" => Flushes
        /\ st = "kIgnore" => Stays
        /\ pc' \in {"process", "bulk"}
        /\ UNCHANGED <<save_status_at_stop_, save_status_at_stop0>>
    BY <1>2, <2>1, OnStatusSteps
  <2> QED
    BY <1>1, <1>2, <1>3, <2>1, <2>2, <2>3 DEF ReadsLine
<1>7. ~StrayClose(line)
  BY <1>2 DEF StrayClose
<1> QED
  BY <1>1, <1>4, <1>5, <1>6, <1>7

(* A static block is complete, or the last one of a session that closes.   *)
LEMMA EndOfChunkSteps ==
  ASSUME TypeOK, IInv, EndOfChunk, stray' = 0
  PROVE  /\ pc = "bulk" /\ stray = 0 /\ Flushes
         /\ block_count_ = 0 /\ block_count_' = 0 /\ last_stat_' = "kReady"
         /\ \/ Pending = <<>> \/ Len(Pending) = chunk_size_
            \/ ~save_status_at_stop_ /\ last_stat_ = "kStop"
         /\ pc' \in {"process", "bulk"}
         /\ UNCHANGED <<streamVars, received, save_status_at_stop_, save_status_at_stop0>>
<1>1. /\ pc = "bulk" /\ ChunkComplete /\ last_cmd_ \in Line
      /\ SetStatus("kReady", cmd_count_, block_count_)
      /\ OnStatus("kReady", last_cmd_, "static")
      /\ UNCHANGED <<streamVars, received, stray>>
  BY DEF EndOfChunk, TypeOK
<1>2. block_count_ = 0 /\ block_count_' = 0 /\ last_stat_' = "kReady"
  BY <1>1 DEF ChunkComplete, SetStatus
<1>3. /\ Flushes /\ pc' \in {"process", "bulk"}
      /\ UNCHANGED <<save_status_at_stop_, save_status_at_stop0>>
  BY <1>1, OnStatusSteps
<1>4. cmd_count_ = Len(Pending)
  BY <1>1, PendingType DEF IInv, CountAgrees
<1> QED
  BY <1>1, <1>2, <1>3, <1>4 DEF ChunkComplete

(* The end of the stream: a receive returns, a disconnect completes the    *)
(* last static block and then returns.                                     *)
LEMMA EndOfInputSteps ==
  ASSUME TypeOK, IInv, EndOfInput, stray' = 0, StreamInv
  PROVE  /\ pc = "bulk" /\ stray = 0 /\ stream = <<>> /\ stream' = <<>> /\ failbit'
         /\ UNCHANGED <<received, save_status_at_stop0>>
         /\ \/ /\ save_status_at_stop_ /\ Stays /\ pc' = "idle"
               /\ ~save_status_at_stop_' /\ block_count_' = block_count_
               /\ block_count_ = 0 => Len(Pending) # chunk_size_
            \/ /\ ~save_status_at_stop_ /\ pc' = "closed" /\ ~save_status_at_stop_'
               /\ Blocks' = Blocks /\ Pending' = <<>>
               /\ block_count_ > 0 \/ Pending = <<>>
            \/ /\ ~save_status_at_stop_ /\ ~save_status_at_stop_' /\ Flushes
               /\ pc' \in {"process", "bulk"} /\ last_stat_' = "kReady"
               /\ block_count_ = 0 /\ block_count_' = 0
<1>1. /\ pc = "bulk" /\ ~ChunkComplete /\ FailLine /\ last_cmd_ \in Line /\ block_count_ \in Nat
      /\ SetStatus(EndStatus, cmd_count_, block_count_)
      /\ OnStatus(EndStatus, last_cmd_, "static")
      /\ UNCHANGED <<received, stray>>
  BY DEF EndOfInput, TypeOK
<1>2. stream = <<>> /\ stream' = <<>> /\ failbit'
  BY <1>1 DEF FailLine, CanGetLine, StreamInv
<1>3. cmd_count_ = Len(Pending) /\ Len(Pending) = Len(q_) /\ save_status_at_stop_ \in BOOLEAN
  BY <1>1, PendingType DEF IInv, CountAgrees, TypeOK
<1>4. CASE EndStatus = "kReady"
  <2>1. ~save_status_at_stop_ /\ block_count_ = 0
    BY <1>1, <1>4 DEF EndStatus
  <2>2. block_count_' = 0 /\ last_stat_' = "kReady"
    BY <1>1, <1>4, <2>1 DEF SetStatus
  <2>3. /\ Flushes /\ pc' \in {"process", "bulk"}
        /\ UNCHANGED <<save_status_at_stop_, save_status_at_stop0>>
    BY <1>1, <1>4, OnStatusSteps
  <2> QED
    BY <1>1, <1>2, <2>1, <2>2, <2>3
<1>5. CASE EndStatus = "kStop"
  <2>1. StopProcessing
    BY <1>1, <1>5 DEF OnStatus
  <2>2. executed' = executed /\ save_status_at_stop0' = save_status_at_stop0
    BY <2>1 DEF StopProcessing
  <2>3. CASE save_status_at_stop_
    <3>1. /\ pc' = "idle" /\ q_' = q_ /\ save_status_at_stop_' = save_status_at_stop0
          /\ block_count_' = block_count_
      BY <1>1, <2>1, <2>3 DEF StopProcessing, SetStatus
    <3>2. Stays /\ ~save_status_at_stop_'
      BY <2>2, <3>1, StaysWhenUnchanged DEF StreamInv
    <3>3. block_count_ = 0 => Len(Pending) # chunk_size_
      BY <1>1, <1>3 DEF ChunkComplete
    <3> QED
      BY <1>1, <1>2, <2>2, <2>3, <3>1, <3>2, <3>3
  <2>4. CASE ~save_status_at_stop_
    <3>1. pc' = "closed" /\ q_' = <<>> /\ ~save_status_at_stop_'
      BY <2>1, <2>4 DEF StopProcessing, StreamInv
    <3>2. Blocks' = Blocks /\ Pending' = <<>>
      BY <2>2, <3>1 DEF Blocks, Pending, Texts
    <3>3. block_count_ > 0 \/ Pending = <<>>
      BY <1>5, <2>4, PendingType DEF EndStatus, IInv, ReadyIsEmpty
    <3> QED
      BY <1>1, <1>2, <2>2, <2>4, <3>1, <3>2, <3>3
  <2> QED
    BY <1>3, <2>3, <2>4
<1> QED
  BY <1>4, <1>5 DEF EndStatus

(* The calls and their loop.                                               *)
LEMMA ProcessSteps ==
  ASSUME NEW data, NEW save, Process(data, save), StreamInv
  PROVE  /\ pc = "idle" /\ pc' = "process" /\ stray' = stray /\ Stays
         /\ stream = <<>> /\ stream' = <<>> \o data
         /\ save_status_at_stop_' = save /\ save_status_at_stop0' = FALSE
         /\ UNCHANGED <<block_count_, last_stat_>> /\ ~failbit' /\ ~eofbit'
<1>1. /\ pc = "idle" /\ pc' = "process" /\ stray' = stray
      /\ UNCHANGED <<q_, executed, block_count_, last_stat_>>
      /\ save_status_at_stop_' = save /\ save_status_at_stop0' = save_status_at_stop_
  BY DEF Process, queueVars, parserVars
<1>2. stream = <<>> /\ ~(eofbit /\ ~failbit) /\ save_status_at_stop_ = FALSE
  BY <1>1 DEF StreamInv
<1>3. stream' = stream \o data /\ ~failbit' /\ ~eofbit'
  BY <1>2 DEF Process, Feed
<1> QED
  BY <1>1, <1>2, <1>3, StaysWhenUnchanged

(* The entry of read_next_bulk changes none of this.                       *)
LEMMA ReadNextBulkSteps ==
  ASSUME ReadNextBulk
  PROVE  /\ pc = "process" /\ pc' = "bulk" /\ stray' = stray /\ Stays
         /\ UNCHANGED <<streamVars, received, block_count_, last_stat_,
                        save_status_at_stop_, save_status_at_stop0>>
  BY StaysWhenUnchanged DEF ReadNextBulk, parserVars

-----------------------------------------------------------------------------
(* What is unread of an input. *)

(* The rest of a text, and what a line leaves of it.                       *)
LEMMA RestOfText ==
  ASSUME NEW S, NEW text \in Seq(S), NEW k \in 0..Len(text)
  PROVE  /\ Rest(text, k) \in Seq(S) /\ Len(Rest(text, k)) = Len(text) - k
         /\ Len(text) \in Nat
         /\ \A i \in 1..(Len(text) - k) : Rest(text, k)[i] = text[k + i]
  BY SubSeqProperties DEF Rest

(* The line is a piece of the text, what follows its end is the new rest.  *)
LEMMA RestOfRest ==
  ASSUME NEW S, NEW text \in Seq(S), NEW k \in 0..Len(text), NEW n \in 0..(Len(text) - k)
  PROVE  /\ SubSeq(Rest(text, k), 1, n) = SubSeq(text, k + 1, k + n)
         /\ n < Len(text) - k =>
              SubSeq(Rest(text, k), n + 2, Len(Rest(text, k))) = Rest(text, k + n + 1)
         /\ n = Len(text) - k => SubSeq(Rest(text, k), n + 2, Len(Rest(text, k))) = <<>>
<1> PICK s : s = Rest(text, k)
  OBVIOUS
<1>1. /\ s \in Seq(S) /\ Len(s) = Len(text) - k /\ Len(text) \in Nat
      /\ \A i \in 1..(Len(text) - k) : s[i] = text[k + i]
  BY RestOfText
<1>2. SubSeq(s, 1, n) = SubSeq(text, k + 1, k + n)
  BY <1>1, SMTT(20)
<1>3. ASSUME n < Len(text) - k
      PROVE  SubSeq(s, n + 2, Len(s)) = Rest(text, k + n + 1)
  BY <1>1, <1>3, SMTT(20) DEF Rest
<1>4. ASSUME n = Len(text) - k
      PROVE  SubSeq(s, n + 2, Len(s)) = <<>>
  BY <1>1, <1>4, SMT
<1> QED
  BY <1>2, <1>3, <1>4

-----------------------------------------------------------------------------
(* The stream of a session whose client closes no brace it has not opened. *)

(* A call of the library or of the program, and what it may carry.         *)
LEMMA CallSteps ==
  ASSUME TypeOK, NEW data \in Seq(Symbol), NEW save, Process(data, save), StreamInv,
         \/ save = TRUE /\ received' = Append(received, data)
         \/ save = FALSE /\ data = <<>> /\ received' = received
         \/ save = FALSE /\ received = <<>> /\ received' = <<data>>
  PROVE  StreamInv'
<1>1. /\ pc = "idle" /\ pc' = "process" /\ save_status_at_stop_' = save
      /\ save_status_at_stop0' = FALSE /\ last_stat_' = last_stat_
      /\ ~failbit' /\ ~eofbit' /\ stream' = data
  <2>1. stream' = <<>> \o data
    BY ProcessSteps
  <2>2. <<>> \o data = data
    BY ConcatEmptySeq
  <2> QED
    BY <2>1, <2>2, ProcessSteps
<1>2. CASE save = FALSE /\ data = <<>> /\ received' = received
  BY <1>1, <1>2 DEF StreamInv
<1>3. CASE save = TRUE /\ received' = Append(received, data)
  <2>1. received' # <<>> /\ LastInput' = data
    <3>1. received \in Seq(Seq(Symbol))
      BY DEF TypeOK
    <3>2. Len(received') = Len(received) + 1 /\ received'[Len(received) + 1] = data
          /\ Len(received) \in Nat
      BY <1>3, <3>1, AppendProperties
    <3> QED
      BY <3>2 DEF LastInput
  <2>2. data = Rest(LastInput', 0) /\ 0 \in 0..Len(LastInput')
    BY <2>1, WholePrefix DEF Rest
  <2>3. \E k \in 0..Len(LastInput') : stream' = Rest(LastInput', k)
    BY <1>1, <2>2, Zenon
  <2> QED
    BY <1>1, <1>3, <2>1, <2>3 DEF StreamInv
<1>4. CASE save = FALSE /\ received = <<>> /\ received' = <<data>>
  <2>1. received' # <<>> /\ LastInput' = data
    BY <1>4 DEF LastInput
  <2>2. data = Rest(LastInput', 0) /\ 0 \in 0..Len(LastInput')
    BY <2>1, WholePrefix DEF Rest
  <2>3. \E k \in 0..Len(LastInput') : stream' = Rest(LastInput', k)
    BY <1>1, <2>2, Zenon
  <2>4. last_stat_ # "kStop"
    BY <1>1, <1>4 DEF StreamInv
  <2> QED
    BY <1>1, <1>4, <2>1, <2>3, <2>4 DEF StreamInv
<1> QED
  BY <1>2, <1>3, <1>4

(* A line leaves the rest of its input unread.                             *)
LEMMA TakeLineRest ==
  ASSUME TypeOK, StreamInv, NEW n \in 0..Len(stream), TakeLine(n)
  PROVE  \E k \in 0..Len(LastInput) :
           /\ received # <<>> /\ LastInput \in Seq(Symbol) /\ stream = Rest(LastInput, k)
           /\ n \in 0..(Len(LastInput) - k) /\ Len(stream) = Len(LastInput) - k
           /\ SubSeq(stream, 1, n) = SubSeq(LastInput, k + 1, k + n)
           /\ \/ /\ n < Len(LastInput) - k /\ stream' = Rest(LastInput, k + n + 1)
                 /\ ~eofbit' /\ ~failbit'
              \/ /\ n = Len(LastInput) - k /\ stream' = <<>>
                 /\ eofbit' /\ ~failbit'
<1>1. /\ stream # <<>> /\ stream' = SubSeq(stream, n + 2, Len(stream))
      /\ eofbit' = (n = Len(stream)) /\ ~failbit /\ failbit' = failbit
  BY DEF TakeLine, CanGetLine
<1>2. received # <<>> /\ LastInput \in Seq(Symbol)
  <2>1. received # <<>> /\ received \in Seq(Seq(Symbol))
    BY <1>1 DEF StreamInv, TypeOK
  <2> QED
    BY <2>1, ElementOfSeq DEF LastInput
<1>3. PICK k \in 0..Len(LastInput) : stream = Rest(LastInput, k)
  BY <1>1 DEF StreamInv
<1>4. Len(stream) = Len(LastInput) - k /\ Len(LastInput) \in Nat
  BY <1>2, <1>3, RestOfText
<1>5. n \in 0..(Len(LastInput) - k)
  BY <1>4
<1>6. /\ SubSeq(stream, 1, n) = SubSeq(LastInput, k + 1, k + n)
      /\ n < Len(LastInput) - k => stream' = Rest(LastInput, k + n + 1)
      /\ n = Len(LastInput) - k => stream' = <<>>
  BY <1>1, <1>2, <1>3, <1>5, RestOfRest
<1>7. CASE n < Len(LastInput) - k
  BY <1>1, <1>2, <1>3, <1>4, <1>5, <1>6, <1>7
<1>8. CASE n = Len(LastInput) - k
  BY <1>1, <1>2, <1>3, <1>4, <1>5, <1>6, <1>8
<1> QED
  BY <1>5, <1>7, <1>8

(* Such a session keeps StreamInv.                                         *)
LEMMA NextStream ==
  ASSUME TypeOK, IInv, StreamInv, [Next]_vars, stray' = 0
  PROVE  StreamInv'
<1>1. ASSUME NEW buf \in Buffer, Receive(buf) PROVE StreamInv'
  BY <1>1, CallSteps, InputAssumption DEF Receive
<1>2. ASSUME NEW text \in Script, Standalone(text) PROVE StreamInv'
  BY <1>2, CallSteps, InputAssumption DEF Standalone
<1>3. CASE Disconnect
  BY <1>3, CallSteps, EmptyType DEF Disconnect
<1>4. CASE ReadNextBulk
  BY <1>4, ReadNextBulkSteps DEF StreamInv, streamVars, LastInput
<1>5. CASE EndOfChunk
  BY <1>5, EndOfChunkSteps DEF StreamInv, streamVars, LastInput
<1>6. CASE EndOfInput
  <2>1. /\ pc = "bulk" /\ stream' = <<>> /\ failbit' /\ received' = received
        /\ save_status_at_stop0' = save_status_at_stop0
        /\ \/ save_status_at_stop_ /\ pc' = "idle" /\ ~save_status_at_stop_'
           \/ ~save_status_at_stop_ /\ pc' = "closed" /\ ~save_status_at_stop_'
           \/ ~save_status_at_stop_ /\ ~save_status_at_stop_' /\ pc' \in {"process", "bulk"}
    BY <1>6, EndOfInputSteps
  <2>2. save_status_at_stop_ => received # <<>>
    BY DEF StreamInv
  <2> QED
    BY <2>1, <2>2 DEF StreamInv
<1>7. CASE ReadLine
  <2>1. /\ pc = "bulk" /\ UNCHANGED received
        /\ pc' \in {"process", "bulk"} /\ last_stat_' # "kStop"
        /\ UNCHANGED <<save_status_at_stop_, save_status_at_stop0>>
    BY <1>7, ReadLineSteps
  <2>2. PICK n \in 0..Len(stream) : TakeLine(n)
    BY <1>7, ReadLineSteps
  <2>3. PICK k \in 0..Len(LastInput) :
          /\ received # <<>> /\ LastInput \in Seq(Symbol)
          /\ n \in 0..(Len(LastInput) - k)
          /\ \/ /\ n < Len(LastInput) - k /\ stream' = Rest(LastInput, k + n + 1)
                /\ ~eofbit' /\ ~failbit'
             \/ /\ n = Len(LastInput) - k /\ stream' = <<>>
                /\ eofbit' /\ ~failbit'
    BY <2>2, TakeLineRest
  <2>4. received' = received /\ LastInput' = LastInput
    BY <2>1 DEF LastInput
  <2>5. CASE stream' = <<>>
    BY <2>1, <2>4, <2>5 DEF StreamInv
  <2>6. CASE /\ n < Len(LastInput) - k /\ stream' = Rest(LastInput, k + n + 1)
             /\ ~eofbit' /\ ~failbit'
    <3>1. k + n + 1 \in 0..Len(LastInput)
      BY <2>3, <2>6
    <3>2. \E i \in 0..Len(LastInput') : stream' = Rest(LastInput', i)
      BY <2>4, <2>6, <3>1
    <3>3. ~(pc' # "closed" /\ ~save_status_at_stop_' /\ last_stat_' = "kStop") /\ pc' # "idle"
      BY <2>1
    <3> QED
      BY <2>1, <2>3, <2>4, <2>6, <3>2, <3>3 DEF StreamInv
  <2> QED
    BY <2>3, <2>5, <2>6
<1>8. CASE UNCHANGED vars
  BY <1>8 DEF vars, streamVars, parserVars, queueVars, callVars, StreamInv, LastInput
<1> QED
  BY <1>1, <1>2, <1>3, <1>4, <1>5, <1>6, <1>7, <1>8 DEF Next, Step

-----------------------------------------------------------------------------
(* The session implements the abstract assembly. *)

(* The inputs are those a client may send. *)
Given == \A i \in 1..Len(received) : received[i] \in Buffer \union Script

(* What the steps of such a client keep. *)
Matched == TypeOK /\ IInv /\ StreamInv /\ Given /\ stray = 0

(* It holds at the beginning.                                              *)
LEMMA InitMatched == Init => Matched
<1> SUFFICES ASSUME Init PROVE Matched
  OBVIOUS
<1>1. TypeOK /\ IInv
  BY InitType, InitInv
<1>2. StreamInv /\ Given /\ stray = 0
  BY DEF Init, StreamInv, Given
<1> QED
  BY <1>1, <1>2 DEF Matched

(* The inputs received stay those a client may send.                       *)
LEMMA NextGiven == ASSUME TypeOK, Given, [Next]_vars PROVE Given'
<1>1. ASSUME NEW buf \in Buffer, Receive(buf) PROVE Given'
  <2>1. received' = Append(received, buf) /\ received \in Seq(Seq(Symbol)) /\ buf \in Seq(Symbol)
    BY <1>1, InputAssumption DEF Receive, TypeOK
  <2> QED
    BY <2>1, AppendCases DEF Given
<1>2. ASSUME NEW text \in Script, Standalone(text) PROVE Given'
  <2>1. received' = <<text>>
    BY <1>2 DEF Standalone
  <2> QED
    BY <2>1 DEF Given
<1>3. ASSUME received' = received PROVE Given'
  BY <1>3 DEF Given
<1> QED
  BY <1>1, <1>2, <1>3
  DEF Next, Step, vars, Disconnect, ReadNextBulk, EndOfChunk, EndOfInput, ReadLine

(* The steps of such a client keep it.                                     *)
LEMMA NextMatched == Matched /\ [Next /\ stray' = 0]_vars => Matched'
<1> SUFFICES ASSUME Matched, [Next /\ stray' = 0]_vars PROVE Matched'
  OBVIOUS
<1>1. [Next]_vars /\ stray' = 0
  BY DEF Matched, vars
<1>2. TypeOK' /\ IInv'
  BY <1>1, NextType, NextInv DEF Matched
<1>3. StreamInv' /\ Given'
  BY <1>1, NextStream, NextGiven DEF Matched
<1> QED
  BY <1>1, <1>2, <1>3 DEF Matched

(* A line read is a piece of an input.                                     *)
LEMMA LineIsPiece ==
  ASSUME Matched, NEW n \in 0..Len(stream), TakeLine(n), SubSeq(stream, 1, n) \in Line
  PROVE  SubSeq(stream, 1, n) \in Piece
<1>1. PICK k \in 0..Len(LastInput) :
        /\ received # <<>> /\ LastInput \in Seq(Symbol)
        /\ n \in 0..(Len(LastInput) - k)
        /\ SubSeq(stream, 1, n) = SubSeq(LastInput, k + 1, k + n)
  BY TakeLineRest DEF Matched
<1>2. received \in Seq(Seq(Symbol)) /\ Len(received) \in Nat \ {0}
  BY <1>1 DEF Matched, TypeOK
<1>3. LastInput \in Buffer \union Script
  BY <1>2 DEF Matched, Given, LastInput
<1>4. k + n \in 0..Len(LastInput)
  BY <1>1
<1>5. SubSeq(stream, 1, n) \in Pieces(LastInput)
  BY <1>1, <1>4 DEF Pieces
<1>6. SubSeq(stream, 1, n) \in AllPieces
  BY <1>3, <1>5 DEF AllPieces
<1> QED
  BY <1>6 DEF Piece

AbstractStep == Assembly!Next \/ UNCHANGED Assembly!vars

(* A call: more may be to come, or the input is at its end.                *)
LEMMA CallAssembles ==
  ASSUME UNCHANGED chunk_size_, Matched, NEW data, NEW save \in BOOLEAN, Process(data, save)
  PROVE  AbstractStep
<1>1. /\ pc = "idle" /\ pc' = "process" /\ Stays /\ block_count_' = block_count_
      /\ save_status_at_stop_' = save
  BY ProcessSteps DEF Matched
<1>2. More /\ More' \in BOOLEAN
  BY <1>1 DEF More
<1>3. CASE More'
  BY <1>1, <1>2, <1>3 DEF AbstractStep, Assembly!vars, Stays
<1>4. CASE ~More'
  <2>1. Assembly!EndOfInput
    BY <1>1, <1>2, <1>4 DEF Assembly!EndOfInput, Stays
  <2> QED
    BY <2>1 DEF AbstractStep, Assembly!Next
<1> QED
  BY <1>2, <1>3, <1>4

(* A line: a command is taken, or a brace opens or closes.                 *)
LEMMA LineAssembles == ASSUME UNCHANGED chunk_size_, Matched, ReadLine, stray' = 0 PROVE AbstractStep
<1>1. /\ pc = "bulk" /\ pc' \in {"process", "bulk"}
      /\ UNCHANGED <<save_status_at_stop_, save_status_at_stop0>>
  BY ReadLineSteps DEF Matched
<1>2. PICK n \in 0..Len(stream) :
        TakeLine(n) /\ SubSeq(stream, 1, n) \in Line /\ ReadsLine(SubSeq(stream, 1, n))
  BY ReadLineSteps DEF Matched
<1> PICK line : line = SubSeq(stream, 1, n)
  OBVIOUS
<1>3. line \in Piece
  BY <1>2, LineIsPiece
<1>4. More /\ More' \in BOOLEAN /\ pc # "closed" /\ pc' # "closed"
  BY <1>1, <1>2 DEF More, TakeLine, CanGetLine
<1>5. Assembly!Input
  BY <1>4 DEF Assembly!Input
<1>6. CASE /\ Takes(line) /\ block_count_' = block_count_
           /\ block_count_ = 0 => Len(Pending) < chunk_size_
  <2>1. block_count_ \in Nat
    BY DEF Matched, TypeOK
  <2>2. Assembly!Take(line)
    BY <1>4, <1>5, <1>6, <2>1 DEF Assembly!Take, Takes
  <2> QED
    BY <1>3, <2>2 DEF AbstractStep, Assembly!Next
<1>7. CASE /\ IF block_count_ = 0 THEN Flushes ELSE Stays
           /\ block_count_' = block_count_ + 1
  <2>1. Assembly!Open
    BY <1>4, <1>5, <1>7 DEF Assembly!Open, Assembly!Flush, Flushes, Stays
  <2> QED
    BY <2>1 DEF AbstractStep, Assembly!Next
<1>8. CASE /\ block_count_ > 0
           /\ IF block_count_ = 1 THEN Flushes ELSE Stays
           /\ block_count_' = block_count_ - 1
  <2>1. Assembly!Close
    BY <1>4, <1>5, <1>8 DEF Assembly!Close, Assembly!Flush, Flushes, Stays
  <2> QED
    BY <2>1 DEF AbstractStep, Assembly!Next
<1> QED
  BY <1>2, <1>6, <1>7, <1>8 DEF ReadsLine

(* A block of the right size, or the last one, is completed.               *)
LEMMA ChunkAssembles == ASSUME UNCHANGED chunk_size_, Matched, EndOfChunk, stray' = 0 PROVE AbstractStep
<1>1. /\ pc = "bulk" /\ pc' \in {"process", "bulk"} /\ Flushes
      /\ block_count_ = 0 /\ block_count_' = 0
      /\ \/ Pending = <<>> \/ Len(Pending) = chunk_size_
         \/ ~save_status_at_stop_ /\ last_stat_ = "kStop"
      /\ UNCHANGED <<streamVars, save_status_at_stop_>>
  BY EndOfChunkSteps DEF Matched
<1>2. /\ More' = More /\ pc # "closed" /\ pc' # "closed"
      /\ ~save_status_at_stop_ /\ last_stat_ = "kStop" => ~More
  BY <1>1 DEF More, streamVars, Matched, StreamInv
<1>3. CASE Pending = <<>>
  BY <1>1, <1>2, <1>3 DEF AbstractStep, Assembly!vars, Flushes
<1>4. CASE Pending # <<>> /\ Len(Pending) = chunk_size_
  <2>1. chunk_size_ > 0
    BY <1>4, PendingType, ChunkIsNat DEF Matched
  <2>2. Assembly!Complete
    BY <1>1, <1>2, <1>4, <2>1 DEF Assembly!Complete, Assembly!Flush, Flushes
  <2> QED
    BY <2>2 DEF AbstractStep, Assembly!Next
<1>5. CASE Pending # <<>> /\ ~More
  <2>1. Assembly!FlushLast
    BY <1>1, <1>2, <1>5 DEF Assembly!FlushLast, Assembly!Flush, Flushes
  <2> QED
    BY <2>1 DEF AbstractStep, Assembly!Next
<1> QED
  BY <1>1, <1>2, <1>3, <1>4, <1>5

(* The end of the stream is nothing, the last block or the end.            *)
LEMMA EndAssembles == ASSUME UNCHANGED chunk_size_, Matched, EndOfInput, stray' = 0 PROVE AbstractStep
<1>1. pc = "bulk" /\ stream = <<>> /\ stream' = <<>> /\ block_count_ \in Nat
  BY EndOfInputSteps DEF Matched, TypeOK
<1>2. CASE /\ save_status_at_stop_ /\ Stays /\ pc' = "idle" /\ block_count_' = block_count_
  <2>1. More' = More
    BY <1>1, <1>2 DEF More
  <2> QED
    BY <1>1, <1>2, <2>1 DEF AbstractStep, Assembly!vars, Stays
<1>3. CASE /\ ~save_status_at_stop_ /\ pc' = "closed"
           /\ Blocks' = Blocks /\ Pending' = <<>>
           /\ block_count_ > 0 \/ Pending = <<>>
  <2>1. ~More /\ ~More' /\ More' = More /\ pc # "closed"
    BY <1>1, <1>3 DEF More
  <2>2. Assembly!Finish
    BY <1>1, <1>3, <2>1 DEF Assembly!Finish
  <2> QED
    BY <2>2 DEF AbstractStep, Assembly!Next
<1>4. CASE /\ ~save_status_at_stop_ /\ ~save_status_at_stop_' /\ Flushes
           /\ pc' \in {"process", "bulk"}
           /\ block_count_ = 0 /\ block_count_' = 0
  <2>1. ~More /\ More' = More /\ pc # "closed" /\ pc' # "closed"
    BY <1>1, <1>4 DEF More
  <2>2. CASE Pending = <<>>
    BY <1>1, <1>4, <2>1, <2>2 DEF AbstractStep, Assembly!vars, Flushes
  <2>3. CASE Pending # <<>>
    <3>1. Assembly!FlushLast
      BY <1>1, <1>4, <2>1, <2>3 DEF Assembly!FlushLast, Assembly!Flush, Flushes
    <3> QED
      BY <3>1 DEF AbstractStep, Assembly!Next
  <2> QED
    BY <2>2, <2>3
<1> QED
  BY <1>2, <1>3, <1>4, EndOfInputSteps DEF Matched

(* Every step of such a client is a step of the assembly, or none.         *)
LEMMA NextAssembles == Matched /\ [Next /\ stray' = 0]_vars => [Assembly!Next]_(Assembly!vars)
<1> SUFFICES ASSUME Matched, [Next /\ stray' = 0]_vars, UNCHANGED chunk_size_
             PROVE  AbstractStep
  BY ChunkStays DEF AbstractStep
<1>1. CASE UNCHANGED vars
  <2>1. /\ UNCHANGED <<q_, executed, stream, block_count_, pc, save_status_at_stop_>>
    BY <1>1 DEF vars, streamVars, parserVars, queueVars, callVars
  <2>2. Stays /\ More' = More
    BY <2>1, StaysWhenUnchanged DEF More
  <2> QED
    BY <2>1, <2>2 DEF AbstractStep, Assembly!vars, Stays
<1>2. ASSUME NEW buf \in Buffer, Receive(buf) PROVE AbstractStep
  BY <1>2, CallAssembles DEF Receive
<1>3. ASSUME NEW text \in Script, Standalone(text) PROVE AbstractStep
  BY <1>3, CallAssembles DEF Standalone
<1>4. CASE Disconnect
  BY <1>4, CallAssembles DEF Disconnect
<1>5. CASE ReadNextBulk
  <2>1. /\ pc = "process" /\ pc' = "bulk" /\ Stays
        /\ UNCHANGED <<streamVars, block_count_, save_status_at_stop_>>
    BY <1>5, ReadNextBulkSteps
  <2>2. More' = More
    BY <2>1 DEF More, streamVars
  <2> QED
    BY <2>1, <2>2 DEF AbstractStep, Assembly!vars, Stays
<1>6. CASE Next /\ stray' = 0
  BY <1>2, <1>3, <1>4, <1>5, <1>6, EndAssembles, ChunkAssembles, LineAssembles DEF Next, Step
<1> QED
  BY <1>1, <1>6

(* The initial state is one of the assembly.                               *)
LEMMA InitAssembles == Init => Assembly!Init
  BY ChunkAssumption DEF Init, Assembly!Init, Pending, Blocks, Texts, More

(* The session of a client that closes no brace it has not opened          *)
(* implements BulkAssembly: for every input, block size and cutting of the *)
(* input into receives, blocks are completed in the order, and at the      *)
(* moments, the assembly allows.                                           *)
THEOREM AssemblyImplemented == MatchedSpec => ImplementsAssembly
<1>1. MatchedSpec => []Matched
  BY InitMatched, NextMatched, PTL DEF MatchedSpec
<1>2. [Next /\ stray' = 0]_vars /\ Matched => [Assembly!Next]_(Assembly!vars)
  BY NextAssembles
<1> QED
  BY InitAssembles, <1>1, <1>2, PTL DEF MatchedSpec, ImplementsAssembly, Assembly!Spec

-----------------------------------------------------------------------------
(* What an input means, symbol by symbol and text by text. *)

(* What the first k symbols make follows from what one less make.          *)
LEMMA ReadingSteps ==
  ASSUME NEW a, NEW text, Len(text) \in Nat, NEW n
  PROVE  /\ Meaning!Reading(a, text, 0, n) = Meaning!State(a, <<>>)
         /\ \A k \in 1..Len(text) :
              Meaning!Reading(a, text, k, n)
                = Meaning!ReadSymbol(Meaning!Reading(a, text, k - 1, n), text[k], n)
<1> DEFINE first == Meaning!State(a, <<>>)
           Fn(f, m) == f = [i \in 0..m |-> IF i = 0 THEN first
                                           ELSE Meaning!ReadSymbol(f[i - 1], text[i], n)]
           S == {m \in Nat : \E f : Fn(f, m)}
           after == CHOOSE f : Fn(f, Len(text))
<1>1. 0 \in S
  <2> DEFINE g == [i \in 0..0 |-> first]
  <2>1. Fn(g, 0)
    OBVIOUS
  <2> QED
    BY <2>1
<1>2. ASSUME NEW m \in Nat, m \in S
      PROVE  m + 1 \in S
  <2>1. PICK f : Fn(f, m)
    BY <1>2
  <2> DEFINE g == [i \in 0..(m + 1) |-> IF i = m + 1 THEN Meaning!ReadSymbol(f[m], text[m + 1], n)
                                        ELSE f[i]]
  <2>2. ASSUME NEW i \in 0..(m + 1)
        PROVE  g[i] = IF i = 0 THEN first ELSE Meaning!ReadSymbol(g[i - 1], text[i], n)
    <3>1. CASE i = m + 1
      BY <3>1
    <3>2. CASE i \in 0..m
      <4>1. g[i] = f[i] /\ (i # 0 => g[i - 1] = f[i - 1])
        BY <3>2
      <4>2. f[i] = IF i = 0 THEN first ELSE Meaning!ReadSymbol(f[i - 1], text[i], n)
        BY <2>1, <3>2
      <4> QED
        BY <4>1, <4>2
    <3> QED
      BY <3>1, <3>2
  <2>3. g = [i \in 0..(m + 1) |-> g[i]]
    OBVIOUS
  <2> HIDE DEF g
  <2>4. Fn(g, m + 1)
    BY <2>2, <2>3
  <2> HIDE DEF Fn
  <2> QED
    BY <2>4
<1>3. Nat \subseteq S
  <2> HIDE DEF S
  <2> QED
    BY <1>1, <1>2, NatSetInduction
<1>4. Fn(after, Len(text))
  <2>1. \E f : Fn(f, Len(text))
    BY <1>3
  <2> HIDE DEF Fn
  <2> QED
    BY <2>1
<1>5. \A k : Meaning!Reading(a, text, k, n) = after[k]
  BY DEF Meaning!Reading
<1> HIDE DEF after
<1>6. /\ after[0] = first
      /\ \A k \in 1..Len(text) : after[k] = Meaning!ReadSymbol(after[k - 1], text[k], n)
  BY <1>4
<1> QED
  BY <1>5, <1>6

(* What the first k texts make follows from what one less make.            *)
LEMMA MadeBySteps ==
  ASSUME NEW texts, Len(texts) \in Nat, NEW n
  PROVE  /\ Meaning!MadeBy(texts, 0, n) = Meaning!Nothing
         /\ \A k \in 1..Len(texts) :
              Meaning!MadeBy(texts, k, n)
                = Meaning!AfterText(Meaning!MadeBy(texts, k - 1, n), texts[k], n)
<1> DEFINE Fn(f, m) == f = [i \in 0..m |-> IF i = 0 THEN Meaning!Nothing
                                           ELSE Meaning!AfterText(f[i - 1], texts[i], n)]
           S == {m \in Nat : \E f : Fn(f, m)}
           after == CHOOSE f : Fn(f, Len(texts))
<1>1. 0 \in S
  <2> DEFINE g == [i \in 0..0 |-> Meaning!Nothing]
  <2>1. Fn(g, 0)
    OBVIOUS
  <2> QED
    BY <2>1
<1>2. ASSUME NEW m \in Nat, m \in S
      PROVE  m + 1 \in S
  <2>1. PICK f : Fn(f, m)
    BY <1>2
  <2> DEFINE g == [i \in 0..(m + 1) |-> IF i = m + 1 THEN Meaning!AfterText(f[m], texts[m + 1], n)
                                        ELSE f[i]]
  <2>2. ASSUME NEW i \in 0..(m + 1)
        PROVE  g[i] = IF i = 0 THEN Meaning!Nothing ELSE Meaning!AfterText(g[i - 1], texts[i], n)
    <3>1. CASE i = m + 1
      BY <3>1
    <3>2. CASE i \in 0..m
      <4>1. g[i] = f[i] /\ (i # 0 => g[i - 1] = f[i - 1])
        BY <3>2
      <4>2. f[i] = IF i = 0 THEN Meaning!Nothing ELSE Meaning!AfterText(f[i - 1], texts[i], n)
        BY <2>1, <3>2
      <4> QED
        BY <4>1, <4>2
    <3> QED
      BY <3>1, <3>2
  <2>3. g = [i \in 0..(m + 1) |-> g[i]]
    OBVIOUS
  <2> HIDE DEF g
  <2>4. Fn(g, m + 1)
    BY <2>2, <2>3
  <2> HIDE DEF Fn
  <2> QED
    BY <2>4
<1>3. Nat \subseteq S
  <2> HIDE DEF S
  <2> QED
    BY <1>1, <1>2, NatSetInduction
<1>4. Fn(after, Len(texts))
  <2>1. \E f : Fn(f, Len(texts))
    BY <1>3
  <2> HIDE DEF Fn
  <2> QED
    BY <2>1
<1>5. \A k : Meaning!MadeBy(texts, k, n) = after[k]
  BY DEF Meaning!MadeBy
<1> HIDE DEF after
<1>6. /\ after[0] = Meaning!Nothing
      /\ \A k \in 1..Len(texts) : after[k] = Meaning!AfterText(after[k - 1], texts[k], n)
  BY <1>4
<1> QED
  BY <1>5, <1>6

(* One more text does not change what the first ones make.                 *)
LEMMA OneMoreText ==
  ASSUME NEW S, NEW texts \in Seq(S), NEW text \in S, NEW n
  PROVE  /\ Meaning!MadeBy(Append(texts, text), Len(texts), n) = Meaning!Assembled(texts, n)
         /\ Meaning!Assembled(Append(texts, text), n)
              = Meaning!AfterText(Meaning!Assembled(texts, n), text, n)
<1> PICK all : all = Append(texts, text)
  OBVIOUS
<1> DEFINE Old(k) == Meaning!MadeBy(texts, k, n)
           New(k) == Meaning!MadeBy(all, k, n)
           T == {k \in 0..Len(texts) : New(k) = Old(k)}
<1>1. /\ Len(texts) \in Nat /\ Len(all) = Len(texts) + 1
      /\ \A k \in 1..Len(texts) : all[k] = texts[k]
      /\ all[Len(texts) + 1] = text
  BY AppendProperties
<1>2. /\ Old(0) = Meaning!Nothing
      /\ \A k \in 1..Len(texts) : Old(k) = Meaning!AfterText(Old(k - 1), texts[k], n)
  BY <1>1, MadeBySteps
<1>3. /\ New(0) = Meaning!Nothing
      /\ \A k \in 1..(Len(texts) + 1) : New(k) = Meaning!AfterText(New(k - 1), all[k], n)
  <2>1. Len(all) \in Nat
    BY <1>1
  <2> QED
    BY <1>1, <2>1, MadeBySteps, Zenon
<1> HIDE DEF Old, New
<1>4. 0 \in T
  BY <1>1, <1>2, <1>3
<1>5. ASSUME NEW k \in 0..(Len(texts) - 1), k \in T
      PROVE  k + 1 \in T
  <2>1. k + 1 \in 1..Len(texts) /\ k + 1 \in 1..(Len(texts) + 1) /\ (k + 1) - 1 = k
    BY <1>1
  <2>2. New(k) = Old(k) /\ all[k + 1] = texts[k + 1]
    BY <1>1, <1>5, <2>1
  <2>3. /\ Old(k + 1) = Meaning!AfterText(Old(k), texts[k + 1], n)
        /\ New(k + 1) = Meaning!AfterText(New(k), all[k + 1], n)
    BY <1>2, <1>3, <2>1
  <2>4. New(k + 1) = Old(k + 1)
    BY <2>2, <2>3
  <2> QED
    BY <1>1, <2>1, <2>4
<1>6. 0..Len(texts) \subseteq T
  <2> HIDE DEF T
  <2> QED
    BY <1>1, <1>4, <1>5, UpToInduction
<1>7. New(Len(texts)) = Old(Len(texts))
  BY <1>1, <1>6
<1>8. New(Len(texts) + 1) = Meaning!AfterText(New(Len(texts)), text, n)
  BY <1>1, <1>3
<1> QED
  BY <1>1, <1>7, <1>8 DEF Old, New, Meaning!Assembled

(* A symbol is read.                                                       *)
LEMMA SymbolIsRead ==
  ASSUME NEW b, NEW line, NEW symbol, NEW n
  PROVE  Meaning!ReadSymbol(Meaning!State(b, line), symbol, n)
           = IF symbol = NL THEN Meaning!State(Meaning!Act(b, line, n), <<>>)
             ELSE Meaning!State(b, Append(line, symbol))
  BY DEF Meaning!ReadSymbol, Meaning!State

(* The first k symbols have made b, and are in a line. *)
ReadsTo(a, text, k, n, b, line) == Meaning!Reading(a, text, k, n) = Meaning!State(b, line)

(* All of its symbols and the end of its last line have. *)
EndsAs(a, text, n, b) == Meaning!AfterText(a, text, n) = b

(* The end of a text ends its last line.                                   *)
LEMMA AfterTextActs ==
  ASSUME NEW a, NEW b, NEW text, NEW line, NEW n, ReadsTo(a, text, Len(text), n, b, line)
  PROVE  /\ line = <<>> => Meaning!AfterText(a, text, n) = b
         /\ line # <<>> => Meaning!AfterText(a, text, n) = Meaning!Act(b, line, n)
<1> PICK s : s = Meaning!Reading(a, text, Len(text), n)
  OBVIOUS
<1>1. s.made = b /\ s.line = line
  BY DEF Meaning!State, ReadsTo
<1>2. Meaning!AfterText(a, text, n)
        = IF s.line = <<>> THEN s.made ELSE Meaning!Act(s.made, s.line, n)
  BY DEF Meaning!AfterText
<1> QED
  BY <1>1, <1>2

(* Symbols without a line end are the line that is read.                   *)
LEMMA ReadingLine ==
  ASSUME NEW text \in Seq(Symbol), NEW a, NEW b, NEW n,
         NEW k \in 0..Len(text), NEW m \in 0..(Len(text) - k),
         ReadsTo(a, text, k, n, b, <<>>),
         \A i \in 1..m : text[k + i] # NL
  PROVE  ReadsTo(a, text, k + m, n, b, SubSeq(text, k + 1, k + m))
<1> DEFINE Read(i) == Meaning!Reading(a, text, i, n)
           Part(i) == SubSeq(text, k + 1, k + i)
           T == {i \in 0..m : Read(k + i) = Meaning!State(b, Part(i))}
<1>1. Len(text) \in Nat /\ m \in Nat /\ k \in Nat
  OBVIOUS
<1>2. \A i \in 1..Len(text) : Read(i) = Meaning!ReadSymbol(Read(i - 1), text[i], n)
  BY <1>1, ReadingSteps, Zenon
<1>3. Part(0) = <<>>
  BY <1>1, SMT
<1>4. \A i \in 0..(m - 1) : Part(i + 1) = Append(Part(i), text[k + i + 1])
  BY <1>1, SMT
<1>5. Read(k) = Meaning!State(b, <<>>)
  BY DEF ReadsTo
<1> HIDE DEF Read, Part
<1>6. 0 \in T
  BY <1>1, <1>3, <1>5
<1>7. ASSUME NEW i \in 0..(m - 1), i \in T
      PROVE  i + 1 \in T
  <2>1. i + 1 \in 1..m /\ k + i + 1 \in 1..Len(text) /\ (k + i + 1) - 1 = k + i
        /\ k + (i + 1) = k + i + 1
    BY <1>1
  <2>2. Read(k + i) = Meaning!State(b, Part(i)) /\ text[k + i + 1] # NL
    BY <1>7, <2>1
  <2>3. Read(k + i + 1) = Meaning!ReadSymbol(Read(k + i), text[k + i + 1], n)
    BY <1>2, <2>1
  <2>4. Read(k + i + 1) = Meaning!State(b, Append(Part(i), text[k + i + 1]))
    BY <2>2, <2>3, SymbolIsRead
  <2>5. Read(k + (i + 1)) = Meaning!State(b, Part(i + 1))
    BY <1>4, <2>1, <2>4
  <2> QED
    BY <2>1, <2>5
<1>8. 0..m \subseteq T
  <2> HIDE DEF T
  <2> QED
    BY <1>1, <1>6, <1>7, UpToInduction
<1> QED
  BY <1>1, <1>8 DEF Read, Part, ReadsTo

Part(text, k, m) == SubSeq(text, k + 1, k + m)
EndsWith(text, k, m) == k + m = Len(text)

(* A line with its end is acted on; so is what follows the last line end.  *)
LEMMA ReadingActs ==
  ASSUME NEW text \in Seq(Symbol), NEW a, NEW b, NEW n,
         NEW k \in 0..Len(text), NEW m \in 0..(Len(text) - k),
         ReadsTo(a, text, k, n, b, <<>>), \A i \in 1..m : text[k + i] # NL
  PROVE  /\ m < Len(text) - k /\ text[k + m + 1] = NL =>
              ReadsTo(a, text, k + m + 1, n, Meaning!Act(b, Part(text, k, m), n), <<>>)
         /\ EndsWith(text, k, m) /\ m # 0 =>
              EndsAs(a, text, n, Meaning!Act(b, Part(text, k, m), n))
<1>1. Len(text) \in Nat /\ m \in Nat /\ k \in Nat
  OBVIOUS
<1>2. ReadsTo(a, text, k + m, n, b, Part(text, k, m))
  BY ReadingLine DEF Part
<1>3. m # 0 => Part(text, k, m) # <<>>
  BY <1>1, SMT DEF Part
<1>4. ASSUME m < Len(text) - k, text[k + m + 1] = NL
      PROVE  ReadsTo(a, text, k + m + 1, n, Meaning!Act(b, Part(text, k, m), n), <<>>)
  <2>1. k + m + 1 \in 1..Len(text) /\ (k + m + 1) - 1 = k + m
    BY <1>1, <1>4
  <2>2. Meaning!Reading(a, text, k + m + 1, n)
          = Meaning!ReadSymbol(Meaning!Reading(a, text, k + m, n), NL, n)
    BY <1>1, <1>4, <2>1, ReadingSteps
  <2> QED
    BY <1>2, <2>2, SymbolIsRead DEF ReadsTo
<1>5. ASSUME EndsWith(text, k, m), m # 0
      PROVE  EndsAs(a, text, n, Meaning!Act(b, Part(text, k, m), n))
  <2>1. k + m = Len(text)
    BY <1>5 DEF EndsWith
  <2>2. ReadsTo(a, text, Len(text), n, b, Part(text, k, m))
    BY <1>2, <2>1
  <2> QED
    BY <1>3, <1>5, <2>2, AfterTextActs DEF EndsAs
<1> QED
  BY <1>4, <1>5

-----------------------------------------------------------------------------
(* What the session holds, against what the lines mean. *)

Held(b, c, d) == [blocks |-> b, cur |-> c, depth |-> d]

(* Completing a block, and completing it if it is full.                    *)
LEMMA HeldFlushes ==
  ASSUME NEW b, NEW c, NEW d, NEW n
  PROVE  /\ c = <<>> => Meaning!Flush(Held(b, c, d)) = Held(b, c, d)
         /\ c # <<>> => Meaning!Flush(Held(b, c, d)) = Held(Append(b, c), <<>>, d)
         /\ d = 0 /\ Len(c) = n => Meaning!Cut(Held(b, c, d), n) = Meaning!Flush(Held(b, c, d))
         /\ ~(d = 0 /\ Len(c) = n) => Meaning!Cut(Held(b, c, d), n) = Held(b, c, d)
  BY DEF Held, Meaning!Flush, Meaning!Cut

(* With nothing pending nothing is cut.                                    *)
LEMMA NothingToCut ==
  ASSUME NEW b, NEW d, NEW n
  PROVE  Meaning!Cut(Held(b, <<>>, d), n) = Held(b, <<>>, d)
<1>1. Meaning!Flush(Held(b, <<>>, d)) = Held(b, <<>>, d)
  BY HeldFlushes
<1> QED
  BY <1>1, HeldFlushes

(* What a line does.                                                       *)
LEMMA HeldActs ==
  ASSUME NEW b, NEW c, NEW d \in Nat, NEW line, NEW n
  PROVE  /\ line \notin {<<OpenBrace>>, <<CloseBrace>>} =>
              Meaning!Act(Held(b, c, d), line, n) = Meaning!Cut(Held(b, Append(c, line), d), n)
         /\ line = <<OpenBrace>> /\ d = 0 /\ c = <<>> =>
              Meaning!Act(Held(b, c, d), line, n) = Held(b, <<>>, 1)
         /\ line = <<OpenBrace>> /\ d = 0 /\ c # <<>> =>
              Meaning!Act(Held(b, c, d), line, n) = Held(Append(b, c), <<>>, 1)
         /\ line = <<OpenBrace>> /\ d # 0 =>
              Meaning!Act(Held(b, c, d), line, n) = Held(b, c, d + 1)
         /\ line = <<CloseBrace>> /\ d = 1 /\ c = <<>> =>
              Meaning!Act(Held(b, c, d), line, n) = Held(b, <<>>, 0)
         /\ line = <<CloseBrace>> /\ d = 1 /\ c # <<>> =>
              Meaning!Act(Held(b, c, d), line, n) = Held(Append(b, c), <<>>, 0)
         /\ line = <<CloseBrace>> /\ d # 1 =>
              Meaning!Act(Held(b, c, d), line, n) = Held(b, c, d - 1)
<1>1. <<OpenBrace>> # <<CloseBrace>>
  BY SymbolAssumption
<1> PICK x : x = Held(b, c, d)
  OBVIOUS
<1>2. ASSUME NEW e, NEW g
      PROVE  [Held(e, g, d) EXCEPT !.depth = @ + 1] = Held(e, g, d + 1)
  BY DEF Held
<1>3. ASSUME NEW e, NEW g
      PROVE  [Held(e, g, d) EXCEPT !.depth = @ - 1] = Held(e, g, d - 1)
  BY DEF Held
<1>4. /\ Held(b, c, d).depth = d
      /\ [Held(b, c, d) EXCEPT !.cur = Append(@, line)] = Held(b, Append(c, line), d)
  <2>1. Held(b, c, d).depth = d /\ Held(b, c, d).cur = c
    BY DEF Held
  <2>2. ASSUME NEW e
        PROVE  [Held(b, c, d) EXCEPT !.cur = e] = Held(b, e, d)
    BY DEF Held
  <2> QED
    BY <2>1, <2>2
<1>5. /\ c = <<>> => Meaning!Flush(x) = Held(b, c, d)
      /\ c # <<>> => Meaning!Flush(x) = Held(Append(b, c), <<>>, d)
  BY DEF Held, Meaning!Flush
<1>6. ASSUME line \notin {<<OpenBrace>>, <<CloseBrace>>}
      PROVE  Meaning!Act(x, line, n) = Meaning!Cut(Held(b, Append(c, line), d), n)
  <2>1. Meaning!Act(x, line, n) = Meaning!Cut([x EXCEPT !.cur = Append(@, line)], n)
    BY <1>6 DEF Meaning!Act
  <2> QED
    BY <1>4, <2>1
<1>7. ASSUME line = <<OpenBrace>>
      PROVE  /\ d = 0 /\ c = <<>> => Meaning!Act(x, line, n) = Held(b, <<>>, 1)
             /\ d = 0 /\ c # <<>> => Meaning!Act(x, line, n) = Held(Append(b, c), <<>>, 1)
             /\ d # 0 => Meaning!Act(x, line, n) = Held(b, c, d + 1)
  <2>1. Meaning!Act(x, line, n)
          = [IF x.depth = 0 THEN Meaning!Flush(x) ELSE x EXCEPT !.depth = @ + 1]
    BY <1>1, <1>7 DEF Meaning!Act
  <2> QED
    BY <1>2, <1>4, <1>5, <2>1
<1>8. ASSUME line = <<CloseBrace>>
      PROVE  /\ d = 1 /\ c = <<>> => Meaning!Act(x, line, n) = Held(b, <<>>, 0)
             /\ d = 1 /\ c # <<>> => Meaning!Act(x, line, n) = Held(Append(b, c), <<>>, 0)
             /\ d # 1 => Meaning!Act(x, line, n) = Held(b, c, d - 1)
  <2>1. Meaning!Act(x, line, n)
          = [IF x.depth = 1 THEN Meaning!Flush(x) ELSE x EXCEPT !.depth = @ - 1]
    BY <1>1, <1>8 DEF Meaning!Act
  <2> QED
    BY <1>3, <1>4, <1>5, <2>1
<1> QED
  BY <1>6, <1>7, <1>8

(* What the session holds: a full static block counts as completed.        *)
LEMMA CurrentIs ==
  ASSUME TypeOK
  PROVE  /\ block_count_ # 0 \/ Len(Pending) # chunk_size_ \/ Pending = <<>> =>
              Current = Held(Blocks, Pending, block_count_)
         /\ block_count_ = 0 /\ Len(Pending) = chunk_size_ /\ Pending # <<>> =>
              Current = Held(Append(Blocks, Pending), <<>>, 0)
<1>1. Current = Meaning!Cut(Held(Blocks, Pending, block_count_), chunk_size_)
  BY DEF Current, Made, Held
<1>2. CASE block_count_ = 0 /\ Len(Pending) = chunk_size_
  <2>1. Current = Meaning!Flush(Held(Blocks, Pending, block_count_))
    BY <1>1, <1>2, HeldFlushes
  <2>2. CASE Pending = <<>>
    BY <2>1, <2>2, HeldFlushes
  <2>3. CASE Pending # <<>>
    <3>1. Meaning!Flush(Held(Blocks, Pending, block_count_))
            = Held(Append(Blocks, Pending), <<>>, block_count_)
      BY <2>3 DEF Held, Meaning!Flush
    <3> QED
      BY <1>2, <2>1, <2>3, <3>1
  <2> QED
    BY <2>2, <2>3
<1>3. CASE ~(block_count_ = 0 /\ Len(Pending) = chunk_size_)
  <2>1. Current = Held(Blocks, Pending, block_count_)
    BY <1>1, <1>3, HeldFlushes
  <2> QED
    BY <1>3, <2>1
<1> QED
  BY <1>2, <1>3

(* The blocks of an input that ends there.                                 *)
LEMMA LastOfHeld ==
  ASSUME NEW b, NEW c, NEW d \in Nat
  PROVE  /\ c = <<>> \/ d # 0 => Meaning!LastBlocks(Held(b, c, d)) = b
         /\ c # <<>> /\ d = 0 => Meaning!LastBlocks(Held(b, c, d)) = Append(b, c)
  BY DEF Meaning!LastBlocks, Held

(* A line read makes what the line means.                                  *)
LEMMA LineMakes ==
  ASSUME UNCHANGED chunk_size_, TypeOK, TypeOK', NEW line, ReadsLine(line)
  PROVE  Current' = Meaning!Act(Current, line, chunk_size_)
<1>1. /\ block_count_ \in Nat
      /\ Current' = Meaning!Cut(Held(Blocks', Pending', block_count_'), chunk_size_)
      /\ Len(Pending) \in Nat
  BY PendingType DEF TypeOK, Current, Made, Held
<1>2. CASE /\ line \notin {<<OpenBrace>>, <<CloseBrace>>}
           /\ Takes(line) /\ block_count_' = block_count_
           /\ block_count_ = 0 => Len(Pending) < chunk_size_
  <2>1. Current = Held(Blocks, Pending, block_count_)
    BY <1>1, <1>2, CurrentIs, ChunkIsNat
  <2>2. Current' = Meaning!Cut(Held(Blocks, Append(Pending, line), block_count_), chunk_size_)
    BY <1>1, <1>2 DEF Takes
  <2> QED
    BY <1>1, <1>2, <2>1, <2>2, HeldActs
<1>3. CASE block_count_ = 0 /\ line = <<OpenBrace>> /\ Flushes /\ block_count_' = 1
  <2>1. Current' = Held(Blocks', <<>>, 1)
    BY <1>1, <1>3, NothingToCut DEF Flushes
  <2>2. CASE Pending = <<>>
    <3>1. Current = Held(Blocks, <<>>, 0) /\ Blocks' = Blocks
      BY <1>3, <2>2, CurrentIs DEF Flushes
    <3> QED
      BY <1>3, <2>1, <3>1, HeldActs
  <2>3. CASE Pending # <<>>
    <3>1. /\ \/ Current = Held(Append(Blocks, Pending), <<>>, 0)
             \/ Current = Held(Blocks, Pending, 0)
          /\ Blocks' = Append(Blocks, Pending)
      BY <1>3, <2>3, CurrentIs DEF Flushes
    <3> QED
      BY <1>3, <2>1, <2>3, <3>1, HeldActs
  <2> QED
    BY <2>2, <2>3
<1>4. CASE block_count_ # 0 /\ line = <<OpenBrace>> /\ Stays /\ block_count_' = block_count_ + 1
  <2>1. Current = Held(Blocks, Pending, block_count_)
    BY <1>4, CurrentIs
  <2>2. Current' = Held(Blocks, Pending, block_count_ + 1)
    <3>1. block_count_ + 1 # 0
      BY <1>1
    <3>2. Current' = Meaning!Cut(Held(Blocks, Pending, block_count_ + 1), chunk_size_)
      BY <1>1, <1>4 DEF Stays
    <3> QED
      BY <3>1, <3>2, HeldFlushes
  <2> QED
    BY <1>1, <1>4, <2>1, <2>2, HeldActs
<1>5. CASE block_count_ = 1 /\ line = <<CloseBrace>> /\ Flushes /\ block_count_' = 0
  <2>1. Current = Held(Blocks, Pending, 1)
    BY <1>5, CurrentIs
  <2>2. Current' = Held(Blocks', <<>>, 0)
    BY <1>1, <1>5, NothingToCut DEF Flushes
  <2>3. CASE Pending = <<>>
    BY <1>5, <2>1, <2>2, <2>3, HeldActs DEF Flushes
  <2>4. CASE Pending # <<>>
    BY <1>5, <2>1, <2>2, <2>4, HeldActs DEF Flushes
  <2> QED
    BY <2>3, <2>4
<1>6. CASE /\ block_count_ > 1 /\ line = <<CloseBrace>> /\ Stays
           /\ block_count_' = block_count_ - 1
  <2>1. Current = Held(Blocks, Pending, block_count_)
    BY <1>1, <1>6, CurrentIs
  <2>2. Current' = Held(Blocks, Pending, block_count_ - 1)
    <3>1. block_count_ - 1 # 0
      BY <1>1, <1>6
    <3>2. Current' = Meaning!Cut(Held(Blocks, Pending, block_count_ - 1), chunk_size_)
      BY <1>1, <1>6 DEF Stays
    <3> QED
      BY <3>1, <3>2, HeldFlushes
  <2>3. block_count_ # 1
    BY <1>1, <1>6
  <2> QED
    BY <1>1, <1>6, <2>1, <2>2, <2>3, HeldActs
<1> QED
  BY <1>1, <1>2, <1>3, <1>4, <1>5, <1>6 DEF ReadsLine

(* Completing a static block changes nothing of what the input has made.   *)
LEMMA FlushMakes ==
  ASSUME UNCHANGED chunk_size_, TypeOK, Flushes, block_count_ = 0, block_count_' = 0
  PROVE  /\ Pending = <<>> \/ Len(Pending) = chunk_size_ => Current' = Current
         /\ Meaning!LastBlocks(Current') = Meaning!LastBlocks(Current)
<1>1. Current' = Held(Blocks', <<>>, 0)
  <2>1. Current' = Meaning!Cut(Held(Blocks', <<>>, 0), chunk_size_)
    BY DEF Current, Made, Held, Flushes
  <2> QED
    BY <2>1, NothingToCut
<1>2. Meaning!LastBlocks(Current') = Blocks'
  BY <1>1, LastOfHeld
<1>3. CASE Pending = <<>>
  <2>1. Current = Held(Blocks, <<>>, 0) /\ Blocks' = Blocks
    BY <1>3, CurrentIs DEF Flushes
  <2> QED
    BY <1>1, <2>1
<1>4. CASE Pending # <<>>
  <2>1. Blocks' = Append(Blocks, Pending)
    BY <1>4 DEF Flushes
  <2>2. CASE Len(Pending) = chunk_size_
    <3>1. Current = Held(Append(Blocks, Pending), <<>>, 0)
      BY <1>4, <2>2, CurrentIs
    <3> QED
      BY <1>1, <2>1, <3>1
  <2>3. CASE Len(Pending) # chunk_size_
    <3>1. Current = Held(Blocks, Pending, 0)
      BY <2>3, CurrentIs
    <3>2. Meaning!LastBlocks(Current) = Append(Blocks, Pending)
      BY <1>4, <3>1, LastOfHeld
    <3> QED
      BY <1>2, <1>4, <2>1, <2>3, <3>2
  <2> QED
    BY <2>2, <2>3
<1> QED
  BY <1>3, <1>4

(* An unchanged session holds the same.                                    *)
LEMMA StaysMakes ==
  ASSUME UNCHANGED chunk_size_, Stays, block_count_' = block_count_
  PROVE  Current' = Current
  BY DEF Stays, Current, Made

(* The input before the last one, and all of it. *)
Before == Meaning!MadeBy(received, Len(received) - 1, chunk_size_)
Whole == Meaning!Assembled(received, chunk_size_)

(* All of the input is the last one after those before.                    *)
LEMMA WholeIsAfter ==
  ASSUME TypeOK, received # <<>>
  PROVE  Whole = Meaning!AfterText(Before, LastInput, chunk_size_)
<1>1. Len(received) \in Nat /\ Len(received) \in 1..Len(received)
  BY DEF TypeOK
<1> QED
  BY <1>1, MadeBySteps DEF Whole, Before, LastInput, Meaning!Assembled

(* A line that is read brings what the session holds up to the line's end: *)
(* of the last input, or of the whole of it.                               *)
LEMMA LineIsRead ==
  ASSUME UNCHANGED chunk_size_, TypeOK, TypeOK', IInv, StreamInv, MeaningInv, ReadLine, stray' = 0
  PROVE  \/ \E k \in 0..Len(LastInput) :
              /\ stream' = Rest(LastInput, k)
              /\ ReadsTo(Before, LastInput, k, chunk_size_, Current', <<>>)
         \/ stream' = <<>> /\ Current' = Whole
<1>1. PICK n \in 0..Len(stream) :
        TakeLine(n) /\ SubSeq(stream, 1, n) \in Line /\ ReadsLine(SubSeq(stream, 1, n))
  BY ReadLineSteps
<1>2. /\ pc = "bulk" /\ stream # <<>> /\ stream \in Seq(Symbol) /\ Len(stream) \in Nat
      /\ IsLine(stream, n)
  BY <1>1 DEF ReadLine, TakeLine, CanGetLine, TypeOK
<1>3. PICK k \in 0..Len(LastInput) :
        /\ stream = Rest(LastInput, k)
        /\ ReadsTo(Before, LastInput, k, chunk_size_, Current, <<>>)
  BY <1>2 DEF MeaningInv, IsMadeOf, ReadsTo, Before
<1>4. PICK j \in 0..Len(LastInput) :
        /\ received # <<>> /\ LastInput \in Seq(Symbol)
        /\ n \in 0..(Len(LastInput) - j) /\ Len(stream) = Len(LastInput) - j
        /\ SubSeq(stream, 1, n) = SubSeq(LastInput, j + 1, j + n)
        /\ \/ n < Len(LastInput) - j /\ stream' = Rest(LastInput, j + n + 1)
           \/ n = Len(LastInput) - j /\ stream' = <<>>
  BY <1>1, TakeLineRest
<1>5. /\ Len(stream) = Len(LastInput) - k /\ Len(LastInput) \in Nat
      /\ \A i \in 1..(Len(LastInput) - k) : stream[i] = LastInput[k + i]
  BY <1>3, <1>4, RestOfText
<1>6. j = k
  BY <1>4, <1>5
<1>7. n \in 0..(Len(LastInput) - k)
  BY <1>4, <1>6
<1>8. /\ \A i \in 1..n : LastInput[k + i] # NL
      /\ n < Len(LastInput) - k => LastInput[k + n + 1] = NL
  <2>1. /\ \A i \in 1..n : stream[i] # NL
        /\ n < Len(stream) => stream[n + 1] = NL
    BY <1>2 DEF IsLine
  <2>2. ASSUME NEW i \in 1..n
        PROVE  LastInput[k + i] # NL
    <3>1. i \in 1..(Len(LastInput) - k)
      BY <1>5, <1>7
    <3> QED
      BY <1>5, <2>1, <3>1
  <2>3. ASSUME n < Len(LastInput) - k
        PROVE  LastInput[k + n + 1] = NL
    <3>1. n + 1 \in 1..(Len(LastInput) - k) /\ k + (n + 1) = k + n + 1 /\ n < Len(stream)
      BY <1>5, <1>7, <2>3
    <3>2. stream[n + 1] = LastInput[k + (n + 1)]
      BY <1>5, <3>1
    <3> QED
      BY <2>1, <3>1, <3>2
  <2> QED
    BY <2>2, <2>3
<1> DEFINE line == Part(LastInput, k, n)
<1>9. Current' = Meaning!Act(Current, line, chunk_size_)
  <2>1. ReadsLine(line)
    BY <1>1, <1>4, <1>6 DEF Part
  <2> QED
    BY <2>1, LineMakes
<1>10. /\ n < Len(LastInput) - k =>
            ReadsTo(Before, LastInput, k + n + 1, chunk_size_,
                    Meaning!Act(Current, line, chunk_size_), <<>>)
       /\ EndsWith(LastInput, k, n) /\ n # 0 =>
            Meaning!AfterText(Before, LastInput, chunk_size_)
              = Meaning!Act(Current, line, chunk_size_)
  <2>1. LastInput \in Seq(Symbol)
    BY <1>4
  <2>2. ReadsTo(Before, LastInput, k, chunk_size_, Current, <<>>)
    BY <1>3
  <2>3. \A i \in 1..n : LastInput[k + i] # NL
    BY <1>8
  <2>4. n < Len(LastInput) - k /\ LastInput[k + n + 1] = NL =>
          ReadsTo(Before, LastInput, k + n + 1, chunk_size_,
                  Meaning!Act(Current, line, chunk_size_), <<>>)
    BY <1>7, <2>1, <2>2, <2>3, ReadingActs
  <2>5. EndsWith(LastInput, k, n) /\ n # 0 =>
          EndsAs(Before, LastInput, chunk_size_, Meaning!Act(Current, line, chunk_size_))
    BY <1>7, <2>1, <2>2, <2>3, ReadingActs
  <2> QED
    BY <1>8, <2>4, <2>5 DEF EndsAs
<1>11. CASE n < Len(LastInput) - k
  <2>1. k + n + 1 \in 0..Len(LastInput)
    BY <1>5, <1>7, <1>11
  <2>2. stream' = Rest(LastInput, k + n + 1)
    BY <1>4, <1>6, <1>11
  <2>3. ReadsTo(Before, LastInput, k + n + 1, chunk_size_, Current', <<>>)
    BY <1>9, <1>10, <1>11
  <2> QED
    BY <2>1, <2>2, <2>3
<1>12. CASE n = Len(LastInput) - k
  <2>1. stream' = <<>>
    BY <1>4, <1>5, <1>6, <1>12
  <2>2. n # 0
    BY <1>2, <1>5, <1>12
  <2>3. Current' = Meaning!AfterText(Before, LastInput, chunk_size_)
    <3>1. EndsWith(LastInput, k, n)
      BY <1>5, <1>12 DEF EndsWith
    <3> QED
      BY <1>9, <1>10, <2>2, <3>1
  <2>4. Whole = Meaning!AfterText(Before, LastInput, chunk_size_)
    BY <1>4, WholeIsAfter
  <2> QED
    BY <2>1, <2>3, <2>4
<1>13. n < Len(LastInput) - k \/ n = Len(LastInput) - k
  <2>1. Len(LastInput) - k \in Int
    BY <1>5
  <2> QED
    BY <1>7, <2>1
<1> QED
  <2>1. CASE n < Len(LastInput) - k
    BY <1>11, <2>1, Zenon
  <2>2. CASE n = Len(LastInput) - k
    BY <1>12, <2>2, Zenon
  <2> QED
    BY <1>13, <2>1, <2>2, Zenon

-----------------------------------------------------------------------------
(* The session against what its input means. *)

(* A call brings an input, and the session holds what those before made.   *)
LEMMA ReceiveMeans ==
  ASSUME UNCHANGED chunk_size_, TypeOK, TypeOK', StreamInv, MeaningInv, NEW data \in Seq(Symbol), NEW save \in BOOLEAN,
         Process(data, save), received' = Append(received, data)
  PROVE  MeaningInv'
<1>1. /\ pc = "idle" /\ pc' = "process" /\ Stays /\ block_count_' = block_count_
      /\ stream' = <<>> \o data
  BY ProcessSteps
<1>2. Current' = Current /\ stream' = data
  BY <1>1, StaysMakes, ConcatEmptySeq
<1>3. received \in Seq(Seq(Symbol)) /\ Len(received) \in Nat
  BY DEF TypeOK
<1>4. /\ received' # <<>> /\ LastInput' = data /\ Len(received') - 1 = Len(received)
      /\ received' \in Seq(Seq(Symbol))
  BY <1>3, AppendProperties DEF LastInput
<1>5. Whole = Current
  BY <1>1 DEF MeaningInv, Whole
<1>6. Before' = Current
  <2>1. Meaning!MadeBy(Append(received, data), Len(received), chunk_size_) = Whole
    BY <1>3, OneMoreText DEF Whole
  <2>2. Before' = Meaning!MadeBy(received', Len(received') - 1, chunk_size_)
    BY DEF Before
  <2> QED
    BY <1>4, <1>5, <2>1, <2>2
<1>7. ReadsTo(Current, data, 0, chunk_size_, Current, <<>>)
  <2>1. Len(data) \in Nat
    OBVIOUS
  <2> QED
    BY <2>1, ReadingSteps DEF ReadsTo
<1>8. CASE data # <<>>
  <2>1. data = Rest(data, 0) /\ 0 \in 0..Len(data)
    BY WholePrefix DEF Rest
  <2>2. IsMadeOf(Current, data)'
    BY <1>2, <1>4, <1>7, <2>1 DEF IsMadeOf, ReadsTo
  <2>3. IsMadeOf(Before, LastInput)'
    BY <1>2, <1>4, <1>6, <2>2
  <2> QED
    BY <1>1, <1>2, <1>4, <1>8, <2>3 DEF MeaningInv, Before
<1>9. CASE data = <<>>
  <2>1. Whole' = Current'
    <3>1. Len(data) = 0
      BY <1>9
    <3>2. Meaning!AfterText(Current, data, chunk_size_) = Current
      BY <1>7, <3>1, AfterTextActs
    <3>3. Meaning!Assembled(Append(received, data), chunk_size_)
            = Meaning!AfterText(Whole, data, chunk_size_)
      BY <1>3, OneMoreText DEF Whole
    <3>4. Whole' = Meaning!Assembled(received', chunk_size_)
      BY DEF Whole
    <3> QED
      BY <1>2, <1>5, <3>2, <3>3, <3>4
  <2>2. stream' = <<>>
    BY <1>2, <1>9
  <2> QED
    BY <1>1, <2>1, <2>2 DEF MeaningInv, Whole, Meaning!AllBlocks
<1> QED
  BY <1>8, <1>9

(* A disconnect ends the input there.                                      *)
LEMMA DisconnectMeans ==
  ASSUME UNCHANGED chunk_size_, StreamInv, MeaningInv, Disconnect
  PROVE  MeaningInv'
<1>1. Process(<<>>, FALSE) /\ received' = received
  BY DEF Disconnect
<1>2. /\ pc = "idle" /\ pc' = "process" /\ Stays /\ block_count_' = block_count_
      /\ stream' = <<>> \o <<>> /\ save_status_at_stop_' = FALSE
  BY <1>1, ProcessSteps
<1>3. Current' = Current /\ stream' = <<>>
  BY <1>2, StaysMakes
<1>4. Current = Whole
  BY <1>2 DEF MeaningInv, Whole
<1>5. Whole' = Whole
  BY <1>1 DEF Whole
<1> QED
  BY <1>1, <1>2, <1>3, <1>4, <1>5 DEF MeaningInv, Whole, Meaning!AllBlocks

(* Steps that leave the stream and what the session holds.                 *)
LEMMA UnchangedMeans ==
  ASSUME UNCHANGED chunk_size_, MeaningInv, UNCHANGED <<stream, save_status_at_stop_, received>>,
         pc \in {"process", "bulk"}, pc' \in {"process", "bulk"},
         Meaning!LastBlocks(Current') = Meaning!LastBlocks(Current),
         Current' = Current \/ (~save_status_at_stop_ /\ stream = <<>>)
  PROVE  MeaningInv'
<1>1. LastInput' = LastInput /\ Before' = Before /\ Whole' = Whole
  BY DEF LastInput, Before, Whole
<1>2. CASE stream = <<>>
  BY <1>1, <1>2 DEF MeaningInv, Whole
<1>3. CASE stream # <<>>
  <2>1. received # <<>> /\ IsMadeOf(Before, LastInput) /\ Current' = Current
    BY <1>3 DEF MeaningInv, Before
  <2>2. IsMadeOf(Before, LastInput)'
    BY <1>1, <2>1 DEF IsMadeOf
  <2> QED
    BY <1>3, <2>1, <2>2 DEF MeaningInv, Before
<1> QED
  BY <1>2, <1>3

(* The end of a stream: of a receive, of the session, or of its last block.*)
LEMMA EndOfInputMeans ==
  ASSUME UNCHANGED chunk_size_, TypeOK, IInv, StreamInv, MeaningInv, EndOfInput, stray' = 0
  PROVE  MeaningInv'
<1>1. pc = "bulk" /\ stream = <<>> /\ stream' = <<>> /\ received' = received
  BY EndOfInputSteps
<1>2. Whole' = Whole /\ block_count_ \in Nat
  BY <1>1 DEF Whole, TypeOK
<1>3. CASE /\ save_status_at_stop_ /\ Stays /\ pc' = "idle" /\ block_count_' = block_count_
           /\ block_count_ = 0 => Len(Pending) # chunk_size_
  <2>1. Current' = Current /\ Current = Whole
    BY <1>1, <1>3, StaysMakes DEF MeaningInv, Whole
  <2>2. Len(Pending) = Len(q_) /\ Len(Pending') = Len(q_')
    <3>1. Len(q_) \in Nat /\ Len(Pending) = Len(q_)
      BY PendingType
    <3>2. q_' = q_
      BY <1>1, <1>3 DEF EndOfInput, OnStatus, StopProcessing, EndStatus
    <3> QED
      BY <1>3, <3>1, <3>2 DEF Stays
  <2>3. ~(block_count_' = 0 /\ Len(q_') = chunk_size_)
    BY <1>3, <2>2 DEF Stays
  <2> QED
    BY <1>1, <1>2, <1>3, <2>1, <2>3 DEF MeaningInv, Whole
<1>4. CASE /\ ~save_status_at_stop_ /\ pc' = "closed" /\ Blocks' = Blocks
           /\ block_count_ > 0 \/ Pending = <<>>
  <2>1. Meaning!LastBlocks(Current) = Meaning!LastBlocks(Whole)
    BY <1>1, <1>4 DEF MeaningInv, Whole, Meaning!AllBlocks
  <2>2. block_count_ # 0 \/ Pending = <<>>
    BY <1>2, <1>4
  <2>3. Current = Held(Blocks, Pending, block_count_)
    BY <2>2, CurrentIs
  <2>4. Meaning!LastBlocks(Current) = Blocks
    BY <1>2, <2>2, <2>3, LastOfHeld
  <2> QED
    BY <1>1, <1>4, <2>1, <2>4 DEF MeaningInv, Whole, Meaning!AllBlocks
<1>5. CASE /\ ~save_status_at_stop_ /\ ~save_status_at_stop_' /\ Flushes
           /\ pc' \in {"process", "bulk"} /\ block_count_ = 0 /\ block_count_' = 0
  <2>1. Meaning!LastBlocks(Current') = Meaning!LastBlocks(Current)
    BY <1>5, FlushMakes
  <2> QED
    BY <1>1, <1>5, <2>1 DEF MeaningInv
<1> QED
  BY <1>3, <1>4, <1>5, EndOfInputSteps

(* A line that is read.                                                    *)
LEMMA ReadLineMeans ==
  ASSUME UNCHANGED chunk_size_, TypeOK, TypeOK', IInv, StreamInv, MeaningInv, ReadLine, stray' = 0
  PROVE  MeaningInv'
<1>1. pc = "bulk" /\ pc' \in {"process", "bulk"} /\ received' = received
  BY ReadLineSteps
<1>2. LastInput' = LastInput /\ Before' = Before /\ Whole' = Whole
  BY <1>1 DEF LastInput, Before, Whole
<1>3. received # <<>>
  <2>1. stream # <<>>
    BY DEF ReadLine, TakeLine, CanGetLine
  <2> QED
    BY <1>1, <2>1 DEF MeaningInv
<1>4. CASE stream' = <<>> /\ Current' = Whole
  BY <1>1, <1>2, <1>4 DEF MeaningInv, Whole, Meaning!AllBlocks
<1>5. CASE stream' # <<>> /\ \E k \in 0..Len(LastInput) :
             /\ stream' = Rest(LastInput, k)
             /\ ReadsTo(Before, LastInput, k, chunk_size_, Current', <<>>)
  <2>1. IsMadeOf(Before, LastInput)'
    BY <1>2, <1>5 DEF IsMadeOf, ReadsTo
  <2> QED
    BY <1>1, <1>3, <1>5, <2>1 DEF MeaningInv, Before
<1>6. CASE stream' = <<>> /\ \E k \in 0..Len(LastInput) :
             /\ stream' = Rest(LastInput, k)
             /\ ReadsTo(Before, LastInput, k, chunk_size_, Current', <<>>)
  <2>1. LastInput \in Seq(Symbol)
    <3>1. received \in Seq(Seq(Symbol))
      BY DEF TypeOK
    <3> QED
      BY <1>3, <3>1, ElementOfSeq DEF LastInput
  <2>2. PICK k \in 0..Len(LastInput) :
          /\ <<>> = Rest(LastInput, k)
          /\ ReadsTo(Before, LastInput, k, chunk_size_, Current', <<>>)
    BY <1>6
  <2>3. k = Len(LastInput)
    <3>1. Len(<<>>) = Len(LastInput) - k
      BY <2>1, <2>2, RestOfText
    <3> QED
      BY <3>1
  <2>4. Current' = Whole
    <3>1. ReadsTo(Before, LastInput, Len(LastInput), chunk_size_, Current', <<>>)
      BY <2>2, <2>3
    <3>2. Meaning!AfterText(Before, LastInput, chunk_size_) = Current'
      BY <3>1, AfterTextActs
    <3> QED
      BY <1>3, <3>2, WholeIsAfter
  <2> QED
    BY <1>4, <1>6, <2>4
<1> QED
  BY <1>4, <1>5, <1>6, LineIsRead

(* No step takes back an unmatched closing line.                           *)
LEMMA StrayOnlyGrows == ASSUME TypeOK, [Next]_vars, stray' = 0 PROVE stray = 0
<1>1. stray \in Nat
  BY DEF TypeOK
<1>2. CASE ReadLine
  <2>1. PICK line : ReadCommand(line) \/ BeginBlock(line) \/ EndBlock(line) \/ StrayClose(line)
    BY <1>2 DEF ReadLine
  <2>2. stray' = stray \/ stray' = stray + 1
    BY <2>1 DEF ReadCommand, BeginBlock, EndBlock, StrayClose
  <2> QED
    BY <1>1, <2>2
<1>3. CASE stray' = stray
  BY <1>3
<1> QED
  BY <1>2, <1>3 DEF Next, Step, vars, Receive, Standalone, Disconnect, Process,
                    ReadNextBulk, EndOfChunk, EndOfInput

(* At the beginning no input has made anything.                            *)
LEMMA InitMeans == Init => MatchedInv
<1> SUFFICES ASSUME Init PROVE MatchedInv
  OBVIOUS
<1>1. StreamInv
  BY InitMatched DEF Matched
<1>2. pc = "idle" /\ stream = <<>> /\ received = <<>> /\ q_ = <<>> /\ block_count_ = 0
  BY DEF Init
<1>3. Current = Meaning!Nothing
  <2>1. TypeOK /\ Pending = <<>> /\ Blocks = <<>>
    BY InitType DEF Init, Pending, Blocks, Texts
  <2>2. Current = Held(<<>>, <<>>, 0)
    BY <1>2, <2>1, CurrentIs
  <2> QED
    BY <2>2 DEF Held, Meaning!Nothing
<1>4. Whole = Meaning!Nothing
  <2>1. Len(received) = 0
    BY <1>2
  <2> QED
    BY <2>1, MadeBySteps DEF Whole, Meaning!Assembled
<1> QED
  BY <1>1, <1>2, <1>3, <1>4 DEF MatchedInv, MeaningInv, Whole

(* Every step of a client that has closed no brace it had not opened.      *)
LEMMA NextMeans ==
  ASSUME TypeOK, TypeOK', IInv, MatchedInv, [Next]_vars
  PROVE  MatchedInv'
<1> SUFFICES ASSUME stray' = 0, UNCHANGED chunk_size_ PROVE StreamInv' /\ MeaningInv'
  BY ChunkStays DEF MatchedInv
<1>1. StreamInv /\ MeaningInv
  BY StrayOnlyGrows DEF MatchedInv
<1>2. StreamInv'
  BY <1>1, NextStream
<1> SUFFICES MeaningInv'
  BY <1>2
<1>3. ASSUME NEW buf \in Buffer, Receive(buf) PROVE MeaningInv'
  BY <1>1, <1>3, ReceiveMeans, InputAssumption DEF Receive
<1>4. ASSUME NEW text \in Script, Standalone(text) PROVE MeaningInv'
  <2>1. Process(text, FALSE) /\ received' = Append(received, text)
    <3>1. Append(<<>>, text) = <<text>>
      OBVIOUS
    <3> QED
      BY <1>4, <3>1 DEF Standalone
  <2> QED
    BY <1>1, <2>1, ReceiveMeans, InputAssumption
<1>5. CASE Disconnect
  BY <1>1, <1>5, DisconnectMeans
<1>6. CASE ReadNextBulk
  <2>1. /\ pc = "process" /\ pc' = "bulk" /\ Current' = Current
        /\ UNCHANGED <<stream, save_status_at_stop_, received>>
    BY <1>6, ReadNextBulkSteps, StaysMakes DEF streamVars
  <2> QED
    BY <1>1, <2>1, UnchangedMeans
<1>7. CASE EndOfChunk
  <2>1. /\ pc = "bulk" /\ pc' \in {"process", "bulk"} /\ Flushes
        /\ block_count_ = 0 /\ block_count_' = 0
        /\ UNCHANGED <<stream, save_status_at_stop_, received>>
        /\ \/ Pending = <<>> \/ Len(Pending) = chunk_size_
           \/ ~save_status_at_stop_ /\ last_stat_ = "kStop"
    BY <1>7, EndOfChunkSteps DEF streamVars
  <2>2. ~save_status_at_stop_ /\ last_stat_ = "kStop" => stream = <<>>
    BY <1>1, <2>1 DEF StreamInv
  <2>3. /\ Pending = <<>> \/ Len(Pending) = chunk_size_ => Current' = Current
        /\ Meaning!LastBlocks(Current') = Meaning!LastBlocks(Current)
    BY <2>1, FlushMakes
  <2> QED
    BY <1>1, <2>1, <2>2, <2>3, UnchangedMeans
<1>8. CASE EndOfInput
  BY <1>1, <1>8, EndOfInputMeans
<1>9. CASE ReadLine
  BY <1>1, <1>9, ReadLineMeans
<1>10. CASE UNCHANGED vars
  <2>1. /\ UNCHANGED <<q_, executed, stream, block_count_, pc, save_status_at_stop_, received>>
    BY <1>10 DEF vars, streamVars, parserVars, queueVars, callVars
  <2>2. Current' = Current /\ Blocks' = Blocks
    BY <2>1, StaysWhenUnchanged, StaysMakes DEF Stays
  <2>3. LastInput' = LastInput /\ Before' = Before
    BY <2>1 DEF LastInput, Before
  <2>4. IsMadeOf(Before, LastInput) => IsMadeOf(Before, LastInput)'
    BY <2>1, <2>2, <2>3 DEF IsMadeOf
  <2> QED
    BY <1>1, <2>1, <2>2, <2>4 DEF MeaningInv, Before
<1> QED
  BY <1>3, <1>4, <1>5, <1>6, <1>7, <1>8, <1>9, <1>10 DEF Next, Step

(* The inductive invariant about the input: what a session holds between   *)
(* any two steps is what the lines read so far mean.                       *)
THEOREM InputInvariant == Spec => []MatchedInv
<1>1. TypeOK /\ IInv /\ MatchedInv /\ [Next]_vars => (TypeOK /\ IInv /\ MatchedInv)'
  BY NextType, NextInv, NextMeans
<1>2. Init => TypeOK /\ IInv /\ MatchedInv
  BY InitType, InitInv, InitMeans
<1> QED
  BY <1>1, <1>2, PTL DEF Spec

(* The invariant has what the session holds between calls and at the end.  *)
LEMMA InvAssembles == ASSUME TypeOK, MatchedInv PROVE AssemblesBuffers
<1> SUFFICES ASSUME stray = 0 PROVE Assembles(received)
  BY DEF AssemblesBuffers
<1>1. MeaningInv
  BY DEF MatchedInv
<1>2. CASE pc = "idle"
  <2>1. Current = Whole
    BY <1>1, <1>2 DEF MeaningInv, Whole
  <2>2. block_count_ # 0 \/ Len(Pending) # chunk_size_ \/ Pending = <<>>
    BY <1>1, <1>2, PendingType DEF MeaningInv
  <2>3. Current = Held(Blocks, Pending, block_count_)
    BY <2>2, CurrentIs
  <2>4. Whole.blocks = Blocks /\ Whole.cur = Pending
    BY <2>1, <2>3 DEF Held
  <2> QED
    BY <1>2, <2>4 DEF Assembles, Whole
<1>3. CASE pc = "closed"
  BY <1>1, <1>3 DEF MeaningInv, Assembles
<1> QED
  BY <1>2, <1>3 DEF Assembles

(* For every client that closes no brace it has not opened, every cutting  *)
(* of the input into receives and every block size: the blocks executed,   *)
(* and what is pending between calls, are those of the lines received.     *)
THEOREM BuffersAssembled == Spec => []AssemblesBuffers
<1>1. TypeOK /\ MatchedInv => AssemblesBuffers
  BY InvAssembles
<1> QED
  BY <1>1, TypeCorrect, InputInvariant, PTL

=============================================================================
