-------------------------- MODULE InputParserProofs --------------------------
(***************************************************************************)
(* Proofs about a session (module InputParser), for every input a client   *)
(* may send in any number of receives, and every block size.               *)
(***************************************************************************)
EXTENDS InputParser, SequenceTheorems, TLAPS

-----------------------------------------------------------------------------
(* Sequences. *)

(* A prefix as long as the sequence is the sequence. *)
LEMMA WholePrefix ==
  ASSUME NEW S, NEW s \in Seq(S)
  PROVE  SubSeq(s, 1, Len(s)) = s
  BY SMT

(* The empty sequence is a sequence over any set. *)
LEMMA EmptyType == ASSUME NEW S PROVE <<>> \in Seq(S)
  BY EmptySeq

(* The entries of a sequence one was appended to: the old ones, and it. *)
LEMMA AppendCases ==
  ASSUME NEW S, NEW s \in Seq(S), NEW x \in S
  PROVE  /\ Len(s) \in Nat /\ Len(Append(s, x)) = Len(s) + 1
         /\ \A i \in 1..Len(Append(s, x)) :
              \/ i \in 1..Len(s) /\ Append(s, x)[i] = s[i]
              \/ i = Len(s) + 1 /\ Append(s, x)[i] = x
<1>1. /\ Len(s) \in Nat /\ Len(Append(s, x)) = Len(s) + 1
      /\ \A i \in 1..Len(s) : Append(s, x)[i] = s[i]
      /\ Append(s, x)[Len(s) + 1] = x
  BY AppendProperties
<1>2. ASSUME NEW i \in 1..Len(Append(s, x))
      PROVE  i \in 1..Len(s) \/ i = Len(s) + 1
  BY <1>1
<1> QED
  BY <1>1, <1>2

(* What SubSeq cuts from a sequence is a sequence over the same set. *)
LEMMA SubSeqType ==
  ASSUME NEW S, NEW s \in Seq(S), NEW m \in Nat \ {0}, NEW n \in 0..Len(s)
  PROVE  SubSeq(s, m, n) \in Seq(S)
  BY SMT

-----------------------------------------------------------------------------
(* Type correctness. *)

(* The size of a static block is a number.                                 *)
LEMMA ChunkIsNat == ASSUME TypeOK PROVE chunk_size_ \in Nat
BY ChunkAssumption DEF TypeOK

(* The types hold at the beginning.                                        *)
LEMMA InitType == Init => TypeOK
<1>1. /\ <<>> \in Seq(Symbol) /\ <<>> \in Line /\ <<>> \in Seq(Command)
      /\ <<>> \in Seq(Seq(Symbol)) /\ <<>> \in Seq(Bulk)
  BY EmptyType DEF Line
<1>2. ASSUME Init
      PROVE  /\ eofbit \in BOOLEAN /\ failbit \in BOOLEAN
             /\ save_status_at_stop_ \in BOOLEAN /\ save_status_at_stop0 \in BOOLEAN
  BY <1>2, Zenon DEF Init
<1>3. ASSUME Init
      PROVE  /\ chunk_size_ \in ChunkSize
             /\ cmd_count_ \in Nat /\ block_count_ \in Nat /\ stray \in Nat
             /\ last_bulk_id_ \in Nat /\ q_bulk_id_ \in Nat /\ bulk_id \in Nat
             /\ q_bulk_size_ \in Nat /\ bulk_size \in Nat
             /\ last_stat_ \in Status /\ pc \in PC
  BY <1>3 DEF Init, PC, Status
<1>4. ASSUME Init
      PROVE  /\ stream \in Seq(Symbol) /\ last_cmd_ \in Line /\ q_ \in Seq(Command)
             /\ received \in Seq(Seq(Symbol)) /\ executed \in Seq(Bulk)
  BY <1>1, <1>4, Zenon DEF Init
<1> QED
  BY <1>2, <1>3, <1>4, Zenon DEF TypeOK

(* set_status leaves a status and two counters. *)
LEMMA SetStatusType ==
  ASSUME TypeOK, NEW st \in Status, NEW cc \in Nat, NEW bc \in Nat,
         SetStatus(st, cc, bc)
  PROVE  last_stat_' \in Status /\ cmd_count_' \in Nat /\ block_count_' \in Nat
  BY DEF TypeOK, SetStatus

(* A new command of the current block. *)
LEMMA NewCommandType ==
  ASSUME TypeOK, NEW type \in {"cmdFirst", "cmdSimple", "cmdLast"}, NEW cmd \in Line
  PROVE  NewCommand(type, cmd) \in Command
  BY DEF TypeOK, NewCommand, Command

(* What the loops do about a status leaves the queue, the blocks and the   *)
(* call variables typed.                                                   *)
LEMMA OnStatusType ==
  ASSUME TypeOK, pc \in PC, NEW st, NEW cmd \in Line, NEW kind \in {"static", "dynamic"},
         OnStatus(st, cmd, kind)
  PROVE  /\ q_' \in Seq(Command) /\ q_bulk_size_' \in Nat /\ bulk_size' \in Nat
         /\ executed' \in Seq(Bulk)
         /\ save_status_at_stop_' \in BOOLEAN /\ save_status_at_stop0' \in BOOLEAN
         /\ pc' \in PC
<1> USE DEF TypeOK
<1>1. CASE UNCHANGED <<queueVars, callVars>>
  BY <1>1 DEF queueVars, callVars
<1>2. CASE PushCommand(cmd)
  <2>1. NewCommand(IF q_ = <<>> THEN "cmdFirst" ELSE "cmdSimple", cmd) \in Command
    BY NewCommandType
  <2> QED
    BY <1>2, <2>1 DEF PushCommand, callVars
<1>3. CASE ExecQueue(kind)
  <2> DEFINE cmds == IF q_ = <<>> THEN q_ ELSE Append(q_, NewCommand("cmdLast", <<>>))
             size == IF q_ = <<>> THEN bulk_size ELSE bulk_size + 1
             moved == IF size < Len(cmds) THEN size ELSE Len(cmds)
             block == [id |-> q_bulk_id_, kind |-> kind, cmds |-> SubSeq(cmds, 1, moved)]
  <2>1. NewCommand("cmdLast", <<>>) \in Command
    BY NewCommandType, EmptyType DEF Line
  <2>2. cmds \in Seq(Command) /\ size \in Nat /\ moved \in 0..Len(cmds)
    BY <2>1
  <2>3. /\ bulk_size' = size /\ q_bulk_size_' = size
        /\ executed' = Append(executed, block)
        /\ q_' = SubSeq(cmds, moved + 1, Len(cmds))
        /\ pc' = "process"
        /\ UNCHANGED <<save_status_at_stop_, save_status_at_stop0>>
    BY <1>3 DEF ExecQueue
  <2> HIDE DEF cmds, size, moved
  <2>4. /\ SubSeq(cmds, 1, moved) \in Seq(Command)
        /\ SubSeq(cmds, moved + 1, Len(cmds)) \in Seq(Command)
    BY <2>2, SubSeqType
  <2>5. block \in Bulk
    BY <2>4 DEF Bulk
  <2> QED
    BY <2>2, <2>3, <2>4, <2>5 DEF PC
<1>4. CASE StopProcessing
  BY <1>4 DEF StopProcessing, PC
<1> QED
  BY <1>1, <1>2, <1>3, <1>4 DEF OnStatus

(* The line getline takes holds no line end. *)
LEMMA LineType ==
  ASSUME NEW str \in Seq(Symbol), NEW n \in 0..Len(str), IsLine(str, n)
  PROVE  /\ SubSeq(str, 1, n) \in Line
         /\ SubSeq(str, n + 2, Len(str)) \in Seq(Symbol)
<1>1. \A i \in 1..n : str[i] \in Symbol \ {NL}
  BY DEF IsLine
<1>2. SubSeq(str, 1, n) \in Line
  BY <1>1, SubSeqProperties DEF Line
<1>3. \A i \in (n + 2)..Len(str) : str[i] \in Symbol
  OBVIOUS
<1>4. SubSeq(str, n + 2, Len(str)) \in Seq(Symbol)
  BY <1>3, SubSeqProperties
<1> QED
  BY <1>2, <1>4

(* A receive appends to the stream.                                        *)
LEMMA FeedType ==
  ASSUME TypeOK, NEW data \in Seq(Symbol), Feed(data)
  PROVE  stream' \in Seq(Symbol) /\ eofbit' \in BOOLEAN /\ failbit' \in BOOLEAN
<1> DEFINE kept == eofbit /\ ~failbit
<1>1. kept \in BOOLEAN
  BY Zenon
<1>2. CASE data # <<>> /\ kept
  BY <1>2 DEF TypeOK, Feed
<1>3. CASE ~(data # <<>> /\ kept)
  <2>1. stream' = stream \o data /\ failbit' = FALSE /\ eofbit' = kept
    BY <1>3, Zenon DEF Feed
  <2>2. stream' \in Seq(Symbol)
    BY <2>1, ConcatProperties DEF TypeOK
  <2> QED
    BY <1>1, <2>1, <2>2, Zenon
<1> QED
  BY <1>2, <1>3

(* The calls keep the types.                                               *)
LEMMA ProcessType ==
  ASSUME TypeOK, NEW data \in Seq(Symbol), NEW save \in BOOLEAN, Process(data, save),
         received' \in Seq(Seq(Symbol))
  PROVE  TypeOK'
<1>1. stream' \in Seq(Symbol) /\ eofbit' \in BOOLEAN /\ failbit' \in BOOLEAN
  BY FeedType DEF Process
<1> QED
  BY <1>1 DEF TypeOK, Process, PC, parserVars, idVars, queueVars

(* Each line read_command reads, and each end, leaves everything typed. *)
LEMMA ReadLineType ==
  ASSUME TypeOK, ReadLine
  PROVE  TypeOK'
<1> USE DEF TypeOK
<1>1. PICK n \in 0..Len(stream) :
        /\ TakeLine(n)
        /\ \/ ReadCommand(SubSeq(stream, 1, n))
           \/ BeginBlock(SubSeq(stream, 1, n))
           \/ EndBlock(SubSeq(stream, 1, n))
           \/ StrayClose(SubSeq(stream, 1, n))
  BY DEF ReadLine
<1> DEFINE line == SubSeq(stream, 1, n)
<1>2. line \in Line /\ stream' \in Seq(Symbol) /\ eofbit' \in BOOLEAN /\ failbit' \in BOOLEAN
  BY <1>1, LineType DEF TakeLine
<1> HIDE DEF line
<1>3. UNCHANGED <<chunk_size_, idVars, received>>
  BY DEF ReadLine
<1> USE DEF idVars
<1>4. CASE ReadCommand(line)
  <2>1. last_cmd_' = line /\ stray' = stray
        /\ SetStatus("kReading", cmd_count_ + 1, block_count_)
        /\ OnStatus("kReading", line, "static")
    BY <1>4 DEF ReadCommand
  <2>2. last_stat_' \in Status /\ cmd_count_' \in Nat /\ block_count_' \in Nat
    BY <2>1, SetStatusType DEF Status
  <2> QED
    BY <1>2, <1>3, <2>1, <2>2, OnStatusType
<1>5. CASE BeginBlock(line)
  <2>1. PICK st \in {"kReady", "kIgnore"} :
          /\ SetStatus(st, cmd_count_, block_count_ + 1)
          /\ OnStatus(st, last_cmd_, "static")
          /\ UNCHANGED <<last_cmd_, stray>>
    BY <1>5 DEF BeginBlock
  <2>2. last_stat_' \in Status /\ cmd_count_' \in Nat /\ block_count_' \in Nat
    BY <2>1, SetStatusType DEF Status
  <2> QED
    BY <1>2, <1>3, <2>1, <2>2, OnStatusType
<1>6. CASE EndBlock(line)
  <2>1. PICK st \in {"kReady", "kIgnore"} :
          /\ block_count_ > 0
          /\ SetStatus(st, cmd_count_, block_count_ - 1)
          /\ OnStatus(st, last_cmd_, "dynamic")
          /\ UNCHANGED <<last_cmd_, stray>>
    BY <1>6 DEF EndBlock
  <2>2. last_stat_' \in Status /\ cmd_count_' \in Nat /\ block_count_' \in Nat
    BY <2>1, SetStatusType DEF Status
  <2> QED
    BY <1>2, <1>3, <2>1, <2>2, OnStatusType
<1>7. CASE StrayClose(line)
  <2>1. OnStatus(last_stat_, last_cmd_, "static") /\ stray' = stray + 1 /\ UNCHANGED parserVars
    BY <1>7 DEF StrayClose
  <2> QED
    BY <1>2, <1>3, <2>1, OnStatusType DEF parserVars
<1> QED
  BY <1>1, <1>4, <1>5, <1>6, <1>7 DEF line

(* A complete block keeps the types.                                       *)
LEMMA EndOfChunkType ==
  ASSUME TypeOK, EndOfChunk
  PROVE  TypeOK'
<1> USE DEF TypeOK
<1>1. /\ SetStatus("kReady", cmd_count_, block_count_)
      /\ OnStatus("kReady", last_cmd_, "static")
      /\ UNCHANGED <<chunk_size_, streamVars, last_cmd_, idVars, received, stray>>
  BY DEF EndOfChunk
<1>2. last_stat_' \in Status /\ cmd_count_' \in Nat /\ block_count_' \in Nat
  BY <1>1, SetStatusType DEF Status
<1> QED
  BY <1>1, <1>2, OnStatusType DEF streamVars, idVars

(* The end of the stream keeps the types.                                  *)
LEMMA EndOfInputType ==
  ASSUME TypeOK, EndOfInput
  PROVE  TypeOK'
<1> USE DEF TypeOK
<1>1. /\ SetStatus(EndStatus, cmd_count_, block_count_)
      /\ OnStatus(EndStatus, last_cmd_, "static")
      /\ UNCHANGED <<chunk_size_, last_cmd_, idVars, received, stray>>
  BY DEF EndOfInput
<1>2. stream' \in Seq(Symbol) /\ eofbit' \in BOOLEAN /\ failbit' \in BOOLEAN
  BY DEF EndOfInput, FailLine
<1>3. EndStatus \in Status
  BY DEF EndStatus, Status
<1>4. last_stat_' \in Status /\ cmd_count_' \in Nat /\ block_count_' \in Nat
  BY <1>1, <1>3, SetStatusType
<1> QED
  BY <1>1, <1>2, <1>4, OnStatusType DEF idVars

(* Every step keeps the types.                                             *)
LEMMA NextType == TypeOK /\ [Next]_vars => TypeOK'
<1> SUFFICES ASSUME TypeOK, [Next]_vars PROVE TypeOK'
  OBVIOUS
<1>1. ASSUME NEW buf \in Buffer, Receive(buf) PROVE TypeOK'
  <2>1. buf \in Seq(Symbol)
    BY InputAssumption
  <2>2. Process(buf, TRUE) /\ received' = Append(received, buf)
    BY <1>1 DEF Receive
  <2>3. received' \in Seq(Seq(Symbol))
    BY <2>1, <2>2, AppendProperties DEF TypeOK
  <2> QED
    BY <2>1, <2>2, <2>3, ProcessType
<1>2. ASSUME NEW text \in Script, Standalone(text) PROVE TypeOK'
  <2>1. text \in Seq(Symbol)
    BY InputAssumption
  <2>2. Process(text, FALSE) /\ received' = <<text>>
    BY <1>2 DEF Standalone
  <2>3. received' \in Seq(Seq(Symbol))
    BY <2>1, <2>2
  <2> QED
    BY <2>1, <2>2, <2>3, ProcessType
<1>3. CASE Disconnect
  BY <1>3, ProcessType, EmptyType DEF Disconnect, TypeOK
<1>4. CASE ReadNextBulk
  BY <1>4 DEF ReadNextBulk, CarriedSize, TypeOK, PC, streamVars, parserVars, idVars
<1>5. CASE EndOfChunk
  BY <1>5, EndOfChunkType
<1>6. CASE EndOfInput
  BY <1>6, EndOfInputType
<1>7. CASE ReadLine
  BY <1>7, ReadLineType
<1>8. CASE UNCHANGED vars
  BY <1>8 DEF TypeOK, vars, streamVars, parserVars, idVars, queueVars, callVars
<1> QED
  BY <1>1, <1>2, <1>3, <1>4, <1>5, <1>6, <1>7, <1>8 DEF Next, Step

(* The variables keep the types the source declares: in particular the     *)
(* depth of braces never goes below zero and no command holds a line end.  *)
THEOREM TypeCorrect == Spec => []TypeOK
  BY InitType, NextType, PTL DEF Spec

-----------------------------------------------------------------------------
(* The inductive invariant. *)

(* The invariant holds at the beginning.                                   *)
LEMMA InitInv == Init => IInv
<1>1. Len(<<>>) = 0
  OBVIOUS
<1> QED
  BY <1>1, ChunkAssumption
  DEF Init, IInv, SizeAgrees, QueueIsBlockStart, ReadyIsEmpty, NumbersAgree, CountAgrees,
      BlocksAreWhole, BlockIdsIncrease, CommandsCarryBlockId, StaticBlocksBounded

(* exec_queue takes the whole queue, closed by one entry, and leaves it    *)
(* empty: the size counted across the calls is the queue's length.         *)
LEMMA ExecQueueTakesAll ==
  ASSUME TypeOK, pc = "bulk", SizeAgrees, QueueIsBlockStart, NumbersAgree,
         NEW kind, ~NothingReady, ExecQueue(kind)
  PROVE  /\ q_ # <<>> /\ q_' = <<>> /\ pc' = "process"
         /\ \E cmds \in Seq(Command) :
              /\ executed' = Append(executed, [id |-> bulk_id, kind |-> kind, cmds |-> cmds])
              /\ Len(cmds) = Len(q_) + 1
              /\ \A i \in 1..Len(q_) : cmds[i] = q_[i]
              /\ IsWholeBlock(cmds)
              /\ \A i \in 1..Len(cmds) : cmds[i].bulk_id = bulk_id
<1> USE DEF TypeOK
<1>1. bulk_size = Len(q_) /\ q_ # <<>> /\ Len(q_) \in Nat \ {0}
  BY EmptySeq DEF SizeAgrees, NothingReady
<1> DEFINE last == NewCommand("cmdLast", <<>>)
           cmds == Append(q_, last)
<1>2. last \in Command /\ last.type = "cmdLast" /\ last.bulk_id = bulk_id
  BY NewCommandType, EmptyType DEF Line, NewCommand, NumbersAgree
<1> HIDE DEF last
<1>3. /\ cmds \in Seq(Command) /\ Len(cmds) = Len(q_) + 1
      /\ \A i \in 1..Len(q_) : cmds[i] = q_[i]
      /\ cmds[Len(q_) + 1] = last
  BY <1>1, <1>2, AppendProperties
<1>4. \A i \in 1..Len(cmds) :
        cmds[i] = IF i = Len(cmds) THEN last ELSE q_[i]
  BY <1>1, <1>3
<1> HIDE DEF cmds
<1>5. IsWholeBlock(cmds)
  BY <1>1, <1>2, <1>3, <1>4 DEF IsWholeBlock, QueueIsBlockStart
<1>6. ASSUME NEW i \in 1..Len(cmds) PROVE cmds[i].bulk_id = bulk_id
  <2>1. CASE i = Len(cmds)
    BY <1>2, <1>4, <2>1
  <2>2. CASE i # Len(cmds)
    <3>1. i \in 1..Len(q_) /\ cmds[i] = q_[i]
      BY <1>1, <1>3, <1>4, <2>2
    <3> QED
      BY <3>1 DEF QueueIsBlockStart
  <2> QED
    BY <2>1, <2>2
<1>7. /\ executed' = Append(executed, [id |-> q_bulk_id_, kind |-> kind,
                                       cmds |-> SubSeq(cmds, 1, Len(cmds))])
      /\ q_' = SubSeq(cmds, Len(cmds) + 1, Len(cmds))
      /\ pc' = "process"
  <2>1. Len(cmds) = bulk_size + 1 /\ ~(bulk_size + 1 < Len(cmds))
    BY <1>1, <1>3
  <2> QED
    BY <1>1, <2>1 DEF ExecQueue, cmds, last
<1>8. SubSeq(cmds, 1, Len(cmds)) = cmds /\ SubSeq(cmds, Len(cmds) + 1, Len(cmds)) = <<>>
  BY <1>3, WholePrefix, SubSeqEmpty
<1> QED
  BY <1>1, <1>3, <1>5, <1>6, <1>7, <1>8 DEF NumbersAgree

(* What read_next_bulk and process do about any status keeps the invariant,*)
(* given what the parser did to its counters for that status.              *)
LEMMA OnStatusInv ==
  ASSUME TypeOK, TypeOK', IInv, pc = "bulk",
         NEW st \in Status, NEW cmd \in Line, NEW kind \in {"static", "dynamic"},
         OnStatus(st, cmd, kind),
         UNCHANGED chunk_size_, UNCHANGED idVars,
         last_stat_' = st,
         stray' = 0 => stray = 0,
         st = "kReady" => cmd_count_' = 0,
         stray' = 0 /\ st = "kReading" => cmd_count_' = cmd_count_ + 1,
         stray' = 0 /\ st = "kIgnore" => cmd_count_' = cmd_count_,
         stray' = 0 /\ st = "kStop" /\ save_status_at_stop_ => cmd_count_' = cmd_count_,
         stray' = 0 /\ pc' # "closed" /\ block_count_' = 0 => cmd_count_' <= chunk_size_,
         stray' = 0 /\ st = "kReady" /\ kind = "static" => cmd_count_ <= chunk_size_
  PROVE  IInv'
<1> USE DEF TypeOK
<1>1. /\ bulk_size = Len(q_) /\ Len(q_) \in Nat
      /\ (stray = 0 => cmd_count_ = Len(q_))
  BY DEF IInv, SizeAgrees, CountAgrees
<1>2. CASE st = "kIgnore" /\ UNCHANGED <<queueVars, callVars>>
  BY <1>1, <1>2
  DEF IInv, SizeAgrees, QueueIsBlockStart, ReadyIsEmpty, NumbersAgree, CountAgrees,
      BlocksAreWhole, BlockIdsIncrease, CommandsCarryBlockId, StaticBlocksBounded,
      queueVars, callVars, idVars
<1>3. CASE st = "kReady" /\ NothingReady /\ UNCHANGED <<queueVars, callVars>>
  BY <1>1, <1>3
  DEF IInv, SizeAgrees, QueueIsBlockStart, ReadyIsEmpty, NumbersAgree, CountAgrees,
      BlocksAreWhole, BlockIdsIncrease, CommandsCarryBlockId, StaticBlocksBounded,
      NothingReady, queueVars, callVars, idVars
<1>4. CASE st = "kReading" /\ PushCommand(cmd)
  <2> DEFINE new == NewCommand(IF q_ = <<>> THEN "cmdFirst" ELSE "cmdSimple", cmd)
  <2>1. /\ q_' = Append(q_, new) /\ bulk_size' = bulk_size + 1
        /\ UNCHANGED <<q_bulk_size_, executed, callVars>>
    BY <1>4 DEF PushCommand
  <2>2. /\ new \in Command /\ new.bulk_id = bulk_id
        /\ new.type = IF Len(q_) + 1 = 1 THEN "cmdFirst" ELSE "cmdSimple"
    BY NewCommandType, EmptySeq, SMTT(30) DEF IInv, NumbersAgree, NewCommand
  <2> HIDE DEF new
  <2>3. /\ Len(q_') = Len(q_) + 1 /\ q_' # <<>>
        /\ \A i \in 1..Len(q_') : \/ i \in 1..Len(q_) /\ q_'[i] = q_[i]
                                  \/ i = Len(q_) + 1 /\ q_'[i] = new
    <3>1. q_ \in Seq(Command) /\ new \in Command /\ q_' = Append(q_, new)
      BY <2>1, <2>2 DEF new
    <3> QED
      BY ONLY <3>1, AppendCases, EmptySeq
  <2>4. SizeAgrees'
    BY <1>1, <2>1, <2>3 DEF SizeAgrees, callVars
  <2>5. QueueIsBlockStart'
    <3> SUFFICES ASSUME NEW i \in 1..Len(q_')
                 PROVE  /\ q_'[i].type = IF i = 1 THEN "cmdFirst" ELSE "cmdSimple"
                        /\ q_'[i].bulk_id = bulk_id'
      BY DEF QueueIsBlockStart
    <3>1. CASE i = Len(q_) + 1 /\ q_'[i] = new
      BY <2>2, <3>1 DEF idVars
    <3>2. CASE i \in 1..Len(q_) /\ q_'[i] = q_[i]
      BY <3>2 DEF IInv, QueueIsBlockStart, idVars
    <3> QED
      BY <2>3, <3>1, <3>2
  <2>6. ReadyIsEmpty' /\ CountAgrees'
    BY <1>1, <1>4, <2>3 DEF ReadyIsEmpty, CountAgrees
  <2>7. NumbersAgree'
    BY <2>1 DEF IInv, NumbersAgree, idVars
  <2> QED
    BY <2>1, <2>4, <2>5, <2>6, <2>7
    DEF IInv, BlocksAreWhole, BlockIdsIncrease, CommandsCarryBlockId, StaticBlocksBounded
<1>5. CASE st = "kReady" /\ ~NothingReady /\ ExecQueue(kind)
  <2>1. PICK cmds \in Seq(Command) :
          /\ q_ # <<>> /\ q_' = <<>> /\ pc' = "process"
          /\ executed' = Append(executed, [id |-> bulk_id, kind |-> kind, cmds |-> cmds])
          /\ Len(cmds) = Len(q_) + 1
          /\ IsWholeBlock(cmds)
          /\ \A i \in 1..Len(cmds) : cmds[i].bulk_id = bulk_id
    BY <1>5, ExecQueueTakesAll DEF IInv
  <2> DEFINE block == [id |-> bulk_id, kind |-> kind, cmds |-> cmds]
  <2>2. block \in Bulk /\ executed' = Append(executed, block)
    BY <2>1 DEF Bulk
  <2>3. block.id = bulk_id /\ block.kind = kind /\ block.cmds = cmds
    OBVIOUS
  <2> HIDE DEF block
  <2>4. Len(executed) \in Nat /\ Len(executed') = Len(executed) + 1
    BY <2>2, AppendCases
  <2>5. \A k \in 1..Len(executed') :
          \/ k \in 1..Len(executed) /\ executed'[k] = executed[k]
          \/ k = Len(executed) + 1 /\ executed'[k] = block
    <3>1. executed \in Seq(Bulk) /\ block \in Bulk /\ executed' = Append(executed, block)
      BY <2>2
    <3> QED
      BY ONLY <3>1, AppendCases
  <2>6. bulk_id > 0 /\ \A k \in 1..Len(executed) : executed[k].id < bulk_id
    BY <2>1 DEF IInv, NumbersAgree
  <2>7. BlocksAreWhole'
    BY <2>1, <2>3, <2>5 DEF IInv, BlocksAreWhole
  <2>8. BlockIdsIncrease'
    <3>1. \A k \in 1..Len(executed') : executed'[k].id > 0
      BY <2>3, <2>5, <2>6 DEF IInv, BlockIdsIncrease
    <3>2. ASSUME NEW j \in 1..Len(executed'), NEW k \in 1..Len(executed'), j < k
          PROVE  executed'[j].id < executed'[k].id
      <4>1. j # Len(executed) + 1
        BY <2>4, <3>2
      <4> QED
        BY <2>3, <2>5, <2>6, <3>2, <4>1 DEF IInv, BlockIdsIncrease
    <3> QED
      BY <3>1, <3>2 DEF BlockIdsIncrease
  <2>9. CommandsCarryBlockId'
    <3> SUFFICES ASSUME NEW k \in 1..Len(executed'), NEW i \in 1..Len(executed'[k].cmds)
                 PROVE  executed'[k].cmds[i].bulk_id = executed'[k].id
      BY DEF CommandsCarryBlockId
    <3> QED
      <4>1. CASE executed'[k] = block
        BY <2>1, <2>3, <4>1
      <4>2. CASE k \in 1..Len(executed) /\ executed'[k] = executed[k]
        BY <4>2 DEF IInv, CommandsCarryBlockId
      <4> QED
        BY <2>5, <4>1, <4>2
  <2>10. StaticBlocksBounded'
    <3> SUFFICES ASSUME stray' = 0, NEW k \in 1..Len(executed'),
                        executed'[k].kind = "static"
                 PROVE  Len(executed'[k].cmds) - 1 <= chunk_size_
      BY DEF StaticBlocksBounded
    <3>1. CASE k \in 1..Len(executed) /\ executed'[k] = executed[k]
      BY <3>1 DEF IInv, StaticBlocksBounded
    <3>2. CASE executed'[k] = block
      <4>1. cmd_count_ <= chunk_size_ /\ cmd_count_ = Len(q_)
        BY <1>1, <1>5, <2>3, <3>2
      <4>2. Len(executed'[k].cmds) = Len(q_) + 1
        BY <2>1, <2>3, <3>2
      <4> QED
        BY <1>1, <4>1, <4>2, ChunkIsNat
    <3> QED
      BY <2>5, <3>1, <3>2
  <2>11. NumbersAgree'
    BY <2>1, <2>3, <2>5, <2>6, SMTT(30) DEF IInv, NumbersAgree, idVars
  <2>12. SizeAgrees' /\ QueueIsBlockStart' /\ ReadyIsEmpty' /\ CountAgrees'
    BY <1>5, <2>1, EmptySeq DEF SizeAgrees, QueueIsBlockStart, ReadyIsEmpty, CountAgrees
  <2> QED
    BY <2>7, <2>8, <2>9, <2>10, <2>11, <2>12 DEF IInv
<1>6. CASE st = "kStop" /\ StopProcessing
  <2>1. /\ q_' = IF save_status_at_stop_ THEN q_ ELSE <<>>
        /\ q_bulk_size_' = Len(q_)
        /\ pc' = IF save_status_at_stop_ THEN "idle" ELSE "closed"
        /\ UNCHANGED executed
    BY <1>1, <1>6 DEF StopProcessing
  <2>2. Len(<<>>) = 0
    OBVIOUS
  <2>3. SizeAgrees' /\ QueueIsBlockStart' /\ ReadyIsEmpty' /\ CountAgrees'
    BY <1>1, <1>6, <2>1, <2>2
    DEF IInv, SizeAgrees, QueueIsBlockStart, ReadyIsEmpty, CountAgrees, idVars
  <2>4. NumbersAgree'
    BY <2>1 DEF IInv, NumbersAgree, idVars
  <2> QED
    BY <2>1, <2>3, <2>4
    DEF IInv, BlocksAreWhole, BlockIdsIncrease, CommandsCarryBlockId, StaticBlocksBounded
<1> QED
  BY <1>2, <1>3, <1>4, <1>5, <1>6 DEF OnStatus

(* A complete static block.                                                *)
LEMMA EndOfChunkInv ==
  ASSUME TypeOK, TypeOK', IInv, EndOfChunk
  PROVE  IInv'
<1>1. /\ pc = "bulk" /\ block_count_ = 0
      /\ SetStatus("kReady", cmd_count_, block_count_)
      /\ OnStatus("kReady", last_cmd_, "static")
      /\ UNCHANGED chunk_size_ /\ UNCHANGED idVars /\ stray' = stray
  BY DEF EndOfChunk, ChunkComplete
<1>2. last_stat_' = "kReady" /\ cmd_count_' = 0
  BY <1>1 DEF SetStatus, IInv, ReadyIsEmpty
<1>3. stray = 0 => cmd_count_ <= chunk_size_
  BY <1>1 DEF IInv, CountAgrees
<1>4. last_cmd_ \in Line /\ "kReady" \in Status
  BY DEF TypeOK, Status
<1> QED
  BY <1>1, <1>2, <1>3, <1>4, ChunkIsNat, OnStatusInv

(* The end of the stream.                                                  *)
LEMMA EndOfInputInv ==
  ASSUME TypeOK, TypeOK', IInv, EndOfInput
  PROVE  IInv'
<1> DEFINE st == EndStatus
<1>1. /\ pc = "bulk"
      /\ SetStatus(st, cmd_count_, block_count_)
      /\ OnStatus(st, last_cmd_, "static")
      /\ UNCHANGED chunk_size_ /\ UNCHANGED idVars /\ stray' = stray
  BY DEF EndOfInput
<1>2. /\ st \in {"kReady", "kStop"}
      /\ st = "kReady" => ~save_status_at_stop_ /\ block_count_ = 0 /\ last_stat_ # "kReady"
  BY DEF EndStatus, TypeOK
<1>3. last_cmd_ \in Line /\ st \in Status
  BY <1>2 DEF TypeOK, Status
<1> HIDE DEF st
<1>4. last_stat_' = st /\ (st = "kReady" => cmd_count_' = 0)
  BY <1>1, <1>2 DEF SetStatus
<1>5. st = "kStop" /\ save_status_at_stop_ => cmd_count_' = cmd_count_ /\ block_count_' = block_count_
  BY <1>1 DEF SetStatus
<1>6. st = "kStop" /\ ~save_status_at_stop_ => pc' = "closed"
  BY <1>1 DEF OnStatus, StopProcessing
<1>7. stray' = 0 /\ pc' # "closed" /\ block_count_' = 0 => cmd_count_' <= chunk_size_
  BY <1>1, <1>2, <1>4, <1>5, <1>6, ChunkIsNat DEF IInv, CountAgrees
<1>8. stray' = 0 /\ st = "kReady" => cmd_count_ <= chunk_size_
  BY <1>1, <1>2 DEF IInv, CountAgrees
<1> QED
  BY <1>1, <1>2, <1>3, <1>4, <1>5, <1>7, <1>8, OnStatusInv

(* A line.                                                                 *)
LEMMA ReadLineInv ==
  ASSUME TypeOK, TypeOK', IInv, ReadLine
  PROVE  IInv'
<1>1. PICK line :
        \/ ReadCommand(line) \/ BeginBlock(line)
        \/ EndBlock(line) \/ StrayClose(line)
  BY DEF ReadLine
<1>2. pc = "bulk" /\ ~ChunkComplete /\ UNCHANGED chunk_size_ /\ UNCHANGED idVars
  BY DEF ReadLine
<1>3. last_cmd_ \in Line /\ last_cmd_' \in Line /\ stray \in Nat
      /\ cmd_count_ \in Nat /\ block_count_ \in Nat
  BY DEF TypeOK
<1>4. stray = 0 /\ block_count_ = 0 => cmd_count_ <= chunk_size_
  BY <1>2 DEF IInv, CountAgrees
<1>5. CASE ReadCommand(line)
  <2>1. /\ last_cmd_' = line
        /\ SetStatus("kReading", cmd_count_ + 1, block_count_)
        /\ OnStatus("kReading", line, "static")
        /\ stray' = stray
    BY <1>5 DEF ReadCommand
  <2>2. last_stat_' = "kReading" /\ cmd_count_' = cmd_count_ + 1 /\ block_count_' = block_count_
    BY <2>1 DEF SetStatus
  <2>3. block_count_ = 0 => cmd_count_ # chunk_size_
    BY <1>2 DEF ChunkComplete
  <2>4. stray' = 0 /\ block_count_' = 0 => cmd_count_' <= chunk_size_
    BY <1>3, <1>4, <2>1, <2>2, <2>3, ChunkIsNat
  <2> QED
    BY <1>2, <1>3, <2>1, <2>2, <2>4, OnStatusInv DEF Status
<1>6. CASE BeginBlock(line)
  <2>1. PICK st \in {"kReady", "kIgnore"} :
          /\ st = "kReady" => block_count_ = 0
          /\ SetStatus(st, cmd_count_, block_count_ + 1)
          /\ OnStatus(st, last_cmd_, "static")
          /\ stray' = stray
    BY <1>6 DEF BeginBlock
  <2>2. /\ last_stat_' = st /\ block_count_' = block_count_ + 1
        /\ cmd_count_' = IF st = "kReady" THEN 0 ELSE cmd_count_
    BY <2>1 DEF SetStatus, IInv, ReadyIsEmpty
  <2>3. block_count_' # 0
    BY <1>3, <2>2
  <2> QED
    BY <1>2, <1>3, <1>4, <2>1, <2>2, <2>3, OnStatusInv DEF Status
<1>7. CASE EndBlock(line)
  <2>1. PICK st \in {"kReady", "kIgnore"} :
          /\ st = "kIgnore" => block_count_ > 1
          /\ SetStatus(st, cmd_count_, block_count_ - 1)
          /\ OnStatus(st, last_cmd_, "dynamic")
          /\ stray' = stray
    BY <1>3, <1>7 DEF EndBlock
  <2>2. /\ last_stat_' = st /\ block_count_' = block_count_ - 1
        /\ cmd_count_' = IF st = "kReady" THEN 0 ELSE cmd_count_
    BY <2>1 DEF SetStatus, IInv, ReadyIsEmpty
  <2>3. block_count_' = 0 => cmd_count_' <= chunk_size_
    BY <1>3, <2>1, <2>2, ChunkIsNat
  <2> QED
    BY <1>2, <1>3, <2>1, <2>2, <2>3, OnStatusInv DEF Status
<1>8. CASE StrayClose(line)
  <2>1. /\ OnStatus(last_stat_, last_cmd_, "static")
        /\ stray' # 0
        /\ last_stat_' = last_stat_ /\ cmd_count_' = cmd_count_
    BY <1>3, <1>8 DEF StrayClose, parserVars
  <2>2. last_stat_ \in Status /\ (last_stat_ = "kReady" => cmd_count_ = 0)
    BY DEF TypeOK, IInv, ReadyIsEmpty
  <2> QED
    BY <1>2, <1>3, <2>1, <2>2, OnStatusInv
<1> QED
  BY <1>1, <1>5, <1>6, <1>7, <1>8

(* Outside the loop nothing but the place and the size changes. *)
LEMMA ReadNextBulkInv ==
  ASSUME TypeOK, IInv, ReadNextBulk
  PROVE  IInv'
<1>1. /\ pc = "process" /\ pc' = "bulk" /\ bulk_size' = CarriedSize
      /\ UNCHANGED <<chunk_size_, parserVars, q_, executed, stray>>
  BY DEF ReadNextBulk
<1>2. (q_ = <<>> /\ Len(q_) = 0) \/ q_ # <<>>
  BY EmptySeq DEF TypeOK
<1>3. SizeAgrees'
  BY <1>1, <1>2 DEF IInv, SizeAgrees, CarriedSize
<1>4. NumbersAgree'
  <2>1. CASE q_ = <<>>
    <3>1. bulk_id' = bulk_id + 1 /\ last_bulk_id_' = bulk_id' /\ q_bulk_id_' = bulk_id'
      BY <2>1 DEF ReadNextBulk, TakesNumber
    <3>2. ASSUME NEW k \in 1..Len(executed) PROVE executed[k].id \in Nat
      <4>1. executed[k] \in Bulk
        BY ElementOfSeq DEF TypeOK
      <4> QED
        BY <4>1 DEF Bulk
    <3> QED
      BY <1>1, <3>1, <3>2 DEF IInv, NumbersAgree, TypeOK
  <2>2. CASE q_ # <<>>
    BY <1>1, <2>2 DEF IInv, NumbersAgree, ReadNextBulk, TakesNumber, idVars
  <2> QED
    BY <2>1, <2>2
<1>5. QueueIsBlockStart'
  BY <1>1, <1>2 DEF IInv, QueueIsBlockStart, ReadNextBulk, TakesNumber, idVars
<1> QED
  BY <1>1, <1>3, <1>4, <1>5
  DEF IInv, ReadyIsEmpty, CountAgrees, BlocksAreWhole, BlockIdsIncrease,
      CommandsCarryBlockId, StaticBlocksBounded, parserVars

(* The calls.                                                              *)
LEMMA ProcessInv ==
  ASSUME TypeOK, IInv, NEW data, NEW save, Process(data, save)
  PROVE  IInv'
<1>1. /\ pc = "idle" /\ pc' = "process"
      /\ UNCHANGED <<chunk_size_, parserVars, idVars, queueVars, stray>>
  BY DEF Process
<1> QED
  BY <1>1
  DEF IInv, SizeAgrees, QueueIsBlockStart, ReadyIsEmpty, NumbersAgree, CountAgrees,
      BlocksAreWhole, BlockIdsIncrease, CommandsCarryBlockId, StaticBlocksBounded,
      parserVars, idVars, queueVars

(* Every step keeps the invariant.                                         *)
LEMMA NextInv == TypeOK /\ TypeOK' /\ IInv /\ [Next]_vars => IInv'
<1> SUFFICES ASSUME TypeOK, TypeOK', IInv, [Next]_vars PROVE IInv'
  OBVIOUS
<1>1. ASSUME NEW buf \in Buffer, Receive(buf) PROVE IInv'
  BY <1>1, ProcessInv DEF Receive
<1>2. ASSUME NEW text \in Script, Standalone(text) PROVE IInv'
  BY <1>2, ProcessInv DEF Standalone
<1>3. CASE Disconnect
  BY <1>3, ProcessInv DEF Disconnect
<1>4. CASE ReadNextBulk
  BY <1>4, ReadNextBulkInv
<1>5. CASE EndOfChunk
  BY <1>5, EndOfChunkInv
<1>6. CASE EndOfInput
  BY <1>6, EndOfInputInv
<1>7. CASE ReadLine
  BY <1>7, ReadLineInv
<1>8. CASE UNCHANGED vars
  BY <1>8
  DEF IInv, SizeAgrees, QueueIsBlockStart, ReadyIsEmpty, NumbersAgree, CountAgrees,
      BlocksAreWhole, BlockIdsIncrease, CommandsCarryBlockId, StaticBlocksBounded,
      vars, parserVars, idVars, queueVars, callVars
<1> QED
  BY <1>1, <1>2, <1>3, <1>4, <1>5, <1>6, <1>7, <1>8 DEF Next, Step

(* The inductive invariant: across receives of any contents the size       *)
(* counted, the parser's count, the queue and the block numbers agree.     *)
THEOREM Invariant == Spec => []IInv
  BY InitInv, NextInv, TypeCorrect, PTL DEF Spec

-----------------------------------------------------------------------------
(* What it implies. *)

(* Every block the executor is given starts with its heading, ends with    *)
(* its line end and has no other of either, however the client cut its     *)
(* input into receives.                                                    *)
THEOREM WholeBlocks == Spec => []BlocksAreWhole
  BY Invariant, PTL DEF IInv

(* Blocks are numbered above zero and upwards, so no worker queue takes    *)
(* one for the block it holds already.                                     *)
THEOREM IncreasingNumbers == Spec => []BlockIdsIncrease
  BY Invariant, PTL DEF IInv

(* Every command is tagged with the number of the block it is executed in. *)
THEOREM TaggedCommands == Spec => []CommandsCarryBlockId
  BY Invariant, PTL DEF IInv

(* Static blocks are within the block size unless a closing brace was      *)
(* unmatched.                                                              *)
THEOREM BoundedBlocks == Spec => []StaticBlocksBounded
  BY Invariant, PTL DEF IInv

(* Only StopProcessing empties the queue without running it, and it does   *)
(* so only in a session that is closing.                                   *)
LEMMA OnStatusDrops ==
  ASSUME TypeOK, SizeAgrees, pc = "bulk", NEW st, NEW cmd, NEW kind,
         OnStatus(st, cmd, kind), Drops
  PROVE  st = "kStop" /\ ~save_status_at_stop_ /\ pc' = "closed"
<1>1. CASE UNCHANGED <<queueVars, callVars>>
  BY <1>1 DEF Drops, queueVars
<1>2. CASE PushCommand(cmd)
  <2>1. Len(q_) \in Nat /\ q_' = Append(q_, NewCommand(IF q_ = <<>> THEN "cmdFirst" ELSE "cmdSimple", cmd))
    BY <1>2 DEF PushCommand, TypeOK
  <2>2. q_' # <<>>
    BY <2>1 DEF TypeOK
  <2> QED
    BY <2>2 DEF Drops
<1>3. CASE ExecQueue(kind)
  <2>1. PICK block : executed' = Append(executed, block)
    BY <1>3 DEF ExecQueue
  <2>2. executed' # executed
    BY <2>1 DEF TypeOK
  <2> QED
    BY <2>2 DEF Drops
<1>4. CASE st = "kStop" /\ StopProcessing
  BY <1>4 DEF StopProcessing, Drops, TypeOK
<1> QED
  BY <1>1, <1>2, <1>3, <1>4 DEF OnStatus

(* No step drops commands but the one that ends a dynamic block's session. *)
LEMMA NextDrops ==
  ASSUME TypeOK, IInv, [Next]_vars, Drops, stray' = 0
  PROVE  pc' = "closed" /\ block_count_ > 0
<1>1. ASSUME NEW data, NEW save, Process(data, save) PROVE FALSE
  BY <1>1 DEF Process, queueVars, Drops
<1>2. ASSUME ReadNextBulk PROVE FALSE
  BY <1>2 DEF ReadNextBulk, Drops
<1>3. ASSUME UNCHANGED vars PROVE FALSE
  BY <1>3 DEF vars, queueVars, Drops
<1>4. CASE EndOfChunk
  <2>1. pc = "bulk" /\ OnStatus("kReady", last_cmd_, "static")
    BY <1>4 DEF EndOfChunk
  <2> QED
    BY <2>1, OnStatusDrops DEF IInv
<1>5. CASE EndOfInput
  <2>1. pc = "bulk" /\ OnStatus(EndStatus, last_cmd_, "static")
    BY <1>5 DEF EndOfInput
  <2>2. EndStatus = "kStop" /\ ~save_status_at_stop_ /\ pc' = "closed"
    BY <2>1, OnStatusDrops DEF IInv
  <2>3. last_stat_ # "kReady"
    BY DEF Drops, IInv, ReadyIsEmpty
  <2> QED
    BY <2>2, <2>3 DEF EndStatus
<1>6. CASE ReadLine
  <2>1. PICK line :
          \/ ReadCommand(line) \/ BeginBlock(line)
          \/ EndBlock(line) \/ StrayClose(line)
    BY <1>6 DEF ReadLine
  <2>2. pc = "bulk"
    BY <1>6 DEF ReadLine
  <2>3. ~StrayClose(line)
    BY DEF StrayClose, TypeOK
  <2>4. CASE ReadCommand(line)
    <3>1. OnStatus("kReading", line, "static")
      BY <2>4 DEF ReadCommand
    <3> QED
      BY <2>2, <3>1, OnStatusDrops DEF IInv
  <2>5. CASE BeginBlock(line)
    <3>1. PICK st \in {"kReady", "kIgnore"} : OnStatus(st, last_cmd_, "static")
      BY <2>5 DEF BeginBlock
    <3> QED
      BY <2>2, <3>1, OnStatusDrops DEF IInv
  <2>6. CASE EndBlock(line)
    <3>1. PICK st \in {"kReady", "kIgnore"} : OnStatus(st, last_cmd_, "dynamic")
      BY <2>6 DEF EndBlock
    <3> QED
      BY <2>2, <3>1, OnStatusDrops DEF IInv
  <2> QED
    BY <2>1, <2>3, <2>4, <2>5, <2>6
<1> QED
  BY <1>1, <1>2, <1>3, <1>4, <1>5, <1>6 DEF Next, Step, Receive, Standalone, Disconnect

(* Queued commands are dropped only when the session ends inside an open   *)
(* dynamic block: never by a receive, never those of a static block.       *)
THEOREM DropsOnlyOpen == Spec => DropsOnlyOpenBlock
<1>1. TypeOK /\ IInv /\ [Next]_vars => [Drops /\ stray' = 0 => pc' = "closed" /\ block_count_ > 0]_vars
  BY NextDrops
<1> QED
  BY <1>1, TypeCorrect, Invariant, PTL DEF Spec, DropsOnlyOpenBlock

-----------------------------------------------------------------------------
(* What one step of a call takes and gives, for whoever runs the calls.    *)

(* How the session goes on, and the blocks it gives to the executor.       *)
GoesOn ==
  /\ pc' \in {"process", "bulk", IF save_status_at_stop_ THEN "idle" ELSE "closed"}
  /\ save_status_at_stop_' \in {save_status_at_stop_, save_status_at_stop0}
  /\ UNCHANGED save_status_at_stop0
  /\ \/ executed' = executed
     \/ \E e \in Bulk : executed' = Append(executed, e) /\ Len(e.cmds) = Len(q_) + 1

(* A command is queued for a line only.                                    *)
LEMMA OnStatusGoesOn ==
  ASSUME TypeOK, IInv, pc = "bulk", NEW st, NEW cmd \in Line,
         NEW kind \in {"static", "dynamic"}, OnStatus(st, cmd, kind)
  PROVE  /\ GoesOn
         /\ Len(q_') <= IF st = "kReading" THEN Len(q_) + 1 ELSE Len(q_)
<1>1. q_ \in Seq(Command) /\ Len(q_) \in Nat
  BY DEF TypeOK
<1>2. CASE st \in {"kIgnore", "kReady"} /\ UNCHANGED <<queueVars, callVars>>
  BY <1>1, <1>2 DEF queueVars, callVars, GoesOn
<1>3. CASE st = "kReading" /\ PushCommand(cmd)
  <2>1. PICK type \in {"cmdFirst", "cmdSimple"} : q_' = Append(q_, NewCommand(type, cmd))
    <3>1. CASE q_ = <<>>
      BY <1>3, <3>1 DEF PushCommand
    <3>2. CASE q_ # <<>>
      BY <1>3, <3>2 DEF PushCommand
    <3> QED
      BY <3>1, <3>2
  <2>2. NewCommand(type, cmd) \in Command
    BY NewCommandType
  <2>3. Len(q_') = Len(q_) + 1
    BY <1>1, <2>1, <2>2, AppendCases
  <2> QED
    BY <1>1, <1>3, <2>3 DEF PushCommand, callVars, GoesOn
<1>4. CASE st = "kReady" /\ ~NothingReady /\ ExecQueue(kind)
  <2>1. PICK cmds \in Seq(Command) :
          /\ executed' = Append(executed, [id |-> bulk_id, kind |-> kind, cmds |-> cmds])
          /\ Len(cmds) = Len(q_) + 1 /\ q_' = <<>> /\ pc' = "process"
    BY <1>4, ExecQueueTakesAll DEF IInv
  <2> DEFINE e == [id |-> bulk_id, kind |-> kind, cmds |-> cmds]
  <2>2. e \in Bulk /\ e.cmds = cmds
    BY DEF TypeOK, Bulk
  <2>3. UNCHANGED <<save_status_at_stop_, save_status_at_stop0>>
    BY <1>4 DEF ExecQueue
  <2>4. executed' = Append(executed, e) /\ Len(e.cmds) = Len(q_) + 1
    BY <2>1, <2>2
  <2>5. Len(q_') = 0
    BY <2>1
  <2> HIDE DEF e
  <2>6. GoesOn
    BY <2>1, <2>2, <2>3, <2>4 DEF GoesOn
  <2> QED
    BY <1>1, <1>4, <2>5, <2>6
<1>5. CASE st = "kStop" /\ StopProcessing
  BY <1>1, <1>5 DEF StopProcessing, GoesOn
<1> QED
  BY <1>2, <1>3, <1>4, <1>5 DEF OnStatus

(* A line takes a symbol at least.                                         *)
LEMMA TakeLineTakes ==
  ASSUME TypeOK, NEW n \in 0..Len(stream), TakeLine(n)
  PROVE  Len(stream') + 1 <= Len(stream)
<1>1. stream \in Seq(Symbol) /\ stream # <<>> /\ Len(stream) \in Nat
      /\ stream' = SubSeq(stream, n + 2, Len(stream))
  BY DEF TypeOK, TakeLine, CanGetLine
<1>2. Len(stream) # 0
  BY <1>1
<1> QED
  BY <1>1, <1>2

(* So what a call has queued and what it has still to read never grow      *)
(* together.                                                               *)
LEMMA StepGoesOn ==
  ASSUME TypeOK, IInv, Step
  PROVE  /\ pc \in {"process", "bulk"} /\ GoesOn /\ UNCHANGED received
         /\ Len(q_') + Len(stream') <= Len(q_) + Len(stream)
<1>1. /\ q_ \in Seq(Command) /\ Len(q_) \in Nat /\ Len(stream) \in Nat
      /\ last_cmd_ \in Line /\ last_stat_ \in Status
  BY DEF TypeOK
<1>2. TypeOK' /\ Len(q_') \in Nat /\ Len(stream') \in Nat
  <2>1. TypeOK'
    BY NextType DEF Next
  <2> QED
    BY <2>1 DEF TypeOK
<1>3. CASE ReadNextBulk
  BY <1>1, <1>3 DEF ReadNextBulk, GoesOn, streamVars
<1>4. CASE EndOfChunk
  <2>1. pc = "bulk" /\ OnStatus("kReady", last_cmd_, "static")
        /\ stream' = stream /\ received' = received
    BY <1>4 DEF EndOfChunk, streamVars
  <2> QED
    BY <1>1, <1>2, <2>1, OnStatusGoesOn
<1>5. CASE EndOfInput
  <2>1. pc = "bulk" /\ OnStatus(EndStatus, last_cmd_, "static")
        /\ stream' = stream /\ received' = received /\ EndStatus # "kReading"
    BY <1>5 DEF EndOfInput, FailLine, EndStatus
  <2> QED
    BY <1>1, <1>2, <2>1, OnStatusGoesOn
<1>6. CASE ReadLine
  <2>1. PICK n \in 0..Len(stream) :
          /\ TakeLine(n)
          /\ \/ ReadCommand(SubSeq(stream, 1, n)) \/ BeginBlock(SubSeq(stream, 1, n))
             \/ EndBlock(SubSeq(stream, 1, n)) \/ StrayClose(SubSeq(stream, 1, n))
    BY <1>6 DEF ReadLine
  <2>2. pc = "bulk" /\ received' = received
    BY <1>6 DEF ReadLine
  <2>3. ASSUME NEW st, NEW cmd \in Line, NEW kind \in {"static", "dynamic"},
               OnStatus(st, cmd, kind)
        PROVE  GoesOn /\ Len(q_') <= Len(q_) + 1
    BY <1>1, <1>2, <2>2, <2>3, OnStatusGoesOn
  <2>4. GoesOn /\ Len(q_') <= Len(q_) + 1
    <3>1. SubSeq(stream, 1, n) \in Line
      BY <2>1, LineType DEF TakeLine, TypeOK
    <3>2. CASE ReadCommand(SubSeq(stream, 1, n))
      BY <2>3, <3>1, <3>2 DEF ReadCommand
    <3>3. CASE BeginBlock(SubSeq(stream, 1, n))
      BY <1>1, <2>3, <3>3 DEF BeginBlock
    <3>4. CASE EndBlock(SubSeq(stream, 1, n))
      BY <1>1, <2>3, <3>4 DEF EndBlock
    <3>5. CASE StrayClose(SubSeq(stream, 1, n))
      BY <1>1, <2>3, <3>5 DEF StrayClose
    <3> QED
      BY <2>1, <3>2, <3>3, <3>4, <3>5
  <2> QED
    BY <1>1, <1>2, <2>1, <2>2, <2>4, TakeLineTakes
<1> QED
  BY <1>3, <1>4, <1>5, <1>6 DEF Step


=============================================================================
