----------------------- MODULE QueueExecutorTheorems -----------------------
(***************************************************************************)
(* What is proved of the executors and their threads: the inductive        *)
(* invariant, the safety properties that follow from it, and, with one     *)
(* file thread, that they implement BlockOutput.                           *)
(***************************************************************************)
EXTENDS QueueExecutorFilesProofs

-----------------------------------------------------------------------------
(* The inductive invariant. *)

(* It holds at the beginning.                                              *)
LEMMA InitInv == Init => IInv
<1> SUFFICES ASSUME Init PROVE IInv
  OBVIOUS
<1>1. /\ Newest = 0 /\ pc = "idle" /\ pos = 0 /\ worker = 0 /\ file = <<>> /\ console = <<>>
      /\ closed = {} /\ unopened = {}
      /\ \A s \in Session : /\ log_queue_[s] = <<>> /\ file_queue_[s] = <<>> /\ q_[s] = <<>>
                            /\ log_bulk_id[s] = 0 /\ file_bulk_id[s] = 0
      /\ \A t \in Thread : tpc[t] = "none" /\ bulk[t] = 0 /\ stop_flag_[t] = FALSE
      /\ Len(<<>>) = 0 /\ 1..0 = {}
  BY DEF Init, Newest
<1>2. ~Executing /\ ~Stopping /\ \A s : BlocksOf(s) = {}
  BY <1>1 DEF Executing, Stopping, BlocksOf
<1>3. CallInv
  BY <1>1, <1>2 DEF CallInv
<1>4. LogInv /\ PrintedInOrder
  BY <1>1, <1>2 DEF LogInv, PrintedInOrder, Ordered
<1>5. FileInv
  BY <1>1 DEF FileInv
<1>6. ThreadInv
  BY <1>1, <1>2 DEF ThreadInv
<1>7. CopyInv /\ FilesInOrder
  BY <1>1 DEF CopyInv, FilesInOrder, Ordered
<1>8. EachCommandOnce
  BY <1>1, <1>2 DEF EachCommandOnce
<1>9. DebtInv
  <2>1. \A s : Debt(s) = {}
    BY <1>2 DEF Debt
  <2> QED
    BY <1>1, <2>1, FS_EmptySet DEF DebtInv
<1>10. HoldInv
  BY <1>1, <1>2 DEF HoldInv
<1> QED
  BY <1>3, <1>4, <1>5, <1>6, <1>7, <1>8, <1>9, <1>10 DEF IInv

(* Every step keeps it.                                                    *)
LEMMA NextInv ==
  ASSUME TypeOK, IInv, [Next]_vars
  PROVE  TypeOK' /\ IInv'
<1>1. /\ CallInv /\ LogInv /\ PrintedInOrder /\ FileInv /\ ThreadInv
      /\ CopyInv /\ FilesInOrder /\ EachCommandOnce /\ DebtInv /\ HoldInv
  BY DEF IInv
<1>2. TypeOK'
  BY <1>1, NextType
<1>3. CallInv' /\ FileInv'
  BY <1>1, NextCall, NextFile
<1>4. LogInv' /\ PrintedInOrder'
  BY <1>1, NextLog
<1>5. ThreadInv'
  BY <1>1, NextThread
<1>6. CopyInv' /\ FilesInOrder' /\ EachCommandOnce'
  BY <1>1, NextCopy
<1>7. DebtInv' /\ HoldInv'
  BY <1>1, <1>2, <1>3, NextDebt, NextHold
<1> QED
  BY <1>2, <1>3, <1>4, <1>5, <1>6, <1>7 DEF IInv

(* The invariant holds in every state of the executors: for any number of  *)
(* sessions, threads and blocks, with or without spurious wakeups and      *)
(* files that cannot be opened.                                            *)
THEOREM Invariant == Spec => [](TypeOK /\ IInv)
<1>1. Init => TypeOK /\ IInv
  BY InitType, InitInv
<1>2. TypeOK /\ IInv /\ [Next]_vars => TypeOK' /\ IInv'
  BY NextInv
<1> QED
  BY <1>1, <1>2, PTL DEF Spec

-----------------------------------------------------------------------------
(* The safety properties. *)

(* Every variable of the executors, their queues and their threads holds a *)
(* value of its type.                                                      *)
THEOREM TypeCorrect == Spec => []TypeOK
  BY Invariant, PTL

(* QueueExecutorMulti and the log thread print what a session executes in  *)
(* the order of execution, nothing left out, nothing twice, whatever the   *)
(* threads of other sessions do.                                           *)
THEOREM ConsoleInOrder == Spec => []PrintedInOrder
<1>1. IInv => PrintedInOrder
  BY DEF IInv
<1> QED
  BY <1>1, Invariant, PTL

(* BulkCommand copies each command into the queue it shares with other     *)
(* file commands, and one file thread pops it, once: no two threads write  *)
(* the same command, and none is lost unless a file was not opened.        *)
THEOREM CommandsOnce == Spec => []EachCommandOnce
<1>1. IInv => EachCommandOnce
  BY DEF IInv
<1> QED
  BY <1>1, Invariant, PTL

(* The commands of a file are in the order they were executed, also when   *)
(* several threads pop from the shared queue.                              *)
THEOREM FilesAreInOrder == Spec => []FilesInOrder
<1>1. IInv => FilesInOrder
  BY DEF IInv
<1> QED
  BY <1>1, Invariant, PTL

(* BulkCommand's executor stops early when the shared queue is empty, but  *)
(* it never is: a file that was opened gets as many commands as its block. *)
LEMMA CompleteWhenWritten == TypeOK /\ IInv => FilesComplete
<1> SUFFICES ASSUME TypeOK, IInv, NEW b \in 1..Newest, Written(b), b \notin unopened
             PROVE  Len(file[b]) = bulks[b].size
  BY DEF FilesComplete
<1>1. CallInv /\ FileInv /\ DebtInv
  BY DEF IInv
<1>2. Owed(b) = 0 /\ FileQueued(b)
  BY <1>1, OwedCases DEF OwedByPlace, Written
<1>3. Len(file[b]) + Owed(b) = bulks[b].size /\ Len(file[b]) \in Nat
  BY <1>1, <1>2, FileType DEF DebtInv
<1> QED
  BY <1>2, <1>3

(* A file that is written has as many commands as its block, although its  *)
(* size is checked against the shared queue before other threads pop from it.*)
THEOREM FilesAreComplete == Spec => []FilesComplete
  BY CompleteWhenWritten, Invariant, PTL

(* With one file thread it is the block's own commands, also when other    *)
(* files could not be opened.                                              *)
LEMMA OwnBlockWhenWritten == thread_count = 2 => (TypeOK /\ IInv => FileHoldsItsBlock)
<1> SUFFICES ASSUME thread_count = 2, TypeOK, IInv, NEW b \in 1..Newest, Written(b)
             PROVE  file[b] = IF b \in unopened THEN <<>> ELSE Entries(b)
  BY DEF FileHoldsItsBlock
<1>1. CallInv /\ FileInv /\ DebtInv /\ HoldInv
  BY DEF IInv
<1>2. CASE b \in unopened
  BY <1>1, <1>2 DEF DebtInv
<1>3. CASE b \notin unopened
  <2>1. Len(file[b]) = bulks[b].size
    BY <1>3, CompleteWhenWritten DEF FilesComplete
  <2>2. \A i \in 1..bulks[b].size : file[b][i] = Command(b, i)
    BY <1>1, <2>1 DEF HoldInv
  <2>3. file[b] = [i \in 1..Len(file[b]) |-> file[b][i]]
    BY <1>1, FileType
  <2> QED
    BY <1>3, <2>1, <2>2, <2>3 DEF Entries
<1> QED
  BY <1>2, <1>3

(* With one file thread the queue that file commands share never mixes up  *)
(* two blocks: what lies in it are the commands not yet written of blocks  *)
(* a thread still has to write, each of them, and what is written of a     *)
(* block are its first commands.                                           *)
THEOREM QueueHoldsWhatIsOwed == Spec => []HoldInv
<1>1. IInv => HoldInv
  BY DEF IInv
<1> QED
  BY <1>1, Invariant, PTL

(* With one file thread a written file holds the commands of its own block *)
(* and no others, or nothing if it could not be opened.                    *)
THEOREM FilesHoldTheirBlocks ==
  ASSUME thread_count = 2
  PROVE  Spec => []FileHoldsItsBlock
<1>1. TypeOK /\ IInv => FileHoldsItsBlock
  BY OwnBlockWhenWritten
<1> QED
  BY <1>1, Invariant, PTL

(* What is closed: no thread of it runs, its queues are empty, and all     *)
(* that it executed is out.                                                *)
LEMMA ClosedThreads ==
  ASSUME TypeOK, IInv, NEW s \in closed
  PROVE  /\ s \in Session /\ (Executing => session # s)
         /\ \A t \in Thread : t[1] = s =>
              /\ tpc[t] \in {"none", "exited"} /\ bulk[t] = 0
              /\ BlocksOf(s) # {} => tpc[t] = "exited" /\ QueueOf(t) = <<>>
<1>1. CallInv /\ FileInv /\ ThreadInv
  BY DEF IInv
<1>2. s \in Session /\ (Executing => session # s /\ bulks[Newest].session = session)
  BY <1>1 DEF TypeOK, CallInv, Executing
<1>3. ASSUME NEW t \in Thread, t[1] = s
      PROVE  /\ tpc[t] \in {"none", "exited"} /\ bulk[t] = 0
             /\ BlocksOf(s) # {} => tpc[t] = "exited" /\ QueueOf(t) = <<>>
  <2>1. tpc[t] \in {"none", "exited"} /\ (tpc[t] = "exited" => QueueOf(t) = <<>>)
    BY <1>1, <1>3 DEF ThreadInv
  <2>2. bulk[t] = 0
    BY <1>1, <2>1 DEF FileInv
  <2>3. ASSUME NEW b \in BlocksOf(s), tpc[t] = "none"
        PROVE  FALSE
    <3>1. b = Newest /\ Executing
      BY <1>1, <1>3, <2>3 DEF ThreadInv
    <3> QED
      BY <1>2, <3>1 DEF BlocksOf
  <2> QED
    BY <2>1, <2>2, <2>3
<1> QED
  BY <1>2, <1>3

(* A closed session has nothing left in its queues, so all of it is out.   *)
LEMMA ClosedIsOut == TypeOK /\ IInv => ClosedIsWritten
<1> SUFFICES ASSUME TypeOK, IInv, NEW s \in closed
             PROVE  /\ q_[s] = <<>>
                    /\ \A b \in BlocksOf(s) :
                         Written(b) /\ \A i \in 1..bulks[b].size : In(Command(b, i), console)
  BY DEF ClosedIsWritten
<1>1. CallInv /\ LogInv /\ FileInv /\ DebtInv
  BY DEF IInv
<1>2. /\ s \in Session /\ (Executing => session # s)
      /\ \A t \in Thread : t[1] = s =>
           /\ bulk[t] = 0 /\ (BlocksOf(s) # {} => QueueOf(t) = <<>>)
  BY ClosedThreads
<1>3. ASSUME NEW b \in BlocksOf(s)
      PROVE  Written(b) /\ \A i \in 1..bulks[b].size : In(Command(b, i), console)
  <2>1. b \in 1..Newest /\ bulks[b].session = s
    BY DEF BlocksOf
  <2>2. b < Newest \/ ~Executing
    BY <1>1, <1>2, <2>1, BlockType DEF CallInv
  <2>3. log_queue_[s] = <<>> /\ file_queue_[s] = <<>>
    <3>1. <<s, 0>> \in Thread /\ <<s, 2>> \in Thread
      BY <1>2, ThreadAssumption DEF Thread, LastWorker, FileProvider
    <3>2. QueueOf(<<s, 0>>) = <<>> /\ QueueOf(<<s, 2>>) = <<>>
      BY <1>2, <3>1
    <3> QED
      BY <3>2 DEF QueueOf, LogWorker
  <2>4. Written(b)
    <3>1. FileQueued(b)
      BY <2>2 DEF FileQueued, Queueing, Executing
    <3>2. ~FileWaits(b)
      BY <2>1, <2>3 DEF FileWaits
    <3>3. \A t \in Thread : bulk[t] # b
      <4>1. ASSUME NEW t \in Thread, bulk[t] = b
            PROVE  FALSE
        <5>1. tpc[t] \in {"open", "write"}
          BY <1>1, <2>1, <4>1 DEF FileInv
        <5>2. t[1] = s
          BY <1>1, <2>1, <4>1, <5>1 DEF FileInv, BlocksOf
        <5> QED
          BY <1>2, <2>1, <4>1, <5>2
      <4> QED
        BY <4>1
    <3> QED
      BY <3>1, <3>2, <3>3 DEF Written
  <2>5. ASSUME NEW i \in 1..bulks[b].size
        PROVE  In(Command(b, i), console)
    <3>1. b < Newest \/ i <= LogCount
      BY <2>1, <2>2, BlockType DEF LogCount, Executing
    <3>2. LogQueued(Command(b, i))
      BY <2>1, <3>1 DEF LogQueued, IsCommand, Command
    <3>3. In(Command(b, i), console) \/ In(Command(b, i), log_queue_[s])
      BY <1>1, <1>2, <3>2 DEF LogInv
    <3> QED
      BY <2>3, <3>3 DEF In
  <2> QED
    BY <2>4, <2>5
<1>4. q_[s] = <<>>
  <2>1. \A b \in BlocksOf(s) : Owed(b) = 0
    BY <1>1, <1>3, OwedCases DEF OwedByPlace, BlocksOf
  <2>2. Debt(s) = {}
    BY <2>1 DEF Debt
  <2>3. Len(q_[s]) = 0 /\ q_[s] \in Seq(Entry)
    BY <1>1, <1>2, <2>2, FS_EmptySet DEF DebtInv, TypeOK
  <2> QED
    BY <2>3, EmptySeq
<1> QED
  BY <1>3, <1>4

(* libasync_disconnect returns when the destructors of all workers have    *)
(* run: what the session executed is printed and written by then.          *)
THEOREM ClosedSessionsAreWritten == Spec => []ClosedIsWritten
  BY ClosedIsOut, Invariant, PTL

(* ... and no thread of the session runs any more.                         *)
THEOREM ClosedSessionsAreQuiet == Spec => ClosedIsQuiet
<1>1. ASSUME TypeOK, IInv, [Next]_vars, NEW t \in Thread, t[1] \in closed
      PROVE  tpc'[t] = tpc[t] /\ tpc[t] \in {"none", "exited"}
  <2>1. tpc[t] \in {"none", "exited"} /\ (Executing => session # t[1])
    BY <1>1, ClosedThreads
  <2>2. CASE UNCHANGED vars
    BY <2>1, <2>2 DEF vars, threadVars
  <2>3. CASE CallStep
    <3>1. CASE Start
      <4>1. Current # t
        BY <2>1, <3>1 DEF Start, Executing, Current
      <4> QED
        BY <1>1, <2>1, <3>1, <4>1 DEF Start, TypeOK
    <3>2. CASE Notify
      BY <1>1, <2>1, <3>2 DEF Notify, NotifyOne, Blocked, TypeOK
    <3>3. CASE StopNotify
      BY <2>1, <3>3 DEF StopNotify, NotifyAll, Blocked
    <3>4. CASE Pack \/ Push \/ Copy \/ Stop \/ Join
      BY <2>1, <3>4 DEF Pack, Push, Copy, Stop, Join, threadVars
    <3> QED
      BY <2>3, <3>1, <3>2, <3>3, <3>4 DEF CallStep
  <2>4. CASE (\E s \in Session, n \in Size : Execute(s, n)) \/ \E s \in Session : Disconnect(s)
    BY <2>1, <2>4 DEF Execute, Disconnect, threadVars
  <2>5. ASSUME NEW u \in Thread, ThreadStep(u) \/ Wakeup(u)
        PROVE  tpc'[t] = tpc[t]
    <3>1. u # t
      BY <2>1, <2>5 DEF ThreadStep, Lock, Test, Wait, Wakeup, PopCommand, PopFileCommand,
                        PopNothing, Open, Write, EndWrite, Check
    <3>2. tpc' = tpc \/ \E p \in ThreadPC : tpc' = [tpc EXCEPT ![u] = p]
      BY <2>5 DEF ThreadStep, Lock, Test, Wait, Wakeup, PopCommand, PopFileCommand,
                  PopNothing, Open, Write, EndWrite, Check, AfterCheck, Goto, ThreadPC
    <3> QED
      BY <1>1, <3>1, <3>2 DEF TypeOK
  <2> QED
    BY <1>1, <2>1, <2>2, <2>3, <2>4, <2>5 DEF Next
<1>2. TypeOK /\ IInv /\ [Next]_vars =>
        [\A t \in Thread : t[1] \in closed => tpc'[t] = tpc[t] /\ tpc[t] \in {"none", "exited"}]_vars
  BY <1>1
<1> QED
  BY <1>2, Invariant, PTL DEF Spec, ClosedIsQuiet

-----------------------------------------------------------------------------
(* With one file thread the executors implement BlockOutput.  Its state is *)
(* the blocks, the console, the files and the closed sessions; the queues, *)
(* the threads and the call in progress are not seen.                      *)

(* The head of the log queue is the oldest command not yet printed. *)
LEMMA PrintsNext ==
  ASSUME TypeOK, IInv, NEW t \in Thread, PopCommand(t)
  PROVE  \E s \in Session : Output!PrintNext(s)
<1> DEFINE s0 == t[1]
           q == log_queue_[s0]
           h == q[1]
<1>1. CallInv /\ LogInv /\ FileInv /\ PrintedInOrder
  BY DEF IInv
<1>2. /\ s0 \in Session /\ q \in Seq(Entry) /\ q # <<>> /\ h \in Entry
      /\ console' = Append(console, h)
      /\ UNCHANGED <<bulks, file, unopened>>
  BY <1>1, PopCommandStep
<1>3. closed' = closed
  BY DEF PopCommand
<1>4. 1 \in 1..Len(q)
  BY <1>2, TailEntries
<1>5. /\ LogQueued(h) /\ Owner(h) = s0
      /\ \A k \in 1..Len(console) : Owner(console[k]) = s0 => Before(console[k], h)
      /\ \A b \in BlocksOf(s0) : \A i \in 1..bulks[b].size :
           LogQueued(Command(b, i)) => In(Command(b, i), console) \/ In(Command(b, i), q)
  BY <1>1, <1>2, <1>4 DEF LogInv
<1>6. /\ h.bulk \in 1..Newest /\ h.cmd \in 1..bulks[h.bulk].size /\ h.bulk \in BlocksOf(s0)
      /\ h = [bulk |-> h.bulk, cmd |-> h.cmd] /\ h.bulk \in Nat /\ h.cmd \in Nat
  <2>1. h.bulk \in 1..Newest /\ h.cmd \in 1..bulks[h.bulk].size /\ h.bulk \in BlocksOf(s0)
    BY <1>5 DEF LogQueued, IsCommand, Owner, BlocksOf
  <2> QED
    BY <1>2, <2>1, BlockType DEF Entry
<1>7. ~Output!IsPrinted(h.bulk, h.cmd)
  <2>1. ASSUME NEW k \in 1..Len(console), console[k] = h
        PROVE  FALSE
    <3>1. Before(h, h)
      BY <1>5, <2>1
    <3> QED
      BY <1>2, <3>1, BeforeIsStrict
  <2> QED
    BY <1>6, <2>1 DEF Output!IsPrinted
<1>8. ASSUME NEW a \in BlocksOf(s0), NEW i \in 1..bulks[a].size, Before(Command(a, i), h)
      PROVE  Output!IsPrinted(a, i)
  <2>1. a \in 1..Newest /\ bulks[a].size \in Nat /\ a \in Nat /\ Newest \in Nat
    BY BlockType DEF BlocksOf
  <2>2. LogQueued(Command(a, i))
    <3>1. LogCount \in Nat
      <4>1. Newest \in 1..Newest
        BY <2>1
      <4> QED
        BY <4>1, BlockType DEF LogCount, TypeOK
    <3>2. h.bulk <= Newest /\ (h.bulk < Newest \/ h.cmd <= LogCount)
      BY <1>5, <1>6, <2>1 DEF LogQueued
    <3>3. a < h.bulk \/ (a = h.bulk /\ i < h.cmd)
      BY <1>8 DEF Before, Command
    <3>4. a < Newest \/ i <= LogCount
      BY <1>6, <2>1, <3>1, <3>2, <3>3
    <3> QED
      BY <2>1, <3>4 DEF LogQueued, IsCommand, Command
  <2>3. Command(a, i) \in Entry
    BY <2>1, CommandType
  <2>4. ~In(Command(a, i), q)
    <3>1. ASSUME NEW k \in 1..Len(q), q[k] = Command(a, i)
          PROVE  FALSE
      <4>1. k # 1
        BY <1>2, <1>8, <3>1, BeforeIsStrict
      <4>2. 1 \in 1..(k - 1)
        BY <3>1, <4>1
      <4>3. Before(h, Command(a, i))
        BY <1>1, <1>2, <3>1, <4>2 DEF LogInv, Ordered
      <4> QED
        BY <1>2, <1>8, <2>3, <4>3, BeforeIsStrict
    <3> QED
      BY <3>1 DEF In
  <2>5. In(Command(a, i), console)
    BY <1>5, <2>2, <2>4
  <2> QED
    BY <2>5 DEF In, Command, Output!IsPrinted
<1>9. h.cmd > 1 => Output!IsPrinted(h.bulk, h.cmd - 1)
  <2> SUFFICES ASSUME h.cmd > 1 PROVE Output!IsPrinted(h.bulk, h.cmd - 1)
    OBVIOUS
  <2>1. h.cmd - 1 \in 1..bulks[h.bulk].size
    BY <1>6, BlockType
  <2>2. Before(Command(h.bulk, h.cmd - 1), h)
    BY <1>6 DEF Before, Command
  <2> QED
    BY <1>6, <1>8, <2>1, <2>2
<1>10. ASSUME NEW a \in BlocksOf(s0), a < h.bulk
       PROVE  Output!AllPrinted(a)
  <2>1. bulks[a].size \in 1..bulks[a].size
    BY BlockType DEF BlocksOf
  <2>2. Before(Command(a, bulks[a].size), h)
    BY <1>10 DEF Before, Command
  <2> QED
    BY <1>8, <2>1, <2>2 DEF Output!AllPrinted
<1>11. Output!BlocksOf(s0) = BlocksOf(s0)
  BY DEF Output!BlocksOf, BlocksOf, Newest
<1>12. Output!PrintNext(s0)
  BY <1>2, <1>3, <1>6, <1>7, <1>9, <1>10, <1>11 DEF Output!PrintNext
<1> QED
  BY <1>2, <1>12

(* A file command appends the next command of its block, or drops it. *)
LEMMA WritesNext ==
  ASSUME TypeOK, IInv, thread_count = 2, NEW t \in Thread, Write(t)
  PROVE  (\E b \in 1..Len(bulks) : Output!Write(b)) \/ UNCHANGED Output!vars
<1> DEFINE b0 == bulk[t]
           n == bulks[b0].size
<1>1. CallInv /\ FileInv /\ CopyInv /\ DebtInv /\ HoldInv
  BY DEF IInv
<1>2. /\ b0 \in 1..Newest /\ tpc[t] = "write" /\ t[1] \in Session
      /\ q_[t[1]] \in Seq(Entry) /\ q_[t[1]] # <<>>
      /\ UNCHANGED <<bulks, console, unopened>>
  BY <1>1, WriteStep
<1>3. closed' = closed
  BY DEF Write
<1>4. q_[t[1]][1] = Command(b0, n - left[t] + 1) /\ left[t] \in 1..n
  BY <1>1, HeadIsNext
<1>5. CASE b0 \in unopened
  <2>1. file' = file
    BY <1>5 DEF Write
  <2> QED
    BY <1>2, <1>3, <2>1 DEF Output!vars
<1>6. CASE b0 \notin unopened
  <2>1. Owed(b0) = left[t] /\ FileQueued(b0)
    BY <1>1, <1>2, OwedCases DEF OwedByPlace
  <2>2. Len(file[b0]) + left[t] = n /\ Len(file[b0]) \in Nat /\ n \in Nat
    BY <1>1, <1>2, <1>6, <2>1, BlockType, FileType DEF DebtInv
  <2>3. Len(file[b0]) # n /\ Len(file[b0]) + 1 = n - left[t] + 1
    BY <1>4, <2>2
  <2>4. Head(q_[t[1]]) = [bulk |-> b0, cmd |-> Len(file[b0]) + 1]
    BY <1>2, <1>4, <2>3, TailEntries DEF Command
  <2>5. file' = [file EXCEPT ![b0] = Append(@, [bulk |-> b0, cmd |-> Len(@) + 1])]
    BY <1>6, <2>4 DEF Write
  <2>6. Output!Write(b0)
    BY <1>2, <1>3, <1>6, <2>3, <2>5 DEF Output!Write, Output!IsWritten
  <2> QED
    BY <1>2, <2>6 DEF Newest
<1> QED
  BY <1>5, <1>6

(* A file that cannot be opened is empty. *)
LEMMA OpensOrFails ==
  ASSUME TypeOK, IInv, NEW t \in Thread, Open(t)
  PROVE  (\E b \in 1..Len(bulks) : Output!FailToOpen(b)) \/ UNCHANGED Output!vars
<1> DEFINE b0 == bulk[t]
<1>1. CallInv /\ FileInv /\ DebtInv
  BY DEF IInv
<1>2. /\ b0 \in 1..Newest /\ tpc[t] = "open"
      /\ unopened' \in {unopened, unopened \union {b0}}
      /\ UNCHANGED <<bulks, console, file>>
  BY <1>1, OpenStep
<1>3. closed' = closed
  BY DEF Open
<1>4. b0 \notin unopened /\ FileQueued(b0) /\ Owed(b0) = bulks[b0].size
  BY <1>1, <1>2, OwedCases DEF DebtInv, OwedByPlace
<1>5. Len(file[b0]) + bulks[b0].size = bulks[b0].size /\ bulks[b0].size \in Nat
      /\ file[b0] \in Seq(Entry) /\ Len(file[b0]) \in Nat
  BY <1>1, <1>2, <1>4, BlockType, FileType DEF DebtInv
<1>6. Len(file[b0]) = 0
  BY <1>5
<1>7. file[b0] = <<>>
  BY <1>5, <1>6, EmptySeq
<1>8. unopened' = unopened \union {b0} => Output!FailToOpen(b0)
  BY <1>2, <1>3, <1>4, <1>7 DEF Output!FailToOpen
<1> QED
  BY <1>2, <1>3, <1>8 DEF Output!vars, Newest

(* The last destructor ends the session: all is out by then. *)
LEMMA ClosesWhenOut ==
  ASSUME TypeOK, IInv, TypeOK', IInv', NextDestructor, Stop \/ Join
  PROVE  Output!Close(session) \/ UNCHANGED Output!vars
<1>1. UNCHANGED <<bulks, console, file, unopened>> /\ session \in Session \ closed
  BY DEF Stop, Join, outVars, IInv, CallInv
<1>2. CASE closed' = closed
  BY <1>1, <1>2 DEF Output!vars
<1>3. CASE closed' # closed
  <2> PICK s0 : s0 = session
    OBVIOUS
  <2>1. closed' = closed \union {s0} /\ s0 \in closed' /\ s0 \in Session
    BY <1>1, <1>3 DEF NextDestructor
  <2>2. ClosedIsWritten' /\ FilesComplete'
    <3>1. TypeOK' /\ IInv' => ClosedIsWritten' /\ FilesComplete'
      BY ClosedIsOut, CompleteWhenWritten, PTL
    <3> QED
      BY <3>1
  <2>3. Newest' = Newest /\ BlocksOf(s0)' = BlocksOf(s0) /\ Output!BlocksOf(s0) = BlocksOf(s0)
    BY <1>1 DEF Newest, BlocksOf, Output!BlocksOf
  <2>4. ASSUME NEW b \in BlocksOf(s0)
        PROVE  Output!AllPrinted(b) /\ Output!IsWritten(b)
    <3>1. b \in 1..Newest /\ bulks[b].size \in 1..bulks[b].size
      BY BlockType DEF BlocksOf
    <3>2. Written(b)' /\ \A i \in 1..bulks'[b].size : In(Command(b, i), console)'
      BY <2>1, <2>2, <2>3 DEF ClosedIsWritten
    <3>3. b \in unopened \/ Len(file[b]) = bulks[b].size
      BY <1>1, <2>2, <2>3, <3>1, <3>2 DEF FilesComplete
    <3>4. In(Command(b, bulks[b].size), console)'
      BY <1>1, <3>1, <3>2
    <3> QED
      BY <1>1, <3>3, <3>4 DEF In, Command, Output!AllPrinted, Output!IsPrinted, Output!IsWritten
  <2>5. Output!Close(s0)
    BY <1>1, <2>1, <2>3, <2>4 DEF Output!Close
  <2> QED
    BY <2>5
<1> QED
  BY <1>2, <1>3

(* A step of the executors is a step of BlockOutput or changes nothing of it.*)
LEMMA StepImplements ==
  ASSUME TypeOK, IInv, TypeOK', IInv', thread_count = 2, [Next]_vars
  PROVE  [Output!Next]_(Output!vars)
<1>1. ASSUME NEW s \in Session, NEW n \in Size, Execute(s, n)
      PROVE  Output!Execute(s, n)
  BY <1>1 DEF Execute, Output!Execute
<1>2. CASE Stop \/ Join
  <2>1. CASE NextDestructor
    <3>1. session \in Session
      BY <1>2 DEF IInv, CallInv, Stop, Join
    <3> QED
      BY <1>2, <2>1, <3>1, ClosesWhenOut DEF Output!Next
  <2>2. CASE ~NextDestructor
    BY <1>2, <2>2 DEF Stop, Join, outVars, Output!vars
  <2> QED
    BY <2>1, <2>2
<1>3. CASE Copy \/ Push \/ Pack \/ Start \/ Notify \/ StopNotify \/ \E s \in Session : Disconnect(s)
  BY <1>3 DEF Copy, Push, Pack, Start, Notify, StopNotify, Disconnect, outVars, Output!vars
<1>4. ASSUME NEW t \in Thread, PopFileCommand(t) \/ EndWrite(t) \/ QuietThread(t)
      PROVE  UNCHANGED Output!vars
  BY <1>4 DEF PopFileCommand, EndWrite, QuietThread, Lock, Test, Wait, Wakeup, PopNothing, Check,
              callVars, outVars, Output!vars
<1>5. CASE UNCHANGED vars
  BY <1>5 DEF vars, callVars, outVars, Output!vars
<1> QED
  BY <1>1, <1>2, <1>3, <1>4, <1>5, NextCases, PrintsNext, WritesNext, OpensOrFails
  DEF QuietCall, Output!Next

(* No step of the executors, of a thread or of a call prints or writes     *)
(* anything but what BlockOutput allows, and a session is closed only when *)
(* all it executed is out.                                                 *)
THEOREM ExecutorsImplementOutput ==
  ASSUME thread_count = 2
  PROVE  Spec => ImplementsOutput
<1>1. Init => Output!Init
  BY DEF Init, Output!Init
<1>2. TypeOK /\ IInv /\ TypeOK' /\ IInv' /\ [Next]_vars => [Output!Next]_(Output!vars)
  BY StepImplements
<1> QED
  BY <1>1, <1>2, Invariant, PTL DEF Spec, ImplementsOutput, Output!Spec

=============================================================================
