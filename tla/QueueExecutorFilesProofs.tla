---------------------- MODULE QueueExecutorFilesProofs ----------------------
(***************************************************************************)
(* Proofs about the queue the file commands of a session share: it is as   *)
(* long as what it owes to the blocks, so each file command finds as many  *)
(* commands as its block has; with one file thread they are its own.       *)
(***************************************************************************)
EXTENDS QueueExecutorProofs

-----------------------------------------------------------------------------
(* What is owed to a block, by where its file command is. *)

OwedByPlace ==
  \A b \in 1..Newest :
    /\ ~FileQueued(b) => Owed(b) = CopyCount
    /\ FileQueued(b) /\ FileWaits(b) => Owed(b) = bulks[b].size
    /\ \A t \in Thread : bulk[t] = b /\ tpc[t] = "open" => Owed(b) = bulks[b].size
    /\ \A t \in Thread : bulk[t] = b /\ tpc[t] = "write" => Owed(b) = left[t]
    /\ \A t \in Thread : bulk[t] = b => FileQueued(b) /\ ~FileWaits(b) /\ HasFile(t)
    /\ Written(b) => Owed(b) = 0

(* What a block is owed, by the place of its file command.                 *)
LEMMA OwedCases == TypeOK /\ FileInv => OwedByPlace
<1> SUFFICES ASSUME TypeOK, FileInv, NEW b \in 1..Newest
             PROVE  /\ ~FileQueued(b) => Owed(b) = CopyCount
                    /\ FileQueued(b) /\ FileWaits(b) => Owed(b) = bulks[b].size
                    /\ \A t \in Thread : bulk[t] = b /\ tpc[t] = "open" => Owed(b) = bulks[b].size
                    /\ \A t \in Thread : bulk[t] = b /\ tpc[t] = "write" => Owed(b) = left[t]
                    /\ \A t \in Thread : bulk[t] = b => FileQueued(b) /\ ~FileWaits(b) /\ HasFile(t)
                    /\ Written(b) => Owed(b) = 0
  BY DEF OwedByPlace
<1>1. ASSUME NEW t \in Thread, bulk[t] = b
      PROVE  FileQueued(b) /\ ~FileWaits(b) /\ HasFile(t) /\ \A u \in Thread : bulk[u] = b => u = t
  <2>1. HasFile(t)
    BY <1>1 DEF FileInv, HasFile
  <2>2. /\ b \in BlocksOf(t[1]) /\ FileQueued(b) /\ b \in Nat
        /\ \A k \in 1..Len(file_queue_[t[1]]) : b < file_queue_[t[1]][k].bulk
        /\ \A u \in Thread : u # t => bulk[u] # b
    BY <1>1, <2>1, BlockType DEF FileInv, HasFile
  <2>3. ~FileWaits(b)
    BY <2>2 DEF FileWaits, BlocksOf
  <2> QED
    BY <2>1, <2>2, <2>3
<1>2. ASSUME NEW t \in Thread, bulk[t] = b, tpc[t] = "write"
      PROVE  Owed(b) = left[t]
  <2>1. ~ \E u \in Thread : bulk[u] = b /\ tpc[u] = "open"
    BY <1>1, <1>2
  <2>2. (CHOOSE u \in Thread : bulk[u] = b) = t
    BY <1>1, <1>2
  <2> QED
    BY <1>1, <1>2, <2>1, <2>2 DEF Owed
<1>3. ASSUME NEW t \in Thread, bulk[t] = b, tpc[t] = "open"
      PROVE  Owed(b) = bulks[b].size
  BY <1>1, <1>3 DEF Owed
<1>4. Written(b) => Owed(b) = 0
  BY DEF Owed, Written
<1>5. /\ ~FileQueued(b) => Owed(b) = CopyCount
      /\ FileQueued(b) /\ FileWaits(b) => Owed(b) = bulks[b].size
  BY DEF Owed
<1> QED
  BY <1>1, <1>2, <1>3, <1>4, <1>5

(* The same in the next state.                                             *)
LEMMA OwedCasesNext == TypeOK' /\ FileInv' => OwedByPlace'
  BY OwedCases, PTL

(* Nothing else matters to what is owed to a block. *)
LEMMA OwedKept ==
  ASSUME TypeOK, FileInv, TypeOK', FileInv',
         NEW b \in 1..Newest, b \in 1..Newest', bulks'[b] = bulks[b],
         FileQueued(b)' <=> FileQueued(b), FileWaits(b)' <=> FileWaits(b),
         ~FileQueued(b) => CopyCount' = CopyCount,
         \A t \in Thread : bulk'[t] = b <=> bulk[t] = b,
         \A t \in Thread : bulk[t] = b => (tpc'[t] = "open" <=> tpc[t] = "open") /\ left'[t] = left[t]
  PROVE  Owed(b)' = Owed(b)
<1>1. OwedByPlace /\ OwedByPlace'
  BY OwedCases, OwedCasesNext
<1>2. CASE ~FileQueued(b)
  BY <1>1, <1>2 DEF OwedByPlace
<1>3. CASE FileQueued(b) /\ FileWaits(b)
  BY <1>1, <1>3 DEF OwedByPlace
<1>4. ASSUME NEW t \in Thread, bulk[t] = b
      PROVE  Owed(b)' = Owed(b)
  <2>1. HasFile(t) /\ HasFile(t)'
    BY <1>1, <1>4 DEF OwedByPlace
  <2> QED
    BY <1>1, <1>4, <2>1 DEF OwedByPlace, HasFile
<1>5. CASE Written(b)
  <2>1. Written(b)'
    BY <1>5 DEF Written
  <2> QED
    BY <1>1, <1>5, <2>1 DEF OwedByPlace
<1> QED
  BY <1>2, <1>3, <1>4, <1>5 DEF Written

(* A block whose file command stays where it is is owed what it was.       *)
LEMMA OwedFrame ==
  ASSUME TypeOK, FileInv, TypeOK', FileInv', UNCHANGED bulks, NEW b \in 1..Newest,
         FileQueued(b)' <=> FileQueued(b), FileWaits(b)' <=> FileWaits(b),
         ~FileQueued(b) => CopyCount' = CopyCount,
         \A t \in Thread : bulk'[t] = b <=> bulk[t] = b,
         \A t \in Thread : bulk[t] = b => (tpc'[t] = "open" <=> tpc[t] = "open") /\ left'[t] = left[t]
  PROVE  Owed(b)' = Owed(b)
<1>1. b \in 1..Newest' /\ bulks'[b] = bulks[b]
  BY DEF Newest
<1> QED
  BY <1>1, OwedKept

(* The entries of a debt, and that it stays when what is owed does. *)
LEMMA DebtEntries ==
  /\ \A s, b, i : <<b, i>> \in Debt(s) <=> b \in BlocksOf(s) /\ i \in 1..Owed(b)
  /\ \A s : \A e \in Debt(s) : e = <<e[1], e[2]>>
  BY DEF Debt

(* The same in the next state.                                             *)
LEMMA DebtEntriesNext ==
  /\ \A s, b, i : <<b, i>> \in Debt(s)' <=> b \in BlocksOf(s)' /\ i \in 1..Owed(b)'
  /\ \A s : \A e \in Debt(s)' : e = <<e[1], e[2]>>
  BY DEF Debt

(* The debt depends on what each block is owed.                            *)
LEMMA DebtSame ==
  ASSUME NEW s, BlocksOf(s)' = BlocksOf(s), \A b \in BlocksOf(s) : Owed(b)' = Owed(b)
  PROVE  Debt(s)' = Debt(s)
<1>1. ASSUME NEW b, NEW i
      PROVE  <<b, i>> \in Debt(s)' <=> <<b, i>> \in Debt(s)
  <2>1. <<b, i>> \in Debt(s) <=> b \in BlocksOf(s) /\ i \in 1..Owed(b)
    BY DebtEntries
  <2>2. <<b, i>> \in Debt(s)' <=> b \in BlocksOf(s)' /\ i \in 1..Owed(b)'
    BY DebtEntriesNext
  <2> QED
    BY <2>1, <2>2
<1>2. Debt(s)' \subseteq Debt(s)
  BY <1>1, DebtEntriesNext
<1>3. Debt(s) \subseteq Debt(s)'
  BY <1>1, DebtEntries
<1> QED
  BY <1>2, <1>3

-----------------------------------------------------------------------------
(* What the shared queue owes to one block it has. *)
LEMMA OwedIsThere ==
  ASSUME TypeOK, DebtInv, NEW s \in Session, NEW b \in BlocksOf(s)
  PROVE  Owed(b) \in Nat /\ Owed(b) <= Len(q_[s])
<1>1. Owed(b) \in Nat
  <2>1. b \in 1..Newest
    BY DEF BlocksOf
  <2> QED
    BY <2>1, BlockType DEF DebtInv
<1> DEFINE f == [i \in 1..Owed(b) |-> <<b, i>>]
<1>2. \A i \in 1..Owed(b) : f[i] \in Debt(s)
  BY DebtEntries
<1>3. f \in Injection(1..Owed(b), Debt(s))
  BY <1>2 DEF Injection, IsInjective
<1>4. IsFiniteSet(Debt(s)) /\ Cardinality(Debt(s)) = Len(q_[s])
  BY DEF DebtInv
<1>5. Cardinality(1..Owed(b)) <= Cardinality(Debt(s))
  BY <1>3, <1>4, FS_Injection
<1>6. Cardinality(1..Owed(b)) = Owed(b)
  BY <1>1, FS_Interval
<1> QED
  BY <1>1, <1>4, <1>5, <1>6

(* A file command takes all the commands of its block. *)
LEMMA OpenStep ==
  ASSUME TypeOK, FileInv, DebtInv, NEW t \in Thread, Open(t)
  PROVE  /\ tpc[t] = "open" /\ tpc'[t] = "write"
         /\ bulk[t] \in 1..Newest /\ left'[t] = bulks[bulk[t]].size
         /\ \A u \in Thread : u # t => tpc'[u] = tpc[u] /\ left'[u] = left[u]
         /\ unopened' \in {unopened, unopened \union {bulk[t]}}
         /\ UNCHANGED <<bulks, file_queue_, q_, bulk, console, file>>
<1>1. /\ tpc[t] = "open" /\ tpc'[t] = "write" /\ t[1] \in Session
      /\ \A u \in Thread : u # t => tpc'[u] = tpc[u] /\ left'[u] = left[u]
      /\ unopened' \in {unopened, unopened \union {bulk[t]}}
      /\ UNCHANGED <<bulks, file_queue_, q_, bulk, console, file>>
  BY ThreadParts DEF Open, Goto, TypeOK, callVars, queueVars
<1>2. bulk[t] \in BlocksOf(t[1]) /\ bulk[t] \in 1..Newest
  BY <1>1 DEF FileInv, BlocksOf
<1>3. bulks[bulk[t]].size \in Nat /\ bulks[bulk[t]].size <= Len(q_[t[1]]) /\ Len(q_[t[1]]) \in Nat
  <2>1. Owed(bulk[t]) = bulks[bulk[t]].size
    BY <1>1, <1>2, OwedCases DEF OwedByPlace
  <2>2. bulks[bulk[t]].size \in Nat
    BY <1>2, BlockType
  <2>3. Len(q_[t[1]]) \in Nat
    BY <1>1 DEF TypeOK
  <2> QED
    BY <1>1, <1>2, <2>1, <2>2, <2>3, OwedIsThere
<1>4. left'[t] = bulks[bulk[t]].size
  <2>1. \A opened \in BOOLEAN :
          Quota(bulks[bulk[t]].size, Len(q_[t[1]]), opened) = bulks[bulk[t]].size
    BY <1>3 DEF Quota
  <2> QED
    BY <2>1 DEF Open, TypeOK
<1> QED
  BY <1>1, <1>2, <1>4

(* A file command that ends has written all it was to write. *)
LEMMA EndWriteStep ==
  ASSUME TypeOK, FileInv, DebtInv, NEW t \in Thread, EndWrite(t)
  PROVE  /\ tpc[t] = "write" /\ tpc'[t] = "check"
         /\ bulk[t] \in 1..Newest /\ bulk'[t] = 0 /\ left[t] = 0
         /\ \A u \in Thread : u # t => tpc'[u] = tpc[u] /\ left'[u] = left[u] /\ bulk'[u] = bulk[u]
         /\ UNCHANGED <<bulks, file_queue_, q_, outVars>>
<1>1. /\ tpc[t] = "write" /\ tpc'[t] = "check" /\ bulk'[t] = 0 /\ t[1] \in Session
      /\ left[t] = 0 \/ q_[t[1]] = <<>>
      /\ \A u \in Thread : u # t => tpc'[u] = tpc[u] /\ left'[u] = left[u] /\ bulk'[u] = bulk[u]
      /\ UNCHANGED <<bulks, file_queue_, q_, outVars>>
  BY ThreadParts DEF EndWrite, Goto, TypeOK, callVars, queueVars
<1>2. bulk[t] \in BlocksOf(t[1]) /\ bulk[t] \in 1..Newest
  BY <1>1 DEF FileInv, BlocksOf
<1>3. left[t] \in Nat /\ left[t] <= Len(q_[t[1]])
  <2>1. Owed(bulk[t]) = left[t]
    BY <1>1, <1>2, OwedCases DEF OwedByPlace
  <2> QED
    BY <1>1, <1>2, <2>1, OwedIsThere
<1>4. left[t] = 0
  BY <1>1, <1>3
<1> QED
  BY <1>1, <1>2, <1>4

(* These steps leave what is owed to each block as it is, also when its    *)
(* file command moves on.                                                  *)
LEMMA OwedPush ==
  ASSUME TypeOK, CallInv, FileInv, TypeOK', FileInv', Push, NEW b \in 1..Newest
  PROVE  /\ Owed(b)' = Owed(b)
         /\ FileQueued(b)' /\ ~FileQueued(b) => Owed(b) = bulks[b].size
         /\ FileQueued(b) => (FileWaits(b)' <=> FileWaits(b))
<1>1. CopyCount' = CopyCount /\ UNCHANGED <<bulks, threadVars>> /\ session \in Session
  BY PushStep
<1>2. Newest' = Newest /\ UNCHANGED <<tpc, bulk, left>> /\ Newest \in Nat
  BY <1>1 DEF Newest, threadVars, TypeOK
<1>3. bulks[b].session \in Session
  BY BlockType
<1>4. CASE Queueing' /\ UNCHANGED file_queue_
  <2>1. (FileQueued(b)' <=> FileQueued(b)) /\ (FileWaits(b)' <=> FileWaits(b))
    BY <1>1, <1>2, <1>4, PushStep DEF FileQueued, FileWaits
  <2> QED
    BY <1>1, <1>2, <2>1, OwedFrame
<1>5. CASE ~(Queueing' /\ UNCHANGED file_queue_)
  <2>1. /\ file_queue_'[session] = Append(file_queue_[session], Pushed)
        /\ \A s \in Session : s # session => file_queue_'[s] = file_queue_[s]
        /\ Pushed = Command(Newest, Whole) /\ Pushed \in Entry
        /\ Queueing /\ ~Queueing' /\ bulks[Newest].session = session
    BY <1>5, PushStep
  <2>2. file_queue_[session] \in Seq(Entry)
    BY <1>1 DEF TypeOK
  <2>3. /\ Len(file_queue_[session]) \in Nat
        /\ file_queue_'[session][Len(file_queue_[session]) + 1] = Pushed
        /\ Len(file_queue_[session]) + 1 \in 1..Len(file_queue_'[session])
        /\ \A k \in 1..Len(file_queue_[session]) :
             /\ file_queue_'[session][k] = file_queue_[session][k]
             /\ k \in 1..Len(file_queue_'[session])
        /\ \A k \in 1..Len(file_queue_'[session]) :
             k \in 1..Len(file_queue_[session]) \/ k = Len(file_queue_[session]) + 1
    BY <2>1, <2>2, AppendEntries
  <2>4. Pushed.bulk = Newest
    BY <2>1 DEF Command
  <2>5. CASE b = Newest
    <3>1. FileQueued(b)' /\ ~FileQueued(b)
      BY <1>2, <2>1, <2>5 DEF FileQueued
    <3>2. FileWaits(b)'
      BY <1>1, <2>1, <2>3, <2>4, <2>5 DEF FileWaits
    <3>3. CopyCount = bulks[Newest].size
      <4>1. pc = "push" /\ worker = FileProvider
        <5>1. pc = "push" /\ (worker = LogWorker \/ worker = FileProvider)
          BY DEF Push, CallInv
        <5>2. worker = LogWorker => Queueing' /\ UNCHANGED file_queue_
          BY <5>1 DEF Push, Queueing
        <5> QED
          BY <1>5, <5>1, <5>2
      <4> QED
        BY <4>1 DEF CopyCount, LogWorker, FileProvider
    <3>4. Owed(b) = bulks[b].size
      BY <2>5, <3>1, <3>3, OwedCases DEF OwedByPlace
    <3>5. Owed(b)' = bulks'[b].size
      BY <1>2, <3>1, <3>2, OwedCasesNext DEF OwedByPlace
    <3> QED
      BY <1>1, <3>1, <3>4, <3>5
  <2>6. CASE b # Newest
    <3>1. FileQueued(b)' /\ FileQueued(b)
      BY <1>2, <2>6 DEF FileQueued
    <3>2. FileWaits(b)' <=> FileWaits(b)
      <4>1. CASE bulks[b].session # session
        BY <1>1, <1>3, <2>1, <4>1 DEF FileWaits
      <4>2. CASE bulks[b].session = session
        BY <1>1, <2>3, <2>4, <2>6, <4>2 DEF FileWaits
      <4> QED
        BY <4>1, <4>2
    <3> QED
      BY <1>1, <1>2, <3>1, <3>2, OwedFrame
  <2> QED
    BY <2>5, <2>6
<1> QED
  BY <1>4, <1>5

(* A file command that is popped is owed the whole block, as before.       *)
LEMMA OwedPop ==
  ASSUME TypeOK, CallInv, LogInv, FileInv, TypeOK', FileInv',
         NEW t \in Thread, PopFileCommand(t), NEW b \in 1..Newest
  PROVE  Owed(b)' = Owed(b) /\ (FileWaits(b)' => FileWaits(b))
<1> DEFINE q == file_queue_[t[1]]
           r == file_queue_'[t[1]]
<1>1. /\ t[1] \in Session /\ q \in Seq(Entry) /\ q # <<>> /\ r = Tail(q)
      /\ \A s \in Session : s # t[1] => file_queue_'[s] = file_queue_[s]
      /\ bulk[t] = 0 /\ bulk'[t] = q[1].bulk /\ tpc'[t] = "open"
      /\ \A u \in Thread : u # t => tpc'[u] = tpc[u] /\ bulk'[u] = bulk[u]
      /\ UNCHANGED <<bulks, left>>
  BY PopFileStep
<1>2. /\ 1 \in 1..Len(q)
      /\ \A k \in 1..Len(r) : r[k] = q[k + 1] /\ k + 1 \in 1..Len(q)
      /\ \A k \in 1..Len(q) : k = 1 \/ (k - 1 \in 1..Len(r) /\ r[k - 1] = q[k])
  BY <1>1, TailEntries
<1>3. CopyCount' = CopyCount /\ Queueing' = Queueing /\ Newest' = Newest
  BY ThreadCall
<1>4. (FileQueued(b)' <=> FileQueued(b)) /\ bulks[b].session \in Session /\ b # 0
  BY <1>3, BlockType DEF FileQueued
<1>5. FileWaits(b)' => FileWaits(b)
  <2>1. CASE bulks[b].session # t[1]
    BY <1>1, <1>4, <2>1 DEF FileWaits
  <2>2. CASE bulks[b].session = t[1]
    <3>1. FileWaits(b)' => \E k \in 1..Len(r) : r[k].bulk = b
      BY <1>1, <2>2 DEF FileWaits
    <3>2. (\E k \in 1..Len(q) : q[k].bulk = b) => FileWaits(b)
      BY <2>2 DEF FileWaits
    <3> QED
      BY <1>2, <3>1, <3>2
  <2> QED
    BY <2>1, <2>2
<1>6. CASE b = q[1].bulk
  <2>1. FileQueued(b) /\ FileWaits(b)
    <3>1. b \in BlocksOf(t[1]) /\ FileQueued(b)
      BY <1>1, <1>2, <1>6 DEF FileInv
    <3> QED
      BY <1>2, <1>6, <3>1 DEF FileWaits, BlocksOf
  <2>2. Owed(b) = bulks[b].size
    BY <2>1, OwedCases DEF OwedByPlace
  <2>3. Owed(b)' = bulks'[b].size
    BY <1>1, <1>3, <1>6, OwedCasesNext DEF OwedByPlace
  <2> QED
    BY <1>1, <1>5, <2>2, <2>3
<1>7. CASE b # q[1].bulk
  <2>1. FileWaits(b)' <=> FileWaits(b)
    <3>1. CASE bulks[b].session # t[1]
      BY <1>1, <1>4, <3>1 DEF FileWaits
    <3>2. CASE bulks[b].session = t[1]
      <4>1. (\E k \in 1..Len(r) : r[k].bulk = b) => FileWaits(b)'
        BY <1>1, <3>2 DEF FileWaits
      <4>2. FileWaits(b) => \E k \in 1..Len(q) : q[k].bulk = b
        BY <3>2 DEF FileWaits
      <4> QED
        BY <1>2, <1>5, <1>7, <4>1, <4>2
    <3> QED
      BY <3>1, <3>2
  <2> QED
    BY <1>1, <1>3, <1>4, <1>7, <2>1, OwedFrame
<1> QED
  BY <1>6, <1>7

(* A file that is opened is owed the whole block, as before.               *)
LEMMA OwedOpen ==
  ASSUME TypeOK, CallInv, FileInv, DebtInv, TypeOK', FileInv',
         NEW t \in Thread, Open(t), NEW b \in 1..Newest
  PROVE  Owed(b)' = Owed(b)
<1>1. /\ tpc[t] = "open" /\ tpc'[t] = "write" /\ left'[t] = bulks[bulk[t]].size
      /\ \A u \in Thread : u # t => tpc'[u] = tpc[u] /\ left'[u] = left[u]
      /\ UNCHANGED <<bulks, file_queue_, bulk>>
  BY OpenStep
<1>2. CopyCount' = CopyCount /\ Queueing' = Queueing /\ Newest' = Newest
  BY ThreadCall
<1>3. (FileQueued(b)' <=> FileQueued(b)) /\ (FileWaits(b)' <=> FileWaits(b))
  BY <1>1, <1>2 DEF FileQueued, FileWaits
<1>4. CASE b = bulk[t]
  <2>1. Owed(b) = bulks[b].size
    BY <1>1, <1>4, OwedCases DEF OwedByPlace
  <2>2. Owed(b)' = left'[t]
    BY <1>1, <1>2, <1>4, OwedCasesNext DEF OwedByPlace
  <2> QED
    BY <1>1, <1>4, <2>1, <2>2
<1>5. CASE b # bulk[t]
  BY <1>1, <1>2, <1>3, <1>5, OwedFrame
<1> QED
  BY <1>4, <1>5

(* A file that is finished is owed nothing, as before.                     *)
LEMMA OwedEndWrite ==
  ASSUME TypeOK, CallInv, FileInv, DebtInv, TypeOK', FileInv',
         NEW t \in Thread, EndWrite(t), NEW b \in 1..Newest
  PROVE  Owed(b)' = Owed(b)
<1>1. /\ tpc[t] = "write" /\ tpc'[t] = "check" /\ bulk'[t] = 0 /\ left[t] = 0
      /\ \A u \in Thread : u # t => tpc'[u] = tpc[u] /\ left'[u] = left[u] /\ bulk'[u] = bulk[u]
      /\ UNCHANGED <<bulks, file_queue_>>
  BY EndWriteStep
<1>2. CopyCount' = CopyCount /\ Queueing' = Queueing /\ Newest' = Newest /\ b # 0
  BY ThreadCall, BlockType
<1>3. (FileQueued(b)' <=> FileQueued(b)) /\ (FileWaits(b)' <=> FileWaits(b))
  BY <1>1, <1>2 DEF FileQueued, FileWaits
<1>4. CASE b = bulk[t]
  <2>1. Owed(b) = 0
    BY <1>1, <1>4, OwedCases DEF OwedByPlace
  <2>2. FileQueued(b) /\ ~FileWaits(b) /\ \A u \in Thread : u # t => bulk[u] # b
    BY <1>1, <1>4, OwedCases DEF OwedByPlace, FileInv
  <2>3. Written(b)'
    BY <1>1, <1>2, <1>3, <2>2 DEF Written
  <2> QED
    BY <1>2, <2>1, <2>3, OwedCasesNext DEF OwedByPlace
<1>5. CASE b # bulk[t]
  BY <1>1, <1>2, <1>3, <1>5, OwedFrame
<1> QED
  BY <1>4, <1>5

(* The others do not touch a file command at all. *)
LEMMA OwedOthers ==
  ASSUME TypeOK, CallInv, LogInv, FileInv, TypeOK', FileInv',
         Quiet \/ \E t \in Thread : PopCommand(t), NEW b \in 1..Newest
  PROVE  Owed(b)' = Owed(b) /\ (FileWaits(b)' <=> FileWaits(b))
<1>1. CASE Quiet
  <2>1. /\ UNCHANGED <<bulks, file_queue_, bulk, left>>
        /\ CopyCount' = CopyCount /\ Queueing' = Queueing
        /\ \A t \in Thread : tpc'[t] = "open" <=> tpc[t] = "open"
    BY <1>1 DEF Quiet
  <2>2. (FileQueued(b)' <=> FileQueued(b)) /\ (FileWaits(b)' <=> FileWaits(b))
    BY <2>1 DEF FileQueued, FileWaits, Newest
  <2> QED
    BY <2>1, <2>2, OwedFrame
<1>2. ASSUME NEW t \in Thread, PopCommand(t)
      PROVE  Owed(b)' = Owed(b) /\ (FileWaits(b)' <=> FileWaits(b))
  <2>1. /\ UNCHANGED <<bulks, file_queue_, bulk, left>>
        /\ tpc[t] = "pop" /\ tpc'[t] = "check" /\ \A u \in Thread : u # t => tpc'[u] = tpc[u]
    BY <1>2, PopCommandStep
  <2>2. CopyCount' = CopyCount /\ Queueing' = Queueing
    BY <1>2, ThreadCall
  <2>3. (FileQueued(b)' <=> FileQueued(b)) /\ (FileWaits(b)' <=> FileWaits(b))
    BY <2>1, <2>2 DEF FileQueued, FileWaits, Newest
  <2>4. \A u \in Thread : tpc'[u] = "open" <=> tpc[u] = "open"
    BY <2>1
  <2> QED
    BY <2>1, <2>2, <2>3, <2>4, OwedFrame
<1> QED
  BY <1>1, <1>2

-----------------------------------------------------------------------------
(* The debt is what the shared queue holds. *)

(* A block owed as before keeps its place in the invariant. *)
LEMMA DebtFrame ==
  ASSUME TypeOK, DebtInv, UNCHANGED <<bulks, q_, file, unopened>>,
         \A b \in 1..Newest : Owed(b)' = Owed(b),
         \A b \in 1..Newest : FileQueued(b) => FileQueued(b)',
         \A b \in 1..Newest : FileQueued(b)' /\ ~FileQueued(b) => Owed(b) = bulks[b].size,
         \A b \in unopened : ~FileWaits(b)',
         \A t \in Thread : tpc'[t] = "open" => bulk'[t] \notin unopened
  PROVE  DebtInv'
<1>1. Newest' = Newest /\ \A s : BlocksOf(s)' = BlocksOf(s)
  BY DEF Newest, BlocksOf
<1>2. \A s \in Session : Debt(s)' = Debt(s)
  BY <1>1, DebtSame DEF BlocksOf
<1>3. \A s \in Session : IsFiniteSet(Debt(s))' /\ Cardinality(Debt(s))' = Len(q_'[s])
  BY <1>2 DEF DebtInv
<1>4. ASSUME NEW b \in 1..Newest
      PROVE  /\ Owed(b)' \in 0..bulks[b].size
             /\ IF FileQueued(b)' /\ b \notin unopened
                THEN Len(file[b]) + Owed(b)' = bulks[b].size
                ELSE file[b] = <<>>
  <2>1. /\ Owed(b) \in 0..bulks[b].size
        /\ IF FileQueued(b) /\ b \notin unopened
           THEN Len(file[b]) + Owed(b) = bulks[b].size
           ELSE file[b] = <<>>
    BY DEF DebtInv
  <2>2. CASE FileQueued(b)' /\ ~FileQueued(b)
    <3>1. Owed(b) = bulks[b].size /\ Len(file[b]) = 0 /\ bulks[b].size \in Nat
      BY <2>1, <2>2, BlockType
    <3>2. b \notin unopened
      BY <2>2 DEF DebtInv
    <3> QED
      BY <2>1, <2>2, <3>1, <3>2
  <2>3. CASE FileQueued(b)' <=> FileQueued(b)
    BY <2>1, <2>3
  <2> QED
    BY <2>2, <2>3
<1>5. \A b \in unopened : b \in 1..Newest /\ FileQueued(b)' /\ ~FileWaits(b)'
  BY DEF DebtInv
<1> QED
  BY <1>1, <1>3, <1>4, <1>5 DEF DebtInv

(* Steps that move no copied command.                                      *)
LEMMA DebtMoves ==
  ASSUME TypeOK, CallInv, LogInv, FileInv, DebtInv, TypeOK', FileInv',
         \/ Quiet \/ Push
         \/ \E t \in Thread : PopCommand(t) \/ PopFileCommand(t) \/ EndWrite(t)
  PROVE  DebtInv'
<1>1. CASE Quiet \/ \E t \in Thread : PopCommand(t)
  <2>1. \A b \in 1..Newest : Owed(b)' = Owed(b) /\ (FileWaits(b)' <=> FileWaits(b))
    BY <1>1, OwedOthers
  <2>2. /\ UNCHANGED <<bulks, q_, file, unopened, bulk>> /\ Queueing' = Queueing
        /\ \A t \in Thread : tpc'[t] = "open" => tpc[t] = "open"
    <3>1. CASE Quiet
      BY <3>1 DEF Quiet, outVars
    <3>2. ASSUME NEW t \in Thread, PopCommand(t)
          PROVE  /\ UNCHANGED <<bulks, q_, file, unopened, bulk>> /\ Queueing' = Queueing
                 /\ \A u \in Thread : tpc'[u] = "open" => tpc[u] = "open"
      BY <3>2, PopCommandStep, ThreadCall
    <3> QED
      BY <1>1, <3>1, <3>2
  <2>3. \A b \in 1..Newest : FileQueued(b)' <=> FileQueued(b)
    BY <2>2 DEF FileQueued, Newest
  <2> QED
    BY <2>1, <2>2, <2>3, DebtFrame DEF DebtInv
<1>2. CASE Push
  <2>1. \A b \in 1..Newest : Owed(b)' = Owed(b)
    BY <1>2, OwedPush
  <2>2. /\ UNCHANGED <<bulks, q_, file, unopened, bulk, tpc>> /\ Queueing
        /\ Newest' = Newest
    BY <1>2, PushStep DEF outVars, threadVars, Newest
  <2>3. \A b \in 1..Newest : FileQueued(b) => FileQueued(b)'
    BY <2>2 DEF FileQueued
  <2>4. \A b \in 1..Newest : /\ FileQueued(b)' /\ ~FileQueued(b) => Owed(b) = bulks[b].size
                             /\ FileQueued(b) => (FileWaits(b)' <=> FileWaits(b))
    BY <1>2, OwedPush
  <2>5. \A b \in unopened : ~FileWaits(b)'
    BY <2>4 DEF DebtInv
  <2>6. \A t \in Thread : tpc'[t] = "open" => bulk'[t] \notin unopened
    BY <2>2 DEF DebtInv
  <2> QED
    <3>1. \A b \in 1..Newest : FileQueued(b)' /\ ~FileQueued(b) => Owed(b) = bulks[b].size
      BY <2>4
    <3> QED
      BY <2>1, <2>2, <2>3, <2>5, <2>6, <3>1, DebtFrame
<1>3. ASSUME NEW t \in Thread, PopFileCommand(t) \/ EndWrite(t)
      PROVE  DebtInv'
  <2>1. UNCHANGED <<bulks, q_, file, unopened>> /\ Queueing' = Queueing
    BY <1>3, PopFileStep, EndWriteStep, ThreadCall DEF outVars
  <2>2. \A b \in 1..Newest : FileQueued(b)' <=> FileQueued(b)
    BY <2>1 DEF FileQueued, Newest
  <2>3. \A b \in 1..Newest : Owed(b)' = Owed(b) /\ (FileWaits(b)' => FileWaits(b))
    <3>1. CASE PopFileCommand(t)
      BY <3>1, OwedPop
    <3>2. CASE EndWrite(t)
      BY <3>2, OwedEndWrite, EndWriteStep DEF FileWaits
    <3> QED
      BY <1>3, <3>1, <3>2
  <2>4. ASSUME NEW u \in Thread, tpc'[u] = "open"
        PROVE  bulk'[u] \notin unopened
    <3>1. CASE PopFileCommand(t) /\ u = t
      <4>1. /\ t[1] \in Session /\ file_queue_[t[1]] \in Seq(Entry) /\ file_queue_[t[1]] # <<>>
            /\ bulk'[t] = file_queue_[t[1]][1].bulk
        BY <3>1, PopFileStep
      <4>2. 1 \in 1..Len(file_queue_[t[1]])
        BY <4>1, TailEntries
      <4>3. bulks[bulk'[t]].session = t[1]
        BY <4>1, <4>2 DEF FileInv, BlocksOf
      <4>4. FileWaits(bulk'[t])
        BY <4>1, <4>2, <4>3 DEF FileWaits
      <4> QED
        BY <3>1, <4>4 DEF DebtInv
    <3>2. CASE u # t \/ EndWrite(t)
      BY <1>3, <2>4, <3>2, PopFileStep, EndWriteStep DEF DebtInv
    <3> QED
      BY <1>3, <3>1, <3>2
  <2> QED
    BY <2>1, <2>2, <2>3, <2>4, DebtFrame DEF DebtInv
<1> QED
  BY <1>1, <1>2, <1>3

(* A file that is opened, or could not be.                                 *)
LEMMA DebtOpen ==
  ASSUME TypeOK, CallInv, FileInv, DebtInv, TypeOK', FileInv', NEW t \in Thread, Open(t)
  PROVE  DebtInv'
<1>1. /\ tpc[t] = "open" /\ tpc'[t] = "write" /\ bulk[t] \in 1..Newest
      /\ \A u \in Thread : u # t => tpc'[u] = tpc[u]
      /\ unopened' \in {unopened, unopened \union {bulk[t]}}
      /\ UNCHANGED <<bulks, file_queue_, q_, bulk, file>>
  BY OpenStep
<1>2. Newest' = Newest /\ Queueing' = Queueing
  BY ThreadCall
<1>3. /\ \A b : (FileQueued(b)' <=> FileQueued(b)) /\ (FileWaits(b)' <=> FileWaits(b))
      /\ \A s : BlocksOf(s)' = BlocksOf(s)
  BY <1>1, <1>2 DEF FileQueued, FileWaits, BlocksOf
<1>4. \A b \in 1..Newest : Owed(b)' = Owed(b)
  BY OwedOpen
<1>5. \A s \in Session : Debt(s)' = Debt(s)
  BY <1>3, <1>4, DebtSame DEF BlocksOf
<1>6. \A s \in Session : IsFiniteSet(Debt(s))' /\ Cardinality(Debt(s))' = Len(q_'[s])
  BY <1>1, <1>5 DEF DebtInv
<1>7. ASSUME NEW b \in 1..Newest
      PROVE  /\ Owed(b)' \in 0..bulks[b].size
             /\ IF FileQueued(b)' /\ b \notin unopened'
                THEN Len(file[b]) + Owed(b)' = bulks[b].size
                ELSE file[b] = <<>>
  <2>1. CASE b \in unopened' /\ b \notin unopened
    <3>1. b = bulk[t] /\ FileQueued(b) /\ Owed(b) = bulks[b].size
      BY <1>1, <2>1, OwedCases DEF OwedByPlace
    <3>2. Len(file[b]) + Owed(b) = bulks[b].size /\ bulks[b].size \in Nat /\ Len(file[b]) \in Nat
      BY <2>1, <3>1, BlockType, FileType DEF DebtInv
    <3>3. Len(file[b]) = 0 /\ file[b] \in Seq(Entry)
      BY <3>1, <3>2, FileType
    <3>4. file[b] = <<>>
      BY <3>3, EmptySeq
    <3> QED
      BY <1>4, <2>1, <3>4 DEF DebtInv
  <2>2. CASE b \in unopened' <=> b \in unopened
    BY <1>3, <1>4, <2>2 DEF DebtInv
  <2> QED
    BY <1>1, <2>1, <2>2
<1>8. \A b \in unopened' : b \in 1..Newest /\ FileQueued(b)' /\ ~FileWaits(b)'
  <2>1. FileQueued(bulk[t]) /\ ~FileWaits(bulk[t])
    BY <1>1, OwedCases DEF OwedByPlace
  <2> QED
    BY <1>1, <1>3, <2>1 DEF DebtInv
<1>9. \A u \in Thread : tpc'[u] = "open" => bulk'[u] \notin unopened'
  BY <1>1 DEF DebtInv, FileInv
<1> QED
  BY <1>1, <1>2, <1>6, <1>7, <1>8, <1>9 DEF DebtInv

(* A new block is owed nothing yet. *)
LEMMA DebtExecute ==
  ASSUME TypeOK, CallInv, FileInv, DebtInv, TypeOK', FileInv',
         NEW s \in Session, NEW n \in Size, Execute(s, n)
  PROVE  DebtInv'
<1>1. /\ \A b \in 1..Newest : FileQueued(b)' /\ FileQueued(b)
      /\ ~FileQueued(Newest)' /\ CopyCount' = 0
      /\ \A r \in Session : /\ BlocksOf(r) \subseteq BlocksOf(r)'
                            /\ BlocksOf(r)' \subseteq BlocksOf(r) \union {Newest'}
      /\ UNCHANGED <<file_queue_, q_, tpc, bulk, left, unopened>>
  BY ExecuteStep DEF threadVars
<1>2. /\ Newest \in Nat /\ Newest' = Newest + 1 /\ Newest' \in 1..Newest'
      /\ \A b \in 1..Newest : bulks'[b] = bulks[b] /\ file'[b] = file[b] /\ b \in 1..Newest'
      /\ \A b \in 1..Newest' : b \in 1..Newest \/ b = Newest'
      /\ file'[Newest'] = <<>> /\ bulks'[Newest'] = [session |-> s, size |-> n]
  BY ExecuteCall
<1>3. \A b \in 1..Newest : FileWaits(b)' <=> FileWaits(b)
  BY <1>1, <1>2 DEF FileWaits
<1>4. \A b \in 1..Newest : Owed(b)' = Owed(b)
  BY <1>1, <1>2, <1>3, OwedKept
<1>5. Owed(Newest)' = 0
  BY <1>1, <1>2, OwedCasesNext DEF OwedByPlace
<1>6. ASSUME NEW r \in Session
      PROVE  Debt(r)' = Debt(r)
  <2>1. ASSUME NEW b, NEW i
        PROVE  <<b, i>> \in Debt(r)' <=> <<b, i>> \in Debt(r)
    <3>1. <<b, i>> \in Debt(r) <=> b \in BlocksOf(r) /\ i \in 1..Owed(b)
      BY DebtEntries
    <3>2. <<b, i>> \in Debt(r)' <=> b \in BlocksOf(r)' /\ i \in 1..Owed(b)'
      BY DebtEntriesNext
    <3>3. CASE b \in BlocksOf(r)
      BY <1>1, <1>4, <3>1, <3>2, <3>3 DEF BlocksOf
    <3>4. CASE b \notin BlocksOf(r)
      <4>1. b \in BlocksOf(r)' => Owed(b)' = 0
        BY <1>1, <1>5, <3>4
      <4> QED
        BY <3>1, <3>2, <3>4, <4>1
    <3> QED
      BY <3>3, <3>4
  <2>2. (\A e \in Debt(r) : e = <<e[1], e[2]>>) /\ \A e \in Debt(r)' : e = <<e[1], e[2]>>
    BY DebtEntries, DebtEntriesNext
  <2>3. Debt(r)' \subseteq Debt(r)
    BY <2>1, <2>2
  <2>4. Debt(r) \subseteq Debt(r)'
    BY <2>1, <2>2
  <2> QED
    BY <2>3, <2>4
<1>7. \A r \in Session : IsFiniteSet(Debt(r))' /\ Cardinality(Debt(r))' = Len(q_'[r])
  BY <1>1, <1>6 DEF DebtInv
<1>8. ASSUME NEW b \in 1..Newest'
      PROVE  /\ Owed(b)' \in 0..bulks'[b].size
             /\ IF FileQueued(b)' /\ b \notin unopened'
                THEN Len(file'[b]) + Owed(b)' = bulks'[b].size
                ELSE file'[b] = <<>>
  <2>1. CASE b \in 1..Newest
    <3>1. /\ Owed(b) \in 0..bulks[b].size
          /\ IF FileQueued(b) /\ b \notin unopened
             THEN Len(file[b]) + Owed(b) = bulks[b].size
             ELSE file[b] = <<>>
      BY <2>1 DEF DebtInv
    <3>2. /\ Owed(b)' = Owed(b) /\ bulks'[b] = bulks[b] /\ file'[b] = file[b]
          /\ FileQueued(b)' /\ FileQueued(b) /\ unopened' = unopened
      BY <1>1, <1>2, <1>4, <2>1
    <3> QED
      BY <3>1, <3>2
  <2>2. CASE b = Newest'
    <3>1. bulks'[b].size \in Nat
      BY <1>2, <2>2, SizeAssumption
    <3> QED
      BY <1>1, <1>2, <1>5, <2>2, <3>1
  <2> QED
    BY <1>2, <2>1, <2>2
<1>9. \A b \in unopened' : b \in 1..Newest' /\ FileQueued(b)' /\ ~FileWaits(b)'
  BY <1>1, <1>2, <1>3 DEF DebtInv
<1>10. \A u \in Thread : tpc'[u] = "open" => bulk'[u] \notin unopened'
  BY <1>1 DEF DebtInv
<1> QED
  BY <1>7, <1>8, <1>9, <1>10 DEF DebtInv

(* One command more is owed to the newest block. *)
LEMMA OwedCopy ==
  ASSUME TypeOK, CallInv, FileInv, TypeOK', FileInv', Copy, NEW b \in 1..Newest
  PROVE  /\ b = Newest => Owed(b) = pos /\ Owed(b)' = pos + 1 /\ ~FileQueued(b)
         /\ b # Newest => Owed(b)' = Owed(b)
         /\ (FileQueued(b)' <=> FileQueued(b)) /\ (FileWaits(b)' <=> FileWaits(b))
<1>1. /\ Newest \in 1..Newest /\ CopyCount = pos /\ CopyCount' = pos + 1 /\ Queueing /\ Queueing'
      /\ UNCHANGED <<bulks, file_queue_, tpc, bulk, left>>
  BY CopyStep DEF threadVars
<1>2. Newest' = Newest /\ Newest \in Nat
  BY <1>1 DEF Newest
<1>3. (FileQueued(b)' <=> FileQueued(b)) /\ (FileWaits(b)' <=> FileWaits(b))
  BY <1>1, <1>2 DEF FileQueued, FileWaits
<1>4. CASE b = Newest
  <2>1. ~FileQueued(b) /\ ~FileQueued(b)'
    BY <1>1, <1>2, <1>4 DEF FileQueued
  <2>2. Owed(b) = pos
    BY <1>1, <2>1, OwedCases DEF OwedByPlace
  <2>3. Owed(b)' = pos + 1
    BY <1>1, <1>2, <2>1, OwedCasesNext DEF OwedByPlace
  <2> QED
    BY <1>3, <1>4, <2>1, <2>2, <2>3
<1>5. CASE b # Newest
  <2>1. FileQueued(b)
    BY <1>2, <1>5 DEF FileQueued
  <2> QED
    BY <1>1, <1>3, <1>5, <2>1, OwedFrame
<1> QED
  BY <1>4, <1>5

(* A copied command is one more in the queue and one more that is owed.    *)
LEMMA DebtCopy ==
  ASSUME TypeOK, CallInv, FileInv, DebtInv, TypeOK', FileInv', Copy
  PROVE  DebtInv'
<1> PICK s0, n0, e0 : s0 = session /\ n0 = Newest /\ e0 = Command(Newest, pos + 1)
  OBVIOUS
<1> PICK p : p = <<Newest, pos + 1>>
  OBVIOUS
<1> DEFINE q == q_[s0]
<1>1. /\ s0 \in Session /\ n0 \in 1..Newest /\ bulks[n0].session = s0
      /\ e0 \in Entry /\ pos + 1 \in 1..bulks[n0].size
      /\ q_'[s0] = Append(q, e0)
      /\ \A s \in Session : s # s0 => q_'[s] = q_[s]
      /\ UNCHANGED <<bulks, file, unopened, tpc, bulk>>
  BY CopyStep DEF threadVars, outVars
<1>2. \A b \in 1..Newest :
        /\ b = n0 => Owed(b) = pos /\ Owed(b)' = pos + 1 /\ ~FileQueued(b)
        /\ b # n0 => Owed(b)' = Owed(b)
        /\ (FileQueued(b)' <=> FileQueued(b)) /\ (FileWaits(b)' <=> FileWaits(b))
  BY OwedCopy
<1>3. Len(q_'[s0]) = Len(q) + 1 /\ Len(q) \in Nat /\ pos \in Nat
  <2>1. q \in Seq(Entry)
    BY <1>1 DEF TypeOK
  <2> QED
    BY <1>1, <2>1, AppendEntries DEF TypeOK
<1>4. Newest' = Newest /\ \A s : BlocksOf(s)' = BlocksOf(s)
  BY <1>1 DEF Newest, BlocksOf
<1>5. ASSUME NEW s \in Session, s # s0
      PROVE  Debt(s)' = Debt(s)
  <2>1. \A b \in BlocksOf(s) : b \in 1..Newest /\ b # n0
    BY <1>1, <1>5 DEF BlocksOf
  <2> QED
    BY <1>2, <1>4, <2>1, DebtSame
<1>6. Debt(s0)' = Debt(s0) \union {p} /\ p \notin Debt(s0)
  <2>1. ASSUME NEW b, NEW i
        PROVE  <<b, i>> \in Debt(s0)' <=> <<b, i>> \in Debt(s0) \/ <<b, i>> = p
    <3>1. <<b, i>> \in Debt(s0) <=> b \in BlocksOf(s0) /\ i \in 1..Owed(b)
      BY DebtEntries
    <3>2. <<b, i>> \in Debt(s0)' <=> b \in BlocksOf(s0) /\ i \in 1..Owed(b)'
      BY <1>4, DebtEntriesNext
    <3>3. <<b, i>> = p <=> b = n0 /\ i = pos + 1
      OBVIOUS
    <3>4. CASE b = n0
      <4>1. b \in BlocksOf(s0) /\ Owed(b) = pos /\ Owed(b)' = pos + 1
        BY <1>1, <1>2, <3>4 DEF BlocksOf
      <4>2. i \in 1..(pos + 1) <=> i \in 1..pos \/ i = pos + 1
        BY <1>3
      <4> QED
        BY <3>1, <3>2, <3>3, <3>4, <4>1, <4>2
    <3>5. CASE b # n0
      <4>1. b \in BlocksOf(s0) => Owed(b)' = Owed(b)
        BY <1>2, <3>5 DEF BlocksOf
      <4> QED
        BY <3>1, <3>2, <3>3, <3>5, <4>1
    <3> QED
      BY <3>4, <3>5
  <2>2. (\A e \in Debt(s0) : e = <<e[1], e[2]>>) /\ \A e \in Debt(s0)' : e = <<e[1], e[2]>>
    BY DebtEntries, DebtEntriesNext
  <2>3. Debt(s0)' \subseteq Debt(s0) \union {p}
    BY <2>1, <2>2
  <2>4. Debt(s0) \union {p} \subseteq Debt(s0)'
    BY <2>1, <2>2
  <2>5. p \notin Debt(s0)
    <3>1. p \in Debt(s0) <=> n0 \in BlocksOf(s0) /\ pos + 1 \in 1..Owed(n0)
      BY DebtEntries
    <3> QED
      BY <1>1, <1>2, <1>3, <3>1
  <2> QED
    BY <2>3, <2>4, <2>5
<1>7. ASSUME NEW s \in Session
      PROVE  IsFiniteSet(Debt(s))' /\ Cardinality(Debt(s))' = Len(q_'[s])
  <2>1. IsFiniteSet(Debt(s)) /\ Cardinality(Debt(s)) = Len(q_[s])
    BY DEF DebtInv
  <2>2. CASE s = s0
    <3>1. IsFiniteSet(Debt(s) \union {p}) /\ Cardinality(Debt(s) \union {p}) = Cardinality(Debt(s)) + 1
      BY <1>6, <2>1, <2>2, FS_AddElement
    <3> QED
      BY <1>3, <1>6, <2>1, <2>2, <3>1
  <2>3. CASE s # s0
    BY <1>1, <1>5, <2>1, <2>3
  <2> QED
    BY <2>2, <2>3
<1>8. ASSUME NEW b \in 1..Newest
      PROVE  /\ Owed(b)' \in 0..bulks[b].size
             /\ IF FileQueued(b)' /\ b \notin unopened
                THEN Len(file[b]) + Owed(b)' = bulks[b].size
                ELSE file[b] = <<>>
  <2>1. /\ Owed(b) \in 0..bulks[b].size
        /\ IF FileQueued(b) /\ b \notin unopened
           THEN Len(file[b]) + Owed(b) = bulks[b].size
           ELSE file[b] = <<>>
    BY DEF DebtInv
  <2>2. CASE b = n0
    BY <1>1, <1>2, <1>3, <2>1, <2>2
  <2>3. CASE b # n0
    BY <1>2, <2>1, <2>3
  <2> QED
    BY <2>2, <2>3
<1>9. \A b \in unopened : b \in 1..Newest /\ FileQueued(b)' /\ ~FileWaits(b)'
  BY <1>2 DEF DebtInv
<1> QED
  BY <1>1, <1>4, <1>7, <1>8, <1>9 DEF DebtInv

(* One command less is owed to the block whose file is written. *)
LEMMA OwedWrite ==
  ASSUME TypeOK, CallInv, FileInv, TypeOK', FileInv', NEW t \in Thread, Write(t), NEW b \in 1..Newest
  PROVE  /\ b = bulk[t] => Owed(b) = left[t] /\ Owed(b)' = left[t] - 1 /\ FileQueued(b)
         /\ b # bulk[t] => Owed(b)' = Owed(b)
         /\ (FileQueued(b)' <=> FileQueued(b)) /\ (FileWaits(b)' <=> FileWaits(b))
<1>1. /\ tpc[t] = "write" /\ left'[t] = left[t] - 1
      /\ \A u \in Thread : u # t => left'[u] = left[u]
      /\ UNCHANGED <<bulks, file_queue_, tpc, bulk>>
  BY WriteStep
<1>2. CopyCount' = CopyCount /\ Queueing' = Queueing /\ Newest' = Newest
  BY ThreadCall
<1>3. (FileQueued(b)' <=> FileQueued(b)) /\ (FileWaits(b)' <=> FileWaits(b))
  BY <1>1, <1>2 DEF FileQueued, FileWaits
<1>4. CASE b = bulk[t]
  <2>1. Owed(b) = left[t] /\ FileQueued(b)
    BY <1>1, <1>4, OwedCases DEF OwedByPlace
  <2>2. Owed(b)' = left[t] - 1
    BY <1>1, <1>2, <1>4, OwedCasesNext DEF OwedByPlace
  <2> QED
    BY <1>3, <1>4, <2>1, <2>2
<1>5. CASE b # bulk[t]
  BY <1>1, <1>2, <1>3, <1>5, OwedFrame
<1> QED
  BY <1>4, <1>5

(* A written command is one less in the queue and one less that is owed.   *)
LEMMA DebtWrite ==
  ASSUME TypeOK, CallInv, FileInv, DebtInv, TypeOK', FileInv', NEW t \in Thread, Write(t)
  PROVE  DebtInv'
<1> PICK s0, b0, n0, h : s0 = t[1] /\ b0 = bulk[t] /\ n0 = left[t] /\ h = q_[t[1]][1]
  OBVIOUS
<1> PICK p : p = <<b0, n0>>
  OBVIOUS
<1> DEFINE q == q_[s0]
<1>1. /\ s0 \in Session /\ b0 \in BlocksOf(s0) /\ b0 \in 1..Newest /\ bulks[b0].session = s0
      /\ q \in Seq(Entry) /\ q # <<>> /\ q_'[s0] = Tail(q)
      /\ \A s \in Session : s # s0 => q_'[s] = q_[s]
      /\ \A b \in 1..Newest : b # b0 => file'[b] = file[b]
      /\ file'[b0] = IF b0 \in unopened THEN file[b0] ELSE Append(file[b0], h)
      /\ n0 \in Nat \ {0}
      /\ UNCHANGED <<bulks, unopened, tpc, bulk>>
  BY WriteStep
<1>2. \A b \in 1..Newest :
        /\ b = b0 => Owed(b) = n0 /\ Owed(b)' = n0 - 1 /\ FileQueued(b)
        /\ b # b0 => Owed(b)' = Owed(b)
        /\ (FileQueued(b)' <=> FileQueued(b)) /\ (FileWaits(b)' <=> FileWaits(b))
  BY OwedWrite
<1>3. Len(q_'[s0]) = Len(q) - 1 /\ Len(q) \in Nat /\ h \in Entry
  BY <1>1, TailEntries
<1>4. Newest' = Newest /\ \A s : BlocksOf(s)' = BlocksOf(s)
  BY <1>1 DEF Newest, BlocksOf
<1>5. ASSUME NEW s \in Session, s # s0
      PROVE  Debt(s)' = Debt(s)
  <2>1. \A b \in BlocksOf(s) : b \in 1..Newest /\ b # b0
    BY <1>1, <1>5 DEF BlocksOf
  <2> QED
    BY <1>2, <1>4, <2>1, DebtSame
<1>6. Debt(s0)' = Debt(s0) \ {p} /\ p \in Debt(s0)
  <2>1. ASSUME NEW b, NEW i
        PROVE  <<b, i>> \in Debt(s0)' <=> <<b, i>> \in Debt(s0) /\ <<b, i>> # p
    <3>1. <<b, i>> \in Debt(s0) <=> b \in BlocksOf(s0) /\ i \in 1..Owed(b)
      BY DebtEntries
    <3>2. <<b, i>> \in Debt(s0)' <=> b \in BlocksOf(s0) /\ i \in 1..Owed(b)'
      BY <1>4, DebtEntriesNext
    <3>3. <<b, i>> = p <=> b = b0 /\ i = n0
      OBVIOUS
    <3>4. CASE b = b0
      <4>1. b \in BlocksOf(s0) /\ Owed(b) = n0 /\ Owed(b)' = n0 - 1
        BY <1>1, <1>2, <3>4
      <4>2. i \in 1..(n0 - 1) <=> i \in 1..n0 /\ i # n0
        BY <1>1
      <4> QED
        BY <3>1, <3>2, <3>3, <3>4, <4>1, <4>2
    <3>5. CASE b # b0
      <4>1. b \in BlocksOf(s0) => Owed(b)' = Owed(b)
        BY <1>2, <3>5 DEF BlocksOf
      <4> QED
        BY <3>1, <3>2, <3>3, <3>5, <4>1
    <3> QED
      BY <3>4, <3>5
  <2>2. (\A e \in Debt(s0) : e = <<e[1], e[2]>>) /\ \A e \in Debt(s0)' : e = <<e[1], e[2]>>
    BY DebtEntries, DebtEntriesNext
  <2>3. Debt(s0)' \subseteq Debt(s0) \ {p}
    BY <2>1, <2>2
  <2>4. Debt(s0) \ {p} \subseteq Debt(s0)'
    BY <2>1, <2>2
  <2>5. p \in Debt(s0)
    <3>1. p \in Debt(s0) <=> b0 \in BlocksOf(s0) /\ n0 \in 1..Owed(b0)
      BY DebtEntries
    <3> QED
      BY <1>1, <1>2, <3>1
  <2> QED
    BY <2>3, <2>4, <2>5
<1>7. ASSUME NEW s \in Session
      PROVE  IsFiniteSet(Debt(s))' /\ Cardinality(Debt(s))' = Len(q_'[s])
  <2>1. IsFiniteSet(Debt(s)) /\ Cardinality(Debt(s)) = Len(q_[s])
    BY DEF DebtInv
  <2>2. CASE s = s0
    <3>1. IsFiniteSet(Debt(s) \ {p}) /\ Cardinality(Debt(s) \ {p}) = Cardinality(Debt(s)) - 1
      BY <1>6, <2>1, <2>2, FS_RemoveElement
    <3> QED
      BY <1>3, <1>6, <2>1, <2>2, <3>1
  <2>3. CASE s # s0
    BY <1>1, <1>5, <2>1, <2>3
  <2> QED
    BY <2>2, <2>3
<1>8. ASSUME NEW b \in 1..Newest
      PROVE  /\ Owed(b)' \in 0..bulks[b].size
             /\ IF FileQueued(b)' /\ b \notin unopened
                THEN Len(file'[b]) + Owed(b)' = bulks[b].size
                ELSE file'[b] = <<>>
  <2>1. /\ Owed(b) \in 0..bulks[b].size
        /\ IF FileQueued(b) /\ b \notin unopened
           THEN Len(file[b]) + Owed(b) = bulks[b].size
           ELSE file[b] = <<>>
    BY DEF DebtInv
  <2>2. CASE b = b0
    <3>1. bulks[b].size \in Nat /\ Len(file[b]) \in Nat /\ file[b] \in Seq(Entry)
      BY BlockType, FileType
    <3>2. CASE b \in unopened
      BY <1>1, <1>2, <2>1, <2>2, <3>1, <3>2
    <3>3. CASE b \notin unopened
      <4>1. file'[b] = Append(file[b], h)
        BY <1>1, <2>2, <3>3
      <4>2. Len(file'[b]) = Len(file[b]) + 1
        BY <1>3, <3>1, <4>1, AppendEntries
      <4>3. Owed(b) = n0 /\ Owed(b)' = n0 - 1 /\ FileQueued(b) /\ FileQueued(b)'
        BY <1>2, <2>2
      <4>4. Len(file[b]) + n0 = bulks[b].size
        BY <2>1, <3>3, <4>3
      <4>5. n0 \in Nat \ {0}
        BY <1>1
      <4>6. n0 - 1 \in 0..bulks[b].size /\ Len(file'[b]) + (n0 - 1) = bulks[b].size
        BY <3>1, <4>2, <4>4, <4>5, SMTT(30)
      <4> QED
        BY <3>3, <4>3, <4>6
    <3> QED
      BY <3>2, <3>3
  <2>3. CASE b # b0
    BY <1>1, <1>2, <2>1, <2>3
  <2> QED
    BY <2>2, <2>3
<1>9. \A b \in unopened : b \in 1..Newest /\ FileQueued(b)' /\ ~FileWaits(b)'
  BY <1>2 DEF DebtInv
<1> QED
  BY <1>1, <1>4, <1>7, <1>8, <1>9 DEF DebtInv

(* Every step keeps the queue as long as the debt.                         *)
LEMMA NextDebt ==
  ASSUME TypeOK, CallInv, LogInv, FileInv, DebtInv, TypeOK', FileInv', [Next]_vars
  PROVE  DebtInv'
  BY Steps, DebtMoves, DebtOpen, DebtExecute, DebtCopy, DebtWrite

-----------------------------------------------------------------------------
(* With one file thread what is owed to a block are its own commands. *)

(* The commands of a block are copied before its file command is queued. *)
LEMMA QueuedIsCopied ==
  ASSUME TypeOK, CallInv, NEW b \in 1..Newest, FileQueued(b), NEW i \in 1..bulks[b].size
  PROVE  CopyMade(Command(b, i))
<1>1. b < Newest \/ (b = Newest /\ ~Queueing)
  BY BlockType DEF FileQueued
<1>2. ~Queueing => CopyCount = bulks[Newest].size
  BY DEF Queueing, CopyCount, CallInv, LogWorker, FileProvider
<1>3. i <= bulks[b].size
  BY BlockType
<1> QED
  BY <1>1, <1>2, <1>3 DEF CopyMade, IsCommand, Command

(* A step that writes and copies nothing keeps what the queue holds. *)
LEMMA HoldFrame ==
  ASSUME TypeOK, CopyInv, HoldInv, thread_count = 2, UNCHANGED <<bulks, q_, file>>,
         CopyCount' = CopyCount,
         \A b \in 1..Newest : Owed(b)' = Owed(b),
         \A b \in 1..Newest : FileQueued(b) => FileQueued(b)',
         \A b \in 1..Newest : FileQueued(b)' /\ ~FileQueued(b) => Owed(b) = bulks[b].size
  PROVE  HoldInv'
<1>1. Newest' = Newest /\ \A s : BlocksOf(s)' = BlocksOf(s)
  BY DEF Newest, BlocksOf
<1>2. \A e : CopyMade(e)' <=> CopyMade(e)
  BY <1>1 DEF CopyMade, IsCommand
<1>3. ASSUME NEW e, CopyMade(e)
      PROVE  Unwritten(e)' <=> Unwritten(e)
  <2>1. e.bulk \in 1..Newest /\ e.cmd \in 1..bulks[e.bulk].size
    BY <1>3 DEF CopyMade, IsCommand
  <2>2. bulks[e.bulk].size \in Nat
    BY <2>1, BlockType
  <2>3. CASE FileQueued(e.bulk)' <=> FileQueued(e.bulk)
    BY <1>2, <1>3, <2>1, <2>3 DEF Unwritten
  <2>4. CASE FileQueued(e.bulk)' /\ ~FileQueued(e.bulk)
    <3>1. Owed(e.bulk)' = bulks[e.bulk].size
      BY <2>1, <2>4
    <3>2. e.cmd > bulks[e.bulk].size - bulks[e.bulk].size
      BY <2>1, <2>2
    <3> QED
      BY <1>2, <1>3, <2>4, <3>1, <3>2 DEF Unwritten
  <2> QED
    BY <2>1, <2>3, <2>4
<1>4. \A e : Unwritten(e)' <=> Unwritten(e)
  BY <1>2, <1>3 DEF Unwritten
<1>5. \A s \in Session : \A k \in 1..Len(q_[s]) : Unwritten(q_[s][k])'
  BY <1>4 DEF HoldInv
<1>6. \A s \in Session : \A b \in BlocksOf(s) : \A i \in 1..bulks[b].size :
        Unwritten(Command(b, i))' => In(Command(b, i), q_[s])
  BY <1>4 DEF HoldInv
<1>7. \A b \in 1..Newest : \A i \in 1..Len(file[b]) : file[b][i] = Command(b, i)
  BY DEF HoldInv
<1> QED
  BY <1>1, <1>5, <1>6, <1>7 DEF HoldInv, In, Command

(* Steps that move no copied command.                                      *)
LEMMA HoldMoves ==
  ASSUME TypeOK, CallInv, LogInv, FileInv, CopyInv, DebtInv, HoldInv, TypeOK', FileInv',
         thread_count = 2,
         \/ Quiet \/ Push
         \/ \E t \in Thread : PopCommand(t) \/ PopFileCommand(t) \/ Open(t) \/ EndWrite(t)
  PROVE  HoldInv'
<1>1. CASE Push
  <2>1. /\ \A b \in 1..Newest : Owed(b)' = Owed(b)
        /\ \A b \in 1..Newest : FileQueued(b)' /\ ~FileQueued(b) => Owed(b) = bulks[b].size
    BY <1>1, OwedPush
  <2>2. UNCHANGED <<bulks, q_, file>> /\ CopyCount' = CopyCount /\ Newest' = Newest /\ Queueing
    BY <1>1, PushStep DEF outVars, Newest
  <2>3. \A b \in 1..Newest : FileQueued(b) => FileQueued(b)'
    BY <2>2 DEF FileQueued
  <2> QED
    BY <2>1, <2>2, <2>3, HoldFrame
<1>2. CASE ~Push
  <2>1. UNCHANGED <<bulks, q_, file>> /\ CopyCount' = CopyCount /\ Queueing' = Queueing
    <3>1. CASE Quiet
      BY <3>1 DEF Quiet, outVars
    <3>2. ASSUME NEW t \in Thread, PopCommand(t) \/ PopFileCommand(t) \/ Open(t) \/ EndWrite(t)
          PROVE  UNCHANGED <<bulks, q_, file>> /\ CopyCount' = CopyCount /\ Queueing' = Queueing
      <4>1. UNCHANGED <<bulks, q_, file>>
        BY <3>2, PopCommandStep, PopFileStep, OpenStep, EndWriteStep DEF outVars
      <4>2. CopyCount' = CopyCount /\ Queueing' = Queueing
        BY <3>2, ThreadCall
      <4> QED
        BY <4>1, <4>2
    <3> QED
      BY <1>2, <3>1, <3>2
  <2>2. \A b \in 1..Newest : FileQueued(b)' <=> FileQueued(b)
    BY <2>1 DEF FileQueued, Newest
  <2>3. \A b \in 1..Newest : Owed(b)' = Owed(b)
    BY <1>2, OwedOthers, OwedPop, OwedOpen, OwedEndWrite
  <2> QED
    BY <2>1, <2>2, <2>3, HoldFrame
<1> QED
  BY <1>1, <1>2

(* A new block has no file and no copies.                                  *)
LEMMA HoldExecute ==
  ASSUME TypeOK, CallInv, FileInv, HoldInv, TypeOK', FileInv', thread_count = 2,
         NEW s \in Session, NEW n \in Size, Execute(s, n)
  PROVE  HoldInv'
<1>1. /\ \A e : CopyMade(e)' <=> CopyMade(e)
      /\ \A b \in 1..Newest : FileQueued(b)' /\ FileQueued(b)
      /\ \A r \in Session : BlocksOf(r)' \subseteq BlocksOf(r) \union {Newest'}
      /\ UNCHANGED <<file_queue_, q_, tpc, bulk, left>>
  BY ExecuteStep DEF threadVars
<1>2. /\ Newest \in Nat /\ Newest' = Newest + 1
      /\ \A b \in 1..Newest : bulks'[b] = bulks[b] /\ file'[b] = file[b] /\ b \in 1..Newest'
      /\ \A b \in 1..Newest' : b \in 1..Newest \/ b = Newest'
      /\ file'[Newest'] = <<>>
  BY ExecuteCall
<1>3. \A b \in 1..Newest : Owed(b)' = Owed(b)
  <2>1. \A b \in 1..Newest : FileWaits(b)' <=> FileWaits(b)
    BY <1>1, <1>2 DEF FileWaits
  <2> QED
    BY <1>1, <1>2, <2>1, OwedKept
<1>4. \A e : CopyMade(e) => e.bulk \in 1..Newest
  BY DEF CopyMade, IsCommand
<1>5. \A e : Unwritten(e)' <=> Unwritten(e)
  BY <1>1, <1>2, <1>3, <1>4 DEF Unwritten
<1>6. \A r \in Session : \A k \in 1..Len(q_[r]) : Unwritten(q_[r][k])'
  BY <1>1, <1>5 DEF HoldInv
<1>7. ASSUME NEW r \in Session, NEW b \in BlocksOf(r)', NEW i \in 1..(bulks[b].size)',
             Unwritten(Command(b, i))'
      PROVE  In(Command(b, i), q_[r])
  <2>1. Unwritten(Command(b, i))
    BY <1>5, <1>7
  <2>2. b \in 1..Newest
    BY <1>4, <2>1 DEF Unwritten, Command
  <2>3. b \in BlocksOf(r) /\ i \in 1..bulks[b].size
    BY <1>1, <1>2, <2>2
  <2> QED
    BY <2>1, <2>3 DEF HoldInv
<1>8. ASSUME NEW b \in 1..Newest', NEW i \in 1..Len(file'[b])
      PROVE  file'[b][i] = Command(b, i)
  <2>1. CASE b \in 1..Newest
    BY <1>2, <1>8, <2>1 DEF HoldInv
  <2>2. CASE b = Newest'
    BY <1>2, <1>8, <2>2
  <2> QED
    BY <1>2, <2>1, <2>2
<1> QED
  BY <1>1, <1>6, <1>7, <1>8 DEF HoldInv, In, Command

(* The command copied is the newest one and is not written yet. *)
LEMMA HoldCopy ==
  ASSUME TypeOK, CallInv, FileInv, CopyInv, HoldInv, TypeOK', FileInv', thread_count = 2, Copy
  PROVE  HoldInv'
<1> PICK s0, n0, e0 : s0 = session /\ n0 = Newest /\ e0 = Command(Newest, pos + 1)
  OBVIOUS
<1> DEFINE q == q_[s0]
           r == q_'[s0]
<1>1. /\ s0 \in Session /\ n0 \in 1..Newest /\ bulks[n0].session = s0
      /\ e0 \in Entry /\ pos + 1 \in 1..bulks[n0].size /\ r = Append(q, e0)
      /\ \A s \in Session : s # s0 => q_'[s] = q_[s]
      /\ CopyCount = pos /\ CopyCount' = pos + 1
      /\ UNCHANGED <<bulks, file>>
  BY CopyStep DEF outVars
<1>2. \A b \in 1..Newest :
        /\ b = n0 => ~FileQueued(b)
        /\ b # n0 => Owed(b)' = Owed(b)
        /\ FileQueued(b)' <=> FileQueued(b)
  BY OwedCopy
<1>3. /\ r \in Seq(Entry) /\ Len(q) \in Nat /\ Len(r) = Len(q) + 1
      /\ r[Len(q) + 1] = e0 /\ Len(q) + 1 \in 1..Len(r)
      /\ \A k \in 1..Len(q) : r[k] = q[k] /\ k \in 1..Len(r)
      /\ \A k \in 1..Len(r) : k \in 1..Len(q) \/ k = Len(q) + 1
  <2>1. q \in Seq(Entry)
    BY <1>1 DEF TypeOK
  <2> QED
    BY <1>1, <2>1, AppendEntries
<1>4. /\ Newest' = Newest /\ Newest \in Nat /\ pos \in Nat
      /\ \A s : BlocksOf(s)' = BlocksOf(s)
  BY <1>1 DEF Newest, BlocksOf, TypeOK
<1>5. ASSUME NEW e, CopyMade(e)
      PROVE  CopyMade(e)'
  <2>1. e.bulk \in 1..Newest /\ e.cmd \in 1..bulks[e.bulk].size /\ (e.bulk < Newest \/ e.cmd <= pos)
    BY <1>1, <1>5 DEF CopyMade, IsCommand
  <2>2. bulks[e.bulk].size \in Nat
    BY <2>1, BlockType
  <2> QED
    BY <1>1, <1>4, <2>1, <2>2 DEF CopyMade, IsCommand
<1>6. ASSUME NEW b \in 1..Newest, NEW i \in 1..bulks[b].size, CopyMade(Command(b, i))'
      PROVE  CopyMade(Command(b, i)) \/ Command(b, i) = e0
  <2>1. i \in Nat /\ b \in Nat
    BY BlockType
  <2>2. b < Newest \/ i <= pos + 1
    BY <1>1, <1>4, <1>6 DEF CopyMade, Command
  <2>3. CASE b < Newest \/ i <= pos
    BY <1>1, <2>3 DEF CopyMade, IsCommand, Command
  <2>4. CASE ~(b < Newest \/ i <= pos)
    <3>1. b = Newest /\ i = pos + 1
      BY <1>4, <2>1, <2>2, <2>4
    <3> QED
      BY <3>1
  <2> QED
    BY <2>3, <2>4
<1>7. ASSUME NEW e, Unwritten(e)
      PROVE  Unwritten(e)'
  <2>1. CopyMade(e) /\ CopyMade(e)' /\ e.bulk \in 1..Newest
    BY <1>5, <1>7 DEF Unwritten, CopyMade, IsCommand
  <2> QED
    BY <1>1, <1>2, <1>7, <2>1 DEF Unwritten
<1>8. Unwritten(e0)'
  <2>1. e0.bulk = n0 /\ e0.cmd = pos + 1
    BY DEF Command
  <2>2. CopyMade(e0)' /\ ~FileQueued(e0.bulk)'
    BY <1>1, <1>2, <1>4, <2>1 DEF CopyMade, IsCommand
  <2> QED
    BY <2>2 DEF Unwritten
<1>9. ASSUME NEW s \in Session, NEW k \in 1..Len(q_'[s])
      PROVE  Unwritten(q_[s][k])'
  <2>1. CASE s # s0
    <3>1. q_'[s] = q_[s] /\ Unwritten(q_[s][k])
      BY <1>1, <1>9, <2>1 DEF HoldInv
    <3> QED
      BY <1>7, <3>1
  <2>2. CASE s = s0 /\ k \in 1..Len(q)
    <3>1. Unwritten(q_[s][k]) /\ q_'[s][k] = q_[s][k]
      BY <1>1, <1>3, <2>2 DEF HoldInv
    <3> QED
      BY <1>7, <3>1
  <2>3. CASE s = s0 /\ k = Len(q) + 1
    BY <1>3, <1>8, <2>3
  <2> QED
    BY <1>3, <1>9, <2>1, <2>2, <2>3
<1>10. ASSUME NEW s \in Session, NEW b \in BlocksOf(s), NEW i \in 1..bulks[b].size,
              Unwritten(Command(b, i))'
       PROVE  In(Command(b, i), q_'[s])
  <2>1. b \in 1..Newest /\ bulks[b].session = s /\ CopyMade(Command(b, i))'
    BY <1>10 DEF BlocksOf, Unwritten
  <2>2. CASE Command(b, i) = e0
    <3>1. b = n0 /\ s = s0
      BY <1>1, <2>1, <2>2 DEF Command
    <3> QED
      BY <1>3, <2>2, <3>1 DEF In
  <2>3. CASE CopyMade(Command(b, i))
    <3>1. Command(b, i).bulk = b
      BY DEF Command
    <3>2. Unwritten(Command(b, i))
      BY <1>1, <1>2, <1>10, <2>1, <2>3, <3>1 DEF Unwritten
    <3>3. In(Command(b, i), q_[s])
      BY <3>2 DEF HoldInv
    <3> QED
      BY <1>1, <1>3, <3>3 DEF In
  <2> QED
    BY <1>6, <2>1, <2>2, <2>3
<1>11. \A b \in 1..Newest : \A i \in 1..Len(file[b]) : file[b][i] = Command(b, i)
  BY DEF HoldInv
<1>12. \A s \in Session : \A b \in BlocksOf(s)' : \A i \in 1..bulks'[b].size :
         Unwritten(Command(b, i))' => In(Command(b, i), q_'[s])
  BY <1>1, <1>4, <1>10
<1> QED
  BY <1>1, <1>4, <1>9, <1>11, <1>12 DEF HoldInv, In, Command

(* The one file thread of a session writes the next command of its block:  *)
(* the blocks before it have been written, and its commands are first.     *)
LEMMA HeadIsNext ==
  ASSUME TypeOK, CallInv, FileInv, CopyInv, DebtInv, HoldInv, thread_count = 2,
         NEW t \in Thread, Write(t)
  PROVE  /\ q_[t[1]][1] = Command(bulk[t], bulks[bulk[t]].size - left[t] + 1)
         /\ left[t] \in 1..bulks[bulk[t]].size
<1> DEFINE s0 == t[1]
           b0 == bulk[t]
           q == q_[s0]
           h == q[1]
           n == bulks[b0].size
           c == Command(b0, n - left[t] + 1)
<1>1. /\ s0 \in Session /\ b0 \in BlocksOf(s0) /\ b0 \in 1..Newest /\ bulks[b0].session = s0
      /\ tpc[t] = "write" /\ q \in Seq(Entry) /\ q # <<>> /\ left[t] \in Nat \ {0}
  BY WriteStep
<1>2. /\ Len(q) \in Nat \ {0} /\ 1 \in 1..Len(q) /\ h \in Entry
      /\ \A k \in 1..Len(q) : q[k] \in Entry
  BY <1>1, TailEntries, ElementOfSeq
<1>3. Owed(b0) = left[t] /\ FileQueued(b0) /\ n \in Nat
  BY <1>1, OwedCases, BlockType DEF OwedByPlace
<1>4. left[t] \in 1..n /\ n - left[t] + 1 \in 1..n
  <2>1. left[t] \in 0..n
    BY <1>1, <1>3 DEF DebtInv
  <2> QED
    BY <1>1, <1>3, <2>1
<1>5. c.bulk = b0 /\ c.cmd = n - left[t] + 1
  BY DEF Command
<1>6. Unwritten(c)
  <2>1. CopyMade(c)
    BY <1>1, <1>3, <1>4, QueuedIsCopied
  <2>2. c.cmd > bulks[c.bulk].size - Owed(c.bulk)
    BY <1>3, <1>4, <1>5
  <2> QED
    BY <2>1, <2>2 DEF Unwritten
<1>7. In(c, q)
  BY <1>1, <1>4, <1>6 DEF HoldInv
<1>8. PICK m \in 1..Len(q) : q[m] = c
  BY <1>7 DEF In
<1>9. CASE m # 1
  <2>1. Before(h, c)
    <3>1. 1 \in 1..(m - 1)
      BY <1>2, <1>9
    <3> QED
      BY <1>1, <1>8, <3>1 DEF CopyInv, Ordered
  <2>2. /\ Unwritten(h) /\ Owner(h) = s0
        /\ h.bulk \in 1..Newest /\ h.cmd \in 1..bulks[h.bulk].size
    BY <1>1, <1>2 DEF CopyInv, HoldInv, Unwritten, CopyMade, IsCommand
  <2>3. h.bulk \in BlocksOf(s0) /\ bulks[h.bulk].size \in Nat /\ h.bulk \in Nat /\ b0 \in Nat
    BY <1>1, <2>2, BlockType DEF BlocksOf, Owner
  <2>4. CASE h.bulk = b0
    <3>1. h.cmd > n - left[t]
      BY <1>3, <2>2, <2>4 DEF Unwritten
    <3>2. h.cmd < n - left[t] + 1
      BY <1>5, <2>1, <2>3, <2>4 DEF Before
    <3> QED
      BY <1>3, <1>4, <2>2, <2>4, <3>1, <3>2
  <2>5. CASE h.bulk # b0
    <3>1. h.bulk < b0 /\ h.bulk < Newest
      BY <1>1, <1>5, <2>1, <2>3, <2>5, BlockType DEF Before
    <3>2. FileQueued(h.bulk)
      BY <3>1 DEF FileQueued
    <3>3. ~FileWaits(h.bulk)
      <4>1. \A k \in 1..Len(file_queue_[s0]) : b0 < file_queue_[s0][k].bulk
        BY <1>1 DEF FileInv
      <4>2. \A k \in 1..Len(file_queue_[s0]) : file_queue_[s0][k].bulk # h.bulk
        BY <2>3, <3>1, <4>1
      <4> QED
        BY <2>2, <4>2 DEF FileWaits, Owner
    <3>4. ASSUME NEW u \in Thread, bulk[u] = h.bulk
          PROVE  FALSE
      <4>1. tpc[u] \in {"open", "write"}
        BY <2>2, <3>4 DEF FileInv
      <4>2. u[2] # LogWorker /\ t[2] # LogWorker /\ u[1] = s0
        BY <1>1, <2>3, <3>4, <4>1 DEF FileInv, BlocksOf
      <4>3. u[2] = 2 /\ t[2] = 2
        BY <4>2, ThreadParts DEF LogWorker, FileProvider
      <4>4. u = t
        BY <4>2, <4>3, ThreadParts
      <4> QED
        BY <2>5, <3>4, <4>4
    <3>5. Owed(h.bulk) = 0
      BY <2>2, <3>2, <3>3, <3>4, OwedCases DEF OwedByPlace, Written
    <3>6. h.cmd > bulks[h.bulk].size
      BY <2>2, <2>3, <3>2, <3>5 DEF Unwritten
    <3> QED
      BY <2>2, <2>3, <3>6
  <2> QED
    BY <2>4, <2>5
<1> QED
  BY <1>4, <1>8, <1>9

(* The head of the queue is the next command of the one file being written.*)
LEMMA HoldWrite ==
  ASSUME TypeOK, CallInv, FileInv, CopyInv, DebtInv, HoldInv, TypeOK', FileInv', thread_count = 2,
         NEW t \in Thread, Write(t)
  PROVE  HoldInv'
<1> PICK s0, b0, n0, h : s0 = t[1] /\ b0 = bulk[t] /\ n0 = left[t] /\ h = q_[t[1]][1]
  OBVIOUS
<1> PICK n : n = bulks[b0].size
  OBVIOUS
<1> DEFINE q == q_[s0]
           r == q_'[s0]
<1>1. /\ s0 \in Session /\ b0 \in 1..Newest /\ bulks[b0].session = s0
      /\ q \in Seq(Entry) /\ q # <<>> /\ r = Tail(q)
      /\ \A s \in Session : s # s0 => q_'[s] = q_[s]
      /\ \A b \in 1..Newest : b # b0 => file'[b] = file[b]
      /\ file'[b0] = IF b0 \in unopened THEN file[b0] ELSE Append(file[b0], h)
      /\ UNCHANGED <<bulks, unopened>>
  BY WriteStep
<1>2. /\ h = Command(b0, n - n0 + 1) /\ n0 \in 1..n
  BY HeadIsNext
<1>3. /\ Len(q) \in Nat \ {0} /\ Len(r) \in Nat /\ 1 \in 1..Len(q) /\ h \in Entry
      /\ \A k \in 1..Len(r) : r[k] = q[k + 1] /\ k + 1 \in 1..Len(q)
      /\ \A k \in 1..Len(q) : k = 1 \/ (k - 1 \in 1..Len(r) /\ r[k - 1] = q[k])
  BY <1>1, TailEntries
<1>4. \A b \in 1..Newest :
        /\ b = b0 => Owed(b) = n0 /\ Owed(b)' = n0 - 1 /\ FileQueued(b)
        /\ b # b0 => Owed(b)' = Owed(b)
        /\ FileQueued(b)' <=> FileQueued(b)
  BY OwedWrite
<1>5. n \in Nat \ {0}
  BY <1>1, BlockType
<1>6. Newest' = Newest /\ (\A s : BlocksOf(s)' = BlocksOf(s)) /\ CopyCount' = CopyCount
  <2>1. CopyCount' = CopyCount
    BY ThreadCall
  <2> QED
    BY <1>1, <2>1 DEF Newest, BlocksOf
<1>7. \A e : CopyMade(e)' <=> CopyMade(e)
  BY <1>1, <1>6 DEF CopyMade, IsCommand
<1>8. ASSUME NEW e, e.bulk # b0 \/ e.cmd # n - n0 + 1, Unwritten(e)
      PROVE  Unwritten(e)'
  <2>1. CopyMade(e) /\ e.bulk \in 1..Newest /\ e.cmd \in 1..bulks[e.bulk].size
    BY <1>8 DEF Unwritten, CopyMade, IsCommand
  <2>2. CASE e.bulk # b0
    BY <1>1, <1>4, <1>7, <1>8, <2>1, <2>2 DEF Unwritten
  <2>3. CASE e.bulk = b0
    <3>1. e.cmd > n - n0 /\ e.cmd # n - n0 + 1 /\ e.cmd \in 1..n
      BY <1>4, <1>8, <2>1, <2>3 DEF Unwritten
    <3>2. e.cmd > n - (n0 - 1)
      BY <1>2, <1>5, <3>1
    <3>3. Owed(e.bulk)' = n0 - 1 /\ bulks'[e.bulk].size = n
      BY <1>1, <1>4, <2>1, <2>3
    <3> QED
      BY <1>7, <2>1, <3>2, <3>3 DEF Unwritten
  <2> QED
    BY <2>2, <2>3
<1>9. ASSUME NEW e, Unwritten(e)'
      PROVE  Unwritten(e) /\ (e.bulk # b0 \/ e.cmd # n - n0 + 1)
  <2>1. CopyMade(e) /\ e.bulk \in 1..Newest /\ e.cmd \in 1..bulks[e.bulk].size
    BY <1>7, <1>9 DEF Unwritten, CopyMade, IsCommand
  <2>2. CASE e.bulk # b0
    BY <1>1, <1>4, <1>9, <2>1, <2>2 DEF Unwritten
  <2>3. CASE e.bulk = b0
    <3>1. Owed(e.bulk)' = n0 - 1 /\ bulks'[e.bulk].size = n /\ FileQueued(e.bulk)' /\ Owed(e.bulk) = n0
      BY <1>1, <1>4, <2>1, <2>3
    <3>2. e.cmd > n - (n0 - 1) /\ e.cmd \in 1..n
      BY <1>9, <2>1, <2>3, <3>1 DEF Unwritten
    <3>3. e.cmd > n - n0 /\ e.cmd # n - n0 + 1
      BY <1>2, <1>5, <3>2
    <3> QED
      BY <2>1, <2>3, <3>1, <3>3 DEF Unwritten
  <2> QED
    BY <2>2, <2>3
<1>10. ASSUME NEW s \in Session, NEW k \in 1..Len(q_'[s])
       PROVE  Unwritten(q_[s][k])'
  <2>1. CASE s # s0
    <3>1. q_'[s] = q_[s] /\ k \in 1..Len(q_[s]) /\ Unwritten(q_[s][k])
      BY <1>1, <1>10, <2>1 DEF HoldInv
    <3>2. bulks[q_[s][k].bulk].session = s
      BY <3>1 DEF CopyInv, Owner
    <3>3. q_[s][k].bulk # b0
      BY <1>1, <2>1, <3>2
    <3> QED
      BY <1>8, <3>1, <3>3
  <2>2. CASE s = s0
    <3>1. r[k] = q[k + 1] /\ k + 1 \in 1..Len(q) /\ k \in 1..Len(r)
      BY <1>3, <1>10, <2>2
    <3>2. Unwritten(q[k + 1])
      BY <1>1, <3>1 DEF HoldInv
    <3>3. Before(h, q[k + 1])
      <4>1. 1 \in 1..((k + 1) - 1)
        BY <3>1, <1>3
      <4> QED
        BY <1>1, <3>1, <4>1 DEF CopyInv, Ordered
    <3>4. q[k + 1].bulk # b0 \/ q[k + 1].cmd # n - n0 + 1
      <4>1. h.bulk = b0 /\ h.cmd = n - n0 + 1
        BY <1>2 DEF Command
      <4>2. b0 \in Nat /\ n - n0 + 1 \in Nat
        BY <1>1, <1>2, <1>5, BlockType, SMTT(30)
      <4> QED
        BY <3>3, <4>1, <4>2 DEF Before
    <3> QED
      BY <1>8, <2>2, <3>1, <3>2, <3>4
  <2> QED
    BY <2>1, <2>2
<1>11. ASSUME NEW s \in Session, NEW b \in BlocksOf(s), NEW i \in 1..bulks[b].size,
              Unwritten(Command(b, i))'
       PROVE  In(Command(b, i), q_'[s])
  <2>1. Unwritten(Command(b, i)) /\ (b # b0 \/ i # n - n0 + 1)
    BY <1>9, <1>11 DEF Command
  <2>2. In(Command(b, i), q_[s])
    BY <2>1 DEF HoldInv
  <2>3. CASE s # s0
    BY <1>1, <2>2, <2>3
  <2>4. CASE s = s0
    <3>1. PICK k \in 1..Len(q) : q[k] = Command(b, i)
      BY <2>2, <2>4 DEF In
    <3>2. k # 1
      <4>1. Command(b, i) # h
        BY <1>2, <2>1 DEF Command
      <4> QED
        BY <3>1, <4>1
    <3>3. k - 1 \in 1..Len(r) /\ r[k - 1] = Command(b, i)
      BY <1>3, <3>1, <3>2
    <3> QED
      BY <2>4, <3>3 DEF In
  <2> QED
    BY <2>3, <2>4
<1>12. ASSUME NEW b \in 1..Newest, NEW i \in 1..Len(file'[b])
       PROVE  file'[b][i] = Command(b, i)
  <2>1. file[b] \in Seq(Entry) /\ Len(file[b]) \in Nat
    BY FileType
  <2>2. CASE b # b0 \/ b0 \in unopened
    BY <1>1, <1>12, <2>2 DEF HoldInv
  <2>3. CASE b = b0 /\ b0 \notin unopened
    <3>1. file'[b] = Append(file[b], h)
      BY <1>1, <2>3
    <3>2. /\ \A j \in 1..Len(file[b]) : file'[b][j] = file[b][j]
          /\ file'[b][Len(file[b]) + 1] = h
          /\ \A j \in 1..Len(file'[b]) : j \in 1..Len(file[b]) \/ j = Len(file[b]) + 1
      BY <1>3, <2>1, <3>1, AppendEntries, SMTT(30)
    <3>3. Len(file[b]) + n0 = n
      BY <1>4, <2>3 DEF DebtInv
    <3>4. Len(file[b]) + 1 = n - n0 + 1
      BY <1>2, <1>5, <2>1, <3>3
    <3>5. CASE i \in 1..Len(file[b])
      BY <3>2, <3>5 DEF HoldInv
    <3>6. CASE i = Len(file[b]) + 1
      BY <1>2, <2>3, <3>2, <3>4, <3>6
    <3> QED
      BY <1>12, <3>2, <3>5, <3>6
  <2> QED
    BY <2>2, <2>3
<1>13. \A s \in Session : \A b \in BlocksOf(s)' : \A i \in 1..bulks'[b].size :
         Unwritten(Command(b, i))' => In(Command(b, i), q_'[s])
  BY <1>1, <1>6, <1>11
<1> QED
  BY <1>6, <1>10, <1>12, <1>13 DEF HoldInv, In, Command

(* Every step keeps the files their own.                                   *)
LEMMA NextHold ==
  ASSUME TypeOK, CallInv, LogInv, FileInv, CopyInv, DebtInv, HoldInv, TypeOK', FileInv', [Next]_vars
  PROVE  HoldInv'
<1>1. CASE thread_count = 2
  BY <1>1, Steps, HoldMoves, HoldExecute, HoldCopy, HoldWrite
<1>2. CASE thread_count # 2
  BY <1>2 DEF HoldInv
<1> QED
  BY <1>1, <1>2

=============================================================================
