------------------------- MODULE QueueExecutorProofs -------------------------
(***************************************************************************)
(* Proofs about the executors and their threads (QueueExecutorMT), for any *)
(* number of sessions, threads and blocks and blocks of any size.          *)
(***************************************************************************)
EXTENDS QueueExecutorProperties, SequenceTheorems, FiniteSetTheorems, TLAPS

-----------------------------------------------------------------------------
(* Threads, blocks and queues. *)

(* A thread is a session and the index of one of its workers. *)
LEMMA ThreadParts ==
  ASSUME NEW t \in Thread
  PROVE  /\ t[1] \in Session /\ t[2] \in 0..thread_count /\ t[2] # FileProvider
         /\ t = <<t[1], t[2]>>
  BY DEF Thread, LastWorker

(* The worker of the call is one thread, unless it is the file provider.   *)
LEMMA CurrentIsThread ==
  ASSUME session \in Session, worker \in 0..LastWorker, worker # FileProvider
  PROVE  /\ Current \in Thread /\ Current[1] = session /\ Current[2] = worker
         /\ \A t \in Thread : t[1] = session /\ t[2] = worker => t = Current
  BY DEF Thread, Current

(* A block executed has a session and a positive size. *)
LEMMA BlockType ==
  ASSUME TypeOK, NEW b \in 1..Newest
  PROVE  /\ bulks[b].session \in Session /\ bulks[b].size \in Nat \ {0}
         /\ Newest \in Nat /\ b \in Nat /\ b <= MaxBulk
<1>1. bulks[b] \in [session : Session, size : Size]
  BY ElementOfSeq DEF TypeOK, Newest
<1>2. Newest \in Nat /\ Newest <= MaxBulk /\ MaxBulk \in Nat
  BY LenProperties, SizeAssumption DEF TypeOK, Newest
<1>3. bulks[b].session \in Session /\ bulks[b].size \in Size
  BY <1>1
<1>4. bulks[b].size \in Nat \ {0}
  BY <1>3, SizeAssumption
<1>5. b \in Nat /\ b <= MaxBulk
  BY <1>2
<1> QED
  BY <1>2, <1>3, <1>4, <1>5

(* What is appended to and removed from a sequence, entry by entry. *)
LEMMA AppendEntries ==
  ASSUME NEW S, NEW q \in Seq(S), NEW e \in S, NEW r, r = Append(q, e)
  PROVE  /\ r \in Seq(S) /\ Len(q) \in Nat /\ Len(r) = Len(q) + 1
         /\ r[Len(q) + 1] = e /\ Len(q) + 1 \in 1..Len(r)
         /\ \A k \in 1..Len(q) : r[k] = q[k] /\ k \in 1..Len(r)
         /\ \A k \in 1..Len(r) : k \in 1..Len(q) \/ k = Len(q) + 1
<1>1. /\ r \in Seq(S) /\ Len(r) = Len(q) + 1 /\ r[Len(q) + 1] = e
      /\ \A k \in 1..Len(q) : r[k] = q[k]
  BY AppendProperties
<1>2. Len(q) \in Nat
  BY LenProperties
<1> QED
  BY <1>1, <1>2

(* What the library operators say of a sequence that loses its first entry.*)
LEMMA TailEntries ==
  ASSUME NEW S, NEW q \in Seq(S), q # <<>>, NEW r, r = Tail(q)
  PROVE  /\ r \in Seq(S) /\ Len(q) \in Nat \ {0} /\ Len(r) \in Nat /\ Len(r) = Len(q) - 1
         /\ Head(q) = q[1] /\ Head(q) \in S /\ 1 \in 1..Len(q)
         /\ \A k \in 1..Len(r) : r[k] = q[k + 1] /\ k + 1 \in 1..Len(q)
         /\ \A k \in 1..Len(q) : k = 1 \/ (k - 1 \in 1..Len(r) /\ r[k - 1] = q[k])
<1>1. /\ r \in Seq(S) /\ Head(q) \in S /\ Len(r) = Len(q) - 1
      /\ \A k \in 1..Len(r) : r[k] = q[k + 1]
  BY HeadTailProperties
<1>2. Len(q) \in Nat \ {0}
  BY EmptySeq
<1>3. Head(q) = q[1]
  BY <1>2
<1>4. \A k \in 1..Len(r) : k + 1 \in 1..Len(q)
  BY <1>1, <1>2
<1>5. ASSUME NEW k \in 1..Len(q), k # 1
      PROVE  k - 1 \in 1..Len(r) /\ r[k - 1] = q[k]
  <2>1. k - 1 \in 1..Len(r) /\ (k - 1) + 1 = k
    BY <1>1, <1>2, <1>5
  <2> QED
    BY <2>1, <1>1
<1> QED
  BY <1>1, <1>2, <1>3, <1>4, <1>5

(* The parts of Next: what a thread or the caller does to the queues and   *)
(* the output, and the steps that only move a program counter.             *)
QuietCall == Pack \/ Start \/ Notify \/ Stop \/ StopNotify \/ Join \/ \E s \in Session : Disconnect(s)
QuietThread(t) ==
  Lock(t) \/ Test(t) \/ Wait(t) \/ Wakeup(t) \/ PopNothing(t) \/ Check(t)

(* The actions, those that matter to no queue and no file taken together.  *)
LEMMA NextCases ==
  ASSUME [Next]_vars
  PROVE  \/ \E s \in Session, n \in Size : Execute(s, n)
         \/ Copy \/ Push \/ QuietCall
         \/ \E t \in Thread : \/ PopCommand(t) \/ PopFileCommand(t) \/ Open(t)
                              \/ Write(t) \/ EndWrite(t) \/ QuietThread(t)
         \/ UNCHANGED vars
  BY DEF Next, CallStep, ThreadStep, QuietCall, QuietThread

-----------------------------------------------------------------------------
(* Type correctness.  An entry pushed is an entry of the newest block, and *)
(* a thread that writes a file writes that of a block executed before.     *)

(* The entries of a block are entries.                                     *)
LEMMA CommandType ==
  ASSUME TypeOK, NEW b \in 1..Newest, NEW i \in Nat
  PROVE  Command(b, i) \in Entry
<1>1. b \in 1..MaxBulk
  BY BlockType, SizeAssumption
<1> QED
  BY <1>1 DEF Command, Entry

(* The entry the call pushes. *)
Pushed == Command(Newest, IF worker = LogWorker THEN pos + 1 ELSE Whole)

(* What the next locked push appends.                                      *)
LEMMA PushedEntry ==
  ASSUME TypeOK, CallInv, pc = "push"
  PROVE  /\ Commands[pos + 1] = Pushed /\ Pushed \in Entry
         /\ session \in Session /\ Newest \in 1..Newest
         /\ Len(Commands) = IF worker = LogWorker THEN bulks[Newest].size ELSE 1
<1>1. Newest \in 1..Newest /\ session \in Session
  BY DEF CallInv, Executing, TypeOK, Newest
<1>2. bulks[Newest].size \in Nat \ {0} /\ pos \in Nat
  BY <1>1, BlockType DEF TypeOK
<1>3. CASE worker = LogWorker
  <2>1. Commands = [i \in 1..bulks[Newest].size |-> Command(Newest, i)]
    BY <1>3 DEF Commands, LogWorker, FileProvider, Command
  <2>2. pos + 1 \in 1..bulks[Newest].size
    BY <1>2, <1>3 DEF CallInv, LogWorker, FileProvider
  <2>3. Len(Commands) = bulks[Newest].size
    BY <2>1, <1>2
  <2> QED
    BY <1>1, <1>2, <1>3, <2>1, <2>2, <2>3, CommandType DEF Pushed
<1>4. CASE worker # LogWorker
  <2>1. worker = FileProvider /\ pos = 0
    BY <1>4 DEF CallInv
  <2>2. Commands = <<Command(Newest, Whole)>>
    BY <2>1 DEF Commands, Command
  <2>3. Whole \in Nat
    BY DEF Whole
  <2> QED
    BY <1>1, <1>4, <2>1, <2>2, <2>3, CommandType DEF Pushed
<1> QED
  BY <1>3, <1>4

(* A step of the call keeps the types.                                     *)
LEMMA CallType ==
  ASSUME TypeOK, CallInv, Copy \/ Push \/ QuietCall
  PROVE  TypeOK'
<1> USE ThreadAssumption DEF LogWorker, FileProvider, LastWorker
<1>1. CASE Copy
  <2>1. Newest \in 1..Newest /\ session \in Session /\ pos + 1 \in Nat
    BY <1>1 DEF CallInv, Executing, TypeOK, Newest, Copy
  <2>2. Command(Newest, pos + 1) \in Entry
    BY <2>1, CommandType
  <2>3. Append(q_[session], Command(Newest, pos + 1)) \in Seq(Entry)
    BY <2>1, <2>2, AppendProperties DEF TypeOK
  <2>4. q_' = [q_ EXCEPT ![session] = Append(q_[session], Command(Newest, pos + 1))]
    BY <1>1 DEF Copy, Copied, Command
  <2>5. q_' \in [Session -> Seq(Entry)]
    BY <2>3, <2>4 DEF TypeOK
  <2>6. pc' \in CallPC /\ pos' \in Nat
    <3>1. (pc' = "pack" /\ pos' = 0) \/ (pc' = pc /\ pos' = pos + 1)
      BY <1>1 DEF Copy
    <3> QED
      BY <2>1, <3>1 DEF TypeOK, CallPC
  <2> QED
    BY <1>1, <2>5, <2>6 DEF TypeOK, Copy, Newest, queueVars, threadVars, outVars
<1>2. CASE Push
  <2>1. session \in Session /\ Commands[pos + 1] \in Entry
    BY <1>2, PushedEntry DEF Push
  <2>2. /\ Append(log_queue_[session], Commands[pos + 1]) \in Seq(Entry)
        /\ Append(file_queue_[session], Commands[pos + 1]) \in Seq(Entry)
    BY <2>1, AppendProperties DEF TypeOK
  <2>3. log_queue_' \in [Session -> Seq(Entry)] /\ file_queue_' \in [Session -> Seq(Entry)]
    BY <1>2, <2>2 DEF TypeOK, Push
  <2>5. file_pushed' \in [Session -> Nat]
    <3>1. file_pushed' = file_pushed \/ file_pushed' = [file_pushed EXCEPT ![session] = @ + 1]
      BY <1>2 DEF Push
    <3>2. [file_pushed EXCEPT ![session] = @ + 1] \in [Session -> Nat]
      BY <2>1 DEF TypeOK
    <3> QED
      BY <3>1, <3>2, Zenon DEF TypeOK
  <2>4. pc' \in CallPC /\ pos' \in Nat
    BY <1>2 DEF TypeOK, Push, CallPC
  <2> QED
    BY <1>2, <2>3, <2>4, <2>5 DEF TypeOK, Push, Newest, threadVars, outVars
<1>3. CASE Pack
  <2>1. Newest \in Nat
    BY DEF TypeOK, Newest
  <2> QED
    BY <1>3, <2>1 DEF TypeOK, Pack, CallPC, Newest, threadVars, outVars
<1>4. CASE Start
  <2>1. worker' \in 0..LastWorker /\ session' \in Session \union {NoSession} /\ pc' \in CallPC
    BY <1>4, SMTT(30) DEF TypeOK, Start, NextWorker, CallPC
  <2>2. tpc' \in [Thread -> ThreadPC]
    BY <1>4 DEF TypeOK, Start, ThreadPC
  <2> QED
    BY <1>4, <2>1, <2>2 DEF TypeOK, Start, Newest, queueVars, outVars
<1>5. CASE Notify
  <2>1. worker' \in 0..LastWorker /\ session' \in Session \union {NoSession} /\ pc' \in CallPC
    BY <1>5 DEF TypeOK, Notify, NextWorker, CallPC
  <2>2. tpc' \in [Thread -> ThreadPC]
    BY <1>5 DEF TypeOK, Notify, NotifyOne, ThreadPC
  <2> QED
    BY <1>5, <2>1, <2>2 DEF TypeOK, Notify, Newest, queueVars, outVars
<1>6. CASE Stop
  <2>1. worker' \in 0..LastWorker /\ session' \in Session \union {NoSession} /\ pc' \in CallPC
        /\ closed' \subseteq Session
    BY <1>6 DEF TypeOK, CallInv, Stop, NextDestructor, CallPC
  <2> QED
    BY <1>6, <2>1 DEF TypeOK, Stop, Newest, queueVars, threadVars, outVars
<1>7. CASE StopNotify
  <2>1. tpc' \in [Thread -> ThreadPC]
    BY <1>7 DEF TypeOK, StopNotify, NotifyAll, ThreadPC
  <2> QED
    BY <1>7, <2>1 DEF TypeOK, StopNotify, CallPC, Newest, queueVars, outVars
<1>8. CASE Join
  <2>1. worker' \in 0..LastWorker /\ session' \in Session \union {NoSession} /\ pc' \in CallPC
        /\ closed' \subseteq Session
    BY <1>8 DEF TypeOK, CallInv, Join, NextDestructor, CallPC
  <2> QED
    BY <1>8, <2>1 DEF TypeOK, Join, Newest, queueVars, threadVars, outVars
<1>9. CASE \E s \in Session : Disconnect(s)
  <2>1. worker' \in 0..LastWorker /\ session' \in Session \union {NoSession} /\ pc' \in CallPC
    BY <1>9 DEF TypeOK, Disconnect, CallPC
  <2> QED
    BY <1>9, <2>1 DEF TypeOK, Disconnect, Newest, queueVars, threadVars, outVars
<1> QED
  BY <1>1, <1>2, <1>3, <1>4, <1>5, <1>6, <1>7, <1>8, <1>9 DEF QuietCall

(* What the head of a thread's queue is.  The log queue has commands only, *)
(* the file queue file commands only.                                      *)
LEMMA QueueHead ==
  ASSUME TypeOK, LogInv, FileInv, NEW t \in Thread, QueueOf(t) # <<>>
  PROVE  /\ QueueOf(t) \in Seq(Entry) /\ 1 \in 1..Len(QueueOf(t))
         /\ Head(QueueOf(t)) = QueueOf(t)[1] /\ Head(QueueOf(t)) \in Entry
         /\ Head(QueueOf(t)).bulk \in BlocksOf(t[1])
         /\ Head(QueueOf(t)).cmd = Whole <=> t[2] # LogWorker
<1>1. t[1] \in Session
  BY ThreadParts
<1>2. QueueOf(t) \in Seq(Entry)
  BY <1>1 DEF QueueOf, TypeOK
<1>3. /\ 1 \in 1..Len(QueueOf(t))
      /\ Head(QueueOf(t)) = QueueOf(t)[1] /\ Head(QueueOf(t)) \in Entry
  BY <1>2, TailEntries
<1>4. CASE t[2] = LogWorker
  <2>1. QueueOf(t) = log_queue_[t[1]]
    BY <1>4 DEF QueueOf
  <2>2. LogQueued(Head(QueueOf(t))) /\ Owner(Head(QueueOf(t))) = t[1]
    BY <1>1, <1>3, <2>1 DEF LogInv
  <2>3. /\ Head(QueueOf(t)).bulk \in 1..Newest
        /\ Head(QueueOf(t)).cmd \in 1..bulks[Head(QueueOf(t)).bulk].size
    BY <2>2 DEF LogQueued, IsCommand
  <2>4. Head(QueueOf(t)).cmd # Whole
    BY <2>3, BlockType DEF Whole
  <2> QED
    BY <1>2, <1>3, <1>4, <2>2, <2>3, <2>4 DEF BlocksOf, Owner
<1>5. CASE t[2] # LogWorker
  <2>1. QueueOf(t) = file_queue_[t[1]]
    BY <1>5 DEF QueueOf
  <2> QED
    BY <1>1, <1>2, <1>3, <1>5, <2>1 DEF FileInv
<1> QED
  BY <1>4, <1>5

(* A step of a thread keeps the types.                                     *)
LEMMA ThreadType ==
  ASSUME TypeOK, LogInv, FileInv, NEW t \in Thread,
         \/ PopCommand(t) \/ PopFileCommand(t) \/ Open(t)
         \/ Write(t) \/ EndWrite(t) \/ QuietThread(t)
  PROVE  TypeOK'
<1>1. t[1] \in Session
  BY ThreadParts
<1>2. CASE PopCommand(t) \/ PopFileCommand(t)
  <2>1. QueueOf(t) # <<>> /\ PopQueue(t)
    BY <1>2 DEF PopCommand, PopFileCommand
  <2>2. Head(QueueOf(t)) \in Entry /\ Tail(QueueOf(t)) \in Seq(Entry)
    BY <2>1, QueueHead, HeadTailProperties
  <2>3. log_queue_' \in [Session -> Seq(Entry)] /\ file_queue_' \in [Session -> Seq(Entry)]
    BY <2>1, <2>2 DEF TypeOK, PopQueue, QueueOf
  <2>4. Append(console, Head(QueueOf(t))) \in Seq(Entry)
    BY <2>2, AppendProperties DEF TypeOK
  <2>5. console' \in Seq(Entry)
    BY <1>2, <2>4 DEF TypeOK, PopCommand, PopFileCommand, outVars
  <2>6. Head(QueueOf(t)).bulk \in 0..MaxBulk
    BY <2>2, SizeAssumption DEF Entry
  <2>7. bulk' \in [Thread -> 0..MaxBulk]
    BY <1>2, <2>6 DEF TypeOK, PopCommand, PopFileCommand
  <2>8. tpc' \in [Thread -> ThreadPC]
    BY <1>2 DEF TypeOK, PopCommand, PopFileCommand, Goto, ThreadPC
  <2> QED
    BY <1>2, <2>3, <2>5, <2>7, <2>8
    DEF TypeOK, PopCommand, PopFileCommand, Newest, callVars, outVars
<1>3. CASE Open(t)
  <2>1. bulk[t] \in 1..Newest
    BY <1>3 DEF Open, FileInv, BlocksOf
  <2>2. bulks[bulk[t]].size \in Nat /\ bulk[t] \in 1..MaxBulk
    BY <2>1, BlockType, SizeAssumption
  <2>3. Len(q_[t[1]]) \in Nat
    BY <1>1 DEF TypeOK
  <2>4. \A opened \in BOOLEAN : Quota(bulks[bulk[t]].size, Len(q_[t[1]]), opened) \in Nat
    BY <2>2, <2>3 DEF Quota
  <2>5. left' \in [Thread -> Nat]
    <3>1. \E n \in Nat : left' = [left EXCEPT ![t] = n]
      BY <1>3, <2>4 DEF Open
    <3>2. left \in [Thread -> Nat]
      BY DEF TypeOK
    <3> QED
      BY <3>1, <3>2
  <2>6. unopened' \subseteq 1..MaxBulk
    BY <1>3, <2>2 DEF TypeOK, Open
  <2>7. tpc' \in [Thread -> ThreadPC]
    BY <1>3 DEF TypeOK, Open, Goto, ThreadPC
  <2> QED
    BY <1>3, <2>5, <2>6, <2>7 DEF TypeOK, Open, Newest, callVars, queueVars
<1>4. CASE Write(t)
  <2>1. Tail(q_[t[1]]) \in Seq(Entry) /\ Head(q_[t[1]]) \in Entry
    BY <1>1, <1>4, HeadTailProperties DEF TypeOK, Write
  <2>2. q_' \in [Session -> Seq(Entry)]
    BY <1>4, <2>1 DEF TypeOK, Write, Popped
  <2>3. left' \in [Thread -> Nat]
    BY <1>4 DEF TypeOK, Write
  <2>4. file' \in Seq(Seq(Entry))
    <3>1. CASE bulk[t] \in 1..Len(file)
      <4>1. file[bulk[t]] \in Seq(Entry)
        BY <3>1, ElementOfSeq DEF TypeOK
      <4>2. Append(file[bulk[t]], Head(q_[t[1]])) \in Seq(Entry)
        BY <2>1, <4>1, AppendProperties
      <4> QED
        BY <1>4, <3>1, <4>2, ExceptSeq DEF TypeOK, Write
    <3>2. CASE bulk[t] \notin 1..Len(file)
      <4>1. DOMAIN file = 1..Len(file) /\ file = [j \in 1..Len(file) |-> file[j]]
        BY LenProperties DEF TypeOK
      <4>2. [file EXCEPT ![bulk[t]] = Append(@, Head(q_[t[1]]))] = file
        BY <3>2, <4>1
      <4> QED
        BY <1>4, <4>2 DEF TypeOK, Write
    <3> QED
      BY <3>1, <3>2
  <2> QED
    BY <1>4, <2>2, <2>3, <2>4 DEF TypeOK, Write, Newest, callVars, queueVars
<1>5. CASE EndWrite(t)
  <2>1. tpc' \in [Thread -> ThreadPC]
    BY <1>5 DEF TypeOK, EndWrite, Goto, ThreadPC
  <2>2. bulk' \in [Thread -> 0..MaxBulk] /\ left' \in [Thread -> Nat]
    BY <1>5, SizeAssumption DEF TypeOK, EndWrite
  <2> QED
    BY <1>5, <2>1, <2>2 DEF TypeOK, EndWrite, Newest, callVars, queueVars, outVars
<1>6. CASE QuietThread(t)
  <2>1. tpc' \in [Thread -> ThreadPC]
    BY <1>6 DEF TypeOK, QuietThread, Lock, Test, Wait, Wakeup, PopNothing, Check, Goto,
                AfterCheck, ThreadPC
  <2>2. QueueEnd(t) \in Nat
    BY <1>1 DEF QueueEnd, TypeOK
  <2>3. finish' \in [Thread -> Nat]
    <3>1. \/ finish' = finish \/ finish' = [finish EXCEPT ![t] = 0]
          \/ finish' = [finish EXCEPT ![t] = QueueEnd(t)]
      BY <1>6 DEF QuietThread, Lock, Test, Wait, Wakeup, PopNothing, Check
    <3>2. /\ [finish EXCEPT ![t] = 0] \in [Thread -> Nat]
          /\ [finish EXCEPT ![t] = QueueEnd(t)] \in [Thread -> Nat]
      BY <2>2 DEF TypeOK
    <3> QED
      BY <3>1, <3>2, Zenon DEF TypeOK
  <2>4. UNCHANGED <<callVars, queueVars, q_, bulk, left, stop_flag_, closed, outVars>>
    BY <1>6 DEF QuietThread, Lock, Test, Wait, Wakeup, PopNothing, Check
  <2> QED
    BY <2>1, <2>3, <2>4 DEF TypeOK, Newest, callVars, queueVars, outVars
<1> QED
  BY <1>2, <1>3, <1>4, <1>5, <1>6

LEMMA ExecuteType ==
  ASSUME TypeOK, NEW s \in Session, NEW n \in Size, Execute(s, n)
  PROVE  TypeOK'
<1>1. bulks' \in Seq([session : Session, size : Size]) /\ Len(bulks') = Newest + 1
  BY AppendProperties DEF TypeOK, Execute, Newest
<1>2. Newest' <= MaxBulk
  BY <1>1, SizeAssumption, LenProperties DEF TypeOK, Execute, Newest
<1>3. file' \in Seq(Seq(Entry))
  BY EmptySeq, AppendProperties DEF TypeOK, Execute
<1>4. worker' \in 0..LastWorker
  BY ThreadAssumption DEF Execute, LogWorker, LastWorker
<1> QED
  BY <1>1, <1>2, <1>3, <1>4 DEF TypeOK, Execute, CallPC, queueVars, threadVars

LEMMA NextType ==
  ASSUME TypeOK, CallInv, LogInv, FileInv, [Next]_vars
  PROVE  TypeOK'
<1>1. CASE UNCHANGED vars
  BY <1>1 DEF vars, callVars, queueVars, threadVars, outVars, TypeOK, Newest
<1> QED
  BY <1>1, NextCases, ExecuteType, CallType, ThreadType

LEMMA InitType == Init => TypeOK
<1> SUFFICES ASSUME Init PROVE TypeOK
  OBVIOUS
<1>1. /\ <<>> \in Seq([session : Session, size : Size]) /\ <<>> \in Seq(Entry)
      /\ <<>> \in Seq(Seq(Entry)) /\ Len(<<>>) = 0
  BY EmptySeq
<1>2. /\ worker \in 0..LastWorker /\ pos \in Nat /\ Newest <= MaxBulk
      /\ pc \in CallPC
  BY <1>1, SizeAssumption, ThreadAssumption DEF Init, LastWorker, Newest, CallPC
<1>3. tpc \in [Thread -> ThreadPC] /\ bulk \in [Thread -> 0..MaxBulk]
  BY SizeAssumption DEF Init, ThreadPC
<1> QED
  BY <1>1, <1>2, <1>3 DEF Init, TypeOK

-----------------------------------------------------------------------------
(* The call in progress. *)

(* A new block is the newest, and nothing is changed for those before.     *)
LEMMA ExecuteCall ==
  ASSUME TypeOK, CallInv, NEW s \in Session, NEW n \in Size, Execute(s, n)
  PROVE  /\ CallInv'
         /\ Newest \in Nat /\ Newest' = Newest + 1 /\ Newest' \in 1..Newest'
         /\ bulks'[Newest'] = [session |-> s, size |-> n]
         /\ \A b \in 1..Newest : bulks'[b] = bulks[b] /\ file'[b] = file[b] /\ b \in 1..Newest'
         /\ \A b \in 1..Newest' : b \in 1..Newest \/ b = Newest'
         /\ file'[Newest'] = <<>>
<1> USE DEF LogWorker, FileProvider
<1>1. /\ Newest \in Nat /\ Newest' = Newest + 1 /\ Newest' \in 1..Newest'
      /\ bulks'[Newest'] = [session |-> s, size |-> n]
      /\ \A b \in 1..Newest : bulks'[b] = bulks[b] /\ b \in 1..Newest'
      /\ \A b \in 1..Newest' : b \in 1..Newest \/ b = Newest'
  <2>1. [session |-> s, size |-> n] \in [session : Session, size : Size]
    OBVIOUS
  <2>2. bulks' = Append(bulks, [session |-> s, size |-> n])
    BY DEF Execute
  <2>3. bulks \in Seq([session : Session, size : Size])
    BY DEF TypeOK
  <2>4. /\ Len(bulks) \in Nat /\ Len(bulks') = Len(bulks) + 1
        /\ bulks'[Len(bulks) + 1] = [session |-> s, size |-> n]
        /\ Len(bulks) + 1 \in 1..Len(bulks')
        /\ \A k \in 1..Len(bulks) : bulks'[k] = bulks[k] /\ k \in 1..Len(bulks')
        /\ \A k \in 1..Len(bulks') : k \in 1..Len(bulks) \/ k = Len(bulks) + 1
    BY <2>1, <2>2, <2>3, AppendEntries
  <2> QED
    BY <2>4 DEF Newest
<1>2. <<>> \in Seq(Entry)
  BY EmptySeq
<1>3. /\ Len(file') = Len(file) + 1 /\ file'[Len(file) + 1] = <<>>
      /\ \A b \in 1..Len(file) : file'[b] = file[b]
  BY <1>2, AppendEntries DEF TypeOK, Execute
<1>4. /\ Len(file') = Newest' /\ file'[Newest'] = <<>>
      /\ \A b \in 1..Newest : file'[b] = file[b]
  BY <1>1, <1>3 DEF CallInv
<1>5. \A r \in Session : log_bulk_id[r] \in Nat /\ file_bulk_id[r] \in Nat
  BY DEF TypeOK
<1>6. \A r \in Session : log_bulk_id[r] < Newest + 1 /\ file_bulk_id[r] < Newest + 1
  BY <1>1, <1>5 DEF CallInv
<1>7. CallInv'
  <2>1. /\ pc' = "pack" /\ session' = s /\ worker' = LogWorker /\ pos' = 0 /\ s \notin closed
        /\ UNCHANGED <<closed, log_bulk_id, file_bulk_id>>
    BY DEF Execute, queueVars
  <2>2. \A r \in Session : log_bulk_id[r] <= Newest' /\ file_bulk_id[r] <= Newest'
    BY <1>1, <1>5, <1>6
  <2>3. log_bulk_id[s] < Newest' /\ file_bulk_id[s] < Newest'
    BY <1>1, <1>6
  <2>4. bulks'[Newest'].session = s /\ Newest' >= 1
    BY <1>1
  <2> QED
    BY <1>4, <2>1, <2>2, <2>3, <2>4 DEF CallInv, Executing
<1> QED
  BY <1>1, <1>4, <1>7

(* A call that only changes its place does not change what of the newest   *)
(* block was pushed, copied and queued.                                    *)
LEMMA QuietCallInv ==
  ASSUME TypeOK, CallInv, QuietCall
  PROVE  /\ CallInv'
         /\ LogCount' = LogCount /\ CopyCount' = CopyCount /\ Queueing' = Queueing
         /\ UNCHANGED <<bulks, log_queue_, file_queue_, file_pushed, q_, finish, bulk, left, outVars>>
<1> USE ThreadAssumption, SessionAssumption DEF LogWorker, FileProvider, LastWorker
<1>1. Newest \in Nat /\ worker \in Nat /\ pos \in Nat
  BY DEF TypeOK, Newest
<1>2. UNCHANGED <<bulks, log_queue_, file_queue_, file_pushed, q_, finish, bulk, left, outVars>>
  BY DEF QuietCall, Pack, Start, Notify, Stop, StopNotify, Join, Disconnect, queueVars, threadVars
<1>3. Newest' = Newest /\ Len(file') = Len(file)
  BY <1>2 DEF Newest, outVars
<1>4. CASE Pack
  <2>1. session \in Session /\ Newest >= 1
    BY <1>4 DEF Pack, CallInv, Executing
  <2>2. bulks[Newest].size \in Nat \ {0}
    BY <1>1, <2>1, BlockType
  <2>3. UNCHANGED <<session, worker, pos, closed>> /\ pc = "pack" /\ pos = 0
    BY <1>4 DEF Pack, CallInv
  <2>4. CASE worker = LogWorker
    <3>1. pc' = "push" /\ file_bulk_id' = file_bulk_id
      BY <1>1, <1>4, <2>1, <2>4 DEF Pack, IsNewBlock, QueueBulkId, CallInv, TypeOK
    <3>2. log_bulk_id' = [log_bulk_id EXCEPT ![session] = Newest]
      BY <1>1, <1>4, <2>1, <2>4 DEF Pack, IsNewBlock, QueueBulkId, CallInv, TypeOK
    <3>3. \A r \in Session : log_bulk_id'[r] <= Newest
      BY <1>1, <3>2 DEF CallInv, TypeOK
    <3>4. CallInv'
      BY <1>2, <1>3, <2>1, <2>2, <2>3, <2>4, <3>1, <3>3 DEF CallInv, Executing
    <3> QED
      BY <1>2, <1>3, <2>3, <2>4, <3>1, <3>4 DEF LogCount, CopyCount, Queueing
  <2>5. CASE worker = FileProvider
    <3>1. pc' = "push" /\ log_bulk_id' = log_bulk_id
      BY <1>1, <1>4, <2>1, <2>5 DEF Pack, IsNewBlock, QueueBulkId, CallInv, Executing, TypeOK
    <3>2. file_bulk_id' = [file_bulk_id EXCEPT ![session] = Newest]
      BY <1>1, <1>4, <2>1, <2>5 DEF Pack, IsNewBlock, QueueBulkId, CallInv, Executing, TypeOK
    <3>3. (\A r \in Session : file_bulk_id'[r] <= Newest) /\ file_bulk_id'[session] = Newest
      BY <1>1, <2>1, <3>2 DEF CallInv, TypeOK
    <3>4. CallInv'
      BY <1>2, <1>3, <2>1, <2>2, <2>3, <2>5, <3>1, <3>3 DEF CallInv, Executing
    <3> QED
      BY <1>2, <1>3, <2>3, <2>5, <3>1, <3>4 DEF LogCount, CopyCount, Queueing
  <2>6. CASE worker # LogWorker /\ worker # FileProvider
    <3>1. pc' = "start" /\ UNCHANGED <<log_bulk_id, file_bulk_id>>
      BY <1>4, <2>6 DEF Pack, IsNewBlock, QueueBulkId, CallInv, Executing
    <3>2. CallInv'
      BY <1>2, <1>3, <2>1, <2>3, <2>6, <3>1 DEF CallInv, Executing
    <3> QED
      BY <1>2, <1>3, <2>3, <2>6, <3>1, <3>2 DEF LogCount, CopyCount, Queueing
  <2> QED
    BY <1>2, <2>4, <2>5, <2>6
<1>5. CASE Start \/ Notify
  <2>1. session \in Session /\ Newest >= 1 /\ pos = 0
    BY <1>5 DEF Start, Notify, CallInv, Executing
  <2>2. bulks[Newest].size \in Nat \ {0}
    BY <1>1, <2>1, BlockType
  <2>3. UNCHANGED <<pos, closed, log_bulk_id, file_bulk_id>> /\ pc \in {"start", "notify"}
    BY <1>5 DEF Start, Notify, queueVars
  <2>4. CASE worker # FileProvider /\ Start
    <3>1. pc' = "notify" /\ UNCHANGED <<session, worker>>
      BY <2>4 DEF Start
    <3>2. CallInv'
      BY <1>2, <1>3, <2>1, <2>3, <2>4, <3>1 DEF CallInv, Executing, Start
    <3> QED
      BY <1>2, <1>3, <2>3, <2>4, <3>1, <3>2 DEF LogCount, CopyCount, Queueing, Start
  <2>5. CASE (worker = FileProvider /\ Start) \/ Notify
    <3>1. NextWorker /\ (Notify => worker # FileProvider) /\ (worker = FileProvider => pc = "start")
      BY <2>5 DEF Start, Notify, CallInv
    <3>2. CASE worker = LastWorker
      <4>1. worker' = 0 /\ pc' = "idle" /\ session' = NoSession
        BY <3>1, <3>2 DEF NextWorker
      <4>2. CallInv'
        BY <1>2, <1>3, <2>1, <2>3, <4>1 DEF CallInv, Executing
      <4> QED
        BY <1>2, <1>3, <2>3, <3>2, <4>1, <4>2 DEF LogCount, CopyCount, Queueing
    <3>3. CASE worker = LogWorker
      <4>1. worker' = FileProvider /\ pc' = "copy" /\ session' = session
        BY <3>1, <3>3 DEF NextWorker
      <4>2. CallInv'
        BY <1>2, <1>3, <2>1, <2>2, <2>3, <3>3, <4>1 DEF CallInv, Executing
      <4> QED
        BY <1>2, <1>3, <2>1, <2>3, <3>3, <4>1, <4>2 DEF LogCount, CopyCount, Queueing
    <3>4. CASE worker # LogWorker /\ worker # LastWorker
      <4>1. worker' = worker + 1 /\ worker >= 1 /\ pc' = "pack" /\ session' = session
        BY <1>1, <3>1, <3>4 DEF NextWorker
      <4>2. file_bulk_id[session] = Newest
        BY <2>3, <3>1, <3>4 DEF CallInv, Executing
      <4>3. CallInv'
        BY <1>1, <1>2, <1>3, <2>1, <2>3, <4>1, <4>2 DEF CallInv, Executing
      <4> QED
        BY <1>1, <1>2, <1>3, <2>3, <3>1, <3>4, <4>1, <4>3 DEF LogCount, CopyCount, Queueing
    <3> QED
      BY <3>2, <3>3, <3>4
  <2> QED
    BY <1>5, <2>4, <2>5 DEF Start
<1>6. CASE Stop \/ StopNotify \/ Join \/ \E s \in Session : Disconnect(s)
  <2>1. /\ pc \in {"idle", "stop", "notify_all", "join"} /\ pc' \in {"idle", "stop", "notify_all", "join"}
        /\ UNCHANGED <<pos, log_bulk_id, file_bulk_id>>
    BY <1>6 DEF Stop, StopNotify, Join, Disconnect, NextDestructor, queueVars
  <2>2. pc' # "idle" => session' \in Session \ closed'
    BY <1>6 DEF Stop, StopNotify, Join, Disconnect, NextDestructor, CallInv
  <2>3. pc' \in {"notify_all", "join"} => worker' # FileProvider
    BY <1>6 DEF Stop, StopNotify, Join, Disconnect, NextDestructor, CallInv
  <2>4. CallInv'
    BY <1>2, <1>3, <2>1, <2>2, <2>3 DEF CallInv, Executing
  <2> QED
    BY <1>2, <1>3, <2>1, <2>4 DEF LogCount, CopyCount, Queueing
<1> QED
  BY <1>4, <1>5, <1>6 DEF QuietCall

(* One more command of the newest block is copied for the files. *)
LEMMA CopyStep ==
  ASSUME TypeOK, CallInv, Copy
  PROVE  /\ CallInv'
         /\ session \in Session /\ Newest \in 1..Newest /\ bulks[Newest].session = session
         /\ Command(Newest, pos + 1) \in Entry /\ pos + 1 \in 1..bulks[Newest].size
         /\ q_'[session] = Append(q_[session], Command(Newest, pos + 1))
         /\ \A s \in Session : s # session => q_'[s] = q_[s]
         /\ LogCount' = LogCount /\ CopyCount = pos /\ CopyCount' = pos + 1
         /\ Queueing /\ Queueing'
         /\ UNCHANGED <<bulks, session, log_queue_, file_queue_, threadVars, stop_flag_, closed, outVars>>
<1> USE DEF LogWorker, FileProvider
<1>1. /\ session \in Session \ closed /\ Newest \in 1..Newest /\ bulks[Newest].session = session
      /\ worker = FileProvider /\ pc = "copy" /\ pos \in Nat /\ pos < bulks[Newest].size
  BY DEF Copy, CallInv, Executing, TypeOK, Newest
<1>2. bulks[Newest].size \in Nat \ {0}
  BY <1>1, BlockType
<1>3. pos + 1 \in 1..bulks[Newest].size
  BY <1>1, <1>2
<1>4. Command(Newest, pos + 1) \in Entry
  BY <1>1, CommandType
<1>5. q_' = [q_ EXCEPT ![session] = Append(q_[session], Command(Newest, pos + 1))]
  BY DEF Copy, Copied, Command
<1>6. /\ q_'[session] = Append(q_[session], Command(Newest, pos + 1))
      /\ \A s \in Session : s # session => q_'[s] = q_[s]
  BY <1>1, <1>5 DEF TypeOK
<1>7. UNCHANGED <<bulks, session, worker, log_queue_, file_queue_, log_bulk_id, file_bulk_id,
                  threadVars, stop_flag_, closed, outVars>>
  BY DEF Copy, queueVars
<1>8. Newest' = Newest /\ file' = file
  BY <1>7 DEF Newest, outVars
<1>9. CASE pos + 1 = bulks[Newest].size
  <2>1. pc' = "pack" /\ pos' = 0
    BY <1>9 DEF Copy
  <2>2. CallInv'
    BY <1>1, <1>7, <1>8, <2>1 DEF CallInv, Executing
  <2> QED
    BY <1>1, <1>3, <1>4, <1>6, <1>7, <1>8, <1>9, <2>1, <2>2 DEF LogCount, CopyCount, Queueing
<1>10. CASE pos + 1 # bulks[Newest].size
  <2>1. pc' = "copy" /\ pos' = pos + 1 /\ pos + 1 < bulks[Newest].size
    BY <1>1, <1>2, <1>10 DEF Copy
  <2>2. CallInv'
    BY <1>1, <1>7, <1>8, <2>1 DEF CallInv, Executing
  <2> QED
    BY <1>1, <1>3, <1>4, <1>6, <1>7, <1>8, <2>1, <2>2 DEF LogCount, CopyCount, Queueing
<1> QED
  BY <1>9, <1>10

(* One more command of the newest block, or its file command, is queued. *)
LEMMA PushStep ==
  ASSUME TypeOK, CallInv, Push
  PROVE  /\ CallInv'
         /\ session \in Session \ closed /\ Newest \in 1..Newest /\ bulks[Newest].session = session
         /\ Pushed \in Entry /\ CopyCount' = CopyCount /\ Queueing /\ ~Stopping
         /\ UNCHANGED <<bulks, session, q_, threadVars, stop_flag_, closed, outVars>>
         /\ \/ /\ pos + 1 \in 1..bulks[Newest].size /\ Pushed = Command(Newest, pos + 1)
               /\ log_queue_'[session] = Append(log_queue_[session], Pushed)
               /\ \A s \in Session : s # session => log_queue_'[s] = log_queue_[s]
               /\ LogCount = pos /\ LogCount' = pos + 1 /\ Queueing'
               /\ UNCHANGED file_queue_
            \/ /\ Pushed = Command(Newest, Whole)
               /\ file_queue_'[session] = Append(file_queue_[session], Pushed)
               /\ \A s \in Session : s # session => file_queue_'[s] = file_queue_[s]
               /\ LogCount' = LogCount /\ ~Queueing'
               /\ UNCHANGED log_queue_
<1> USE DEF LogWorker, FileProvider
<1>1. /\ session \in Session \ closed /\ Newest \in 1..Newest /\ bulks[Newest].session = session
      /\ pc = "push" /\ pos \in Nat
  BY DEF Push, CallInv, Executing, TypeOK, Newest
<1>2. bulks[Newest].size \in Nat \ {0}
  BY <1>1, BlockType
<1>3. /\ Commands[pos + 1] = Pushed /\ Pushed \in Entry
      /\ Len(Commands) = IF worker = LogWorker THEN bulks[Newest].size ELSE 1
  BY <1>1, PushedEntry
<1>4. UNCHANGED <<bulks, session, worker, q_, log_bulk_id, file_bulk_id, threadVars,
                  stop_flag_, closed, outVars>>
  BY DEF Push
<1>5. Newest' = Newest /\ file' = file
  BY <1>4 DEF Newest, outVars
<1>6. CASE worker = LogWorker
  <2>1. pos + 1 \in 1..bulks[Newest].size /\ Pushed = Command(Newest, pos + 1)
    BY <1>1, <1>2, <1>6 DEF CallInv, Pushed
  <2>2. log_queue_' = [log_queue_ EXCEPT ![session] = Append(log_queue_[session], Pushed)]
    BY <1>3, <1>6 DEF Push
  <2>3. /\ log_queue_'[session] = Append(log_queue_[session], Pushed)
        /\ \A s \in Session : s # session => log_queue_'[s] = log_queue_[s]
        /\ UNCHANGED file_queue_
    BY <1>1, <1>6, <2>2 DEF TypeOK, Push
  <2>4. CASE pos + 1 = bulks[Newest].size
    <3>1. pc' = "start" /\ pos' = 0
      BY <1>3, <1>6, <2>4 DEF Push
    <3>2. CallInv'
      BY <1>1, <1>4, <1>5, <1>6, <3>1 DEF CallInv, Executing
    <3> QED
      BY <1>1, <1>3, <1>4, <1>5, <1>6, <2>1, <2>3, <2>4, <3>1, <3>2
      DEF LogCount, CopyCount, Queueing, Stopping
  <2>5. CASE pos + 1 # bulks[Newest].size
    <3>1. pc' = "push" /\ pos' = pos + 1 /\ pos + 1 < bulks[Newest].size
      BY <1>1, <1>2, <1>3, <1>6, <2>1, <2>5 DEF Push
    <3>2. CallInv'
      BY <1>1, <1>4, <1>5, <1>6, <3>1 DEF CallInv, Executing
    <3> QED
      BY <1>1, <1>3, <1>4, <1>5, <1>6, <2>1, <2>3, <3>1, <3>2
      DEF LogCount, CopyCount, Queueing, Stopping
  <2> QED
    BY <2>4, <2>5
<1>7. CASE worker # LogWorker
  <2>1. worker = FileProvider /\ pos = 0 /\ Pushed = Command(Newest, Whole)
    BY <1>1, <1>7 DEF CallInv, Pushed
  <2>2. pc' = "start" /\ pos' = 0
    BY <1>3, <1>7, <2>1 DEF Push
  <2>3. file_queue_' = [file_queue_ EXCEPT ![session] = Append(file_queue_[session], Pushed)]
    BY <1>3, <1>7 DEF Push
  <2>4. /\ file_queue_'[session] = Append(file_queue_[session], Pushed)
        /\ \A s \in Session : s # session => file_queue_'[s] = file_queue_[s]
        /\ UNCHANGED log_queue_
    BY <1>1, <1>7, <2>3 DEF TypeOK, Push
  <2>5. CallInv'
    BY <1>1, <1>4, <1>5, <2>1, <2>2 DEF CallInv, Executing
  <2> QED
    BY <1>1, <1>3, <1>4, <1>5, <2>1, <2>2, <2>4, <2>5
    DEF LogCount, CopyCount, Queueing, Stopping
<1> QED
  BY <1>6, <1>7

(* A thread does not touch the call in progress. *)
LEMMA ThreadCall ==
  ASSUME TypeOK, CallInv, NEW t \in Thread,
         \/ PopCommand(t) \/ PopFileCommand(t) \/ Open(t)
         \/ Write(t) \/ EndWrite(t) \/ QuietThread(t)
  PROVE  /\ CallInv' /\ Newest' = Newest /\ Len(file') = Len(file)
         /\ LogCount' = LogCount /\ CopyCount' = CopyCount /\ Queueing' = Queueing
         /\ UNCHANGED <<callVars, closed, stop_flag_>>
<1>1. UNCHANGED <<callVars, log_bulk_id, file_bulk_id, closed, stop_flag_>>
  BY DEF PopCommand, PopFileCommand, Open, Write, EndWrite, QuietThread, Lock, Test, Wait,
         Wakeup, PopNothing, Check, queueVars
<1>2. Len(file') = Len(file)
  <2>1. CASE Write(t)
    <3>1. file' = file \/ file' = [file EXCEPT ![bulk[t]] = Append(@, Head(q_[t[1]]))]
      BY <2>1 DEF Write
    <3>2. DOMAIN file' = DOMAIN file
      BY <3>1
    <3>3. Len(file) \in Nat /\ DOMAIN file = 1..Len(file)
      BY LenProperties DEF TypeOK
    <3>4. file = [j \in 1..Len(file) |-> file[j]]
      BY LenProperties DEF TypeOK
    <3>5. CASE file' = [file EXCEPT ![bulk[t]] = Append(@, Head(q_[t[1]]))]
      <4>1. file' = [j \in 1..Len(file) |->
                      IF j = bulk[t] THEN Append(file[j], Head(q_[t[1]])) ELSE file[j]]
        BY <3>3, <3>5
      <4> QED
        BY <3>3, <4>1
    <3> QED
      BY <3>1, <3>5
  <2>2. CASE ~Write(t)
    BY <2>2 DEF PopCommand, PopFileCommand, Open, EndWrite, QuietThread, Lock, Test, Wait,
         Wakeup, PopNothing, Check, outVars
  <2> QED
    BY <2>1, <2>2
<1>3. Newest' = Newest
  BY <1>1 DEF Newest, callVars
<1> QED
  BY <1>1, <1>2, <1>3 DEF CallInv, Executing, LogCount, CopyCount, Queueing, callVars

(* Every step keeps what is said of the call.                              *)
LEMMA NextCall ==
  ASSUME TypeOK, CallInv, [Next]_vars
  PROVE  CallInv'
<1>1. CASE UNCHANGED vars
  BY <1>1 DEF vars, callVars, queueVars, outVars, CallInv, Executing, Newest
<1> QED
  BY <1>1, NextCases, ExecuteCall, CopyStep, PushStep, QuietCallInv, ThreadCall

(* A step that only moves program counters changes no queue, no output and *)
(* no thread that has a file.                                              *)
Quiet ==
  /\ UNCHANGED <<bulks, log_queue_, file_queue_, q_, bulk, left, outVars>>
  /\ LogCount' = LogCount /\ CopyCount' = CopyCount /\ Queueing' = Queueing
  /\ \A t \in Thread : /\ tpc'[t] = "open" <=> tpc[t] = "open"
                       /\ tpc'[t] = "write" <=> tpc[t] = "write"

(* The steps that touch no queue, no file and no console are quiet.        *)
LEMMA QuietSteps ==
  ASSUME TypeOK, CallInv,
         UNCHANGED vars \/ QuietCall \/ \E t \in Thread : QuietThread(t)
  PROVE  Quiet
<1>1. CASE UNCHANGED vars
  BY <1>1 DEF vars, callVars, queueVars, threadVars, outVars, Quiet, LogCount, CopyCount,
              Queueing, Newest
<1>2. CASE QuietCall
  <2>1. \A t \in Thread : /\ tpc'[t] = "open" <=> tpc[t] = "open"
                          /\ tpc'[t] = "write" <=> tpc[t] = "write"
    BY <1>2 DEF QuietCall, Pack, Start, Notify, NotifyOne, Stop, StopNotify, NotifyAll, Join,
                Disconnect, Blocked, threadVars, TypeOK
  <2>2. /\ LogCount' = LogCount /\ CopyCount' = CopyCount /\ Queueing' = Queueing
        /\ UNCHANGED <<bulks, log_queue_, file_queue_, q_, bulk, left, outVars>>
    BY <1>2, QuietCallInv
  <2> QED
    BY <2>1, <2>2 DEF Quiet
<1>3. ASSUME NEW t \in Thread, QuietThread(t)
      PROVE  Quiet
  <2>1. UNCHANGED <<bulks, log_queue_, file_queue_, q_, bulk, left, outVars>>
    BY <1>3 DEF QuietThread, Lock, Test, Wait, Wakeup, PopNothing, Check, callVars, queueVars
  <2>2. /\ tpc[t] \notin {"open", "write"} /\ tpc'[t] \notin {"open", "write"}
        /\ \A u \in Thread : u # t => tpc'[u] = tpc[u]
    <3>1. /\ tpc[t] \notin {"open", "write"}
          /\ \E p \in ThreadPC \ {"open", "write"} : tpc' = [tpc EXCEPT ![t] = p]
      BY <1>3 DEF QuietThread, Lock, Test, Wait, Wakeup, PopNothing, Check, Goto, AfterCheck, ThreadPC
    <3>2. tpc \in [Thread -> ThreadPC]
      BY DEF TypeOK
    <3> QED
      BY <3>1, <3>2
  <2> QED
    BY <1>3, <2>1, <2>2, ThreadCall DEF Quiet
<1> QED
  BY <1>1, <1>2, <1>3

(* The same parts of Next, as the other proofs use them. *)
LEMMA Steps ==
  ASSUME TypeOK, CallInv, [Next]_vars
  PROVE  \/ Quiet
         \/ \E s \in Session, n \in Size : Execute(s, n)
         \/ Copy \/ Push
         \/ \E t \in Thread : PopCommand(t) \/ PopFileCommand(t) \/ Open(t)
                              \/ Write(t) \/ EndWrite(t)
  BY NextCases, QuietSteps

(* A new block is a command of its session; nothing of it was pushed yet.  *)
LEMMA ExecuteStep ==
  ASSUME TypeOK, CallInv, NEW s \in Session, NEW n \in Size, Execute(s, n)
  PROVE  /\ \A e : LogQueued(e)' <=> LogQueued(e)
         /\ \A e : CopyMade(e)' <=> CopyMade(e)
         /\ \A b \in 1..Newest : FileQueued(b)' /\ FileQueued(b)
         /\ ~FileQueued(Newest)'
         /\ \A e : IsCommand(e) => IsCommand(e)' /\ Owner(e)' = Owner(e)
         /\ \A r \in Session : /\ BlocksOf(r) \subseteq BlocksOf(r)'
                               /\ BlocksOf(r)' \subseteq BlocksOf(r) \union {Newest'}
         /\ ~Executing /\ LogCount' = 0 /\ CopyCount' = 0 /\ Newest' \in BlocksOf(s)'
         /\ UNCHANGED <<log_queue_, file_queue_, q_, threadVars, stop_flag_, closed, console, unopened>>
<1> USE DEF LogWorker, FileProvider
<1>1. /\ Newest \in Nat /\ Newest' = Newest + 1 /\ Newest' \in 1..Newest'
      /\ bulks'[Newest'] = [session |-> s, size |-> n]
      /\ \A b \in 1..Newest : bulks'[b] = bulks[b] /\ b \in 1..Newest'
      /\ \A b \in 1..Newest' : b \in 1..Newest \/ b = Newest'
  BY ExecuteCall
<1>2. /\ pc = "idle" /\ pc' = "pack" /\ worker' = LogWorker /\ pos' = 0
  BY DEF Execute
<1>3. LogCount' = 0 /\ CopyCount' = 0 /\ Queueing' /\ ~Queueing /\ ~Executing
      /\ LogCount = bulks[Newest].size /\ CopyCount = bulks[Newest].size
  BY <1>2 DEF LogCount, CopyCount, Queueing, Executing
<1>4. n \in Nat \ {0}
  BY SizeAssumption
<1>5. \A e : IsCommand(e) => IsCommand(e)' /\ Owner(e)' = Owner(e) /\ e.bulk < Newest'
  BY <1>1 DEF IsCommand, Owner
<1>6. \A e : IsCommand(e)' => IsCommand(e) \/ (e.bulk = Newest' /\ e.cmd \in 1..n)
  BY <1>1 DEF IsCommand
<1>7. \A e : IsCommand(e) => /\ e.bulk < Newest \/ e.cmd <= bulks[Newest].size
                             /\ e.cmd \in Nat
  <2>1. ASSUME NEW e, IsCommand(e)
        PROVE  (e.bulk < Newest \/ e.cmd <= bulks[Newest].size) /\ e.cmd \in Nat
    <3>1. e.bulk \in 1..Newest /\ e.cmd \in 1..bulks[e.bulk].size
      BY <2>1 DEF IsCommand
    <3>2. bulks[e.bulk].size \in Nat
      BY <3>1, BlockType
    <3> QED
      BY <1>1, <3>1, <3>2
  <2> QED
    BY <2>1
<1>8. \A e : LogQueued(e)' <=> LogQueued(e)
  BY <1>1, <1>3, <1>4, <1>5, <1>6, <1>7 DEF LogQueued
<1>9. \A e : CopyMade(e)' <=> CopyMade(e)
  BY <1>1, <1>3, <1>4, <1>5, <1>6, <1>7 DEF CopyMade
<1>10. (\A b \in 1..Newest : FileQueued(b)' /\ FileQueued(b)) /\ ~FileQueued(Newest)'
  BY <1>1, <1>3 DEF FileQueued
<1>11. /\ \A r \in Session : /\ BlocksOf(r) \subseteq BlocksOf(r)'
                             /\ BlocksOf(r)' \subseteq BlocksOf(r) \union {Newest'}
       /\ Newest' \in BlocksOf(s)'
  BY <1>1 DEF BlocksOf
<1>12. UNCHANGED <<log_queue_, file_queue_, q_, threadVars, stop_flag_, closed, console, unopened>>
  BY DEF Execute, queueVars
<1> QED
  BY <1>3, <1>5, <1>8, <1>9, <1>10, <1>11, <1>12

(* The log thread prints the head of the log queue. *)
LEMMA PopCommandStep ==
  ASSUME TypeOK, LogInv, FileInv, NEW t \in Thread, PopCommand(t)
  PROVE  /\ t[1] \in Session /\ t[2] = LogWorker
         /\ log_queue_[t[1]] \in Seq(Entry) /\ log_queue_[t[1]] # <<>>
         /\ log_queue_'[t[1]] = Tail(log_queue_[t[1]])
         /\ \A s \in Session : s # t[1] => log_queue_'[s] = log_queue_[s]
         /\ console' = Append(console, log_queue_[t[1]][1]) /\ log_queue_[t[1]][1] \in Entry
         /\ tpc[t] = "pop" /\ tpc'[t] = "check" /\ \A u \in Thread : u # t => tpc'[u] = tpc[u]
         /\ UNCHANGED <<bulks, file_queue_, q_, bulk, left, file, unopened>>
<1>1. QueueOf(t) # <<>> /\ Head(QueueOf(t)).cmd # Whole /\ t[1] \in Session
  BY ThreadParts DEF PopCommand
<1>2. /\ t[2] = LogWorker /\ QueueOf(t) \in Seq(Entry) /\ Head(QueueOf(t)) = QueueOf(t)[1]
      /\ QueueOf(t)[1] \in Entry
  BY <1>1, QueueHead
<1>3. QueueOf(t) = log_queue_[t[1]]
  BY <1>2 DEF QueueOf
<1>4. log_queue_' = [log_queue_ EXCEPT ![t[1]] = Tail(@)] /\ UNCHANGED file_queue_
  BY <1>2 DEF PopCommand, PopQueue
<1>5. /\ log_queue_'[t[1]] = Tail(log_queue_[t[1]])
      /\ \A s \in Session : s # t[1] => log_queue_'[s] = log_queue_[s]
  BY <1>1, <1>4 DEF TypeOK
<1>6. tpc[t] = "pop" /\ tpc'[t] = "check" /\ \A u \in Thread : u # t => tpc'[u] = tpc[u]
  BY DEF PopCommand, Goto, TypeOK
<1> QED
  BY <1>1, <1>2, <1>3, <1>4, <1>5, <1>6 DEF PopCommand, callVars

(* A file thread takes the head of the file queue. *)
LEMMA PopFileStep ==
  ASSUME TypeOK, LogInv, FileInv, NEW t \in Thread, PopFileCommand(t)
  PROVE  /\ t[1] \in Session /\ t[2] # LogWorker
         /\ file_queue_[t[1]] \in Seq(Entry) /\ file_queue_[t[1]] # <<>>
         /\ file_queue_'[t[1]] = Tail(file_queue_[t[1]])
         /\ \A s \in Session : s # t[1] => file_queue_'[s] = file_queue_[s]
         /\ bulk[t] = 0 /\ bulk'[t] = file_queue_[t[1]][1].bulk
         /\ tpc'[t] = "open" /\ tpc[t] = "pop"
         /\ \A u \in Thread : u # t => tpc'[u] = tpc[u] /\ bulk'[u] = bulk[u]
         /\ UNCHANGED <<bulks, log_queue_, q_, left, outVars>>
<1>1. QueueOf(t) # <<>> /\ Head(QueueOf(t)).cmd = Whole /\ t[1] \in Session
  BY ThreadParts DEF PopFileCommand
<1>2. t[2] # LogWorker /\ QueueOf(t) \in Seq(Entry) /\ Head(QueueOf(t)) = QueueOf(t)[1]
  BY <1>1, QueueHead
<1>3. QueueOf(t) = file_queue_[t[1]]
  BY <1>2 DEF QueueOf
<1>4. file_queue_' = [file_queue_ EXCEPT ![t[1]] = Tail(@)] /\ UNCHANGED log_queue_
  BY <1>2 DEF PopFileCommand, PopQueue
<1>5. /\ file_queue_'[t[1]] = Tail(file_queue_[t[1]])
      /\ \A s \in Session : s # t[1] => file_queue_'[s] = file_queue_[s]
  BY <1>1, <1>4 DEF TypeOK
<1>6. /\ tpc[t] = "pop" /\ tpc'[t] = "open" /\ bulk'[t] = Head(QueueOf(t)).bulk
      /\ \A u \in Thread : u # t => tpc'[u] = tpc[u] /\ bulk'[u] = bulk[u]
  BY DEF PopFileCommand, Goto, TypeOK
<1>7. bulk[t] = 0
  BY <1>6 DEF FileInv
<1> QED
  BY <1>1, <1>2, <1>3, <1>4, <1>5, <1>6, <1>7 DEF PopFileCommand, callVars

-----------------------------------------------------------------------------
(* The log queue and the console. *)

(* The order of entries is strict.                                         *)
LEMMA BeforeIsStrict ==
  ASSUME NEW d \in Entry, NEW e \in Entry
  PROVE  ~Before(d, d) /\ (Before(d, e) => ~Before(e, d) /\ d # e)
  BY SizeAssumption DEF Before, Entry

(* A step that touches neither, and pushes nothing, keeps the invariant. *)
LEMMA PrintedFrame ==
  ASSUME PrintedInOrder, UNCHANGED <<bulks, console>>
  PROVE  PrintedInOrder'
<1>1. Newest' = Newest
  BY DEF Newest
<1> QED
  BY <1>1 DEF PrintedInOrder, IsCommand, Owner, BlocksOf, Before, Command

(* Nothing else matters to the log queue and the console.                  *)
LEMMA LogFrame ==
  ASSUME LogInv, PrintedInOrder, LogCount' = LogCount, UNCHANGED <<bulks, log_queue_, console>>
  PROVE  LogInv' /\ PrintedInOrder'
<1>1. Newest' = Newest
  BY DEF Newest
<1>2. LogInv'
  <2>1. \A e : (LogQueued(e)' <=> LogQueued(e)) /\ Owner(e)' = Owner(e)
    BY <1>1 DEF LogQueued, IsCommand, Owner
  <2>2. \A s : BlocksOf(s)' = BlocksOf(s)
    BY <1>1 DEF BlocksOf
  <2> QED
    BY <2>1, <2>2 DEF LogInv, Ordered, Before, In, Command
<1> QED
  BY <1>2, PrintedFrame

(* A new block has nothing in the log queue yet.                           *)
LEMMA LogExecute ==
  ASSUME TypeOK, CallInv, LogInv, PrintedInOrder,
         NEW s \in Session, NEW n \in Size, Execute(s, n)
  PROVE  LogInv' /\ PrintedInOrder'
<1>1. /\ \A e : LogQueued(e)' <=> LogQueued(e)
      /\ \A e : IsCommand(e) => IsCommand(e)' /\ Owner(e)' = Owner(e)
      /\ \A r \in Session : BlocksOf(r)' \subseteq BlocksOf(r) \union {Newest'}
      /\ LogCount' = 0 /\ UNCHANGED <<log_queue_, console>>
  BY ExecuteStep
<1>2. \A r \in Session : \A b \in BlocksOf(r)' : b \in BlocksOf(r) \/ b = Newest'
  BY <1>1
<1>3. /\ Newest \in Nat /\ Newest' = Newest + 1
      /\ \A b \in 1..Newest : bulks'[b] = bulks[b]
  BY ExecuteCall
<1>4. \A r \in Session : \A k \in 1..Len(log_queue_[r]) :
        IsCommand(log_queue_[r][k]) /\ LogQueued(log_queue_[r][k])
  BY DEF LogInv, LogQueued
<1>5. \A k \in 1..Len(console) : IsCommand(console[k]) /\ LogQueued(console[k])
  BY DEF LogInv, LogQueued
<1>6. ASSUME NEW r \in Session, NEW b \in BlocksOf(r)', NEW i \in 1..(bulks[b].size)',
             LogQueued(Command(b, i))'
      PROVE  b \in BlocksOf(r) /\ i \in 1..bulks[b].size
  <2>1. IsCommand(Command(b, i))
    BY <1>1, <1>6 DEF LogQueued
  <2>2. b \in 1..Newest /\ i \in 1..bulks[b].size
    BY <2>1 DEF IsCommand, Command
  <2> QED
    BY <1>2, <1>3, <2>2
<1>7. LogInv'
  <2>1. \A r \in Session : \A k \in 1..Len(log_queue_'[r]) :
          LogQueued(log_queue_[r][k])' /\ Owner(log_queue_[r][k])' = r
    BY <1>1, <1>4 DEF LogInv
  <2>2. \A r \in Session : Ordered(log_queue_[r])'
    BY <1>1 DEF LogInv, Ordered, Before
  <2>3. \A k \in 1..Len(console') : LogQueued(console[k])'
    BY <1>1, <1>5
  <2>4. \A r \in Session : \A k \in 1..Len(console'), j \in 1..Len(log_queue_'[r]) :
          Owner(console[k])' = r => Before(console[k], log_queue_[r][j])'
    BY <1>1, <1>5 DEF LogInv, Before
  <2>5. ASSUME NEW r \in Session, NEW b \in BlocksOf(r)', NEW i \in 1..(bulks[b].size)',
               LogQueued(Command(b, i))'
        PROVE  In(Command(b, i), console)' \/ In(Command(b, i), log_queue_[r])'
    <3>1. LogQueued(Command(b, i))
      BY <1>1, <2>5
    <3>2. In(Command(b, i), console) \/ In(Command(b, i), log_queue_[r])
      BY <1>6, <2>5, <3>1 DEF LogInv
    <3> QED
      BY <1>1, <3>2 DEF In, Command
  <2> QED
    BY <2>1, <2>2, <2>3, <2>4, <2>5 DEF LogInv
<1>8. PrintedInOrder'
  <2> SUFFICES ASSUME NEW k \in 1..Len(console)
               PROVE  /\ IsCommand(console[k])'
                      /\ \A j \in 1..(k - 1) : console[j] # console[k]
                      /\ \A b \in BlocksOf(Owner(console[k]))' : \A i \in 1..(bulks[b].size)' :
                           Before(Command(b, i), console[k]) =>
                             \E j \in 1..(k - 1) : console[j] = Command(b, i)
    BY <1>1 DEF PrintedInOrder, Before, Command
  <2>1. IsCommand(console[k]) /\ IsCommand(console[k])' /\ Owner(console[k])' = Owner(console[k])
    BY <1>1, <1>5
  <2>2. console[k].bulk \in 1..Newest /\ Owner(console[k]) \in Session
    BY <2>1, BlockType DEF IsCommand, Owner
  <2>3. ASSUME NEW b \in BlocksOf(Owner(console[k]))', NEW i \in 1..(bulks[b].size)',
               Before(Command(b, i), console[k])
        PROVE  b \in BlocksOf(Owner(console[k])) /\ i \in 1..bulks[b].size
    <3>1. b <= console[k].bulk
      BY <1>2, <1>3, <2>1, <2>2, <2>3 DEF Before, Command, BlocksOf
    <3>2. b # Newest'
      BY <1>3, <2>2, <3>1
    <3>3. b \in BlocksOf(Owner(console[k]))
      BY <1>2, <2>1, <2>2, <3>2
    <3> QED
      BY <1>3, <3>3 DEF BlocksOf
  <2> QED
    BY <2>1, <2>3, SMTT(30) DEF PrintedInOrder
<1> QED
  BY <1>7, <1>8

(* The command pushed is after all that were pushed before. *)
LEMMA LogPush ==
  ASSUME TypeOK, CallInv, LogInv, PrintedInOrder, Push
  PROVE  LogInv' /\ PrintedInOrder'
<1>1. CASE LogCount' = LogCount /\ UNCHANGED log_queue_
  <2>1. UNCHANGED <<bulks, console>>
    BY PushStep DEF outVars
  <2> QED
    BY <1>1, <2>1, LogFrame
<1>2. CASE ~(LogCount' = LogCount /\ UNCHANGED log_queue_)
  <2> PICK e0 : e0 = Command(Newest, pos + 1)
    OBVIOUS
  <2> DEFINE q == log_queue_[session]
             r == log_queue_'[session]
  <2>1. /\ session \in Session /\ Newest \in 1..Newest /\ bulks[Newest].session = session
        /\ pos + 1 \in 1..bulks[Newest].size /\ e0 \in Entry /\ r = Append(q, e0)
        /\ \A s \in Session : s # session => log_queue_'[s] = log_queue_[s]
        /\ LogCount = pos /\ LogCount' = pos + 1 /\ UNCHANGED <<bulks, console>>
    BY <1>2, PushStep DEF outVars
  <2>2. q \in Seq(Entry) /\ pos \in Nat /\ Newest \in Nat
    BY <2>1 DEF TypeOK
  <2>3. /\ Len(q) \in Nat /\ Len(r) = Len(q) + 1 /\ r[Len(q) + 1] = e0 /\ Len(q) + 1 \in 1..Len(r)
        /\ \A k \in 1..Len(q) : r[k] = q[k] /\ k \in 1..Len(r)
        /\ \A k \in 1..Len(r) : k \in 1..Len(q) \/ k = Len(q) + 1
    BY <2>1, <2>2, AppendEntries
  <2>4. Newest' = Newest
    BY <2>1 DEF Newest
  <2>5. /\ e0.bulk = Newest /\ e0.cmd = pos + 1
        /\ IsCommand(e0) /\ Owner(e0) = session /\ LogQueued(e0)'
    BY <2>1, <2>4 DEF Command, IsCommand, Owner, LogQueued
  <2>6. ASSUME NEW e, LogQueued(e)
        PROVE  LogQueued(e)' /\ Before(e, e0) /\ IsCommand(e)
    <3>1. e.bulk \in 1..Newest /\ e.cmd \in 1..bulks[e.bulk].size /\ (e.bulk < Newest \/ e.cmd <= pos)
      BY <2>1, <2>6 DEF LogQueued, IsCommand
    <3>2. bulks[e.bulk].size \in Nat
      BY <3>1, BlockType
    <3> QED
      BY <2>1, <2>2, <2>4, <2>5, <3>1, <3>2 DEF LogQueued, IsCommand, Before
  <2>7. ASSUME NEW s \in Session, NEW b \in BlocksOf(s), NEW i \in 1..bulks[b].size,
               LogQueued(Command(b, i))', ~LogQueued(Command(b, i))
        PROVE  Command(b, i) = e0 /\ s = session
    <3>1. b \in 1..Newest /\ bulks[b].session = s
      BY DEF BlocksOf
    <3>2. i \in Nat
      BY <3>1, BlockType
    <3>3. ~(b < Newest) /\ i <= pos + 1 /\ ~(i <= pos)
      BY <2>1, <2>4, <2>7, <3>1 DEF LogQueued, IsCommand, Command
    <3>4. b = Newest /\ i = pos + 1
      BY <2>2, <3>1, <3>2, <3>3
    <3> QED
      BY <2>1, <3>1, <3>4
  <2>8. LogInv'
    <3>1. ASSUME NEW s \in Session, NEW k \in 1..Len(log_queue_'[s])
          PROVE  LogQueued(log_queue_[s][k])' /\ Owner(log_queue_[s][k])' = s
      <4>1. \A e : Owner(e)' = Owner(e)
        BY <2>1 DEF Owner
      <4>2. CASE s # session \/ k \in 1..Len(q)
        <5>1. k \in 1..Len(log_queue_[s]) /\ log_queue_'[s][k] = log_queue_[s][k]
          BY <2>1, <2>3, <3>1, <4>2
        <5>2. LogQueued(log_queue_[s][k]) /\ Owner(log_queue_[s][k]) = s
          BY <5>1 DEF LogInv
        <5> QED
          BY <2>6, <4>1, <5>1, <5>2
      <4>3. CASE s = session /\ k = Len(q) + 1
        BY <2>3, <2>5, <4>1, <4>3
      <4> QED
        BY <2>3, <3>1, <4>2, <4>3
    <3>2. ASSUME NEW s \in Session
          PROVE  Ordered(log_queue_[s])'
      <4>1. CASE s # session
        <5>1. log_queue_'[s] = log_queue_[s] /\ Ordered(log_queue_[s])
          BY <2>1, <4>1 DEF LogInv
        <5> QED
          BY <5>1 DEF Ordered, Before
      <4>2. CASE s = session
        <5>1. \A k \in 1..Len(q) : Before(q[k], e0)
          BY <2>1, <2>6 DEF LogInv
        <5>2. \A k \in 1..Len(q) : \A j \in 1..(k - 1) : Before(q[j], q[k]) /\ j \in 1..Len(q)
          BY <2>1, <2>3 DEF LogInv, Ordered
        <5>3. \A j \in 1..((Len(q) + 1) - 1) : j \in 1..Len(q)
          BY <2>3
        <5>4. ASSUME NEW k \in 1..Len(r), NEW j \in 1..(k - 1)
              PROVE  Before(r[j], r[k])
          BY <2>3, <5>1, <5>2, <5>3
        <5> QED
          BY <4>2, <5>4 DEF Ordered, Before
      <4> QED
        BY <4>1, <4>2
    <3>3. \A k \in 1..Len(console') : LogQueued(console[k])'
      BY <2>1, <2>6 DEF LogInv
    <3>4. ASSUME NEW s \in Session, NEW k \in 1..Len(console), NEW j \in 1..Len(log_queue_'[s]),
                 Owner(console[k])' = s
          PROVE  Before(console[k], log_queue_[s][j])'
      <4>1. Owner(console[k]) = s /\ LogQueued(console[k])
        BY <2>1, <3>4 DEF LogInv, Owner
      <4>2. CASE s # session
        BY <2>1, <3>4, <4>1, <4>2, SMTT(30) DEF LogInv, Before
      <4>3. CASE s = session
        <5>1. CASE j \in 1..Len(q)
          <6>1. Before(console[k], q[j]) /\ r[j] = q[j]
            BY <2>1, <2>3, <4>1, <4>3, <5>1 DEF LogInv
          <6> QED
            BY <2>1, <4>3, <6>1 DEF Before
        <5>2. CASE j = Len(q) + 1
          <6>1. Before(console[k], r[j])
            BY <2>3, <2>6, <4>1, <5>2
          <6> QED
            BY <2>1, <4>3, <6>1 DEF Before
        <5> QED
          BY <2>3, <4>3, <5>1, <5>2
      <4> QED
        BY <4>2, <4>3
    <3>5. ASSUME NEW s \in Session, NEW b \in BlocksOf(s), NEW i \in 1..bulks[b].size,
                 LogQueued(Command(b, i))'
          PROVE  In(Command(b, i), console)' \/ In(Command(b, i), log_queue_[s])'
      <4>1. CASE LogQueued(Command(b, i))
        <5>1. In(Command(b, i), console) \/ In(Command(b, i), log_queue_[s])
          BY <4>1 DEF LogInv
        <5>2. In(Command(b, i), log_queue_[s]) => In(Command(b, i), log_queue_[s])'
          BY <2>1, <2>3 DEF In, Command
        <5> QED
          BY <2>1, <5>1, <5>2 DEF In, Command
      <4>2. CASE ~LogQueued(Command(b, i))
        <5>1. Command(b, i) = e0 /\ s = session
          BY <2>7, <3>5, <4>2
        <5>2. \E k \in 1..Len(r) : r[k] = Command(b, i)
          BY <2>3, <5>1
        <5> QED
          BY <5>1, <5>2 DEF In, Command
      <4> QED
        BY <4>1, <4>2
    <3>6. \A s \in Session : BlocksOf(s)' = BlocksOf(s)
      BY <2>1, <2>4 DEF BlocksOf
    <3> QED
      BY <2>1, <3>1, <3>2, <3>3, <3>4, <3>5, <3>6 DEF LogInv
  <2>9. PrintedInOrder'
    BY <2>1, PrintedFrame
  <2> QED
    BY <2>8, <2>9
<1> QED
  BY <1>1, <1>2

(* The command printed is the first of the queue, so all that come before  *)
(* it in its session were printed.                                         *)
LEMMA LogPop ==
  ASSUME TypeOK, CallInv, LogInv, FileInv, PrintedInOrder, NEW t \in Thread, PopCommand(t)
  PROVE  LogInv' /\ PrintedInOrder'
<1> DEFINE s0 == t[1]
           q == log_queue_[s0]
           r == log_queue_'[s0]
           h == q[1]
           n == Len(console)
<1>1. /\ s0 \in Session /\ q \in Seq(Entry) /\ q # <<>> /\ r = Tail(q) /\ h \in Entry
      /\ \A s \in Session : s # s0 => log_queue_'[s] = log_queue_[s]
      /\ console' = Append(console, h) /\ bulks' = bulks
  BY PopCommandStep
<1>2. /\ Len(q) \in Nat \ {0} /\ Len(r) \in Nat /\ 1 \in 1..Len(q)
      /\ \A k \in 1..Len(r) : r[k] = q[k + 1] /\ k + 1 \in 1..Len(q)
      /\ \A k \in 1..Len(q) : k = 1 \/ (k - 1 \in 1..Len(r) /\ r[k - 1] = q[k])
  BY <1>1, TailEntries
<1>3. /\ n \in Nat /\ Len(console') = n + 1 /\ console'[n + 1] = h
      /\ \A k \in 1..n : console'[k] = console[k] /\ k \in 1..Len(console')
      /\ \A k \in 1..Len(console') : k \in 1..n \/ k = n + 1
  <2>1. console \in Seq(Entry)
    BY DEF TypeOK
  <2> QED
    BY <1>1, <2>1, AppendEntries
<1>4. LogCount' = LogCount /\ Newest' = Newest
  BY ThreadCall
<1>5. \A e : /\ LogQueued(e)' <=> LogQueued(e)
             /\ Owner(e)' = Owner(e) /\ (IsCommand(e)' <=> IsCommand(e))
  BY <1>1, <1>4 DEF LogQueued, IsCommand, Owner
<1>6. \A s \in Session : BlocksOf(s)' = BlocksOf(s)
  BY <1>1, <1>4 DEF BlocksOf
<1>7. LogQueued(h) /\ Owner(h) = s0
  BY <1>1, <1>2 DEF LogInv
<1>8. \A k \in 1..Len(r) : Before(h, r[k])
  <2>1. ASSUME NEW k \in 1..Len(r)
        PROVE  1 \in 1..((k + 1) - 1)
    BY <1>2
  <2> QED
    BY <1>1, <1>2, <2>1 DEF LogInv, Ordered
<1>9. /\ \A k \in 1..Len(q) : q[k] \in Entry
      /\ \A k \in 1..n : console[k] \in Entry
  BY <1>1, ElementOfSeq DEF TypeOK
<1>10. LogInv'
  <2>1. ASSUME NEW s \in Session, NEW k \in 1..Len(log_queue_'[s])
        PROVE  LogQueued(log_queue_[s][k])' /\ Owner(log_queue_[s][k])' = s
    <3>1. CASE s # s0
      BY <1>1, <1>5, <2>1, <3>1 DEF LogInv
    <3>2. CASE s = s0
      <4>1. LogQueued(q[k + 1]) /\ Owner(q[k + 1]) = s0 /\ r[k] = q[k + 1]
        BY <1>1, <1>2, <2>1, <3>2 DEF LogInv
      <4> QED
        BY <1>5, <3>2, <4>1
    <3> QED
      BY <3>1, <3>2
  <2>2. ASSUME NEW s \in Session
        PROVE  Ordered(log_queue_[s])'
    <3>1. CASE s # s0
      <4>1. log_queue_'[s] = log_queue_[s] /\ Ordered(log_queue_[s])
        BY <1>1, <3>1 DEF LogInv
      <4> QED
        BY <4>1 DEF Ordered, Before
    <3>2. CASE s = s0
      <4>1. ASSUME NEW k \in 1..Len(r), NEW j \in 1..(k - 1)
            PROVE  Before(r[j], r[k])
        <5>1. j \in 1..Len(r) /\ j + 1 \in 1..((k + 1) - 1)
          BY <1>2
        <5> QED
          <6>1. Ordered(q)
            BY <1>1 DEF LogInv
          <6>2. k + 1 \in 1..Len(q) /\ r[k] = q[k + 1] /\ r[j] = q[j + 1]
            BY <1>2, <5>1
          <6> QED
            BY <5>1, <6>1, <6>2 DEF Ordered
      <4> QED
        BY <3>2, <4>1 DEF Ordered, Before
    <3> QED
      BY <3>1, <3>2
  <2>3. ASSUME NEW k \in 1..Len(console')
        PROVE  LogQueued(console[k])'
    BY <1>3, <1>5, <1>7 DEF LogInv
  <2>4. ASSUME NEW s \in Session, NEW k \in 1..Len(console'), NEW j \in 1..Len(log_queue_'[s]),
               Owner(console[k])' = s
        PROVE  Before(console[k], log_queue_[s][j])'
    <3>1. CASE k \in 1..n /\ s # s0
      <4>1. log_queue_'[s] = log_queue_[s] /\ console'[k] = console[k] /\ Owner(console[k]) = s
        BY <1>1, <1>3, <1>5, <2>4, <3>1
      <4>2. Before(console[k], log_queue_[s][j])
        BY <3>1, <4>1 DEF LogInv
      <4> QED
        BY <4>1, <4>2 DEF Before
    <3>2. CASE k \in 1..n /\ s = s0
      <4>1. Owner(console[k]) = s0 /\ j + 1 \in 1..Len(q) /\ r[j] = q[j + 1]
        BY <1>2, <1>3, <1>5, <2>4, <3>2
      <4>2. Before(console[k], q[j + 1])
        BY <1>1, <3>2, <4>1 DEF LogInv
      <4> QED
        BY <1>3, <3>2, <4>1, <4>2 DEF Before
    <3>3. CASE k = n + 1
      <4>1. s = s0
        BY <1>3, <1>5, <1>7, <2>4, <3>3
      <4> QED
        BY <1>3, <1>8, <2>4, <3>3, <4>1 DEF Before
    <3> QED
      BY <1>3, <3>1, <3>2, <3>3
  <2>5. ASSUME NEW s \in Session, NEW b \in BlocksOf(s), NEW i \in 1..bulks[b].size,
               LogQueued(Command(b, i))
        PROVE  In(Command(b, i), console)' \/ In(Command(b, i), log_queue_[s])'
    <3>1. CASE In(Command(b, i), console)
      BY <1>3, <3>1 DEF In, Command
    <3>2. CASE In(Command(b, i), log_queue_[s])
      <4>1. PICK k \in 1..Len(log_queue_[s]) : log_queue_[s][k] = Command(b, i)
        BY <3>2 DEF In
      <4>2. CASE s # s0
        BY <1>1, <4>1, <4>2 DEF In, Command
      <4>3. CASE s = s0 /\ k = 1
        <5>1. n + 1 \in 1..Len(console') /\ console'[n + 1] = Command(b, i)
          BY <1>3, <4>1, <4>3
        <5> QED
          BY <5>1 DEF In, Command
      <4>4. CASE s = s0 /\ k # 1
        <5>1. k - 1 \in 1..Len(r) /\ r[k - 1] = Command(b, i)
          BY <1>2, <4>1, <4>4
        <5> QED
          BY <4>4, <5>1 DEF In, Command
      <4> QED
        BY <4>2, <4>3, <4>4
    <3> QED
      BY <2>5, <3>1, <3>2 DEF LogInv
  <2> QED
    BY <1>1, <1>5, <1>6, <2>1, <2>2, <2>3, <2>4, <2>5 DEF LogInv
<1>11. PrintedInOrder'
  <2> SUFFICES ASSUME NEW k \in 1..Len(console')
               PROVE  /\ IsCommand(console'[k])
                      /\ \A j \in 1..(k - 1) : console'[j] # console'[k]
                      /\ \A b \in BlocksOf(Owner(console'[k])) : \A i \in 1..bulks[b].size :
                           Before(Command(b, i), console'[k]) =>
                             \E j \in 1..(k - 1) : console'[j] = Command(b, i)
    <3>1. \A s : BlocksOf(s)' = BlocksOf(s)
      BY <1>1, <1>4 DEF BlocksOf
    <3>2. bulks' = bulks
      BY <1>1
    <3> QED
      BY <1>5, <3>1, <3>2 DEF PrintedInOrder, Before, Command
  <2>1. CASE k \in 1..n
    <3>1. console'[k] = console[k] /\ \A j \in 1..(k - 1) : j \in 1..n /\ console'[j] = console[j]
      BY <1>3, <2>1
    <3> QED
      BY <2>1, <3>1 DEF PrintedInOrder
  <2>2. CASE k = n + 1
    <3>1. console'[k] = h /\ \A j \in 1..(k - 1) : j \in 1..n /\ console'[j] = console[j]
      BY <1>3, <2>2
    <3>2. ASSUME NEW j \in 1..n
          PROVE  console[j] # h
      <4>1. CASE Owner(console[j]) = s0
        <5>1. Before(console[j], h)
          BY <1>1, <1>2, <4>1 DEF LogInv
        <5> QED
          BY <1>1, <1>9, <5>1, BeforeIsStrict
      <4>2. CASE Owner(console[j]) # s0
        BY <1>7, <4>2
      <4> QED
        BY <4>1, <4>2
    <3>3. ASSUME NEW b \in BlocksOf(s0), NEW i \in 1..bulks[b].size, Before(Command(b, i), h)
          PROVE  \E j \in 1..n : console[j] = Command(b, i)
      <4>1. b \in 1..Newest
        BY DEF BlocksOf
      <4>2. i \in Nat /\ Newest \in Nat
        BY <4>1, BlockType
      <4>3. LogQueued(Command(b, i)) /\ Command(b, i) \in Entry
        <5>1. h.bulk \in 1..Newest /\ h.cmd \in Nat /\ (h.bulk < Newest \/ h.cmd <= LogCount)
          BY <1>1, <1>7 DEF LogQueued, IsCommand, Entry
        <5>2. b < h.bulk \/ (b = h.bulk /\ i < h.cmd)
          BY <3>3 DEF Before, Command
        <5>3. LogCount \in Nat
          <6>1. Newest \in 1..Newest
            BY <4>1, <4>2
          <6> QED
            BY <6>1, BlockType DEF LogCount, TypeOK
        <5>4. b < Newest \/ i <= LogCount
          BY <4>1, <4>2, <5>1, <5>2, <5>3
        <5> QED
          BY <4>1, <4>2, <5>4, CommandType DEF LogQueued, IsCommand, Command
      <4>4. ~In(Command(b, i), q)
        <5>1. ASSUME NEW k1 \in 1..Len(q), q[k1] = Command(b, i)
              PROVE  FALSE
          <6>1. k1 # 1
            BY <1>1, <3>3, <5>1, BeforeIsStrict
          <6>2. Before(h, q[k1])
            BY <1>2, <1>8, <6>1
          <6> QED
            BY <1>1, <3>3, <4>3, <5>1, <6>2, BeforeIsStrict
        <5> QED
          BY <5>1 DEF In
      <4> QED
        BY <1>1, <4>3, <4>4 DEF LogInv, In
    <3>4. IsCommand(h)
      BY <1>7 DEF LogQueued
    <3>5. \A j \in 1..n : j \in 1..(k - 1)
      BY <1>3, <2>2
    <3> QED
      BY <1>7, <3>1, <3>2, <3>3, <3>4, <3>5
  <2> QED
    BY <1>3, <2>1, <2>2
<1> QED
  BY <1>10, <1>11

(* Every step keeps the log queue's continuation of the console.           *)
LEMMA NextLog ==
  ASSUME TypeOK, CallInv, LogInv, FileInv, PrintedInOrder, [Next]_vars
  PROVE  LogInv' /\ PrintedInOrder'
<1>1. CASE Quiet
  BY <1>1, LogFrame DEF Quiet, outVars
<1>2. CASE Copy
  BY <1>2, CopyStep, LogFrame DEF outVars
<1>3. ASSUME NEW t \in Thread, PopFileCommand(t) \/ Open(t) \/ Write(t) \/ EndWrite(t)
      PROVE  LogInv' /\ PrintedInOrder'
  <2>1. LogCount' = LogCount /\ UNCHANGED bulks
    BY <1>3, ThreadCall DEF callVars
  <2>2. UNCHANGED <<log_queue_, console>>
    BY <1>3, PopFileStep DEF Open, Write, EndWrite, queueVars, outVars
  <2> QED
    BY <2>1, <2>2, LogFrame
<1> QED
  BY <1>1, <1>2, <1>3, Steps, LogExecute, LogPush, LogPop

-----------------------------------------------------------------------------
(* The file queue and the threads that have a file. *)

HasFile(t) == tpc[t] \in {"open", "write"}

(* Nothing else matters to the file commands.                              *)
LEMMA FileFrame ==
  ASSUME FileInv, Queueing' = Queueing, UNCHANGED <<bulks, file_queue_, bulk>>,
         \A t \in Thread : HasFile(t)' <=> HasFile(t)
  PROVE  FileInv'
<1>1. Newest' = Newest
  BY DEF Newest
<1>2. \A b : FileQueued(b)' <=> FileQueued(b)
  BY <1>1 DEF FileQueued
<1>3. \A s : BlocksOf(s)' = BlocksOf(s)
  BY <1>1 DEF BlocksOf
<1>4. \A t \in Thread : tpc'[t] \in {"open", "write"} <=> tpc[t] \in {"open", "write"}
  BY DEF HasFile
<1> QED
  BY <1>2, <1>3, <1>4 DEF FileInv

(* A new block has no file command yet.                                    *)
LEMMA FileExecute ==
  ASSUME TypeOK, CallInv, FileInv, NEW s \in Session, NEW n \in Size, Execute(s, n)
  PROVE  FileInv'
<1>1. /\ \A b \in 1..Newest : FileQueued(b)' /\ FileQueued(b)
      /\ \A r \in Session : BlocksOf(r) \subseteq BlocksOf(r)'
      /\ UNCHANGED <<file_queue_, bulk, tpc>>
  BY ExecuteStep DEF threadVars
<1>2. \A r \in Session : \A b \in BlocksOf(r) : b \in BlocksOf(r)' /\ FileQueued(b)'
  BY <1>1 DEF BlocksOf
<1>3. \A t \in Thread : t[1] \in Session
  BY ThreadParts
<1> QED
  BY <1>1, <1>2, <1>3 DEF FileInv

(* The file command pushed is that of the newest block, and so the last. *)
LEMMA FilePush ==
  ASSUME TypeOK, CallInv, FileInv, Push
  PROVE  FileInv'
<1>1. CASE Queueing' /\ UNCHANGED file_queue_
  <2>1. UNCHANGED <<bulks, threadVars>> /\ Queueing
    BY PushStep
  <2> QED
    BY <1>1, <2>1, FileFrame DEF threadVars, HasFile
<1>2. CASE ~(Queueing' /\ UNCHANGED file_queue_)
  <2> PICK e0 : e0 = Command(Newest, Whole)
    OBVIOUS
  <2> DEFINE q == file_queue_[session]
             r == file_queue_'[session]
  <2>1. /\ session \in Session /\ Newest \in 1..Newest /\ bulks[Newest].session = session
        /\ e0 \in Entry /\ r = Append(q, e0)
        /\ \A s \in Session : s # session => file_queue_'[s] = file_queue_[s]
        /\ Queueing /\ ~Queueing' /\ UNCHANGED <<bulks, bulk, tpc>>
    BY <1>2, PushStep DEF threadVars
  <2>2. q \in Seq(Entry) /\ Newest \in Nat /\ Newest' = Newest
    BY <2>1 DEF TypeOK, Newest
  <2>3. /\ Len(q) \in Nat /\ Len(r) = Len(q) + 1 /\ r[Len(q) + 1] = e0 /\ Len(q) + 1 \in 1..Len(r)
        /\ \A k \in 1..Len(q) : r[k] = q[k] /\ k \in 1..Len(r)
        /\ \A k \in 1..Len(r) : k \in 1..Len(q) \/ k = Len(q) + 1
    BY <2>1, <2>2, AppendEntries
  <2>4. e0.bulk = Newest /\ e0.cmd = Whole /\ Newest \in BlocksOf(session)
    BY <2>1 DEF Command, BlocksOf
  <2>5. /\ \A b : FileQueued(b)' /\ (FileQueued(b) => b < Newest)
        /\ \A s : BlocksOf(s)' = BlocksOf(s)
    BY <2>1, <2>2 DEF FileQueued, BlocksOf
  <2>6. ASSUME NEW s \in Session, NEW k \in 1..Len(file_queue_'[s])
        PROVE  /\ file_queue_'[s][k].cmd = Whole /\ file_queue_'[s][k].bulk \in BlocksOf(s)
               /\ \A j \in 1..(k - 1) : file_queue_'[s][j].bulk < file_queue_'[s][k].bulk
    <3>1. CASE s # session
      BY <2>1, <2>6, <3>1 DEF FileInv
    <3>2. CASE s = session /\ k \in 1..Len(q)
      <4>1. r[k] = q[k] /\ \A j \in 1..(k - 1) : r[j] = q[j]
        BY <2>3, <3>2
      <4> QED
        <5>1. /\ q[k].cmd = Whole /\ q[k].bulk \in BlocksOf(session)
              /\ \A j \in 1..(k - 1) : q[j].bulk < q[k].bulk
          BY <2>1, <3>2 DEF FileInv
        <5> QED
          BY <3>2, <4>1, <5>1
    <3>3. CASE s = session /\ k = Len(q) + 1
      <4>1. \A j \in 1..(k - 1) : j \in 1..Len(q) /\ r[j] = q[j]
        BY <2>3, <3>3
      <4>2. \A j \in 1..Len(q) : q[j].bulk < Newest
        BY <2>1, <2>5 DEF FileInv
      <4> QED
        BY <2>3, <2>4, <3>3, <4>1, <4>2
    <3> QED
      BY <2>3, <2>6, <3>1, <3>2, <3>3
  <2>7. ASSUME NEW t \in Thread, tpc[t] \in {"open", "write"}
        PROVE  \A k \in 1..Len(file_queue_'[t[1]]) : bulk[t] < file_queue_'[t[1]][k].bulk
    <3>1. CASE t[1] # session
      BY <2>1, <2>7, <3>1, ThreadParts DEF FileInv
    <3>2. CASE t[1] = session
      <4>1. bulk[t] < Newest /\ \A k \in 1..Len(q) : bulk[t] < q[k].bulk
        BY <2>5, <2>7, <3>2 DEF FileInv
      <4> QED
        BY <2>3, <2>4, <3>2, <4>1
    <3> QED
      BY <3>1, <3>2
  <2> QED
    BY <2>1, <2>5, <2>6, <2>7 DEF FileInv
<1> QED
  BY <1>1, <1>2

(* A popped file command is in one thread and in no queue.                 *)
LEMMA FilePop ==
  ASSUME TypeOK, CallInv, LogInv, FileInv, NEW t \in Thread, PopFileCommand(t)
  PROVE  FileInv'
<1> DEFINE s0 == t[1]
           q == file_queue_[s0]
           r == file_queue_'[s0]
<1>1. /\ s0 \in Session /\ t[2] # LogWorker /\ q \in Seq(Entry) /\ q # <<>> /\ r = Tail(q)
      /\ \A s \in Session : s # s0 => file_queue_'[s] = file_queue_[s]
      /\ bulk[t] = 0 /\ bulk'[t] = q[1].bulk /\ tpc'[t] = "open" /\ tpc[t] = "pop"
      /\ \A u \in Thread : u # t => tpc'[u] = tpc[u] /\ bulk'[u] = bulk[u]
      /\ bulks' = bulks
  BY PopFileStep
<1>2. /\ Len(q) \in Nat \ {0} /\ Len(r) \in Nat /\ 1 \in 1..Len(q)
      /\ \A k \in 1..Len(r) : r[k] = q[k + 1] /\ k + 1 \in 1..Len(q)
  BY <1>1, TailEntries
<1>3. Newest' = Newest /\ Queueing' = Queueing
  BY ThreadCall
<1>4. /\ \A b : FileQueued(b)' <=> FileQueued(b)
      /\ \A s : BlocksOf(s)' = BlocksOf(s)
  BY <1>1, <1>3 DEF FileQueued, BlocksOf
<1>5. /\ q[1].bulk \in BlocksOf(s0) /\ FileQueued(q[1].bulk)
      /\ \A k \in 1..Len(r) : q[1].bulk < r[k].bulk
  <2>1. ASSUME NEW k \in 1..Len(r)
        PROVE  1 \in 1..((k + 1) - 1)
    BY <1>2
  <2> QED
    BY <1>1, <1>2, <2>1 DEF FileInv
<1>6. ASSUME NEW s \in Session, NEW k \in 1..Len(file_queue_'[s])
      PROVE  /\ file_queue_'[s][k].cmd = Whole /\ file_queue_'[s][k].bulk \in BlocksOf(s)
             /\ FileQueued(file_queue_'[s][k].bulk)
             /\ \A j \in 1..(k - 1) : file_queue_'[s][j].bulk < file_queue_'[s][k].bulk
  <2>1. CASE s # s0
    BY <1>1, <1>6, <2>1, SMTT(30) DEF FileInv
  <2>2. CASE s = s0
    <3>1. \A j \in 1..(k - 1) : r[j] = q[j + 1] /\ j + 1 \in 1..((k + 1) - 1)
      <4>1. \A j \in 1..(k - 1) : j \in 1..Len(r) /\ j + 1 \in 1..((k + 1) - 1)
        BY <1>2, <1>6, <2>2
      <4> QED
        BY <1>2, <4>1
    <3>2. r[k] = q[k + 1] /\ k + 1 \in 1..Len(q)
      BY <1>2, <1>6, <2>2
    <3> QED
      <4>1. /\ q[k + 1].cmd = Whole /\ q[k + 1].bulk \in BlocksOf(s0) /\ FileQueued(q[k + 1].bulk)
            /\ \A j \in 1..((k + 1) - 1) : q[j].bulk < q[k + 1].bulk
        BY <1>1, <3>2 DEF FileInv
      <4> QED
        BY <2>2, <3>1, <3>2, <4>1
  <2> QED
    BY <2>1, <2>2
<1>7. ASSUME NEW u \in Thread, tpc'[u] \in {"open", "write"}
      PROVE  /\ u[2] # LogWorker /\ bulk'[u] \in BlocksOf(u[1]) /\ FileQueued(bulk'[u])
             /\ \A k \in 1..Len(file_queue_'[u[1]]) : bulk'[u] < file_queue_'[u[1]][k].bulk
             /\ \A v \in Thread : v # u => bulk'[v] # bulk'[u]
  <2>0. \A v \in Thread : HasFile(v) => bulk[v] \in BlocksOf(v[1]) /\ v[1] \in Session
    BY ThreadParts DEF FileInv, HasFile
  <2>1. ASSUME NEW v \in Thread, v # t
        PROVE  bulk[v] # q[1].bulk
    <3>1. CASE HasFile(v)
      <4>1. CASE v[1] = s0
        <5>1. bulk[v] < q[1].bulk /\ bulk[v] \in 1..Newest
          BY <1>2, <2>0, <3>1, <4>1 DEF FileInv, HasFile, BlocksOf
        <5> QED
          BY <5>1
      <4>2. CASE v[1] # s0
        BY <1>5, <2>0, <3>1, <4>2 DEF BlocksOf
      <4> QED
        BY <4>1, <4>2
    <3>2. CASE ~HasFile(v)
      BY <1>5, <3>2 DEF FileInv, HasFile, BlocksOf
    <3> QED
      BY <3>1, <3>2
  <2>2. CASE u = t
    BY <1>1, <1>5, <2>1, <2>2
  <2>3. CASE u # t
    <3>1. bulk'[u] = bulk[u] /\ tpc[u] \in {"open", "write"} /\ u[1] \in Session
      BY <1>1, <1>7, <2>3, ThreadParts
    <3>2. /\ u[2] # LogWorker /\ bulk[u] \in BlocksOf(u[1]) /\ FileQueued(bulk[u])
          /\ \A k \in 1..Len(file_queue_[u[1]]) : bulk[u] < file_queue_[u[1]][k].bulk
          /\ \A v \in Thread : v # u => bulk[v] # bulk[u]
      BY <3>1 DEF FileInv
    <3>3. \A k \in 1..Len(file_queue_'[u[1]]) : bulk[u] < file_queue_'[u[1]][k].bulk
      <4>1. CASE u[1] # s0
        BY <1>1, <3>1, <3>2, <4>1
      <4>2. CASE u[1] = s0
        <5>1. \A k \in 1..Len(q) : bulk[u] < q[k].bulk
          BY <3>2, <4>2
        <5> QED
          BY <1>2, <4>2, <5>1
      <4> QED
        BY <4>1, <4>2
    <3>4. \A v \in Thread : v # u => bulk'[v] # bulk[u]
      BY <1>1, <2>1, <2>3, <3>2
    <3> QED
      BY <3>1, <3>2, <3>3, <3>4
  <2> QED
    BY <2>2, <2>3
<1>8. \A u \in Thread : tpc'[u] \notin {"open", "write"} => bulk'[u] = 0
  BY <1>1 DEF FileInv
<1> QED
  BY <1>4, <1>6, <1>7, <1>8 DEF FileInv

(* A finished file command is gone.                                        *)
LEMMA FileEndWrite ==
  ASSUME TypeOK, CallInv, FileInv, NEW t \in Thread, EndWrite(t)
  PROVE  FileInv'
<1>1. /\ bulk'[t] = 0 /\ tpc'[t] = "check"
      /\ \A u \in Thread : u # t => tpc'[u] = tpc[u] /\ bulk'[u] = bulk[u]
      /\ UNCHANGED <<bulks, file_queue_>>
  BY DEF EndWrite, Goto, TypeOK, callVars, queueVars
<1>2. Newest' = Newest /\ Queueing' = Queueing
  BY ThreadCall
<1>3. /\ \A b : FileQueued(b)' <=> FileQueued(b)
      /\ \A s : BlocksOf(s)' = BlocksOf(s)
  BY <1>1, <1>2 DEF FileQueued, BlocksOf
<1>4. \A s : 0 \notin BlocksOf(s)
  BY DEF BlocksOf
<1>5. ASSUME NEW u \in Thread, tpc'[u] \in {"open", "write"}
      PROVE  /\ u # t /\ bulk'[u] = bulk[u] /\ tpc[u] \in {"open", "write"}
             /\ \A v \in Thread : v # u => bulk'[v] # bulk[u]
  BY <1>1, <1>4, <1>5 DEF FileInv
<1> QED
  BY <1>1, <1>3, <1>5 DEF FileInv

(* Every step keeps each file command in one place.                        *)
LEMMA NextFile ==
  ASSUME TypeOK, CallInv, LogInv, FileInv, [Next]_vars
  PROVE  FileInv'
<1>1. CASE Quiet
  BY <1>1, FileFrame DEF Quiet, HasFile
<1>2. CASE Copy
  <2>1. Queueing' = Queueing /\ UNCHANGED <<bulks, file_queue_, threadVars>>
    BY <1>2, CopyStep
  <2> QED
    BY <2>1, FileFrame DEF threadVars, HasFile
<1>3. ASSUME NEW t \in Thread, PopCommand(t) \/ Open(t) \/ Write(t)
      PROVE  FileInv'
  <2>1. Queueing' = Queueing /\ UNCHANGED bulks
    BY <1>3, ThreadCall DEF callVars
  <2>2. UNCHANGED <<file_queue_, bulk>>
    BY <1>3, PopCommandStep DEF Open, Write, queueVars
  <2>3. \A u \in Thread : HasFile(u)' <=> HasFile(u)
    BY <1>3 DEF PopCommand, Open, Write, Goto, HasFile, TypeOK
  <2> QED
    BY <2>1, <2>2, <2>3, FileFrame
<1> QED
  BY <1>1, <1>2, <1>3, Steps, FileExecute, FilePush, FilePop, FileEndWrite

-----------------------------------------------------------------------------
(* The life of a thread. *)

(* A new block makes its workers' queues not empty only when pushed.       *)
LEMMA ThreadExecute ==
  ASSUME TypeOK, CallInv, ThreadInv, NEW s \in Session, NEW n \in Size, Execute(s, n)
  PROVE  ThreadInv'
<1>1. /\ pc = "idle" /\ pc' = "pack" /\ worker' = LogWorker
      /\ UNCHANGED <<tpc, stop_flag_, closed, log_queue_, file_queue_>>
  BY DEF Execute, threadVars, queueVars
<1>2. \A r \in Session : BlocksOf(r)' \subseteq BlocksOf(r) \union {Newest'}
  BY ExecuteStep
<1>3. ASSUME NEW t \in Thread, tpc'[t] = "none", NEW b \in BlocksOf(t[1])'
      PROVE  b = Newest' /\ Executing' /\ (worker' < t[2] \/ (worker' = t[2] /\ pc' # "notify"))
  <2>1. t[1] \in Session /\ t[2] \in 0..thread_count
    BY ThreadParts
  <2>2. BlocksOf(t[1]) = {}
    BY <1>1, <1>3 DEF ThreadInv, Executing
  <2> QED
    BY <1>1, <1>2, <1>3, <2>1, <2>2, ThreadAssumption DEF Executing, LogWorker
<1> QED
  BY <1>1, <1>3 DEF ThreadInv, Stopping, QueueOf

(* Copying and queueing: no thread of the session was told to stop. *)
LEMMA ThreadQueueing ==
  ASSUME TypeOK, CallInv, ThreadInv, Copy \/ Pack \/ Push
  PROVE  ThreadInv'
<1>1. /\ pc \in {"copy", "pack", "push"} /\ pc' \in {"copy", "pack", "push", "start"}
      /\ UNCHANGED <<bulks, session, worker, tpc, stop_flag_, closed>>
  BY DEF Copy, Pack, Push, threadVars
<1>2. Newest' = Newest /\ \A s : BlocksOf(s)' = BlocksOf(s)
  BY <1>1 DEF Newest, BlocksOf
<1>3. ASSUME NEW t \in Thread, tpc[t] = "exited"
      PROVE  stop_flag_[t] /\ QueueOf(t)' = <<>>
  <2>1. stop_flag_[t] /\ QueueOf(t) = <<>> /\ t[1] \in closed
    BY <1>1, <1>3 DEF ThreadInv, Stopping
  <2>2. t[1] # session /\ t[1] \in Session
    BY <1>1, <2>1, ThreadParts DEF CallInv
  <2>3. CASE Push
    <3>1. log_queue_'[t[1]] = log_queue_[t[1]] /\ file_queue_'[t[1]] = file_queue_[t[1]]
      BY <2>2, <2>3, PushStep
    <3> QED
      BY <2>1, <3>1 DEF QueueOf
  <2>4. CASE Copy \/ Pack
    BY <2>1, <2>4 DEF QueueOf, Copy, Pack, queueVars
  <2> QED
    BY <2>1, <2>3, <2>4
<1>4. Executing /\ Executing' /\ ~Stopping /\ ~Stopping' /\ pc' # "notify"
  BY <1>1 DEF Executing, Stopping
<1> QED
  BY <1>1, <1>2, <1>3, <1>4 DEF ThreadInv

(* The thread of a worker is started when the call is past it. *)
LEMMA ThreadStart ==
  ASSUME TypeOK, CallInv, ThreadInv, Start \/ Notify
  PROVE  ThreadInv'
<1> USE ThreadAssumption DEF LogWorker, FileProvider, LastWorker
<1>1. /\ pc \in {"start", "notify"} /\ session \in Session /\ worker \in 0..LastWorker
      /\ Newest >= 1 /\ bulks[Newest].session = session
      /\ UNCHANGED <<bulks, stop_flag_, closed, log_queue_, file_queue_>>
  BY DEF Start, Notify, CallInv, Executing, TypeOK, queueVars
<1>2. Newest' = Newest /\ \A s : BlocksOf(s)' = BlocksOf(s)
  BY <1>1 DEF Newest, BlocksOf
<1>3. \A t \in Thread : /\ tpc'[t] = "none" => tpc[t] = "none"
                        /\ tpc'[t] = "exited" <=> tpc[t] = "exited"
                        /\ tpc[t] = "none" /\ t # Current => tpc'[t] = "none"
  BY DEF Start, Notify, NotifyOne, Blocked, TypeOK
<1>4. ~Stopping /\ ~Stopping'
  BY <1>1 DEF Start, Notify, NextWorker, Stopping
<1>5. ASSUME NEW t \in Thread, tpc'[t] = "none", NEW b \in BlocksOf(t[1])
      PROVE  b = Newest /\ Executing' /\ (worker' < t[2] \/ (worker' = t[2] /\ pc' # "notify"))
  <2>1. b = Newest /\ (worker < t[2] \/ (worker = t[2] /\ pc # "notify"))
    BY <1>3, <1>5 DEF ThreadInv
  <2>2. t[1] = session /\ t[2] \in 0..thread_count /\ t[2] # FileProvider
    BY <1>1, <2>1, ThreadParts DEF BlocksOf
  <2>3. worker < t[2]
    <3>1. CASE worker = t[2]
      <4>1. Start /\ t = Current /\ worker # FileProvider
        BY <1>1, <2>1, <2>2, <3>1, CurrentIsThread DEF Start, Notify
      <4>2. tpc'[t] # "none"
        BY <4>1 DEF Start, TypeOK
      <4> QED
        BY <1>5, <4>2
    <3> QED
      BY <2>1, <3>1
  <2>4. CASE NextWorker
    <3>1. worker # LastWorker /\ worker + 1 <= t[2]
      BY <1>1, <2>2, <2>3
    <3>2. worker' = worker + 1 /\ pc' \in {"copy", "pack"}
      BY <2>4, <3>1 DEF NextWorker
    <3> QED
      BY <1>1, <2>1, <2>2, <3>1, <3>2 DEF Executing
  <2>5. CASE ~NextWorker
    BY <2>1, <2>3, <2>5 DEF Start, Notify, Executing
  <2> QED
    BY <2>4, <2>5
<1>6. \A t \in Thread : t[1] \in closed => t # Current
  BY <1>1 DEF CallInv, Current
<1> QED
  BY <1>1, <1>2, <1>3, <1>4, <1>5, <1>6 DEF ThreadInv, QueueOf

(* The destructor passes a thread that never ran or that has left. *)
LEMMA ThreadNextDestructor ==
  ASSUME TypeOK, CallInv, ThreadInv, pc \in {"stop", "join"}, NextDestructor,
         worker # FileProvider => tpc[Current] \in {"none", "exited"},
         UNCHANGED <<bulks, tpc, stop_flag_, log_queue_, file_queue_>>
  PROVE  ThreadInv'
<1> USE ThreadAssumption DEF FileProvider, LastWorker
<1>1. /\ session \in Session /\ worker \in 0..LastWorker /\ Stopping /\ ~Executing /\ ~Executing'
      /\ Newest' = Newest
  BY DEF CallInv, TypeOK, Stopping, Executing, NextDestructor, Newest
<1>2. \A t \in Thread : tpc[t] = "none" => BlocksOf(t[1])' = {}
  BY <1>1 DEF ThreadInv, BlocksOf
<1>3. ASSUME NEW t \in Thread, t[1] = session, t[2] <= worker
      PROVE  tpc[t] \in {"none", "exited"}
  <2>1. CASE t[2] = worker
    <3>1. worker # FileProvider /\ t = Current
      BY <1>1, <1>3, <2>1, ThreadParts, CurrentIsThread
    <3> QED
      BY <3>1
  <2>2. CASE t[2] # worker
    <3>1. t[2] < worker
      BY <1>1, <1>3, <2>2, ThreadParts
    <3> QED
      BY <1>1, <1>3, <3>1 DEF ThreadInv
  <2> QED
    BY <2>1, <2>2
<1>4. CASE worker = LastWorker
  <2>1. closed' = closed \union {session} /\ ~Stopping'
    BY <1>4 DEF NextDestructor, Stopping
  <2>2. \A t \in Thread : t[2] <= worker
    BY <1>4, ThreadParts
  <2> QED
    BY <1>1, <1>2, <1>3, <2>1, <2>2 DEF ThreadInv, QueueOf
<1>5. CASE worker # LastWorker
  <2>1. closed' = closed /\ Stopping' /\ session' = session /\ worker' = worker + 1
    BY <1>5 DEF NextDestructor, Stopping
  <2>2. \A t \in Thread : t[2] < worker + 1 => t[2] <= worker
    BY <1>1, ThreadParts
  <2> QED
    BY <1>1, <1>2, <1>3, <2>1, <2>2 DEF ThreadInv, QueueOf
<1> QED
  BY <1>4, <1>5

(* The destructors stop and join one thread after the other.               *)
LEMMA ThreadStop ==
  ASSUME TypeOK, CallInv, ThreadInv,
         Stop \/ StopNotify \/ Join \/ \E s \in Session : Disconnect(s)
  PROVE  ThreadInv'
<1>1. UNCHANGED <<bulks, log_queue_, file_queue_>> /\ Newest' = Newest
  BY DEF Stop, StopNotify, Join, Disconnect, queueVars, Newest
<1>2. ~Executing /\ ~Executing'
  BY DEF Stop, StopNotify, Join, Disconnect, NextDestructor, Executing
<1>3. \A t \in Thread : tpc[t] = "none" => BlocksOf(t[1])' = {}
  BY <1>1, <1>2 DEF ThreadInv, BlocksOf
<1>4. CASE (Stop \/ Join) /\ NextDestructor
  <2>1. /\ pc \in {"stop", "join"} /\ UNCHANGED <<tpc, stop_flag_>>
        /\ worker # FileProvider => tpc[Current] \in {"none", "exited"}
    BY <1>4 DEF Stop, Join, Joined, NextDestructor, threadVars
  <2> QED
    BY <1>1, <1>4, <2>1, ThreadNextDestructor
<1>5. CASE Stop /\ ~NextDestructor
  <2>1. /\ worker # FileProvider /\ stop_flag_' = [stop_flag_ EXCEPT ![Current] = TRUE]
        /\ pc = "stop" /\ pc' = "notify_all" /\ UNCHANGED <<session, worker, closed, tpc>>
    BY <1>5 DEF Stop, threadVars
  <2>2. session \in Session /\ worker \in 0..LastWorker
    BY <2>1 DEF CallInv, TypeOK
  <2>3. \A t \in Thread : /\ stop_flag_[t] => stop_flag_'[t]
                         /\ stop_flag_'[t] => stop_flag_[t] \/ t[1] = session
    <3>1. Current[1] = session
      BY <2>1, <2>2, CurrentIsThread
    <3>2. \A t \in Thread : stop_flag_'[t] = IF t = Current THEN TRUE ELSE stop_flag_[t]
      BY <2>1 DEF TypeOK
    <3> QED
      BY <3>1, <3>2
  <2> QED
    BY <1>1, <1>2, <1>3, <2>1, <2>3 DEF ThreadInv, QueueOf, Stopping
<1>6. CASE StopNotify
  <2>1. /\ pc = "notify_all" /\ pc' = "join" /\ UNCHANGED <<session, worker, closed, stop_flag_>>
        /\ \A t \in Thread : /\ tpc'[t] = "none" <=> tpc[t] = "none"
                             /\ tpc'[t] = "exited" <=> tpc[t] = "exited"
    BY <1>6 DEF StopNotify, NotifyAll, Blocked
  <2> QED
    BY <1>1, <1>2, <1>3, <2>1 DEF ThreadInv, QueueOf, Stopping
<1>7. CASE \E s \in Session : Disconnect(s)
  <2>1. /\ pc = "idle" /\ pc' = "stop" /\ worker' = 0 /\ UNCHANGED <<closed, stop_flag_, tpc>>
    BY <1>7 DEF Disconnect, LogWorker, threadVars
  <2>2. \A t \in Thread : ~(t[2] < 0)
    BY ThreadParts, ThreadAssumption
  <2> QED
    BY <1>1, <1>2, <1>3, <2>1, <2>2 DEF ThreadInv, QueueOf, Stopping
<1> QED
  BY <1>4, <1>5, <1>6, <1>7 DEF Join

(* A thread's own steps: it leaves only when told to and its queue is      *)
(* empty, and nobody pops from the queue of one that has left.             *)
LEMMA ThreadMoves ==
  ASSUME TypeOK, CallInv, LogInv, FileInv, NEW t \in Thread,
         \/ PopCommand(t) \/ PopFileCommand(t) \/ Open(t)
         \/ Write(t) \/ EndWrite(t) \/ QuietThread(t)
  PROVE  /\ tpc[t] \notin {"none", "exited"} /\ tpc'[t] # "none"
         /\ tpc'[t] = "exited" => stop_flag_[t] /\ QueueOf(t) = <<>>
         /\ \A u \in Thread : u # t => tpc'[u] = tpc[u]
         /\ \A u \in Thread : QueueOf(u) = <<>> => QueueOf(u)' = <<>>
<1>1. tpc[t] \notin {"none", "exited"}
  BY DEF PopCommand, PopFileCommand, Open, Write, EndWrite, QuietThread, Lock, Test, Wait,
         Wakeup, PopNothing, Check
<1>2. \A u \in Thread : u # t => tpc'[u] = tpc[u]
  BY DEF PopCommand, PopFileCommand, Open, Write, EndWrite, QuietThread, Lock, Test, Wait,
         Wakeup, PopNothing, Check, Goto, TypeOK
<1>3. tpc'[t] # "none" /\ (tpc'[t] = "exited" => stop_flag_[t] /\ QueueOf(t) = <<>>)
  <2>1. CASE Check(t)
    BY <2>1 DEF Check, Goto, AfterCheck, TypeOK
  <2>2. CASE ~Check(t)
    BY <2>2 DEF PopCommand, PopFileCommand, Open, Write, EndWrite, QuietThread, Lock, Test, Wait,
         Wakeup, PopNothing, Goto, TypeOK
  <2> QED
    BY <2>1, <2>2
<1>4. ASSUME NEW u \in Thread, QueueOf(u) = <<>>
      PROVE  QueueOf(u)' = <<>>
  <2>1. u[1] \in Session
    BY ThreadParts
  <2>2. CASE PopCommand(t)
    <3>1. UNCHANGED file_queue_ /\ log_queue_[t[1]] # <<>>
          /\ \A s \in Session : s # t[1] => log_queue_'[s] = log_queue_[s]
      BY <2>2, PopCommandStep
    <3> QED
      BY <1>4, <2>1, <3>1 DEF QueueOf
  <2>3. CASE PopFileCommand(t)
    <3>1. UNCHANGED log_queue_ /\ file_queue_[t[1]] # <<>>
          /\ \A s \in Session : s # t[1] => file_queue_'[s] = file_queue_[s]
      BY <2>3, PopFileStep
    <3> QED
      BY <1>4, <2>1, <3>1 DEF QueueOf
  <2>4. CASE ~PopCommand(t) /\ ~PopFileCommand(t)
    <3>1. UNCHANGED <<log_queue_, file_queue_>>
      BY <2>4 DEF Open, Write, EndWrite, QuietThread, Lock, Test, Wait,
         Wakeup, PopNothing, Check, queueVars
    <3> QED
      BY <1>4, <3>1 DEF QueueOf
  <2> QED
    BY <2>2, <2>3, <2>4
<1> QED
  BY <1>1, <1>2, <1>3, <1>4

(* Every step keeps what is said of the threads.                           *)
LEMMA NextThread ==
  ASSUME TypeOK, CallInv, LogInv, FileInv, ThreadInv, [Next]_vars
  PROVE  ThreadInv'
<1>1. CASE UNCHANGED vars
  BY <1>1 DEF vars, callVars, queueVars, threadVars, ThreadInv, BlocksOf, Newest, Executing,
              Stopping, QueueOf
<1>2. ASSUME NEW t \in Thread,
             \/ PopCommand(t) \/ PopFileCommand(t) \/ Open(t)
             \/ Write(t) \/ EndWrite(t) \/ QuietThread(t)
      PROVE  ThreadInv'
  <2>1. /\ tpc[t] \notin {"none", "exited"} /\ tpc'[t] # "none"
        /\ tpc'[t] = "exited" => stop_flag_[t] /\ QueueOf(t) = <<>>
        /\ \A u \in Thread : u # t => tpc'[u] = tpc[u]
        /\ \A u \in Thread : QueueOf(u) = <<>> => QueueOf(u)' = <<>>
    BY <1>2, ThreadMoves
  <2>2. UNCHANGED <<callVars, closed, stop_flag_>>
    BY <1>2, ThreadCall
  <2>3. /\ UNCHANGED <<pc, session, worker, bulks>>
        /\ Executing' = Executing /\ Stopping' = Stopping /\ Newest' = Newest
        /\ \A s : BlocksOf(s)' = BlocksOf(s)
    BY <2>2 DEF callVars, Executing, Stopping, Newest, BlocksOf
  <2> QED
    BY <2>1, <2>2, <2>3 DEF ThreadInv
<1> QED
  BY <1>1, <1>2, NextCases, ThreadExecute, ThreadQueueing, ThreadStart, ThreadStop DEF QuietCall

-----------------------------------------------------------------------------
(* The shared queue of the file commands and the files. *)

(* The file of a block is a sequence of entries.                           *)
LEMMA FileType ==
  ASSUME TypeOK, CallInv, NEW b \in 1..Newest
  PROVE  file[b] \in Seq(Entry) /\ Len(file[b]) \in Nat
<1>1. file[b] \in Seq(Entry)
  BY ElementOfSeq DEF TypeOK, CallInv
<1> QED
  BY <1>1

(* A step that changes no queue and no file keeps the invariant; that a    *)
(* file is not opened only weakens it.                                     *)
LEMMA CopyFrame ==
  ASSUME CopyInv, FilesInOrder, EachCommandOnce, CopyCount' = CopyCount,
         UNCHANGED <<bulks, q_, file>>, unopened \subseteq unopened'
  PROVE  CopyInv' /\ FilesInOrder' /\ EachCommandOnce'
<1>1. Newest' = Newest
  BY DEF Newest
<1>2. \A e : (CopyMade(e)' <=> CopyMade(e)) /\ Owner(e)' = Owner(e)
  BY <1>1 DEF CopyMade, IsCommand, Owner
<1>3. \A s : BlocksOf(s)' = BlocksOf(s)
  BY <1>1 DEF BlocksOf
<1>4. CopyInv'
  <2>1. \A q : Ordered(q)' <=> Ordered(q)
    BY DEF Ordered, Before
  <2> QED
    BY <1>1, <1>2, <2>1, SMTT(30) DEF CopyInv, Before
<1>5. FilesInOrder'
  BY <1>1 DEF FilesInOrder, Ordered, Before
<1>6. /\ \A b, c \in 1..Newest' : \A j \in 1..Len(file'[b]), k \in 1..Len(file'[c]) :
           file'[b][j] = file'[c][k] => b = c /\ j = k
      /\ \A s \in Session : \A j, k \in 1..Len(q_'[s]) : q_'[s][j] = q_'[s][k] => j = k
      /\ \A b \in 1..Newest' : \A j \in 1..Len(file'[b]), s \in Session : ~In(file'[b][j], q_'[s])
  BY <1>1 DEF EachCommandOnce
<1>7. ASSUME NEW s \in Session, BlocksOf(s) \intersect unopened' = {},
             NEW b \in BlocksOf(s), NEW i \in 1..bulks[b].size, CopyMade(Command(b, i))
      PROVE  In(Command(b, i), q_[s]) \/ \E c \in BlocksOf(s) : In(Command(b, i), file[c])
  BY <1>7 DEF EachCommandOnce
<1> QED
  BY <1>2, <1>3, <1>4, <1>5, <1>6, <1>7 DEF EachCommandOnce, In, Command

(* A new block has no copies yet.                                          *)
LEMMA CopyExecute ==
  ASSUME TypeOK, CallInv, CopyInv, FilesInOrder, EachCommandOnce,
         NEW s0 \in Session, NEW n \in Size, Execute(s0, n)
  PROVE  CopyInv' /\ FilesInOrder' /\ EachCommandOnce'
<1>1. /\ \A e : CopyMade(e)' <=> CopyMade(e)
      /\ \A e : IsCommand(e) => IsCommand(e)' /\ Owner(e)' = Owner(e)
      /\ \A s \in Session : /\ BlocksOf(s) \subseteq BlocksOf(s)'
                            /\ BlocksOf(s)' \subseteq BlocksOf(s) \union {Newest'}
      /\ UNCHANGED <<q_, unopened>>
  BY ExecuteStep
<1>2. /\ Newest \in Nat /\ Newest' = Newest + 1
      /\ \A b \in 1..Newest : bulks'[b] = bulks[b] /\ file'[b] = file[b] /\ b \in 1..Newest'
      /\ \A b \in 1..Newest' : b \in 1..Newest \/ b = Newest'
      /\ file'[Newest'] = <<>>
  BY ExecuteCall
<1>3. \A b \in 1..Newest' : \A j \in 1..Len(file'[b]) : b \in 1..Newest /\ file'[b] = file[b]
  BY <1>2
<1>4. \A b \in 1..Newest : bulks[b].session \in Session
  BY BlockType
<1>5. CopyInv'
  <2>1. \A s \in Session : \A k \in 1..Len(q_[s]) : CopyMade(q_[s][k])' /\ Owner(q_[s][k])' = s
    BY <1>1 DEF CopyInv, CopyMade
  <2>2. \A s \in Session : Ordered(q_[s])
    BY DEF CopyInv
  <2>3. ASSUME NEW b \in 1..Newest', NEW j \in 1..Len(file'[b])
        PROVE  /\ CopyMade(file[b][j])' /\ Owner(file[b][j])' = bulks'[b].session
               /\ \A k \in 1..Len(q_'[bulks'[b].session]) : Before(file'[b][j], q_'[bulks'[b].session][k])
    <3>1. b \in 1..Newest /\ file'[b] = file[b] /\ bulks'[b] = bulks[b]
      BY <1>2, <1>3, <2>3
    <3>2. /\ CopyMade(file[b][j]) /\ Owner(file[b][j]) = bulks[b].session
          /\ \A k \in 1..Len(q_[bulks[b].session]) : Before(file[b][j], q_[bulks[b].session][k])
      BY <2>3, <3>1 DEF CopyInv
    <3>3. CopyMade(file[b][j])'
      BY <1>1, <3>1, <3>2
    <3>4. IsCommand(file[b][j]) /\ Owner(file[b][j])' = Owner(file[b][j])
      BY <1>1, <3>1, <3>2 DEF CopyMade
    <3> QED
      BY <1>1, <3>1, <3>2, <3>3, <3>4
  <2> QED
    BY <1>1, <2>1, <2>2, <2>3 DEF CopyInv, Ordered, Before
<1>6. FilesInOrder'
  <2>1. ASSUME NEW b \in 1..Newest', NEW k \in 1..Len(file'[b]), NEW j \in 1..(k - 1)
        PROVE  Before(file'[b][j], file'[b][k])
    BY <1>3, <2>1 DEF FilesInOrder, Ordered
  <2> QED
    BY <2>1 DEF FilesInOrder, Ordered, Before
<1>7. EachCommandOnce'
  <2>1. ASSUME NEW b \in 1..Newest', NEW c \in 1..Newest',
               NEW j \in 1..Len(file'[b]), NEW k \in 1..Len(file'[c]), file'[b][j] = file'[c][k]
        PROVE  b = c /\ j = k
    BY <1>3, <2>1 DEF EachCommandOnce
  <2>2. ASSUME NEW b \in 1..Newest', NEW j \in 1..Len(file'[b]), NEW s \in Session
        PROVE  ~In(file'[b][j], q_'[s])
    BY <1>1, <1>3, <2>2 DEF EachCommandOnce
  <2>3. ASSUME NEW s \in Session, BlocksOf(s)' \intersect unopened = {},
               NEW b \in BlocksOf(s)', NEW i \in 1..(bulks[b].size)', CopyMade(Command(b, i))
        PROVE  In(Command(b, i), q_'[s]) \/ \E c \in BlocksOf(s)' : In(Command(b, i), file'[c])
    <3>1. b \in 1..Newest /\ i \in 1..bulks[b].size
      BY <2>3 DEF CopyMade, IsCommand, Command
    <3>2. b \in BlocksOf(s) /\ BlocksOf(s) \intersect unopened = {}
      BY <1>1, <1>2, <2>3, <3>1
    <3>3. In(Command(b, i), q_[s]) \/ \E c \in BlocksOf(s) : In(Command(b, i), file[c])
      BY <2>3, <3>1, <3>2 DEF EachCommandOnce
    <3>4. \A c \in BlocksOf(s) : c \in BlocksOf(s)' /\ file'[c] = file[c]
      BY <1>1, <1>2 DEF BlocksOf
    <3> QED
      BY <1>1, <3>3, <3>4
  <2>4. \A s \in Session : \A j, k \in 1..Len(q_'[s]) : q_'[s][j] = q_'[s][k] => j = k
    BY <1>1 DEF EachCommandOnce
  <2> QED
    BY <1>1, <2>1, <2>2, <2>3, <2>4 DEF EachCommandOnce, In, Command
<1> QED
  BY <1>5, <1>6, <1>7

(* The command copied is after all that were copied before. *)
LEMMA CopyCopy ==
  ASSUME TypeOK, CallInv, CopyInv, FilesInOrder, EachCommandOnce, Copy
  PROVE  CopyInv' /\ FilesInOrder' /\ EachCommandOnce'
<1> PICK e0 : e0 = Command(Newest, pos + 1)
  OBVIOUS
<1> DEFINE q == q_[session]
           r == q_'[session]
<1>1. /\ session \in Session /\ Newest \in 1..Newest /\ bulks[Newest].session = session
      /\ pos + 1 \in 1..bulks[Newest].size /\ e0 \in Entry /\ r = Append(q, e0)
      /\ \A s \in Session : s # session => q_'[s] = q_[s]
      /\ CopyCount = pos /\ CopyCount' = pos + 1 /\ UNCHANGED <<bulks, file, unopened>>
  BY CopyStep DEF outVars
<1>2. q \in Seq(Entry) /\ pos \in Nat /\ Newest \in Nat /\ Newest' = Newest
  BY <1>1 DEF TypeOK, Newest
<1>3. /\ Len(q) \in Nat /\ Len(r) = Len(q) + 1 /\ r[Len(q) + 1] = e0 /\ Len(q) + 1 \in 1..Len(r)
      /\ \A k \in 1..Len(q) : r[k] = q[k] /\ k \in 1..Len(r)
      /\ \A k \in 1..Len(r) : k \in 1..Len(q) \/ k = Len(q) + 1
  BY <1>1, <1>2, AppendEntries
<1>4. /\ \A e : Owner(e)' = Owner(e)
      /\ \A s : BlocksOf(s)' = BlocksOf(s)
  BY <1>1, <1>2 DEF Owner, BlocksOf
<1>5. /\ e0.bulk = Newest /\ e0.cmd = pos + 1
      /\ IsCommand(e0) /\ Owner(e0) = session /\ CopyMade(e0)'
  BY <1>1, <1>2 DEF Command, IsCommand, Owner, CopyMade
<1>6. ASSUME NEW e, CopyMade(e)
      PROVE  CopyMade(e)' /\ Before(e, e0) /\ e # e0
  <2>1. e.bulk \in 1..Newest /\ e.cmd \in 1..bulks[e.bulk].size /\ (e.bulk < Newest \/ e.cmd <= pos)
    BY <1>1, <1>6 DEF CopyMade, IsCommand
  <2>2. bulks[e.bulk].size \in Nat
    BY <2>1, BlockType
  <2> QED
    BY <1>1, <1>2, <1>5, <2>1, <2>2 DEF CopyMade, IsCommand, Before
<1>7. ASSUME NEW s \in Session, NEW b \in BlocksOf(s), NEW i \in 1..bulks[b].size,
             CopyMade(Command(b, i))', ~CopyMade(Command(b, i))
      PROVE  Command(b, i) = e0 /\ s = session
  <2>1. b \in 1..Newest /\ bulks[b].session = s
    BY DEF BlocksOf
  <2>2. i \in Nat
    BY <2>1, BlockType
  <2>3. ~(b < Newest) /\ i <= pos + 1 /\ ~(i <= pos)
    BY <1>1, <1>2, <1>7, <2>1 DEF CopyMade, IsCommand, Command
  <2>4. b = Newest /\ i = pos + 1
    BY <1>2, <2>1, <2>2, <2>3
  <2> QED
    BY <1>1, <2>1, <2>4
<1>8. \A k \in 1..Len(q) : CopyMade(q[k]) /\ Before(q[k], e0) /\ q[k] # e0
  BY <1>1, <1>6 DEF CopyInv
<1>9. \A b \in 1..Newest : \A j \in 1..Len(file[b]) :
        CopyMade(file[b][j]) /\ Before(file[b][j], e0) /\ file[b][j] # e0
  BY <1>6 DEF CopyInv
<1>10. CopyInv'
  <2>1. ASSUME NEW s \in Session, NEW k \in 1..Len(q_'[s])
        PROVE  CopyMade(q_[s][k])' /\ Owner(q_[s][k])' = s
    <3>1. CASE s # session \/ k \in 1..Len(q)
      <4>1. k \in 1..Len(q_[s]) /\ q_'[s][k] = q_[s][k]
        BY <1>1, <1>3, <2>1, <3>1
      <4>2. CopyMade(q_[s][k]) /\ Owner(q_[s][k]) = s
        BY <4>1 DEF CopyInv
      <4> QED
        BY <1>4, <1>6, <4>1, <4>2
    <3>2. CASE s = session /\ k = Len(q) + 1
      BY <1>3, <1>4, <1>5, <3>2
    <3> QED
      BY <1>3, <2>1, <3>1, <3>2
  <2>2. ASSUME NEW s \in Session
        PROVE  Ordered(q_[s])'
    <3>1. CASE s # session
      <4>1. q_'[s] = q_[s] /\ Ordered(q_[s])
        BY <1>1, <3>1 DEF CopyInv
      <4> QED
        BY <4>1 DEF Ordered, Before
    <3>2. CASE s = session
      <4>1. \A k \in 1..Len(q) : \A j \in 1..(k - 1) : Before(q[j], q[k]) /\ j \in 1..Len(q)
        BY <1>1, <1>3 DEF CopyInv, Ordered
      <4>2. \A j \in 1..((Len(q) + 1) - 1) : j \in 1..Len(q)
        BY <1>3
      <4>3. ASSUME NEW k \in 1..Len(r), NEW j \in 1..(k - 1)
            PROVE  Before(r[j], r[k])
        BY <1>3, <1>8, <4>1, <4>2
      <4> QED
        BY <3>2, <4>3 DEF Ordered, Before
    <3> QED
      BY <3>1, <3>2
  <2>3. ASSUME NEW b \in 1..Newest, NEW j \in 1..Len(file[b]), NEW k \in 1..Len(q_'[bulks[b].session])
        PROVE  Before(file[b][j], q_'[bulks[b].session][k])
    <3>1. bulks[b].session \in Session
      BY BlockType
    <3>2. \A m \in 1..Len(q_[bulks[b].session]) : Before(file[b][j], q_[bulks[b].session][m])
      BY DEF CopyInv
    <3>3. CASE bulks[b].session # session
      BY <1>1, <3>1, <3>2, <3>3
    <3>4. CASE bulks[b].session = session
      BY <1>3, <1>9, <3>2, <3>4
    <3> QED
      BY <3>3, <3>4
  <2>4. \A b \in 1..Newest : \A j \in 1..Len(file[b]) :
          CopyMade(file[b][j])' /\ Owner(file[b][j])' = bulks[b].session
    <3>1. ASSUME NEW b \in 1..Newest, NEW j \in 1..Len(file[b])
          PROVE  CopyMade(file[b][j])' /\ Owner(file[b][j])' = bulks[b].session
      <4>1. CopyMade(file[b][j]) /\ Owner(file[b][j]) = bulks[b].session
        BY DEF CopyInv
      <4> QED
        BY <1>1, <1>4, <1>6, <4>1
    <3> QED
      BY <3>1
  <2> QED
    BY <1>1, <1>2, <2>1, <2>2, <2>3, <2>4 DEF CopyInv, Before
<1>11. FilesInOrder'
  BY <1>1, <1>2, SMTT(30) DEF FilesInOrder, Ordered, Before
<1>12. EachCommandOnce'
  <2>1. ASSUME NEW s \in Session, NEW j \in 1..Len(q_'[s]), NEW k \in 1..Len(q_'[s]),
               q_'[s][j] = q_'[s][k]
        PROVE  j = k
    <3>1. CASE s # session
      BY <1>1, <2>1, <3>1 DEF EachCommandOnce
    <3>2. CASE s = session
      <4>1. \A l, m \in 1..Len(q) : q[l] = q[m] => l = m
        BY <1>1 DEF EachCommandOnce
      <4> QED
        BY <1>3, <1>8, <2>1, <3>2, <4>1
    <3> QED
      BY <3>1, <3>2
  <2>2. ASSUME NEW b \in 1..Newest, NEW j \in 1..Len(file[b]), NEW s \in Session
        PROVE  ~In(file[b][j], q_'[s])
    <3>1. ~In(file[b][j], q_[s])
      BY DEF EachCommandOnce
    <3> QED
      <4>1. CASE s # session
        BY <1>1, <3>1, <4>1 DEF In
      <4>2. CASE s = session
        BY <1>3, <1>9, <3>1, <4>2 DEF In
      <4> QED
        BY <4>1, <4>2
  <2>3. ASSUME NEW s \in Session, BlocksOf(s) \intersect unopened = {},
               NEW b \in BlocksOf(s), NEW i \in 1..bulks[b].size, CopyMade(Command(b, i))'
        PROVE  In(Command(b, i), q_'[s]) \/ \E c \in BlocksOf(s) : In(Command(b, i), file[c])
    <3>1. CASE CopyMade(Command(b, i))
      <4>1. In(Command(b, i), q_[s]) \/ \E c \in BlocksOf(s) : In(Command(b, i), file[c])
        BY <2>3, <3>1 DEF EachCommandOnce
      <4>2. In(Command(b, i), q_[s]) => In(Command(b, i), q_'[s])
        BY <1>1, <1>3 DEF In
      <4> QED
        BY <4>1, <4>2
    <3>2. CASE ~CopyMade(Command(b, i))
      <4>1. Command(b, i) = e0 /\ s = session
        BY <1>7, <2>3, <3>2
      <4> QED
        BY <1>3, <4>1 DEF In
    <3> QED
      BY <3>1, <3>2
  <2>4. \A b, c \in 1..Newest : \A j \in 1..Len(file[b]), k \in 1..Len(file[c]) :
          file[b][j] = file[c][k] => b = c /\ j = k
    BY DEF EachCommandOnce
  <2>5. /\ \A b, c \in 1..Newest' : \A j \in 1..Len(file'[b]), k \in 1..Len(file'[c]) :
             file'[b][j] = file'[c][k] => b = c /\ j = k
        /\ \A b \in 1..Newest' : \A j \in 1..Len(file'[b]), s \in Session : ~In(file'[b][j], q_'[s])
    BY <1>1, <1>2, <2>2, <2>4
  <2>6. \A s \in Session : BlocksOf(s)' \intersect unopened' = {} =>
          \A b \in BlocksOf(s)' : \A i \in 1..bulks'[b].size :
            CopyMade(Command(b, i))' =>
              In(Command(b, i), q_'[s]) \/ \E c \in BlocksOf(s)' : In(Command(b, i), file'[c])
    BY <1>1, <1>4, <2>3
  <2> QED
    BY <2>1, <2>5, <2>6 DEF EachCommandOnce, In, Command
<1> QED
  BY <1>10, <1>11, <1>12

(* A file command moves the head of the shared queue to its file, or drops *)
(* it when the file is not open.                                           *)
LEMMA WriteStep ==
  ASSUME TypeOK, CallInv, FileInv, NEW t \in Thread, Write(t)
  PROVE  /\ t[1] \in Session /\ tpc[t] = "write"
         /\ bulk[t] \in BlocksOf(t[1]) /\ bulk[t] \in 1..Newest /\ bulks[bulk[t]].session = t[1]
         /\ q_[t[1]] \in Seq(Entry) /\ q_[t[1]] # <<>> /\ q_'[t[1]] = Tail(q_[t[1]])
         /\ \A s \in Session : s # t[1] => q_'[s] = q_[s]
         /\ \A b \in 1..Newest : b # bulk[t] => file'[b] = file[b]
         /\ file'[bulk[t]] = IF bulk[t] \in unopened THEN file[bulk[t]]
                             ELSE Append(file[bulk[t]], q_[t[1]][1])
         /\ left[t] \in Nat \ {0} /\ left'[t] = left[t] - 1
         /\ \A u \in Thread : u # t => left'[u] = left[u]
         /\ UNCHANGED <<bulks, log_queue_, file_queue_, tpc, bulk, console, unopened>>
<1>1. tpc[t] = "write" /\ left[t] > 0 /\ q_[t[1]] # <<>> /\ t[1] \in Session
  BY ThreadParts DEF Write
<1>2. bulk[t] \in BlocksOf(t[1]) /\ bulk[t] \in 1..Newest /\ bulks[bulk[t]].session = t[1]
  BY <1>1 DEF FileInv, BlocksOf
<1>3. q_[t[1]] \in Seq(Entry) /\ Head(q_[t[1]]) = q_[t[1]][1]
  BY <1>1, TailEntries DEF TypeOK
<1>4. /\ q_'[t[1]] = Tail(q_[t[1]])
      /\ \A s \in Session : s # t[1] => q_'[s] = q_[s]
  BY <1>1 DEF Write, Popped, TypeOK
<1>5. /\ left[t] \in Nat \ {0} /\ left'[t] = left[t] - 1
      /\ \A u \in Thread : u # t => left'[u] = left[u]
  BY <1>1 DEF Write, TypeOK
<1>6. /\ \A b \in 1..Newest : b # bulk[t] => file'[b] = file[b]
      /\ file'[bulk[t]] = IF bulk[t] \in unopened THEN file[bulk[t]]
                          ELSE Append(file[bulk[t]], q_[t[1]][1])
  <2>1. DOMAIN file = 1..Newest
    BY LenProperties DEF TypeOK, CallInv
  <2> QED
    BY <1>2, <1>3, <2>1 DEF Write
<1> QED
  BY <1>1, <1>2, <1>3, <1>4, <1>5, <1>6 DEF Write, callVars, queueVars

(* A copied command moves from the head of the queue to the end of a file. *)
LEMMA CopyWrite ==
  ASSUME TypeOK, CallInv, FileInv, CopyInv, FilesInOrder, EachCommandOnce,
         NEW t \in Thread, Write(t)
  PROVE  CopyInv' /\ FilesInOrder' /\ EachCommandOnce'
<1> DEFINE s0 == t[1]
           b0 == bulk[t]
           q == q_[s0]
           r == q_'[s0]
           h == q[1]
           n == Len(file[b0])
<1>1. /\ s0 \in Session /\ b0 \in 1..Newest /\ b0 \in BlocksOf(s0) /\ bulks[b0].session = s0
      /\ q \in Seq(Entry) /\ q # <<>> /\ r = Tail(q)
      /\ \A s \in Session : s # s0 => q_'[s] = q_[s]
      /\ \A b \in 1..Newest : b # b0 => file'[b] = file[b]
      /\ file'[b0] = IF b0 \in unopened THEN file[b0] ELSE Append(file[b0], h)
      /\ UNCHANGED <<bulks, unopened>>
  BY WriteStep
<1>2. /\ Len(q) \in Nat \ {0} /\ Len(r) \in Nat /\ 1 \in 1..Len(q) /\ h \in Entry
      /\ \A k \in 1..Len(r) : r[k] = q[k + 1] /\ k + 1 \in 1..Len(q)
      /\ \A k \in 1..Len(q) : k = 1 \/ (k - 1 \in 1..Len(r) /\ r[k - 1] = q[k])
  BY <1>1, TailEntries
<1>3. /\ n \in Nat
      /\ \A j \in 1..n : j \in 1..Len(file'[b0]) /\ file'[b0][j] = file[b0][j]
      /\ \A j \in 1..Len(file'[b0]) : j \in 1..n \/ (j = n + 1 /\ b0 \notin unopened /\ file'[b0][j] = h)
      /\ b0 \notin unopened => n + 1 \in 1..Len(file'[b0]) /\ file'[b0][n + 1] = h
  <2>1. file[b0] \in Seq(Entry) /\ n \in Nat
    BY <1>1, FileType
  <2>2. CASE b0 \in unopened
    BY <1>1, <2>1, <2>2
  <2>3. CASE b0 \notin unopened
    <3>1. file'[b0] = Append(file[b0], h)
      BY <1>1, <2>3
    <3> QED
      BY <1>2, <2>1, <2>3, <3>1, AppendEntries
  <2> QED
    BY <2>2, <2>3
<1>4. ASSUME NEW b \in 1..Newest, NEW j \in 1..Len(file'[b])
      PROVE  \/ j \in 1..Len(file[b]) /\ file'[b][j] = file[b][j]
             \/ b = b0 /\ j = n + 1 /\ file'[b][j] = h
  BY <1>1, <1>3
<1>5. \A b \in 1..Newest : \A j \in 1..Len(file[b]) : j \in 1..Len(file'[b]) /\ file'[b][j] = file[b][j]
  BY <1>1, <1>3
<1>6. CopyCount' = CopyCount /\ Newest' = Newest
  BY ThreadCall
<1>7. /\ \A e : CopyMade(e)' <=> CopyMade(e)
      /\ \A e : Owner(e)' = Owner(e)
      /\ \A s : BlocksOf(s)' = BlocksOf(s)
  BY <1>1, <1>6 DEF CopyMade, IsCommand, Owner, BlocksOf
<1>8. CopyMade(h) /\ Owner(h) = s0
  BY <1>1, <1>2 DEF CopyInv
<1>9. /\ \A k \in 1..Len(q) : q[k] \in Entry
      /\ \A b \in 1..Newest : \A j \in 1..Len(file[b]) : file[b][j] \in Entry
  BY <1>1, ElementOfSeq, FileType
<1>10. \A k \in 1..Len(r) : Before(h, r[k]) /\ h # r[k]
  <2>1. ASSUME NEW k \in 1..Len(r)
        PROVE  1 \in 1..((k + 1) - 1)
    BY <1>2
  <2>2. \A k \in 1..Len(r) : Before(h, r[k])
    BY <1>1, <1>2, <2>1 DEF CopyInv, Ordered
  <2> QED
    BY <1>2, <1>9, <2>2, BeforeIsStrict
<1>11. ASSUME NEW b \in 1..Newest, NEW j \in 1..Len(file[b])
       PROVE  file[b][j] # h /\ (bulks[b].session = s0 => Before(file[b][j], h))
  <2>1. CASE bulks[b].session = s0
    <3>1. Before(file[b][j], h)
      BY <1>2, <2>1 DEF CopyInv
    <3> QED
      BY <1>2, <1>9, <3>1, BeforeIsStrict
  <2>2. CASE bulks[b].session # s0
    BY <1>8, <2>2 DEF CopyInv
  <2> QED
    BY <2>1, <2>2
<1>12. ASSUME NEW s \in Session, NEW k \in 1..Len(q_'[s])
       PROVE  \E m \in 1..Len(q_[s]) : q_'[s][k] = q_[s][m]
  <2>1. CASE s = s0
    BY <1>2, <1>12, <2>1
  <2>2. CASE s # s0
    BY <1>1, <1>12, <2>2
  <2> QED
    BY <2>1, <2>2
<1>13. CopyInv'
  <2>1. ASSUME NEW s \in Session, NEW k \in 1..Len(q_'[s])
        PROVE  CopyMade(q_[s][k])' /\ Owner(q_[s][k])' = s
    <3>1. PICK m \in 1..Len(q_[s]) : q_'[s][k] = q_[s][m]
      BY <1>12
    <3>2. CopyMade(q_[s][m]) /\ Owner(q_[s][m]) = s
      BY DEF CopyInv
    <3> QED
      BY <1>7, <3>1, <3>2
  <2>2. ASSUME NEW s \in Session
        PROVE  Ordered(q_[s])'
    <3>1. CASE s # s0
      <4>1. q_'[s] = q_[s] /\ Ordered(q_[s])
        BY <1>1, <3>1 DEF CopyInv
      <4> QED
        BY <4>1 DEF Ordered, Before
    <3>2. CASE s = s0
      <4>1. ASSUME NEW k \in 1..Len(r), NEW j \in 1..(k - 1)
            PROVE  Before(r[j], r[k])
        <5>1. j \in 1..Len(r) /\ j + 1 \in 1..((k + 1) - 1)
          BY <1>2
        <5> QED
          <6>1. Ordered(q)
            BY <1>1 DEF CopyInv
          <6>2. k + 1 \in 1..Len(q) /\ r[k] = q[k + 1] /\ r[j] = q[j + 1]
            BY <1>2, <5>1
          <6> QED
            BY <5>1, <6>1, <6>2 DEF Ordered
      <4> QED
        BY <3>2, <4>1 DEF Ordered, Before
    <3> QED
      BY <3>1, <3>2
  <2>3. ASSUME NEW b \in 1..Newest, NEW j \in 1..Len(file'[b])
        PROVE  CopyMade(file[b][j])' /\ Owner(file[b][j])' = bulks[b].session
    <3>1. CASE j \in 1..Len(file[b]) /\ file'[b][j] = file[b][j]
      <4>1. CopyMade(file[b][j]) /\ Owner(file[b][j]) = bulks[b].session
        BY <3>1 DEF CopyInv
      <4> QED
        BY <1>7, <3>1, <4>1
    <3>2. CASE b = b0 /\ file'[b][j] = h
      BY <1>1, <1>7, <1>8, <3>2
    <3> QED
      BY <1>4, <3>1, <3>2
  <2>4. ASSUME NEW b \in 1..Newest, NEW j \in 1..Len(file'[b]), NEW k \in 1..Len(q_'[bulks[b].session])
        PROVE  Before(file'[b][j], q_'[bulks[b].session][k])
    <3>1. bulks[b].session \in Session
      BY BlockType
    <3>2. CASE j \in 1..Len(file[b]) /\ file'[b][j] = file[b][j]
      <4>1. PICK m \in 1..Len(q_[bulks[b].session]) : q_'[bulks[b].session][k] = q_[bulks[b].session][m]
        BY <1>12, <3>1
      <4> QED
        BY <3>2, <4>1 DEF CopyInv
    <3>3. CASE b = b0 /\ file'[b][j] = h
      BY <1>1, <1>10, <3>3
    <3> QED
      BY <1>4, <3>2, <3>3
  <2> QED
    BY <1>1, <1>6, <2>1, <2>2, <2>3, <2>4 DEF CopyInv, Before
<1>14. FilesInOrder'
  <2>1. ASSUME NEW b \in 1..Newest, NEW k \in 1..Len(file'[b]), NEW j \in 1..(k - 1)
        PROVE  Before(file'[b][j], file'[b][k])
    <3>1. Len(file[b]) \in Nat
      BY FileType
    <3>2. CASE k \in 1..Len(file[b])
      <4>1. j \in 1..Len(file[b])
        BY <3>1, <3>2
      <4>2. Before(file[b][j], file[b][k])
        BY <3>2 DEF FilesInOrder, Ordered
      <4> QED
        BY <1>5, <3>2, <4>1, <4>2
    <3>3. CASE b = b0 /\ k = n + 1 /\ file'[b][k] = h
      <4>1. j \in 1..Len(file[b])
        BY <1>3, <3>3
      <4> QED
        BY <1>1, <1>5, <1>11, <3>3, <4>1
    <3> QED
      BY <1>4, <3>2, <3>3
  <2> QED
    BY <1>6, <2>1 DEF FilesInOrder, Ordered, Before
<1>15. EachCommandOnce'
  <2>1. ASSUME NEW b \in 1..Newest, NEW c \in 1..Newest,
               NEW j \in 1..Len(file'[b]), NEW k \in 1..Len(file'[c]), file'[b][j] = file'[c][k]
        PROVE  b = c /\ j = k
    <3>1. CASE j \in 1..Len(file[b]) /\ file'[b][j] = file[b][j]
      <4>1. file'[c][k] # h
        BY <1>11, <2>1, <3>1
      <4>2. k \in 1..Len(file[c]) /\ file'[c][k] = file[c][k]
        BY <1>4, <4>1
      <4>3. file[b][j] = file[c][k]
        BY <2>1, <3>1, <4>2
      <4>4. \A d, e \in 1..Newest : \A l \in 1..Len(file[d]), m \in 1..Len(file[e]) :
              file[d][l] = file[e][m] => d = e /\ l = m
        BY DEF EachCommandOnce
      <4>5. j \in 1..Len(file[b]) /\ k \in 1..Len(file[c])
        BY <3>1, <4>2
      <4> QED
        BY <4>3, <4>4, <4>5
    <3>2. CASE b = b0 /\ j = n + 1 /\ file'[b][j] = h
      <4>1. ~(k \in 1..Len(file[c]) /\ file'[c][k] = file[c][k])
        BY <1>11, <2>1, <3>2
      <4> QED
        BY <1>4, <3>2, <4>1
    <3> QED
      BY <1>4, <3>1, <3>2
  <2>2. ASSUME NEW s \in Session, NEW j \in 1..Len(q_'[s]), NEW k \in 1..Len(q_'[s]),
               q_'[s][j] = q_'[s][k]
        PROVE  j = k
    <3>1. CASE s # s0
      BY <1>1, <2>2, <3>1 DEF EachCommandOnce
    <3>2. CASE s = s0
      <4>1. q[j + 1] = q[k + 1] /\ j + 1 \in 1..Len(q) /\ k + 1 \in 1..Len(q)
        BY <1>2, <2>2, <3>2
      <4>2. j + 1 = k + 1
        BY <1>1, <4>1 DEF EachCommandOnce
      <4> QED
        BY <4>2
    <3> QED
      BY <3>1, <3>2
  <2>3. ASSUME NEW b \in 1..Newest, NEW j \in 1..Len(file'[b]), NEW s \in Session
        PROVE  ~In(file'[b][j], q_'[s])
    <3> SUFFICES ASSUME NEW k \in 1..Len(q_'[s]), q_'[s][k] = file'[b][j] PROVE FALSE
      BY DEF In
    <3>1. PICK m \in 1..Len(q_[s]) : q_'[s][k] = q_[s][m]
      BY <1>12
    <3>2. CASE j \in 1..Len(file[b]) /\ file'[b][j] = file[b][j]
      <4>1. ~In(file[b][j], q_[s])
        BY <3>2 DEF EachCommandOnce
      <4>2. q_[s][m] = file[b][j]
        BY <3>1, <3>2
      <4> QED
        BY <4>1, <4>2 DEF In
    <3>3. CASE file'[b][j] = h
      <4>1. Owner(q_[s][m]) = s
        BY DEF CopyInv
      <4>2. s = s0
        BY <1>8, <3>1, <3>3, <4>1
      <4> QED
        BY <1>10, <3>3, <4>2
    <3> QED
      BY <1>4, <3>2, <3>3
  <2>4. ASSUME NEW s \in Session, BlocksOf(s) \intersect unopened = {},
               NEW b \in BlocksOf(s), NEW i \in 1..bulks[b].size, CopyMade(Command(b, i))
        PROVE  In(Command(b, i), q_'[s]) \/ \E c \in BlocksOf(s) : In(Command(b, i), file'[c])
    <3>1. CASE In(Command(b, i), q_[s])
      <4>1. PICK k \in 1..Len(q_[s]) : q_[s][k] = Command(b, i)
        BY <3>1 DEF In
      <4>2. CASE s # s0
        BY <1>1, <3>1, <4>2
      <4>3. CASE s = s0 /\ k = 1
        <5>1. b0 \notin unopened
          BY <1>1, <2>4, <4>3
        <5>2. n + 1 \in 1..Len(file'[b0]) /\ file'[b0][n + 1] = Command(b, i)
          BY <1>3, <4>1, <4>3, <5>1
        <5>3. In(Command(b, i), file'[b0])
          BY <5>2 DEF In
        <5> QED
          BY <1>1, <4>3, <5>3
      <4>4. CASE s = s0 /\ k # 1
        <5>1. k - 1 \in 1..Len(r) /\ r[k - 1] = Command(b, i)
          BY <1>2, <4>1, <4>4
        <5> QED
          BY <4>4, <5>1 DEF In
      <4> QED
        BY <4>2, <4>3, <4>4
    <3>2. ASSUME NEW c \in BlocksOf(s), In(Command(b, i), file[c])
          PROVE  In(Command(b, i), file'[c])
      BY <1>5, <3>2 DEF In, BlocksOf
    <3> QED
      BY <2>4, <3>1, <3>2 DEF EachCommandOnce
  <2>5. /\ \A b, c \in 1..Newest' : \A j \in 1..Len(file'[b]), k \in 1..Len(file'[c]) :
             file'[b][j] = file'[c][k] => b = c /\ j = k
        /\ \A b \in 1..Newest' : \A j \in 1..Len(file'[b]), s \in Session : ~In(file'[b][j], q_'[s])
    BY <1>6, <2>1, <2>3
  <2>6. \A s \in Session : BlocksOf(s)' \intersect unopened' = {} =>
          \A b \in BlocksOf(s)' : \A i \in 1..bulks'[b].size :
            CopyMade(Command(b, i))' =>
              In(Command(b, i), q_'[s]) \/ \E c \in BlocksOf(s)' : In(Command(b, i), file'[c])
    BY <1>1, <1>7, <2>4
  <2> QED
    BY <2>2, <2>5, <2>6 DEF EachCommandOnce, In, Command
<1> QED
  BY <1>13, <1>14, <1>15

(* Every step keeps each copied command in one place, and the order.       *)
LEMMA NextCopy ==
  ASSUME TypeOK, CallInv, LogInv, FileInv, CopyInv, FilesInOrder, EachCommandOnce, [Next]_vars
  PROVE  CopyInv' /\ FilesInOrder' /\ EachCommandOnce'
<1>1. CASE Quiet
  BY <1>1, CopyFrame DEF Quiet, outVars
<1>2. CASE Push
  <2>1. CopyCount' = CopyCount /\ UNCHANGED <<bulks, q_, outVars>>
    BY <1>2, PushStep
  <2> QED
    BY <2>1, CopyFrame DEF outVars
<1>3. ASSUME NEW t \in Thread, PopCommand(t) \/ PopFileCommand(t) \/ Open(t) \/ EndWrite(t)
      PROVE  CopyInv' /\ FilesInOrder' /\ EachCommandOnce'
  <2>1. CopyCount' = CopyCount /\ UNCHANGED bulks
    BY <1>3, ThreadCall DEF callVars
  <2>2. UNCHANGED <<q_, file>> /\ unopened \subseteq unopened'
    BY <1>3 DEF PopCommand, PopFileCommand, Open, EndWrite, outVars
  <2> QED
    BY <2>1, <2>2, CopyFrame
<1> QED
  BY <1>1, <1>2, <1>3, Steps, CopyExecute, CopyCopy, CopyWrite

=============================================================================
