--------------------------- MODULE QueueExecutorMT ---------------------------
(***************************************************************************)
(* The multithreaded executors of the sessions of one process, from the    *)
(* block Processor::exec_queue hands over to the console and the files:    *)
(*                                                                         *)
(*   QueueExecutorMulti::execute          hands the block to each worker,  *)
(*   QueueExecutorWithPackingDecorator    queues it for a thread,          *)
(*   QueueExecutorToFileInitializer       turns it into one file command,  *)
(*   QueueExecutorWithThread              the threads that run commands,   *)
(*   CommandQueueMT, BulkCommand          the queues and the file command. *)
(*                                                                         *)
(* Each session has one log queue, one file queue and one bulk queue; the  *)
(* condition variable all worker threads of the process wait on, and its   *)
(* mutex, are shared by the sessions.  A call of the library holds         *)
(* guard_mx, so one call at a time is in progress (pc, session, worker).   *)
(***************************************************************************)
EXTENDS Naturals, Sequences, FiniteSets

CONSTANTS
  Session,           (* The contexts of the library.                         *)
  NoSession,         (* No call is in progress.                              *)
  thread_count,      (* Threads of a session: one prints, the others write.  *)
  Size,              (* Sizes of a block, with the closing entry.            *)
  MaxBulk,           (* Bound: blocks executed by all sessions together.     *)
  SpuriousWakeup,    (* Whether a wait may return without a notification,    *)
  OpenFails          (* and opening a file may fail.                         *)

ASSUME SessionAssumption == NoSession \notin Session
ASSUME ThreadAssumption == thread_count \in Nat /\ thread_count >= 2
ASSUME SizeAssumption == Size \subseteq Nat \ {0} /\ MaxBulk \in Nat
ASSUME WakeupAssumption == SpuriousWakeup \in BOOLEAN /\ OpenFails \in BOOLEAN

(* workers_ of QueueExecutorMulti by index: the log thread, the provider   *)
(* of the file queue (it has no thread), the file threads.                 *)
LogWorker == 0
FileProvider == 1
LastWorker == thread_count
Thread == Session \X ((0..LastWorker) \ {FileProvider})

(* A queue entry is command i of a block, or the file command of a block.  *)
Whole == 0
Entry == [bulk : 1..MaxBulk, cmd : Nat]

VARIABLES
  bulks,        (* The blocks executed so far: their session and size.       *)
  pc,           (* Where the call in progress is,                            *)
  session,      (* the session it is made for,                               *)
  worker,       (* the worker it is dealing with                             *)
  pos,          (* and how many entries it has pushed for that worker.       *)
  log_queue_,   (* QueueExecutorMulti::log_queue_                            *)
  file_queue_,  (* and file_queue_,                                          *)
  log_bulk_id,  (* with their bulk_id_                                       *)
  file_bulk_id,
  q_,           (* QueueExecutorToFileInitializer::q_, of all its commands,  *)
  file_pushed,  (* History: how many entries file_queue_ ever took.          *)
  tpc,          (* Where each thread is,                                     *)
  finish,       (* what it has read of the queue in empty(),                 *)
  bulk,         (* the block whose file it writes                            *)
  left,         (* and how many commands it will still write.                *)
  stop_flag_,
  closed,       (* Sessions disconnected.                                    *)
  console,      (* History: what std::cout received                          *)
  file,         (* and what the file of each block received.                 *)
  unopened      (* Blocks whose file could not be opened.                    *)

callVars   == <<bulks, pc, session, worker, pos>>
queueVars  == <<log_queue_, file_queue_, log_bulk_id, file_bulk_id, file_pushed>>
threadVars == <<tpc, finish, bulk, left>>
outVars    == <<console, file, unopened>>
vars == <<callVars, queueVars, q_, threadVars, stop_flag_, closed, outVars>>

(* "none": not started; "lock": about to take cmd_wait_mx, by wait or      *)
(* after a wakeup; "test": in the predicate, with the mutex; "wait": the   *)
(* predicate was false, wait is about to block; "blocked": in the wait set.*)
ThreadPC == {"none", "lock", "test", "wait", "blocked", "pop", "open", "write",
             "check", "exited"}
CallPC == {"idle", "copy", "pack", "push", "start", "notify",
           "stop", "notify_all", "join"}

Init ==
  /\ bulks = <<>>
  /\ pc = "idle" /\ session = NoSession /\ worker = 0 /\ pos = 0
  /\ log_queue_ = [s \in Session |-> <<>>] /\ file_queue_ = [s \in Session |-> <<>>]
  /\ log_bulk_id = [s \in Session |-> 0] /\ file_bulk_id = [s \in Session |-> 0]
  /\ q_ = [s \in Session |-> <<>>]
  /\ file_pushed = [s \in Session |-> 0]
  /\ tpc = [t \in Thread |-> "none"]
  /\ finish = [t \in Thread |-> 0]
  /\ bulk = [t \in Thread |-> 0] /\ left = [t \in Thread |-> 0]
  /\ stop_flag_ = [t \in Thread |-> FALSE]
  /\ closed = {}
  /\ console = <<>> /\ file = <<>> /\ unopened = {}

-----------------------------------------------------------------------------
(* The condition variable. *)

Blocked == {t \in Thread : tpc[t] = "blocked"}

(* A thread in the predicate, or between it and the wait set, has the mutex. *)
MutexFree == \A t \in Thread : tpc[t] \notin {"test", "wait"}

NotifyOne ==
  IF Blocked = {} THEN UNCHANGED tpc
  ELSE \E t \in Blocked : tpc' = [tpc EXCEPT ![t] = "lock"]

NotifyAll == tpc' = [t \in Thread |-> IF t \in Blocked THEN "lock" ELSE tpc[t]]

-----------------------------------------------------------------------------
(* QueueExecutorMulti::execute, for the newest block. *)

Newest == Len(bulks)
Current == <<session, worker>>

(* The block leaves the input queue: bulk_size_ commands in an array. *)
Execute(s, n) ==
  /\ pc = "idle" /\ s \notin closed
  /\ Len(bulks) < MaxBulk
  /\ bulks' = Append(bulks, [session |-> s, size |-> n])
  /\ file' = Append(file, <<>>)
  /\ pc' = "pack" /\ session' = s /\ worker' = LogWorker /\ pos' = 0
  /\ UNCHANGED <<queueVars, q_, threadVars, stop_flag_, closed, console, unopened>>

(* Mutant of Copied: the commands are queued in the reverse order. *)
CopiedReversed(q) == <<[bulk |-> Newest, cmd |-> pos + 1]>> \o q

Copied(q) == Append(q, [bulk |-> Newest, cmd |-> pos + 1])

(* BulkCommand's constructor copies the array into the queue all file      *)
(* commands of the session share, one locked push per command.             *)
Copy ==
  /\ pc = "copy"
  /\ q_' = [q_ EXCEPT ![session] = Copied(@)]
  /\ IF pos + 1 = bulks[Newest].size
     THEN pc' = "pack" /\ pos' = 0
     ELSE pc' = pc /\ pos' = pos + 1
  /\ UNCHANGED <<bulks, session, worker, queueVars, threadVars, stop_flag_, closed, outVars>>

(* The array a worker is given: the commands, or the one file command. *)
Commands ==
  IF worker = FileProvider THEN <<[bulk |-> Newest, cmd |-> Whole]>>
  ELSE [i \in 1..bulks[Newest].size |-> [bulk |-> Newest, cmd |-> i]]

QueueBulkId == IF worker = LogWorker THEN log_bulk_id[session] ELSE file_bulk_id[session]

(* Mutant of IsNewBlock: every worker queues the commands. *)
IsNewBlockAlways == TRUE

(* Only the first worker of a queue to meet a block queues its commands. *)
IsNewBlock == QueueBulkId # Newest

(* QueueExecutorWithPackingDecorator::execute_from_array. *)
Pack ==
  /\ pc = "pack"
  /\ IF IsNewBlock
     THEN /\ pc' = "push"
          /\ IF worker = LogWorker
             THEN log_bulk_id' = [log_bulk_id EXCEPT ![session] = Newest]
                  /\ UNCHANGED file_bulk_id
             ELSE file_bulk_id' = [file_bulk_id EXCEPT ![session] = Newest]
                  /\ UNCHANGED log_bulk_id
     ELSE pc' = "start" /\ UNCHANGED <<log_bulk_id, file_bulk_id>>
  /\ UNCHANGED <<bulks, session, worker, pos, log_queue_, file_queue_, file_pushed,
                 q_, threadVars, stop_flag_, closed, outVars>>

Push ==
  /\ pc = "push"
  /\ IF worker = LogWorker
     THEN /\ log_queue_' = [log_queue_ EXCEPT ![session] = Append(@, Commands[pos + 1])]
          /\ UNCHANGED <<file_queue_, file_pushed>>
     ELSE /\ file_queue_' = [file_queue_ EXCEPT ![session] = Append(@, Commands[pos + 1])]
          /\ file_pushed' = [file_pushed EXCEPT ![session] = @ + 1]
          /\ UNCHANGED log_queue_
  /\ IF pos + 1 = Len(Commands)
     THEN pc' = "start" /\ pos' = 0
     ELSE pc' = pc /\ pos' = pos + 1
  /\ UNCHANGED <<bulks, session, worker, log_bulk_id, file_bulk_id, q_, threadVars,
                 stop_flag_, closed, outVars>>

(* Mutant of NextWorker: one worker too many. *)
NextWorkerBeyond ==
  /\ worker' = IF worker > LastWorker THEN 0 ELSE worker + 1
  /\ pc' = IF worker > LastWorker THEN "idle"
           ELSE IF worker + 1 = FileProvider THEN "copy" ELSE "pack"
  /\ session' = IF worker > LastWorker THEN NoSession ELSE session

(* On to the next worker, or back to the caller. *)
NextWorker ==
  /\ worker' = IF worker = LastWorker THEN 0 ELSE worker + 1
  /\ pc' = IF worker = LastWorker THEN "idle"
           ELSE IF worker + 1 = FileProvider THEN "copy" ELSE "pack"
  /\ session' = IF worker = LastWorker THEN NoSession ELSE session

(* QueueExecutorWithThread::execute: the thread is started by the first    *)
(* block.  The provider's decorator wraps no executor.                     *)
Start ==
  /\ pc = "start"
  /\ IF worker = FileProvider
     THEN NextWorker /\ UNCHANGED tpc
     ELSE /\ pc' = "notify"
          /\ tpc' = IF tpc[Current] = "none" THEN [tpc EXCEPT ![Current] = "lock"] ELSE tpc
          /\ UNCHANGED <<session, worker>>
  /\ UNCHANGED <<bulks, pos, queueVars, q_, finish, bulk, left, stop_flag_, closed, outVars>>

(* ... and notify_one wakes some thread, of this session or another. *)
Notify ==
  /\ pc = "notify"
  /\ NotifyOne
  /\ NextWorker
  /\ UNCHANGED <<bulks, pos, queueVars, q_, finish, bulk, left, stop_flag_, closed, outVars>>

-----------------------------------------------------------------------------
(* libasync_disconnect destroys the context and with it the workers. *)

Disconnect(s) ==
  /\ pc = "idle" /\ s \notin closed
  /\ pc' = "stop" /\ session' = s /\ worker' = LogWorker
  /\ UNCHANGED <<bulks, pos, queueVars, q_, threadVars, stop_flag_, closed, outVars>>

(* On to the next worker's destructor; after the last the session is gone. *)
NextDestructor ==
  IF worker = LastWorker
  THEN /\ pc' = "idle" /\ session' = NoSession /\ worker' = 0
       /\ closed' = closed \union {session}
  ELSE /\ pc' = "stop" /\ worker' = worker + 1
       /\ UNCHANGED <<session, closed>>

(* ~QueueExecutorWithThread: neither the flag nor the notification is      *)
(* under cmd_wait_mx.                                                      *)
Stop ==
  /\ pc = "stop"
  /\ IF worker = FileProvider \/ tpc[Current] = "none"
     THEN NextDestructor /\ UNCHANGED stop_flag_
     ELSE /\ stop_flag_' = [stop_flag_ EXCEPT ![Current] = TRUE]
          /\ pc' = "notify_all"
          /\ UNCHANGED <<session, worker, closed>>
  /\ UNCHANGED <<bulks, pos, queueVars, q_, threadVars, outVars>>

StopNotify ==
  /\ pc = "notify_all"
  /\ NotifyAll
  /\ pc' = "join"
  /\ UNCHANGED <<bulks, session, worker, pos, queueVars, q_, finish, bulk, left,
                 stop_flag_, closed, outVars>>

(* Mutant of Joined: the thread is detached instead. *)
Detached == TRUE

Joined == tpc[Current] = "exited"

Join ==
  /\ pc = "join"
  /\ Joined
  /\ NextDestructor
  /\ UNCHANGED <<bulks, pos, queueVars, q_, threadVars, stop_flag_, outVars>>

-----------------------------------------------------------------------------
(* QueueExecutorWithThread::execute_q, the loop of thread t = <<s, i>>.    *)
(* q_ there is the log queue or the file queue of the session.             *)

QueueOf(t) == IF t[2] = LogWorker THEN log_queue_[t[1]] ELSE file_queue_[t[1]]

(* empty() is not overridden by CommandQueueMT, so it reads the two ends   *)
(* of the queue one after the other, without the lock.                     *)
QueueEnd(t) == IF t[2] = LogWorker THEN Len(log_queue_[t[1]]) ELSE file_pushed[t[1]]
QueueFront(t) == QueueEnd(t) - Len(QueueOf(t))

Goto(t, p) == tpc' = [tpc EXCEPT ![t] = p]

(* The mutex is taken and the predicate begins: the end of the queue. *)
Lock(t) ==
  /\ tpc[t] = "lock"
  /\ MutexFree
  /\ Goto(t, "test")
  /\ finish' = [finish EXCEPT ![t] = QueueEnd(t)]
  /\ UNCHANGED <<callVars, queueVars, q_, bulk, left, stop_flag_, closed, outVars>>

(* The rest of the predicate: the front of the queue, and stop_flag_. *)
Test(t) ==
  LET empty == IF t[2] = LogWorker THEN finish[t] = 0 ELSE finish[t] = QueueFront(t)
  IN  /\ tpc[t] = "test"
      /\ Goto(t, IF ~empty \/ stop_flag_[t] THEN "pop" ELSE "wait")
      /\ finish' = [finish EXCEPT ![t] = 0]
      /\ UNCHANGED <<callVars, queueVars, q_, bulk, left, stop_flag_, closed, outVars>>

(* wait releases the mutex and blocks, at once. *)
Wait(t) ==
  /\ tpc[t] = "wait"
  /\ Goto(t, "blocked")
  /\ UNCHANGED <<callVars, queueVars, q_, finish, bulk, left, stop_flag_, closed, outVars>>

Wakeup(t) ==
  /\ SpuriousWakeup
  /\ tpc[t] = "blocked"
  /\ Goto(t, "lock")
  /\ UNCHANGED <<callVars, queueVars, q_, finish, bulk, left, stop_flag_, closed, outVars>>

PopQueue(t) ==
  IF t[2] = LogWorker
  THEN /\ log_queue_' = [log_queue_ EXCEPT ![t[1]] = Tail(@)]
       /\ UNCHANGED file_queue_
  ELSE /\ file_queue_' = [file_queue_ EXCEPT ![t[1]] = Tail(@)]
       /\ UNCHANGED log_queue_

(* A simple command, in a context whose stream is std::cout. *)
PopCommand(t) ==
  /\ tpc[t] = "pop"
  /\ QueueOf(t) # <<>> /\ Head(QueueOf(t)).cmd # Whole
  /\ PopQueue(t)
  /\ console' = Append(console, Head(QueueOf(t)))
  /\ Goto(t, "check")
  /\ UNCHANGED <<callVars, log_bulk_id, file_bulk_id, file_pushed, q_, finish, bulk, left,
                 stop_flag_, closed, file, unopened>>

(* A file command. *)
PopFileCommand(t) ==
  /\ tpc[t] = "pop"
  /\ QueueOf(t) # <<>> /\ Head(QueueOf(t)).cmd = Whole
  /\ PopQueue(t)
  /\ bulk' = [bulk EXCEPT ![t] = Head(QueueOf(t)).bulk]
  /\ Goto(t, "open")
  /\ UNCHANGED <<callVars, log_bulk_id, file_bulk_id, file_pushed, q_, finish, left,
                 stop_flag_, closed, outVars>>

PopNothing(t) ==
  /\ tpc[t] = "pop"
  /\ QueueOf(t) = <<>>
  /\ Goto(t, "check")
  /\ UNCHANGED <<callVars, queueVars, q_, finish, bulk, left, stop_flag_, closed, outVars>>

(* Mutants of Quota: all the queue has; nothing when the file is not open. *)
QuotaAll(cnt, size, opened) == size
QuotaIfOpen(cnt, size, opened) == IF ~opened THEN 0 ELSE IF cnt < size THEN cnt ELSE size

Quota(cnt, size, opened) == IF cnt < size THEN cnt ELSE size

(* CommandToFileInitDecorator opens the block's file and does not look     *)
(* whether it is open; BulkCommand takes its number of commands, or as     *)
(* many as there are.                                                      *)
Open(t) ==
  /\ tpc[t] = "open"
  /\ \E opened \in IF OpenFails THEN BOOLEAN ELSE {TRUE} :
       /\ unopened' = IF opened THEN unopened ELSE unopened \union {bulk[t]}
       /\ left' = [left EXCEPT ![t] = Quota(bulks[bulk[t]].size, Len(q_[t[1]]), opened)]
  /\ Goto(t, "write")
  /\ UNCHANGED <<callVars, queueVars, q_, finish, bulk, stop_flag_, closed, console, file>>

(* Mutant of Popped: the front is read and not removed. *)
PoppedNot(q) == q

Popped(q) == Tail(q)

(* QueueExecutor::execute: each command is popped from the shared queue,   *)
(* under its lock, and writes itself to the file, in vain if that is not   *)
(* open.                                                                   *)
Write(t) ==
  /\ tpc[t] = "write"
  /\ left[t] > 0 /\ q_[t[1]] # <<>>
  /\ q_' = [q_ EXCEPT ![t[1]] = Popped(@)]
  /\ file' = IF bulk[t] \in unopened THEN file
             ELSE [file EXCEPT ![bulk[t]] = Append(@, Head(q_[t[1]]))]
  /\ left' = [left EXCEPT ![t] = @ - 1]
  /\ UNCHANGED <<callVars, queueVars, tpc, finish, bulk, stop_flag_, closed, console, unopened>>

EndWrite(t) ==
  /\ tpc[t] = "write"
  /\ left[t] = 0 \/ q_[t[1]] = <<>>
  /\ Goto(t, "check")
  /\ bulk' = [bulk EXCEPT ![t] = 0]
  /\ left' = [left EXCEPT ![t] = 0]
  /\ UNCHANGED <<callVars, queueVars, q_, finish, stop_flag_, closed, outVars>>

(* Mutants of AfterCheck: a stopped thread leaves at once; it never does. *)
AfterCheckLeaves(t) == IF stop_flag_[t] THEN "exited" ELSE "lock"
AfterCheckStays(t) == IF ~stop_flag_[t] \/ QueueOf(t) = <<>> THEN "lock" ELSE "pop"

(* The end of the loop's body and its head: a stopped thread leaves when   *)
(* it finds the queue empty, and until then pops without waiting.          *)
AfterCheck(t) ==
  IF ~stop_flag_[t] THEN "lock" ELSE IF QueueOf(t) = <<>> THEN "exited" ELSE "pop"

Check(t) ==
  /\ tpc[t] = "check"
  /\ Goto(t, AfterCheck(t))
  /\ UNCHANGED <<callVars, queueVars, q_, finish, bulk, left, stop_flag_, closed, outVars>>

-----------------------------------------------------------------------------
ThreadStep(t) ==
  \/ Lock(t) \/ Test(t) \/ Wait(t)
  \/ PopCommand(t) \/ PopFileCommand(t) \/ PopNothing(t)
  \/ Open(t) \/ Write(t) \/ EndWrite(t) \/ Check(t)

CallStep ==
  \/ Pack \/ Push \/ Copy \/ Start \/ Notify
  \/ Stop \/ StopNotify \/ Join

Next ==
  \/ \E s \in Session, n \in Size : Execute(s, n)
  \/ \E s \in Session : Disconnect(s)
  \/ CallStep
  \/ \E t \in Thread : ThreadStep(t) \/ Wakeup(t)

Spec == Init /\ [][Next]_vars

(* A call in progress runs, and so does each thread that is not blocked.   *)
FairSpec ==
  /\ Spec
  /\ WF_vars(CallStep)
  /\ \A t \in Thread : WF_vars(ThreadStep(t))

=============================================================================
