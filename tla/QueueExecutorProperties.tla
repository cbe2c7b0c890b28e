----------------------- MODULE QueueExecutorProperties -----------------------
(***************************************************************************)
(* What QueueExecutorMT does with the blocks it is given: what the console *)
(* and the files receive, and what holds when a session is closed.  The    *)
(* inductive invariants the proofs rest on are at the end.                 *)
(***************************************************************************)
EXTENDS QueueExecutorMT

Executing == pc \in {"copy", "pack", "push", "start", "notify"}
Stopping == pc \in {"stop", "notify_all", "join"}

(* Entries of the queues, the console and the files. *)
Command(b, i) == [bulk |-> b, cmd |-> i]
IsCommand(e) == e.bulk \in 1..Newest /\ e.cmd \in 1..bulks[e.bulk].size
Owner(e) == bulks[e.bulk].session
BlocksOf(s) == {b \in 1..Newest : bulks[b].session = s}
Entries(b) == [i \in 1..bulks[b].size |-> Command(b, i)]

Before(d, e) == d.bulk < e.bulk \/ (d.bulk = e.bulk /\ d.cmd < e.cmd)
Ordered(q) == \A k \in 1..Len(q) : \A j \in 1..(k - 1) : Before(q[j], q[k])
In(e, q) == \E k \in 1..Len(q) : q[k] = e

(* How far the call in progress is with the newest block: the commands it  *)
(* has pushed for the log thread and copied for the files, and whether its *)
(* file command is still to be queued.                                     *)
LogCount ==
  IF worker = LogWorker /\ pc \in {"pack", "push"} THEN pos ELSE bulks[Newest].size
CopyCount ==
  IF worker = LogWorker /\ pc \in {"pack", "push", "start", "notify"} THEN 0
  ELSE IF pc = "copy" THEN pos ELSE bulks[Newest].size
Queueing ==
  \/ worker = LogWorker /\ pc \in {"pack", "push", "start", "notify"}
  \/ worker = FileProvider /\ pc \in {"copy", "pack", "push"}

LogQueued(e) == IsCommand(e) /\ (e.bulk < Newest \/ e.cmd <= LogCount)
CopyMade(e) == IsCommand(e) /\ (e.bulk < Newest \/ e.cmd <= CopyCount)
FileQueued(b) == b < Newest \/ ~Queueing

(* The file command of block b is in its queue; was executed to its end. *)
FileWaits(b) ==
  \E k \in 1..Len(file_queue_[bulks[b].session]) : file_queue_[bulks[b].session][k].bulk = b
Written(b) == FileQueued(b) /\ ~FileWaits(b) /\ \A t \in Thread : bulk[t] # b

-----------------------------------------------------------------------------
(* Every variable holds a value of its type. *)
TypeOK ==
  /\ bulks \in Seq([session : Session, size : Size]) /\ Newest <= MaxBulk
  /\ pc \in CallPC /\ session \in Session \union {NoSession}
  /\ worker \in 0..LastWorker /\ pos \in Nat
  /\ log_queue_ \in [Session -> Seq(Entry)] /\ file_queue_ \in [Session -> Seq(Entry)]
  /\ q_ \in [Session -> Seq(Entry)]
  /\ log_bulk_id \in [Session -> Nat] /\ file_bulk_id \in [Session -> Nat]
  /\ file_pushed \in [Session -> Nat]
  /\ tpc \in [Thread -> ThreadPC] /\ finish \in [Thread -> Nat]
  /\ bulk \in [Thread -> 0..MaxBulk] /\ left \in [Thread -> Nat]
  /\ stop_flag_ \in [Thread -> BOOLEAN] /\ closed \subseteq Session
  /\ console \in Seq(Entry) /\ file \in Seq(Seq(Entry)) /\ unopened \subseteq 1..MaxBulk

(* The console receives the commands of a session in the order they were   *)
(* executed, none left out and none twice, whatever the other sessions do: *)
(* one thread reads the log queue, and one worker fills it.                *)
PrintedInOrder ==
  \A k \in 1..Len(console) :
    /\ IsCommand(console[k])
    /\ \A j \in 1..(k - 1) : console[j] # console[k]
    /\ \A b \in BlocksOf(Owner(console[k])) : \A i \in 1..bulks[b].size :
         Before(Command(b, i), console[k]) =>
           \E j \in 1..(k - 1) : console[j] = Command(b, i)

(* A file that was opened and written has as many commands as its block,   *)
(* though the command that wrote it took what it found in a queue shared   *)
(* by all file commands, and stops early when the queue is empty.          *)
FilesComplete ==
  \A b \in 1..Newest : Written(b) /\ b \notin unopened => Len(file[b]) = bulks[b].size

(* Each command copied for the files is in the shared queue or in one file,*)
(* once: two threads popping never write the same command or drop one,     *)
(* unless a file was not opened.                                           *)
EachCommandOnce ==
  /\ \A b, c \in 1..Newest : \A j \in 1..Len(file[b]), k \in 1..Len(file[c]) :
       file[b][j] = file[c][k] => b = c /\ j = k
  /\ \A s \in Session : \A j, k \in 1..Len(q_[s]) : q_[s][j] = q_[s][k] => j = k
  /\ \A b \in 1..Newest : \A j \in 1..Len(file[b]), s \in Session : ~In(file[b][j], q_[s])
  /\ \A s \in Session : BlocksOf(s) \intersect unopened = {} =>
       \A b \in BlocksOf(s) : \A i \in 1..bulks[b].size :
         CopyMade(Command(b, i)) =>
           In(Command(b, i), q_[s]) \/ \E c \in BlocksOf(s) : In(Command(b, i), file[c])

(* The commands of a file are in the order they were executed. *)
FilesInOrder == \A b \in 1..Newest : Ordered(file[b])

(* After a disconnect everything the session executed has been printed and *)
(* written: the destructors let each thread empty its queue.               *)
ClosedIsWritten ==
  \A s \in closed :
    /\ q_[s] = <<>>
    /\ \A b \in BlocksOf(s) :
         Written(b) /\ \A i \in 1..bulks[b].size : In(Command(b, i), console)

(* After a disconnect no thread of the session runs: the queues it would   *)
(* use are destroyed.                                                      *)
ClosedIsQuiet ==
  [][\A t \in Thread : t[1] \in closed => tpc'[t] = tpc[t] /\ tpc[t] \in {"none", "exited"}]_vars

(* With one file thread the file of a block holds that block, also when    *)
(* the files of other blocks could not be opened: those lose their own     *)
(* commands and no others.                                                 *)
FileHoldsItsBlock ==
  \A b \in 1..Newest : Written(b) => file[b] = IF b \in unopened THEN <<>> ELSE Entries(b)

(* With one file thread the executors, their threads and queues implement  *)
(* BlockOutput: no step prints or writes anything but the next command,    *)
(* and a disconnect returns only when everything is out.                   *)
Output == INSTANCE BlockOutput
ImplementsOutput == Output!Spec

-----------------------------------------------------------------------------
(* The inductive invariant. *)

(* The call in progress: whose it is, how far it is with the newest block, *)
(* and which block each of the session's two queues has met last.          *)
CallInv ==
  /\ Len(file) = Newest
  /\ pc # "idle" => session \in Session \ closed
  /\ Executing => Newest >= 1 /\ bulks[Newest].session = session
  /\ pc = "copy" => worker = FileProvider /\ pos < bulks[Newest].size
  /\ pc = "push" => \/ worker = LogWorker /\ pos < bulks[Newest].size
                    \/ worker = FileProvider /\ pos = 0
  /\ pc \notin {"copy", "push"} => pos = 0
  /\ pc \in {"notify", "notify_all", "join"} => worker # FileProvider
  /\ \A s \in Session : log_bulk_id[s] <= Newest /\ file_bulk_id[s] <= Newest
  /\ pc = "pack" /\ worker = LogWorker => log_bulk_id[session] < Newest
  /\ Executing => IF worker = LogWorker \/ (worker = FileProvider /\ pc \in {"copy", "pack"})
                  THEN file_bulk_id[session] < Newest
                  ELSE file_bulk_id[session] = Newest

(* The log queue continues the console: what was pushed is on the one or   *)
(* in the other, in the order of execution.                                *)
LogInv ==
  /\ \A s \in Session : \A k \in 1..Len(log_queue_[s]) :
       LogQueued(log_queue_[s][k]) /\ Owner(log_queue_[s][k]) = s
  /\ \A s \in Session : Ordered(log_queue_[s])
  /\ \A k \in 1..Len(console) : LogQueued(console[k])
  /\ \A s \in Session : \A k \in 1..Len(console), j \in 1..Len(log_queue_[s]) :
       Owner(console[k]) = s => Before(console[k], log_queue_[s][j])
  /\ \A s \in Session : \A b \in BlocksOf(s) : \A i \in 1..bulks[b].size :
       LogQueued(Command(b, i)) =>
         In(Command(b, i), console) \/ In(Command(b, i), log_queue_[s])

(* The file queue holds file commands only, and a file command is in the   *)
(* queue or at one thread; the queue is in the order of execution.         *)
FileInv ==
  /\ \A s \in Session : \A k \in 1..Len(file_queue_[s]) :
       /\ file_queue_[s][k].cmd = Whole /\ file_queue_[s][k].bulk \in BlocksOf(s)
       /\ FileQueued(file_queue_[s][k].bulk)
       /\ \A j \in 1..(k - 1) : file_queue_[s][j].bulk < file_queue_[s][k].bulk
  /\ \A t \in Thread : tpc[t] \in {"open", "write"} =>
       /\ t[2] # LogWorker /\ bulk[t] \in BlocksOf(t[1]) /\ FileQueued(bulk[t])
       /\ \A k \in 1..Len(file_queue_[t[1]]) : bulk[t] < file_queue_[t[1]][k].bulk
       /\ \A u \in Thread : u # t => bulk[u] # bulk[t]
  /\ \A t \in Thread : tpc[t] \notin {"open", "write"} => bulk[t] = 0

(* A thread runs from the session's first block on; it is told to stop by  *)
(* its destructor only, leaves when that was done and its queue is empty,  *)
(* and has left when the destructor is past it.                            *)
ThreadInv ==
  \A t \in Thread :
    /\ tpc[t] = "none" => \A b \in BlocksOf(t[1]) :
         b = Newest /\ Executing /\ (worker < t[2] \/ (worker = t[2] /\ pc # "notify"))
    /\ stop_flag_[t] => t[1] \in closed \/ (Stopping /\ session = t[1])
    /\ tpc[t] = "exited" => stop_flag_[t] /\ QueueOf(t) = <<>>
    /\ t[1] \in closed \/ (Stopping /\ session = t[1] /\ t[2] < worker) =>
         tpc[t] \in {"none", "exited"}

(* The shared queue of the file commands continues the files.              *)
CopyInv ==
  /\ \A s \in Session : \A k \in 1..Len(q_[s]) : CopyMade(q_[s][k]) /\ Owner(q_[s][k]) = s
  /\ \A s \in Session : Ordered(q_[s])
  /\ \A b \in 1..Newest : \A j \in 1..Len(file[b]) :
       /\ CopyMade(file[b][j]) /\ Owner(file[b][j]) = bulks[b].session
       /\ \A k \in 1..Len(q_[bulks[b].session]) : Before(file[b][j], q_[bulks[b].session][k])

(* What the shared queue still holds for block b: all the commands copied  *)
(* until its file command runs, and then those it will still write.        *)
Owed(b) ==
  IF ~FileQueued(b) THEN CopyCount
  ELSE IF FileWaits(b) \/ \E t \in Thread : bulk[t] = b /\ tpc[t] = "open" THEN bulks[b].size
  ELSE IF \E t \in Thread : bulk[t] = b THEN left[CHOOSE t \in Thread : bulk[t] = b]
  ELSE 0
Debt(s) == UNION {{<<b, i>> : i \in 1..Owed(b)} : b \in BlocksOf(s)}

(* The shared queue is as long as what it owes to all blocks together, so  *)
(* a file command finds as many commands as its block has.                 *)
DebtInv ==
  /\ \A s \in Session : IsFiniteSet(Debt(s)) /\ Cardinality(Debt(s)) = Len(q_[s])
  /\ \A b \in 1..Newest :
       /\ Owed(b) \in 0..bulks[b].size
       /\ IF FileQueued(b) /\ b \notin unopened
          THEN Len(file[b]) + Owed(b) = bulks[b].size
          ELSE file[b] = <<>>
  /\ \A b \in unopened : b \in 1..Newest /\ FileQueued(b) /\ ~FileWaits(b)
  /\ \A t \in Thread : tpc[t] = "open" => bulk[t] \notin unopened

(* With one file thread what is owed to a block are its own last commands. *)
Unwritten(e) ==
  CopyMade(e) /\ (FileQueued(e.bulk) => e.cmd > bulks[e.bulk].size - Owed(e.bulk))
HoldInv ==
  thread_count = 2 =>
    /\ \A s \in Session : \A k \in 1..Len(q_[s]) : Unwritten(q_[s][k])
    /\ \A s \in Session : \A b \in BlocksOf(s) : \A i \in 1..bulks[b].size :
         Unwritten(Command(b, i)) => In(Command(b, i), q_[s])
    /\ \A b \in 1..Newest : \A i \in 1..Len(file[b]) : file[b][i] = Command(b, i)

IInv ==
  /\ CallInv /\ LogInv /\ PrintedInOrder /\ FileInv /\ ThreadInv
  /\ CopyInv /\ FilesInOrder /\ EachCommandOnce /\ DebtInv /\ HoldInv

=============================================================================
