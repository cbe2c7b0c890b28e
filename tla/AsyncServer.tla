---------------------------- MODULE AsyncServer ----------------------------
(***************************************************************************)
(* bulk_server as its clients meet it: async_server accepts connections,   *)
(* an async_session reads each of them into a context of libasync, and one *)
(* thread in io_context::run calls all the handlers.                       *)
(*                                                                         *)
(* A handler is one step: clients reach the server only through sockets,   *)
(* and guard_mx_ keeps one library call from seeing half of another.       *)
(* Inside a context the lines are grouped as BulkAssembly says, which      *)
(* InputParser implements; what the executor's threads do with a block is  *)
(* QueueExecutorMT.  Here two things are left of them: a thread may fail   *)
(* to start, and the join of a disconnect may never return.  A read brings *)
(* whole lines, and a client never closes a brace it has not opened;       *)
(* InputParser has the input that is cut anywhere.  What a client has sent *)
(* and the server has not read is not part of the state: a line is chosen  *)
(* when it is read, and one that a broken connection loses is never read.  *)
(***************************************************************************)
EXTENDS Naturals, Sequences, FiniteSets

CONSTANTS
  Client,      (* Each makes one connection.                                *)
  NoClient,
  Handle,      (* Addresses a context can have: libasync_ctx_t.             *)
  NoHandle,
  bulk_size_,  (* The block size given to every session.                    *)
  thread_cnt,  (* Threads a context starts with its first block.            *)
  MaxReceived, (* Bound: lines read from all clients together.              *)
  max_length   (* Bound: lines one read takes (1024 bytes in the code).     *)

ASSUME NobodyAssumption == NoClient \notin Client /\ NoHandle \notin Handle
ASSUME SizeAssumption == bulk_size_ \in Nat \ {0} /\ thread_cnt \in Nat \ {0}
ASSUME BoundAssumption == MaxReceived \in Nat /\ max_length \in Nat \ {0}

VARIABLES
  received,        (* History: the lines read from each client.              *)
  link,            (* The client's end of the connection.                    *)
  accepting,       (* async_accept is outstanding.                           *)
  session,         (* async_session of each client: "reading" has a read     *)
                   (* outstanding, which keeps it alive                      *)
  ctx_,            (* and its handle.                                        *)
  s_context_pool,  (* The contexts, by handle.                               *)
  bulk_id,         (* The static counter blocks are numbered from.           *)
  run,             (* Where io_context::run is, see Run,                     *)
  failing,         (* and the session whose handler threw.                   *)
  blocks,          (* History: the blocks executed,                          *)
  broken           (* and those given up when a thread did not start.        *)

poolVars == <<s_context_pool, bulk_id, blocks, broken>>
vars == <<received, link, accepting, session, ctx_, poolVars, run, failing>>

(* "hung": in a join that does not return, with guard_mx_ held; "unwinding": *)
(* an exception left run and main destroys what is left; "terminated": one  *)
(* left a destructor.                                                       *)
Run == {"running", "hung", "unwinding", "exited", "terminated"}

(* A context: the block being read and its number, the depth of open       *)
(* braces, lines received and not parsed, threads started.                 *)
NewContext == [q |-> <<>>, id |-> 0, depth |-> 0, stream |-> <<>>, threads |-> 0]

Init ==
  /\ received = [c \in Client |-> <<>>] /\ link = [c \in Client |-> "none"]
  /\ accepting = TRUE
  /\ session = [c \in Client |-> "none"] /\ ctx_ = [c \in Client |-> NoHandle]
  /\ s_context_pool = <<>> /\ bulk_id = 0
  /\ run = "running" /\ failing = NoClient
  /\ blocks = <<>> /\ broken = <<>>

-----------------------------------------------------------------------------
(* The clients. *)

Connect(c) ==
  /\ run = "running" /\ link[c] = "none"
  /\ link' = [link EXCEPT ![c] = "open"]
  /\ UNCHANGED <<received, accepting, session, ctx_, poolVars, run, failing>>

(* The client closes the connection, or it breaks. *)
Close(c) ==
  /\ run = "running" /\ link[c] = "open"
  /\ link' = [link EXCEPT ![c] = "closed"]
  /\ UNCHANGED <<received, accepting, session, ctx_, poolVars, run, failing>>

(* A line is a command or a brace, that begins a dynamic block or ends it. *)
Line == {"command", "begin", "end"}

(* The depth of open braces after the first n lines of s. *)
Depth(s, n) ==
  Cardinality({i \in 1..n : s[i] = "begin"}) - Cardinality({i \in 1..n : s[i] = "end"})

(* How many lines have been read from all clients. *)
ReceivedCount ==
  Cardinality({w \in Client \X (1..MaxReceived) : w[2] <= Len(received[w[1]])})

(* What the next read may bring from a client that has sent s. *)
NextLines(s) ==
  {t \in UNION {[1..n -> Line] : n \in 1..max_length} :
     \A n \in 1..Len(t) : Depth(s, Len(s)) + Depth(t, n) >= 0}

-----------------------------------------------------------------------------
(* Processor::process on the lines of one call.  The state of a call is    *)
(* the context with the counter, the blocks it executes and the one it     *)
(* gives up.                                                               *)

(* Mutant of Number: a counter for each context instead of a static one. *)
NumberOwn(p) == [p EXCEPT !.id = @ + 1]

Number(p) == [p EXCEPT !.id = p.bulk_id + 1, !.bulk_id = @ + 1]

(* The entry of read_next_bulk, at the beginning and after each block. *)
Enter(p) == IF p.q = <<>> /\ p.entry THEN [Number(p) EXCEPT !.entry = FALSE]
            ELSE [p EXCEPT !.entry = FALSE]

(* exec_queue: the block leaves the input queue; the executor throws when  *)
(* a thread it has to start does not start.                                *)
Execute(p) ==
  LET b == [id |-> p.id, cmds |-> p.q]
  IN  IF p.q = <<>> THEN p
      ELSE IF p.threads = thread_cnt
      THEN [p EXCEPT !.q = <<>>, !.blocks = Append(@, b), !.entry = TRUE]
      ELSE [p EXCEPT !.q = <<>>, !.broken = Append(@, b), !.throws = TRUE]

(* Mutant of Chunk: the size is compared too late. *)
ChunkLate(p) == p.depth = 0 /\ Len(p.q) > bulk_size_

Chunk(p) == p.depth = 0 /\ Len(p.q) = bulk_size_

(* A brace that is the outermost one ends a block, a command may complete  *)
(* a static one; the boundary is acted on before the next line is read.    *)
OpenBrace(p) == [IF p.depth = 0 THEN Execute(p) ELSE p EXCEPT !.depth = @ + 1]
CloseBrace(p) == [IF p.depth = 1 THEN Execute(p) ELSE p EXCEPT !.depth = @ - 1]
Command(p, cmd) ==
  LET c == [p EXCEPT !.q = Append(@, cmd)]
  IN  IF Chunk(c) THEN Execute(c) ELSE c

Parse(p, line) ==
  IF p.throws THEN [p EXCEPT !.stream = Append(@, line)]
  ELSE CASE line.text = "begin"   -> OpenBrace(Enter(p))
         [] line.text = "end"     -> CloseBrace(Enter(p))
         [] line.text = "command" -> Command(Enter(p), line.cmd)

(* A call at its beginning, when t threads are running. *)
Begun(x, t) ==
  [q |-> x.q, id |-> x.id, depth |-> x.depth, stream |-> <<>>, threads |-> t,
   entry |-> TRUE, bulk_id |-> bulk_id, blocks |-> blocks, broken |-> broken, throws |-> FALSE]

(* A call that began as p, after the given lines. *)
Parsed(p, lines) ==
  LET after[i \in 0..Len(lines)] == IF i = 0 THEN p ELSE Parse(after[i - 1], lines[i])
  IN  after[Len(lines)]

(* The call up to the end of the stream. *)
Process(x, lines, t) ==
  LET end == Parsed(Begun(x, t), x.stream \o lines)
  IN  IF end.throws THEN end ELSE Enter(end)

(* process(false) at the end of a session: a static block is executed as   *)
(* it is, and read_next_bulk entered once more, an open dynamic one is     *)
(* dropped.                                                                *)
LastProcess(x, t) ==
  LET p == Process(x, <<>>, t)
      end == IF p.throws \/ p.depth > 0 THEN p ELSE Execute(p)
  IN  IF end.throws THEN end ELSE Enter(end)

(* A block is executed or given up, so the threads have been started. *)
Starts(p) == p.blocks # blocks \/ p.broken # broken

(* Mutant of ThreadsStarted: one worker too many. *)
ThreadsStartedBeyond(x) == x.threads..(thread_cnt + 1)

(* Threads running after the first block: all, or those before the one     *)
(* that failed.                                                            *)
ThreadsStarted(x) == x.threads..thread_cnt

Outcomes(x, lines) ==
  {p \in {Process(x, lines, t) : t \in ThreadsStarted(x)} : Starts(p) \/ p.threads = x.threads}

LastOutcomes(x) ==
  {p \in {LastProcess(x, t) : t \in ThreadsStarted(x)} : Starts(p) \/ p.threads = x.threads}

Context(p) == [q |-> p.q, id |-> p.id, depth |-> p.depth, stream |-> p.stream,
               threads |-> p.threads]

-----------------------------------------------------------------------------
(* libasync. *)

(* Mutant of FreeHandles: an address in use is handed out again. *)
FreeHandlesInUse == Handle

(* A new context's address is that of no living one, and may be that of    *)
(* one that was destroyed.                                                 *)
FreeHandles == Handle \ DOMAIN s_context_pool

libasync_connect(h) ==
  s_context_pool' = [k \in DOMAIN s_context_pool \union {h} |->
                      IF k = h THEN NewContext ELSE s_context_pool[k]]

Known(c) == ctx_[c] \in DOMAIN s_context_pool

(* libasync_receive of the given lines; an exception of the executor passes *)
(* through it, the return code -1 is thrown by the handler.                 *)
libasync_receive(c, lines) ==
  IF ~Known(c)
  THEN run' = "unwinding" /\ failing' = c /\ UNCHANGED poolVars
  ELSE \E p \in Outcomes(s_context_pool[ctx_[c]], lines) :
         /\ s_context_pool' = [s_context_pool EXCEPT ![ctx_[c]] = Context(p)]
         /\ bulk_id' = p.bulk_id /\ blocks' = p.blocks /\ broken' = p.broken
         /\ run' = IF p.throws THEN "unwinding" ELSE run
         /\ failing' = IF p.throws THEN c ELSE failing

(* Mutant of Erased: the context stays in the pool. *)
ErasedNot(h) == s_context_pool
Erased(h) == [k \in DOMAIN s_context_pool \ {h} |-> s_context_pool[k]]

(* Mutant of Flushed: the context is erased without process(false). *)
FlushedNot(x) == {Process(x, <<>>, x.threads)}
Flushed(x) == LastOutcomes(x)

(* ~async_session calls libasync_disconnect.  With threads to join it may  *)
(* not return; an exception cannot leave the destructor.                   *)
libasync_disconnect(c) ==
  IF ~Known(c)
  THEN session' = [session EXCEPT ![c] = "gone"] /\ UNCHANGED <<poolVars, run>>
  ELSE \E p \in Flushed(s_context_pool[ctx_[c]]) :
         /\ bulk_id' = p.bulk_id /\ blocks' = p.blocks /\ broken' = p.broken
         /\ \/ p.throws /\ run' = "terminated" /\ UNCHANGED <<s_context_pool, session>>
            \/ /\ ~p.throws /\ p.threads > 0
               /\ run' = "hung" /\ UNCHANGED <<s_context_pool, session>>
            \/ /\ ~p.throws
               /\ s_context_pool' = Erased(ctx_[c])
               /\ session' = [session EXCEPT ![c] = "gone"]
               /\ UNCHANGED run

-----------------------------------------------------------------------------
(* The handlers. *)

(* Mutant of Rearmed: only an accept that succeeds is followed by another. *)
RearmedOnSuccess(ok) == ok
Rearmed(ok) == TRUE

(* A connection is accepted: the session connects to the library and reads.*)
Accept(c) ==
  /\ run = "running" /\ accepting
  /\ link[c] # "none" /\ session[c] = "none"
  /\ \E h \in FreeHandles :
       /\ libasync_connect(h)
       /\ ctx_' = [ctx_ EXCEPT ![c] = h]
  /\ session' = [session EXCEPT ![c] = "reading"]
  /\ accepting' = Rearmed(TRUE)
  /\ UNCHANGED <<received, link, bulk_id, blocks, broken, run, failing>>

(* An accept fails, for want of a descriptor, say. *)
AcceptError ==
  /\ run = "running" /\ accepting
  /\ accepting' = Rearmed(FALSE)
  /\ UNCHANGED <<received, link, session, ctx_, poolVars, run, failing>>

(* A read returns some lines; they may have been sent before a close. *)
ReadSome(c) ==
  /\ run = "running" /\ session[c] = "reading"
  /\ \E t \in NextLines(received[c]) :
       /\ ReceivedCount + Len(t) <= MaxReceived
       /\ received' = [received EXCEPT ![c] = @ \o t]
       /\ libasync_receive(c, [i \in 1..Len(t) |-> [text |-> t[i],
                                                    cmd  |-> <<c, Len(received[c]) + i>>]])
  /\ UNCHANGED <<link, accepting, session, ctx_>>

(* A read fails after the last line: no read follows, and nothing holds    *)
(* the session any more.                                                   *)
ReadError(c) ==
  /\ run = "running" /\ session[c] = "reading"
  /\ link[c] = "closed"
  /\ libasync_disconnect(c)
  /\ UNCHANGED <<received, link, accepting, ctx_, failing>>

-----------------------------------------------------------------------------
(* The end: the handler that threw gives up its session, then io_context   *)
(* destroys the reads that are outstanding, and main returns.              *)

Unwind(c) ==
  /\ run = "unwinding" /\ session[c] = "reading"
  /\ failing \in {c, NoClient}
  /\ failing' = NoClient
  /\ libasync_disconnect(c)
  /\ UNCHANGED <<received, link, accepting, ctx_>>

Exit ==
  /\ run = "unwinding" /\ \A c \in Client : session[c] # "reading"
  /\ run' = "exited"
  /\ UNCHANGED <<received, link, accepting, session, ctx_, poolVars, failing>>

-----------------------------------------------------------------------------
Handler(c) == Accept(c) \/ ReadSome(c) \/ ReadError(c)

Next ==
  \/ \E c \in Client : Connect(c) \/ Close(c) \/ Handler(c) \/ Unwind(c)
  \/ AcceptError
  \/ Exit

Spec == Init /\ [][Next]_vars

(* io_context runs the handler of every operation that completes, and an   *)
(* accept does not fail for ever.                                          *)
FairSpec ==
  /\ Spec
  /\ \A c \in Client : WF_vars(Accept(c)) /\ WF_vars(ReadError(c))

=============================================================================
