------------------------ MODULE AsyncServerProperties ------------------------
(***************************************************************************)
(* What AsyncServer does with its sessions: the pool of contexts, the      *)
(* blocks made of what the clients send, and the end of a session.  The    *)
(* inductive invariant the proofs rest on is at the end.                   *)
(***************************************************************************)
EXTENDS AsyncServer

CommandId == Client \X Nat
Block == [id : Nat, cmds : Seq(CommandId)]
LineOf(r, c, i) == [text |-> r[i], cmd |-> <<c, i>>]

Live == {c \in Client : session[c] = "reading"}
ContextOf(c) == s_context_pool[ctx_[c]]

(* In the lines r of a client: whether line i is outside of braces, or the *)
(* outermost braces around it are closed, after the first n lines; whether *)
(* lines i and j are inside the same outermost braces.                     *)
Settled(r, i, n) == \E j \in i..n : Depth(r, j) = 0
Together(r, i, j) == \A k \in (i..j) \union (j..i) : Depth(r, k) > 0

(* What client c asked to be executed. *)
Kept(c) ==
  {i \in 1..Len(received[c]) :
     received[c][i] = "command" /\ Settled(received[c], i, Len(received[c]))}

(* The blocks so far, the commands in them, and the order of a client's.   *)
Now == [blocks |-> blocks, broken |-> broken, bulk_id |-> bulk_id]
Elements(q) == {q[j] : j \in 1..Len(q)}
CommandsOf(bs) == UNION {Elements(bs[k].cmds) : k \in 1..Len(bs)}
Done(p) == CommandsOf(p.blocks) \union CommandsOf(p.broken)
InOrder(bs, c) ==
  \A k, l \in 1..Len(bs) : \A i \in 1..Len(bs[k].cmds), j \in 1..Len(bs[l].cmds) :
    (k < l \/ (k = l /\ i < j)) /\ bs[k].cmds[i][1] = c /\ bs[l].cmds[j][1] = c
      => bs[k].cmds[i][2] < bs[l].cmds[j][2]

(* Block b of client c, whose lines are r: commands outside of braces with *)
(* no brace between, or all commands inside one pair of outermost braces.  *)
(* A context has a queue of its own, so that a static block as well has    *)
(* the commands of one client: that is what the code makes of them, not    *)
(* what they are asked to be (see MCAsyncServer).                          *)
Static(b, r) ==
  /\ Len(b.cmds) <= bulk_size_
  /\ \A k \in b.cmds[1][2]..b.cmds[Len(b.cmds)][2] : Depth(r, k) = 0
Dynamic(b, c, r) ==
  \A i \in 1..Len(r) :
    r[i] = "command" => (<<c, i>> \in Elements(b.cmds) <=> Together(r, b.cmds[1][2], i))
WellCut(b, rcv) ==
  /\ b.cmds # <<>>
  /\ \E c \in Client :
       /\ \A j \in 1..Len(b.cmds) : b.cmds[j][1] = c
       /\ Static(b, rcv[c]) \/ Dynamic(b, c, rcv[c])

-----------------------------------------------------------------------------
(* Every variable holds a value of its type. *)
TypeOK ==
  /\ received \in [Client -> Seq(Line)] /\ link \in [Client -> {"none", "open", "closed"}]
  /\ session \in [Client -> {"none", "reading", "gone"}]
  /\ ctx_ \in [Client -> Handle \union {NoHandle}]
  /\ DOMAIN s_context_pool \subseteq Handle
  /\ s_context_pool \in
       [DOMAIN s_context_pool ->
          [q : Seq(CommandId), id : Nat, depth : Nat,
           stream : Seq([text : Line, cmd : CommandId]), threads : 0..thread_cnt]]
  /\ bulk_id \in Nat /\ accepting \in BOOLEAN /\ run \in Run
  /\ failing \in Client \union {NoClient}
  /\ blocks \in Seq(Block) /\ broken \in Seq(Block)

(* The pool holds exactly the contexts of the living sessions, one each,   *)
(* and in each only commands of its own client, though addresses are used  *)
(* again: no call ever works on another client's context or leaves one     *)
(* behind.                                                                 *)
PoolIsLive ==
  /\ DOMAIN s_context_pool = {ctx_[c] : c \in Live}
  /\ \A c, d \in Live : ctx_[c] = ctx_[d] => c = d
  /\ \A c \in Live : \A j \in 1..Len(ContextOf(c).q) : ContextOf(c).q[j][1] = c

(* A session that is gone has executed, in order and once, everything its  *)
(* client asked for, except what was given up when a thread did not start: *)
(* what was read right before the connection closed is not lost, nor is    *)
(* what other sessions had pending when run was left by an exception.      *)
GoneIsExecuted ==
  \A c \in Client : session[c] = "gone" =>
    /\ {e \in Done(Now) : e[1] = c} = {<<c, i>> : i \in Kept(c)}
    /\ InOrder(blocks, c)

(* Whether command e was sent inside of braces, and then the commands of   *)
(* its dynamic block.                                                      *)
InBraces(e) == Depth(received[e[1]], e[2]) > 0
DynamicBlock(e) ==
  LET r == received[e[1]]
  IN  {<<e[1], i>> : i \in {j \in 1..Len(r) : r[j] = "command" /\ Together(r, e[2], j)}}

(* A dynamic block is executed whole and with nothing else in it: however  *)
(* many reads it came in, and whatever other clients sent between, neither *)
(* their commands nor a command from outside of its braces are mixed in.   *)
DynamicBlocksApart ==
  \A k \in 1..Len(blocks) : \A e \in Elements(blocks[k].cmds) :
    InBraces(e) => Elements(blocks[k].cmds) = DynamicBlock(e)

(* A static block has at most bulk_size_ commands, and none of a client    *)
(* from before one of its braces together with one from after it, also     *)
(* when the brace comes in a later read.                                   *)
StaticBlocksAreCut ==
  \A k \in 1..Len(blocks) : \A e, f \in Elements(blocks[k].cmds) :
    ~InBraces(e) =>
      /\ Len(blocks[k].cmds) <= bulk_size_
      /\ f[1] = e[1] => \A i \in e[2]..f[2] : Depth(received[e[1]], i) = 0

(* No two blocks of the process have the same number, although a block may *)
(* be begun in one call and executed in a later one, with calls of other   *)
(* sessions between: the numbers name the files.                           *)
NumbersAreUnique ==
  LET all == blocks \o broken
  IN  \A j, k \in 1..Len(all) : all[j].id = all[k].id => j = k

(* The server stops for want of a thread only: a handle that a session     *)
(* holds is always known to the library, so no return code is thrown.      *)
StopsForThreadsOnly == run \in {"unwinding", "exited", "terminated"} => broken # <<>>

-----------------------------------------------------------------------------
(* The inductive invariant.  It speaks of a context x, or a call that      *)
(* works on it, of client c whose lines are r, the first n of them parsed, *)
(* and of the blocks p so far.                                             *)

(* The pending commands are the client's and in order: those inside of the *)
(* open outermost brace, or some after the last brace, too few for a block.*)
Inside(r, i, n) == \A j \in i..n : Depth(r, j) > 0
Outside(r, i, n) == \A j \in i..n : Depth(r, j) = 0
IsPending(x, c, r, n) ==
  /\ x.depth = Depth(r, n)
  /\ \A j \in 1..Len(x.q) :
       /\ x.q[j][1] = c /\ x.q[j][2] \in 1..n /\ r[x.q[j][2]] = "command"
       /\ \A k \in 1..(j - 1) : x.q[k][2] < x.q[j][2]
  /\ x.depth = 0 => Len(x.q) < bulk_size_ /\ \A j \in 1..Len(x.q) : Outside(r, x.q[j][2], n)
  /\ x.depth > 0 =>
       \A i \in 1..n : r[i] = "command" => (Inside(r, i, n) <=> <<c, i>> \in Elements(x.q))

(* What the client asked for is done or pending, in this order; nothing    *)
(* else is done.                                                           *)
IsServed(p, x, c, r, n) ==
  /\ \A i \in 1..n : r[i] = "command" /\ Settled(r, i, n) =>
       <<c, i>> \in Done(p) \union Elements(x.q)
  /\ \A e \in Done(p) : e[1] = c =>
       /\ e[2] \in 1..n /\ r[e[2]] = "command" /\ Settled(r, e[2], n)
       /\ \A j \in 1..Len(x.q) : e[2] < x.q[j][2]

(* The blocks are well cut and in order, and their numbers differ; number  *)
(* n is none of theirs.                                                    *)
AreBlocks(p, rcv) ==
  /\ \A k \in 1..Len(p.blocks) : WellCut(p.blocks[k], rcv)
  /\ \A k \in 1..Len(p.broken) : WellCut(p.broken[k], rcv)
  /\ \A c \in Client : InOrder(p.blocks, c)
AreNumbered(p) ==
  /\ \A k \in 1..Len(p.blocks) : p.blocks[k].id <= p.bulk_id
  /\ \A k \in 1..Len(p.broken) : p.broken[k].id <= p.bulk_id
  /\ \A j, k \in 1..Len(p.blocks) : p.blocks[j].id = p.blocks[k].id => j = k
  /\ \A j, k \in 1..Len(p.broken) : p.broken[j].id = p.broken[k].id => j = k
  /\ \A j \in 1..Len(p.blocks), k \in 1..Len(p.broken) : p.blocks[j].id # p.broken[k].id
IsFresh(p, n) ==
  /\ n <= p.bulk_id
  /\ \A k \in 1..Len(p.blocks) : p.blocks[k].id # n
  /\ \A k \in 1..Len(p.broken) : p.broken[k].id # n

(* The lines clients have sent close no brace they have not opened.        *)
LinesInv ==
  \A c \in Client :
    /\ \A n \in 0..Len(received[c]) : Depth(received[c], n) >= 0
    /\ session[c] = "none" => received[c] = <<>>

BlocksInv ==
  /\ AreBlocks(Now, received) /\ AreNumbered(Now)
  /\ \A e \in Done(Now) : e[2] \in Kept(e[1])

(* The context of client c agrees with what was received and executed.     *)
ParsedCount(c) == Len(received[c]) - Len(ContextOf(c).stream)
ContextAgrees(c) ==
  /\ ParsedCount(c) >= 0
  /\ \A i \in 1..Len(ContextOf(c).stream) :
       ContextOf(c).stream[i] = LineOf(received[c], c, ParsedCount(c) + i)
  /\ IsPending(ContextOf(c), c, received[c], ParsedCount(c))
  /\ IsServed(Now, ContextOf(c), c, received[c], ParsedCount(c))
  /\ ContextOf(c).q # <<>> => IsFresh(Now, ContextOf(c).id)

(* So do all of them, unless the process ended or hangs in the middle of a *)
(* call, and two that are reading a block hold different numbers.          *)
ContextInv ==
  run \in {"running", "unwinding"} =>
    /\ \A c \in Live : ContextAgrees(c)
    /\ \A c, d \in Live :
         c # d /\ ContextOf(c).q # <<>> /\ ContextOf(d).q # <<>>
           => ContextOf(c).id # ContextOf(d).id

IInv ==
  /\ PoolIsLive /\ GoneIsExecuted /\ StopsForThreadsOnly
  /\ LinesInv /\ BlocksInv /\ ContextInv

=============================================================================
