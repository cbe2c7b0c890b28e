-------------------------- MODULE AsyncServerProofs --------------------------
(***************************************************************************)
(* Proofs about AsyncServer: the pool, the blocks and their numbers, and   *)
(* the end of a session.                                                   *)
(***************************************************************************)
EXTENDS AsyncServerProperties, InductionLemmas

-----------------------------------------------------------------------------
(* The lines of a call. *)

(* The state after each line is defined by the one before. *)
LEMMA ParsedSteps ==
  ASSUME NEW p, NEW lines, Len(lines) \in Nat
  PROVE  \E f : /\ Parsed(p, lines) = f[Len(lines)] /\ f[0] = p
                /\ \A i \in 1..Len(lines) : f[i] = Parse(f[i - 1], lines[i])
<1> DEFINE Fn(f, n) == f = [i \in 0..n |-> IF i = 0 THEN p ELSE Parse(f[i - 1], lines[i])]
           S == {n \in Nat : \E f : Fn(f, n)}
           after == CHOOSE f : Fn(f, Len(lines))
<1>1. 0 \in S
  <2> DEFINE g == [i \in 0..0 |-> p]
  <2>1. Fn(g, 0)
    OBVIOUS
  <2> QED
    BY <2>1
<1>2. ASSUME NEW n \in Nat, n \in S
      PROVE  n + 1 \in S
  <2>1. PICK f : Fn(f, n)
    BY <1>2
  <2> DEFINE g == [i \in 0..(n + 1) |-> IF i = n + 1 THEN Parse(f[n], lines[n + 1]) ELSE f[i]]
  <2>2. ASSUME NEW i \in 0..(n + 1)
        PROVE  g[i] = IF i = 0 THEN p ELSE Parse(g[i - 1], lines[i])
    <3>1. CASE i = n + 1
      BY <3>1
    <3>2. CASE i \in 0..n
      <4>1. g[i] = f[i] /\ (i # 0 => g[i - 1] = f[i - 1])
        BY <3>2
      <4>2. f[i] = IF i = 0 THEN p ELSE Parse(f[i - 1], lines[i])
        BY <2>1, <3>2
      <4> QED
        BY <4>1, <4>2
    <3> QED
      BY <3>1, <3>2
  <2>3. g = [i \in 0..(n + 1) |-> g[i]]
    OBVIOUS
  <2> HIDE DEF g
  <2>4. Fn(g, n + 1)
    BY <2>2, <2>3
  <2> HIDE DEF Fn
  <2> QED
    BY <2>4
<1>3. Nat \subseteq S
  <2> HIDE DEF S
  <2> QED
    BY <1>1, <1>2, NatSetInduction
<1>4. Fn(after, Len(lines))
  <2>1. \E f : Fn(f, Len(lines))
    BY <1>3
  <2> HIDE DEF Fn
  <2> QED
    BY <2>1
<1>5. Parsed(p, lines) = after[Len(lines)]
  BY DEF Parsed
<1> HIDE DEF after
<1>6. /\ after[0] = p
      /\ \A i \in 1..Len(lines) : after[i] = Parse(after[i - 1], lines[i])
  BY <1>4
<1> QED
  BY <1>5, <1>6

-----------------------------------------------------------------------------
(* The depth of open braces. *)

(* No line is read yet.                                                    *)
LEMMA DepthStart == \A r : Depth(r, 0) = 0
  BY FS_EmptySet DEF Depth

Count(r, x, n) == Cardinality({i \in 1..n : r[i] = x})

(* How the count of one kind of line changes with a line.                  *)
LEMMA CountStep ==
  ASSUME NEW r, NEW n \in Nat, NEW x
  PROVE  /\ Count(r, x, n) \in Nat
         /\ Count(r, x, n + 1) = Count(r, x, n) + IF r[n + 1] = x THEN 1 ELSE 0
<1> DEFINE A(m) == {i \in 1..m : r[i] = x}
<1>1. IsFiniteSet(A(n)) /\ Cardinality(A(n)) \in Nat
  <2>1. IsFiniteSet(1..n)
    BY FS_Interval
  <2>2. A(n) \in SUBSET (1..n)
    OBVIOUS
  <2> HIDE DEF A
  <2>3. IsFiniteSet(A(n))
    BY <2>1, <2>2, FS_Subset
  <2> QED
    BY <2>3, FS_CardinalityType
<1>2. n + 1 \notin A(n)
  OBVIOUS
<1>3. A(n + 1) = IF r[n + 1] = x THEN A(n) \union {n + 1} ELSE A(n)
  OBVIOUS
<1>4. \A m : Count(r, x, m) = Cardinality(A(m))
  BY DEF Count
<1> HIDE DEF A
<1>5. Cardinality(A(n) \union {n + 1}) = Cardinality(A(n)) + 1
  BY <1>1, <1>2, FS_AddElement
<1> QED
  BY <1>1, <1>3, <1>4, <1>5

(* How the depth changes with a line.                                      *)
LEMMA DepthStep ==
  ASSUME NEW r, NEW n \in Nat
  PROVE  /\ Depth(r, n) \in Int
         /\ r[n + 1] = "begin" => Depth(r, n + 1) = Depth(r, n) + 1
         /\ r[n + 1] = "end" => Depth(r, n + 1) = Depth(r, n) - 1
         /\ r[n + 1] \notin {"begin", "end"} => Depth(r, n + 1) = Depth(r, n)
<1>1. /\ Count(r, "begin", n) \in Nat /\ Count(r, "end", n) \in Nat
      /\ Count(r, "begin", n + 1) = Count(r, "begin", n) + IF r[n + 1] = "begin" THEN 1 ELSE 0
      /\ Count(r, "end", n + 1) = Count(r, "end", n) + IF r[n + 1] = "end" THEN 1 ELSE 0
  BY CountStep
<1>2. \A m : Depth(r, m) = Count(r, "begin", m) - Count(r, "end", m)
  BY DEF Depth, Count
<1> QED
  BY <1>1, <1>2

(* Lines that come later do not change the depth at an earlier one.        *)
LEMMA DepthPrefix ==
  ASSUME NEW r \in Seq(Line), NEW s \in Seq(Line), NEW n \in 0..Len(r)
  PROVE  Depth(r \o s, n) = Depth(r, n)
<1>1. \A x : {i \in 1..n : (r \o s)[i] = x} = {i \in 1..n : r[i] = x}
  OBVIOUS
<1> QED
  BY <1>1 DEF Depth

(* The depth after more lines is the sum.                                  *)
LEMMA DepthConcat ==
  ASSUME NEW r \in Seq(Line), NEW s \in Seq(Line)
  PROVE  \A n \in 0..Len(s) : Depth(r \o s, Len(r) + n) = Depth(r, Len(r)) + Depth(s, n)
<1> DEFINE S == {n \in 0..Len(s) : Depth(r \o s, Len(r) + n) = Depth(r, Len(r)) + Depth(s, n)}
<1> Len(r) \in Nat /\ Len(s) \in Nat
  OBVIOUS
<1>1. 0 \in S
  <2>1. Depth(r \o s, Len(r)) = Depth(r, Len(r)) /\ Depth(r, Len(r)) \in Int /\ Depth(s, 0) = 0
    BY DepthPrefix, DepthStart, DepthStep
  <2> QED
    BY <2>1
<1>2. ASSUME NEW n \in 0..(Len(s) - 1), n \in S
      PROVE  n + 1 \in S
  <2>1. /\ (r \o s)[(Len(r) + n) + 1] = s[n + 1] /\ Len(r) + (n + 1) = (Len(r) + n) + 1
        /\ Len(r) + n \in Nat /\ n \in Nat
    OBVIOUS
  <2>2. Depth(r \o s, Len(r) + n) = Depth(r, Len(r)) + Depth(s, n)
    BY <1>2
  <2>3. Depth(r, Len(r)) \in Int /\ Depth(s, n) \in Int
    BY <2>1, DepthStep
  <2>4. CASE s[n + 1] = "begin"
    <3>1. /\ Depth(r \o s, (Len(r) + n) + 1) = Depth(r \o s, Len(r) + n) + 1
          /\ Depth(s, n + 1) = Depth(s, n) + 1
      BY <2>1, <2>4, DepthStep
    <3> QED
      BY <2>1, <2>2, <2>3, <3>1
  <2>5. CASE s[n + 1] = "end"
    <3>1. /\ Depth(r \o s, (Len(r) + n) + 1) = Depth(r \o s, Len(r) + n) - 1
          /\ Depth(s, n + 1) = Depth(s, n) - 1
      BY <2>1, <2>5, DepthStep
    <3> QED
      BY <2>1, <2>2, <2>3, <3>1
  <2>6. CASE s[n + 1] \notin {"begin", "end"}
    <3>1. /\ Depth(r \o s, (Len(r) + n) + 1) = Depth(r \o s, Len(r) + n)
          /\ Depth(s, n + 1) = Depth(s, n)
      BY <2>1, <2>6, DepthStep
    <3> QED
      BY <2>1, <2>2, <2>3, <3>1
  <2> QED
    BY <2>4, <2>5, <2>6
<1>3. 0..Len(s) \subseteq S
  <2> HIDE DEF S
  <2> QED
    BY <1>1, <1>2, UpToInduction
<1> QED
  BY <1>3

-----------------------------------------------------------------------------
(* Sequences of commands and of blocks. *)

(* What the library operators say of a sequence with one more entry.       *)
LEMMA AppendEntries ==
  ASSUME NEW T, NEW s \in Seq(T), NEW e \in T
  PROVE  /\ Append(s, e) \in Seq(T) /\ Len(s) \in Nat /\ Len(Append(s, e)) = Len(s) + 1
         /\ Append(s, e) # <<>> /\ Append(s, e)[Len(s) + 1] = e
         /\ \A k \in 1..Len(s) : Append(s, e)[k] = s[k] /\ s[k] \in T
         /\ \A k \in 1..Len(Append(s, e)) : k \in 1..Len(s) \/ k = Len(s) + 1
<1>1. Len(s) \in Nat /\ Append(s, e) \in Seq(T) /\ Len(Append(s, e)) = Len(s) + 1
  OBVIOUS
<1> QED
  BY <1>1

(* The same for two sequences, one after the other.                        *)
LEMMA ConcatEntries ==
  ASSUME NEW T, NEW a \in Seq(T), NEW b \in Seq(T)
  PROVE  /\ a \o b \in Seq(T) /\ Len(a) \in Nat /\ Len(b) \in Nat
         /\ Len(a \o b) = Len(a) + Len(b)
         /\ \A k \in 1..Len(a) : (a \o b)[k] = a[k]
         /\ \A k \in 1..Len(b) : (a \o b)[Len(a) + k] = b[k]
<1>1. a \o b \in Seq(T) /\ Len(a) \in Nat /\ Len(b) \in Nat /\ Len(a \o b) = Len(a) + Len(b)
  OBVIOUS
<1>2. \A k \in 1..Len(a) : (a \o b)[k] = a[k]
  OBVIOUS
<1>3. ASSUME NEW k \in 1..Len(b)
      PROVE  (a \o b)[Len(a) + k] = b[k]
  OBVIOUS
<1> QED
  BY <1>1, <1>2, <1>3

(* The empty sequence and the others.                                      *)
LEMMA EmptyIsEmpty ==
  /\ <<>> \in Seq(Block) /\ <<>> \in Seq(CommandId) /\ Len(<<>>) = 0
  /\ \A T : \A s \in Seq(T) : s # <<>> => Len(s) \in Nat \ {0}
  /\ Elements(<<>>) = {}
  BY DEF Elements

(* One more command is one more element.                                   *)
LEMMA ElementsAppend ==
  ASSUME NEW q \in Seq(CommandId), NEW e \in CommandId
  PROVE  Elements(Append(q, e)) = Elements(q) \union {e}
<1> DEFINE r == Append(q, e)
<1>1. /\ Len(q) \in Nat /\ Len(r) = Len(q) + 1 /\ r[Len(q) + 1] = e
      /\ \A k \in 1..Len(q) : r[k] = q[k]
      /\ \A k \in 1..Len(r) : k \in 1..Len(q) \/ k = Len(q) + 1
  BY AppendEntries
<1> HIDE DEF r
<1>2. Elements(r) \subseteq Elements(q) \union {e}
  BY <1>1 DEF Elements
<1>3. \A k \in 1..Len(q) : k \in 1..Len(r)
  BY <1>1
<1>4. Elements(q) \union {e} \subseteq Elements(r)
  BY <1>1, <1>3 DEF Elements
<1> QED
  BY <1>2, <1>4 DEF r

(* One more block adds its commands.                                       *)
LEMMA CommandsAppend ==
  ASSUME NEW bs \in Seq(Block), NEW b \in Block
  PROVE  CommandsOf(Append(bs, b)) = CommandsOf(bs) \union Elements(b.cmds)
<1> DEFINE r == Append(bs, b)
<1>1. /\ Len(bs) \in Nat /\ Len(r) = Len(bs) + 1 /\ r[Len(bs) + 1] = b
      /\ \A k \in 1..Len(bs) : r[k] = bs[k]
      /\ \A k \in 1..Len(r) : k \in 1..Len(bs) \/ k = Len(bs) + 1
  BY AppendEntries
<1> HIDE DEF r
<1>2. CommandsOf(r) \subseteq CommandsOf(bs) \union Elements(b.cmds)
  BY <1>1 DEF CommandsOf
<1>3. \A k \in 1..Len(bs) : k \in 1..Len(r)
  BY <1>1
<1>4. CommandsOf(bs) \union Elements(b.cmds) \subseteq CommandsOf(r)
  BY <1>1, <1>3 DEF CommandsOf
<1> QED
  BY <1>2, <1>4 DEF r

(* A block whose commands come after all of their client's keeps the order.*)
LEMMA OrderAppend ==
  ASSUME NEW bs \in Seq(Block), NEW b \in Block, NEW c, InOrder(bs, c),
         \A i, j \in 1..Len(b.cmds) : i < j => b.cmds[i][2] < b.cmds[j][2],
         \A e \in CommandsOf(bs) : e[1] = c =>
           \A j \in 1..Len(b.cmds) : b.cmds[j][1] = c => e[2] < b.cmds[j][2]
  PROVE  InOrder(Append(bs, b), c)
<1> DEFINE r == Append(bs, b)
           n == Len(bs)
<1>1. /\ n \in Nat /\ Len(r) = n + 1 /\ r[n + 1] = b
      /\ \A k \in 1..n : r[k] = bs[k]
      /\ \A k \in 1..Len(r) : k \in 1..n \/ k = n + 1
  BY AppendEntries
<1> HIDE DEF r
<1> SUFFICES ASSUME NEW k \in 1..Len(r), NEW l \in 1..Len(r),
                    NEW i \in 1..Len(r[k].cmds), NEW j \in 1..Len(r[l].cmds),
                    k < l \/ (k = l /\ i < j), r[k].cmds[i][1] = c, r[l].cmds[j][1] = c
             PROVE  r[k].cmds[i][2] < r[l].cmds[j][2]
  BY DEF InOrder, r
<1>2. CASE k \in 1..n /\ l \in 1..n
  BY <1>1, <1>2 DEF InOrder
<1>3. CASE k \in 1..n /\ l = n + 1
  <2>1. r[k] = bs[k] /\ r[k].cmds[i] \in Elements(bs[k].cmds)
    BY <1>1, <1>3 DEF Elements
  <2>2. r[k].cmds[i] \in CommandsOf(bs)
    BY <1>3, <2>1 DEF CommandsOf
  <2> QED
    BY <1>1, <1>3, <2>2
<1>4. CASE k = n + 1
  <2>1. l = n + 1 /\ i < j
    BY <1>1, <1>4
  <2> QED
    BY <1>1, <1>4, <2>1
<1> QED
  BY <1>1, <1>2, <1>3, <1>4

-----------------------------------------------------------------------------
(* A call.                                                                 *)

Item == [text : Line, cmd : CommandId]
Call ==
  [q : Seq(CommandId), id : Nat, depth : Nat, stream : Seq(Item), threads : 0..thread_cnt,
   entry : BOOLEAN, bulk_id : Nat, blocks : Seq(Block), broken : Seq(Block), throws : BOOLEAN]

BlockOf(p) == [id |-> p.id, cmds |-> p.q]
AtDepth(p, depth) == [p EXCEPT !.depth = depth]

(* The blocks so far in a call of client c: the invariant of the blocks,   *)
(* with the numbers ids that other contexts hold and what is done of the   *)
(* other clients.                                                          *)
IsHistory(p, c, rcv, ids, others) ==
  /\ AreBlocks(p, rcv) /\ AreNumbered(p)
  /\ \A k \in ids : IsFresh(p, k)
  /\ {e \in Done(p) : e[1] # c} = others
  /\ broken # <<>> => p.broken # <<>>

(* A call that has been given the first m lines of client c.               *)
IsCall(p, c, rcv, m, ids, others) ==
  /\ p \in Call /\ IsHistory(p, c, rcv, ids, others)
  /\ Len(p.stream) <= m
  /\ \A j \in 1..Len(p.stream) :
       p.stream[j] = LineOf(rcv[c], c, (m - Len(p.stream)) + j)
  /\ IsPending(p, c, rcv[c], m - Len(p.stream))
  /\ IsServed(p, p, c, rcv[c], m - Len(p.stream))
  /\ p.throws => p.q = <<>> /\ p.broken # <<>>
  /\ ~p.throws => p.stream = <<>>
  /\ ~p.throws /\ (p.q # <<>> \/ ~p.entry) => IsFresh(p, p.id) /\ p.id \notin ids

(* A number is taken when none is held.                                    *)
LEMMA EnterIsCall ==
  ASSUME NEW p, NEW c, NEW rcv, NEW m, NEW ids \in SUBSET Nat, NEW others,
         IsCall(p, c, rcv, m, ids, others), ~p.throws
  PROVE  /\ IsCall(Enter(p), c, rcv, m, ids, others)
         /\ ~Enter(p).throws /\ ~Enter(p).entry
         /\ Enter(p).q = p.q /\ Enter(p).depth = p.depth
<1> DEFINE e == Enter(p)
<1>1. p \in Call
  BY DEF IsCall
<1>2. /\ e \in Call
      /\ e.q = p.q /\ e.depth = p.depth /\ e.stream = p.stream /\ e.blocks = p.blocks
      /\ e.broken = p.broken /\ ~e.entry /\ e.throws = p.throws
      /\ IF p.q = <<>> /\ p.entry THEN e.id = p.bulk_id + 1 /\ e.bulk_id = p.bulk_id + 1
         ELSE e.id = p.id /\ e.bulk_id = p.bulk_id
  <2>1. CASE p.q = <<>> /\ p.entry
    <3>1. e = [p EXCEPT !.id = p.bulk_id + 1, !.bulk_id = p.bulk_id + 1, !.entry = FALSE]
      BY <1>1, <2>1 DEF Enter, Number, Call
    <3>2. p.bulk_id + 1 \in Nat
      BY <1>1 DEF Call
    <3> HIDE DEF e
    <3>3. e \in Call
      BY <1>1, <3>1, <3>2 DEF Call
    <3> QED
      BY <1>1, <2>1, <3>1, <3>3 DEF Call
  <2>2. CASE ~(p.q = <<>> /\ p.entry)
    <3>1. e = [p EXCEPT !.entry = FALSE]
      BY <2>2 DEF Enter
    <3> QED
      BY <1>1, <2>2, <3>1 DEF Call
  <2> QED
    BY <2>1, <2>2
<1> HIDE DEF e
<1>3. p.bulk_id \in Nat /\ p.id \in Nat /\ p.blocks \in Seq(Block) /\ p.broken \in Seq(Block)
  BY <1>1 DEF Call
<1>4. /\ \A k \in 1..Len(p.blocks) : p.blocks[k].id \in Nat
      /\ \A k \in 1..Len(p.broken) : p.broken[k].id \in Nat
  <2>1. /\ \A k \in 1..Len(p.blocks) : p.blocks[k] \in Block
        /\ \A k \in 1..Len(p.broken) : p.broken[k] \in Block
    BY <1>3
  <2> QED
    BY <2>1 DEF Block
<1>5. AreNumbered(p) /\ \A k \in ids : IsFresh(p, k)
  BY DEF IsCall, IsHistory
<1>6. AreNumbered(e) /\ \A k \in ids : IsFresh(e, k)
  <2>1. /\ e.blocks = p.blocks /\ e.broken = p.broken
        /\ p.bulk_id <= e.bulk_id /\ e.bulk_id \in Nat
    BY <1>2, <1>3
  <2>2. AreNumbered(e)
    BY <1>3, <1>4, <1>5, <2>1 DEF AreNumbered
  <2>3. ASSUME NEW k \in ids
        PROVE  IsFresh(e, k)
    <3>1. k \in Nat /\ IsFresh(p, k)
      BY <1>5
    <3> QED
      BY <1>3, <2>1, <3>1 DEF IsFresh
  <2> QED
    BY <2>2, <2>3
<1>7. IsFresh(e, e.id) /\ e.id \notin ids
  <2>1. CASE p.q = <<>> /\ p.entry
    <3>1. e.id = p.bulk_id + 1 /\ e.bulk_id = p.bulk_id + 1
      BY <1>2, <2>1
    <3> QED
      BY <1>2, <1>3, <1>4, <1>5, <3>1 DEF AreNumbered, IsFresh
  <2>2. CASE ~(p.q = <<>> /\ p.entry)
    <3>1. IsFresh(p, p.id) /\ p.id \notin ids /\ e.id = p.id /\ e.bulk_id = p.bulk_id
      BY <1>2, <2>2 DEF IsCall
    <3> QED
      BY <1>2, <3>1 DEF IsFresh
  <2> QED
    BY <2>1, <2>2
<1>8. IsHistory(e, c, rcv, ids, others)
  BY <1>2, <1>6 DEF IsCall, IsHistory, AreBlocks, Done
<1>9. IsCall(e, c, rcv, m, ids, others)
  BY <1>2, <1>7, <1>8 DEF IsCall, IsPending, IsServed, Done
<1> QED
  BY <1>2, <1>9 DEF e

(* A number taken is no block executed.                                    *)
LEMMA EnterDone ==
  ASSUME NEW p, NEW c, NEW rcv, NEW m, NEW ids, NEW others, IsCall(p, c, rcv, m, ids, others)
  PROVE  Done(Enter(p)) = Done(p)
<1>1. p \in Call
  BY DEF IsCall
<1>2. Enter(p).blocks = p.blocks /\ Enter(p).broken = p.broken
  <2>1. Number(p).blocks = p.blocks /\ Number(p).broken = p.broken /\ Number(p) \in Call
    <3>1. p.bulk_id + 1 \in Nat
      BY <1>1 DEF Call
    <3> QED
      BY <1>1, <3>1 DEF Number, Call
  <2> QED
    BY <1>1, <2>1 DEF Enter, Call
<1> QED
  BY <1>2 DEF Done

(* A block is executed or given up: it is the last one of the client.      *)
LEMMA ExecuteHistory ==
  ASSUME NEW p \in Call, NEW c \in Client, NEW rcv, NEW ids \in SUBSET Nat, NEW others,
         IsHistory(p, c, rcv, ids, others), ~p.throws, ~p.entry,
         IsFresh(p, p.id), p.id \notin ids,
         \A j \in 1..Len(p.q) : p.q[j][1] = c,
         \A i, j \in 1..Len(p.q) : i < j => p.q[i][2] < p.q[j][2],
         \A e \in Done(p) : e[1] = c => \A j \in 1..Len(p.q) : e[2] < p.q[j][2],
         p.q # <<>> => WellCut(BlockOf(p), rcv)
  PROVE  /\ Execute(p) \in Call /\ Execute(p).q = <<>>
         /\ Execute(p).depth = p.depth /\ Execute(p).stream = p.stream
         /\ Done(Execute(p)) = Done(p) \union Elements(p.q)
         /\ IsHistory(Execute(p), c, rcv, ids, others)
         /\ Execute(p).throws => Execute(p).broken # <<>>
         /\ ~Execute(p).throws /\ ~Execute(p).entry =>
              IsFresh(Execute(p), Execute(p).id) /\ Execute(p).id \notin ids
<1> DEFINE b == BlockOf(p)
           e == Execute(p)
<1>1. CASE p.q = <<>>
  <2>1. e = p /\ Elements(p.q) = {}
    BY <1>1, EmptyIsEmpty DEF Execute
  <2> QED
    BY <1>1, <2>1
<1>2. CASE p.q # <<>>
  <2>1. b \in Block /\ p.blocks \in Seq(Block) /\ p.broken \in Seq(Block) /\ WellCut(b, rcv)
        /\ b.id = p.id /\ b.cmds = p.q
    BY <1>2 DEF Call, Block, BlockOf
  <2>2. e = IF p.threads = thread_cnt
            THEN [p EXCEPT !.q = <<>>, !.blocks = Append(p.blocks, b), !.entry = TRUE]
            ELSE [p EXCEPT !.q = <<>>, !.broken = Append(p.broken, b), !.throws = TRUE]
    BY <1>2 DEF Execute, Call, BlockOf
  <2>3. Append(p.blocks, b) \in Seq(Block) /\ Append(p.broken, b) \in Seq(Block)
    BY <2>1, AppendEntries
  <2>4. /\ e \in Call /\ e.q = <<>> /\ e.depth = p.depth /\ e.stream = p.stream
        /\ e.bulk_id = p.bulk_id /\ (e.entry \/ e.throws)
        /\ \/ e.blocks = Append(p.blocks, b) /\ e.broken = p.broken /\ ~e.throws
           \/ e.blocks = p.blocks /\ e.broken = Append(p.broken, b) /\ e.throws
    <3> HIDE DEF e, b
    <3>1. CASE p.threads = thread_cnt
      <4>1. e = [p EXCEPT !.q = <<>>, !.blocks = Append(p.blocks, b), !.entry = TRUE]
        BY <2>2, <3>1
      <4>2. e \in Call
        BY <2>3, <4>1, EmptyIsEmpty DEF Call
      <4> QED
        BY <4>1, <4>2 DEF Call
    <3>2. CASE p.threads # thread_cnt
      <4>1. e = [p EXCEPT !.q = <<>>, !.broken = Append(p.broken, b), !.throws = TRUE]
        BY <2>2, <3>2
      <4>2. e \in Call
        BY <2>3, <4>1, EmptyIsEmpty DEF Call
      <4> QED
        BY <4>1, <4>2 DEF Call
    <3> QED
      BY <3>1, <3>2
  <2> HIDE DEF e, b
  <2> DEFINE L == Len(p.blocks)
             M == Len(p.broken)
  <2>5. /\ L \in Nat /\ Append(p.blocks, b) # <<>> /\ Len(Append(p.blocks, b)) = L + 1
        /\ Append(p.blocks, b)[L + 1] = b
        /\ \A k \in 1..L : Append(p.blocks, b)[k] = p.blocks[k]
        /\ \A k \in 1..Len(Append(p.blocks, b)) : k \in 1..L \/ k = L + 1
    BY <2>1, AppendEntries
  <2>6. /\ M \in Nat /\ Append(p.broken, b) # <<>> /\ Len(Append(p.broken, b)) = M + 1
        /\ Append(p.broken, b)[M + 1] = b
        /\ \A k \in 1..M : Append(p.broken, b)[k] = p.broken[k]
        /\ \A k \in 1..Len(Append(p.broken, b)) : k \in 1..M \/ k = M + 1
    BY <2>1, AppendEntries
  <2>7. Done(e) = Done(p) \union Elements(p.q)
    <3>1. /\ CommandsOf(Append(p.blocks, b)) = CommandsOf(p.blocks) \union Elements(p.q)
          /\ CommandsOf(Append(p.broken, b)) = CommandsOf(p.broken) \union Elements(p.q)
      BY <2>1, CommandsAppend
    <3> QED
      BY <2>4, <3>1 DEF Done
  <2>8. {x \in Done(e) : x[1] # c} = others
    <3>1. \A x \in Elements(p.q) : x[1] = c
      BY DEF Elements
    <3>2. {x \in Done(p) : x[1] # c} = others
      BY DEF IsHistory
    <3> QED
      BY <2>7, <3>1, <3>2
  <2>9. AreBlocks(e, rcv)
    <3>1. AreBlocks(p, rcv)
      BY DEF IsHistory
    <3>2. \A k \in 1..Len(e.blocks) : WellCut(e.blocks[k], rcv)
      BY <2>1, <2>4, <2>5, <3>1 DEF AreBlocks
    <3>3. \A k \in 1..Len(e.broken) : WellCut(e.broken[k], rcv)
      BY <2>1, <2>4, <2>6, <3>1 DEF AreBlocks
    <3>4. ASSUME NEW d \in Client
          PROVE  InOrder(e.blocks, d)
      <4>1. InOrder(p.blocks, d)
        BY <3>1 DEF AreBlocks
      <4>2. \A x \in CommandsOf(p.blocks) : x[1] = d =>
              \A j \in 1..Len(b.cmds) : b.cmds[j][1] = d => x[2] < b.cmds[j][2]
        BY <2>1 DEF Done
      <4>3. InOrder(Append(p.blocks, b), d)
        BY <2>1, <4>1, <4>2, OrderAppend
      <4> QED
        BY <2>4, <4>1, <4>3
    <3> QED
      BY <3>2, <3>3, <3>4 DEF AreBlocks
  <2>10. AreNumbered(e)
    <3>1. AreNumbered(p)
      BY DEF IsHistory
    <3>2. CASE e.blocks = Append(p.blocks, b) /\ e.broken = p.broken
      BY <2>1, <2>4, <2>5, <3>1, <3>2 DEF AreNumbered, IsFresh
    <3>3. CASE e.blocks = p.blocks /\ e.broken = Append(p.broken, b)
      BY <2>1, <2>4, <2>6, <3>1, <3>3 DEF AreNumbered, IsFresh
    <3> QED
      BY <2>4, <3>2, <3>3
  <2>11. ASSUME NEW k \in ids
         PROVE  IsFresh(e, k)
    <3>1. IsFresh(p, k) /\ k # p.id
      BY DEF IsHistory
    <3>2. CASE e.blocks = Append(p.blocks, b) /\ e.broken = p.broken
      BY <2>1, <2>4, <2>5, <3>1, <3>2 DEF IsFresh
    <3>3. CASE e.blocks = p.blocks /\ e.broken = Append(p.broken, b)
      BY <2>1, <2>4, <2>6, <3>1, <3>3 DEF IsFresh
    <3> QED
      BY <2>4, <3>2, <3>3
  <2>12. (broken # <<>> => e.broken # <<>>) /\ (e.throws => e.broken # <<>>)
    BY <2>4, <2>6 DEF IsHistory
  <2>13. IsHistory(e, c, rcv, ids, others)
    BY <2>8, <2>9, <2>10, <2>11, <2>12 DEF IsHistory
  <2> QED
    BY <2>4, <2>7, <2>12, <2>13 DEF e
<1> QED
  BY <1>1, <1>2

(* Pending commands outside of braces make a static block.                 *)
LEMMA StaticIsWellCut ==
  ASSUME NEW q \in Seq(CommandId), NEW id, NEW c \in Client, NEW rcv, NEW n \in Nat, q # <<>>,
         Len(q) <= bulk_size_,
         \A j \in 1..Len(q) : q[j][1] = c /\ q[j][2] \in 1..n /\ Outside(rcv[c], q[j][2], n)
  PROVE  WellCut([id |-> id, cmds |-> q], rcv)
<1> DEFINE b == [id |-> id, cmds |-> q]
<1>1. b.cmds = q /\ Len(q) \in Nat \ {0}
  BY EmptyIsEmpty
<1> HIDE DEF b
<1>2. 1 \in 1..Len(q) /\ Len(q) \in 1..Len(q)
  BY <1>1
<1>3. /\ q[1][2] \in 1..n /\ q[Len(q)][2] \in 1..n
      /\ \A j \in q[1][2]..n : Depth(rcv[c], j) = 0
  BY <1>2 DEF Outside
<1>4. \A k \in q[1][2]..q[Len(q)][2] : k \in q[1][2]..n
  BY <1>3
<1>5. Static(b, rcv[c])
  BY <1>1, <1>3, <1>4 DEF Static
<1> QED
  BY <1>1, <1>5 DEF WellCut, b

(* Those inside the braces that line n + 1 closes make a dynamic one.      *)
LEMMA DynamicIsWellCut ==
  ASSUME NEW q \in Seq(CommandId), NEW id, NEW c \in Client, NEW rcv, NEW n \in Nat, q # <<>>,
         \A j \in 1..Len(q) :
           q[j][1] = c /\ q[j][2] \in 1..n /\ rcv[c][q[j][2]] = "command",
         \A i \in 1..n : rcv[c][i] = "command" =>
           (Inside(rcv[c], i, n) <=> <<c, i>> \in Elements(q)),
         Depth(rcv[c], n + 1) = 0, rcv[c] \in Seq(Line)
  PROVE  WellCut([id |-> id, cmds |-> q], rcv)
<1> DEFINE b == [id |-> id, cmds |-> q]
           f == q[1][2]
<1>1. b.cmds = q /\ Len(q) \in Nat \ {0}
  BY EmptyIsEmpty
<1> HIDE DEF b
<1>2. 1 \in 1..Len(q) /\ q[1] \in CommandId
  BY <1>1
<1>3. q[1] = <<c, f>> /\ f \in 1..n /\ rcv[c][f] = "command" /\ <<c, f>> \in Elements(q)
  <2>1. q[1][1] = c /\ f \in 1..n /\ rcv[c][f] = "command"
    BY <1>2
  <2>2. q[1] = <<c, f>>
    BY <1>2, <2>1 DEF CommandId
  <2> QED
    BY <1>2, <2>1, <2>2 DEF Elements
<1>4. \A j \in f..n : Depth(rcv[c], j) > 0
  BY <1>3 DEF Inside
<1>5. ASSUME NEW i \in 1..Len(rcv[c]), rcv[c][i] = "command"
      PROVE  <<c, i>> \in Elements(q) <=> Together(rcv[c], f, i)
  <2>1. CASE i \in 1..n
    <3>1. \A k \in f..i : k \in f..n
      BY <1>3, <2>1
    <3>2. \A k \in i..f : k \in i..n
      BY <1>3, <2>1
    <3>3. \A k \in i..n : k \in i..f \/ k \in f..n
      BY <1>3, <2>1
    <3>4. Inside(rcv[c], i, n) <=> Together(rcv[c], f, i)
      BY <1>4, <3>1, <3>2, <3>3 DEF Inside, Together
    <3> QED
      BY <1>5, <2>1, <3>4
  <2>2. CASE i \notin 1..n
    <3>1. n + 1 \in f..i /\ ~(Depth(rcv[c], n + 1) > 0)
      BY <1>3, <2>2
    <3>2. ~Together(rcv[c], f, i)
      BY <3>1 DEF Together
    <3>3. <<c, i>> \notin Elements(q)
      <4> SUFFICES ASSUME NEW j \in 1..Len(q), q[j] = <<c, i>>
                   PROVE  FALSE
        BY DEF Elements
      <4>1. q[j][2] = i
        OBVIOUS
      <4> QED
        BY <2>2, <4>1
    <3> QED
      BY <3>2, <3>3
  <2> QED
    BY <2>1, <2>2
<1>6. Dynamic(b, c, rcv[c])
  BY <1>1, <1>5 DEF Dynamic
<1> QED
  BY <1>1, <1>6 DEF WellCut, b

(* A call with nothing pending.                                            *)
LEMMA EmptyIsCall ==
  ASSUME NEW e \in Call, NEW c \in Client, NEW rcv, NEW m \in Nat, NEW ids, NEW others,
         IsHistory(e, c, rcv, ids, others), e.q = <<>>, e.stream = <<>>,
         e.throws => e.broken # <<>>,
         ~e.throws /\ ~e.entry => IsFresh(e, e.id) /\ e.id \notin ids,
         e.depth = Depth(rcv[c], m),
         e.depth > 0 => \A i \in 1..m : rcv[c][i] = "command" => ~Inside(rcv[c], i, m),
         \A i \in 1..m :
           rcv[c][i] = "command" /\ Settled(rcv[c], i, m) => <<c, i>> \in Done(e),
         \A x \in Done(e) : x[1] = c =>
           x[2] \in 1..m /\ rcv[c][x[2]] = "command" /\ Settled(rcv[c], x[2], m)
  PROVE  IsCall(e, c, rcv, m, ids, others)
<1>1. Len(e.stream) = 0 /\ Len(e.q) = 0 /\ m - 0 = m /\ Elements(e.q) = {}
  BY EmptyIsEmpty
<1>2. IsPending(e, c, rcv[c], m)
  BY <1>1, SizeAssumption DEF IsPending
<1>3. IsServed(e, e, c, rcv[c], m)
  BY <1>1 DEF IsServed
<1> QED
  BY <1>1, <1>2, <1>3 DEF IsCall

(* What a call has pending when a line is parsed.                          *)
LEMMA PendingFacts ==
  ASSUME NEW p, NEW c \in Client, NEW rcv, NEW m \in Nat, NEW ids, NEW others,
         IsCall(p, c, rcv, m, ids, others), ~p.throws, ~p.entry
  PROVE  /\ p \in Call /\ p.q \in Seq(CommandId) /\ p.stream = <<>> /\ p.depth \in Nat
         /\ IsHistory(p, c, rcv, ids, others)
         /\ IsPending(p, c, rcv[c], m) /\ IsServed(p, p, c, rcv[c], m)
         /\ IsFresh(p, p.id) /\ p.id \notin ids
         /\ \A j \in 1..Len(p.q) :
              /\ p.q[j] = <<c, p.q[j][2]>> /\ p.q[j][1] = c /\ p.q[j][2] \in 1..m
              /\ rcv[c][p.q[j][2]] = "command"
         /\ \A i, j \in 1..Len(p.q) : i < j => p.q[i][2] < p.q[j][2]
         /\ \A e \in Done(p) : e[1] = c => \A j \in 1..Len(p.q) : e[2] < p.q[j][2]
<1>1. p \in Call /\ p.q \in Seq(CommandId) /\ p.stream = <<>> /\ p.depth \in Nat
  BY DEF IsCall, Call
<1>2. m - Len(p.stream) = m
  BY <1>1, EmptyIsEmpty
<1>3. IsPending(p, c, rcv[c], m) /\ IsServed(p, p, c, rcv[c], m)
  BY <1>2 DEF IsCall
<1>4. \A j \in 1..Len(p.q) : p.q[j] \in CommandId
  BY <1>1
<1>5. ASSUME NEW j \in 1..Len(p.q)
      PROVE  /\ p.q[j] = <<c, p.q[j][2]>> /\ p.q[j][1] = c /\ p.q[j][2] \in 1..m
             /\ rcv[c][p.q[j][2]] = "command"
  BY <1>3, <1>4 DEF IsPending, CommandId
<1>6. ASSUME NEW i \in 1..Len(p.q), NEW j \in 1..Len(p.q), i < j
      PROVE  p.q[i][2] < p.q[j][2]
  <2>1. i \in 1..(j - 1)
    BY <1>6
  <2> QED
    BY <1>3, <2>1 DEF IsPending
<1>7. \A e \in Done(p) : e[1] = c => \A j \in 1..Len(p.q) : e[2] < p.q[j][2]
  BY <1>3 DEF IsServed
<1> QED
  BY <1>1, <1>3, <1>5, <1>6, <1>7 DEF IsCall

(* What stays true when a line is parsed and nothing is executed.          *)
LEMMA SettledStep ==
  ASSUME NEW r, NEW m \in Nat, NEW i \in 1..m
  PROVE  /\ Settled(r, i, m + 1) <=> Settled(r, i, m) \/ Depth(r, m + 1) = 0
         /\ Inside(r, i, m + 1) <=> Inside(r, i, m) /\ Depth(r, m + 1) > 0
         /\ Depth(r, m) = 0 => Settled(r, i, m) /\ ~Inside(r, i, m)
<1>1. \A j : j \in i..(m + 1) <=> j \in i..m \/ j = m + 1
  OBVIOUS
<1>2. m \in i..m
  OBVIOUS
<1> QED
  BY <1>1, <1>2 DEF Settled, Inside

(* The blocks so far are these fields of the call.                         *)
LEMMA SameHistory ==
  ASSUME NEW p, NEW x, NEW c, NEW rcv, NEW ids, NEW others, IsHistory(p, c, rcv, ids, others),
         x.blocks = p.blocks, x.broken = p.broken, x.bulk_id = p.bulk_id
  PROVE  /\ IsHistory(x, c, rcv, ids, others) /\ Done(x) = Done(p)
         /\ \A k : IsFresh(p, k) => IsFresh(x, k)
  BY DEF IsHistory, AreBlocks, AreNumbered, IsFresh, Done

(* What is pending is executed and the depth set: nothing is pending.      *)
LEMMA ExecuteIsCall ==
  ASSUME NEW p, NEW c, NEW rcv, NEW n, NEW ids, NEW others, NEW depth,
         p \in Call, c \in Client, n \in Nat, ids \in SUBSET Nat, depth \in Nat,
         IsHistory(p, c, rcv, ids, others), ~p.throws, ~p.entry, p.stream = <<>>,
         IsFresh(p, p.id), p.id \notin ids,
         \A j \in 1..Len(p.q) :
           /\ p.q[j][1] = c /\ p.q[j][2] \in 1..n /\ rcv[c][p.q[j][2]] = "command"
           /\ Settled(rcv[c], p.q[j][2], n),
         \A i, j \in 1..Len(p.q) : i < j => p.q[i][2] < p.q[j][2],
         \A e \in Done(p) : e[1] = c => \A j \in 1..Len(p.q) : e[2] < p.q[j][2],
         p.q # <<>> => WellCut(BlockOf(p), rcv),
         depth = Depth(rcv[c], n),
         depth > 0 => \A i \in 1..n : rcv[c][i] = "command" => ~Inside(rcv[c], i, n),
         \A i \in 1..n : rcv[c][i] = "command" /\ Settled(rcv[c], i, n) =>
           <<c, i>> \in Done(p) \union Elements(p.q),
         \A e \in Done(p) : e[1] = c =>
           e[2] \in 1..n /\ rcv[c][e[2]] = "command" /\ Settled(rcv[c], e[2], n)
  PROVE  IsCall(AtDepth(Execute(p), depth), c, rcv, n, ids, others)
<1> DEFINE e == Execute(p)
           x == AtDepth(e, depth)
<1>1. \A j \in 1..Len(p.q) : p.q[j][1] = c
  OBVIOUS
<1>2. /\ e \in Call /\ e.q = <<>> /\ e.depth = p.depth /\ e.stream = p.stream
      /\ Done(e) = Done(p) \union Elements(p.q)
      /\ IsHistory(e, c, rcv, ids, others)
      /\ e.throws => e.broken # <<>>
      /\ ~e.throws /\ ~e.entry => IsFresh(e, e.id) /\ e.id \notin ids
  BY <1>1, ExecuteHistory, ZenonT(30)
<1> HIDE DEF e
<1>3. x \in Call
  BY <1>2 DEF Call, AtDepth
<1>4. /\ x.q = <<>> /\ x.stream = <<>> /\ x.depth = depth
      /\ x.throws = e.throws /\ x.entry = e.entry /\ x.id = e.id /\ x.bulk_id = e.bulk_id
      /\ x.blocks = e.blocks /\ x.broken = e.broken
  BY <1>2 DEF Call, AtDepth
<1> HIDE DEF x
<1>5. /\ IsHistory(x, c, rcv, ids, others) /\ Done(x) = Done(e)
      /\ \A k : IsFresh(e, k) => IsFresh(x, k)
  BY <1>2, <1>4, SameHistory
<1>6. ~x.throws /\ ~x.entry => IsFresh(x, x.id) /\ x.id \notin ids
  BY <1>2, <1>4, <1>5
<1>7. \A i \in 1..n : rcv[c][i] = "command" /\ Settled(rcv[c], i, n) => <<c, i>> \in Done(x)
  BY <1>2, <1>5
<1>8. ASSUME NEW d \in Done(x), d[1] = c
      PROVE  d[2] \in 1..n /\ rcv[c][d[2]] = "command" /\ Settled(rcv[c], d[2], n)
  <2>1. CASE d \in Done(p)
    BY <1>8, <2>1
  <2>2. CASE d \in Elements(p.q)
    BY <2>2 DEF Elements
  <2> QED
    BY <1>2, <1>5, <2>1, <2>2
<1>9. x.throws => x.broken # <<>>
  BY <1>2, <1>4
<1>10. IsCall(x, c, rcv, n, ids, others)
  BY <1>3, <1>4, <1>5, <1>6, <1>7, <1>8, <1>9, EmptyIsCall
<1> QED
  BY <1>10 DEF x, e

(* A brace inside of braces changes the depth.                             *)
LEMMA DeeperIsCall ==
  ASSUME NEW p, NEW c \in Client, NEW rcv, NEW m \in Nat, NEW ids, NEW others,
         NEW depth \in Nat \ {0},
         IsCall(p, c, rcv, m, ids, others), ~p.throws, ~p.entry,
         rcv[c][m + 1] # "command", p.depth > 0, depth = Depth(rcv[c], m + 1)
  PROVE  IsCall(AtDepth(p, depth), c, rcv, m + 1, ids, others)
<1> DEFINE r == rcv[c]
           x == AtDepth(p, depth)
<1>1. /\ p \in Call /\ p.q \in Seq(CommandId) /\ p.stream = <<>> /\ p.depth \in Nat
      /\ IsHistory(p, c, rcv, ids, others)
      /\ IsPending(p, c, r, m) /\ IsServed(p, p, c, r, m)
      /\ IsFresh(p, p.id) /\ p.id \notin ids
  BY PendingFacts
<1>2. x \in Call
  BY <1>1 DEF Call, AtDepth
<1>3. /\ x.q = p.q /\ x.stream = <<>> /\ x.depth = depth
      /\ x.throws = p.throws /\ x.entry = p.entry /\ x.id = p.id /\ x.bulk_id = p.bulk_id
      /\ x.blocks = p.blocks /\ x.broken = p.broken
  BY <1>1 DEF Call, AtDepth
<1> HIDE DEF x
<1>4. /\ IsHistory(x, c, rcv, ids, others) /\ Done(x) = Done(p)
      /\ \A k : IsFresh(p, k) => IsFresh(x, k)
  BY <1>1, <1>3, SameHistory
<1>5. IsFresh(x, x.id) /\ x.id \notin ids
  BY <1>1, <1>3, <1>4
<1>6. ASSUME NEW i \in 1..m
      PROVE  (Settled(r, i, m + 1) <=> Settled(r, i, m)) /\ (Inside(r, i, m + 1) <=> Inside(r, i, m))
  BY SettledStep
<1>7. \A i \in 1..(m + 1) : r[i] = "command" => i \in 1..m
  <2>1. \A i \in 1..(m + 1) : i \in 1..m \/ i = m + 1
    OBVIOUS
  <2> QED
    BY <2>1
<1>8. \A i \in 1..m : i \in 1..(m + 1)
  OBVIOUS
<1>9. depth = Depth(r, m + 1)
  OBVIOUS
<1> HIDE DEF r
<1>10. IsPending(x, c, r, m + 1)
  BY <1>1, <1>3, <1>6, <1>7, <1>8, <1>9 DEF IsPending
<1>11. IsServed(x, x, c, r, m + 1)
  BY <1>1, <1>3, <1>4, <1>6, <1>7, <1>8 DEF IsServed
<1>12. Len(x.stream) = 0 /\ (m + 1) - Len(x.stream) = m + 1
  BY <1>3, EmptyIsEmpty
<1>13. IsCall(x, c, rcv, m + 1, ids, others)
  BY <1>2, <1>3, <1>4, <1>5, <1>10, <1>11, <1>12 DEF IsCall, r
<1> QED
  BY <1>13 DEF x

(* An opening brace.                                                       *)
LEMMA OpenBraceIsCall ==
  ASSUME NEW p, NEW c \in Client, NEW rcv, NEW m \in Nat, NEW ids \in SUBSET Nat, NEW others,
         IsCall(p, c, rcv, m, ids, others), ~p.throws, ~p.entry, rcv[c][m + 1] = "begin"
  PROVE  IsCall(OpenBrace(p), c, rcv, m + 1, ids, others)
<1> DEFINE r == rcv[c]
<1>1. /\ p \in Call /\ p.q \in Seq(CommandId) /\ p.stream = <<>> /\ p.depth \in Nat
      /\ IsHistory(p, c, rcv, ids, others)
      /\ IsPending(p, c, r, m) /\ IsServed(p, p, c, r, m)
      /\ IsFresh(p, p.id) /\ p.id \notin ids
      /\ \A j \in 1..Len(p.q) :
           p.q[j] = <<c, p.q[j][2]>> /\ p.q[j][1] = c /\ p.q[j][2] \in 1..m /\ r[p.q[j][2]] = "command"
      /\ \A i, j \in 1..Len(p.q) : i < j => p.q[i][2] < p.q[j][2]
      /\ \A e \in Done(p) : e[1] = c => \A j \in 1..Len(p.q) : e[2] < p.q[j][2]
  BY PendingFacts
<1>2. Depth(r, m) = p.depth /\ Depth(r, m + 1) = p.depth + 1
  <2>1. Depth(r, m + 1) = Depth(r, m) + 1
    BY DepthStep
  <2> QED
    BY <1>1, <2>1 DEF IsPending
<1>3. /\ \A i \in 1..(m + 1) : r[i] = "command" => i \in 1..m
      /\ \A i \in 1..m : i \in 1..(m + 1)
  <2>1. \A i \in 1..(m + 1) : i \in 1..m \/ i = m + 1
    OBVIOUS
  <2> QED
    BY <2>1
<1> HIDE DEF r
<1>4. CASE p.depth = 0
  <2>1. \A j \in 1..Len(p.q) : Outside(r, p.q[j][2], m)
    BY <1>1, <1>4 DEF IsPending
  <2>2. Len(p.q) <= bulk_size_
    <3>1. Len(p.q) < bulk_size_ /\ Len(p.q) \in Nat
      BY <1>1, <1>4 DEF IsPending
    <3> QED
      BY <3>1, SizeAssumption
  <2>3. p.q # <<>> => WellCut(BlockOf(p), rcv)
    BY <1>1, <2>1, <2>2, StaticIsWellCut DEF r, BlockOf
  <2>4. ASSUME NEW i \in 1..m
        PROVE  Settled(r, i, m) /\ Settled(r, i, m + 1) /\ ~Inside(r, i, m + 1)
    <3>1. Depth(r, m) = 0 /\ Depth(r, m + 1) = 1
      BY <1>2, <1>4
    <3> QED
      BY <3>1, SettledStep
  <2>5. \A j \in 1..Len(p.q) :
          /\ p.q[j][1] = c /\ p.q[j][2] \in 1..(m + 1) /\ r[p.q[j][2]] = "command"
          /\ Settled(r, p.q[j][2], m + 1)
    BY <1>1, <1>3, <2>4
  <2>6. \A i \in 1..(m + 1) : r[i] = "command" => ~Inside(r, i, m + 1)
    BY <1>3, <2>4
  <2>7. \A i \in 1..(m + 1) : r[i] = "command" /\ Settled(r, i, m + 1) =>
          <<c, i>> \in Done(p) \union Elements(p.q)
    BY <1>1, <1>3, <2>4 DEF IsServed
  <2>8. \A e \in Done(p) : e[1] = c =>
          e[2] \in 1..(m + 1) /\ r[e[2]] = "command" /\ Settled(r, e[2], m + 1)
    BY <1>1, <1>3, <2>4 DEF IsServed
  <2>9. m + 1 \in Nat /\ 1 \in Nat /\ 1 = Depth(r, m + 1)
    BY <1>2, <1>4
  <2>10. OpenBrace(p) = AtDepth(Execute(p), 1)
    <3>1. \A j \in 1..Len(p.q) : p.q[j][1] = c
      BY <1>1
    <3>2. Execute(p).depth = p.depth /\ Execute(p) \in Call
      BY <1>1, <2>3, <3>1, ExecuteHistory
    <3> QED
      BY <1>4, <3>2 DEF OpenBrace, Call, AtDepth
  <2>11. p \in Call /\ ids \in SUBSET Nat /\ p.stream = <<>> /\ IsHistory(p, c, rcv, ids, others)
    BY <1>1
  <2>12. IsCall(AtDepth(Execute(p), 1), c, rcv, m + 1, ids, others)
    <3>1. /\ IsFresh(p, p.id) /\ p.id \notin ids
          /\ \A i, j \in 1..Len(p.q) : i < j => p.q[i][2] < p.q[j][2]
          /\ \A e \in Done(p) : e[1] = c => \A j \in 1..Len(p.q) : e[2] < p.q[j][2]
      BY <1>1
    <3> QED
      BY <2>3, <2>5, <2>6, <2>7, <2>8, <2>9, <2>11, <3>1, ExecuteIsCall DEF r
  <2> QED
    BY <2>10, <2>12
<1>5. CASE p.depth # 0
  <2>1. p.depth > 0 /\ p.depth + 1 \in Nat \ {0} /\ p.depth + 1 = Depth(rcv[c], m + 1)
    BY <1>1, <1>2, <1>5 DEF r
  <2>2. OpenBrace(p) = AtDepth(p, p.depth + 1)
    BY <1>1, <1>5 DEF OpenBrace, Call, AtDepth
  <2> QED
    BY <2>1, <2>2, DeeperIsCall
<1> QED
  BY <1>4, <1>5

(* A closing one.                                                          *)
LEMMA CloseBraceIsCall ==
  ASSUME NEW p, NEW c \in Client, NEW rcv, NEW m \in Nat, NEW ids \in SUBSET Nat, NEW others,
         IsCall(p, c, rcv, m, ids, others), ~p.throws, ~p.entry, rcv[c][m + 1] = "end",
         rcv[c] \in Seq(Line), \A k \in 0..(m + 1) : Depth(rcv[c], k) >= 0
  PROVE  IsCall(CloseBrace(p), c, rcv, m + 1, ids, others)
<1> DEFINE r == rcv[c]
<1>1. /\ p \in Call /\ p.q \in Seq(CommandId) /\ p.stream = <<>> /\ p.depth \in Nat
      /\ IsHistory(p, c, rcv, ids, others)
      /\ IsPending(p, c, r, m) /\ IsServed(p, p, c, r, m)
      /\ IsFresh(p, p.id) /\ p.id \notin ids
      /\ \A j \in 1..Len(p.q) :
           p.q[j] = <<c, p.q[j][2]>> /\ p.q[j][1] = c /\ p.q[j][2] \in 1..m /\ r[p.q[j][2]] = "command"
      /\ \A i, j \in 1..Len(p.q) : i < j => p.q[i][2] < p.q[j][2]
      /\ \A e \in Done(p) : e[1] = c => \A j \in 1..Len(p.q) : e[2] < p.q[j][2]
  BY PendingFacts
<1>2. /\ Depth(r, m) = p.depth /\ Depth(r, m + 1) = p.depth - 1 /\ p.depth # 0
      /\ r \in Seq(Line) /\ \A k \in 0..m : Depth(r, k) >= 0 /\ Depth(r, k) \in Int
  <2>1. Depth(r, m + 1) = Depth(r, m) - 1
    BY DepthStep
  <2>2. /\ m + 1 \in 0..(m + 1) /\ \A k \in 0..m : k \in 0..(m + 1)
        /\ \A k \in 0..m : k \in Nat
    OBVIOUS
  <2>3. Depth(r, m) = p.depth /\ Depth(r, m + 1) >= 0
    BY <1>1, <2>2 DEF IsPending
  <2>4. \A k \in 0..m : Depth(r, k) \in Int
    BY <2>2, DepthStep
  <2> QED
    BY <1>1, <2>1, <2>2, <2>3, <2>4
<1>3. /\ \A i \in 1..(m + 1) : r[i] = "command" => i \in 1..m
      /\ \A i \in 1..m : i \in 1..(m + 1)
  <2>1. \A i \in 1..(m + 1) : i \in 1..m \/ i = m + 1
    OBVIOUS
  <2> QED
    BY <2>1
<1> HIDE DEF r
<1>4. CASE p.depth = 1
  <2>1. \A i \in 1..m : r[i] = "command" => (Inside(r, i, m) <=> <<c, i>> \in Elements(p.q))
    BY <1>1, <1>4 DEF IsPending
  <2>2. Depth(r, m + 1) = 0
    BY <1>2, <1>4
  <2>3. p.q # <<>> => WellCut(BlockOf(p), rcv)
    <3>1. \A j \in 1..Len(p.q) :
            p.q[j][1] = c /\ p.q[j][2] \in 1..m /\ r[p.q[j][2]] = "command"
      BY <1>1
    <3> QED
      BY <1>1, <1>2, <2>1, <2>2, <3>1, DynamicIsWellCut DEF r, BlockOf
  <2>4. ASSUME NEW i \in 1..m
        PROVE  /\ Settled(r, i, m + 1) /\ ~Inside(r, i, m + 1)
               /\ Settled(r, i, m) \/ Inside(r, i, m)
    <3>1. Settled(r, i, m + 1) /\ ~Inside(r, i, m + 1)
      BY <2>2, SettledStep
    <3>2. \A j \in i..m : Depth(r, j) > 0 \/ Depth(r, j) = 0
      <4>1. \A j \in i..m : j \in 0..m
        OBVIOUS
      <4> QED
        BY <1>2, <4>1
    <3> QED
      BY <3>1, <3>2 DEF Settled, Inside
  <2>5. \A j \in 1..Len(p.q) :
          /\ p.q[j][1] = c /\ p.q[j][2] \in 1..(m + 1) /\ r[p.q[j][2]] = "command"
          /\ Settled(r, p.q[j][2], m + 1)
    BY <1>1, <1>3, <2>4
  <2>6. \A i \in 1..(m + 1) : r[i] = "command" => ~Inside(r, i, m + 1)
    BY <1>3, <2>4
  <2>7. \A i \in 1..(m + 1) : r[i] = "command" /\ Settled(r, i, m + 1) =>
          <<c, i>> \in Done(p) \union Elements(p.q)
    BY <1>1, <1>3, <2>1, <2>4 DEF IsServed
  <2>8. \A e \in Done(p) : e[1] = c =>
          e[2] \in 1..(m + 1) /\ r[e[2]] = "command" /\ Settled(r, e[2], m + 1)
    BY <1>1, <1>3, <2>4 DEF IsServed
  <2>9. m + 1 \in Nat /\ 0 \in Nat /\ 0 = Depth(r, m + 1)
    BY <2>2
  <2>10. CloseBrace(p) = AtDepth(Execute(p), 0)
    <3>1. \A j \in 1..Len(p.q) : p.q[j][1] = c
      BY <1>1
    <3>2. Execute(p).depth = p.depth /\ Execute(p) \in Call
      BY <1>1, <2>3, <3>1, ExecuteHistory
    <3> QED
      <4>1. Execute(p).depth - 1 = 0
        BY <1>4, <3>2
      <4>2. CloseBrace(p) = [Execute(p) EXCEPT !.depth = Execute(p).depth - 1]
        BY <1>4 DEF CloseBrace
      <4> QED
        BY <4>1, <4>2 DEF AtDepth
  <2>11. p \in Call /\ ids \in SUBSET Nat /\ p.stream = <<>> /\ IsHistory(p, c, rcv, ids, others)
    BY <1>1
  <2>12. IsCall(AtDepth(Execute(p), 0), c, rcv, m + 1, ids, others)
    <3>1. /\ IsFresh(p, p.id) /\ p.id \notin ids
          /\ \A i, j \in 1..Len(p.q) : i < j => p.q[i][2] < p.q[j][2]
          /\ \A e \in Done(p) : e[1] = c => \A j \in 1..Len(p.q) : e[2] < p.q[j][2]
      BY <1>1
    <3> QED
      BY <2>3, <2>5, <2>6, <2>7, <2>8, <2>9, <2>11, <3>1, ExecuteIsCall DEF r
  <2> QED
    BY <2>10, <2>12
<1>5. CASE p.depth # 1
  <2>1. p.depth > 0 /\ p.depth - 1 \in Nat \ {0} /\ p.depth - 1 = Depth(rcv[c], m + 1)
    BY <1>1, <1>2, <1>5 DEF r
  <2>2. CloseBrace(p) = AtDepth(p, p.depth - 1)
    BY <1>1, <1>5 DEF CloseBrace, Call, AtDepth
  <2> QED
    BY <2>1, <2>2, DeeperIsCall
<1> QED
  BY <1>4, <1>5

(* A command joins those pending, and may complete a static block.         *)
LEMMA CommandIsCall ==
  ASSUME NEW p, NEW c \in Client, NEW rcv, NEW m \in Nat, NEW ids \in SUBSET Nat, NEW others,
         IsCall(p, c, rcv, m, ids, others), ~p.throws, ~p.entry, rcv[c][m + 1] = "command"
  PROVE  IsCall(Command(p, <<c, m + 1>>), c, rcv, m + 1, ids, others)
<1> DEFINE r == rcv[c]
           e == <<c, m + 1>>
           x == [p EXCEPT !.q = Append(p.q, e)]
           L == Len(p.q)
<1>1. /\ p \in Call /\ p.q \in Seq(CommandId) /\ p.stream = <<>> /\ p.depth \in Nat
      /\ IsHistory(p, c, rcv, ids, others)
      /\ IsPending(p, c, r, m) /\ IsServed(p, p, c, r, m)
      /\ IsFresh(p, p.id) /\ p.id \notin ids
      /\ \A j \in 1..Len(p.q) :
           p.q[j] = <<c, p.q[j][2]>> /\ p.q[j][1] = c /\ p.q[j][2] \in 1..m /\ r[p.q[j][2]] = "command"
      /\ \A i, j \in 1..Len(p.q) : i < j => p.q[i][2] < p.q[j][2]
      /\ \A d \in Done(p) : d[1] = c => \A j \in 1..Len(p.q) : d[2] < p.q[j][2]
  BY PendingFacts
<1>2. /\ Depth(r, m) = p.depth /\ Depth(r, m + 1) = p.depth /\ r[m + 1] = "command"
  <2>1. Depth(r, m + 1) = Depth(r, m)
    BY DepthStep
  <2> QED
    BY <1>1, <2>1 DEF IsPending
<1>3. /\ \A i \in 1..(m + 1) : i \in 1..m \/ i = m + 1
      /\ \A i \in 1..m : i \in 1..(m + 1)
      /\ m + 1 \in 1..(m + 1)
  OBVIOUS
<1> HIDE DEF r
<1>4. e \in CommandId /\ e[1] = c /\ e[2] = m + 1
  BY DEF CommandId
<1> HIDE DEF e
<1>5. /\ Append(p.q, e) \in Seq(CommandId) /\ L \in Nat /\ Len(Append(p.q, e)) = L + 1
      /\ Append(p.q, e)[L + 1] = e
      /\ \A k \in 1..L : Append(p.q, e)[k] = p.q[k]
      /\ \A k \in 1..Len(Append(p.q, e)) : k \in 1..L \/ k = L + 1
      /\ Elements(Append(p.q, e)) = Elements(p.q) \union {e}
  BY <1>1, <1>4, AppendEntries, ElementsAppend
<1>6. x \in Call
  BY <1>1, <1>5 DEF Call
<1>7. /\ x.q = Append(p.q, e) /\ x.stream = <<>> /\ x.depth = p.depth
      /\ x.throws = p.throws /\ x.entry = p.entry /\ x.id = p.id /\ x.bulk_id = p.bulk_id
      /\ x.blocks = p.blocks /\ x.broken = p.broken
  BY <1>1 DEF Call
<1>8. Command(p, e) = IF Chunk(x) THEN Execute(x) ELSE x
  BY DEF Command
<1> HIDE DEF x
<1>9. /\ IsHistory(x, c, rcv, ids, others) /\ Done(x) = Done(p)
      /\ \A k : IsFresh(p, k) => IsFresh(x, k)
  BY <1>1, <1>7, SameHistory
<1>10. IsFresh(x, x.id) /\ x.id \notin ids
  BY <1>1, <1>7, <1>9
<1>11. \A j \in 1..Len(x.q) :
         /\ x.q[j][1] = c /\ x.q[j][2] \in 1..(m + 1) /\ r[x.q[j][2]] = "command"
  BY <1>1, <1>2, <1>3, <1>4, <1>5, <1>7
<1>12. \A i, j \in 1..Len(x.q) : i < j => x.q[i][2] < x.q[j][2]
  <2> SUFFICES ASSUME NEW i \in 1..Len(x.q), NEW j \in 1..Len(x.q), i < j
               PROVE  x.q[i][2] < x.q[j][2]
    OBVIOUS
  <2>1. i \in 1..L
    BY <1>5, <1>7
  <2>2. CASE j \in 1..L
    BY <1>1, <1>5, <1>7, <2>1, <2>2
  <2>3. CASE j = L + 1
    BY <1>1, <1>4, <1>5, <1>7, <2>1, <2>3
  <2> QED
    BY <1>5, <1>7, <2>2, <2>3
<1>13. ASSUME NEW d \in Done(x), d[1] = c
       PROVE  /\ d[2] \in 1..(m + 1) /\ r[d[2]] = "command" /\ Settled(r, d[2], m + 1)
              /\ \A j \in 1..Len(x.q) : d[2] < x.q[j][2]
  <2>1. d[2] \in 1..m /\ r[d[2]] = "command" /\ Settled(r, d[2], m)
    BY <1>1, <1>9, <1>13 DEF IsServed
  <2>2. Settled(r, d[2], m + 1)
    BY <2>1, SettledStep
  <2>3. ASSUME NEW j \in 1..Len(x.q)
        PROVE  d[2] < x.q[j][2]
    <3>1. CASE j \in 1..L
      BY <1>1, <1>5, <1>7, <1>9, <1>13, <3>1
    <3>2. CASE j = L + 1
      BY <1>4, <1>5, <1>7, <2>1, <3>2
    <3> QED
      BY <1>5, <1>7, <3>1, <3>2
  <2> QED
    BY <1>3, <2>1, <2>2, <2>3
<1>14. ASSUME NEW i \in 1..(m + 1), r[i] = "command", Settled(r, i, m + 1)
       PROVE  <<c, i>> \in Done(x) \union Elements(x.q)
  <2>1. CASE i = m + 1
    BY <1>5, <1>7, <2>1 DEF e
  <2>2. CASE i \in 1..m
    <3>1. Settled(r, i, m)
      BY <1>2, <1>14, <2>2, SettledStep
    <3> QED
      BY <1>1, <1>5, <1>7, <1>9, <1>14, <2>2, <3>1 DEF IsServed
  <2> QED
    BY <1>3, <2>1, <2>2
<1>15. p.depth = 0 => /\ \A j \in 1..Len(x.q) : Outside(r, x.q[j][2], m + 1)
                      /\ Len(x.q) <= bulk_size_ /\ Len(x.q) \in Nat
  <2> SUFFICES ASSUME p.depth = 0
               PROVE  /\ \A j \in 1..Len(x.q) : Outside(r, x.q[j][2], m + 1)
                      /\ Len(x.q) <= bulk_size_ /\ Len(x.q) \in Nat
    OBVIOUS
  <2>1. L < bulk_size_ /\ \A j \in 1..L : Outside(r, p.q[j][2], m)
    BY <1>1 DEF IsPending
  <2>2. ASSUME NEW j \in 1..Len(x.q)
        PROVE  Outside(r, x.q[j][2], m + 1)
    <3>1. \A i \in 1..(m + 1) : \A k \in i..(m + 1) : k \in i..m \/ k = m + 1
      OBVIOUS
    <3>2. CASE j \in 1..L
      BY <1>1, <1>2, <1>3, <1>5, <1>7, <2>1, <3>1, <3>2 DEF Outside
    <3>3. CASE j = L + 1
      <4>1. x.q[j][2] = m + 1 /\ \A k \in (m + 1)..(m + 1) : k = m + 1
        BY <1>4, <1>5, <1>7, <3>3
      <4> QED
        BY <1>2, <4>1 DEF Outside
    <3> QED
      BY <1>5, <1>7, <3>2, <3>3
  <2>3. Len(x.q) <= bulk_size_ /\ Len(x.q) \in Nat
    BY <1>5, <1>7, <2>1, SizeAssumption
  <2> QED
    BY <2>2, <2>3
<1>16. CASE Chunk(x)
  <2>1. p.depth = 0 /\ x.depth = 0
    BY <1>7, <1>16 DEF Chunk
  <2>2. x.q # <<>> /\ x.q \in Seq(CommandId)
    <3>1. Append(p.q, e) # <<>>
      BY <1>5, EmptyIsEmpty
    <3> QED
      BY <1>5, <1>7, <3>1
  <2>3. m + 1 \in Nat /\ 0 \in Nat /\ 0 = Depth(r, m + 1)
    BY <1>2, <2>1
  <2>4. WellCut(BlockOf(x), rcv)
    <3>1. \A j \in 1..Len(x.q) :
            x.q[j][1] = c /\ x.q[j][2] \in 1..(m + 1) /\ Outside(r, x.q[j][2], m + 1)
      BY <1>11, <1>15, <2>1
    <3> QED
      BY <1>15, <2>1, <2>2, <2>3, <3>1, StaticIsWellCut DEF r, BlockOf
  <2>5. ASSUME NEW i \in 1..(m + 1)
        PROVE  Settled(r, i, m + 1) /\ ~Inside(r, i, m + 1)
    <3>1. m + 1 \in i..(m + 1)
      OBVIOUS
    <3> QED
      BY <2>3, <3>1 DEF Settled, Inside
  <2>6. \A j \in 1..Len(x.q) :
          /\ x.q[j][1] = c /\ x.q[j][2] \in 1..(m + 1) /\ r[x.q[j][2]] = "command"
          /\ Settled(r, x.q[j][2], m + 1)
    BY <1>11, <2>5
  <2>7. \A i \in 1..(m + 1) : r[i] = "command" => ~Inside(r, i, m + 1)
    BY <2>5
  <2>8. \A i \in 1..(m + 1) : r[i] = "command" /\ Settled(r, i, m + 1) =>
          <<c, i>> \in Done(x) \union Elements(x.q)
    BY <1>14
  <2>9. /\ \A d \in Done(x) : d[1] = c => \A j \in 1..Len(x.q) : d[2] < x.q[j][2]
        /\ \A d \in Done(x) : d[1] = c =>
             d[2] \in 1..(m + 1) /\ r[d[2]] = "command" /\ Settled(r, d[2], m + 1)
    BY <1>13
  <2>10. ~x.throws /\ ~x.entry /\ x.stream = <<>> /\ x \in Call
    BY <1>6, <1>7
  <2>11. IsHistory(x, c, rcv, ids, others)
    BY <1>9
  <2>12. IsCall(AtDepth(Execute(x), 0), c, rcv, m + 1, ids, others)
    BY <1>10, <1>12, <2>3, <2>4, <2>6, <2>7, <2>8, <2>9, <2>10, <2>11, ExecuteIsCall DEF r
  <2>13. AtDepth(Execute(x), 0) = Execute(x)
    <3>1. \A j \in 1..Len(x.q) : x.q[j][1] = c
      BY <2>6
    <3>2. Execute(x).depth = x.depth /\ Execute(x) \in Call
      BY <1>10, <1>12, <2>4, <2>9, <2>10, <2>11, <3>1, ExecuteHistory
    <3> QED
      BY <2>1, <3>2 DEF Call, AtDepth
  <2> QED
    BY <1>8, <1>16, <2>12, <2>13 DEF e
<1>17. CASE ~Chunk(x)
  <2>1. IsPending(x, c, r, m + 1)
    <3>1. x.depth = Depth(r, m + 1)
      BY <1>2, <1>7
    <3>2. \A j \in 1..Len(x.q) : \A k \in 1..(j - 1) : x.q[k][2] < x.q[j][2]
      <4>1. \A j \in 1..Len(x.q) : \A k \in 1..(j - 1) : k \in 1..Len(x.q) /\ k < j
        BY <1>5, <1>7
      <4> QED
        BY <1>12, <4>1
    <3>3. x.depth = 0 =>
            Len(x.q) < bulk_size_ /\ \A j \in 1..Len(x.q) : Outside(r, x.q[j][2], m + 1)
      BY <1>7, <1>15, <1>17, SizeAssumption DEF Chunk
    <3>4. ASSUME x.depth > 0, NEW i \in 1..(m + 1), r[i] = "command"
          PROVE  Inside(r, i, m + 1) <=> <<c, i>> \in Elements(x.q)
      <4>1. CASE i = m + 1
        <5>1. \A k \in i..(m + 1) : k = m + 1
          BY <4>1
        <5>2. Inside(r, i, m + 1)
          BY <1>2, <1>7, <3>4, <5>1 DEF Inside
        <5> QED
          BY <1>5, <1>7, <4>1, <5>2 DEF e
      <4>2. CASE i \in 1..m
        <5>1. Inside(r, i, m + 1) <=> Inside(r, i, m)
          BY <1>2, <1>7, <3>4, <4>2, SettledStep
        <5>2. Inside(r, i, m) <=> <<c, i>> \in Elements(p.q)
          BY <1>1, <1>7, <3>4, <4>2 DEF IsPending
        <5>3. <<c, i>> # e
          BY <1>4, <4>2
        <5> QED
          BY <1>5, <1>7, <5>1, <5>2, <5>3
      <4> QED
        BY <1>3, <4>1, <4>2
    <3> QED
      BY <1>11, <3>1, <3>2, <3>3, <3>4 DEF IsPending
  <2>2. IsServed(x, x, c, r, m + 1)
    BY <1>13, <1>14 DEF IsServed
  <2>3. Len(x.stream) = 0 /\ (m + 1) - Len(x.stream) = m + 1
    BY <1>7, EmptyIsEmpty
  <2>4. IsCall(x, c, rcv, m + 1, ids, others)
    BY <1>6, <1>7, <1>9, <1>10, <2>1, <2>2, <2>3 DEF IsCall, r
  <2> QED
    BY <1>8, <1>17, <2>4 DEF e
<1> QED
  BY <1>16, <1>17

(* The lines of a client: no prefix closes a brace it has not opened.      *)
Closable(r) == r \in Seq(Line) /\ \A k \in 0..Len(r) : Depth(r, k) >= 0

(* One more line.                                                          *)
LEMMA ParseIsCall ==
  ASSUME NEW p, NEW c \in Client, NEW rcv, NEW m \in Nat, NEW ids \in SUBSET Nat, NEW others,
         IsCall(p, c, rcv, m, ids, others), Closable(rcv[c]), m < Len(rcv[c])
  PROVE  IsCall(Parse(p, LineOf(rcv[c], c, m + 1)), c, rcv, m + 1, ids, others)
<1> DEFINE line == LineOf(rcv[c], c, m + 1)
           e == Enter(p)
<1>1. line = [text |-> rcv[c][m + 1], cmd |-> <<c, m + 1>>] /\ line \in Item
      /\ rcv[c][m + 1] \in Line /\ line.text = rcv[c][m + 1] /\ line.cmd = <<c, m + 1>>
  <2>1. m + 1 \in 1..Len(rcv[c])
    BY DEF Closable
  <2>2. rcv[c][m + 1] \in Line
    BY <2>1 DEF Closable
  <2> QED
    BY <2>2 DEF LineOf, Item, CommandId
<1>2. p \in Call
  BY DEF IsCall
<1> HIDE DEF line
<1>3. CASE p.throws
  <2> DEFINE x == [p EXCEPT !.stream = Append(p.stream, line)]
             L == Len(p.stream)
  <2>1. /\ p.stream \in Seq(Item) /\ Append(p.stream, line) \in Seq(Item)
        /\ L \in Nat /\ Len(Append(p.stream, line)) = L + 1
        /\ Append(p.stream, line)[L + 1] = line
        /\ \A j \in 1..L : Append(p.stream, line)[j] = p.stream[j]
        /\ \A j \in 1..Len(Append(p.stream, line)) : j \in 1..L \/ j = L + 1
    BY <1>1, <1>2, AppendEntries DEF Call
  <2>2. Parse(p, line) = x
    BY <1>3 DEF Parse
  <2>3. x \in Call
    BY <1>2, <2>1 DEF Call
  <2>4. /\ x.q = p.q /\ x.stream = Append(p.stream, line) /\ x.depth = p.depth
        /\ x.throws = p.throws /\ x.entry = p.entry /\ x.id = p.id /\ x.bulk_id = p.bulk_id
        /\ x.blocks = p.blocks /\ x.broken = p.broken
    BY <1>2 DEF Call
  <2> HIDE DEF x
  <2>5. IsHistory(p, c, rcv, ids, others)
    BY DEF IsCall
  <2>6. IsHistory(x, c, rcv, ids, others) /\ Done(x) = Done(p)
    BY <2>4, <2>5, SameHistory
  <2>7. Len(x.stream) = L + 1 /\ L <= m /\ (m + 1) - Len(x.stream) = m - L
    <3>1. Len(x.stream) = L + 1 /\ L <= m
      BY <2>1, <2>4 DEF IsCall
    <3> QED
      BY <2>1, <3>1
  <2>8. ASSUME NEW j \in 1..Len(x.stream)
        PROVE  x.stream[j] = LineOf(rcv[c], c, ((m + 1) - Len(x.stream)) + j)
    <3>1. CASE j \in 1..L
      <4>1. p.stream[j] = LineOf(rcv[c], c, (m - L) + j)
        BY <3>1 DEF IsCall
      <4> QED
        BY <2>1, <2>4, <2>7, <3>1, <4>1
    <3>2. CASE j = L + 1
      <4>1. (m - L) + j = m + 1 /\ x.stream[j] = line
        <5>1. \A k \in Nat : (m - k) + (k + 1) = m + 1
          OBVIOUS
        <5> QED
          BY <2>1, <2>4, <3>2, <5>1
      <4> QED
        BY <2>7, <4>1 DEF line
    <3> QED
      BY <2>1, <2>4, <3>1, <3>2
  <2>9. IsPending(x, c, rcv[c], m - L) /\ IsServed(x, x, c, rcv[c], m - L)
    <3>1. IsPending(p, c, rcv[c], m - L) /\ IsServed(p, p, c, rcv[c], m - L)
      BY DEF IsCall
    <3> QED
      BY <2>4, <2>6, <3>1 DEF IsPending, IsServed
  <2>10. p.q = <<>> /\ p.broken # <<>>
    BY <1>3 DEF IsCall
  <2>11. Len(x.stream) <= m + 1
    BY <2>1, <2>7
  <2>12. IsCall(x, c, rcv, m + 1, ids, others)
    BY <1>3, <2>3, <2>4, <2>6, <2>7, <2>8, <2>9, <2>10, <2>11 DEF IsCall
  <2> QED
    BY <2>2, <2>12 DEF line
<1>4. CASE ~p.throws
  <2>1. IsCall(e, c, rcv, m, ids, others) /\ ~e.throws /\ ~e.entry
    BY <1>4, EnterIsCall
  <2> HIDE DEF e
  <2>2. CASE line.text = "begin"
    <3>1. Parse(p, line) = OpenBrace(e)
      BY <1>4, <2>2 DEF Parse, e
    <3> QED
      BY <1>1, <2>1, <2>2, <3>1, OpenBraceIsCall DEF line
  <2>3. CASE line.text = "end"
    <3>1. Parse(p, line) = CloseBrace(e)
      BY <1>4, <2>3 DEF Parse, e
    <3>2. rcv[c] \in Seq(Line) /\ \A k \in 0..(m + 1) : Depth(rcv[c], k) >= 0
      <4>1. rcv[c] \in Seq(Line) /\ \A k \in 0..(m + 1) : k \in 0..Len(rcv[c])
        BY DEF Closable
      <4> QED
        BY <4>1 DEF Closable
    <3> QED
      BY <1>1, <2>1, <2>3, <3>1, <3>2, CloseBraceIsCall DEF line
  <2>4. CASE line.text = "command"
    <3>1. Parse(p, line) = Command(e, <<c, m + 1>>)
      BY <1>1, <1>4, <2>4 DEF Parse, e
    <3> QED
      BY <1>1, <2>1, <2>4, <3>1, CommandIsCall DEF line
  <2> QED
    BY <1>1, <2>2, <2>3, <2>4 DEF Line
<1> QED
  BY <1>3, <1>4

(* All the lines of a call.                                                *)
LEMMA ParsedIsCall ==
  ASSUME NEW p, NEW c \in Client, NEW rcv, NEW m \in Nat, NEW ids \in SUBSET Nat, NEW others,
         IsCall(p, c, rcv, m, ids, others), Closable(rcv[c]),
         NEW lines, Len(lines) \in Nat, m + Len(lines) <= Len(rcv[c]),
         \A i \in 1..Len(lines) : lines[i] = LineOf(rcv[c], c, m + i)
  PROVE  IsCall(Parsed(p, lines), c, rcv, m + Len(lines), ids, others)
<1>1. PICK f : /\ Parsed(p, lines) = f[Len(lines)] /\ f[0] = p
               /\ \A i \in 1..Len(lines) : f[i] = Parse(f[i - 1], lines[i])
  BY ParsedSteps
<1> DEFINE S == {i \in 0..Len(lines) : IsCall(f[i], c, rcv, m + i, ids, others)}
<1>2. 0 \in S
  <2>1. m + 0 = m
    OBVIOUS
  <2> QED
    BY <1>1, <2>1
<1>3. ASSUME NEW i \in 0..(Len(lines) - 1), i \in S
      PROVE  i + 1 \in S
  <2>1. /\ i + 1 \in 1..Len(lines) /\ (i + 1) - 1 = i /\ m + (i + 1) = (m + i) + 1
        /\ m + i \in Nat /\ m + i < Len(rcv[c])
    BY DEF Closable
  <2>2. f[i + 1] = Parse(f[i], LineOf(rcv[c], c, (m + i) + 1))
    <3>1. f[i + 1] = Parse(f[(i + 1) - 1], lines[i + 1])
      BY <1>1, <2>1
    <3>2. lines[i + 1] = LineOf(rcv[c], c, m + (i + 1))
      BY <2>1
    <3> QED
      BY <2>1, <3>1, <3>2
  <2>3. IsCall(f[i], c, rcv, m + i, ids, others)
    BY <1>3
  <2>4. IsCall(f[i + 1], c, rcv, (m + i) + 1, ids, others)
    BY <2>1, <2>2, <2>3, ParseIsCall
  <2> QED
    BY <2>1, <2>4
<1>4. 0..Len(lines) \subseteq S
  <2> HIDE DEF S
  <2> QED
    BY <1>2, <1>3, UpToInduction
<1> QED
  BY <1>1, <1>4

-----------------------------------------------------------------------------
(* Calls of the library.                                                   *)

(* What the invariant says before a call on context x of client c, of      *)
(* whose lines the first m are parsed.                                     *)
ContextType ==
  [q : Seq(CommandId), id : Nat, depth : Nat, stream : Seq(Item), threads : 0..thread_cnt]
CanCall(x, c, rcv, m, ids, others) ==
  /\ x \in ContextType /\ Closable(rcv[c])
  /\ bulk_id \in Nat /\ blocks \in Seq(Block) /\ broken \in Seq(Block)
  /\ IsHistory(Now, c, rcv, ids, others)
  /\ IsPending(x, c, rcv[c], m) /\ IsServed(Now, x, c, rcv[c], m)
  /\ x.q # <<>> => IsFresh(Now, x.id) /\ x.id \notin ids

(* Such a context makes a call that has parsed the first m lines.          *)
LEMMA BegunIsCall ==
  ASSUME NEW x, NEW c \in Client, NEW rcv, NEW m \in Nat, NEW ids \in SUBSET Nat, NEW others,
         CanCall(x, c, rcv, m, ids, others), NEW t \in 0..thread_cnt
  PROVE  IsCall(Begun(x, t), c, rcv, m, ids, others)
<1> DEFINE p == Begun(x, t)
<1>1. x \in ContextType /\ bulk_id \in Nat /\ blocks \in Seq(Block) /\ broken \in Seq(Block)
  BY DEF CanCall
<1>2. /\ p.q = x.q /\ p.id = x.id /\ p.depth = x.depth /\ p.stream = <<>> /\ p.entry = TRUE
      /\ p.bulk_id = bulk_id /\ p.blocks = blocks /\ p.broken = broken /\ p.throws = FALSE
  BY DEF Begun
<1>3. p \in Call
  <2>1. <<>> \in Seq(Item)
    OBVIOUS
  <2> QED
    BY <1>1, <2>1 DEF Begun, Call, ContextType
<1> HIDE DEF p
<1>4. Now.blocks = blocks /\ Now.broken = broken /\ Now.bulk_id = bulk_id
  BY DEF Now
<1>5. /\ IsHistory(p, c, rcv, ids, others) /\ Done(p) = Done(Now)
      /\ \A k : IsFresh(Now, k) => IsFresh(p, k)
  <2>1. IsHistory(Now, c, rcv, ids, others)
    BY DEF CanCall
  <2> QED
    BY <1>2, <1>4, <2>1, SameHistory
<1>6. IsPending(x, c, rcv[c], m) /\ IsServed(Now, x, c, rcv[c], m)
  BY DEF CanCall
<1>7. IsPending(p, c, rcv[c], m) /\ IsServed(p, p, c, rcv[c], m)
  BY <1>2, <1>5, <1>6 DEF IsPending, IsServed
<1>8. p.q # <<>> => IsFresh(p, p.id) /\ p.id \notin ids
  BY <1>2, <1>5 DEF CanCall
<1>9. Len(p.stream) = 0 /\ m - Len(p.stream) = m
  BY <1>2, EmptyIsEmpty
<1>10. IsCall(p, c, rcv, m, ids, others)
  BY <1>2, <1>3, <1>5, <1>7, <1>8, <1>9 DEF IsCall
<1> QED
  BY <1>10 DEF p

(* A call that is given all the lines of its client.                       *)
Ended(p) == ~p.throws => ~p.entry
(* Process comes to the last line, or to the block that was given up.      *)
LEMMA ProcessIsCall ==
  ASSUME NEW x, NEW c \in Client, NEW rcv, NEW m \in Nat, NEW ids \in SUBSET Nat, NEW others,
         CanCall(x, c, rcv, m, ids, others), NEW t \in 0..thread_cnt, NEW lines, NEW all,
         all = x.stream \o lines, Len(all) \in Nat, m + Len(all) = Len(rcv[c]),
         \A i \in 1..Len(all) : all[i] = LineOf(rcv[c], c, m + i)
  PROVE  /\ IsCall(Process(x, lines, t), c, rcv, Len(rcv[c]), ids, others)
         /\ Ended(Process(x, lines, t))
<1> DEFINE end == Parsed(Begun(x, t), all)
<1>1. IsCall(Begun(x, t), c, rcv, m, ids, others)
  BY BegunIsCall
<1>2. Closable(rcv[c])
  BY DEF CanCall
<1>3. Len(all) \in Nat /\ m + Len(all) <= Len(rcv[c]) /\ m + Len(all) = Len(rcv[c])
      /\ \A i \in 1..Len(all) : all[i] = LineOf(rcv[c], c, m + i)
  OBVIOUS
<1>4. IsCall(end, c, rcv, Len(rcv[c]), ids, others)
  <2>1. IsCall(end, c, rcv, m + Len(all), ids, others)
    BY <1>1, <1>2, <1>3, ParsedIsCall
  <2> QED
    BY <1>3, <2>1
<1>5. Process(x, lines, t) = IF end.throws THEN end ELSE Enter(end)
  BY DEF Process
<1> HIDE DEF end
<1>6. Len(rcv[c]) \in Nat
  BY <1>2 DEF Closable
<1>7. CASE end.throws
  BY <1>4, <1>5, <1>7 DEF Ended
<1>8. CASE ~end.throws
  <2>1. IsCall(Enter(end), c, rcv, Len(rcv[c]), ids, others) /\ ~Enter(end).entry
    BY <1>4, <1>6, <1>8, EnterIsCall
  <2> QED
    BY <1>5, <1>8, <2>1 DEF Ended
<1> QED
  BY <1>7, <1>8

(* The last one: what is left is executed, or dropped when a brace is open.*)
LEMMA LastProcessIsCall ==
  ASSUME NEW x, NEW c \in Client, NEW rcv, NEW m \in Nat, NEW ids \in SUBSET Nat, NEW others,
         CanCall(x, c, rcv, m, ids, others), NEW t \in 0..thread_cnt,
         m + Len(x.stream) = Len(rcv[c]),
         \A i \in 1..Len(x.stream) : x.stream[i] = LineOf(rcv[c], c, m + i)
  PROVE  LET n == Len(rcv[c])
             p == LastProcess(x, t)
         IN  /\ IsCall(p, c, rcv, n, ids, others)
             /\ ~p.throws => \A i \in 1..n :
                  rcv[c][i] = "command" /\ Settled(rcv[c], i, n) => <<c, i>> \in Done(p)
<1> DEFINE n == Len(rcv[c])
           r == rcv[c]
           p == Process(x, <<>>, t)
           e == IF p.throws \/ p.depth > 0 THEN p ELSE Execute(p)
<1>1. IsCall(p, c, rcv, n, ids, others) /\ (~p.throws => ~p.entry)
  <2>1. x.stream \in Seq(Item)
    BY DEF CanCall, ContextType
  <2>2. x.stream \o <<>> = x.stream /\ Len(x.stream) \in Nat
    BY <2>1
  <2> DEFINE all == x.stream \o <<>>
  <2>3. /\ Len(all) \in Nat /\ m + Len(all) = Len(rcv[c])
        /\ \A i \in 1..Len(all) : all[i] = LineOf(rcv[c], c, m + i)
    BY <2>2
  <2>4. all = x.stream \o <<>>
    OBVIOUS
  <2> HIDE DEF all
  <2>5. IsCall(p, c, rcv, n, ids, others) /\ Ended(p)
    BY <2>3, <2>4, ProcessIsCall, ZenonT(30)
  <2> QED
    BY <2>5 DEF Ended
<1>2. n \in Nat
  BY DEF CanCall, Closable
<1>3. e = IF p.throws \/ p.depth > 0 THEN p ELSE Execute(p)
  OBVIOUS
<1>6. LastProcess(x, t) = IF e.throws THEN e ELSE Enter(e)
  BY DEF LastProcess
<1>7. SUFFICES /\ IsCall(e, c, rcv, n, ids, others)
               /\ ~e.throws => \A i \in 1..n :
                    r[i] = "command" /\ Settled(r, i, n) => <<c, i>> \in Done(e)
  <2> HIDE DEF e, p, n
  <2>1. CASE e.throws
    BY <1>6, <1>7, <2>1 DEF n
  <2>2. CASE ~e.throws
    <3>1. IsCall(Enter(e), c, rcv, n, ids, others)
      BY <1>7, <2>2, EnterIsCall
    <3>2. Done(Enter(e)) = Done(e)
      BY EnterDone
    <3> QED
      BY <1>6, <1>7, <2>2, <3>1, <3>2 DEF n
  <2> QED
    BY <2>1, <2>2
<1> HIDE DEF p, e, n
<1>4. CASE p.throws
  <2>1. e = p
    BY <1>3, <1>4
  <2> QED
    BY <1>1, <1>4, <2>1 DEF e, n
<1>5. CASE ~p.throws
  <2>1. /\ p \in Call /\ p.q \in Seq(CommandId) /\ p.stream = <<>> /\ p.depth \in Nat
        /\ IsHistory(p, c, rcv, ids, others)
        /\ IsPending(p, c, r, n) /\ IsServed(p, p, c, r, n)
        /\ IsFresh(p, p.id) /\ p.id \notin ids
        /\ \A j \in 1..Len(p.q) :
             p.q[j] = <<c, p.q[j][2]>> /\ p.q[j][1] = c /\ p.q[j][2] \in 1..n /\ r[p.q[j][2]] = "command"
        /\ \A i, j \in 1..Len(p.q) : i < j => p.q[i][2] < p.q[j][2]
        /\ \A d \in Done(p) : d[1] = c => \A j \in 1..Len(p.q) : d[2] < p.q[j][2]
    BY <1>1, <1>2, <1>5, PendingFacts
  <2>2. \A i \in 1..n : r[i] = "command" /\ Settled(r, i, n) =>
          <<c, i>> \in Done(p) \union Elements(p.q)
    BY <2>1 DEF IsServed
  <2>3. n \in 0..n /\ Depth(r, n) = p.depth
    BY <1>2, <2>1 DEF IsPending
  <2> HIDE DEF r
  <2>4. CASE p.depth > 0
    <3>1. e = p
      BY <1>3, <2>4
    <3>2. ASSUME NEW i \in 1..n, r[i] = "command", Settled(r, i, n)
          PROVE  <<c, i>> \in Done(p)
      <4>1. PICK k \in i..n : Depth(r, k) = 0
        BY <3>2 DEF Settled
      <4>2. k \in i..n /\ Depth(r, k) = 0
        BY <4>1
      <4>3. ~Inside(r, i, n)
        BY <4>2 DEF Inside
      <4>4. <<c, i>> \notin Elements(p.q)
        BY <2>1, <2>4, <3>2, <4>3 DEF IsPending
      <4> QED
        BY <2>2, <3>2, <4>4
    <3> QED
      BY <1>1, <3>1, <3>2 DEF e, n, r
  <2>5. CASE ~(p.depth > 0)
    <3>1. e = Execute(p) /\ p.depth = 0
      BY <1>3, <1>5, <2>1, <2>5
    <3>2. ASSUME NEW i \in 1..n
          PROVE  Settled(r, i, n) /\ ~Inside(r, i, n)
      <4>1. n \in i..n
        BY <1>2
      <4> QED
        BY <2>3, <3>1, <4>1 DEF Settled, Inside
    <3>3. p.q # <<>> => WellCut(BlockOf(p), rcv)
      <4>1. \A j \in 1..Len(p.q) :
              p.q[j][1] = c /\ p.q[j][2] \in 1..n /\ Outside(r, p.q[j][2], n)
        BY <2>1, <3>1 DEF IsPending
      <4>2. Len(p.q) <= bulk_size_
        <5>1. Len(p.q) < bulk_size_ /\ Len(p.q) \in Nat
          BY <2>1, <3>1 DEF IsPending
        <5> QED
          BY <5>1, SizeAssumption
      <4> QED
        BY <1>2, <2>1, <4>1, <4>2, StaticIsWellCut DEF r, BlockOf
    <3>4. \A j \in 1..Len(p.q) :
            /\ p.q[j][1] = c /\ p.q[j][2] \in 1..n /\ r[p.q[j][2]] = "command"
            /\ Settled(r, p.q[j][2], n)
      BY <2>1, <3>2
    <3>5. \A i \in 1..n : r[i] = "command" => ~Inside(r, i, n)
      BY <3>2
    <3>6. \A d \in Done(p) : d[1] = c =>
            d[2] \in 1..n /\ r[d[2]] = "command" /\ Settled(r, d[2], n)
      BY <2>1 DEF IsServed
    <3>7. 0 \in Nat /\ 0 = Depth(r, n)
      BY <2>3, <3>1
    <3>8. /\ p \in Call /\ p.stream = <<>> /\ IsHistory(p, c, rcv, ids, others)
          /\ ~p.throws /\ ~p.entry /\ IsFresh(p, p.id) /\ p.id \notin ids
          /\ \A i, j \in 1..Len(p.q) : i < j => p.q[i][2] < p.q[j][2]
          /\ \A d \in Done(p) : d[1] = c => \A j \in 1..Len(p.q) : d[2] < p.q[j][2]
      BY <1>1, <1>5, <2>1
    <3>9. IsCall(AtDepth(Execute(p), 0), c, rcv, n, ids, others)
      BY <1>2, <2>2, <3>3, <3>4, <3>5, <3>6, <3>7, <3>8, ExecuteIsCall DEF r
    <3>10. /\ Execute(p).depth = p.depth /\ Execute(p) \in Call
           /\ Done(Execute(p)) = Done(p) \union Elements(p.q)
      <4>1. \A j \in 1..Len(p.q) : p.q[j][1] = c
        BY <3>4
      <4> QED
        BY <3>3, <3>8, <4>1, ExecuteHistory
    <3>11. AtDepth(Execute(p), 0) = Execute(p)
      BY <3>1, <3>10 DEF Call, AtDepth
    <3>12. IsCall(e, c, rcv, n, ids, others) /\ Done(e) = Done(p) \union Elements(p.q)
      BY <3>1, <3>9, <3>10, <3>11
    <3> QED
      BY <2>2, <3>12 DEF e, n, r
  <2> QED
    BY <2>1, <2>4, <2>5
<1> QED
  BY <1>4, <1>5

-----------------------------------------------------------------------------
(* A client sends more lines.                                              *)

(* Lines s have been read after lines r.                                   *)
Extends(s, r) ==
  /\ r \in Seq(Line) /\ s \in Seq(Line) /\ Len(r) <= Len(s)
  /\ \A i \in 1..Len(r) : s[i] = r[i]
  /\ \A k \in 0..Len(r) : Depth(s, k) = Depth(r, k)

(* Lines that are appended extend those before.                            *)
LEMMA ConcatExtends ==
  ASSUME NEW r \in Seq(Line), NEW t \in Seq(Line)
  PROVE  Extends(r \o t, r)
<1>1. /\ r \o t \in Seq(Line) /\ Len(r) <= Len(r \o t)
      /\ \A i \in 1..Len(r) : (r \o t)[i] = r[i]
  OBVIOUS
<1>2. \A k \in 0..Len(r) : Depth(r \o t, k) = Depth(r, k)
  BY DepthPrefix
<1> QED
  BY <1>1, <1>2 DEF Extends

(* Nothing changes for the lines read before.                              *)
LEMMA ExtendsKeeps ==
  ASSUME NEW r, NEW s, Extends(s, r), NEW n \in 0..Len(r), NEW i \in 1..n
  PROVE  /\ s[i] = r[i] /\ Depth(s, n) = Depth(r, n)
         /\ Settled(s, i, n) <=> Settled(r, i, n)
         /\ Inside(s, i, n) <=> Inside(r, i, n)
         /\ Outside(s, i, n) <=> Outside(r, i, n)
<1>1. Len(r) \in Nat /\ i \in 1..Len(r) /\ \A j \in i..n : j \in 0..Len(r)
  BY DEF Extends
<1>2. \A j \in i..n : Depth(s, j) = Depth(r, j)
  BY <1>1 DEF Extends
<1>3. s[i] = r[i] /\ Depth(s, n) = Depth(r, n)
  BY <1>1 DEF Extends
<1> QED
  BY <1>2, <1>3 DEF Settled, Inside, Outside

(* What is pending stays so.                                               *)
LEMMA PendingGrows ==
  ASSUME NEW r, NEW s, Extends(s, r), NEW n \in 0..Len(r), NEW x, NEW c, IsPending(x, c, r, n)
  PROVE  IsPending(x, c, s, n)
<1>1. Depth(s, n) = Depth(r, n)
  BY DEF Extends
<1>2. \A i \in 1..n : /\ s[i] = r[i]
                      /\ Inside(s, i, n) <=> Inside(r, i, n)
                      /\ Outside(s, i, n) <=> Outside(r, i, n)
  BY ExtendsKeeps
<1>3. \A j \in 1..Len(x.q) : x.q[j][2] \in 1..n
  BY DEF IsPending
<1> QED
  BY <1>1, <1>2, <1>3 DEF IsPending

(* What is served stays so.                                                *)
LEMMA ServedGrows ==
  ASSUME NEW r, NEW s, Extends(s, r), NEW n \in 0..Len(r), NEW p, NEW x, NEW c,
         IsServed(p, x, c, r, n)
  PROVE  IsServed(p, x, c, s, n)
<1>1. \A i \in 1..n : s[i] = r[i] /\ (Settled(s, i, n) <=> Settled(r, i, n))
  BY ExtendsKeeps
<1> QED
  BY <1>1 DEF IsServed

(* A block that is well cut stays so: it holds all of its own braces.      *)
LEMMA CutGrows ==
  ASSUME NEW b \in Block, NEW rcv, NEW rcv2,
         \A c \in Client : Extends(rcv2[c], rcv[c]), WellCut(b, rcv),
         \A e \in Elements(b.cmds) :
           e[2] \in 1..Len(rcv[e[1]]) /\ Settled(rcv[e[1]], e[2], Len(rcv[e[1]]))
  PROVE  WellCut(b, rcv2)
<1>1. PICK c \in Client : /\ \A j \in 1..Len(b.cmds) : b.cmds[j][1] = c
                          /\ Static(b, rcv[c]) \/ Dynamic(b, c, rcv[c])
  BY DEF WellCut
<1> DEFINE r == rcv[c]
           s == rcv2[c]
           f == b.cmds[1][2]
           l == b.cmds[Len(b.cmds)][2]
           n == Len(rcv[c])
<1>2. b.cmds # <<>> /\ b.cmds \in Seq(CommandId) /\ Len(b.cmds) \in Nat \ {0}
  BY EmptyIsEmpty DEF WellCut, Block
<1>3. Extends(s, r) /\ n \in Nat /\ n = Len(r) /\ Len(s) \in Nat /\ n <= Len(s)
  BY DEF Extends
<1>4. \A e \in Elements(b.cmds) : e[1] = c /\ e[2] \in 1..n /\ Settled(r, e[2], n)
  BY <1>1 DEF Elements
<1>5. b.cmds[1] \in Elements(b.cmds) /\ b.cmds[Len(b.cmds)] \in Elements(b.cmds)
  <2>1. 1 \in 1..Len(b.cmds) /\ Len(b.cmds) \in 1..Len(b.cmds)
    BY <1>2
  <2> QED
    BY <2>1 DEF Elements
<1>6. f \in 1..n /\ l \in 1..n /\ Settled(r, f, n)
  BY <1>4, <1>5
<1>7. /\ \A i \in 1..n : s[i] = r[i]
      /\ \A k \in 0..n : Depth(s, k) = Depth(r, k)
  BY <1>3 DEF Extends
<1>8. CASE Static(b, r)
  <2>1. \A k \in f..l : k \in 0..n
    BY <1>3, <1>6
  <2>2. Static(b, s)
    BY <1>7, <1>8, <2>1 DEF Static
  <2> QED
    BY <1>1, <1>2, <2>2 DEF WellCut
<1>9. CASE Dynamic(b, c, r)
  <2>1. ASSUME NEW i \in 1..Len(s), s[i] = "command"
        PROVE  <<c, i>> \in Elements(b.cmds) <=> Together(s, f, i)
    <3>1. CASE i \in 1..n
      <4>1. \A k \in (f..i) \union (i..f) : k \in 0..n
        BY <1>3, <1>6, <3>1
      <4>2. Together(s, f, i) <=> Together(r, f, i)
        BY <1>7, <4>1 DEF Together
      <4>3. <<c, i>> \in Elements(b.cmds) <=> Together(r, f, i)
        BY <1>3, <1>7, <1>9, <2>1, <3>1 DEF Dynamic
      <4> QED
        BY <4>2, <4>3
    <3>2. CASE i \notin 1..n
      <4>1. <<c, i>> \notin Elements(b.cmds)
        BY <1>4, <3>2
      <4>2. PICK k \in f..n : Depth(r, k) = 0
        BY <1>6 DEF Settled
      <4>3. k \in f..i /\ k \in 0..n
        BY <1>3, <1>6, <3>2
      <4>4. ~(Depth(s, k) > 0)
        BY <1>7, <4>2, <4>3
      <4>5. ~Together(s, f, i)
        BY <4>3, <4>4 DEF Together
      <4> QED
        BY <4>1, <4>5
    <3> QED
      BY <3>1, <3>2
  <2>2. Dynamic(b, c, s)
    BY <2>1 DEF Dynamic
  <2> QED
    BY <1>1, <1>2, <2>2 DEF WellCut
<1> QED
  BY <1>1, <1>8, <1>9

-----------------------------------------------------------------------------
(* The state a call finds.                                                 *)

OtherIds(c) == {ContextOf(d).id : d \in {e \in Live : e # c /\ ContextOf(e).q # <<>>}}
OthersDone(c) == {e \in Done(Now) : e[1] # c}

(* The context of a living session is in the pool.                         *)
LEMMA ContextIsTyped ==
  ASSUME TypeOK, PoolIsLive, NEW c \in Live
  PROVE  /\ c \in Client /\ ctx_[c] \in DOMAIN s_context_pool /\ ctx_[c] \in Handle
         /\ ContextOf(c) \in ContextType /\ ContextOf(c) = s_context_pool[ctx_[c]]
         /\ received[c] \in Seq(Line) /\ Known(c)
<1>1. c \in Client /\ ctx_[c] \in DOMAIN s_context_pool
  BY DEF PoolIsLive, Live
<1>2. s_context_pool[ctx_[c]] \in ContextType
  BY <1>1 DEF TypeOK, ContextType, Item
<1> QED
  BY <1>1, <1>2 DEF TypeOK, ContextOf, Known

(* The blocks of the invariant are cut from lines that are settled.        *)
LEMMA BlockIsKept ==
  ASSUME TypeOK, BlocksInv, NEW bs \in {blocks, broken}, NEW k \in 1..Len(bs)
  PROVE  /\ bs[k] \in Block /\ WellCut(bs[k], received)
         /\ \A e \in Elements(bs[k].cmds) :
              /\ e[1] \in Client /\ e[2] \in 1..Len(received[e[1]])
              /\ received[e[1]][e[2]] = "command"
              /\ Settled(received[e[1]], e[2], Len(received[e[1]]))
<1>1. bs \in Seq(Block) /\ bs[k] \in Block /\ bs[k].cmds \in Seq(CommandId)
  <2>1. bs \in Seq(Block)
    BY DEF TypeOK
  <2>2. bs[k] \in Block
    BY <2>1
  <2> QED
    BY <2>1, <2>2 DEF Block
<1>2. Now.blocks = blocks /\ Now.broken = broken
  BY DEF Now
<1>3. WellCut(bs[k], received)
  BY <1>2 DEF BlocksInv, AreBlocks
<1>4. ASSUME NEW e \in Elements(bs[k].cmds)
      PROVE  /\ e[1] \in Client /\ e[2] \in 1..Len(received[e[1]])
             /\ received[e[1]][e[2]] = "command"
             /\ Settled(received[e[1]], e[2], Len(received[e[1]]))
  <2>1. e \in CommandsOf(bs)
    BY DEF CommandsOf
  <2>2. e \in Done(Now)
    BY <1>2, <2>1 DEF Done
  <2>3. e[2] \in Kept(e[1])
    BY <2>2 DEF BlocksInv
  <2>4. e \in CommandId
    BY <1>1 DEF Elements
  <2> QED
    BY <2>3, <2>4 DEF Kept, CommandId
<1> QED
  BY <1>1, <1>3, <1>4

(* The invariant is what a call on the context of a living session needs.  *)
LEMMA CanCallNow ==
  ASSUME TypeOK, IInv, run \in {"running", "unwinding"}, NEW c \in Live, NEW rcv,
         \A d \in Client : Extends(rcv[d], received[d]), Closable(rcv[c])
  PROVE  LET x == ContextOf(c)
             m == ParsedCount(c)
         IN  /\ CanCall(x, c, rcv, m, OtherIds(c), OthersDone(c))
             /\ m \in Nat /\ OtherIds(c) \in SUBSET Nat
             /\ x.stream \in Seq(Item) /\ Len(x.stream) \in Nat
             /\ m + Len(x.stream) = Len(received[c]) /\ m <= Len(received[c])
             /\ \A i \in 1..Len(x.stream) : x.stream[i] = LineOf(rcv[c], c, m + i)
<1> DEFINE x == ContextOf(c)
           m == ParsedCount(c)
           n == Len(received[c])
<1>1. c \in Client /\ x \in ContextType /\ received[c] \in Seq(Line) /\ PoolIsLive
  BY ContextIsTyped DEF IInv
<1>2. /\ m >= 0
      /\ \A i \in 1..Len(x.stream) : x.stream[i] = LineOf(received[c], c, m + i)
      /\ IsPending(x, c, received[c], m) /\ IsServed(Now, x, c, received[c], m)
      /\ x.q # <<>> => IsFresh(Now, x.id)
      /\ \A d \in Live : c # d /\ x.q # <<>> /\ ContextOf(d).q # <<>> => x.id # ContextOf(d).id
  BY DEF IInv, ContextInv, ContextAgrees
<1>3. x.stream \in Seq(Item) /\ Len(x.stream) \in Nat /\ n \in Nat /\ m = n - Len(x.stream)
  BY <1>1 DEF ContextType, ParsedCount
<1>4. m \in 0..n /\ m + Len(x.stream) = n
  <2>1. m >= 0
    BY <1>2
  <2> HIDE DEF m, n, x
  <2> QED
    BY <1>3, <2>1
<1>5. Extends(rcv[c], received[c])
  BY <1>1
<1> HIDE DEF m, n
<1>6. IsPending(x, c, rcv[c], m) /\ IsServed(Now, x, c, rcv[c], m)
  BY <1>2, <1>4, <1>5, PendingGrows, ServedGrows DEF n
<1>7. ASSUME NEW i \in 1..Len(x.stream)
      PROVE  x.stream[i] = LineOf(rcv[c], c, m + i)
  <2>1. m + i \in 1..n
    BY <1>3, <1>4
  <2>2. rcv[c][m + i] = received[c][m + i]
    BY <1>5, <2>1 DEF Extends, n
  <2> QED
    BY <1>2, <2>2 DEF LineOf
<1>8. ASSUME NEW d \in Live
      PROVE  ContextOf(d).id \in Nat
  <2>1. ContextOf(d) \in ContextType
    BY <1>1, ContextIsTyped
  <2> QED
    BY <2>1 DEF ContextType
<1>9. OtherIds(c) \in SUBSET Nat
  BY <1>8 DEF OtherIds
<1>10. x.q # <<>> => x.id \notin OtherIds(c)
  BY <1>2 DEF OtherIds
<1>11. IsHistory(Now, c, rcv, OtherIds(c), OthersDone(c))
  <2>1. Now.blocks = blocks /\ Now.broken = broken
    BY DEF Now
  <2>2. BlocksInv /\ AreBlocks(Now, received) /\ AreNumbered(Now)
    BY DEF IInv, BlocksInv
  <2>3. ASSUME NEW bs \in {blocks, broken}, NEW k \in 1..Len(bs)
        PROVE  WellCut(bs[k], rcv)
    <3>1. /\ bs[k] \in Block /\ WellCut(bs[k], received)
          /\ \A e \in Elements(bs[k].cmds) :
               e[2] \in 1..Len(received[e[1]]) /\ Settled(received[e[1]], e[2], Len(received[e[1]]))
      BY <2>2, BlockIsKept
    <3> QED
      BY <3>1, CutGrows
  <2>4. AreBlocks(Now, rcv)
    BY <2>1, <2>2, <2>3 DEF AreBlocks
  <2>5. \A k \in OtherIds(c) : IsFresh(Now, k)
    BY DEF IInv, ContextInv, ContextAgrees, OtherIds
  <2> QED
    BY <2>1, <2>2, <2>4, <2>5 DEF IsHistory, OthersDone
<1>12. bulk_id \in Nat /\ blocks \in Seq(Block) /\ broken \in Seq(Block)
  BY DEF TypeOK
<1>13. CanCall(x, c, rcv, m, OtherIds(c), OthersDone(c))
  BY <1>1, <1>2, <1>6, <1>10, <1>11, <1>12 DEF CanCall
<1>14. m \in Nat /\ m <= Len(received[c]) /\ m + Len(x.stream) = Len(received[c])
  <2>1. \A k \in 0..n : k \in Nat /\ k <= n
    BY <1>3
  <2> QED
    BY <1>4, <2>1 DEF n
<1> QED
  BY <1>3, <1>7, <1>9, <1>13, <1>14 DEF m

-----------------------------------------------------------------------------
(* The state a call leaves.                                                *)

(* A call p of client c is over, which has now sent the lines rcv[c].      *)
Returned(p, c, rcv) ==
  /\ \A d \in Client : Extends(rcv[d], received[d]) /\ (d # c => rcv[d] = received[d])
  /\ Closable(rcv[c])
  /\ IsCall(p, c, rcv, Len(rcv[c]), OtherIds(c), OthersDone(c))
  /\ received' = rcv
  /\ bulk_id' = p.bulk_id /\ blocks' = p.blocks /\ broken' = p.broken

(* Done commands are of the clients.                                       *)
LEMMA DoneIsTyped ==
  ASSUME NEW p, p.blocks \in Seq(Block), p.broken \in Seq(Block)
  PROVE  Done(p) \subseteq CommandId
<1>1. ASSUME NEW bs \in Seq(Block)
      PROVE  CommandsOf(bs) \subseteq CommandId
  <2>1. ASSUME NEW k \in 1..Len(bs)
        PROVE  Elements(bs[k].cmds) \subseteq CommandId
    <3>1. bs[k] \in Block
      OBVIOUS
    <3>2. bs[k].cmds \in Seq(CommandId)
      BY <3>1 DEF Block
    <3> QED
      BY <3>2 DEF Elements
  <2> QED
    BY <2>1 DEF CommandsOf
<1> QED
  BY <1>1 DEF Done

(* What a call of client c leaves of the blocks and of the other contexts. *)
LEMMA CallLeaves ==
  ASSUME TypeOK, IInv, NEW c \in Live, NEW rcv, NEW p, Returned(p, c, rcv)
  PROVE  /\ BlocksInv'
         /\ bulk_id' \in Nat /\ blocks' \in Seq(Block) /\ broken' \in Seq(Block)
         /\ \A e : e[1] # c => (e \in Done(Now)' <=> e \in Done(Now))
         /\ \A k \in OtherIds(c) : IsFresh(Now', k)
         /\ broken # <<>> => broken' # <<>>
         /\ p.throws => broken' # <<>>
         /\ \A k : IsFresh(p, k) => IsFresh(Now', k)
         /\ Done(p) = Done(Now)'
<1> DEFINE ids == OtherIds(c)
           others == OthersDone(c)
           n == Len(rcv[c])
<1>1. /\ IsCall(p, c, rcv, n, ids, others) /\ p \in Call
      /\ IsHistory(p, c, rcv, ids, others)
      /\ IsServed(p, p, c, rcv[c], n - Len(p.stream)) /\ Len(p.stream) <= n
      /\ p.throws => p.broken # <<>>
  BY DEF Returned, IsCall
<1>2. /\ Now'.blocks = p.blocks /\ Now'.broken = p.broken /\ Now'.bulk_id = p.bulk_id
  BY DEF Now, Returned
<1>3. bulk_id' \in Nat /\ blocks' \in Seq(Block) /\ broken' \in Seq(Block)
  BY <1>1 DEF Returned, Call
<1>4. /\ IsHistory(Now', c, rcv, ids, others) /\ Done(Now') = Done(p)
      /\ \A k : IsFresh(p, k) => IsFresh(Now', k)
  BY <1>1, <1>2, SameHistory
<1>5. c \in Client /\ Len(p.stream) \in Nat /\ n \in Nat /\ received' = rcv
  BY <1>1 DEF Live, Call, Returned, Closable
<1> HIDE DEF ids, others
<1>6. ASSUME NEW e, e[1] # c
      PROVE  e \in Done(Now') <=> e \in Done(Now)
  <2>1. {d \in Done(Now') : d[1] # c} = {d \in Done(Now) : d[1] # c}
    BY <1>4 DEF IsHistory, others, OthersDone
  <2> QED
    BY <1>6, <2>1
<1>7. ASSUME NEW e \in Done(Now')
      PROVE  e[2] \in Kept(e[1])'
  <2>1. e \in CommandId
    BY <1>1, <1>4, DoneIsTyped DEF Call
  <2>2. CASE e[1] = c
    <3>1. /\ e[2] \in 1..(n - Len(p.stream)) /\ rcv[c][e[2]] = "command"
          /\ Settled(rcv[c], e[2], n - Len(p.stream))
      BY <1>1, <1>4, <2>2 DEF IsServed
    <3>2. e[2] \in 1..n /\ \A j \in e[2]..(n - Len(p.stream)) : j \in e[2]..n
      <4>1. \A k, l \in Nat : k <= l => \A i \in 1..(l - k) :
              i \in 1..l /\ \A j \in i..(l - k) : j \in i..l
        OBVIOUS
      <4> QED
        BY <1>1, <1>5, <3>1, <4>1
    <3>3. Settled(rcv[c], e[2], n)
      BY <3>1, <3>2 DEF Settled
    <3> QED
      BY <1>5, <2>2, <3>1, <3>2, <3>3 DEF Kept
  <2>3. CASE e[1] # c
    <3>1. e \in Done(Now) /\ e[1] \in Client
      BY <1>6, <2>1, <2>3 DEF CommandId
    <3>2. e[2] \in Kept(e[1]) /\ rcv[e[1]] = received[e[1]]
      BY <2>3, <3>1 DEF IInv, BlocksInv, Returned
    <3> QED
      BY <1>5, <3>2 DEF Kept
  <2> QED
    BY <2>2, <2>3
<1>8. BlocksInv'
  BY <1>4, <1>5, <1>7 DEF BlocksInv, IsHistory
<1>9. \A k \in ids : IsFresh(Now', k)
  BY <1>4 DEF IsHistory
<1>10. (broken # <<>> => broken' # <<>>) /\ (p.throws => broken' # <<>>)
  BY <1>1 DEF Returned, IsHistory
<1> QED
  BY <1>3, <1>4, <1>6, <1>8, <1>9, <1>10 DEF ids

(* The sessions of other clients are not touched.                          *)
LEMMA OtherAgrees ==
  ASSUME NEW c, NEW d \in Client, d # c, ContextAgrees(d),
         ContextOf(d)' = ContextOf(d), received'[d] = received[d],
         \A e : e[1] # c => (e \in Done(Now)' <=> e \in Done(Now)),
         ContextOf(d).q # <<>> => IsFresh(Now', ContextOf(d).id)
  PROVE  ContextAgrees(d)'
<1>1. ParsedCount(d)' = ParsedCount(d)
  BY DEF ParsedCount
<1>2. IsServed(Now', ContextOf(d), d, received[d], ParsedCount(d))
  BY DEF ContextAgrees, IsServed
<1> QED
  BY <1>1, <1>2 DEF ContextAgrees

(* libasync_receive returned: the context is in the pool as p left it.     *)
LEMMA ReceiveKeeps ==
  ASSUME TypeOK, IInv, NEW c \in Live, NEW rcv, NEW p, Returned(p, c, rcv),
         run \in {"running", "unwinding"}, LinesInv',
         s_context_pool' = [s_context_pool EXCEPT ![ctx_[c]] = Context(p)],
         UNCHANGED <<session, ctx_>>,
         run' = IF p.throws THEN "unwinding" ELSE run
  PROVE  IInv' /\ s_context_pool' \in [DOMAIN s_context_pool -> ContextType]
<1>1. /\ BlocksInv'
      /\ \A e : e[1] # c => (e \in Done(Now)' <=> e \in Done(Now))
      /\ \A k \in OtherIds(c) : IsFresh(Now', k)
      /\ (broken # <<>> => broken' # <<>>) /\ (p.throws => broken' # <<>>)
      /\ \A k : IsFresh(p, k) => IsFresh(Now', k)
      /\ Done(p) = Done(Now)'
  BY CallLeaves
<1>2. /\ c \in Client /\ ctx_[c] \in DOMAIN s_context_pool
      /\ \A d \in Live : ctx_[d] \in DOMAIN s_context_pool /\ (d # c => ctx_[d] # ctx_[c])
      /\ Live' = Live /\ ctx_' = ctx_
  BY ContextIsTyped DEF IInv, PoolIsLive, Live
<1>3. /\ p \in Call /\ IsCall(p, c, rcv, Len(rcv[c]), OtherIds(c), OthersDone(c))
      /\ received' = rcv /\ Len(rcv[c]) \in Nat
      /\ \A d \in Client : d # c => rcv[d] = received[d]
  <2>1. IsCall(p, c, rcv, Len(rcv[c]), OtherIds(c), OthersDone(c)) /\ rcv[c] \in Seq(Line)
    BY DEF Returned, Closable
  <2>2. p \in Call
    BY <2>1 DEF IsCall
  <2> QED
    BY <2>1, <2>2 DEF Returned
<1>4. /\ Context(p) \in ContextType
      /\ Context(p).q = p.q /\ Context(p).id = p.id /\ Context(p).depth = p.depth
      /\ Context(p).stream = p.stream
  BY <1>3 DEF Context, ContextType, Call
<1>5. /\ DOMAIN s_context_pool' = DOMAIN s_context_pool
      /\ ContextOf(c)' = Context(p)
      /\ \A d \in Live : d # c => ContextOf(d)' = ContextOf(d)
  BY <1>2 DEF ContextOf
<1>6. s_context_pool' \in [DOMAIN s_context_pool -> ContextType]
  <2>1. s_context_pool \in [DOMAIN s_context_pool -> ContextType]
    BY DEF TypeOK, ContextType, Item
  <2> QED
    BY <1>2, <1>4, <2>1
<1>7. PoolIsLive'
  <2>1. \A j \in 1..Len(p.q) : p.q[j][1] = c
    BY <1>3 DEF IsCall, IsPending
  <2>2. \A d \in Live : \A j \in 1..Len(ContextOf(d)'.q) : ContextOf(d)'.q[j][1] = d
    BY <1>4, <1>5, <2>1 DEF IInv, PoolIsLive
  <2>3. DOMAIN s_context_pool' = {ctx_'[d] : d \in Live'} /\ \A d, e \in Live' : ctx_'[d] = ctx_'[e] => d = e
    BY <1>2, <1>5 DEF IInv, PoolIsLive
  <2> QED
    BY <1>2, <2>2, <2>3 DEF PoolIsLive
<1>8. GoneIsExecuted'
  <2> SUFFICES ASSUME NEW g \in Client, session[g] = "gone"
               PROVE  /\ {e \in Done(Now)' : e[1] = g} = {<<g, i>> : i \in Kept(g)'}
                      /\ InOrder(blocks', g)
    BY DEF GoneIsExecuted
  <2>1. g # c
    BY DEF Live
  <2>2. {e \in Done(Now)' : e[1] = g} = {e \in Done(Now) : e[1] = g}
    BY <1>1, <2>1
  <2>3. Kept(g)' = Kept(g)
    BY <1>3, <2>1 DEF Kept
  <2>4. InOrder(blocks', g)
    BY <1>1 DEF BlocksInv, AreBlocks, Now
  <2> QED
    BY <2>2, <2>3, <2>4 DEF IInv, GoneIsExecuted
<1>9. StopsForThreadsOnly'
  BY <1>1 DEF IInv, StopsForThreadsOnly
<1>10. ContextInv'
  <2>1. ContextAgrees(c)'
    <3> DEFINE n == Len(rcv[c]) - Len(p.stream)
    <3>1. ParsedCount(c)' = n
      BY <1>3, <1>4, <1>5 DEF ParsedCount
    <3>2. /\ IsPending(p, c, rcv[c], n) /\ IsServed(p, p, c, rcv[c], n) /\ n >= 0
          /\ \A i \in 1..Len(p.stream) : p.stream[i] = LineOf(rcv[c], c, n + i)
      <4>1. Len(p.stream) <= Len(rcv[c]) /\ Len(p.stream) \in Nat
        BY <1>3 DEF IsCall, Call
      <4>2. n >= 0
        BY <1>3, <4>1
      <4> QED
        BY <1>3, <4>2 DEF IsCall
    <3> HIDE DEF n
    <3>3. /\ IsPending(ContextOf(c)', c, rcv[c], n)
          /\ IsServed(Now', ContextOf(c)', c, rcv[c], n)
      BY <1>1, <1>4, <1>5, <3>2 DEF IsPending, IsServed
    <3>4. ContextOf(c)'.q # <<>> => IsFresh(Now', ContextOf(c)'.id)
      BY <1>1, <1>3, <1>4, <1>5 DEF IsCall
    <3> QED
      BY <1>3, <1>4, <1>5, <3>1, <3>2, <3>3, <3>4 DEF ContextAgrees
  <2>2. ASSUME NEW d \in Live, d # c
        PROVE  ContextAgrees(d)'
    <3>1. ContextAgrees(d) /\ d \in Client
      BY DEF IInv, ContextInv, Live
    <3>2. ContextOf(d).q # <<>> => IsFresh(Now', ContextOf(d).id)
      BY <1>1, <2>2 DEF OtherIds
    <3>3. ContextOf(d)' = ContextOf(d) /\ received'[d] = received[d]
      BY <1>3, <1>5, <2>2, <3>1
    <3> QED
      BY <1>1, <2>2, <3>1, <3>2, <3>3, OtherAgrees
  <2>3. ContextOf(c)'.q # <<>> => ContextOf(c)'.id \notin OtherIds(c)
    BY <1>3, <1>4, <1>5 DEF IsCall
  <2>4. ASSUME NEW d \in Live, NEW e \in Live, d # e, ContextOf(d)'.q # <<>>, ContextOf(e)'.q # <<>>
        PROVE  ContextOf(d)'.id # ContextOf(e)'.id
    <3>1. CASE d = c
      BY <1>5, <2>3, <2>4, <3>1 DEF OtherIds
    <3>2. CASE e = c
      BY <1>5, <2>3, <2>4, <3>2 DEF OtherIds
    <3>3. CASE d # c /\ e # c
      BY <1>5, <2>4, <3>3 DEF IInv, ContextInv
    <3> QED
      BY <3>1, <3>2, <3>3
  <2> QED
    BY <1>2, <2>1, <2>2, <2>4 DEF ContextInv
<1> QED
  BY <1>1, <1>6, <1>7, <1>8, <1>9, <1>10 DEF IInv

(* libasync_disconnect returned, ended the process or hangs.               *)
LEMMA DisconnectKeeps ==
  ASSUME TypeOK, IInv, NEW c \in Live, run \in {"running", "unwinding"},
         libasync_disconnect(c), UNCHANGED <<received, ctx_>>
  PROVE  /\ IInv'
         /\ bulk_id' \in Nat /\ blocks' \in Seq(Block) /\ broken' \in Seq(Block)
         /\ DOMAIN s_context_pool' \subseteq DOMAIN s_context_pool
         /\ s_context_pool' \in [DOMAIN s_context_pool' -> ContextType]
         /\ session' \in [Client -> {"none", "reading", "gone"}] /\ run' \in Run
<1> DEFINE x == ContextOf(c)
           m == ParsedCount(c)
           n == Len(received[c])
<1>1. /\ c \in Client /\ ctx_[c] \in DOMAIN s_context_pool /\ Known(c)
      /\ x = s_context_pool[ctx_[c]] /\ x \in ContextType /\ received[c] \in Seq(Line)
      /\ s_context_pool \in [DOMAIN s_context_pool -> ContextType]
  BY ContextIsTyped DEF IInv, TypeOK, ContextType, Item
<1>2. PICK p \in Flushed(x) :
        /\ bulk_id' = p.bulk_id /\ blocks' = p.blocks /\ broken' = p.broken
        /\ \/ p.throws /\ run' = "terminated" /\ UNCHANGED <<s_context_pool, session>>
           \/ /\ ~p.throws /\ p.threads > 0
              /\ run' = "hung" /\ UNCHANGED <<s_context_pool, session>>
           \/ /\ ~p.throws
              /\ s_context_pool' = Erased(ctx_[c])
              /\ session' = [session EXCEPT ![c] = "gone"]
              /\ UNCHANGED run
  BY <1>1 DEF libasync_disconnect
<1>3. PICK t \in 0..thread_cnt : p = LastProcess(x, t)
  <2>1. PICK t \in ThreadsStarted(x) : p = LastProcess(x, t)
    BY DEF Flushed, LastOutcomes
  <2>2. t \in 0..thread_cnt
    <3>1. x.threads \in 0..thread_cnt /\ t \in x.threads..thread_cnt
      BY <1>1 DEF ContextType, ThreadsStarted
    <3> QED
      BY <3>1, SizeAssumption
  <2> QED
    BY <2>1, <2>2
<1>4. Closable(received[c]) /\ \A d \in Client : Extends(received[d], received[d])
  <2>1. \A d \in Client : received[d] \in Seq(Line)
    BY DEF TypeOK
  <2> QED
    BY <1>1, <2>1 DEF IInv, LinesInv, Closable, Extends
<1>5. /\ CanCall(x, c, received, m, OtherIds(c), OthersDone(c))
      /\ m \in Nat /\ OtherIds(c) \in SUBSET Nat /\ m + Len(x.stream) = n
      /\ \A i \in 1..Len(x.stream) : x.stream[i] = LineOf(received[c], c, m + i)
  BY <1>4, CanCallNow
<1> HIDE DEF x, m
<1>6. /\ IsCall(p, c, received, n, OtherIds(c), OthersDone(c))
      /\ ~p.throws => \A i \in 1..n :
           received[c][i] = "command" /\ Settled(received[c], i, n) => <<c, i>> \in Done(p)
  BY <1>1, <1>3, <1>5, LastProcessIsCall
<1>7. Returned(p, c, received)
  BY <1>2, <1>4, <1>6 DEF Returned
<1>8. /\ BlocksInv'
      /\ bulk_id' \in Nat /\ blocks' \in Seq(Block) /\ broken' \in Seq(Block)
      /\ \A e : e[1] # c => (e \in Done(Now)' <=> e \in Done(Now))
      /\ \A k \in OtherIds(c) : IsFresh(Now', k)
      /\ broken # <<>> => broken' # <<>>
      /\ p.throws => broken' # <<>>
      /\ Done(p) = Done(Now)'
  BY <1>7, CallLeaves
<1>9. \A d \in Client : Kept(d)' = Kept(d)
  BY DEF Kept
<1>10. ASSUME NEW g \in Client, g # c, session[g] = "gone"
       PROVE  /\ {e \in Done(Now)' : e[1] = g} = {<<g, i>> : i \in Kept(g)'}
              /\ InOrder(blocks', g)
  <2>1. {e \in Done(Now)' : e[1] = g} = {e \in Done(Now) : e[1] = g}
    BY <1>8, <1>10
  <2>2. InOrder(blocks', g)
    BY <1>8 DEF BlocksInv, AreBlocks, Now
  <2> QED
    BY <1>9, <1>10, <2>1, <2>2 DEF IInv, GoneIsExecuted
<1>11. session[c] = "reading" /\ session \in [Client -> {"none", "reading", "gone"}]
  BY DEF Live, TypeOK
<1>12. CASE run' \in {"hung", "terminated"} /\ UNCHANGED <<s_context_pool, session>>
             /\ (p.throws \/ run' = "hung")
  <2>1. PoolIsLive'
    BY <1>12 DEF IInv, PoolIsLive, Live, ContextOf
  <2>2. GoneIsExecuted'
    BY <1>10, <1>11, <1>12 DEF GoneIsExecuted
  <2>3. StopsForThreadsOnly' /\ ContextInv' /\ run' \in Run
    BY <1>8, <1>12 DEF StopsForThreadsOnly, ContextInv, Run
  <2>4. LinesInv'
    BY <1>12 DEF IInv, LinesInv
  <2> QED
    BY <1>1, <1>8, <1>11, <1>12, <2>1, <2>2, <2>3, <2>4 DEF IInv
<1>13. CASE /\ ~p.throws /\ s_context_pool' = Erased(ctx_[c])
            /\ session' = [session EXCEPT ![c] = "gone"] /\ UNCHANGED run
  <2>1. /\ Live' = Live \ {c} /\ ctx_' = ctx_ /\ session'[c] = "gone"
        /\ \A d \in Client \ {c} : session'[d] = session[d]
        /\ session' \in [Client -> {"none", "reading", "gone"}]
    BY <1>1, <1>11, <1>13 DEF Live
  <2>2. \A d \in Live : d # c => ctx_[d] # ctx_[c] /\ ctx_[d] \in DOMAIN s_context_pool
    BY <1>1 DEF IInv, PoolIsLive, Live
  <2>3. /\ DOMAIN s_context_pool' = DOMAIN s_context_pool \ {ctx_[c]}
        /\ \A d \in Live \ {c} : ContextOf(d)' = ContextOf(d)
        /\ s_context_pool' \in [DOMAIN s_context_pool' -> ContextType]
    BY <1>1, <1>13, <2>2 DEF Erased, ContextOf
  <2>4. PoolIsLive'
    <3>1. DOMAIN s_context_pool' = {ctx_'[d] : d \in Live'}
      BY <1>1, <2>1, <2>2, <2>3 DEF IInv, PoolIsLive
    <3>2. \A d, e \in Live' : ctx_'[d] = ctx_'[e] => d = e
      BY <2>1 DEF IInv, PoolIsLive
    <3>3. \A d \in Live' : \A j \in 1..Len(ContextOf(d)'.q) : ContextOf(d)'.q[j][1] = d
      BY <2>1, <2>3 DEF IInv, PoolIsLive
    <3> QED
      BY <3>1, <3>2, <3>3 DEF PoolIsLive
  <2>5. GoneIsExecuted'
    <3>1. {e \in Done(Now)' : e[1] = c} = {<<c, i>> : i \in Kept(c)'}
      <4>1. ASSUME NEW i \in Kept(c)'
            PROVE  <<c, i>> \in Done(Now)'
        BY <1>6, <1>8, <1>9, <1>13 DEF Kept
      <4>2. ASSUME NEW e \in Done(Now)', e[1] = c
            PROVE  e[2] \in Kept(c)' /\ e = <<c, e[2]>>
        <5>1. e[2] \in Kept(e[1])'
          BY <1>8 DEF BlocksInv
        <5>2. e \in CommandId
          <6>1. Now'.blocks = blocks' /\ Now'.broken = broken'
            BY DEF Now
          <6> QED
            BY <1>8, <6>1, DoneIsTyped
        <5> QED
          BY <4>2, <5>1, <5>2 DEF CommandId
      <4> QED
        BY <4>1, <4>2
    <3>2. InOrder(blocks', c)
      BY <1>1, <1>8 DEF BlocksInv, AreBlocks, Now
    <3>3. ASSUME NEW g \in Client, session'[g] = "gone"
          PROVE  /\ {e \in Done(Now)' : e[1] = g} = {<<g, i>> : i \in Kept(g)'}
                 /\ InOrder(blocks', g)
      BY <1>10, <2>1, <3>1, <3>2, <3>3
    <3> QED
      BY <3>3 DEF GoneIsExecuted
  <2>6. StopsForThreadsOnly' /\ run' \in Run
    BY <1>8, <1>13 DEF IInv, StopsForThreadsOnly, Run
  <2>7. LinesInv'
    BY <1>1, <2>1, <1>11 DEF IInv, LinesInv
  <2>8. ContextInv'
    <3>1. ASSUME NEW d \in Live \ {c}
          PROVE  ContextAgrees(d)'
      <4>1. ContextAgrees(d) /\ d \in Client
        BY DEF IInv, ContextInv, Live
      <4>2. ContextOf(d).q # <<>> => IsFresh(Now', ContextOf(d).id)
        BY <1>8 DEF OtherIds
      <4>3. ContextOf(d)' = ContextOf(d) /\ received'[d] = received[d]
        BY <2>3
      <4> QED
        BY <1>8, <4>1, <4>2, <4>3, OtherAgrees
    <3>2. ASSUME NEW d \in Live \ {c}, NEW e \in Live \ {c}, d # e,
                 ContextOf(d)'.q # <<>>, ContextOf(e)'.q # <<>>
          PROVE  ContextOf(d)'.id # ContextOf(e)'.id
      BY <2>3, <3>2 DEF IInv, ContextInv
    <3> QED
      BY <2>1, <3>1, <3>2 DEF ContextInv
  <2> QED
    BY <1>8, <2>1, <2>3, <2>4, <2>5, <2>6, <2>7, <2>8 DEF IInv
<1> QED
  BY <1>2, <1>12, <1>13

-----------------------------------------------------------------------------
(* The actions.                                                            *)

(* The pool as TypeOK types it.                                            *)
LEMMA TypeOKIs ==
  TypeOK <=>
    /\ received \in [Client -> Seq(Line)] /\ link \in [Client -> {"none", "open", "closed"}]
    /\ session \in [Client -> {"none", "reading", "gone"}]
    /\ ctx_ \in [Client -> Handle \union {NoHandle}]
    /\ DOMAIN s_context_pool \subseteq Handle
    /\ s_context_pool \in [DOMAIN s_context_pool -> ContextType]
    /\ bulk_id \in Nat /\ accepting \in BOOLEAN /\ run \in Run
    /\ failing \in Client \union {NoClient}
    /\ blocks \in Seq(Block) /\ broken \in Seq(Block)
  BY DEF TypeOK, ContextType, Item

(* Steps that touch no session.                                            *)
LEMMA OutsideKeeps ==
  ASSUME IInv, UNCHANGED <<received, session, ctx_, poolVars>>,
         run' = run \/ (run = "unwinding" /\ run' = "exited")
  PROVE  IInv'
<1>1. UNCHANGED <<received, session, ctx_, s_context_pool, bulk_id, blocks, broken>>
  BY DEF poolVars
<1>2. Now' = Now /\ Live' = Live /\ \A c : ContextOf(c)' = ContextOf(c) /\ Kept(c)' = Kept(c)
  BY <1>1 DEF Now, Live, ContextOf, Kept
<1>3. PoolIsLive'
  BY <1>1, <1>2 DEF IInv, PoolIsLive
<1>4. GoneIsExecuted'
  BY <1>1, <1>2 DEF IInv, GoneIsExecuted
<1>5. StopsForThreadsOnly'
  BY <1>1 DEF IInv, StopsForThreadsOnly
<1>6. LinesInv' /\ BlocksInv'
  BY <1>1, <1>2 DEF IInv, LinesInv, BlocksInv
<1>7. ContextInv'
  <2>1. CASE run' = run
    <3>1. \A c : ContextAgrees(c)' <=> ContextAgrees(c)
      BY <1>1, <1>2 DEF ContextAgrees, ParsedCount
    <3> QED
      BY <1>2, <2>1, <3>1 DEF IInv, ContextInv
  <2>2. CASE run' = "exited"
    BY <2>2 DEF ContextInv
  <2> QED
    BY <2>1, <2>2
<1> QED
  BY <1>3, <1>4, <1>5, <1>6, <1>7 DEF IInv

(* The clients' ends of the connections.                                   *)
LEMMA ConnectOrClose ==
  ASSUME TypeOK, IInv, NEW c \in Client, Connect(c) \/ Close(c)
  PROVE  TypeOK' /\ IInv'
<1>1. /\ UNCHANGED <<received, accepting, session, ctx_, poolVars, run, failing>>
      /\ link' \in [Client -> {"none", "open", "closed"}]
  BY DEF Connect, Close, TypeOK
<1>2. TypeOK'
  BY <1>1 DEF TypeOK, poolVars
<1> QED
  BY <1>1, <1>2, OutsideKeeps

(* A failed accept.                                                        *)
LEMMA AcceptErrorKeeps ==
  ASSUME TypeOK, IInv, AcceptError
  PROVE  TypeOK' /\ IInv'
<1>1. /\ UNCHANGED <<received, link, session, ctx_, poolVars, run, failing>>
      /\ accepting' \in BOOLEAN
  BY DEF AcceptError, Rearmed
<1>2. TypeOK'
  BY <1>1 DEF TypeOK, poolVars
<1> QED
  BY <1>1, <1>2, OutsideKeeps

(* The end of run and of main.                                             *)
LEMMA ExitKeeps ==
  ASSUME TypeOK, IInv, Exit
  PROVE  TypeOK' /\ IInv'
<1>1. /\ UNCHANGED <<received, link, accepting, session, ctx_, poolVars, failing>>
      /\ run = "unwinding" /\ run' = "exited"
  BY DEF Exit
<1>2. TypeOK'
  BY <1>1 DEF TypeOK, poolVars, Run
<1> QED
  BY <1>1, <1>2, OutsideKeeps

(* An accepted connection: its context is new, at an address not in use.   *)
LEMMA AcceptKeeps ==
  ASSUME TypeOK, IInv, NEW c \in Client, Accept(c)
  PROVE  TypeOK' /\ IInv'
<1>1. PICK h \in FreeHandles : libasync_connect(h) /\ ctx_' = [ctx_ EXCEPT ![c] = h]
  BY DEF Accept
<1>2. /\ h \in Handle /\ h \notin DOMAIN s_context_pool
      /\ s_context_pool' = [k \in DOMAIN s_context_pool \union {h} |->
                              IF k = h THEN NewContext ELSE s_context_pool[k]]
      /\ ctx_ \in [Client -> Handle \union {NoHandle}]
      /\ session \in [Client -> {"none", "reading", "gone"}]
  BY <1>1 DEF FreeHandles, libasync_connect, TypeOK
<1>3. /\ session[c] = "none" /\ session' = [session EXCEPT ![c] = "reading"]
      /\ UNCHANGED <<received, link, bulk_id, blocks, broken, run, failing>>
      /\ run = "running" /\ accepting' = TRUE
  BY DEF Accept, Rearmed
<1>4. /\ NewContext \in ContextType /\ NewContext.q = <<>> /\ NewContext.stream = <<>>
      /\ NewContext.depth = 0
  <2>1. <<>> \in Seq(CommandId) /\ <<>> \in Seq(Item) /\ 0 \in 0..thread_cnt
    BY SizeAssumption
  <2> QED
    BY <2>1 DEF NewContext, ContextType
<1>5. /\ Live' = Live \union {c} /\ c \notin Live /\ c \in Live'
      /\ ctx_'[c] = h /\ \A d \in Live : d # c /\ d \in Client /\ ctx_'[d] = ctx_[d]
      /\ session'[c] = "reading" /\ \A d \in Client \ {c} : session'[d] = session[d]
      /\ session' \in [Client -> {"none", "reading", "gone"}]
      /\ ctx_' \in [Client -> Handle \union {NoHandle}]
  BY <1>1, <1>2, <1>3 DEF Live
<1>6. \A d \in Live : ctx_[d] \in DOMAIN s_context_pool
  BY DEF IInv, PoolIsLive
<1>7. /\ DOMAIN s_context_pool' = DOMAIN s_context_pool \union {h}
      /\ ContextOf(c)' = NewContext
      /\ \A d \in Live : ContextOf(d)' = ContextOf(d)
  BY <1>2, <1>5, <1>6 DEF ContextOf
<1>8. TypeOK'
  <2>1. s_context_pool' \in [DOMAIN s_context_pool' -> ContextType]
    BY <1>2, <1>4, <1>7, TypeOKIs
  <2> QED
    BY <1>2, <1>3, <1>5, <1>7, <2>1, TypeOKIs DEF TypeOK, ContextType, Item
<1>9. PoolIsLive'
  <2>1. DOMAIN s_context_pool' = {ctx_'[d] : d \in Live'}
    BY <1>5, <1>7 DEF IInv, PoolIsLive
  <2>2. \A d, e \in Live' : ctx_'[d] = ctx_'[e] => d = e
    BY <1>2, <1>5, <1>6 DEF IInv, PoolIsLive
  <2>3. \A d \in Live' : \A j \in 1..Len(ContextOf(d)'.q) : ContextOf(d)'.q[j][1] = d
    <3>1. \A j \in 1..Len(NewContext.q) : NewContext.q[j][1] = c
      BY <1>4, EmptyIsEmpty
    <3> QED
      BY <1>5, <1>7, <3>1 DEF IInv, PoolIsLive
  <2> QED
    BY <2>1, <2>2, <2>3 DEF PoolIsLive
<1>10. Now' = Now /\ \A d : Kept(d)' = Kept(d)
  BY <1>3 DEF Now, Kept
<1>11. GoneIsExecuted'
  BY <1>3, <1>5, <1>10 DEF IInv, GoneIsExecuted
<1>12. StopsForThreadsOnly' /\ BlocksInv'
  BY <1>3, <1>10 DEF IInv, StopsForThreadsOnly, BlocksInv
<1>13. LinesInv'
  BY <1>3, <1>5 DEF IInv, LinesInv
<1>14. received[c] = <<>> /\ Len(received[c]) = 0
  BY <1>3, EmptyIsEmpty DEF IInv, LinesInv
<1>15. ContextAgrees(c)'
  <2>1. Len(NewContext.q) = 0 /\ Len(NewContext.stream) = 0 /\ Elements(NewContext.q) = {}
    BY <1>4, EmptyIsEmpty
  <2>2. ParsedCount(c)' = 0
    BY <1>3, <1>7, <1>14, <2>1 DEF ParsedCount
  <2>3. IsPending(NewContext, c, received[c], 0)
    <3>1. Depth(received[c], 0) = 0
      BY DepthStart
    <3> QED
      BY <1>4, <2>1, <3>1, SizeAssumption DEF IsPending
  <2>4. IsServed(Now, NewContext, c, received[c], 0)
    <3>1. ASSUME NEW e \in Done(Now), e[1] = c
          PROVE  FALSE
      <4>1. e[2] \in Kept(c)
        BY <3>1 DEF IInv, BlocksInv
      <4> QED
        BY <1>14, <4>1 DEF Kept
    <3> QED
      BY <3>1 DEF IsServed
  <2> QED
    BY <1>3, <1>4, <1>7, <1>10, <2>1, <2>2, <2>3, <2>4 DEF ContextAgrees
<1>16. ASSUME NEW d \in Live
       PROVE  ContextAgrees(d)'
  <2>1. ContextAgrees(d)
    BY <1>3 DEF IInv, ContextInv
  <2> QED
    BY <1>3, <1>7, <1>10, <2>1 DEF ContextAgrees, ParsedCount
<1>17. ContextInv'
  <2>1. ASSUME NEW d \in Live', NEW e \in Live', d # e,
               ContextOf(d)'.q # <<>>, ContextOf(e)'.q # <<>>
        PROVE  ContextOf(d)'.id # ContextOf(e)'.id
    <3>1. d \in Live /\ e \in Live
      BY <1>4, <1>5, <1>7, <2>1
    <3> QED
      BY <1>3, <1>7, <2>1, <3>1 DEF IInv, ContextInv
  <2>2. \A d \in Live' : ContextAgrees(d)'
    BY <1>5, <1>15, <1>16
  <2> QED
    BY <2>1, <2>2 DEF ContextInv
<1> QED
  BY <1>8, <1>9, <1>11, <1>12, <1>13, <1>17 DEF IInv

(* The two actions that destroy a session are a disconnect.                *)
LEMMA DisconnectTyped ==
  ASSUME TypeOK, IInv, NEW c \in Client, session[c] = "reading",
         run \in {"running", "unwinding"}, libasync_disconnect(c),
         UNCHANGED <<received, link, accepting, ctx_>>, failing' \in Client \union {NoClient}
  PROVE  TypeOK' /\ IInv'
<1>1. c \in Live
  BY DEF Live
<1>2. /\ IInv'
      /\ bulk_id' \in Nat /\ blocks' \in Seq(Block) /\ broken' \in Seq(Block)
      /\ DOMAIN s_context_pool' \subseteq DOMAIN s_context_pool
      /\ s_context_pool' \in [DOMAIN s_context_pool' -> ContextType]
      /\ session' \in [Client -> {"none", "reading", "gone"}] /\ run' \in Run
  BY <1>1, DisconnectKeeps
<1>3. TypeOK'
  BY <1>2 DEF TypeOK, ContextType, Item
<1> QED
  BY <1>2, <1>3

(* The end of a connection.                                                *)
LEMMA ReadErrorKeeps ==
  ASSUME TypeOK, IInv, NEW c \in Client, ReadError(c)
  PROVE  TypeOK' /\ IInv'
<1>1. failing' \in Client \union {NoClient}
  BY DEF ReadError, TypeOK
<1> QED
  BY <1>1, DisconnectTyped DEF ReadError

(* A session destroyed after run was left by an exception.                 *)
LEMMA UnwindKeeps ==
  ASSUME TypeOK, IInv, NEW c \in Client, Unwind(c)
  PROVE  TypeOK' /\ IInv'
<1>1. failing' \in Client \union {NoClient}
  BY DEF Unwind
<1> QED
  BY <1>1, DisconnectTyped DEF Unwind

(* The lines of a read close no brace the client has not opened.           *)
LEMMA LinesAreClosable ==
  ASSUME NEW r \in Seq(Line), Closable(r), NEW t \in NextLines(r)
  PROVE  t \in Seq(Line) /\ Closable(r \o t)
<1>1. /\ t \in Seq(Line)
      /\ \A n \in 1..Len(t) : Depth(r, Len(r)) + Depth(t, n) >= 0
  <2>1. PICK n \in 1..max_length : t \in [1..n -> Line]
    BY DEF NextLines
  <2>2. t \in Seq(Line)
    BY <2>1, BoundAssumption
  <2> QED
    BY <2>2 DEF NextLines
<1>2. /\ r \o t \in Seq(Line) /\ Len(r) \in Nat /\ Len(t) \in Nat
      /\ Len(r \o t) = Len(r) + Len(t)
  BY <1>1
<1>3. ASSUME NEW k \in 0..Len(r \o t)
      PROVE  Depth(r \o t, k) >= 0
  <2>1. CASE k \in 0..Len(r)
    BY <1>1, <2>1, DepthPrefix DEF Closable
  <2>2. CASE k \notin 0..Len(r)
    <3>1. k - Len(r) \in 1..Len(t) /\ k - Len(r) \in 0..Len(t) /\ k = Len(r) + (k - Len(r))
      BY <1>2, <2>2
    <3>2. Depth(r \o t, Len(r) + (k - Len(r))) = Depth(r, Len(r)) + Depth(t, k - Len(r))
      BY <1>1, <3>1, DepthConcat
    <3> QED
      BY <1>1, <3>1, <3>2
  <2> QED
    BY <2>1, <2>2
<1> QED
  BY <1>1, <1>2, <1>3 DEF Closable

(* A read: the call gets the lines of its client that come next.           *)
LEMMA ReadSomeKeeps ==
  ASSUME TypeOK, IInv, NEW c \in Client, ReadSome(c)
  PROVE  TypeOK' /\ IInv'
<1>1. /\ run = "running" /\ session[c] = "reading" /\ c \in Live
      /\ UNCHANGED <<link, accepting, session, ctx_>>
  BY DEF ReadSome, Live
<1>2. PICK t \in NextLines(received[c]) :
        /\ received' = [received EXCEPT ![c] = received[c] \o t]
        /\ libasync_receive(c, [i \in 1..Len(t) |-> [text |-> t[i],
                                                     cmd  |-> <<c, Len(received[c]) + i>>]])
  BY DEF ReadSome
<1> DEFINE r == received[c]
           rcv == [received EXCEPT ![c] = received[c] \o t]
           lines == [i \in 1..Len(t) |-> [text |-> t[i], cmd |-> <<c, Len(received[c]) + i>>]]
           x == ContextOf(c)
           m == ParsedCount(c)
<1>3. /\ ctx_[c] \in DOMAIN s_context_pool /\ Known(c) /\ x = s_context_pool[ctx_[c]]
      /\ x \in ContextType /\ r \in Seq(Line) /\ received \in [Client -> Seq(Line)]
  BY <1>1, ContextIsTyped DEF IInv, TypeOK
<1>4. t \in Seq(Line) /\ Closable(r \o t) /\ r \o t \in Seq(Line)
  <2>1. Closable(r)
    BY <1>3 DEF Closable, IInv, LinesInv
  <2>2. t \in Seq(Line) /\ Closable(r \o t)
    BY <1>2, <1>3, <2>1, LinesAreClosable
  <2> QED
    BY <2>2 DEF Closable
<1>5. /\ rcv[c] = r \o t /\ \A d \in Client : d # c => rcv[d] = received[d]
      /\ rcv \in [Client -> Seq(Line)]
  BY <1>3, <1>4
<1>6. \A d \in Client : Extends(rcv[d], received[d])
  <2>1. Extends(rcv[c], received[c])
    BY <1>3, <1>4, <1>5, ConcatExtends
  <2>2. ASSUME NEW d \in Client, d # c
        PROVE  Extends(rcv[d], received[d])
    BY <1>3, <1>5, <2>2 DEF Extends
  <2> QED
    BY <2>1, <2>2
<1>7. received' = rcv /\ libasync_receive(c, lines)
  BY <1>2
<1>8. /\ lines \in Seq(Item) /\ Len(lines) = Len(t)
      /\ \A i \in 1..Len(t) : lines[i] = [text |-> t[i], cmd |-> <<c, Len(r) + i>>]
  BY <1>3, <1>4 DEF Item, CommandId
<1> HIDE DEF rcv, lines
<1>9. /\ CanCall(x, c, rcv, m, OtherIds(c), OthersDone(c))
      /\ m \in Nat /\ OtherIds(c) \in SUBSET Nat
      /\ x.stream \in Seq(Item) /\ Len(x.stream) \in Nat
      /\ m + Len(x.stream) = Len(r)
      /\ \A i \in 1..Len(x.stream) : x.stream[i] = LineOf(rcv[c], c, m + i)
  <2>1. Closable(rcv[c]) /\ run \in {"running", "unwinding"}
    BY <1>1, <1>4, <1>5
  <2> QED
    BY <1>1, <1>6, <2>1, CanCallNow
<1> HIDE DEF x, m, r
<1> DEFINE all == x.stream \o lines
<1>10. /\ all = x.stream \o lines /\ Len(all) \in Nat /\ m + Len(all) = Len(rcv[c])
       /\ \A i \in 1..Len(all) : all[i] = LineOf(rcv[c], c, m + i)
  <2> DEFINE L == Len(x.stream)
  <2>1. /\ x.stream \o lines \in Seq(Item) /\ Len(x.stream \o lines) = L + Len(t)
        /\ L \in Nat /\ Len(t) \in Nat /\ Len(r) \in Nat /\ Len(rcv[c]) = Len(r) + Len(t)
        /\ \A i \in 1..L : (x.stream \o lines)[i] = x.stream[i]
        /\ \A i \in 1..Len(t) : (x.stream \o lines)[L + i] = lines[i]
        /\ \A i \in 1..Len(t) : rcv[c][Len(r) + i] = t[i]
    <3>1. x.stream \in Seq(Item) /\ lines \in Seq(Item) /\ L \in Nat /\ Len(lines) = Len(t)
      BY <1>8, <1>9
    <3>2. /\ Len(r) \in Nat /\ Len(t) \in Nat /\ Len(rcv[c]) = Len(r) + Len(t)
          /\ \A i \in 1..Len(t) : rcv[c][Len(r) + i] = t[i]
      <4>1. r \in Seq(Line) /\ t \in Seq(Line) /\ rcv[c] = r \o t
        BY <1>3, <1>4, <1>5 DEF r
      <4> QED
        BY <4>1, ConcatEntries
    <3>3. /\ x.stream \o lines \in Seq(Item) /\ Len(x.stream \o lines) = L + Len(lines)
          /\ \A i \in 1..L : (x.stream \o lines)[i] = x.stream[i]
          /\ \A i \in 1..Len(lines) : (x.stream \o lines)[L + i] = lines[i]
      <4> DEFINE a == x.stream
      <4> HIDE DEF a
      <4>1. /\ a \o lines \in Seq(Item) /\ Len(a \o lines) = Len(a) + Len(lines)
            /\ \A i \in 1..Len(a) : (a \o lines)[i] = a[i]
            /\ \A i \in 1..Len(lines) : (a \o lines)[Len(a) + i] = lines[i]
        <5>1. a \in Seq(Item) /\ lines \in Seq(Item)
          BY <3>1 DEF a
        <5> QED
          BY <5>1, ConcatEntries
      <4> QED
        BY <4>1 DEF a
    <3> QED
      BY <3>1, <3>2, <3>3
  <2>2. ASSUME NEW i \in 1..(L + Len(t))
        PROVE  (x.stream \o lines)[i] = LineOf(rcv[c], c, m + i)
    <3>1. CASE i \in 1..L
      BY <1>9, <2>1, <3>1
    <3>2. CASE i \notin 1..L
      <4>1. PICK k \in 1..Len(t) : i = L + k
        <5>1. i - L \in 1..Len(t) /\ i = L + (i - L)
          <6>1. L \in Nat /\ Len(t) \in Nat
            BY <2>1
          <6> HIDE DEF L
          <6> QED
            BY <3>2, <6>1
        <5> QED
          BY <5>1
      <4>2. m + i = Len(r) + k
        <5>1. m \in Nat /\ L \in Nat /\ k \in Nat /\ m + L = Len(r)
          BY <1>9, <2>1
        <5> HIDE DEF L
        <5> QED
          BY <4>1, <5>1
      <4>3. (x.stream \o lines)[i] = lines[k] /\ rcv[c][m + i] = t[k]
        BY <2>1, <4>1, <4>2
      <4>4. lines[k] = [text |-> t[k], cmd |-> <<c, m + i>>]
        BY <1>8, <4>1, <4>2
      <4> QED
        BY <4>3, <4>4 DEF LineOf
    <3> QED
      BY <3>1, <3>2
  <2>3. m + (L + Len(t)) = Len(r) + Len(t) /\ L + Len(t) \in Nat
    <3>1. m \in Nat /\ L \in Nat /\ Len(t) \in Nat /\ m + L = Len(r)
      BY <1>9, <2>1
    <3> HIDE DEF L
    <3> QED
      BY <3>1
  <2> QED
    BY <2>1, <2>2, <2>3
<1> HIDE DEF all
<1>11. PICK p \in Outcomes(x, lines) :
         /\ s_context_pool' = [s_context_pool EXCEPT ![ctx_[c]] = Context(p)]
         /\ bulk_id' = p.bulk_id /\ blocks' = p.blocks /\ broken' = p.broken
         /\ run' = IF p.throws THEN "unwinding" ELSE run
         /\ failing' = IF p.throws THEN c ELSE failing
  BY <1>3, <1>7 DEF libasync_receive
<1>12. PICK u \in 0..thread_cnt : p = Process(x, lines, u)
  <2>1. PICK u \in ThreadsStarted(x) : p = Process(x, lines, u)
    BY DEF Outcomes
  <2>2. u \in 0..thread_cnt
    <3>1. x.threads \in 0..thread_cnt /\ u \in x.threads..thread_cnt
      BY <1>3 DEF ContextType, ThreadsStarted
    <3> QED
      BY <3>1, SizeAssumption
  <2> QED
    BY <2>1, <2>2
<1>13. IsCall(p, c, rcv, Len(rcv[c]), OtherIds(c), OthersDone(c))
  BY <1>9, <1>10, <1>12, ProcessIsCall
<1>14. Returned(p, c, rcv)
  BY <1>4, <1>5, <1>6, <1>7, <1>11, <1>13 DEF Returned
<1>15. LinesInv'
  <2>1. received' = rcv /\ session' = session
    BY <1>1, <1>7
  <2> QED
    BY <1>1, <1>4, <1>5, <2>1 DEF IInv, LinesInv, Closable
<1>16. IInv' /\ s_context_pool' \in [DOMAIN s_context_pool -> ContextType]
  BY <1>1, <1>11, <1>13, <1>14, <1>15, ReceiveKeeps
<1>17. bulk_id' \in Nat /\ blocks' \in Seq(Block) /\ broken' \in Seq(Block)
  BY <1>1, <1>14, CallLeaves
<1>18. run' \in Run /\ failing' \in Client \union {NoClient}
  BY <1>11 DEF TypeOK, Run
<1>19. received' \in [Client -> Seq(Line)]
  BY <1>5, <1>7
<1>20. TypeOK'
  BY <1>1, <1>16, <1>17, <1>18, <1>19 DEF TypeOK, ContextType, Item
<1> QED
  BY <1>16, <1>20

(* A step that changes nothing.                                            *)
LEMMA StutterKeeps ==
  ASSUME TypeOK, IInv, UNCHANGED vars
  PROVE  TypeOK' /\ IInv'
<1>1. UNCHANGED <<received, session, ctx_, poolVars>> /\ run' = run
  BY DEF vars
<1>2. TypeOK'
  BY DEF TypeOK, vars, poolVars
<1> QED
  BY <1>1, <1>2, OutsideKeeps

-----------------------------------------------------------------------------
(* The results.                                                            *)

(* No client, no context, no block.                                        *)
LEMMA Initially ==
  Init => TypeOK /\ IInv
<1> SUFFICES ASSUME Init PROVE TypeOK /\ IInv
  OBVIOUS
<1>1. TypeOK
  BY DEF Init, TypeOK, Run
<1>2. Live = {} /\ DOMAIN s_context_pool = {} /\ \A c \in Client : session[c] # "gone"
  BY DEF Init, Live
<1>3. PoolIsLive /\ GoneIsExecuted /\ StopsForThreadsOnly
  BY <1>2 DEF Init, PoolIsLive, GoneIsExecuted, StopsForThreadsOnly
<1>4. LinesInv
  <2>1. \A c \in Client : received[c] = <<>> /\ Len(received[c]) = 0
    BY EmptyIsEmpty DEF Init
  <2>2. ASSUME NEW c \in Client, NEW n \in 0..Len(received[c])
        PROVE  Depth(received[c], n) >= 0
    <3>1. n = 0
      BY <2>1
    <3> QED
      BY <3>1, DepthStart
  <2> QED
    BY <2>1, <2>2 DEF LinesInv
<1>5. BlocksInv
  <2>1. Len(blocks) = 0 /\ Len(broken) = 0 /\ Now.blocks = blocks /\ Now.broken = broken
    BY EmptyIsEmpty DEF Init, Now
  <2>2. Done(Now) = {}
    BY <2>1 DEF Done, CommandsOf
  <2> QED
    BY <2>1, <2>2 DEF BlocksInv, AreBlocks, AreNumbered, InOrder
<1>6. ContextInv
  BY <1>2 DEF ContextInv
<1> QED
  BY <1>1, <1>3, <1>4, <1>5, <1>6 DEF IInv

(* One case for each action.                                               *)
LEMMA StepKeeps ==
  TypeOK /\ IInv /\ [Next]_vars => TypeOK' /\ IInv'
<1> SUFFICES ASSUME TypeOK, IInv, [Next]_vars
             PROVE  TypeOK' /\ IInv'
  OBVIOUS
<1>1. ASSUME NEW c \in Client, Connect(c) \/ Close(c)
      PROVE  TypeOK' /\ IInv'
  BY <1>1, ConnectOrClose
<1>2. ASSUME NEW c \in Client, Accept(c)
      PROVE  TypeOK' /\ IInv'
  BY <1>2, AcceptKeeps
<1>3. ASSUME NEW c \in Client, ReadSome(c)
      PROVE  TypeOK' /\ IInv'
  BY <1>3, ReadSomeKeeps
<1>4. ASSUME NEW c \in Client, ReadError(c)
      PROVE  TypeOK' /\ IInv'
  BY <1>4, ReadErrorKeeps
<1>5. ASSUME NEW c \in Client, Unwind(c)
      PROVE  TypeOK' /\ IInv'
  BY <1>5, UnwindKeeps
<1>6. CASE AcceptError
  BY <1>6, AcceptErrorKeeps
<1>7. CASE Exit
  BY <1>7, ExitKeeps
<1>8. CASE UNCHANGED vars
  BY <1>8, StutterKeeps
<1> QED
  BY <1>1, <1>2, <1>3, <1>4, <1>5, <1>6, <1>7, <1>8 DEF Next, Handler

(* The inductive invariant holds in every state: what each context holds   *)
(* agrees with what was received from its client and what was executed.    *)
THEOREM Invariant == Spec => [](TypeOK /\ IInv)
<1>1. TypeOK /\ IInv /\ [Next]_vars => (TypeOK /\ IInv)'
  BY StepKeeps
<1> QED
  BY <1>1, Initially, PTL DEF Spec

(* Every variable of the server holds a value of its type: in particular no*)
(* call leaves a context with a negative depth or with too many threads.   *)
THEOREM TypeCorrect == Spec => []TypeOK
  BY Invariant, PTL

(* The inductive invariant alone: what the contexts, the blocks and the lines*)
(* of the clients say of each other.                                       *)
THEOREM InductiveInvariantHolds == Spec => []IInv
  BY Invariant, PTL

(* The pool holds exactly the contexts of the living sessions, one each,   *)
(* and in each only commands of its own client: libasync_connect never     *)
(* hands out an address in use, libasync_disconnect always erases.         *)
THEOREM PoolHoldsTheLiving == Spec => []PoolIsLive
<1>1. IInv => PoolIsLive
  BY DEF IInv
<1> QED
  BY <1>1, Invariant, PTL

(* A session that is gone has executed, once and in order, all its client  *)
(* asked for: the process(false) of libasync_disconnect loses nothing.     *)
THEOREM GoneSessionsAreExecuted == Spec => []GoneIsExecuted
<1>1. IInv => GoneIsExecuted
  BY DEF IInv
<1> QED
  BY <1>1, Invariant, PTL

(* The commands of a block are of one client and in the order it sent them.*)
LEMMA BlockHasOneClient ==
  ASSUME TypeOK, IInv, NEW k \in 1..Len(blocks)
  PROVE  LET b == blocks[k]
             n == Len(b.cmds)
         IN  \E c \in Client :
               /\ Static(b, received[c]) \/ Dynamic(b, c, received[c])
               /\ n \in Nat /\ b.cmds[1] \in Elements(b.cmds)
               /\ \A e \in Elements(b.cmds) :
                    /\ e = <<c, e[2]>> /\ e[1] = c /\ e[2] \in 1..Len(received[c])
                    /\ received[c][e[2]] = "command"
                    /\ e[2] \in b.cmds[1][2]..b.cmds[n][2]
<1> DEFINE b == blocks[k]
           n == Len(b.cmds)
<1>1. BlocksInv /\ Now.blocks = blocks /\ blocks \in {blocks, broken}
  BY DEF IInv, Now
<1>2. /\ b \in Block /\ WellCut(b, received)
      /\ \A e \in Elements(b.cmds) :
           /\ e[1] \in Client /\ e[2] \in 1..Len(received[e[1]])
           /\ received[e[1]][e[2]] = "command"
  BY <1>1, BlockIsKept
<1>3. PICK c \in Client : /\ \A j \in 1..n : b.cmds[j][1] = c
                          /\ Static(b, received[c]) \/ Dynamic(b, c, received[c])
  BY <1>2 DEF WellCut
<1>4. b.cmds \in Seq(CommandId) /\ b.cmds # <<>>
  BY <1>2 DEF Block, WellCut
<1>5. n \in Nat \ {0}
  BY <1>4, EmptyIsEmpty
<1>6. \A i, j \in 1..n : i < j => b.cmds[i][2] < b.cmds[j][2]
  BY <1>1, <1>3 DEF BlocksInv, AreBlocks, InOrder
<1>7. \A j \in 1..n : b.cmds[j] \in Elements(b.cmds) /\ b.cmds[j] \in CommandId
  BY <1>4 DEF Elements
<1> HIDE DEF b, n
<1>8. ASSUME NEW e \in Elements(b.cmds)
      PROVE  /\ e = <<c, e[2]>> /\ e[1] = c /\ e[2] \in 1..Len(received[c])
             /\ received[c][e[2]] = "command"
             /\ e[2] \in b.cmds[1][2]..b.cmds[n][2]
  <2>1. PICK j \in 1..n : e = b.cmds[j]
    BY DEF Elements, n
  <2>2. e[1] = c /\ e \in CommandId
    BY <1>3, <1>7, <2>1
  <2>3. e = <<c, e[2]>>
    BY <2>2 DEF CommandId
  <2>4. b.cmds[1][2] \in Nat /\ b.cmds[n][2] \in Nat /\ b.cmds[j][2] \in Nat
    <3>1. b.cmds[1] \in CommandId /\ b.cmds[n] \in CommandId /\ b.cmds[j] \in CommandId
      BY <1>5, <1>7
    <3> QED
      BY <3>1 DEF CommandId
  <2>5. b.cmds[1][2] <= b.cmds[j][2] /\ b.cmds[j][2] <= b.cmds[n][2]
    <3>1. /\ j = 1 \/ b.cmds[1][2] < b.cmds[j][2]
          /\ j = n \/ b.cmds[j][2] < b.cmds[n][2]
      BY <1>5, <1>6
    <3> QED
      BY <2>4, <3>1
  <2>6. e[2] \in b.cmds[1][2]..b.cmds[n][2]
    BY <2>1, <2>4, <2>5
  <2> QED
    BY <1>2, <2>2, <2>3, <2>6
<1>9. n \in Nat /\ b.cmds[1] \in Elements(b.cmds)
  BY <1>5, <1>7
<1> QED
  BY <1>3, <1>8, <1>9 DEF b, n

(* What the invariant says of a block is what a client expects of a        *)
(* dynamic one: it ends where its outermost brace is closed.               *)
LEMMA DynamicIsWhole ==
  ASSUME TypeOK, IInv, NEW k \in 1..Len(blocks), NEW e \in Elements(blocks[k].cmds), InBraces(e)
  PROVE  Elements(blocks[k].cmds) = DynamicBlock(e)
<1> DEFINE b == blocks[k]
           first == b.cmds[1][2]
           last == b.cmds[Len(b.cmds)][2]
<1>1. PICK c \in Client :
        /\ Static(b, received[c]) \/ Dynamic(b, c, received[c])
        /\ Len(b.cmds) \in Nat /\ b.cmds[1] \in Elements(b.cmds)
        /\ \A f \in Elements(b.cmds) :
             /\ f = <<c, f[2]>> /\ f[1] = c /\ f[2] \in 1..Len(received[c])
             /\ received[c][f[2]] = "command" /\ f[2] \in first..last
  BY BlockHasOneClient
<1> DEFINE r == received[c]
<1>2. /\ e = <<c, e[2]>> /\ e[1] = c /\ e[2] \in 1..Len(r) /\ r[e[2]] = "command"
      /\ e[2] \in first..last /\ first \in 1..Len(r)
  BY <1>1
<1>3. Depth(r, e[2]) > 0
  BY <1>2 DEF InBraces
<1>4. \A i \in 1..Len(r) : r[i] = "command" =>
        (<<c, i>> \in Elements(b.cmds) <=> Together(r, first, i))
  <2>1. ~Static(b, r)
    BY <1>2, <1>3 DEF Static
  <2> QED
    BY <1>1, <2>1 DEF Dynamic
<1>5. DynamicBlock(e) = {<<c, i>> : i \in {j \in 1..Len(r) : r[j] = "command" /\ Together(r, e[2], j)}}
  BY <1>2 DEF DynamicBlock
<1>6. Together(r, first, e[2])
  BY <1>2, <1>4
<1> HIDE DEF b, first, last, r
<1>7. ASSUME NEW i \in 1..Len(r)
      PROVE  Together(r, first, i) <=> Together(r, e[2], i)
  <2>1. /\ first..i \subseteq (first..e[2]) \union (e[2]..first) \union (e[2]..i) \union (i..e[2])
        /\ i..first \subseteq (first..e[2]) \union (e[2]..first) \union (e[2]..i) \union (i..e[2])
        /\ e[2]..i \subseteq (first..e[2]) \union (e[2]..first) \union (first..i) \union (i..first)
        /\ i..e[2] \subseteq (first..e[2]) \union (e[2]..first) \union (first..i) \union (i..first)
    BY <1>2
  <2> QED
    BY <1>6, <2>1 DEF Together
<1>8. \A f \in Elements(b.cmds) :
        f = <<c, f[2]>> /\ f[2] \in 1..Len(r) /\ r[f[2]] = "command"
  BY <1>1 DEF r, b
<1>9. Elements(b.cmds) \subseteq DynamicBlock(e)
  <2> SUFFICES ASSUME NEW f \in Elements(b.cmds) PROVE f \in DynamicBlock(e)
    OBVIOUS
  <2>1. f = <<c, f[2]>> /\ f[2] \in 1..Len(r) /\ r[f[2]] = "command"
    BY <1>8
  <2>2. Together(r, e[2], f[2])
    BY <1>4, <1>7, <2>1
  <2> QED
    BY <1>5, <2>1, <2>2
<1>10. DynamicBlock(e) \subseteq Elements(b.cmds)
  <2> SUFFICES ASSUME NEW f \in DynamicBlock(e) PROVE f \in Elements(b.cmds)
    OBVIOUS
  <2>1. PICK i \in 1..Len(r) : r[i] = "command" /\ Together(r, e[2], i) /\ f = <<c, i>>
    BY <1>5
  <2> QED
    BY <1>4, <1>7, <2>1
<1> QED
  BY <1>9, <1>10 DEF b

(* And of a static one: it ends at a brace, or when it is full.            *)
LEMMA StaticIsCut ==
  ASSUME TypeOK, IInv, NEW k \in 1..Len(blocks),
         NEW e \in Elements(blocks[k].cmds), NEW f \in Elements(blocks[k].cmds), ~InBraces(e)
  PROVE  /\ Len(blocks[k].cmds) <= bulk_size_
         /\ \A i \in e[2]..f[2] : Depth(received[e[1]], i) = 0
<1> DEFINE b == blocks[k]
           first == b.cmds[1][2]
           last == b.cmds[Len(b.cmds)][2]
<1>1. PICK c \in Client :
        /\ Static(b, received[c]) \/ Dynamic(b, c, received[c])
        /\ Len(b.cmds) \in Nat /\ b.cmds[1] \in Elements(b.cmds)
        /\ \A g \in Elements(b.cmds) :
             /\ g = <<c, g[2]>> /\ g[1] = c /\ g[2] \in 1..Len(received[c])
             /\ received[c][g[2]] = "command" /\ g[2] \in first..last
  BY BlockHasOneClient
<1> DEFINE r == received[c]
<1>2. /\ e = <<c, e[2]>> /\ e[1] = c /\ e[2] \in 1..Len(r) /\ r[e[2]] = "command"
      /\ e[2] \in first..last /\ f[2] \in first..last /\ first \in 1..Len(r)
  BY <1>1
<1>3. ~(Depth(r, e[2]) > 0)
  BY <1>2 DEF InBraces
<1>4. ~Dynamic(b, c, r)
  <2> SUFFICES ASSUME Dynamic(b, c, r) PROVE FALSE
    OBVIOUS
  <2>1. Together(r, first, e[2])
    BY <1>2 DEF Dynamic
  <2>2. e[2] \in (first..e[2]) \union (e[2]..first)
    BY <1>2
  <2> QED
    BY <1>3, <2>1, <2>2 DEF Together
<1>5. Static(b, r)
  BY <1>1, <1>4
<1>6. Len(b.cmds) <= bulk_size_ /\ \A i \in first..last : Depth(r, i) = 0
  BY <1>5 DEF Static
<1>7. last \in Int
  BY <1>1 DEF Elements
<1> HIDE DEF b, first, last, r
<1>8. e[2]..f[2] \subseteq first..last
  <2>1. first \in Int /\ e[2] \in first..last /\ f[2] \in first..last
    BY <1>2
  <2> QED
    BY <1>7, <2>1
<1>9. \A i \in e[2]..f[2] : Depth(received[e[1]], i) = 0
  <2>1. e[1] = c
    BY <1>2
  <2>2. \A i \in e[2]..f[2] : Depth(r, i) = 0
    BY <1>6, <1>8
  <2> QED
    BY <2>1, <2>2 DEF r
<1> QED
  BY <1>6, <1>9 DEF b

(* However many sessions interleave and wherever reads are cut, a dynamic  *)
(* block is executed whole and nothing is mixed into it.                   *)
THEOREM DynamicBlocksAreApart == Spec => []DynamicBlocksApart
<1>1. TypeOK /\ IInv => DynamicBlocksApart
  BY DynamicIsWhole DEF DynamicBlocksApart
<1> QED
  BY <1>1, Invariant, PTL

(* A static block is never too long and ends where a brace of its client   *)
(* is.                                                                     *)
THEOREM StaticBlocksAreBounded == Spec => []StaticBlocksAreCut
<1>1. TypeOK /\ IInv => StaticBlocksAreCut
  BY StaticIsCut DEF StaticBlocksAreCut
<1> QED
  BY <1>1, Invariant, PTL

(* The static counter gives no number twice, although a number is taken in *)
(* one call and used in a later one.                                       *)
THEOREM NumbersDiffer == Spec => []NumbersAreUnique
<1>1. TypeOK /\ IInv => NumbersAreUnique
  <2> SUFFICES ASSUME TypeOK, IInv PROVE NumbersAreUnique
    OBVIOUS
  <2> DEFINE all == blocks \o broken
             L == Len(blocks)
  <2>1. blocks \in Seq(Block) /\ broken \in Seq(Block)
    BY DEF TypeOK
  <2>2. /\ L \in Nat /\ Len(broken) \in Nat /\ Len(all) = L + Len(broken)
        /\ \A k \in 1..L : all[k] = blocks[k]
        /\ \A k \in 1..Len(broken) : all[L + k] = broken[k]
    BY <2>1, ConcatEntries
  <2>3. /\ \A j, k \in 1..L : blocks[j].id = blocks[k].id => j = k
        /\ \A j, k \in 1..Len(broken) : broken[j].id = broken[k].id => j = k
        /\ \A j \in 1..L, k \in 1..Len(broken) : blocks[j].id # broken[k].id
    BY DEF IInv, BlocksInv, AreNumbered, Now
  <2> HIDE DEF all, L
  <2>4. ASSUME NEW j \in 1..Len(all)
        PROVE  \/ j \in 1..L /\ all[j] = blocks[j]
               \/ \E k \in 1..Len(broken) : j = L + k /\ all[j] = broken[k]
    <3>1. CASE j \in 1..L
      BY <2>2, <3>1
    <3>2. CASE j \notin 1..L
      <4>1. j - L \in 1..Len(broken) /\ j = L + (j - L)
        BY <2>2, <3>2
      <4> QED
        BY <2>2, <4>1
    <3> QED
      BY <3>1, <3>2
  <2>5. ASSUME NEW j \in 1..Len(all), NEW k \in 1..Len(all), all[j].id = all[k].id
        PROVE  j = k
    BY <2>3, <2>4, <2>5
  <2> QED
    BY <2>5 DEF NumbersAreUnique, all
<1> QED
  BY <1>1, Invariant, PTL

(* The server stops for want of a thread only: the handle of a session is  *)
(* known to the library for as long as the session lives.                  *)
THEOREM OnlyThreadsStopIt == Spec => []StopsForThreadsOnly
<1>1. IInv => StopsForThreadsOnly
  BY DEF IInv
<1> QED
  BY <1>1, Invariant, PTL

=============================================================================
