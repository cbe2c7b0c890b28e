------------------------- MODULE BulkProgramProofs -------------------------
(***************************************************************************)
(* The program for every command line, every input and every order in      *)
(* which its threads run: its invariant, what its output is at its end,    *)
(* and that it keeps the promise of BlockOutput on the way.                *)
(***************************************************************************)
EXTENDS BulkProgramProperties, TLAPS, InductionLemmas

(* What is proved of a session, for the one of the program. *)
Parser == INSTANCE InputAssemblyProofs WITH
  chunk_size_ <- cmd_chunk_sz, ChunkSize <- Nat, Buffer <- {}, MaxReceive <- 0

(* The assumptions of those proofs hold here.                              *)
LEMMA SessionAssumptions ==
  Parser!SymbolAssumption /\ Parser!InputAssumption /\ Parser!ChunkAssumption
BY InputAssumption DEF Parser!SymbolAssumption, Parser!InputAssumption,
     Parser!ChunkAssumption, Parser!Symbol

-----------------------------------------------------------------------------
(* The session under its two names. *)

(* The session starts as the parser of a standalone program starts.         *)
LEMMA SameInit == Input!Init <=> Parser!Init
BY DEF Input!Init, Parser!Init

(* Its properties speak of the same first state.                            *)
LEMMA SameProcessorInit == Processor!Init <=> Parser!Init
BY DEF Processor!Init, Parser!Init

(* The type invariant of a session is one, under both names.                *)
LEMMA SameType == Processor!TypeOK <=> Parser!TypeOK
BY DEF Processor!TypeOK, Parser!TypeOK, Processor!Symbol, Parser!Symbol,
  Processor!Line, Parser!Line, Processor!Command, Parser!Command,
  Processor!Bulk, Parser!Bulk, Processor!PC, Parser!PC, Processor!Status, Parser!Status

(* So is the inductive invariant of the parser ...                          *)
LEMMA SameInv == Processor!IInv <=> Parser!IInv
BY DEF Processor!IInv, Parser!IInv, Processor!SizeAgrees, Parser!SizeAgrees,
  Processor!QueueIsBlockStart, Parser!QueueIsBlockStart,
  Processor!ReadyIsEmpty, Parser!ReadyIsEmpty,
  Processor!NumbersAgree, Parser!NumbersAgree,
  Processor!CountAgrees, Parser!CountAgrees,
  Processor!BlocksAreWhole, Parser!BlocksAreWhole,
  Processor!IsWholeBlock, Parser!IsWholeBlock,
  Processor!BlockIdsIncrease, Parser!BlockIdsIncrease,
  Processor!CommandsCarryBlockId, Parser!CommandsCarryBlockId,
  Processor!StaticBlocksBounded, Parser!StaticBlocksBounded

(* ... and what a line does to the commands before it, ...                  *)
LEMMA SameAct ==
  ASSUME NEW a, NEW line, NEW n
  PROVE  Processor!Meaning!Act(a, line, n) = Parser!Meaning!Act(a, line, n)
BY DEF Processor!Meaning!Act, Parser!Meaning!Act, Processor!Meaning!Cut, Parser!Meaning!Cut,
       Processor!Meaning!Flush, Parser!Meaning!Flush

(* ... what reading a text up to a place makes, ...                         *)
LEMMA SameReading ==
  ASSUME NEW a, NEW text, NEW k, NEW n
  PROVE  Processor!Meaning!Reading(a, text, k, n) = Parser!Meaning!Reading(a, text, k, n)
<1> DEFINE P(f) == f = [i \in 0..Len(text) |->
                          IF i = 0 THEN Processor!Meaning!State(a, <<>>)
                          ELSE Processor!Meaning!ReadSymbol(f[i - 1], text[i], n)]
           Q(f) == f = [i \in 0..Len(text) |->
                          IF i = 0 THEN Parser!Meaning!State(a, <<>>)
                          ELSE Parser!Meaning!ReadSymbol(f[i - 1], text[i], n)]
<1>1. \A b, line : Processor!Meaning!State(b, line) = Parser!Meaning!State(b, line)
  BY DEF Processor!Meaning!State, Parser!Meaning!State
<1>2. \A s, symbol : Processor!Meaning!ReadSymbol(s, symbol, n)
                       = Parser!Meaning!ReadSymbol(s, symbol, n)
  BY <1>1, SameAct DEF Processor!Meaning!ReadSymbol, Parser!Meaning!ReadSymbol
<1>3. \A f : P(f) <=> Q(f)
  BY <1>1, <1>2
<1>4. /\ Processor!Meaning!Reading(a, text, k, n) = (CHOOSE f : P(f))[k]
      /\ Parser!Meaning!Reading(a, text, k, n) = (CHOOSE f : Q(f))[k]
  BY DEF Processor!Meaning!Reading, Parser!Meaning!Reading
<1> HIDE DEF P, Q
<1>5. (CHOOSE f : P(f)) = (CHOOSE f : Q(f))
  BY <1>3
<1> QED
  BY <1>4, <1>5

(* ... what a whole text makes, ...                                         *)
LEMMA SameAfterText ==
  ASSUME NEW a, NEW text, NEW n
  PROVE  Processor!Meaning!AfterText(a, text, n) = Parser!Meaning!AfterText(a, text, n)
BY SameReading, SameAct DEF Processor!Meaning!AfterText, Parser!Meaning!AfterText

(* ... what several texts make, one after the other, ...                    *)
LEMMA SameMadeBy ==
  ASSUME NEW texts, NEW k, NEW n
  PROVE  Processor!Meaning!MadeBy(texts, k, n) = Parser!Meaning!MadeBy(texts, k, n)
<1> DEFINE P(f) == f = [i \in 0..Len(texts) |->
                          IF i = 0 THEN Processor!Meaning!Nothing
                          ELSE Processor!Meaning!AfterText(f[i - 1], texts[i], n)]
           Q(f) == f = [i \in 0..Len(texts) |->
                          IF i = 0 THEN Parser!Meaning!Nothing
                          ELSE Parser!Meaning!AfterText(f[i - 1], texts[i], n)]
<1>1. Processor!Meaning!Nothing = Parser!Meaning!Nothing
  BY DEF Processor!Meaning!Nothing, Parser!Meaning!Nothing
<1>2. \A f : P(f) <=> Q(f)
  BY <1>1, SameAfterText
<1>3. /\ Processor!Meaning!MadeBy(texts, k, n) = (CHOOSE f : P(f))[k]
      /\ Parser!Meaning!MadeBy(texts, k, n) = (CHOOSE f : Q(f))[k]
  BY DEF Processor!Meaning!MadeBy, Parser!Meaning!MadeBy
<1> HIDE DEF P, Q
<1>4. (CHOOSE f : P(f)) = (CHOOSE f : Q(f))
  BY <1>2
<1> QED
  BY <1>3, <1>4

(* ... and what is cut into blocks of them.                                 *)
LEMMA SameMeaning ==
  ASSUME NEW a, NEW texts, NEW n
  PROVE  /\ Processor!Meaning!Assembled(texts, n) = Parser!Meaning!Assembled(texts, n)
         /\ Processor!Meaning!LastBlocks(a) = Parser!Meaning!LastBlocks(a)
         /\ Processor!Meaning!AllBlocks(texts, n) = Parser!Meaning!AllBlocks(texts, n)
         /\ Processor!Meaning!Cut(a, n) = Parser!Meaning!Cut(a, n)
         /\ Processor!Meaning!State(a, texts) = Parser!Meaning!State(a, texts)
<1>1. Processor!Meaning!Assembled(texts, n) = Parser!Meaning!Assembled(texts, n)
  BY SameMadeBy DEF Processor!Meaning!Assembled, Parser!Meaning!Assembled
<1>2. \A x : Processor!Meaning!LastBlocks(x) = Parser!Meaning!LastBlocks(x)
  BY DEF Processor!Meaning!LastBlocks, Parser!Meaning!LastBlocks
<1>3. Processor!Meaning!AllBlocks(texts, n) = Parser!Meaning!AllBlocks(texts, n)
  BY <1>1, <1>2 DEF Processor!Meaning!AllBlocks, Parser!Meaning!AllBlocks
<1>4. Processor!Meaning!Cut(a, n) = Parser!Meaning!Cut(a, n)
  BY DEF Processor!Meaning!Cut, Parser!Meaning!Cut,
         Processor!Meaning!Flush, Parser!Meaning!Flush
<1>5. Processor!Meaning!State(a, texts) = Parser!Meaning!State(a, texts)
  BY DEF Processor!Meaning!State, Parser!Meaning!State
<1> QED
  BY <1>1, <1>2, <1>3, <1>4, <1>5

(* Both names see the same blocks, the same commands held and the same text.*)
LEMMA SameHeld ==
  /\ Processor!Blocks = Parser!Blocks
  /\ Processor!Current = Parser!Current
  /\ Processor!LastInput = Parser!LastInput
  /\ \A text, k : Processor!Rest(text, k) = Parser!Rest(text, k)
<1>1. Processor!Blocks = Parser!Blocks /\ Processor!Pending = Parser!Pending
  BY DEF Processor!Blocks, Parser!Blocks, Processor!Pending, Parser!Pending,
         Processor!Texts, Parser!Texts
<1>2. Processor!Made = Parser!Made
  BY <1>1 DEF Processor!Made, Parser!Made
<1>3. Processor!Current = Parser!Current
  BY <1>2, SameMeaning DEF Processor!Current, Parser!Current
<1> QED
  BY <1>1, <1>3 DEF Processor!LastInput, Parser!LastInput, Processor!Rest, Parser!Rest

(* So the invariant that relates them to the input is one.                  *)
LEMMA SameMatched == Processor!MatchedInv <=> Parser!MatchedInv
<1>1. Processor!StreamInv <=> Parser!StreamInv
  BY SameHeld DEF Processor!StreamInv, Parser!StreamInv
<1>2. ASSUME NEW a, NEW text
      PROVE  Processor!IsMadeOf(a, text) <=> Parser!IsMadeOf(a, text)
  BY SameHeld, SameMeaning, SameReading DEF Processor!IsMadeOf, Parser!IsMadeOf
<1>3. Processor!MeaningInv <=> Parser!MeaningInv
  BY <1>2, SameHeld, SameMeaning, SameMadeBy DEF Processor!MeaningInv, Parser!MeaningInv
<1> QED
  BY <1>1, <1>3 DEF Processor!MatchedInv, Parser!MatchedInv

(* A step of the process loop is the same step under both names ...         *)
LEMMA SameStep == Input!Step <=> Parser!Step
BY DEF Input!Step, Parser!Step,
  Input!ReadNextBulk, Parser!ReadNextBulk, Input!EndOfChunk, Parser!EndOfChunk,
  Input!EndOfInput, Parser!EndOfInput, Input!ReadLine, Parser!ReadLine,
  Input!CarriedSize, Parser!CarriedSize, Input!TakesNumber, Parser!TakesNumber,
  Input!idVars, Parser!idVars, Input!streamVars, Parser!streamVars,
  Input!parserVars, Parser!parserVars, Input!queueVars, Parser!queueVars,
  Input!callVars, Parser!callVars, Input!ChunkComplete, Parser!ChunkComplete,
  Input!SetStatus, Parser!SetStatus, Input!OnStatus, Parser!OnStatus,
  Input!PushCommand, Parser!PushCommand, Input!NewCommand, Parser!NewCommand,
  Input!NothingReady, Parser!NothingReady, Input!ExecQueue, Parser!ExecQueue,
  Input!StopProcessing, Parser!StopProcessing, Input!FailLine, Parser!FailLine,
  Input!CanGetLine, Parser!CanGetLine, Input!EndStatus, Parser!EndStatus,
  Input!TakeLine, Parser!TakeLine, Input!IsLine, Parser!IsLine,
  Input!ReadCommand, Parser!ReadCommand, Input!BeginBlock, Parser!BeginBlock,
  Input!EndBlock, Parser!EndBlock, Input!StrayClose, Parser!StrayClose

(* ... and so is the text a program is given.                               *)
LEMMA SameStandalone ==
  ASSUME NEW text PROVE Input!Standalone(text) <=> Parser!Standalone(text)
BY DEF Input!Standalone, Parser!Standalone, Input!Process, Parser!Process,
  Input!Feed, Parser!Feed, Input!idVars, Parser!idVars,
  Input!parserVars, Parser!parserVars, Input!queueVars, Parser!queueVars

-----------------------------------------------------------------------------
(* Sequences of numbered commands. *)

(* A sequence over a set is a sequence over a larger one.                   *)
LEMMA SeqGrows ==
  ASSUME NEW S, NEW T, S \subseteq T, NEW s \in Seq(S)
  PROVE  s \in Seq(T)
OBVIOUS

(* Sequences with the same entries are the same.                           *)
LEMMA SameEntries ==
  ASSUME NEW S, NEW s \in Seq(S), NEW t \in Seq(S), Len(s) = Len(t),
         \A i \in 1..Len(s) : s[i] = t[i]
  PROVE  s = t
OBVIOUS

(* The commands of a block from the first one on.                          *)
LEMMA FirstCommandsGrow ==
  ASSUME NEW b, NEW n \in Nat
  PROVE  /\ Len(FirstCommands(b, n)) = n
         /\ \A i \in 1..n : FirstCommands(b, n)[i] = [bulk |-> b, cmd |-> i]
         /\ Append(FirstCommands(b, n), [bulk |-> b, cmd |-> n + 1])
              = FirstCommands(b, n + 1)
         /\ FirstCommands(b, 0) = <<>>
         /\ \A B : b \in B => FirstCommands(b, n) \in Seq([bulk : B, cmd : Nat])
BY DEF FirstCommands

(* The last n commands of block b of size m.                               *)
Rear(b, m, n) == [i \in 1..n |-> [bulk |-> b, cmd |-> m - n + i]]

(* What is left of a block when its first command left is taken.            *)
LEMMA RearShrinks ==
  ASSUME NEW b, NEW m \in Nat, NEW n \in 0..m
  PROVE  /\ Len(Rear(b, m, n)) = n
         /\ n = 0 <=> Rear(b, m, n) = <<>>
         /\ n > 0 => /\ Head(Rear(b, m, n)) = [bulk |-> b, cmd |-> m - n + 1]
                     /\ Tail(Rear(b, m, n)) = Rear(b, m, n - 1)
         /\ \A B : b \in B => Rear(b, m, n) \in Seq([bulk : B, cmd : Nat])
<1>1. Rear(b, m, n) \in Seq([bulk : {b}, cmd : Nat]) /\ Len(Rear(b, m, n)) = n
  BY DEF Rear
<1>2. n > 0 => Head(Rear(b, m, n)) = [bulk |-> b, cmd |-> m - n + 1]
  BY DEF Rear
<1>3. n > 0 => Tail(Rear(b, m, n)) = Rear(b, m, n - 1)
  <2> SUFFICES ASSUME n > 0 PROVE Tail(Rear(b, m, n)) = Rear(b, m, n - 1)
    OBVIOUS
  <2>1. Rear(b, m, n - 1) \in Seq([bulk : {b}, cmd : Nat]) /\ Len(Rear(b, m, n - 1)) = n - 1
    BY DEF Rear
  <2>2. Tail(Rear(b, m, n)) \in Seq([bulk : {b}, cmd : Nat])
        /\ Len(Tail(Rear(b, m, n))) = n - 1
    BY <1>1
  <2>3. \A i \in 1..(n - 1) : Tail(Rear(b, m, n))[i] = Rear(b, m, n - 1)[i]
    BY DEF Rear
  <2> QED
    BY <2>1, <2>2, <2>3, SameEntries
<1>4. n = 0 <=> Rear(b, m, n) = <<>>
  BY <1>1
<1>5. \A B : b \in B => Rear(b, m, n) \in Seq([bulk : B, cmd : Nat])
  BY DEF Rear
<1> QED
  BY <1>1, <1>2, <1>3, <1>4, <1>5

-----------------------------------------------------------------------------
(* The console. *)

BlockType == [session : {Main}, size : Nat]

(* A block of the program belongs to its one session and has a size.        *)
LEMMA BlocksAre ==
  ASSUME NEW blocks \in Seq(BlockType), NEW b \in 1..Len(blocks)
  PROVE  blocks[b].session = Main /\ blocks[b].size \in Nat
<1>1. blocks[b] \in BlockType
  OBVIOUS
<1> QED
  BY <1>1 DEF BlockType

(* The commands of some blocks, by number.                                 *)
LEMMA IdsAre ==
  ASSUME NEW blocks \in Seq(BlockType)
  PROVE  /\ \A e \in IdsOf(blocks) :
              /\ e = [bulk |-> e.bulk, cmd |-> e.cmd] /\ e.bulk \in 1..Len(blocks)
              /\ e.cmd \in 1..blocks[e.bulk].size /\ e.cmd \in Nat
              /\ blocks[e.bulk].size \in Nat
         /\ \A b \in 1..Len(blocks) : \A i \in 1..blocks[b].size :
              [bulk |-> b, cmd |-> i] \in IdsOf(blocks)
<1>1. ASSUME NEW e \in IdsOf(blocks)
      PROVE  /\ e = [bulk |-> e.bulk, cmd |-> e.cmd] /\ e.bulk \in 1..Len(blocks)
             /\ e.cmd \in 1..blocks[e.bulk].size /\ e.cmd \in Nat
             /\ blocks[e.bulk].size \in Nat
  <2>1. PICK b \in 1..Len(blocks) : \E i \in 1..blocks[b].size : e = [bulk |-> b, cmd |-> i]
    BY DEF IdsOf
  <2>2. PICK i \in 1..blocks[b].size : e = [bulk |-> b, cmd |-> i]
    BY <2>1
  <2>3. blocks[b].size \in Nat
    BY BlocksAre
  <2> QED
    BY <2>2, <2>3
<1>2. ASSUME NEW b \in 1..Len(blocks), NEW i \in 1..blocks[b].size
      PROVE  [bulk |-> b, cmd |-> i] \in IdsOf(blocks)
  BY DEF IdsOf
<1> QED
  BY <1>1, <1>2

BlocksOK == bulks \in Seq(BlockType) /\ \A b \in 1..Len(bulks) : bulks[b].size > 0

(* The blocks of the only session.                                         *)
LEMMA AllAreOfMain == ASSUME BlocksOK PROVE Output!BlocksOf(Main) = 1..Len(bulks)
BY BlocksAre DEF BlocksOK, Output!BlocksOf

(* What is printed remains printed.                                        *)
LEMMA PrintedStays ==
  ASSUME NEW e, console' = console \/ console' = Append(console, e),
         console \in Seq(Ids), e \in Ids, NEW b, NEW i, Output!IsPrinted(b, i)
  PROVE  Output!IsPrinted(b, i)'
BY DEF Output!IsPrinted

(* A command is printed in its turn.                                       *)
LEMMA PrintNextKeeps ==
  ASSUME BlocksOK, ConsoleInv, Output!PrintNext(Main)
  PROVE  ConsoleInv'
<1>1. PICK b \in 1..Len(bulks) : \E i \in 1..bulks[b].size :
        /\ console' = Append(console, [bulk |-> b, cmd |-> i])
        /\ ~Output!IsPrinted(b, i)
        /\ i > 1 => Output!IsPrinted(b, i - 1)
        /\ \A a \in 1..Len(bulks) : a < b => Output!AllPrinted(a)
        /\ bulks' = bulks
  BY AllAreOfMain DEF Output!PrintNext
<1>2. PICK i \in 1..bulks[b].size :
        /\ console' = Append(console, [bulk |-> b, cmd |-> i])
        /\ ~Output!IsPrinted(b, i)
        /\ i > 1 => Output!IsPrinted(b, i - 1)
        /\ \A a \in 1..Len(bulks) : a < b => Output!AllPrinted(a)
        /\ bulks' = bulks
  BY <1>1
<1> DEFINE e == [bulk |-> b, cmd |-> i]
           n == Len(console)
<1>3. /\ bulks \in Seq(BlockType) /\ Len(bulks) \in Nat /\ bulks[b].size \in Nat
      /\ b \in Nat /\ i \in Nat /\ Ids' = Ids /\ e \in Ids /\ e.bulk = b /\ e.cmd = i
  <2>1. bulks \in Seq(BlockType) /\ Len(bulks) \in Nat /\ bulks[b].size \in Nat
    BY BlocksAre DEF BlocksOK
  <2>2. e \in Ids
    BY <1>2, <2>1, IdsAre DEF Ids
  <2> QED
    BY <1>2, <2>1, <2>2 DEF Ids
<1>4. \A f \in Ids : /\ f = [bulk |-> f.bulk, cmd |-> f.cmd] /\ f.bulk \in 1..Len(bulks)
                     /\ f.cmd \in 1..bulks[f.bulk].size /\ f.cmd \in Nat
                     /\ bulks[f.bulk].size \in Nat
  BY <1>3, IdsAre DEF Ids
<1>5. /\ console \in Seq(Ids) /\ n \in Nat /\ console' \in Seq(Ids) /\ Len(console') = n + 1
      /\ console'[n + 1] = e /\ \A k \in 1..n : console'[k] = console[k] /\ console[k] \in Ids
  BY <1>2, <1>3 DEF ConsoleInv
<1>6. \A k \in 1..n : \A f \in Ids : Before(f, console[k]) => Output!IsPrinted(f.bulk, f.cmd)
  BY DEF ConsoleInv
<1>7. ASSUME NEW f \in Ids, Before(f, e)
      PROVE  Output!IsPrinted(f.bulk, f.cmd)
  <2>1. CASE f.bulk < b
    <3>1. PICK k \in 1..n : console[k] = [bulk |-> f.bulk, cmd |-> bulks[f.bulk].size]
      BY <1>2, <1>4, <2>1 DEF Output!AllPrinted, Output!IsPrinted
    <3>2. CASE f.cmd = bulks[f.bulk].size
      BY <3>1, <3>2 DEF Output!IsPrinted
    <3>3. CASE f.cmd < bulks[f.bulk].size
      BY <1>6, <3>1, <3>3 DEF Before
    <3> QED
      BY <1>4, <3>2, <3>3
  <2>2. CASE f.bulk = b /\ f.cmd < i
    <3>1. PICK k \in 1..n : console[k] = [bulk |-> b, cmd |-> i - 1]
      BY <1>2, <1>3, <1>4, <2>2 DEF Output!IsPrinted
    <3>2. CASE f.cmd = i - 1
      BY <2>2, <3>1, <3>2 DEF Output!IsPrinted
    <3>3. CASE f.cmd < i - 1
      BY <1>6, <2>2, <3>1, <3>3 DEF Before
    <3> QED
      BY <1>3, <1>4, <2>2, <3>2, <3>3
  <2> QED
    BY <1>3, <1>7, <2>1, <2>2 DEF Before
<1>8. ASSUME NEW k \in 1..n
      PROVE  Before(console[k], e)
  <2>1. console[k] # e
    BY <1>2 DEF Output!IsPrinted
  <2>2. ~Before(e, console[k])
    BY <1>2, <1>3, <1>6
  <2>3. /\ console[k] = [bulk |-> console[k].bulk, cmd |-> console[k].cmd]
        /\ console[k].bulk \in Nat /\ console[k].cmd \in Nat
    <3>1. console[k] \in Ids
      BY <1>5
    <3> QED
      BY <1>3, <1>4, <3>1
  <2>4. console[k].bulk # b \/ console[k].cmd # i
    BY <2>1, <2>3
  <2> QED
    BY <1>3, <2>2, <2>3, <2>4 DEF Before
<1>9. \A j, k \in 1..(n + 1) : j < k => Before(console'[j], console'[k])
  <2> SUFFICES ASSUME NEW j \in 1..(n + 1), NEW k \in 1..(n + 1), j < k
               PROVE  Before(console'[j], console'[k])
    OBVIOUS
  <2>1. CASE k = n + 1
    <3>1. j \in 1..n
      BY <1>5, <2>1
    <3> QED
      BY <1>5, <1>8, <2>1, <3>1
  <2>2. CASE k \in 1..n
    <3>1. j \in 1..n
      BY <1>5, <2>2
    <3> QED
      BY <1>5, <2>2, <3>1 DEF ConsoleInv
  <2> QED
    BY <1>5, <2>1, <2>2
<1>10. console'[1] = [bulk |-> 1, cmd |-> 1]
  <2>1. CASE n = 0
    <3>1. \A a, c : ~Output!IsPrinted(a, c)
      BY <2>1 DEF Output!IsPrinted
    <3>2. i = 1
      BY <1>2, <1>3, <3>1
    <3>3. b = 1
      BY <1>2, <1>3, <3>1 DEF Output!AllPrinted
    <3> QED
      BY <1>5, <2>1, <3>2, <3>3
  <2>2. CASE n > 0
    <3>1. 1 \in 1..n /\ console # <<>>
      BY <1>5, <2>2
    <3> QED
      BY <1>5, <3>1 DEF ConsoleInv
  <2> QED
    BY <1>5, <2>1, <2>2
<1>11. ASSUME n > 0
       PROVE  Follows(e, console[n])
  <2> DEFINE l == console[n]
  <2>1. n \in 1..n /\ l \in Ids /\ Before(l, e)
    BY <1>5, <1>8, <1>11
  <2>2. ASSUME NEW f \in Ids, Before(l, f)
        PROVE  ~Before(f, e)
    <3> SUFFICES ASSUME Before(f, e) PROVE FALSE
      OBVIOUS
    <3>1. PICK k \in 1..n : console[k] = [bulk |-> f.bulk, cmd |-> f.cmd]
      BY <1>7 DEF Output!IsPrinted
    <3>2. console[k] = f
      BY <1>4, <3>1
    <3>3. k < n => Before(f, l)
      BY <1>5, <2>1, <3>2 DEF ConsoleInv
    <3>4. k = n => f = l
      BY <3>2
    <3>5. f = l \/ Before(f, l)
      BY <1>5, <3>3, <3>4
    <3>6. f.bulk \in Nat /\ f.cmd \in Nat /\ l.bulk \in Nat /\ l.cmd \in Nat
      BY <1>3, <1>4, <2>1
    <3> HIDE DEF l
    <3> QED
      BY <2>2, <3>5, <3>6 DEF Before
  <2>3. /\ l.bulk \in 1..Len(bulks) /\ l.cmd \in 1..bulks[l.bulk].size /\ l.cmd \in Nat
        /\ bulks[l.bulk].size \in Nat
    BY <1>4, <2>1
  <2> HIDE DEF l
  <2>4. CASE l.cmd < bulks[l.bulk].size
    <3> DEFINE f == [bulk |-> l.bulk, cmd |-> l.cmd + 1]
    <3>1. f \in Ids
      BY <1>3, <2>3, <2>4, IdsAre DEF Ids
    <3>2. Before(l, f)
      BY <2>3 DEF Before
    <3>3. ~Before(f, e)
      BY <2>2, <3>1, <3>2
    <3>4. b = l.bulk /\ i = l.cmd + 1
      BY <1>3, <2>1, <2>3, <3>3 DEF Before
    <3> QED
      BY <2>4, <3>4 DEF Follows, l
  <2>5. CASE l.cmd = bulks[l.bulk].size
    <3>1. b > l.bulk
      BY <1>3, <2>1, <2>3, <2>5 DEF Before
    <3> DEFINE f == [bulk |-> l.bulk + 1, cmd |-> 1]
    <3>2. l.bulk + 1 \in 1..Len(bulks)
      BY <1>3, <2>3, <3>1
    <3>3. f \in Ids
      <4>1. 1 \in 1..bulks[l.bulk + 1].size
        BY <3>2, BlocksAre DEF BlocksOK
      <4> QED
        BY <1>3, <3>2, <4>1, IdsAre DEF Ids
    <3>4. Before(l, f)
      BY <2>3 DEF Before
    <3>5. ~Before(f, e)
      BY <2>2, <3>3, <3>4
    <3>6. b = l.bulk + 1 /\ i = 1
      BY <1>3, <2>3, <3>1, <3>5 DEF Before
    <3> QED
      BY <2>5, <3>6 DEF Follows, l
  <2> QED
    BY <2>3, <2>4, <2>5 DEF l
<1>12. \A k \in 1..n : Follows(console[k + 1], console[k])'
  <2> SUFFICES ASSUME NEW k \in 1..n PROVE Follows(console'[k + 1], console'[k])
    BY <1>2 DEF Follows
  <2>1. CASE k = n
    BY <1>5, <1>11, <2>1
  <2>2. CASE k < n
    <3>1. k \in 1..(n - 1) /\ k + 1 \in 1..n
      BY <1>5, <2>2
    <3> QED
      BY <1>5, <3>1 DEF ConsoleInv
  <2> QED
    BY <1>5, <2>1, <2>2
<1>13. ASSUME NEW k \in 1..(n + 1), NEW f \in Ids, Before(f, console'[k])
       PROVE  Output!IsPrinted(f.bulk, f.cmd)'
  <2>1. Output!IsPrinted(f.bulk, f.cmd)
    <3>1. CASE k \in 1..n
      BY <1>5, <1>6, <1>13, <3>1
    <3>2. CASE k = n + 1
      BY <1>5, <1>7, <1>13, <3>2
    <3> QED
      BY <1>5, <3>1, <3>2
  <2> QED
    BY <1>2, <1>3, <1>5, <2>1, PrintedStays
<1> HIDE DEF n, e
<1>14. (console \in Seq(Ids))' /\ (console # <<>> => console[1] = [bulk |-> 1, cmd |-> 1])'
  BY <1>3, <1>5, <1>10
<1>15. (\A j, k \in 1..Len(console) : j < k => Before(console[j], console[k]))'
  BY <1>5, <1>9 DEF Before
<1>16. (\A k \in 1..(Len(console) - 1) : Follows(console[k + 1], console[k]))'
  <2>1. Len(console') - 1 = n
    BY <1>5
  <2> QED
    BY <1>12, <2>1
<1>17. (\A k \in 1..Len(console) : \A f \in Ids :
          Before(f, console[k]) => Output!IsPrinted(f.bulk, f.cmd))'
  BY <1>3, <1>5, <1>13 DEF Before
<1> QED
  BY <1>14, <1>15, <1>16, <1>17 DEF ConsoleInv

(* A new block is printed after all others.                                *)
LEMMA ExecuteKeepsConsole ==
  ASSUME bulks \in Seq(BlockType), ConsoleInv, NEW block \in BlockType,
         bulks' = Append(bulks, block), console' = console
  PROVE  ConsoleInv'
<1>1. /\ Len(bulks) \in Nat /\ bulks' \in Seq(BlockType) /\ Len(bulks') = Len(bulks) + 1
      /\ \A b \in 1..Len(bulks) : b \in 1..Len(bulks') /\ bulks'[b] = bulks[b]
  <2> DEFINE bs == bulks'
  <2>1. bs = Append(bulks, block) /\ bs \in Seq(BlockType)
    OBVIOUS
  <2> HIDE DEF bs
  <2>2. Len(bs) = Len(bulks) + 1 /\ \A b \in 1..Len(bulks) : bs[b] = bulks[b]
    BY <2>1
  <2> QED
    BY <2>1, <2>2 DEF bs
<1>2. ASSUME NEW e \in Ids
      PROVE  e.bulk \in 1..Len(bulks) /\ e \in Ids'
  <2>1. /\ e = [bulk |-> e.bulk, cmd |-> e.cmd] /\ e.bulk \in 1..Len(bulks)
        /\ e.cmd \in 1..bulks[e.bulk].size
    BY IdsAre DEF Ids
  <2>2. e.bulk \in 1..Len(bulks') /\ e.cmd \in 1..bulks'[e.bulk].size
    BY <1>1, <2>1
  <2>3. [bulk |-> e.bulk, cmd |-> e.cmd] \in IdsOf(bulks')
    BY <1>1, <2>2, IdsAre
  <2> QED
    BY <2>1, <2>3 DEF Ids
<1>3. ASSUME NEW e \in Ids'
      PROVE  e.bulk \in Nat \ {0} /\ (e.bulk \in 1..Len(bulks) => e \in Ids)
  <2>1. /\ e = [bulk |-> e.bulk, cmd |-> e.cmd] /\ e.bulk \in 1..Len(bulks')
        /\ e.cmd \in 1..bulks'[e.bulk].size
    BY <1>1, IdsAre DEF Ids
  <2>2. ASSUME e.bulk \in 1..Len(bulks)
        PROVE  [bulk |-> e.bulk, cmd |-> e.cmd] \in IdsOf(bulks)
    BY <1>1, <2>1, <2>2, IdsAre
  <2> QED
    BY <1>1, <2>1, <2>2 DEF Ids
<1>5. console \in Seq(Ids) /\ console \in Seq(Ids')
  BY <1>2, SeqGrows DEF ConsoleInv
<1>6. \A k \in 1..Len(console) : console[k].bulk \in 1..Len(bulks)
  BY <1>2, <1>5
<1>7. \A k \in 1..(Len(console) - 1) : Follows(console[k + 1], console[k])'
  <2> SUFFICES ASSUME NEW k \in 1..(Len(console) - 1)
               PROVE  Follows(console[k + 1], console[k])'
    OBVIOUS
  <2>1. Follows(console[k + 1], console[k])
    BY DEF ConsoleInv
  <2>2. k \in 1..Len(console)
    BY <1>5
  <2>3. bulks'[console[k].bulk] = bulks[console[k].bulk]
    BY <1>1, <1>6, <2>2
  <2> QED
    BY <2>1, <2>3 DEF Follows
<1>8. \A k \in 1..Len(console) : \A e \in Ids' :
        Before(e, console[k]) => Output!IsPrinted(e.bulk, e.cmd)'
  <2> SUFFICES ASSUME NEW k \in 1..Len(console), NEW e \in Ids', Before(e, console[k])
               PROVE  Output!IsPrinted(e.bulk, e.cmd)'
    OBVIOUS
  <2>1. e.bulk \in 1..Len(bulks)
    BY <1>1, <1>3, <1>6 DEF Before
  <2>2. Output!IsPrinted(e.bulk, e.cmd)
    BY <1>3, <2>1 DEF ConsoleInv
  <2> QED
    BY <2>2 DEF Output!IsPrinted
<1> QED
  BY <1>5, <1>7, <1>8 DEF ConsoleInv, Before

(* Nothing happens to the console.                                         *)
LEMMA ConsoleStays ==
  ASSUME ConsoleInv, UNCHANGED <<bulks, console>>
  PROVE  ConsoleInv'
BY DEF ConsoleInv, Ids, Before, Follows, Output!IsPrinted

-----------------------------------------------------------------------------
(* The files. *)

FilesOK == /\ file \in Seq(Seq(Numbered)) /\ Len(file) = Len(bulks)
           /\ unopened \subseteq 1..Len(bulks) /\ FileInv

(* A file is typed if its commands are the first ones of its block.        *)
LEMMA FileInvTypes ==
  ASSUME NEW n \in Nat, NEW f, DOMAIN f = 1..n, f = [b \in 1..n |-> f[b]],
         \A b \in 1..n : Len(f[b]) \in Nat /\ f[b] = FirstCommands(b, Len(f[b]))
  PROVE  f \in Seq(Seq([bulk : 1..n, cmd : Nat]))
<1>1. ASSUME NEW b \in 1..n
      PROVE  f[b] \in Seq([bulk : 1..n, cmd : Nat])
  <2>1. Len(f[b]) \in Nat /\ f[b] = FirstCommands(b, Len(f[b]))
    OBVIOUS
  <2>2. FirstCommands(b, Len(f[b])) \in Seq([bulk : 1..n, cmd : Nat])
    BY <2>1, FirstCommandsGrow, Zenon
  <2> QED
    BY <2>1, <2>2, Zenon
<1> DEFINE T == Seq([bulk : 1..n, cmd : Nat])
<1>2. f \in [1..n -> T]
  BY <1>1
<1> HIDE DEF T
<1>3. f \in Seq(T)
  BY <1>2
<1> QED
  BY <1>3 DEF T

(* What a file holds are the first commands of its block.                   *)
LEMMA FilesAre ==
  ASSUME FilesOK, BlocksOK
  PROVE  /\ Len(bulks) \in Nat /\ DOMAIN file = 1..Len(bulks)
         /\ file = [b \in 1..Len(bulks) |-> file[b]]
         /\ \A b \in 1..Len(bulks) : /\ Len(file[b]) \in 0..bulks[b].size
                                     /\ bulks[b].size \in Nat
                                     /\ file[b] = FirstCommands(b, Len(file[b]))
                                     /\ file[b] \in Seq(Numbered)
<1>1. Len(bulks) \in Nat /\ DOMAIN file = 1..Len(bulks)
      /\ file = [b \in 1..Len(bulks) |-> file[b]]
  BY DEF FilesOK, BlocksOK
<1>2. ASSUME NEW b \in 1..Len(bulks)
      PROVE  /\ Len(file[b]) \in 0..bulks[b].size /\ bulks[b].size \in Nat
             /\ file[b] = FirstCommands(b, Len(file[b])) /\ file[b] \in Seq(Numbered)
  <2>1. file[b] \in Seq(Numbered)
    BY DEF FilesOK
  <2>2. Len(file[b]) \in Nat /\ bulks[b].size \in Nat
    BY <2>1, BlocksAre DEF BlocksOK
  <2> QED
    BY <2>1, <2>2 DEF FilesOK, FileInv
<1> QED
  BY <1>1, <1>2

(* A file is written from its first command on.                            *)
LEMMA WriteKeeps ==
  ASSUME BlocksOK, FilesOK, NEW b \in 1..Len(bulks), Output!Write(b)
  PROVE  FilesOK'
<1>1. /\ bulks' = bulks /\ unopened' = unopened /\ b \notin unopened
      /\ Len(file[b]) # bulks[b].size
      /\ file' = [file EXCEPT ![b] = Append(@, [bulk |-> b, cmd |-> Len(@) + 1])]
  BY DEF Output!Write, Output!IsWritten
<1> DEFINE n == Len(file[b])
<1>2. /\ n \in Nat /\ n + 1 <= bulks[b].size /\ file[b] = FirstCommands(b, n)
  BY <1>1, FilesAre
<1>3. file'[b] = FirstCommands(b, n + 1) /\ Len(file'[b]) = n + 1
  <2>1. file'[b] = Append(file[b], [bulk |-> b, cmd |-> n + 1])
    BY <1>1, FilesAre
  <2> HIDE DEF n
  <2> QED
    BY <1>2, <2>1, FirstCommandsGrow
<1>4. /\ DOMAIN file' = 1..Len(bulks) /\ Len(bulks) \in Nat
      /\ file' = [a \in 1..Len(bulks) |-> file'[a]]
      /\ \A a \in 1..Len(bulks) : a # b => file'[a] = file[a]
  BY <1>1, FilesAre
<1>5. ASSUME NEW a \in 1..Len(bulks)
      PROVE  /\ Len(file'[a]) \in Nat /\ file'[a] = FirstCommands(a, Len(file'[a]))
             /\ Len(file'[a]) <= bulks[a].size /\ (a \in unopened => file'[a] = <<>>)
  <2>1. CASE a = b
    BY <1>1, <1>2, <1>3, <2>1
  <2>2. CASE a # b
    <3>1. file'[a] = file[a]
      BY <1>4, <2>2
    <3> QED
      BY <3>1, FilesAre DEF FilesOK, FileInv
  <2> QED
    BY <2>1, <2>2
<1>6. file' \in Seq(Seq([bulk : 1..Len(bulks), cmd : Nat]))
  BY <1>4, <1>5, FileInvTypes
<1>7. Len(file') = Len(bulks)
  BY <1>4, <1>6
<1> QED
  BY <1>1, <1>5, <1>6, <1>7 DEF FilesOK, FileInv, Numbered

(* A file that cannot be opened is empty.                                  *)
LEMMA FailKeeps ==
  ASSUME BlocksOK, FilesOK, NEW b \in 1..Len(bulks), Output!FailToOpen(b)
  PROVE  FilesOK'
BY DEF Output!FailToOpen, FilesOK, FileInv, Numbered

(* A block is executed: its file is empty, too.                            *)
Executes(n) == /\ bulks' = Append(bulks, [session |-> Main, size |-> n])
               /\ file' = Append(file, <<>>)
               /\ UNCHANGED <<console, unopened>>

(* A block is added behind the others and changes none of them.             *)
LEMMA ExecuteKeepsBlocks ==
  ASSUME BlocksOK, NEW n \in Nat, Executes(n)
  PROVE  /\ Len(bulks) \in Nat /\ Len(bulks') = Len(bulks) + 1 /\ bulks' \in Seq(BlockType)
         /\ bulks'[Len(bulks) + 1] = [session |-> Main, size |-> n]
         /\ \A b \in 1..Len(bulks) : b \in 1..Len(bulks') /\ bulks'[b] = bulks[b]
<1> DEFINE block == [session |-> Main, size |-> n]
           bs == bulks'
<1>1. block \in BlockType /\ bs = Append(bulks, block) /\ bulks \in Seq(BlockType)
  BY DEF BlockType, Executes, BlocksOK
<1> HIDE DEF block, bs
<1>2. /\ Len(bulks) \in Nat /\ Len(bs) = Len(bulks) + 1 /\ bs \in Seq(BlockType)
      /\ bs[Len(bulks) + 1] = block /\ \A b \in 1..Len(bulks) : bs[b] = bulks[b]
  BY <1>1
<1> QED
  BY <1>2 DEF bs, block

(* Its file is empty, and the other files are as they were.                 *)
LEMMA ExecuteKeepsFiles ==
  ASSUME BlocksOK, FilesOK, NEW n \in Nat, Executes(n)
  PROVE  FilesOK'
<1> DEFINE m == Len(bulks)
<1>1. /\ m \in Nat /\ m + 1 \in Nat /\ Len(bulks') = m + 1 /\ bulks'[m + 1].size = n
      /\ \A b \in 1..m : bulks'[b] = bulks[b]
  <2>1. /\ m \in Nat /\ Len(bulks') = m + 1
        /\ bulks'[m + 1] = [session |-> Main, size |-> n]
        /\ \A b \in 1..m : bulks'[b] = bulks[b]
    BY ExecuteKeepsBlocks
  <2> QED
    BY <2>1
<1>2. /\ DOMAIN file' = 1..(m + 1) /\ file' = [b \in 1..(m + 1) |-> file'[b]]
      /\ Len(file') = m + 1 /\ file'[m + 1] = <<>>
      /\ \A b \in 1..m : file'[b] = file[b]
  <2>1. file \in Seq(Seq(Numbered)) /\ Len(file) = m /\ <<>> \in Seq(Numbered)
    BY DEF FilesOK
  <2> DEFINE S == Seq(Numbered)
             f == file'
  <2>2. f = Append(file, <<>>) /\ file \in Seq(S) /\ <<>> \in S
    BY <2>1 DEF Executes
  <2> HIDE DEF S, f
  <2>3. f \in Seq(S) /\ Len(f) = m + 1
    BY <1>1, <2>1, <2>2
  <2>4. DOMAIN f = 1..(m + 1) /\ f = [b \in 1..(m + 1) |-> f[b]]
    BY <1>1, <2>3
  <2>5. f[m + 1] = <<>> /\ \A b \in 1..m : f[b] = file[b]
    BY <1>1, <2>1, <2>2
  <2> QED
    BY <2>3, <2>4, <2>5 DEF f
<1>3. ASSUME NEW a \in 1..(m + 1)
      PROVE  /\ Len(file'[a]) \in Nat /\ file'[a] = FirstCommands(a, Len(file'[a]))
             /\ Len(file'[a]) <= bulks'[a].size /\ (a \in unopened => file'[a] = <<>>)
  <2>1. CASE a = m + 1
    <3>1. file'[a] = <<>> /\ Len(file'[a]) = 0 /\ bulks'[a].size \in Nat
      BY <1>1, <1>2, <2>1
    <3>2. FirstCommands(a, 0) = <<>>
      BY FirstCommandsGrow
    <3> QED
      BY <3>1, <3>2
  <2>2. CASE a \in 1..m
    <3>1. file'[a] = file[a] /\ bulks'[a] = bulks[a]
      BY <1>1, <1>2, <2>2
    <3> QED
      BY <2>2, <3>1, FilesAre DEF FilesOK, FileInv
  <2> QED
    BY <1>1, <2>1, <2>2
<1>4. file' \in Seq(Seq([bulk : 1..(m + 1), cmd : Nat]))
  <2>1. \A b \in 1..(m + 1) : Len(file'[b]) \in Nat /\ file'[b] = FirstCommands(b, Len(file'[b]))
    BY <1>3
  <2> HIDE DEF m
  <2> QED
    BY <1>1, <1>2, <2>1, FileInvTypes
<1>5. unopened' = unopened /\ unopened \subseteq 1..(m + 1)
  BY <1>1 DEF FilesOK, Executes
<1> HIDE DEF m
<1> QED
  BY <1>1, <1>2, <1>3, <1>4, <1>5 DEF FilesOK, FileInv, Numbered

-----------------------------------------------------------------------------
(* The output as a whole. *)

OutputInv == BlocksOK /\ ConsoleInv /\ FilesOK

(* What may happen to it.                                                  *)
Writes(b) == b \in 1..Len(bulks) /\ (Output!Write(b) \/ Output!FailToOpen(b))
OutputStep ==
  \/ UNCHANGED outVars
  \/ \E n \in Nat \ {0} : Executes(n)
  \/ Output!PrintNext(Main)
  \/ \E b \in 1..Len(bulks) : Writes(b)

(* A block that is done with remains so.                                   *)
LEMMA OutputStepKeeps ==
  ASSUME OutputInv, OutputStep
  PROVE  /\ OutputInv'
         /\ \A b \in 1..Len(bulks) : /\ b \in 1..Len(bulks') /\ bulks'[b] = bulks[b]
                                     /\ Output!AllPrinted(b) => Output!AllPrinted(b)'
                                     /\ Done(b) => Done(b)'
<1>1. CASE UNCHANGED outVars
  <2>1. ConsoleInv'
    BY <1>1, ConsoleStays DEF OutputInv, outVars
  <2> QED
    BY <1>1, <2>1 DEF outVars, OutputInv, BlocksOK, FilesOK, FileInv, Numbered, Done,
        Output!AllPrinted, Output!IsPrinted, Output!IsWritten
<1>2. ASSUME NEW n \in Nat \ {0}, Executes(n)
      PROVE  /\ OutputInv'
             /\ \A b \in 1..Len(bulks) : /\ b \in 1..Len(bulks') /\ bulks'[b] = bulks[b]
                                         /\ Output!AllPrinted(b) => Output!AllPrinted(b)'
                                         /\ Done(b) => Done(b)'
  <2>3. /\ Len(bulks) \in Nat /\ Len(bulks') = Len(bulks) + 1 /\ bulks' \in Seq(BlockType)
        /\ bulks'[Len(bulks) + 1] = [session |-> Main, size |-> n]
        /\ \A b \in 1..Len(bulks) : b \in 1..Len(bulks') /\ bulks'[b] = bulks[b]
    BY <1>2, ExecuteKeepsBlocks DEF OutputInv
  <2>4. BlocksOK'
    BY <2>3 DEF OutputInv, BlocksOK
  <2>5. FilesOK'
    BY <1>2, ExecuteKeepsFiles DEF OutputInv
  <2>6. ConsoleInv'
    <3>1. [session |-> Main, size |-> n] \in BlockType
      BY DEF BlockType
    <3> QED
      BY <1>2, <3>1, ExecuteKeepsConsole DEF Executes, OutputInv, BlocksOK
  <2>7. \A b \in 1..Len(bulks) : file'[b] = file[b]
    BY <1>2, <2>3 DEF Executes, OutputInv, FilesOK
  <2> QED
    BY <1>2, <2>3, <2>4, <2>5, <2>6, <2>7 DEF Executes, OutputInv, Done,
        Output!AllPrinted, Output!IsPrinted, Output!IsWritten
<1>3. CASE Output!PrintNext(Main)
  <2>1. UNCHANGED <<bulks, file, unopened>>
    BY <1>3 DEF Output!PrintNext
  <2>2. ConsoleInv'
    BY <1>3, PrintNextKeeps DEF OutputInv
  <2>3. BlocksOK' /\ FilesOK'
    BY <2>1 DEF OutputInv, BlocksOK, FilesOK, FileInv, Numbered
  <2>4. \A b, i : Output!IsPrinted(b, i) => Output!IsPrinted(b, i)'
    <3>1. PICK e : console' = Append(console, e)
      BY <1>3 DEF Output!PrintNext
    <3>2. console \in Seq(Ids)
      BY DEF OutputInv, ConsoleInv
    <3>3. \A k \in 1..Len(console) : k \in 1..Len(console') /\ console'[k] = console[k]
      BY <3>1, <3>2
    <3> QED
      BY <3>3 DEF Output!IsPrinted
  <2> QED
    BY <2>1, <2>2, <2>3, <2>4 DEF OutputInv, Done, Output!AllPrinted, Output!IsWritten
<1>4. ASSUME NEW b \in 1..Len(bulks), Writes(b)
      PROVE  /\ OutputInv'
             /\ \A a \in 1..Len(bulks) : /\ a \in 1..Len(bulks') /\ bulks'[a] = bulks[a]
                                         /\ Output!AllPrinted(a) => Output!AllPrinted(a)'
                                         /\ Done(a) => Done(a)'
  <2>1. UNCHANGED <<bulks, console>>
    BY <1>4 DEF Writes, Output!Write, Output!FailToOpen
  <2>2. ConsoleInv' /\ BlocksOK'
    BY <2>1, ConsoleStays DEF OutputInv, BlocksOK
  <2>3. FilesOK'
    BY <1>4, WriteKeeps, FailKeeps DEF Writes, OutputInv
  <2>4. \A a : Output!AllPrinted(a) => Output!AllPrinted(a)'
    BY <2>1 DEF Output!AllPrinted, Output!IsPrinted
  <2>5. ASSUME NEW a \in 1..Len(bulks), Output!IsWritten(a)
        PROVE  Output!IsWritten(a)'
    <3>1. CASE Output!Write(b)
      <4>1. a # b /\ unopened' = unopened
            /\ file' = [file EXCEPT ![b] = Append(@, [bulk |-> b, cmd |-> Len(@) + 1])]
        BY <2>5, <3>1 DEF Output!Write
      <4>2. file'[a] = file[a]
        BY <4>1, FilesAre DEF OutputInv
      <4> QED
        BY <2>1, <2>5, <4>1, <4>2 DEF Output!IsWritten
    <3>2. CASE Output!FailToOpen(b)
      BY <2>5, <3>2 DEF Output!FailToOpen, Output!IsWritten
    <3> QED
      BY <1>4, <3>1, <3>2 DEF Writes
  <2> QED
    BY <2>1, <2>2, <2>3, <2>4, <2>5 DEF OutputInv, Done
<1> QED
  BY <1>1, <1>2, <1>3, <1>4 DEF OutputStep

-----------------------------------------------------------------------------
(* The steps of the synchronous executor are steps of the output, or none. *)

(* The newest block: number, size.                                         *)
LEMMA NewestIs ==
  ASSUME OutputInv, Len(bulks) > 0
  PROVE  /\ Sync!Newest = Len(bulks) /\ Len(bulks) \in 1..Len(bulks) /\ Len(bulks) \in Nat
         /\ bulks[Len(bulks)].size \in Nat /\ bulks[Len(bulks)].size > 0
         /\ Sync!Newest # Cout
<1>1. Len(bulks) \in Nat /\ Len(bulks) \in 1..Len(bulks)
  BY DEF OutputInv, BlocksOK
<1> QED
  BY <1>1, BlocksAre, StreamAssumption DEF OutputInv, BlocksOK, Sync!Newest

(* The commands the executor is called with are those of the newest block.  *)
LEMMA CommandsAre ==
  ASSUME OutputInv, Len(bulks) > 0
  PROVE  /\ Sync!Commands = Rear(Len(bulks), bulks[Len(bulks)].size, bulks[Len(bulks)].size)
         /\ \A n : LastCommands(n) = Rear(Len(bulks), bulks[Len(bulks)].size, n)
         /\ Len(Sync!Commands) = bulks[Len(bulks)].size
         /\ Sync!Commands \in Seq(Numbered)
<1>1. /\ Len(bulks) \in 1..Len(bulks) /\ bulks[Len(bulks)].size \in Nat
      /\ Sync!Newest = Len(bulks)
  BY NewestIs
<1>2. \A n : LastCommands(n) = Rear(Len(bulks), bulks[Len(bulks)].size, n)
  BY <1>1 DEF LastCommands, Rear
<1>3. Sync!Commands = Rear(Len(bulks), bulks[Len(bulks)].size, bulks[Len(bulks)].size)
  BY <1>1 DEF Sync!Commands, Rear
<1>4. /\ Len(Sync!Commands) = bulks[Len(bulks)].size
      /\ Sync!Commands \in Seq([bulk : 1..Len(bulks), cmd : Nat])
  <2> DEFINE m == bulks[Len(bulks)].size
             b == Len(bulks)
  <2>1. m \in Nat /\ m \in 0..m /\ b \in 1..b
    BY <1>1
  <2> HIDE DEF m, b
  <2>2. Len(Rear(b, m, m)) = m /\ Rear(b, m, m) \in Seq([bulk : 1..b, cmd : Nat])
    BY <2>1, RearShrinks
  <2> QED
    BY <1>3, <2>2 DEF m, b
<1> QED
  BY <1>2, <1>3, <1>4 DEF Numbered

(* A block is printed from its first command on.                           *)
LEMMA FirstIsPrinted ==
  ASSUME OutputInv, NEW b \in 1..Len(bulks), NEW i \in 1..bulks[b].size,
         Output!IsPrinted(b, i)
  PROVE  Output!IsPrinted(b, 1)
<1>1. PICK k \in 1..Len(console) : console[k] = [bulk |-> b, cmd |-> i]
  BY DEF Output!IsPrinted
<1>2. i \in Nat /\ 1 \in 1..bulks[b].size /\ [bulk |-> b, cmd |-> 1] \in Ids
  <2>1. bulks \in Seq(BlockType) /\ bulks[b].size \in Nat
    BY BlocksAre DEF OutputInv, BlocksOK
  <2>2. i \in Nat /\ 1 \in 1..bulks[b].size
    BY <2>1
  <2> QED
    BY <2>1, <2>2, IdsAre DEF Ids
<1>3. CASE i > 1
  BY <1>1, <1>2, <1>3 DEF OutputInv, ConsoleInv, Before
<1>4. CASE i = 1
  BY <1>4
<1> QED
  BY <1>2, <1>3, <1>4

(* What the executor's variables hold.                                     *)
SyncOK == /\ exec_pc \in {"idle", "log", "print", "pack", "open", "write"}
          /\ os_ \in {Cout} \union 1..Len(bulks) /\ left \in Nat
          /\ log_queue_ \in Seq(Numbered) /\ bulk_q_ \in Seq(Numbered)

ExecutorInv == OutputInv /\ SyncOK /\ SyncInv

(* What a step of the synchronous executor does.                           *)
SyncStepOK == OutputStep /\ SyncOK' /\ SyncInv'

(* The steps go on while the processor is inside the executor.             *)
Inside == UNCHANGED <<argVars, phase, bulks, closed>>

(* The older blocks remain done with, and the newest is the same.          *)
LEMMA StaysInside ==
  ASSUME OutputInv, OutputStep, Inside, Len(bulks) > 0, Older, ~Threaded, phase = "running"
  PROVE  /\ Len(bulks') > 0 /\ Older' /\ ~Threaded' /\ phase' = "running"
         /\ Sync!Newest' = Sync!Newest /\ bulks' = bulks /\ Numbered' = Numbered
         /\ \A n : LastCommands(n)' = LastCommands(n)
         /\ Sync!Commands' = Sync!Commands
<1>1. bulks' = bulks
  BY DEF Inside
<1>2. Older'
  <2>1. \A b \in 1..(Len(bulks) - 1) : b \in 1..Len(bulks) /\ Done(b)
    BY DEF Older, OutputInv, BlocksOK
  <2>2. \A b \in 1..(Len(bulks) - 1) : Done(b)'
    BY <2>1, OutputStepKeeps
  <2> QED
    BY <1>1, <2>2 DEF Older
<1> QED
  BY <1>1, <1>2 DEF Inside, argVars, Threaded, thread_count, Sync!Newest, Numbered,
     LastCommands, Sync!Commands

(* QueueExecutor copies the commands: the console then owes the whole block.*)
LEMMA CopyToLogOK ==
  ASSUME ExecutorInv, Inside, Sync!CopyToLog
  PROVE  SyncStepOK
<1>1. /\ exec_pc = "log" /\ exec_pc' = "print" /\ log_queue_' = log_queue_ \o Sync!Commands
      /\ UNCHANGED <<bulks, os_, bulk_q_, left, console, file, unopened>>
  BY DEF Sync!CopyToLog, Sync!outVars
<1>2. /\ OutputInv /\ Len(bulks) > 0 /\ Older /\ ~Threaded /\ phase = "running" /\ AtLog
  BY <1>1 DEF ExecutorInv, SyncInv
<1>3. OutputStep
  BY <1>1 DEF OutputStep, outVars
<1> DEFINE m == bulks[Len(bulks)].size
           b == Len(bulks)
<1>4. /\ Sync!Newest = b /\ b \in 1..Len(bulks) /\ m \in Nat /\ m > 0
  BY <1>2, NewestIs
<1>5. /\ log_queue_' = Sync!Commands /\ Sync!Commands \in Seq(Numbered)
      /\ Len(log_queue_') = m /\ log_queue_' = LastCommands(m)
  BY <1>1, <1>2, CommandsAre DEF AtLog
<1>6. \A i \in 1..m : ~Output!IsPrinted(b, i)
  BY <1>2, <1>4, FirstIsPrinted DEF AtLog
<1>7. AtPrint'
  <2>1. \A i : Output!IsPrinted(b, i)' <=> Output!IsPrinted(b, i)
    BY <1>1 DEF Output!IsPrinted
  <2>2. Untouched'
    BY <1>1, <1>2, <1>3, StaysInside DEF AtLog, Untouched
  <2>3. \A i \in 1..m : Output!IsPrinted(b, i)' <=> i <= m - m
    BY <1>4, <1>6, <2>1
  <2> HIDE DEF m, b
  <2> QED
    BY <1>1, <1>2, <1>3, <1>4, <1>5, <2>2, <2>3, StaysInside DEF AtLog, AtPrint, m, b
<1> QED
  BY <1>1, <1>2, <1>3, <1>5, <1>7, StaysInside DEF SyncStepOK, SyncInv, SyncOK, ExecutorInv

(* The loop ends when nothing is left to print.                             *)
LEMMA EndPrintOK ==
  ASSUME ExecutorInv, Inside, Sync!EndPrint
  PROVE  SyncStepOK
<1>1. /\ exec_pc = "print" /\ exec_pc' = "pack" /\ log_queue_ = <<>>
      /\ UNCHANGED <<bulks, os_, log_queue_, bulk_q_, left, console, file, unopened>>
  BY DEF Sync!EndPrint, Sync!outVars
<1>2. /\ OutputInv /\ Len(bulks) > 0 /\ Older /\ ~Threaded /\ phase = "running" /\ AtPrint
  BY <1>1 DEF ExecutorInv, SyncInv
<1>3. OutputStep
  BY <1>1 DEF OutputStep, outVars
<1>4. Output!AllPrinted(Sync!Newest)
  <2>1. bulks[Sync!Newest].size \in Nat /\ bulks[Sync!Newest].size > 0 /\ Len(log_queue_) = 0
    BY <1>1, <1>2, NewestIs
  <2> QED
    BY <1>2, <2>1 DEF AtPrint, Output!AllPrinted
<1>5. AtPack'
  BY <1>1, <1>2, <1>3, <1>4, StaysInside
     DEF AtPrint, AtPack, Untouched, Output!AllPrinted, Output!IsPrinted
<1> QED
  BY <1>1, <1>2, <1>3, <1>5, StaysInside DEF SyncStepOK, SyncInv, SyncOK, ExecutorInv

(* BulkCommand gets the same commands: its file then owes the whole block.  *)
LEMMA PackOK ==
  ASSUME ExecutorInv, Inside, Sync!Pack
  PROVE  SyncStepOK
<1>1. /\ exec_pc = "pack" /\ exec_pc' = "open" /\ bulk_q_' = bulk_q_ \o Sync!Commands
      /\ UNCHANGED <<bulks, os_, log_queue_, left, console, file, unopened>>
  BY DEF Sync!Pack, Sync!Packed, Sync!outVars
<1>2. /\ OutputInv /\ Len(bulks) > 0 /\ Older /\ ~Threaded /\ phase = "running" /\ AtPack
  BY <1>1 DEF ExecutorInv, SyncInv
<1>3. OutputStep
  BY <1>1 DEF OutputStep, outVars
<1>4. bulk_q_' = Sync!Commands /\ Sync!Commands \in Seq(Numbered)
  BY <1>1, <1>2, CommandsAre DEF AtPack
<1>5. AtOpen'
  BY <1>1, <1>2, <1>3, <1>4, StaysInside
     DEF AtPack, AtOpen, Untouched, Output!AllPrinted, Output!IsPrinted
<1> QED
  BY <1>1, <1>2, <1>3, <1>4, <1>5, StaysInside DEF SyncStepOK, SyncInv, SyncOK, ExecutorInv

(* A command printed is the next of its block.                              *)
LEMMA PrintCommandOK ==
  ASSUME ExecutorInv, Inside, Sync!PrintCommand
  PROVE  SyncStepOK
<1> DEFINE m == bulks[Len(bulks)].size
           b == Len(bulks)
           n == Len(log_queue_)
           e == [bulk |-> b, cmd |-> m - n + 1]
<1>1. /\ exec_pc = "print" /\ exec_pc' = "print" /\ log_queue_ # <<>>
      /\ log_queue_' = Tail(log_queue_) /\ Sync!Output(os_, Head(log_queue_))
      /\ UNCHANGED <<bulks, os_, bulk_q_, left>>
  BY DEF Sync!PrintCommand
<1>2. /\ OutputInv /\ Len(bulks) > 0 /\ Older /\ ~Threaded /\ phase = "running" /\ AtPrint
      /\ log_queue_ \in Seq(Numbered)
  BY <1>1 DEF ExecutorInv, SyncInv, SyncOK
<1>3. /\ Sync!Newest = b /\ b \in 1..Len(bulks) /\ b \in Nat /\ m \in Nat /\ m > 0
  BY <1>2, NewestIs
<1>4. /\ n \in 1..m /\ n \in 0..m /\ log_queue_ = Rear(b, m, n)
  <2>1. n \in Nat /\ n # 0
    BY <1>1, <1>2
  <2> QED
    BY <1>2, <1>3, <2>1, CommandsAre DEF AtPrint
<1>5. Head(log_queue_) = e /\ log_queue_' = Rear(b, m, n - 1) /\ Len(log_queue_') = n - 1
  <2>1. /\ n > 0 /\ n - 1 \in 0..m
        /\ log_queue_ = Rear(b, m, n) /\ log_queue_' = Tail(log_queue_)
    BY <1>1, <1>3, <1>4
  <2> HIDE DEF n, m, b
  <2>2. Head(Rear(b, m, n)) = [bulk |-> b, cmd |-> m - n + 1]
        /\ Tail(Rear(b, m, n)) = Rear(b, m, n - 1)
    BY <1>3, <1>4, <2>1, RearShrinks
  <2>3. Len(Rear(b, m, n - 1)) = n - 1
    BY <1>3, <2>1, RearShrinks
  <2> QED
    BY <2>1, <2>2, <2>3
<1>6. console' = Append(console, e) /\ UNCHANGED <<file, unopened>>
  BY <1>1, <1>2, <1>5 DEF Sync!Output, AtPrint
<1>7. \A i \in 1..m : Output!IsPrinted(b, i) <=> i <= m - n
  BY <1>2, <1>3 DEF AtPrint
<1>8. Output!PrintNext(Main)
  <2>1. b \in Output!BlocksOf(Main)
    BY <1>2, <1>3, AllAreOfMain DEF OutputInv
  <2>2. m - n + 1 \in 1..m /\ ~Output!IsPrinted(b, m - n + 1)
    BY <1>3, <1>4, <1>7
  <2>3. m - n + 1 > 1 => Output!IsPrinted(b, (m - n + 1) - 1)
    <3>1. (m - n + 1) - 1 = m - n
      BY <1>3, <1>4
    <3>2. m - n > 0 => m - n \in 1..m
      BY <1>3, <1>4
    <3> QED
      BY <1>3, <1>4, <1>7, <3>1, <3>2
  <2>4. \A a \in Output!BlocksOf(Main) : a < b => Output!AllPrinted(a)
    <3>1. \A a \in 1..Len(bulks) : a < b => a \in 1..(Len(bulks) - 1)
      BY <1>3
    <3> QED
      BY <1>2, <3>1, AllAreOfMain DEF Older, Done, OutputInv
  <2>5. closed' = closed
    BY DEF Inside
  <2> QED
    BY <1>1, <1>6, <2>1, <2>2, <2>3, <2>4, <2>5 DEF Output!PrintNext
<1>9. OutputStep
  BY <1>8 DEF OutputStep
<1>10. AtPrint'
  <2>1. \A i \in 1..m : Output!IsPrinted(b, i)' <=> Output!IsPrinted(b, i) \/ i = m - n + 1
    <3>1. console \in Seq(Ids)
      BY <1>2 DEF OutputInv, ConsoleInv
    <3> DEFINE c == console'
    <3>2. c = Append(console, e)
      BY <1>6
    <3> HIDE DEF c, e
    <3>3. /\ Len(console) \in Nat /\ Len(c) = Len(console) + 1 /\ c[Len(console) + 1] = e
          /\ \A k \in 1..Len(console) : c[k] = console[k]
      BY <3>1, <3>2
    <3>4. \A i \in 1..m : e = [bulk |-> b, cmd |-> i] <=> i = m - n + 1
      BY <1>3, <1>4 DEF e
    <3>5. ASSUME NEW i
          PROVE  Output!IsPrinted(b, i)'
                   <=> \E k \in 1..Len(c) : c[k] = [bulk |-> b, cmd |-> i]
      BY <1>1 DEF Output!IsPrinted, c
    <3>6. ASSUME NEW i
          PROVE  (\E k \in 1..Len(c) : c[k] = [bulk |-> b, cmd |-> i])
                   <=> Output!IsPrinted(b, i) \/ e = [bulk |-> b, cmd |-> i]
      <4> DEFINE f == [bulk |-> b, cmd |-> i]
      <4> HIDE DEF f
      <4>1. (\E k \in 1..Len(c) : c[k] = f)
              <=> (\E k \in 1..Len(console) : console[k] = f) \/ e = f
        <5>1. \A k \in 1..Len(c) : k \in 1..Len(console) \/ k = Len(console) + 1
          BY <3>3
        <5>2. \A k \in 1..Len(console) : k \in 1..Len(c)
          BY <3>3
        <5>3. Len(console) + 1 \in 1..Len(c)
          BY <3>3
        <5> QED
          BY <3>3, <5>1, <5>2, <5>3
      <4> QED
        BY <4>1 DEF Output!IsPrinted, f
    <3> QED
      BY <3>4, <3>5, <3>6
  <2>2. \A i \in 1..m : Output!IsPrinted(b, i)' <=> i <= m - (n - 1)
    BY <1>3, <1>4, <1>7, <2>1
  <2>3. Untouched'
    BY <1>2, <1>6, <1>9, StaysInside DEF AtPrint, Untouched
  <2>4. log_queue_' = LastCommands(n - 1)
    BY <1>2, <1>5, CommandsAre
  <2>5. n - 1 <= m
    BY <1>3, <1>4
  <2>6. UNCHANGED <<bulks, Sync!Newest>> /\ \A i : LastCommands(i)' = LastCommands(i)
    BY <1>2, <1>9, StaysInside
  <2> HIDE DEF m, n, b
  <2> QED
    BY <1>1, <1>2, <1>3, <1>5, <2>2, <2>3, <2>4, <2>5, <2>6 DEF AtPrint, m, b
<1>11. log_queue_' \in Seq(Numbered)
  BY <1>1, <1>2
<1> QED
  BY <1>1, <1>2, <1>9, <1>10, <1>11, StaysInside
     DEF SyncStepOK, SyncInv, SyncOK, ExecutorInv

(* The file is opened, or not; nothing is written to it yet.                *)
LEMMA OpenOK ==
  ASSUME ExecutorInv, Inside, Sync!Open
  PROVE  SyncStepOK
<1> DEFINE m == bulks[Len(bulks)].size
           b == Len(bulks)
<1>1. /\ exec_pc = "open" /\ exec_pc' = "write" /\ os_' = Sync!Newest
      /\ unopened' = unopened \/ unopened' = unopened \union {Sync!Newest}
      /\ left' = IF Len(Sync!Commands) < Len(bulk_q_) THEN Len(Sync!Commands)
                 ELSE Len(bulk_q_)
      /\ UNCHANGED <<bulks, log_queue_, bulk_q_, console, file>>
  BY DEF Sync!Open
<1>2. /\ OutputInv /\ Len(bulks) > 0 /\ Older /\ ~Threaded /\ phase = "running" /\ AtOpen
  BY <1>1 DEF ExecutorInv, SyncInv
<1>3. /\ Sync!Newest = b /\ b \in 1..Len(bulks) /\ b \in Nat /\ m \in Nat /\ m > 0
  BY <1>2, NewestIs
<1>4. left' = m /\ Len(bulk_q_) = m /\ bulk_q_ = LastCommands(m)
  BY <1>1, <1>2, CommandsAre DEF AtOpen
<1>5. file[b] = <<>> /\ b \notin unopened
  BY <1>2, <1>3 DEF AtOpen, Untouched
<1>6. OutputStep
  <2>1. CASE unopened' = unopened
    BY <1>1, <2>1 DEF OutputStep, outVars
  <2>2. CASE unopened' = unopened \union {b}
    <3>1. Output!FailToOpen(b)
      BY <1>1, <1>5, <2>2 DEF Output!FailToOpen, Inside
    <3> QED
      BY <1>3, <3>1 DEF OutputStep, Writes
  <2> QED
    BY <1>1, <1>3, <2>1, <2>2
<1>7. UNCHANGED <<bulks, Sync!Newest>> /\ \A i : LastCommands(i)' = LastCommands(i)
  BY <1>2, <1>6, StaysInside
<1>8. Output!AllPrinted(Sync!Newest)'
  BY <1>1, <1>2, <1>7 DEF AtOpen, Output!AllPrinted, Output!IsPrinted
<1>9. Len(file[b]) = m - m
  BY <1>3, <1>5
<1>10. AtWrite'
  <2> HIDE DEF m, b
  <2> QED
    BY <1>1, <1>2, <1>3, <1>4, <1>7, <1>8, <1>9 DEF AtOpen, AtWrite, m, b
<1>11. SyncOK'
  BY <1>1, <1>2, <1>3, <1>4, <1>6, StaysInside DEF SyncOK, ExecutorInv
<1> QED
  BY <1>1, <1>2, <1>6, <1>10, <1>11, StaysInside DEF SyncStepOK, SyncInv

(* A command written to the file is the next of its block.                  *)
LEMMA WriteOK ==
  ASSUME ExecutorInv, Inside, Sync!Write
  PROVE  SyncStepOK
<1> DEFINE m == bulks[Len(bulks)].size
           b == Len(bulks)
           e == [bulk |-> b, cmd |-> m - left + 1]
<1>1. /\ exec_pc = "write" /\ exec_pc' = "write" /\ left > 0
      /\ bulk_q_' = Tail(bulk_q_) /\ left' = left - 1
      /\ Sync!Output(Sync!Newest, Head(bulk_q_))
      /\ UNCHANGED <<bulks, os_, log_queue_>>
  BY DEF Sync!Write
<1>2. /\ OutputInv /\ Len(bulks) > 0 /\ Older /\ ~Threaded /\ phase = "running" /\ AtWrite
      /\ bulk_q_ \in Seq(Numbered) /\ left \in Nat
  BY <1>1 DEF ExecutorInv, SyncInv, SyncOK
<1>3. /\ Sync!Newest = b /\ b \in 1..Len(bulks) /\ b \in Nat /\ m \in Nat /\ m > 0 /\ b # Cout
  BY <1>2, NewestIs
<1>4. /\ left \in 1..m /\ left \in 0..m /\ bulk_q_ = Rear(b, m, left)
  BY <1>1, <1>2, <1>3, CommandsAre DEF AtWrite
<1>5. Head(bulk_q_) = e /\ bulk_q_' = Rear(b, m, left - 1) /\ Len(bulk_q_') = left - 1
  <2>1. left - 1 \in 0..m
    BY <1>3, <1>4
  <2> HIDE DEF m, b
  <2>2. Head(Rear(b, m, left)) = [bulk |-> b, cmd |-> m - left + 1]
        /\ Tail(Rear(b, m, left)) = Rear(b, m, left - 1)
    BY <1>1, <1>3, <1>4, RearShrinks
  <2>3. Len(Rear(b, m, left - 1)) = left - 1
    BY <1>3, <2>1, RearShrinks
  <2> QED
    BY <1>1, <1>4, <2>2, <2>3
<1>6. /\ UNCHANGED <<console, unopened>>
      /\ file' = IF b \in unopened THEN file ELSE [file EXCEPT ![b] = Append(@, e)]
  BY <1>1, <1>3, <1>5 DEF Sync!Output
<1>7. b \in unopened \/ Len(file[b]) = m - left
  BY <1>2, <1>3 DEF AtWrite
<1>8. ASSUME b \notin unopened
      PROVE  Output!Write(b) /\ Len(file'[b]) = m - (left - 1)
  <2>1. Len(file[b]) = m - left /\ Len(file[b]) + 1 = m - left + 1
    BY <1>3, <1>4, <1>7, <1>8
  <2>2. ~Output!IsWritten(b)
    BY <1>3, <1>4, <1>8, <2>1 DEF Output!IsWritten
  <2>3. file' = [file EXCEPT ![b] = Append(@, [bulk |-> b, cmd |-> Len(@) + 1])]
    BY <1>6, <1>8, <2>1
  <2>4. Output!Write(b)
    BY <1>1, <1>6, <2>2, <2>3 DEF Output!Write, Inside
  <2>5. file'[b] = Append(file[b], e) /\ file[b] \in Seq(Numbered)
    BY <1>2, <1>3, <1>6, <1>8, FilesAre DEF OutputInv
  <2>6. Len(file'[b]) = Len(file[b]) + 1
    <3> HIDE DEF e
    <3> QED
      BY <2>5
  <2>7. Len(file'[b]) = m - (left - 1)
    BY <1>3, <1>4, <2>1, <2>6
  <2> QED
    BY <2>4, <2>7
<1>9. OutputStep
  <2>1. CASE b \in unopened
    BY <1>1, <1>6, <2>1 DEF OutputStep, outVars
  <2>2. CASE b \notin unopened
    BY <1>3, <1>8, <2>2 DEF OutputStep, Writes
  <2> QED
    BY <2>1, <2>2
<1>10. UNCHANGED <<bulks, Sync!Newest>> /\ \A i : LastCommands(i)' = LastCommands(i)
  BY <1>2, <1>9, StaysInside
<1>11. Output!AllPrinted(Sync!Newest)'
  BY <1>2, <1>6, <1>10 DEF AtWrite, Output!AllPrinted, Output!IsPrinted
<1>12. bulk_q_' = LastCommands(left - 1) /\ left - 1 <= m
  BY <1>2, <1>3, <1>4, <1>5, CommandsAre
<1>13. AtWrite'
  <2>1. bulks' = bulks /\ Sync!Newest' = b /\ bulks[b].size = m
    BY <1>1, <1>3, <1>10
  <2>2. log_queue_' = <<>> /\ left' = left - 1
    BY <1>1, <1>2 DEF AtWrite
  <2>3. left' <= m /\ left' = Len(bulk_q_')
    BY <1>5, <1>12, <2>2
  <2>4. bulk_q_' = LastCommands(left)'
    BY <1>5, <2>1, <2>2 DEF LastCommands, Rear
  <2>5. b \in unopened' \/ Len(file'[b]) = m - left'
    <3>1. CASE b \in unopened
      BY <1>6, <3>1
    <3>2. CASE b \notin unopened
      BY <1>8, <2>2, <3>2
    <3> QED
      BY <3>1, <3>2
  <2> HIDE DEF m, b
  <2> QED
    BY <1>11, <2>1, <2>2, <2>3, <2>4, <2>5 DEF AtWrite
<1>14. SyncOK'
  <2>1. bulk_q_ # <<>>
    BY <1>1, <1>2 DEF AtWrite
  <2>2. bulk_q_' \in Seq(Numbered) /\ left' \in Nat
    BY <1>1, <1>2, <2>1
  <2> QED
    BY <1>1, <1>2, <1>9, <2>2, StaysInside DEF SyncOK, ExecutorInv
<1> QED
  BY <1>1, <1>2, <1>9, <1>13, <1>14, StaysInside DEF SyncStepOK, SyncInv

(* BulkCommand returns when it has written the whole block.                 *)
LEMMA ReturnOK ==
  ASSUME ExecutorInv, Inside, Sync!Return
  PROVE  SyncStepOK
<1>1. /\ exec_pc = "write" /\ exec_pc' = "idle" /\ left = 0
      /\ UNCHANGED <<bulks, os_, log_queue_, bulk_q_, left, console, file, unopened>>
  BY DEF Sync!Return, Sync!outVars
<1>2. /\ OutputInv /\ Len(bulks) > 0 /\ Older /\ ~Threaded /\ phase = "running" /\ AtWrite
  BY <1>1 DEF ExecutorInv, SyncInv
<1>3. OutputStep
  BY <1>1 DEF OutputStep, outVars
<1>4. /\ Sync!Newest = Len(bulks) /\ Len(bulks) \in Nat
      /\ bulks[Len(bulks)].size \in Nat
  BY <1>2, NewestIs
<1>5. bulk_q_ = <<>>
  <2>1. bulk_q_ \in Seq(Numbered) /\ Len(bulk_q_) = 0
    BY <1>1, <1>2 DEF AtWrite, ExecutorInv, SyncOK
  <2> QED
    BY <2>1
<1>6. Done(Len(bulks))
  BY <1>1, <1>2, <1>4 DEF AtWrite, Done, Output!IsWritten
<1>7. \A b \in 1..Len(bulks) : Done(b)
  <2>1. \A b \in 1..Len(bulks) : b \in 1..(Len(bulks) - 1) \/ b = Len(bulks)
    BY <1>4
  <2> QED
    BY <1>2, <1>6, <2>1 DEF Older
<1>8. AtIdle'
  <2>1. \A b \in 1..Len(bulks) : Done(b)'
    BY <1>2, <1>3, <1>7, OutputStepKeeps
  <2> QED
    BY <1>1, <1>2, <1>5, <2>1 DEF AtIdle, AtWrite
<1> QED
  BY <1>1, <1>2, <1>3, <1>8, StaysInside DEF SyncStepOK, SyncInv, SyncOK, ExecutorInv

(* All of them.                                                            *)
LEMMA SyncSteps ==
  ASSUME ExecutorInv, RunBlock
  PROVE  SyncStepOK
<1>1. Inside
  BY DEF RunBlock, Inside, Sync!Step, Sync!CopyToLog, Sync!PrintCommand, Sync!EndPrint,
         Sync!Pack, Sync!Open, Sync!Write, Sync!Return
<1> QED
  BY <1>1, CopyToLogOK, PrintCommandOK, EndPrintOK, PackOK, OpenOK, WriteOK, ReturnOK
     DEF RunBlock, Sync!Step

-----------------------------------------------------------------------------
(* The session in the program. *)

SessionInv == Processor!TypeOK /\ Processor!IInv /\ Processor!MatchedInv

(* What the program does with the session is a step of it, or none.        *)
LEMMA SessionSteps ==
  ASSUME [Next]_vars
  PROVE  [Parser!Next]_(Parser!vars)
<1>1. CASE UNCHANGED <<argVars, inputVars>>
  BY <1>1 DEF argVars, inputVars, Parser!vars, cmd_chunk_sz, Parser!streamVars,
     Parser!parserVars, Parser!idVars, Parser!queueVars, Parser!callVars
<1>2. CASE Start
  BY <1>2, SameStandalone DEF Start, Parser!Next
<1>3. CASE Process
  BY <1>3, SameStep DEF Process, Parser!Next
<1> QED
  BY <1>1, <1>2, <1>3 DEF Next, vars, Refuse, RunBlock, RunThreads, Finish

(* What holds of a session holds of this one.                              *)
LEMMA SessionStart == Init => SessionInv
<1> SUFFICES ASSUME Init PROVE SessionInv
  OBVIOUS
<1>1. Parser!Init
  BY SameInit DEF Init
<1>2. Parser!TypeOK
  BY <1>1, SessionAssumptions, Parser!InitType
<1>3. Parser!IInv
  BY <1>1, SessionAssumptions, Parser!InitInv
<1>4. Parser!MatchedInv
  BY <1>1, SessionAssumptions, Parser!InitMeans
<1> QED
  BY <1>2, <1>3, <1>4, SameType, SameInv, SameMatched DEF SessionInv

(* Every step of the program keeps what the parser proofs say of a session. *)
LEMMA SessionKeeps ==
  ASSUME SessionInv, [Next]_vars
  PROVE  SessionInv'
<1>1. Parser!TypeOK /\ Parser!IInv /\ Parser!MatchedInv
  BY SameType, SameInv, SameMatched DEF SessionInv
<1>2. [Parser!Next]_(Parser!vars)
  BY SessionSteps
<1>3. Parser!TypeOK'
  BY <1>1, <1>2, SessionAssumptions, Parser!NextType
<1>4. Parser!IInv'
  BY <1>1, <1>2, <1>3, SessionAssumptions, Parser!NextInv
<1>5. Parser!MatchedInv'
  BY <1>1, <1>2, <1>3, SessionAssumptions, Parser!NextMeans
<1>6. (Processor!TypeOK <=> Parser!TypeOK)'
  BY SameType, PTL
<1>7. (Processor!IInv <=> Parser!IInv)'
  BY SameInv, PTL
<1>8. (Processor!MatchedInv <=> Parser!MatchedInv)'
  BY SameMatched, PTL
<1> QED
  BY <1>3, <1>4, <1>5, <1>6, <1>7, <1>8 DEF SessionInv

(* A step of the processor: it goes on, or ends the only call of it.       *)
LEMMA ProcessSteps ==
  ASSUME SessionInv, Input!Step
  PROVE  /\ pc \in {"process", "bulk"}
         /\ pc' \in {"process", "bulk", IF save_status_at_stop_ THEN "idle" ELSE "closed"}
         /\ save_status_at_stop_' \in {save_status_at_stop_, save_status_at_stop0}
         /\ UNCHANGED <<save_status_at_stop0, received>>
         /\ \/ executed' = executed
            \/ \E e \in Parser!Bulk : executed' = Append(executed, e)
                                         /\ Len(e.cmds) = Len(q_) + 1
         /\ Len(q_') + Len(stream') <= Len(q_) + Len(stream)
<1>1. Parser!TypeOK /\ Parser!IInv /\ Parser!Step
  BY SameType, SameInv, SameStep DEF SessionInv
<1>2. /\ pc \in {"process", "bulk"} /\ Parser!GoesOn /\ UNCHANGED received
      /\ Len(q_') + Len(stream') <= Len(q_) + Len(stream)
  BY <1>1, SessionAssumptions, Parser!StepGoesOn
<1> QED
  BY <1>2 DEF Parser!GoesOn

(* Blocks have a command and its line end at least.                        *)
LEMMA SizesAre ==
  SessionInv => \A b \in 1..Len(executed) :
                  Len(executed[b].cmds) \in Nat /\ Len(executed[b].cmds) >= 2
<1> SUFFICES ASSUME SessionInv, NEW b \in 1..Len(executed)
             PROVE  Len(executed[b].cmds) \in Nat /\ Len(executed[b].cmds) >= 2
  OBVIOUS
<1>1. executed \in Seq(Parser!Bulk)
  BY SameType DEF SessionInv, Parser!TypeOK
<1>2. executed[b].cmds \in Seq(Parser!Command)
  <2>1. executed[b] \in Parser!Bulk
    BY <1>1
  <2> QED
    BY <2>1 DEF Parser!Bulk
<1>3. Len(executed[b].cmds) >= 2
  BY DEF SessionInv, Processor!IInv, Processor!BlocksAreWhole, Processor!IsWholeBlock
<1> QED
  BY <1>2, <1>3

-----------------------------------------------------------------------------
(* The steps of the program. *)

(* What the options are, and what the executor's part of the invariant.    *)
OptionsOK ==
  /\ chunk_arg \in ChunkArg /\ thread_arg \in ThreadArg
  /\ phase \in {"arguments", "running", "ended"} /\ closed \subseteq {Main}
  /\ phase = "running" => chunk_arg \in Nat \ {0} /\ thread_count \in Nat \ {0}

(* The invariant by the parts the proofs below speak of.                    *)
LEMMA PartsOfInv ==
  ASSUME TypeOK, IInv
  PROVE  ExecutorInv /\ SessionInv /\ OptionsOK
<1>1. SessionInv /\ OptionsOK /\ SyncOK
  BY DEF TypeOK, IInv, SessionInv, OptionsOK, SyncOK
<1>2. BlocksOK
  <2>1. bulks \in Seq(BlockType)
    BY DEF TypeOK, BlockType
  <2>2. ASSUME NEW b \in 1..Len(bulks)
        PROVE  bulks[b].size > 0
    BY <1>1, SizesAre DEF IInv, BlocksAgree
  <2> QED
    BY <2>1, <2>2 DEF BlocksOK
<1>3. FilesOK
  BY DEF TypeOK, IInv, FilesOK
<1> QED
  BY <1>1, <1>2, <1>3 DEF IInv, ExecutorInv, OutputInv

(* The parts put together again.                                           *)
LEMMA PartsMakeInv ==
  ASSUME ExecutorInv, SessionInv, OptionsOK, PhaseInv, FitsInput, BlocksAgree, EndInv
  PROVE  TypeOK /\ IInv
<1>1. IInv
  BY DEF IInv, ExecutorInv, OutputInv, FilesOK, SessionInv
<1>2. console \in Seq(Numbered)
  <2>1. bulks \in Seq(BlockType) /\ console \in Seq(Ids)
    BY DEF ExecutorInv, OutputInv, BlocksOK, ConsoleInv
  <2>2. Ids \subseteq Numbered
    BY <2>1, IdsAre DEF Ids, Numbered
  <2> QED
    BY <2>1, <2>2, SeqGrows
<1>3. TypeOK
  BY <1>2 DEF TypeOK, ExecutorInv, OutputInv, FilesOK, BlocksOK, BlockType, SyncOK,
     SessionInv, OptionsOK
<1> QED
  BY <1>1, <1>3

(* What each action is shown to do.                                        *)
StepOK == /\ OutputStep /\ SyncOK' /\ SyncInv' /\ OptionsOK'
          /\ PhaseInv' /\ FitsInput' /\ BlocksAgree' /\ EndInv'

(* Where the options are refused nothing has happened.                     *)
LEMMA RefuseOK ==
  ASSUME TypeOK, IInv, Refuse
  PROVE  StepOK
<1>1. /\ phase = "arguments" /\ phase' = "ended" /\ ExecutorInv /\ OptionsOK
      /\ UNCHANGED <<argVars, inputVars, syncVars, outVars, closed>>
  BY PartsOfInv DEF Refuse
<1>2. received = <<>> /\ executed = <<>> /\ bulks = <<>> /\ exec_pc = "idle"
  BY <1>1 DEF IInv, PhaseInv, Processor!Init, Sync!Init
<1>3. OutputStep
  BY <1>1 DEF OutputStep
<1>4. SyncOK' /\ BlocksAgree' /\ FitsInput'
  BY <1>1 DEF IInv, ExecutorInv, SyncOK, syncVars, outVars, inputVars, Numbered, BlocksAgree,
     FitsInput
<1>5. SyncInv'
  <2>1. SyncInv /\ AtIdle
    BY <1>1, <1>2 DEF ExecutorInv, SyncInv
  <2>2. AtIdle'
    BY <1>1, <1>2, <2>1 DEF AtIdle, syncVars, outVars
  <2> QED
    BY <1>1, <1>2, <2>1, <2>2 DEF SyncInv, syncVars
<1>6. OptionsOK'
  BY <1>1 DEF OptionsOK, argVars
<1>7. PhaseInv'
  BY <1>1, <1>2 DEF IInv, PhaseInv, inputVars
<1>8. EndInv'
  BY <1>1, <1>2 DEF EndInv, syncVars, outVars
<1> QED
  BY <1>3, <1>4, <1>5, <1>6, <1>7, <1>8 DEF StepOK

(* The processor starts on one input, all of it unread.                    *)
LEMMA StartOK ==
  ASSUME TypeOK, IInv, Start
  PROVE  StepOK
<1>1. /\ phase = "arguments" /\ phase' = "running" /\ ExecutorInv /\ OptionsOK
      /\ ~Rejected /\ chunk_arg # NotGiven
      /\ UNCHANGED <<argVars, syncVars, outVars, closed>>
  BY PartsOfInv DEF Start
<1>2. PICK text \in Script : Input!Standalone(text)
  BY DEF Start
<1>3. /\ executed = <<>> /\ bulks = <<>> /\ exec_pc = "idle" /\ q_ = <<>> /\ closed = {}
      /\ stream = <<>> /\ ~eofbit /\ ~save_status_at_stop_
  BY <1>1 DEF IInv, PhaseInv, Processor!Init, Sync!Init
<1>4. /\ received' = <<text>> /\ pc' = "process" /\ stream' = stream \o text
      /\ ~save_status_at_stop_' /\ ~save_status_at_stop0' /\ UNCHANGED <<q_, executed>>
  BY <1>2, <1>3 DEF Input!Standalone, Input!Process, Input!Feed, Input!queueVars
<1>5. text \in Seq(Char \union {OpenBrace, CloseBrace, NL})
  BY InputAssumption
<1>6. OutputStep
  BY <1>1 DEF OutputStep
<1>7. SyncOK' /\ BlocksAgree'
  BY <1>1, <1>4 DEF IInv, ExecutorInv, SyncOK, syncVars, outVars, Numbered, BlocksAgree
<1>8. FitsInput'
  <2>1. stream' = text
    BY <1>3, <1>4, <1>5
  <2>2. Len(q_') = 0 /\ received'[1] = text /\ Len(text) \in Nat
    BY <1>3, <1>4, <1>5
  <2> QED
    BY <2>1, <2>2 DEF FitsInput
<1>9. SyncInv'
  <2>1. SyncInv /\ AtIdle
    BY <1>1, <1>3 DEF ExecutorInv, SyncInv
  <2>2. AtIdle'
    BY <1>1, <1>3, <2>1 DEF AtIdle, syncVars, outVars
  <2> QED
    BY <1>1, <1>3, <2>1, <2>2 DEF SyncInv, syncVars
<1>10. OptionsOK'
  <2>1. chunk_arg \in Nat \ {0}
    BY <1>1, ArgumentAssumption DEF OptionsOK, Rejected
  <2>2. thread_count \in Nat \ {0}
    BY <1>1, ArgumentAssumption DEF OptionsOK, Rejected, thread_count
  <2> QED
    BY <1>1, <2>1, <2>2 DEF OptionsOK, argVars, thread_count
<1>11. PhaseInv'
  <2>1. <<text>> # <<>> /\ <<text>> \in OneInput
    BY DEF OneInput
  <2> QED
    BY <1>1, <1>3, <1>4, <2>1 DEF PhaseInv
<1>12. EndInv'
  BY <1>1 DEF EndInv
<1> QED
  BY <1>6, <1>7, <1>8, <1>9, <1>10, <1>11, <1>12 DEF StepOK

(* A block is handed over: to the threads, or to the synchronous executor, *)
(* which has nothing left of the blocks before.                            *)
LEMMA ExecuteOK ==
  ASSUME TypeOK, IInv, NEW n \in Nat \ {0}, phase = "running", exec_pc = "idle",
         Execute(n), UNCHANGED <<argVars, phase>>
  PROVE  Executes(n) /\ OutputStep /\ SyncOK' /\ SyncInv' /\ UNCHANGED closed
<1>1. OutputInv /\ SyncOK /\ SyncInv /\ AtIdle
  BY PartsOfInv DEF ExecutorInv, SyncInv
<1>2. Executes(n) /\ UNCHANGED closed
  BY DEF Execute, Output!Execute, Sync!Execute, Executes
<1>3. OutputStep
  BY <1>2 DEF OutputStep
<1>4. /\ Len(bulks) \in Nat /\ Len(bulks') = Len(bulks) + 1
      /\ bulks \in Seq(BlockType)
      /\ Numbered \subseteq Numbered'
  <2>1. Len(bulks) \in Nat /\ Len(bulks') = Len(bulks) + 1 /\ bulks \in Seq(BlockType)
    BY <1>1, <1>2, ExecuteKeepsBlocks DEF OutputInv, BlocksOK
  <2> QED
    BY <2>1 DEF Numbered
<1>5. UNCHANGED <<log_queue_, bulk_q_, left>> /\ log_queue_ = <<>> /\ bulk_q_ = <<>> /\ left = 0
  BY <1>1 DEF AtIdle, Execute, Sync!Execute, syncVars
<1>6. (Threaded' <=> Threaded) /\ phase' = "running"
  BY DEF argVars, Threaded, thread_count
<1>7. CASE Threaded
  <2>1. UNCHANGED syncVars
    BY <1>7 DEF Execute
  <2>2. AtIdle'
    BY <1>5, <1>6, <1>7 DEF AtIdle
  <2>3. SyncOK'
    BY <1>1, <1>4, <1>5, <2>1 DEF SyncOK, syncVars
  <2> QED
    BY <1>2, <1>3, <1>6, <1>7, <2>1, <2>2, <2>3 DEF SyncInv, syncVars
<1>8. CASE ~Threaded
  <2>1. exec_pc' = "log" /\ os_' = Cout
    BY <1>8 DEF Execute, Sync!Execute, Sync!ContextStream
  <2>2. Sync!Newest' = Len(bulks) + 1
    BY <1>4 DEF Sync!Newest
  <2>3. Untouched'
    <3>1. file'[Len(bulks) + 1] = <<>>
      BY <1>1, <1>2 DEF Executes, OutputInv, FilesOK
    <3>2. Len(bulks) + 1 \notin unopened'
      BY <1>1, <1>2, <1>4 DEF Executes, OutputInv, FilesOK
    <3> QED
      BY <2>2, <3>1, <3>2 DEF Untouched
  <2>4. ~Output!IsPrinted(Sync!Newest, 1)'
    <3>1. \A k \in 1..Len(console) : console[k] \in Ids
      BY <1>1 DEF OutputInv, ConsoleInv
    <3>2. \A k \in 1..Len(console) : console[k].bulk \in 1..Len(bulks)
      BY <1>4, <3>1, IdsAre DEF Ids
    <3>3. \A k \in 1..Len(console) : console[k] # [bulk |-> Len(bulks) + 1, cmd |-> 1]
      BY <1>4, <3>2
    <3> QED
      BY <1>2, <2>2, <3>3 DEF Executes, Output!IsPrinted
  <2>5. AtLog'
    BY <1>5, <2>1, <2>3, <2>4 DEF AtLog
  <2>6. Older'
    <3>1. \A b \in 1..Len(bulks) : Done(b)
      BY <1>1, <1>8 DEF AtIdle
    <3>2. \A b \in 1..Len(bulks) : Done(b)'
      BY <1>1, <1>3, <3>1, OutputStepKeeps
    <3> QED
      BY <1>4, <3>2 DEF Older
  <2>7. SyncOK'
    BY <1>1, <1>5, <2>1 DEF SyncOK
  <2>8. Len(bulks') > 0
    BY <1>4
  <2> QED
    BY <1>2, <1>3, <1>6, <1>8, <2>1, <2>5, <2>6, <2>7, <2>8 DEF SyncInv
<1> QED
  BY <1>7, <1>8

(* The processor goes on with its input, or ends.                          *)
LEMMA ProcessOK ==
  ASSUME TypeOK, IInv, Process
  PROVE  StepOK
<1>1. /\ phase = "running" /\ exec_pc = "idle" /\ UNCHANGED <<argVars, phase>> /\ Input!Step
      /\ ExecutorInv /\ SessionInv /\ OptionsOK
  BY PartsOfInv DEF Process
<1>2. /\ pc' \in {"process", "bulk", IF save_status_at_stop_ THEN "idle" ELSE "closed"}
      /\ save_status_at_stop_' \in {save_status_at_stop_, save_status_at_stop0}
      /\ UNCHANGED <<save_status_at_stop0, received>>
      /\ \/ executed' = executed
         \/ \E e \in Parser!Bulk : executed' = Append(executed, e)
                                      /\ Len(e.cmds) = Len(q_) + 1
      /\ Len(q_') + Len(stream') <= Len(q_) + Len(stream)
  BY <1>1, ProcessSteps
<1>3. ~save_status_at_stop_ /\ ~save_status_at_stop0 /\ closed = {} /\ received \in OneInput
  BY <1>1 DEF IInv, PhaseInv
<1>4. received # <<>> /\ Len(received[1]) \in Nat
  <2>1. PICK text \in Script : received = <<text>>
    BY <1>3 DEF OneInput
  <2>2. text \in Seq(Char \union {OpenBrace, CloseBrace, NL})
    BY InputAssumption
  <2> QED
    BY <2>1, <2>2
<1>5. /\ executed \in Seq(Parser!Bulk) /\ Len(q_) \in Nat /\ Len(stream) \in Nat
  BY <1>1, SameType DEF SessionInv, Parser!TypeOK
<1>6. /\ Len(q_') \in Nat /\ Len(stream') \in Nat
  <2>1. SessionInv'
    BY <1>1, SessionKeeps DEF Next
  <2> QED
    BY <2>1 DEF SessionInv, Processor!TypeOK
<1>7. OutputStep /\ SyncOK' /\ SyncInv' /\ UNCHANGED closed /\ BlocksAgree'
  <2>1. CASE executed' = executed
    <3>1. UNCHANGED <<syncVars, outVars, closed>>
      BY <2>1 DEF Process
    <3>2. OutputStep /\ UNCHANGED closed
      BY <3>1 DEF OutputStep
    <3>3. SyncOK' /\ BlocksAgree'
      BY <1>1, <2>1, <3>1 DEF ExecutorInv, SyncOK, syncVars, outVars, Numbered, IInv,
         BlocksAgree
    <3>4. SyncInv /\ AtIdle
      BY <1>1 DEF ExecutorInv, SyncInv
    <3>5. AtIdle'
      BY <1>1, <3>1, <3>4 DEF AtIdle, syncVars, outVars, argVars, Threaded, thread_count,
         Done, Output!AllPrinted, Output!IsPrinted, Output!IsWritten
    <3>6. SyncInv'
      BY <1>1, <3>1, <3>4, <3>5 DEF SyncInv, syncVars, argVars, Threaded, thread_count
    <3> QED
      BY <3>2, <3>3, <3>6
  <2>2. CASE executed' # executed
    <3>1. PICK e \in Parser!Bulk : executed' = Append(executed, e) /\ Len(e.cmds) = Len(q_) + 1
      BY <1>2, <2>2
    <3> DEFINE n == Len(e.cmds)
    <3>2. n \in Nat \ {0}
      BY <1>5, <3>1
    <3>3. /\ Len(executed') = Len(executed) + 1 /\ executed'[Len(executed')] = e
          /\ Len(executed) \in Nat
          /\ \A b \in 1..Len(executed) : executed'[b] = executed[b]
      <4> DEFINE x == executed'
      <4>1. x = Append(executed, e)
        BY <3>1
      <4> HIDE DEF x
      <4>2. /\ Len(x) = Len(executed) + 1 /\ x[Len(x)] = e /\ Len(executed) \in Nat
            /\ \A b \in 1..Len(executed) : x[b] = executed[b]
        BY <1>5, <4>1
      <4> QED
        BY <4>2 DEF x
    <3>4. Execute(n)
      BY <2>2, <3>3 DEF Process
    <3> HIDE DEF n
    <3>5. Executes(n) /\ OutputStep /\ SyncOK' /\ SyncInv' /\ UNCHANGED closed
      BY <1>1, <3>2, <3>4, ExecuteOK
    <3>6. /\ Len(bulks') = Len(bulks) + 1 /\ bulks'[Len(bulks) + 1].size = n
          /\ \A b \in 1..Len(bulks) : bulks'[b] = bulks[b]
      <4>1. /\ Len(bulks') = Len(bulks) + 1
            /\ bulks'[Len(bulks) + 1] = [session |-> Main, size |-> n]
            /\ \A b \in 1..Len(bulks) : bulks'[b] = bulks[b]
        BY <1>1, <3>2, <3>5, ExecuteKeepsBlocks DEF ExecutorInv, OutputInv
      <4> QED
        BY <4>1
    <3>7. BlocksAgree'
      <4>1. Len(bulks) = Len(executed) /\ \A b \in 1..Len(bulks) :
              bulks[b].size = Len(executed[b].cmds)
        BY DEF IInv, BlocksAgree
      <4>2. \A b \in 1..(Len(bulks) + 1) : b \in 1..Len(bulks) \/ b = Len(bulks) + 1
        BY <3>3, <4>1
      <4>3. ASSUME NEW b \in 1..(Len(bulks) + 1)
            PROVE  bulks'[b].size = Len(executed'[b].cmds)
        BY <3>3, <3>6, <4>1, <4>2 DEF n
      <4> QED
        BY <3>3, <3>6, <4>1, <4>3 DEF BlocksAgree
    <3> QED
      BY <3>5, <3>7
  <2> QED
    BY <2>1, <2>2
<1>8. OptionsOK'
  BY <1>1, <1>7 DEF OptionsOK, argVars, thread_count
<1>9. PhaseInv'
  BY <1>1, <1>2, <1>3, <1>4, <1>7 DEF PhaseInv, OneInput
<1>10. FitsInput'
  BY <1>2, <1>4, <1>5, <1>6 DEF IInv, FitsInput
<1>11. EndInv'
  BY <1>1 DEF EndInv
<1> QED
  BY <1>7, <1>8, <1>9, <1>10, <1>11 DEF StepOK

(* A step of the synchronous executor.                                     *)
LEMMA RunBlockOK ==
  ASSUME TypeOK, IInv, RunBlock
  PROVE  StepOK
<1>1. /\ ExecutorInv /\ SessionInv /\ OptionsOK
      /\ UNCHANGED <<argVars, phase, inputVars, closed, bulks>>
  BY PartsOfInv DEF RunBlock, Sync!Step, Sync!CopyToLog, Sync!PrintCommand, Sync!EndPrint,
     Sync!Pack, Sync!Open, Sync!Write, Sync!Return
<1>2. OutputStep /\ SyncOK' /\ SyncInv'
  BY <1>1, SyncSteps DEF SyncStepOK
<1>3. phase = "running"
  <2>1. exec_pc # "idle"
    BY DEF RunBlock, Sync!Step, Sync!CopyToLog, Sync!PrintCommand, Sync!EndPrint,
       Sync!Pack, Sync!Open, Sync!Write, Sync!Return
  <2> QED
    BY <1>1, <2>1 DEF ExecutorInv, SyncInv
<1>4. OptionsOK' /\ EndInv'
  BY <1>1, <1>3 DEF OptionsOK, argVars, thread_count, EndInv
<1>5. PhaseInv' /\ FitsInput' /\ BlocksAgree'
  BY <1>1, <1>3 DEF IInv, PhaseInv, FitsInput, BlocksAgree, inputVars, argVars
<1> QED
  BY <1>2, <1>4, <1>5 DEF StepOK

(* A step of the threads: there are none before the program runs.          *)
LEMMA RunThreadsOK ==
  ASSUME TypeOK, IInv, RunThreads
  PROVE  StepOK
<1>1. /\ Threaded /\ ExecutorInv /\ SessionInv /\ OptionsOK /\ SyncInv /\ exec_pc = "idle"
      /\ UNCHANGED <<argVars, phase, inputVars, syncVars, bulks, closed>>
  BY PartsOfInv DEF RunThreads, ExecutorInv, SyncInv, Output!PrintNext, Output!Write,
     Output!FailToOpen
<1>2. OutputStep
  BY DEF RunThreads, OutputStep, Writes
<1>3. phase # "arguments"
  <2> SUFFICES ASSUME phase = "arguments" PROVE FALSE
    OBVIOUS
  <2>1. bulks = <<>>
    BY DEF IInv, PhaseInv, Sync!Init
  <2> QED
    BY <2>1 DEF RunThreads, Output!PrintNext, Output!BlocksOf
<1>4. SyncOK'
  BY <1>1 DEF ExecutorInv, SyncOK, syncVars, Numbered
<1>5. SyncInv'
  <2>1. AtIdle'
    BY <1>1 DEF SyncInv, AtIdle, syncVars, argVars, Threaded, thread_count
  <2> QED
    BY <1>1, <2>1 DEF SyncInv, syncVars, argVars, Threaded, thread_count
<1>6. OptionsOK'
  BY <1>1 DEF OptionsOK, argVars, thread_count
<1>7. PhaseInv' /\ FitsInput' /\ BlocksAgree'
  BY <1>1, <1>3 DEF IInv, PhaseInv, FitsInput, BlocksAgree, inputVars, argVars
<1>8. EndInv'
  <2>1. phase = "ended" => \A b \in 1..Len(bulks) : Done(b)
    BY DEF IInv, EndInv
  <2>2. \A b \in 1..Len(bulks) : Done(b) => Done(b)'
    BY <1>1, <1>2, OutputStepKeeps DEF ExecutorInv
  <2> QED
    BY <1>1, <2>1, <2>2 DEF EndInv, syncVars
<1> QED
  BY <1>2, <1>4, <1>5, <1>6, <1>7, <1>8 DEF StepOK

(* The program ends when all blocks are done with.                         *)
LEMMA FinishOK ==
  ASSUME TypeOK, IInv, Finish
  PROVE  StepOK
<1>1. /\ phase = "running" /\ phase' = "ended" /\ pc = "closed"
      /\ ExecutorInv /\ SyncInv /\ OptionsOK
      /\ UNCHANGED <<argVars, inputVars, syncVars, outVars>>
      /\ closed' \subseteq {Main}
  BY PartsOfInv DEF Finish, ExecutorInv, OptionsOK, Output!Close, outVars
<1>2. exec_pc = "idle" /\ \A b \in 1..Len(bulks) : Done(b)
  <2>1. CASE Threaded /\ Output!Close(Main)
    <3>1. \A b \in 1..Len(bulks) : Done(b)
      BY <1>1, <2>1, AllAreOfMain DEF Output!Close, Done, ExecutorInv, OutputInv
    <3> QED
      BY <1>1, <2>1, <3>1 DEF SyncInv
  <2>2. CASE ~Threaded /\ exec_pc = "idle"
    BY <1>1, <2>2 DEF SyncInv, AtIdle
  <2> QED
    BY <2>1, <2>2 DEF Finish
<1>3. OutputStep
  BY <1>1 DEF OutputStep
<1>4. \A b \in 1..Len(bulks) : Done(b)'
  BY <1>1, <1>2, <1>3, OutputStepKeeps DEF ExecutorInv
<1>5. SyncOK' /\ FitsInput' /\ BlocksAgree'
  BY <1>1 DEF ExecutorInv, SyncOK, syncVars, outVars, inputVars, Numbered, IInv, FitsInput,
     BlocksAgree
<1>6. SyncInv'
  <2>1. AtIdle'
    BY <1>1, <1>2, <1>4 DEF SyncInv, AtIdle, syncVars, outVars
  <2> QED
    BY <1>1, <1>2, <2>1 DEF SyncInv, syncVars, argVars, Threaded, thread_count
<1>7. OptionsOK'
  BY <1>1 DEF OptionsOK, argVars
<1>8. PhaseInv'
  BY <1>1 DEF IInv, PhaseInv, inputVars, OptionsOK, argVars
<1>9. EndInv'
  BY <1>1, <1>2, <1>4 DEF EndInv, syncVars, outVars
<1> QED
  BY <1>3, <1>5, <1>6, <1>7, <1>8, <1>9 DEF StepOK

(* Where nothing happens the executor's part stays as it is.               *)
LEMMA StutterKeeps ==
  ASSUME SyncInv, EndInv, UNCHANGED <<argVars, phase, syncVars, outVars>>
  PROVE  SyncInv' /\ EndInv'
<1>1. /\ Sync!Newest' = Sync!Newest /\ Sync!Commands' = Sync!Commands
      /\ \A n : LastCommands(n)' = LastCommands(n)
      /\ Threaded' = Threaded /\ Untouched' = Untouched
  BY DEF outVars, argVars, Sync!Newest, Sync!Commands, LastCommands, Threaded, thread_count,
     Untouched
<1>2. /\ \A b, i : Output!IsPrinted(b, i)' <=> Output!IsPrinted(b, i)
      /\ \A b : Done(b)' <=> Done(b)
  BY DEF outVars, Done, Output!AllPrinted, Output!IsPrinted, Output!IsWritten
<1>3. Older' <=> Older
  BY <1>2 DEF outVars, Older
<1>4. AtIdle' <=> AtIdle
  BY <1>1, <1>2 DEF outVars, syncVars, AtIdle
<1>5. (AtLog' <=> AtLog) /\ (AtPack' <=> AtPack) /\ (AtOpen' <=> AtOpen)
  BY <1>1 DEF outVars, syncVars, AtLog, AtPack, AtOpen, Output!AllPrinted,
     Output!IsPrinted
<1>6. AtPrint' <=> AtPrint
  BY <1>1 DEF outVars, syncVars, AtPrint, LastCommands, Output!IsPrinted
<1>7. AtWrite' <=> AtWrite
  BY <1>1 DEF outVars, syncVars, AtWrite, LastCommands, Output!AllPrinted, Output!IsPrinted
<1> QED
  BY <1>1, <1>2, <1>3, <1>4, <1>5, <1>6, <1>7 DEF SyncInv, EndInv, syncVars, outVars

(* Every step keeps the types and the invariant.                           *)
LEMMA ProgramKeeps ==
  ASSUME TypeOK, IInv, [Next]_vars
  PROVE  TypeOK' /\ IInv' /\ OutputStep
<1>1. StepOK
  <2>1. CASE UNCHANGED vars
    <3>1. /\ ExecutorInv /\ OptionsOK /\ SyncInv
          /\ UNCHANGED <<argVars, phase, inputVars, syncVars, outVars, closed>>
      BY <2>1, PartsOfInv DEF vars, ExecutorInv
    <3>2. OutputStep
      BY <3>1 DEF OutputStep
    <3>3. SyncOK' /\ FitsInput' /\ BlocksAgree' /\ OptionsOK'
      BY <3>1 DEF ExecutorInv, SyncOK, syncVars, outVars, inputVars, Numbered, IInv,
         FitsInput, BlocksAgree, OptionsOK, argVars, thread_count
    <3>4. SyncInv' /\ EndInv'
      BY <3>1, StutterKeeps DEF IInv
    <3>5. PhaseInv'
      BY <3>1 DEF IInv, PhaseInv, Processor!Init, Sync!Init, inputVars, argVars, syncVars,
         outVars, cmd_chunk_sz
    <3> QED
      BY <3>2, <3>3, <3>4, <3>5 DEF StepOK
  <2>2. CASE Next
    BY <2>2, RefuseOK, StartOK, ProcessOK, RunBlockOK, RunThreadsOK, FinishOK DEF Next
  <2> QED
    BY <2>1, <2>2
<1>2. ExecutorInv'
  BY <1>1, OutputStepKeeps, PartsOfInv DEF StepOK, ExecutorInv
<1>3. SessionInv'
  BY SessionKeeps, PartsOfInv
<1>4. TypeOK' /\ IInv'
  <2>1. (ExecutorInv /\ SessionInv /\ OptionsOK /\ PhaseInv /\ FitsInput /\ BlocksAgree
           /\ EndInv => TypeOK /\ IInv)'
    BY PartsMakeInv, PTL
  <2> QED
    BY <1>1, <1>2, <1>3, <2>1 DEF StepOK
<1> QED
  BY <1>1, <1>4 DEF StepOK

-----------------------------------------------------------------------------
(* The console and the files of blocks that are done with. *)

(* The commands of block b follow place k of the console.                  *)
ShownAfter(b, k) == /\ k + bulks[b].size <= Len(console)
                    /\ \A i \in 1..bulks[b].size : console[k + i] = [bulk |-> b, cmd |-> i]

(* What is on the console: commands of blocks, none of them twice.         *)
LEMMA ConsoleIs ==
  ASSUME OutputInv
  PROVE  /\ Len(console) \in Nat
         /\ \A j \in 1..Len(console) :
              /\ console[j] = [bulk |-> console[j].bulk, cmd |-> console[j].cmd]
              /\ console[j].bulk \in 1..Len(bulks) /\ console[j].cmd \in Nat
              /\ console[j].cmd \in 1..bulks[console[j].bulk].size
         /\ \A j, k \in 1..Len(console) : j < k => Before(console[j], console[k])
         /\ \A j, k \in 1..Len(console) : console[j] = console[k] => j = k
<1>1. bulks \in Seq(BlockType) /\ console \in Seq(Ids)
  BY DEF OutputInv, BlocksOK, ConsoleInv
<1>2. ASSUME NEW j \in 1..Len(console)
      PROVE  /\ console[j] = [bulk |-> console[j].bulk, cmd |-> console[j].cmd]
             /\ console[j].bulk \in 1..Len(bulks) /\ console[j].cmd \in Nat
             /\ console[j].cmd \in 1..bulks[console[j].bulk].size
  <2>1. console[j] \in Ids
    BY <1>1
  <2> QED
    BY <1>1, <2>1, IdsAre DEF Ids
<1>3. \A j, k \in 1..Len(console) : j < k => Before(console[j], console[k])
  BY DEF OutputInv, ConsoleInv
<1>4. Len(console) \in Nat
  BY <1>1
<1>5. ASSUME NEW j \in 1..Len(console), NEW k \in 1..Len(console), j < k
      PROVE  console[j] # console[k]
  <2>1. Before(console[j], console[k])
    BY <1>3, <1>5
  <2> DEFINE x == console[j]
             y == console[k]
  <2>2. x.bulk < y.bulk \/ (x.bulk = y.bulk /\ x.cmd < y.cmd)
    BY <2>1 DEF Before
  <2>3. x.bulk \in Nat /\ x.cmd \in Nat
    <3>1. x.bulk \in 1..Len(bulks) /\ x.cmd \in Nat
      BY <1>2
    <3> HIDE DEF x
    <3> QED
      BY <1>1, <3>1
  <2> HIDE DEF x, y
  <2>4. x # y
    BY <2>2, <2>3
  <2> QED
    BY <2>4 DEF x, y
<1>6. \A j, k \in 1..Len(console) : console[j] = console[k] => j = k
  <2> SUFFICES ASSUME NEW j \in 1..Len(console), NEW k \in 1..Len(console),
                      console[j] = console[k], j # k
               PROVE  FALSE
    OBVIOUS
  <2>1. j < k \/ k < j
    BY <1>4
  <2> QED
    BY <1>5, <2>1
<1> QED
  BY <1>2, <1>3, <1>4, <1>6

(* A block that is printed is on the console in one piece.                 *)
LEMMA PrintedIsShown ==
  ASSUME OutputInv, NEW b \in 1..Len(bulks), Output!AllPrinted(b)
  PROVE  \E k \in Nat : ShownAfter(b, k)
<1> DEFINE m == bulks[b].size
<1>1. m \in Nat /\ m > 0 /\ b \in Nat /\ Len(bulks) \in Nat
  BY BlocksAre DEF OutputInv, BlocksOK
<1>2. PICK p \in 1..Len(console) : console[p] = [bulk |-> b, cmd |-> m]
  BY DEF Output!AllPrinted, Output!IsPrinted
<1>3. m \in 1..m
  BY <1>1
<1>4. PICK q \in 1..Len(console) : console[q] = [bulk |-> b, cmd |-> 1]
  BY <1>2, <1>3, FirstIsPrinted DEF Output!AllPrinted, Output!IsPrinted
<1> DEFINE k == q - 1
           S == {i \in Nat : i < m => /\ k + i + 1 <= Len(console)
                                      /\ console[k + i + 1] = [bulk |-> b, cmd |-> i + 1]}
<1>5. k \in Nat /\ Len(console) \in Nat
  BY ConsoleIs
<1>6. 0 \in S
  BY <1>4, <1>5
<1>7. ASSUME NEW i \in 0..(m - 1), i \in S
      PROVE  i + 1 \in S
  <2> SUFFICES ASSUME i + 1 < m
               PROVE  /\ k + (i + 1) + 1 <= Len(console)
                      /\ console[k + (i + 1) + 1] = [bulk |-> b, cmd |-> (i + 1) + 1]
    BY <1>1
  <2> DEFINE j == k + i + 1
  <2>1. j \in 1..Len(console) /\ console[j] = [bulk |-> b, cmd |-> i + 1] /\ i \in Nat
    BY <1>1, <1>5, <1>7
  <2>2. p > j
    <3>1. p # j
      BY <1>1, <1>2, <2>1
    <3>2. ~Before(console[p], console[j])
      BY <1>1, <1>2, <2>1 DEF Before
    <3>3. ~(p < j)
      BY <1>2, <2>1, <3>2, ConsoleIs
    <3> HIDE DEF j, k
    <3> QED
      BY <1>5, <2>1, <3>1, <3>3
  <2>3. j \in 1..(Len(console) - 1)
    BY <1>5, <2>1, <2>2
  <2>4. Follows(console[j + 1], console[j]) /\ j + 1 \in 1..Len(console)
    BY <1>5, <2>3 DEF OutputInv, ConsoleInv
  <2>5. console[j + 1].bulk = b /\ console[j + 1].cmd = (i + 1) + 1
    BY <1>1, <2>1, <2>4 DEF Follows
  <2>6. console[j + 1] = [bulk |-> b, cmd |-> (i + 1) + 1]
    BY <2>4, <2>5, ConsoleIs
  <2>7. j + 1 = k + (i + 1) + 1
    BY <1>5, <2>1
  <2> QED
    BY <1>5, <2>4, <2>6, <2>7
<1>8. 0..m \subseteq S
  <2> HIDE DEF S, m
  <2> QED
    BY <1>1, <1>6, <1>7, UpToInduction
<1>9. ASSUME NEW i \in 1..m
      PROVE  k + i <= Len(console) /\ console[k + i] = [bulk |-> b, cmd |-> i]
  <2>1. i - 1 \in S /\ i - 1 < m
    <3>1. i - 1 \in 0..m /\ i - 1 < m
      BY <1>1
    <3> HIDE DEF S
    <3> QED
      BY <1>8, <3>1
  <2>2. k + (i - 1) + 1 = k + i /\ (i - 1) + 1 = i
    BY <1>1, <1>5
  <2> HIDE DEF k
  <2> QED
    BY <2>1, <2>2
<1>10. ShownAfter(b, k)
  BY <1>3, <1>9 DEF ShownAfter
<1> QED
  BY <1>5, <1>10

(* A block starts at the beginning, or where the one before it ends.       *)
LEMMA ShownInOrder ==
  ASSUME OutputInv, NEW b \in 1..Len(bulks), NEW k \in Nat, ShownAfter(b, k)
  PROVE  /\ b = 1 => k = 0
         /\ \A j \in Nat : b > 1 /\ ShownAfter(b - 1, j) => k = j + bulks[b - 1].size
         /\ b = Len(bulks) => k + bulks[b].size = Len(console)
<1> DEFINE m == bulks[b].size
<1>1. m \in Nat /\ m > 0 /\ b \in Nat /\ Len(bulks) \in Nat /\ Len(console) \in Nat
  BY BlocksAre, ConsoleIs DEF OutputInv, BlocksOK
<1>2. k + 1 \in 1..Len(console) /\ console[k + 1] = [bulk |-> b, cmd |-> 1]
  BY <1>1 DEF ShownAfter
<1>3. k + m \in 1..Len(console) /\ console[k + m] = [bulk |-> b, cmd |-> m]
  BY <1>1 DEF ShownAfter
<1>4. ASSUME b = 1
      PROVE  k = 0
  <2>1. console # <<>> /\ 1 \in 1..Len(console)
    BY <1>2
  <2>2. console[1] = [bulk |-> 1, cmd |-> 1]
    BY <2>1 DEF OutputInv, ConsoleInv
  <2>3. k + 1 = 1
    BY <1>2, <1>4, <2>1, <2>2, ConsoleIs
  <2> QED
    BY <2>3
<1>5. ASSUME NEW j \in Nat, b > 1, ShownAfter(b - 1, j)
      PROVE  k = j + bulks[b - 1].size
  <2> DEFINE n == bulks[b - 1].size
             t == j + n
  <2>1. b - 1 \in 1..Len(bulks) /\ n \in Nat /\ n > 0
    <3>1. b - 1 \in 1..Len(bulks)
      BY <1>1, <1>5
    <3> QED
      BY <3>1, BlocksAre DEF OutputInv, BlocksOK
  <2>2. t \in 1..Len(console) /\ console[t] = [bulk |-> b - 1, cmd |-> n]
    BY <1>1, <1>5, <2>1 DEF ShownAfter
  <2>3. k + 1 > t
    <3>1. console[k + 1] # console[t] /\ ~Before(console[k + 1], console[t])
      BY <1>1, <1>2, <2>1, <2>2 DEF Before
    <3>2. k + 1 # t /\ ~(k + 1 < t)
      BY <1>2, <2>2, <3>1, ConsoleIs
    <3>3. t \in Nat
      BY <2>1
    <3> HIDE DEF t
    <3> QED
      BY <3>2, <3>3
  <2>4. t \in 1..(Len(console) - 1) /\ t + 1 \in 1..Len(console)
    <3>1. t \in Nat
      BY <2>1
    <3> HIDE DEF t
    <3> QED
      BY <1>1, <1>2, <2>2, <2>3, <3>1
  <2>5. Follows(console[t + 1], console[t])
    BY <2>4 DEF OutputInv, ConsoleInv
  <2>6. console[t + 1].bulk = b /\ console[t + 1].cmd = 1
    BY <1>1, <2>1, <2>2, <2>5 DEF Follows
  <2>7. console[t + 1] = console[k + 1]
    BY <1>2, <2>4, <2>6, ConsoleIs
  <2>8. t + 1 = k + 1
    BY <1>2, <2>4, <2>7, ConsoleIs
  <2> QED
    BY <2>2, <2>8
<1>6. ASSUME b = Len(bulks)
      PROVE  k + m = Len(console)
  <2> DEFINE t == k + m
  <2> SUFFICES ASSUME t # Len(console) PROVE FALSE
    OBVIOUS
  <2>1. t \in 1..(Len(console) - 1) /\ t + 1 \in 1..Len(console)
    BY <1>1, <1>3
  <2>2. Follows(console[t + 1], console[t])
    BY <2>1 DEF OutputInv, ConsoleInv
  <2>3. console[t + 1].bulk = b + 1
    BY <1>1, <1>3, <2>2 DEF Follows
  <2>4. console[t + 1].bulk \in 1..Len(bulks)
    BY <2>1, ConsoleIs
  <2> QED
    BY <1>1, <1>6, <2>3, <2>4
<1> QED
  BY <1>4, <1>5, <1>6

(* The file of a block that is written holds what the console shows of it. *)
LEMMA DoneIsMirrored ==
  ASSUME OutputInv, NEW b \in 1..Len(bulks), Done(b)
  PROVE  \E k, n \in 0..Len(console) :
           /\ Shows(b, k, n)
           /\ file[b] = IF b \in unopened THEN <<>> ELSE SubSeq(console, k + 1, k + n)
<1> DEFINE n == bulks[b].size
<1>1. PICK k \in Nat : ShownAfter(b, k)
  BY PrintedIsShown DEF Done
<1>2. n \in Nat /\ n > 0 /\ k + n <= Len(console) /\ Len(console) \in Nat
  BY <1>1, BlocksAre, ConsoleIs DEF OutputInv, BlocksOK, ShownAfter
<1>3. k \in 0..Len(console) /\ n \in 0..Len(console)
  BY <1>2
<1>4. Shows(b, k, n)
  <2>1. ASSUME NEW j \in 1..Len(console), console[j].bulk = b
        PROVE  j \in (k + 1)..(k + n)
    <3>1. console[j].cmd \in 1..n /\ console[j] = [bulk |-> b, cmd |-> console[j].cmd]
      BY <2>1, ConsoleIs
    <3>2. PICK i \in 1..n : console[j] = [bulk |-> b, cmd |-> i]
      BY <3>1
    <3>3. console[k + i] = console[j] /\ k + i \in 1..Len(console)
      BY <1>1, <1>2, <3>2 DEF ShownAfter
    <3>4. j = k + i
      BY <3>3, ConsoleIs
    <3> QED
      BY <1>2, <3>4
  <2>2. ASSUME NEW j \in 1..Len(console), j \in (k + 1)..(k + n)
        PROVE  console[j].bulk = b
    <3>1. j - k \in 1..n /\ k + (j - k) = j
      BY <1>2, <2>2
    <3>2. console[k + (j - k)] = [bulk |-> b, cmd |-> j - k]
      BY <1>1, <3>1 DEF ShownAfter
    <3> QED
      BY <3>1, <3>2
  <2> QED
    BY <2>1, <2>2 DEF Shows
<1>5. b \in unopened => file[b] = <<>>
  BY DEF OutputInv, FilesOK, FileInv
<1>6. b \notin unopened => file[b] = SubSeq(console, k + 1, k + n)
  <2> SUFFICES ASSUME b \notin unopened PROVE file[b] = SubSeq(console, k + 1, k + n)
    OBVIOUS
  <2>1. file[b] = FirstCommands(b, n)
    <3>1. Len(file[b]) = n
      BY DEF Done, Output!IsWritten
    <3>2. file[b] = FirstCommands(b, Len(file[b]))
      BY FilesAre DEF OutputInv
    <3> QED
      BY <3>1, <3>2
  <2>2. SubSeq(console, k + 1, k + n) = [i \in 1..n |-> console[k + i]]
    <3> DEFINE T == Ids
    <3>1. console \in Seq(T)
      BY DEF OutputInv, ConsoleInv
    <3> HIDE DEF T, n
    <3> QED
      BY <1>2, <3>1
  <2>3. [i \in 1..n |-> console[k + i]] = FirstCommands(b, n)
    BY <1>1 DEF ShownAfter, FirstCommands
  <2> QED
    BY <2>1, <2>2, <2>3
<1> HIDE DEF n
<1> QED
  BY <1>3, <1>4, <1>5, <1>6

(* What the end of the program shows of the files.                         *)
LEMMA EndMirrors == ASSUME TypeOK, IInv PROVE FilesMirrorConsole
<1> SUFFICES ASSUME phase = "ended" PROVE
      /\ Len(file) = Len(executed)
      /\ \A b \in 1..Len(file) : \E k, n \in 0..Len(console) :
           /\ Shows(b, k, n)
           /\ file[b] = IF b \in unopened THEN <<>> ELSE SubSeq(console, k + 1, k + n)
  BY DEF FilesMirrorConsole
<1>1. OutputInv /\ \A b \in 1..Len(bulks) : Done(b)
  BY PartsOfInv DEF ExecutorInv, IInv, EndInv
<1>2. Len(file) = Len(bulks) /\ Len(bulks) = Len(executed)
  BY DEF TypeOK, IInv, BlocksAgree
<1> QED
  BY <1>1, <1>2, DoneIsMirrored

-----------------------------------------------------------------------------
(* What the console shows at the end of the program. *)

(* A part of a sequence that goes on with another one.                     *)
LEMMA Joined ==
  ASSUME NEW S, NEW s \in Seq(S), NEW p \in Seq(S), NEW t \in Nat,
         t + Len(p) <= Len(s), \A i \in 1..Len(p) : s[t + i] = p[i]
  PROVE  SubSeq(s, 1, t) \o p = SubSeq(s, 1, t + Len(p))
<1>1. /\ Len(s) \in Nat /\ Len(p) \in Nat /\ t + Len(p) \in Nat
      /\ SubSeq(s, 1, t) \in Seq(S) /\ Len(SubSeq(s, 1, t)) = t
      /\ SubSeq(s, 1, t + Len(p)) \in Seq(S) /\ Len(SubSeq(s, 1, t + Len(p))) = t + Len(p)
  OBVIOUS
<1>2. /\ SubSeq(s, 1, t) \o p \in Seq(S) /\ Len(SubSeq(s, 1, t) \o p) = t + Len(p)
  BY <1>1
<1>3. ASSUME NEW i \in 1..(t + Len(p))
      PROVE  (SubSeq(s, 1, t) \o p)[i] = SubSeq(s, 1, t + Len(p))[i]
  <2>1. SubSeq(s, 1, t + Len(p))[i] = s[i]
    BY <1>1
  <2>2. CASE i <= t
    BY <1>1, <2>1, <2>2
  <2>3. CASE i > t
    <3>1. i - t \in 1..Len(p) /\ t + (i - t) = i
      BY <1>1, <2>3
    <3>2. (SubSeq(s, 1, t) \o p)[i] = p[i - t]
      BY <1>1, <2>3
    <3> QED
      BY <2>1, <3>1, <3>2
  <2> QED
    BY <1>1, <2>2, <2>3
<1> QED
  BY <1>1, <1>2, <1>3

(* FlattenSeq, by a function that has the value it has for each part.      *)
LEMMA Flattened ==
  ASSUME NEW s, Len(s) \in Nat, Len(s) > 0, NEW g,
         g = [i \in 1..Len(s) |-> IF i = 1 THEN s[i] ELSE g[i - 1] \o s[i]]
  PROVE  FlattenSeq(s) = g[Len(s)]
<1> DEFINE Fn(h) == h = [i \in 1..Len(s) |-> IF i = 1 THEN s[i] ELSE h[i - 1] \o s[i]]
           f == CHOOSE h : Fn(h)
           m == Len(s)
           S == {i \in Nat : i + 1 <= m => f[i + 1] = g[i + 1]}
<1>1. Fn(f)
  <2>1. Fn(g)
    OBVIOUS
  <2> HIDE DEF Fn
  <2> QED
    BY <2>1
<1>2. FlattenSeq(s) = f[m]
  BY DEF FlattenSeq
<1> HIDE DEF f, m
<1>0. m \in Nat /\ m > 0 /\ g = [i \in 1..m |-> IF i = 1 THEN s[i] ELSE g[i - 1] \o s[i]]
      /\ f = [i \in 1..m |-> IF i = 1 THEN s[i] ELSE f[i - 1] \o s[i]]
  BY <1>1 DEF m
<1>3. 0 \in S
  BY <1>0
<1>4. ASSUME NEW i \in 0..(m - 1), i \in S
      PROVE  i + 1 \in S
  <2> SUFFICES ASSUME (i + 1) + 1 <= m PROVE f[(i + 1) + 1] = g[(i + 1) + 1]
    BY <1>0
  <2>1. f[i + 1] = g[i + 1]
    BY <1>0, <1>4
  <2>2. (i + 1) + 1 \in 1..m /\ (i + 1) + 1 # 1 /\ ((i + 1) + 1) - 1 = i + 1
    BY <1>0
  <2> DEFINE j == (i + 1) + 1
  <2> HIDE DEF j
  <2>3. j \in 1..m /\ j # 1 /\ j - 1 = i + 1
    BY <2>2 DEF j
  <2>4. f[j] = f[j - 1] \o s[j] /\ g[j] = g[j - 1] \o s[j]
    BY <1>0, <2>3
  <2> QED
    BY <2>1, <2>3, <2>4 DEF j
<1>5. 0..m \subseteq S
  <2> HIDE DEF S
  <2> QED
    BY <1>0, <1>3, <1>4, UpToInduction
<1>6. f[m] = g[m]
  <2>1. m - 1 \in 0..m /\ (m - 1) + 1 = m
    BY <1>0
  <2>2. m - 1 \in S
    <3> HIDE DEF S
    <3> QED
      BY <1>5, <2>1
  <2>3. f[(m - 1) + 1] = g[(m - 1) + 1]
    BY <1>0, <2>1, <2>2
  <2> QED
    BY <2>1, <2>3
<1> QED
  BY <1>2, <1>6 DEF m

(* When all blocks are printed the console is what their lines, one after  *)
(* the other, are.                                                         *)
LEMMA AllAreShown ==
  ASSUME OutputInv, \A b \in 1..Len(bulks) : Output!AllPrinted(b),
         NEW S, NEW lines \in Seq(Seq(S)), Len(lines) = Len(bulks),
         \A b \in 1..Len(bulks) :
           /\ Len(lines[b]) = bulks[b].size
           /\ \A i \in 1..bulks[b].size : Entry([bulk |-> b, cmd |-> i]) = lines[b][i]
  PROVE  Entries(console) = FlattenSeq(lines)
<1> DEFINE E == Entries(console)
           m == Len(bulks)
           k == [b \in 1..m |-> CHOOSE j \in Nat : ShownAfter(b, j)]
           t == [b \in 1..m |-> k[b] + bulks[b].size]
           g == [b \in 1..m |-> SubSeq(E, 1, t[b])]
<1>1. m \in Nat /\ Len(console) \in Nat /\ \A b \in 1..m : bulks[b].size \in Nat
  <2>1. bulks \in Seq(BlockType)
    BY DEF OutputInv, BlocksOK
  <2>2. \A b \in 1..Len(bulks) : bulks[b].size \in Nat
    BY <2>1, BlocksAre
  <2> QED
    BY <2>1, <2>2, ConsoleIs
<1>2. \A b \in 1..m : k[b] \in Nat /\ ShownAfter(b, k[b])
  BY PrintedIsShown
<1>3. \A b \in 1..m : t[b] \in Nat /\ t[b] = k[b] + bulks[b].size /\ t[b] <= Len(console)
  <2> HIDE DEF k
  <2> QED
    BY <1>1, <1>2 DEF ShownAfter
<1>4. /\ \A b \in 1..m : b = 1 => k[b] = 0
      /\ \A b \in 1..m : b > 1 => k[b] = t[b - 1]
      /\ m > 0 => t[m] = Len(console)
  <2>1. ASSUME NEW b \in 1..m
        PROVE  /\ b = 1 => k[b] = 0
               /\ b = m => t[b] = Len(console)
    <3> HIDE DEF k, t
    <3> QED
      BY <1>2, <1>3, ShownInOrder
  <2>2. ASSUME NEW b \in 1..m, b > 1
        PROVE  k[b] = t[b - 1]
    <3>1. b - 1 \in 1..m
      BY <1>1, <2>2
    <3> HIDE DEF k, t
    <3>2. k[b - 1] \in Nat /\ ShownAfter(b - 1, k[b - 1])
      BY <1>2, <3>1
    <3>3. k[b] = k[b - 1] + bulks[b - 1].size
      BY <1>2, <2>2, <3>2, ShownInOrder
    <3> QED
      BY <1>3, <3>1, <3>3
  <2>3. m > 0 => m \in 1..m
    BY <1>1
  <2> HIDE DEF k, t, m
  <2> QED
    BY <2>1, <2>2, <2>3
<1>5. \A b \in 1..m : \A i \in 1..bulks[b].size : k[b] + i \in 1..Len(console)
                                                 /\ E[k[b] + i] = lines[b][i]
  <2> SUFFICES ASSUME NEW b \in 1..m, NEW i \in 1..bulks[b].size
               PROVE  k[b] + i \in 1..Len(console) /\ E[k[b] + i] = lines[b][i]
    OBVIOUS
  <2> HIDE DEF k, t
  <2>1. k[b] + i \in 1..Len(console) /\ console[k[b] + i] = [bulk |-> b, cmd |-> i]
    BY <1>1, <1>2 DEF ShownAfter
  <2> QED
    BY <2>1 DEF Entries
<1> HIDE DEF k
<1>6. CASE m = 0
  <2>1. console = <<>>
    <3>1. \A j \in 1..Len(console) : FALSE
      BY <1>6, ConsoleIs
    <3>2. console \in Seq(Ids) /\ Len(console) = 0
      BY <1>1, <3>1 DEF OutputInv, ConsoleInv
    <3> QED
      BY <3>2
  <2>2. lines = <<>>
    BY <1>6
  <2> QED
    BY <2>1, <2>2 DEF Entries, FlattenSeq
<1>7. CASE m > 0
  <2> DEFINE R == S \union {E[j] : j \in 1..Len(console)}
  <2>1. E \in Seq(R) /\ Len(E) = Len(console)
    BY <1>1 DEF Entries
  <2>2. \A b \in 1..m : lines[b] \in Seq(R)
    <3>1. \A b \in 1..m : lines[b] \in Seq(S)
      BY <1>1
    <3>2. S \subseteq R
      OBVIOUS
    <3> HIDE DEF R
    <3> QED
      BY <3>1, <3>2, SeqGrows
  <2> HIDE DEF R, E
  <2>3. ASSUME NEW b \in 1..m
        PROVE  SubSeq(E, 1, k[b]) \o lines[b] = SubSeq(E, 1, t[b])
    <3> HIDE DEF t
    <3>1. /\ k[b] \in Nat /\ lines[b] \in Seq(R) /\ Len(lines[b]) = bulks[b].size
          /\ k[b] + Len(lines[b]) <= Len(E) /\ t[b] = k[b] + Len(lines[b])
      BY <1>2, <1>3, <2>1, <2>2
    <3>2. \A i \in 1..Len(lines[b]) : E[k[b] + i] = lines[b][i]
      BY <1>5, <3>1
    <3> DEFINE p == lines[b]
               q == k[b]
    <3>3. /\ q \in Nat /\ p \in Seq(R) /\ q + Len(p) <= Len(E)
          /\ \A i \in 1..Len(p) : E[q + i] = p[i]
      BY <3>1, <3>2
    <3> HIDE DEF p, q
    <3>4. SubSeq(E, 1, q) \o p = SubSeq(E, 1, q + Len(p))
      BY <2>1, <3>3, Joined
    <3> QED
      BY <3>1, <3>4 DEF p, q
  <2>4. ASSUME NEW b \in 1..m
        PROVE  g[b] = IF b = 1 THEN lines[b] ELSE g[b - 1] \o lines[b]
    <3>1. CASE b = 1
      <4>1. SubSeq(E, 1, 0) = <<>> /\ lines[b] \in Seq(R)
        BY <2>1, <2>2
      <4>2. <<>> \o lines[b] = lines[b]
        BY <4>1
      <4> QED
        BY <1>4, <2>3, <3>1, <4>1, <4>2
    <3>2. CASE b > 1
      <4>1. b - 1 \in 1..m
        BY <1>1, <3>2
      <4> HIDE DEF t
      <4>2. g[b] = SubSeq(E, 1, t[b]) /\ g[b - 1] = SubSeq(E, 1, t[b - 1])
        BY <4>1
      <4> HIDE DEF g
      <4>3. k[b] = t[b - 1]
        BY <1>4, <3>2
      <4>4. g[b] = g[b - 1] \o lines[b]
        BY <2>3, <4>2, <4>3
      <4>5. b # 1
        BY <1>1, <3>2
      <4> QED
        BY <4>4, <4>5, Zenon
    <3> HIDE DEF t, g
    <3> QED
      BY <1>1, <3>1, <3>2
  <2>5. g = [b \in 1..m |-> IF b = 1 THEN lines[b] ELSE g[b - 1] \o lines[b]]
    <3>1. g = [b \in 1..m |-> g[b]]
      OBVIOUS
    <3> HIDE DEF g
    <3> QED
      BY <2>4, <3>1
  <2>6. FlattenSeq(lines) = g[m]
    <3>1. g = [b \in 1..Len(lines) |-> IF b = 1 THEN lines[b] ELSE g[b - 1] \o lines[b]]
      BY <2>5
    <3>2. Len(lines) = m
      OBVIOUS
    <3> HIDE DEF g, m
    <3>3. FlattenSeq(lines) = g[Len(lines)]
      BY <1>1, <1>7, <3>1, <3>2, Flattened
    <3> QED
      BY <3>2, <3>3
  <2>7. g[m] = E
    <3>1. g[m] = SubSeq(E, 1, Len(E))
      BY <1>1, <1>4, <1>7, <2>1
    <3> HIDE DEF g
    <3> QED
      BY <2>1, <3>1
  <2> QED
    BY <2>6, <2>7 DEF E
<1> QED
  BY <1>1, <1>6, <1>7

(* At its end the program has printed what its whole input asks for.       *)
LEMMA EndPrints == ASSUME TypeOK, IInv PROVE PrintsTheInput
<1> SUFFICES ASSUME phase = "ended", received # <<>>, stray = 0
             PROVE  Entries(console)
                      = FlattenSeq(Lines(Processor!Meaning!AllBlocks(<<received[1]>>, chunk_arg)))
  BY DEF PrintsTheInput
<1>1. OutputInv /\ SessionInv /\ \A b \in 1..Len(bulks) : Output!AllPrinted(b)
  BY PartsOfInv DEF ExecutorInv, IInv, EndInv, Done
<1>2. /\ pc = "closed" /\ cmd_chunk_sz = chunk_arg /\ <<received[1]>> = received
  <2>1. pc = "closed" /\ chunk_arg \in Nat /\ received \in OneInput
    BY DEF IInv, PhaseInv
  <2>2. <<received[1]>> = received
    BY <2>1 DEF OneInput
  <2> QED
    BY <2>1, <2>2, ArgumentAssumption DEF cmd_chunk_sz
<1>3. Processor!Blocks = Processor!Meaning!AllBlocks(<<received[1]>>, chunk_arg)
  BY <1>2 DEF IInv, Processor!MatchedInv, Processor!MeaningInv
<1> DEFINE lines == Lines(Processor!Blocks)
           S == Seq(Char \union {OpenBrace, CloseBrace, NL})
<1>4. /\ Len(bulks) \in Nat /\ Len(bulks) = Len(executed)
      /\ \A b \in 1..Len(bulks) : bulks[b].size = Len(executed[b].cmds)
  BY DEF TypeOK, IInv, BlocksAgree
<1>5. Len(lines) = Len(bulks)
  BY <1>4 DEF Lines, Processor!Blocks
<1>6. ASSUME NEW b \in 1..Len(bulks)
      PROVE  /\ lines[b] \in Seq(S) /\ Len(lines[b]) = bulks[b].size
             /\ \A i \in 1..bulks[b].size : Entry([bulk |-> b, cmd |-> i]) = lines[b][i]
  <2> DEFINE cmds == executed[b].cmds
             n == Len(cmds) - 1
             texts == Processor!Texts(cmds, n)
  <2>1. /\ lines[b] = Append(texts, <<NL>>) /\ bulks[b].size = n + 1
        /\ n \in Nat /\ n >= 1
    <3>1. Len(cmds) \in Nat /\ Len(cmds) >= 2
      BY <1>1, <1>4, SizesAre
    <3>2. lines[b] = Append(texts, <<NL>>)
      BY <1>4 DEF Lines, Processor!Blocks
    <3> QED
      BY <1>4, <3>1, <3>2
  <2>2. cmds \in Seq(Processor!Command)
    <3>1. executed[b] \in Processor!Bulk
      BY <1>1, <1>4 DEF SessionInv, Processor!TypeOK
    <3> QED
      BY <3>1 DEF Processor!Bulk
  <2>3. \A i \in 1..(n + 1) : /\ cmds[i].type = "cmdLast" <=> i = n + 1
                              /\ cmds[i].cmd \in S
    <3>1. ASSUME NEW i \in 1..(n + 1)
          PROVE  cmds[i].cmd \in S
      <4>1. cmds[i] \in Processor!Command
        BY <2>2
      <4>2. cmds[i].cmd \in Seq(Processor!Symbol \ {NL})
        BY <4>1 DEF Processor!Command, Processor!Line
      <4> QED
        BY <4>2 DEF Processor!Symbol
    <3>2. ASSUME NEW i \in 1..(n + 1)
          PROVE  cmds[i].type = "cmdLast" <=> i = n + 1
      <4>1. /\ Len(cmds) = n + 1
            /\ cmds[i].type = IF i = Len(cmds) THEN "cmdLast"
                              ELSE IF i = 1 THEN "cmdFirst" ELSE "cmdSimple"
        BY <1>4, <2>1, <2>2 DEF IInv, Processor!IInv, Processor!BlocksAreWhole,
           Processor!IsWholeBlock
      <4> QED
        BY <4>1
    <3> QED
      BY <3>1, <3>2
  <2>4. <<NL>> \in S
    OBVIOUS
  <2> HIDE DEF S, lines
  <2>5. texts \in Seq(S) /\ Len(texts) = n /\ \A i \in 1..n : texts[i] = cmds[i].cmd
    BY <2>1, <2>3 DEF Processor!Texts
  <2> HIDE DEF texts
  <2>6. /\ lines[b] \in Seq(S) /\ Len(lines[b]) = n + 1 /\ lines[b][n + 1] = <<NL>>
        /\ \A i \in 1..n : lines[b][i] = texts[i]
    BY <2>1, <2>4, <2>5
  <2>7. ASSUME NEW i \in 1..(n + 1)
        PROVE  Entry([bulk |-> b, cmd |-> i]) = lines[b][i]
    <3>1. Entry([bulk |-> b, cmd |-> i]) = IF cmds[i].type = "cmdLast" THEN <<NL>> ELSE cmds[i].cmd
      BY DEF Entry
    <3>2. CASE i = n + 1
      BY <2>3, <2>6, <3>1, <3>2
    <3>3. CASE i \in 1..n
      BY <2>1, <2>3, <2>5, <2>6, <3>1, <3>3
    <3>4. i = n + 1 \/ i \in 1..n
      <4> HIDE DEF n
      <4> QED
        BY <2>1
    <3> QED
      BY <3>2, <3>3, <3>4
  <2> QED
    BY <2>1, <2>6, <2>7
<1>7. lines \in Seq(Seq(S))
  <2>1. lines = [b \in 1..Len(bulks) |-> lines[b]]
    BY <1>4 DEF Lines, Processor!Blocks
  <2> HIDE DEF lines, S
  <2> DEFINE R == Seq(S)
  <2>2. \A b \in 1..Len(bulks) : lines[b] \in R
    BY <1>6
  <2> HIDE DEF R
  <2>3. lines \in Seq(R)
    BY <1>4, <2>1, <2>2
  <2> QED
    BY <2>3 DEF R
<1>8. Entries(console) = FlattenSeq(lines)
  <2> HIDE DEF lines, S
  <2> QED
    BY <1>1, <1>5, <1>6, <1>7, AllAreShown
<1> QED
  BY <1>3, <1>8

-----------------------------------------------------------------------------
(* The promise of BlockOutput. *)

(* The blocks of the processor fit the promise.                            *)
LEMMA SizesFit ==
  ASSUME TypeOK, IInv, Process, executed' # executed
  PROVE  Len(executed'[Len(executed')].cmds) \in BlockSizes
<1>1. /\ SessionInv /\ Input!Step /\ received \in OneInput
  BY PartsOfInv DEF Process, IInv, PhaseInv
<1>2. PICK e \in Parser!Bulk : executed' = Append(executed, e) /\ Len(e.cmds) = Len(q_) + 1
  BY <1>1, ProcessSteps
<1>3. executed'[Len(executed')] = e /\ Len(executed') \in 1..Len(executed')
  <2>1. executed \in Seq(Parser!Bulk)
    BY <1>1, SameType DEF SessionInv, Parser!TypeOK
  <2> DEFINE x == executed'
  <2>2. x = Append(executed, e)
    BY <1>2
  <2> HIDE DEF x
  <2>3. x[Len(x)] = e /\ Len(x) \in 1..Len(x)
    BY <2>1, <2>2
  <2> QED
    BY <2>3 DEF x
<1>4. Len(e.cmds) \in Nat /\ Len(e.cmds) >= 2
  <2>1. SessionInv'
    BY <1>1, SessionKeeps DEF Next
  <2>2. (SessionInv => \A b \in 1..Len(executed) :
                         Len(executed[b].cmds) \in Nat /\ Len(executed[b].cmds) >= 2)'
    BY SizesAre, PTL
  <2> QED
    BY <1>3, <2>1, <2>2
<1>5. PICK text \in Script : received = <<text>>
  BY <1>1 DEF OneInput
<1>6. Len(text) \in Nat /\ Len(q_) \in Nat /\ Len(stream) \in Nat
  <2>1. text \in Seq(Char \union {OpenBrace, CloseBrace, NL})
    BY InputAssumption
  <2> QED
    BY <1>1, <2>1 DEF SessionInv, Processor!TypeOK
<1>7. Len(q_) + Len(stream) <= Len(text)
  BY <1>5 DEF IInv, FitsInput
<1>8. Len(e.cmds) \in 2..(Len(text) + 1)
  BY <1>2, <1>4, <1>6, <1>7
<1> QED
  BY <1>3, <1>8 DEF BlockSizes

(* Every step of the program is one of the promise, or none.               *)
LEMMA StepImplements ==
  ASSUME TypeOK, IInv, [Next]_vars
  PROVE  [Promise!Next]_(Promise!vars)
<1>1. ExecutorInv /\ SyncInv
  BY PartsOfInv DEF ExecutorInv
<1>2. CASE UNCHANGED <<outVars, closed>>
  BY <1>2 DEF outVars, Promise!vars
<1>3. CASE Process
  <2>1. CASE executed' = executed
    BY <1>2, <1>3, <2>1 DEF Process
  <2>2. CASE executed' # executed
    <3> DEFINE n == Len(executed'[Len(executed')].cmds)
    <3>1. n \in BlockSizes
      BY <1>3, <2>2, SizesFit
    <3>2. Execute(n) /\ closed = {}
      BY <1>3, <2>2 DEF Process, IInv, PhaseInv
    <3> HIDE DEF n
    <3>3. Promise!Execute(Main, n)
      BY <3>2 DEF Execute, Output!Execute, Sync!Execute, Promise!Execute
    <3> QED
      BY <3>1, <3>3 DEF Promise!Next
  <2> QED
    BY <2>1, <2>2
<1>4. ASSUME OutputStep, UNCHANGED <<bulks, closed>>
      PROVE  [Promise!Next]_(Promise!vars)
  <2>1. CASE UNCHANGED outVars
    BY <1>2, <1>4, <2>1
  <2>2. ASSUME NEW n \in Nat \ {0}, Executes(n)
        PROVE  FALSE
    <3>1. Len(bulks) \in Nat /\ Len(bulks') = Len(bulks) + 1
      BY <1>1, <2>2, ExecuteKeepsBlocks DEF ExecutorInv, OutputInv
    <3> QED
      BY <1>4, <3>1
  <2>3. CASE Output!PrintNext(Main)
    <3>1. Promise!PrintNext(Main)
      BY <2>3 DEF Output!PrintNext, Promise!PrintNext, Output!BlocksOf, Promise!BlocksOf,
         Output!AllPrinted, Promise!AllPrinted, Output!IsPrinted, Promise!IsPrinted
    <3> QED
      BY <3>1 DEF Promise!Next
  <2>4. ASSUME NEW b \in 1..Len(bulks), Writes(b)
        PROVE  [Promise!Next]_(Promise!vars)
    <3>1. Promise!Write(b) \/ Promise!FailToOpen(b)
      BY <2>4 DEF Writes, Output!Write, Promise!Write, Output!IsWritten, Promise!IsWritten,
         Output!FailToOpen, Promise!FailToOpen
    <3> QED
      BY <3>1 DEF Promise!Next
  <2> QED
    BY <1>4, <2>1, <2>2, <2>3, <2>4 DEF OutputStep
<1>5. CASE RunBlock
  <2>1. UNCHANGED <<bulks, closed>>
    BY <1>5 DEF RunBlock, Sync!Step, Sync!CopyToLog, Sync!PrintCommand, Sync!EndPrint,
       Sync!Pack, Sync!Open, Sync!Write, Sync!Return
  <2> QED
    BY <1>1, <1>4, <1>5, <2>1, SyncSteps DEF SyncStepOK
<1>6. CASE RunThreads
  <2>1. OutputStep /\ UNCHANGED <<bulks, closed>>
    BY <1>6 DEF RunThreads, OutputStep, Writes, Output!PrintNext, Output!Write,
       Output!FailToOpen
  <2> QED
    BY <1>4, <2>1
<1>7. CASE Finish
  <2>1. closed = {} /\ UNCHANGED outVars /\ closed' = {Main}
    BY <1>7 DEF Finish, IInv, PhaseInv, Output!Close, outVars
  <2>2. \A b \in 1..Len(bulks) : Done(b)
    <3>1. EndInv' /\ UNCHANGED outVars
      BY <1>1, <1>7, <2>1, FinishOK DEF StepOK
    <3>2. phase' = "ended"
      BY <1>7 DEF Finish
    <3> QED
      BY <3>1, <3>2 DEF EndInv, outVars, Done, Output!AllPrinted, Output!IsPrinted,
         Output!IsWritten
  <2>3. Promise!Close(Main)
    <3>1. \A b \in Promise!BlocksOf(Main) : b \in 1..Len(bulks)
      BY DEF Promise!BlocksOf
    <3> QED
      BY <2>1, <2>2, <3>1 DEF Promise!Close, outVars, Done, Output!AllPrinted,
         Promise!AllPrinted, Output!IsPrinted, Promise!IsPrinted, Output!IsWritten,
         Promise!IsWritten
  <2> QED
    BY <2>3 DEF Promise!Next
<1>8. CASE Refuse \/ Start \/ UNCHANGED vars
  BY <1>2, <1>8 DEF Refuse, Start, vars, outVars
<1> QED
  BY <1>3, <1>5, <1>6, <1>7, <1>8 DEF Next

-----------------------------------------------------------------------------
(* The theorems. *)

(* The invariant holds before the arguments are looked at.                 *)
LEMMA ProgramStart == Init => TypeOK /\ IInv
<1> SUFFICES ASSUME Init PROVE TypeOK /\ IInv
  OBVIOUS
<1>1. /\ phase = "arguments" /\ chunk_arg \in ChunkArg /\ thread_arg \in ThreadArg
      /\ closed = {} /\ Input!Init /\ Sync!Init
  BY DEF Init
<1>2. SessionInv /\ Processor!Init
  BY <1>1, SessionStart, SameInit, SameProcessorInit
<1>3. /\ bulks = <<>> /\ console = <<>> /\ file = <<>> /\ unopened = {} /\ executed = <<>>
      /\ received = <<>> /\ exec_pc = "idle" /\ os_ = Cout /\ log_queue_ = <<>>
      /\ bulk_q_ = <<>> /\ left = 0 /\ ~save_status_at_stop_ /\ ~save_status_at_stop0
  BY <1>1, <1>2 DEF Sync!Init, Processor!Init
<1>4. Len(<<>>) = 0 /\ \A T : <<>> \in Seq(T)
  OBVIOUS
<1>5. BlocksOK /\ FilesOK /\ ConsoleInv
  BY <1>3, <1>4 DEF BlocksOK, FilesOK, FileInv, ConsoleInv
<1>6. SyncOK /\ SyncInv
  BY <1>3, <1>4 DEF SyncOK, SyncInv, AtIdle
<1>7. OptionsOK /\ PhaseInv /\ FitsInput /\ BlocksAgree /\ EndInv
  BY <1>1, <1>2, <1>3 DEF OptionsOK, PhaseInv, FitsInput, BlocksAgree, EndInv
<1> QED
  BY <1>2, <1>5, <1>6, <1>7, PartsMakeInv DEF ExecutorInv, OutputInv

(* Every variable holds a value of its type, and a program that runs has   *)
(* options its executors can work with: those the notifiers let through.   *)
THEOREM TypeCorrect == Spec => []TypeOK
<1>1. TypeOK /\ IInv /\ [Next]_vars => TypeOK' /\ IInv'
  BY ProgramKeeps
<1> QED
  BY <1>1, ProgramStart, PTL DEF Spec

(* The invariant of the program.                                           *)
THEOREM Invariant == Spec => []IInv
<1>1. TypeOK /\ IInv /\ [Next]_vars => TypeOK' /\ IInv'
  BY ProgramKeeps
<1> QED
  BY <1>1, ProgramStart, PTL DEF Spec

(* Whatever the arguments, the input and the order the threads run in, a   *)
(* program that ends has printed the blocks its input asks for: one line   *)
(* each, in order, with nothing lost or diverted between parser and console*)
THEOREM ConsoleShowsTheInput == Spec => []PrintsTheInput
  BY TypeCorrect, Invariant, EndPrints, PTL

(* ... and each of its files holds what the console shows of its block.    *)
THEOREM FilesAreMirrors == Spec => []FilesMirrorConsole
  BY TypeCorrect, Invariant, EndMirrors, PTL

(* Both executors keep the promise of BlockOutput, with the blocks the     *)
(* processor makes.                                                        *)
THEOREM OutputImplemented == Spec => ImplementsOutput
<1>1. Init => Promise!Init
  BY DEF Init, Sync!Init, Promise!Init
<1>2. TypeOK /\ IInv /\ [Next]_vars => [Promise!Next]_(Promise!vars)
  BY StepImplements
<1> QED
  BY <1>1, <1>2, TypeCorrect, Invariant, PTL DEF Spec, ImplementsOutput, Promise!Spec

=============================================================================
