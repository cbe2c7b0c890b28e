---------------------------- MODULE MCInputParser ----------------------------
(***************************************************************************)
(* InputParser for TLC: the inputs clients may send, and what the blocks   *)
(* must be for a given input.                                              *)
(***************************************************************************)
EXTENDS InputParserProperties, SequencesExt

(* Anything TCP may cut the input into, up to two symbols at a time; the   *)
(* library also takes an empty buffer.                                     *)
Segments == UNION {[1..n -> Symbol] : n \in 1..2}
ByteBuffers == Segments \union {<<>>}

(* Lines, a line without its end, and bursts: a command with a brace, and  *)
(* as many commands as there are characters.                               *)
MixedBuffers ==
  LET commands == {<<c, NL>> : c \in Char}
      braces   == {<<OpenBrace, NL>>, <<CloseBrace, NL>>}
  IN  {<<c>> : c \in Char} \union {<<NL>>} \union commands \union braces
        \union {l \o m : l \in commands, m \in braces}
        \union {FlattenSeq(SetToSeq(commands))}

NoScript == {}

Inputs == INSTANCE InputTexts

(* Standard inputs. *)
TinyScripts  == Inputs!Texts(Symbol, 3)
ShortScripts == Inputs!Texts(Symbol, 5)

-----------------------------------------------------------------------------
(* What the documents say. *)

(* README.md: the server takes commands line by line. *)
TakesWholeLines == stray = 0 /\ pc = "closed" => Assembles(<<FlattenSeq(received)>>)

(* README.md: commands received right before the client closes are kept.   *)
(* Every command character of a client that opened no brace is executed.   *)
KeepsLastCommands ==
  LET sent == FlattenSeq(received)
      ran  == FlattenSeq(FlattenSeq(Blocks))
  IN  pc = "closed" /\ ~Contains(sent, OpenBrace) =>
        \A c \in Char : Contains(sent, c) => Contains(ran, c)

=============================================================================
