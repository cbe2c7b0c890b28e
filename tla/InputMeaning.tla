---------------------------- MODULE InputMeaning ----------------------------
(***************************************************************************)
(* What an input asks for, as a reference: its lines and the blocks they   *)
(* make when every closing brace has an opening one.                       *)
(***************************************************************************)
EXTENDS Naturals, Sequences

CONSTANTS OpenBrace, CloseBrace, NL

(* What some lines make when static blocks have n commands: the blocks,    *)
(* what is pending after them and at which depth of braces.                *)
Nothing == [blocks |-> <<>>, cur |-> <<>>, depth |-> 0]

Flush(a) == IF a.cur = <<>> THEN a
            ELSE [a EXCEPT !.blocks = Append(@, a.cur), !.cur = <<>>]

Cut(a, n) == IF a.depth = 0 /\ Len(a.cur) = n THEN Flush(a) ELSE a

Act(a, line, n) ==
  CASE line = <<OpenBrace>>  -> [IF a.depth = 0 THEN Flush(a) ELSE a EXCEPT !.depth = @ + 1]
    [] line = <<CloseBrace>> -> [IF a.depth = 1 THEN Flush(a) ELSE a EXCEPT !.depth = @ - 1]
    [] OTHER                 -> Cut([a EXCEPT !.cur = Append(@, line)], n)

-----------------------------------------------------------------------------
(* A text is read symbol by symbol: what its lines have made so far, and   *)
(* the line that is not ended.                                             *)
State(a, line) == [made |-> a, line |-> line]

ReadSymbol(s, symbol, n) ==
  IF symbol = NL THEN State(Act(s.made, s.line, n), <<>>)
  ELSE State(s.made, Append(s.line, symbol))

(* After the first k symbols of a text that comes when a was made. *)
Reading(a, text, k, n) ==
  LET at[i \in 0..Len(text)] == IF i = 0 THEN State(a, <<>>)
                                ELSE ReadSymbol(at[i - 1], text[i], n)
  IN  at[k]

(* After all of it: what follows the last line end is a line as well. *)
AfterText(a, text, n) ==
  LET s == Reading(a, text, Len(text), n)
  IN  IF s.line = <<>> THEN s.made ELSE Act(s.made, s.line, n)

(* What the first k of some texts make, one after the other. *)
MadeBy(texts, k, n) ==
  LET at[i \in 0..Len(texts)] == IF i = 0 THEN Nothing
                                 ELSE AfterText(at[i - 1], texts[i], n)
  IN  at[k]

Assembled(texts, n) == MadeBy(texts, Len(texts), n)

(* The blocks of an input that ends: a static one may be short, an open    *)
(* dynamic one is not executed.                                            *)
LastBlocks(a) ==
  IF a.cur = <<>> \/ a.depth > 0 THEN a.blocks ELSE Append(a.blocks, a.cur)
AllBlocks(texts, n) == LastBlocks(Assembled(texts, n))

=============================================================================
