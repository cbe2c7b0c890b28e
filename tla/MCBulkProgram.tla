---------------------------- MODULE MCBulkProgram ----------------------------
(***************************************************************************)
(* BulkProgram for TLC.                                                    *)
(***************************************************************************)
EXTENDS BulkProgramProperties

Inputs == INSTANCE InputTexts

(* Any three lines, the last one ended or not, and four that are not empty.*)
Scripts ==
  LET texts(k) == Inputs!Texts(Char \union {OpenBrace, CloseBrace, NL}, k)
  IN  texts(3) \union {t \in texts(4) : Len(t) = 8}

=============================================================================
