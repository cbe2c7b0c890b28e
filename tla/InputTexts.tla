----------------------------- MODULE InputTexts -----------------------------
(***************************************************************************)
(* Texts to give to the parser.                                            *)
(***************************************************************************)
EXTENDS Naturals, SequencesExt

CONSTANT NL

(* Text of up to k lines of at most one symbol each, the last one ended or *)
(* not.                                                                    *)
Texts(Symbol, k) ==
  LET line == {<<NL>>} \union {<<s, NL>> : s \in Symbol \ {NL}}
      text == {FlattenSeq(ls) : ls \in UNION {[1..n -> line] : n \in 0..k}}
  IN  text \union {Front(t) : t \in text \ {<<>>}}

=============================================================================
