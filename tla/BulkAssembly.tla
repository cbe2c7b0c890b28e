---------------------------- MODULE BulkAssembly ----------------------------
(***************************************************************************)
(* What a session promises about blocks, without a parser, a stream or     *)
(* calls: commands arrive one at a time and are grouped into static        *)
(* blocks of N commands, or into one dynamic block between the outermost   *)
(* braces.  A static block is shorter than N only if a brace or the end of *)
(* the input cuts it, and an open dynamic block dies with the input.       *)
(***************************************************************************)
EXTENDS Naturals, Sequences

CONSTANT Command    (* The commands a client can send. *)

VARIABLES N,        (* The size of a static block.                 *)
          pending,  (* Commands of the block being assembled.      *)
          depth,    (* Depth of open braces.                       *)
          blocks,   (* Blocks completed, in order.                 *)
          more,     (* More input may still arrive.                *)
          done      (* The session is over.                        *)

vars == <<N, pending, depth, blocks, more, done>>

Init ==
  /\ N \in Nat
  /\ pending = <<>> /\ depth = 0 /\ blocks = <<>>
  /\ more \in BOOLEAN
  /\ done = FALSE

(* The pending commands, if any, become a block. *)
Flush ==
  /\ blocks' = IF pending = <<>> THEN blocks ELSE Append(blocks, pending)
  /\ pending' = <<>>

(* The input may turn out to end with the item just taken. *)
Input == more /\ more' \in BOOLEAN /\ UNCHANGED done

Take(c) ==
  /\ Input
  /\ depth > 0 \/ Len(pending) < N
  /\ pending' = Append(pending, c)
  /\ UNCHANGED <<N, depth, blocks>>

Open ==
  /\ Input
  /\ depth' = depth + 1 /\ UNCHANGED N
  /\ IF depth = 0 THEN Flush ELSE UNCHANGED <<pending, blocks>>

Close ==
  /\ Input
  /\ depth > 0
  /\ depth' = depth - 1 /\ UNCHANGED N
  /\ IF depth = 1 THEN Flush ELSE UNCHANGED <<pending, blocks>>

Complete ==
  /\ depth = 0 /\ Len(pending) = N /\ N > 0
  /\ Flush
  /\ UNCHANGED <<N, depth, more, done>>

EndOfInput ==
  /\ more /\ more' = FALSE
  /\ UNCHANGED <<N, pending, depth, blocks, done>>

(* The last static block may be short. *)
FlushLast ==
  /\ ~more /\ depth = 0 /\ pending # <<>>
  /\ Flush
  /\ UNCHANGED <<N, depth, more, done>>

(* The end: nothing is pending, unless a dynamic block was left open. *)
Finish ==
  /\ ~more /\ ~done
  /\ depth > 0 \/ pending = <<>>
  /\ done' = TRUE /\ depth' = 0 /\ pending' = <<>>
  /\ UNCHANGED <<N, blocks, more>>

Next ==
  \/ \E c \in Command : Take(c)
  \/ Open \/ Close \/ Complete \/ EndOfInput \/ FlushLast \/ Finish

Spec == Init /\ [][Next]_vars

=============================================================================
