--------------------------- MODULE MCAsyncServer ---------------------------
(***************************************************************************)
(* AsyncServer for TLC, with what it owes to its clients and what the      *)
(* README of the program says of it.                                       *)
(***************************************************************************)
EXTENDS AsyncServerProperties

(* A client that connects and closes is served to the end, unless the      *)
(* whole server stops or hangs: it is accepted, however many accepts fail  *)
(* before, and its session is destroyed.                                   *)
ClosedIsServed ==
  \A c \in Client : link[c] = "closed" ~> session[c] = "gone" \/ run # "running"

(* The commands received outside of braces that are in no block yet, of    *)
(* all clients together.                                                   *)
Waiting ==
  {e \in Client \X (1..MaxReceived) :
     /\ e[2] <= Len(received[e[1]]) /\ received[e[1]][e[2]] = "command"
     /\ ~InBraces(e) /\ e \notin Done(Now)}

(* README.md:14 wants the commands of static blocks that come from         *)
(* different connections to be mixed with each other.  They share the      *)
(* blocks then: whenever bulk_size_ of them have been received they make   *)
(* one, as 0, 1, 10 do in the example of README.md:33, and fewer than that *)
(* ever wait.                                                              *)
StaticBlocksMix == run = "running" => Cardinality(Waiting) < bulk_size_

============================================================================
