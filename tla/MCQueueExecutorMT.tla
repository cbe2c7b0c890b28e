-------------------------- MODULE MCQueueExecutorMT --------------------------
(***************************************************************************)
(* QueueExecutorMT for TLC: its symmetry, the progress of its threads and  *)
(* what the documents say of the program.                                  *)
(***************************************************************************)
EXTENDS QueueExecutorProperties, TLC

(* The sessions are alike. *)
SessionSymmetry == Permutations(Session)

(* A thread told to stop before it decided to wait leaves its loop: the    *)
(* file threads of a session cannot keep each other in it.                 *)
StoppedThreadExits ==
  \A t \in Thread :
    stop_flag_[t] /\ tpc[t] \notin {"wait", "blocked"} ~> tpc[t] = "exited"

-----------------------------------------------------------------------------
(* What the documents say. *)

(* async.h: the call ends the session (it returns). *)
DisconnectReturns == pc \in {"stop", "notify_all", "join"} ~> pc = "idle"

(* README.md: running the commands makes each block appear in the console. *)
BlocksArePrinted ==
  \A b \in 1..MaxBulk : Len(bulks) >= b ~> \E k \in 1..Len(console) :
     console[k].bulk = b /\ console[k].cmd = bulks[b].size

=============================================================================
