-------------------------- MODULE LookaheadPipeline --------------------------
(***************************************************************************)
(* What the lookahead sweep of a level-3 routine promises, as stated in    *)
(* the header of hemmC (src/src/hemmC.cc lines 20-23):                     *)
(*   - bcast communications are serialized,                                *)
(*   - hemm operations are serialized,                                     *)
(*   - bcasts can get ahead of hemms by the value of lookahead.            *)
(* Each stage k has a broadcast and a compute step, each of which is idle, *)
(* active or done.                                                         *)
(***************************************************************************)
EXTENDS Integers

CONSTANTS K, Lookahead

ASSUME K \in Nat \ {0} /\ Lookahead \in Nat

VARIABLES bcast, compute

vars == << bcast, compute >>

Stages == 0 .. K-1
Steps == {"idle", "active", "done"}

Init ==
  /\ bcast = [k \in Stages |-> "idle"]
  /\ compute = [k \in Stages |-> "idle"]

(* Stage k may be broadcast once stage k-1's broadcast is done and the     *)
(* compute of stage k-lookahead-1 is done.                                 *)
BeginBcast(k) ==
  /\ bcast[k] = "idle"
  /\ k = 0 \/ bcast[k-1] = "done"
  /\ k - Lookahead - 1 < 0 \/ compute[k - Lookahead - 1] = "done"
  /\ bcast' = [bcast EXCEPT ![k] = "active"]
  /\ UNCHANGED compute

EndBcast(k) ==
  /\ bcast[k] = "active"
  /\ bcast' = [bcast EXCEPT ![k] = "done"]
  /\ UNCHANGED compute

(* Stage k is computed once its broadcast and stage k-1's compute are done. *)
BeginCompute(k) ==
  /\ compute[k] = "idle"
  /\ bcast[k] = "done"
  /\ k = 0 \/ compute[k-1] = "done"
  /\ compute' = [compute EXCEPT ![k] = "active"]
  /\ UNCHANGED bcast

EndCompute(k) ==
  /\ compute[k] = "active"
  /\ compute' = [compute EXCEPT ![k] = "done"]
  /\ UNCHANGED bcast

Next == \E k \in Stages :
          BeginBcast(k) \/ EndBcast(k) \/ BeginCompute(k) \/ EndCompute(k)

(* Under weak fairness the sweep runs to its end. *)
Spec == Init /\ [][Next]_vars /\ WF_vars(Next)

=============================================================================
