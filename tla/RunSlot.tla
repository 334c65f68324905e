------------------------------ MODULE RunSlot ------------------------------
(***************************************************************************)
(* What the score recompute promises its callers, whatever processes and   *)
(* threads stand behind it: one slot.  A run is claimed only when no run   *)
(* holds the slot, a run that has left the slot never takes it back, and   *)
(* every run leaves it.  ScoreRecompute implements this module.            *)
(*                                                                         *)
(* The promise is deliberately silent on one thing: a settled run may be   *)
(* settled again with the other verdict, because the worker's check of its *)
(* row and its final write are two transactions.                           *)
(***************************************************************************)
EXTENDS Naturals

CONSTANT MaxRuns

RunIds  == 1 .. MaxRuns
Settled == {"done", "failed"}

VARIABLES state, \* state[r]: what the status row of run r says ("none": no row yet)
          lastId \* the newest run

Init == state = [r \in RunIds |-> "none"] /\ lastId = 0

Claim == /\ lastId < MaxRuns
         /\ \A r \in RunIds : state[r] # "running"
         /\ state' = [state EXCEPT ![lastId + 1] = "running"]
         /\ lastId' = lastId + 1

Settle == /\ \E gone \in SUBSET (1 .. lastId), verdict \in Settled :
               state' = [r \in RunIds |-> IF r \in gone THEN verdict ELSE state[r]]
          /\ UNCHANGED lastId

Next == Claim \/ Settle

Safety == Init /\ [][Next]_<<state, lastId>>

Freed == \A r \in RunIds : state[r] = "running" ~> state[r] \in Settled
=============================================================================
