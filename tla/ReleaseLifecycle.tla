-------------------------- MODULE ReleaseLifecycle --------------------------
(***************************************************************************)
(* What the private outbox promises of each sealed message, with neither    *)
(* threads, tiers, consent nor restarts: a message the node accepted stays  *)
(* accepted until it is released, it is released only after it was handed   *)
(* to a carrier, and once released it is never handed over again.           *)
(***************************************************************************)
CONSTANT Msgs

VARIABLES
  stage,   \* "none", "accepted" or "released", as the disk has it
  handed   \* the messages some carrier took

lifecycleVars == <<stage, handed>>

Init == /\ stage = [m \in Msgs |-> "none"]
        /\ handed = {}

Accept(m) == /\ stage[m] = "none"
             /\ stage' = [stage EXCEPT ![m] = "accepted"]
             /\ UNCHANGED handed

HandOver(m) == /\ stage[m] = "accepted"
               /\ handed' = handed \cup {m}
               /\ UNCHANGED stage

Release(m) == /\ stage[m] = "accepted"
              /\ m \in handed
              /\ stage' = [stage EXCEPT ![m] = "released"]
              /\ UNCHANGED handed

Next == \E m \in Msgs : Accept(m) \/ HandOver(m) \/ Release(m)

Spec == Init /\ [][Next]_lifecycleVars
=============================================================================
