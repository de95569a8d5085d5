------------------------------ MODULE SingleUse ------------------------------
(***************************************************************************)
(* What a one-time credential promises: whatever is granted is taken up at *)
(* most as often as it was granted, in any order and by whoever presents   *)
(* it.  A grant that is still good is not granted again.                   *)
(***************************************************************************)
EXTENDS Naturals

CONSTANT Grants
VARIABLES granted, uses

Outstanding(g) == uses[g] < granted[g]

Init == /\ granted \in [Grants -> {0, 1}]
        /\ uses = [g \in Grants |-> 0]

Grant(g)  == /\ ~Outstanding(g)
             /\ granted' = [granted EXCEPT ![g] = @ + 1]
             /\ UNCHANGED uses

Redeem(g) == /\ Outstanding(g)
             /\ uses' = [uses EXCEPT ![g] = @ + 1]
             /\ UNCHANGED granted

Next == \E g \in Grants : Grant(g) \/ Redeem(g)

Spec == Init /\ [][Next]_<<granted, uses>>
==============================================================================
