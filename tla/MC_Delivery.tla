----------------------------- MODULE MC_Delivery -----------------------------
(* One file from alice to bob, two connections, and a time at which the    *)
(* file has expired and alice's certificate has not.                       *)
EXTENDS DeliveryClaims, TLC

CONSTANTS alice, bob, f1, w1, w2

MCSender == [f \in File |-> alice]
MCRecipient == [f \in File |-> bob]
MCExpiration == [f \in File |-> 1]
MCCertUntil == [u \in User |-> MaxTime]
Symmetry == Permutations(Worker)
=============================================================================
