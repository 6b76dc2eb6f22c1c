---------------------------- MODULE MC_FileStore ----------------------------
(* One file from alice to bob, and carol, who is neither and has no        *)
(* certificate in pubkeys/.  Its package comes in up to two uploads.  The  *)
(* file expires while time still runs on, and then alice's certificate     *)
(* does.                                                                   *)
EXTENDS FileStoreClaims

CONSTANTS alice, bob, carol, f1, p1, w1, w2

MCSender == [f \in File |-> alice]
MCRecipient == [f \in File |-> bob]
MCExpiration == [f \in File |-> 1]
MCCertUntil == [u \in User |-> IF u = alice THEN 1 ELSE MaxTime]
=============================================================================
