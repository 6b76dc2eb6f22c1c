------------------------------- MODULE MC_Pki --------------------------------
(* Two operators who work at the same time. *)
EXTENDS Pki, TLC

CONSTANTS o1, o2, alice, bob

Cmd(targets, user) == [targets |-> targets, user |-> user, force |-> FALSE]
Each(u) == {Cmd(<<"client-setup">>, u), Cmd(<<"server-register">>, u)}

(* Both may issue alice and copy for her; one also administers the CA and  *)
(* bob, the other may initialise the CA as well.                           *)
MCRuns == (o1 :> {Cmd(<<"init">>, CA), Cmd(user_target, bob), Cmd(<<"issue">>, alice)} \union Each(alice))
       @@ (o2 :> {Cmd(<<"init">>, CA), Cmd(user_target, alice)})

Symmetry == Permutations(Key)
=============================================================================
