---------------------------- MODULE MC_Handshake ----------------------------
(* One good bundle at each end, and every single thing that may be wrong with it. *)
EXTENDS Handshake, TLC

CONSTANTS ck, sk, k2, ca1, ca2, alice, srv

CertOf(subject, key) ==
  [subject |-> subject, key |-> key, issuer |-> ca1, valid_from |-> 0, valid_until |-> 1]

Good == [cert |-> CertOf(alice, ck), key |-> ck, password |-> TRUE, ca |-> ca1, expected |-> srv]
GoodServer == [cert |-> CertOf(srv, sk), key |-> sk, password |-> TRUE, ca |-> ca1, expected |-> None]

(* Another private key, another issuer, dates to come, a wrong password, another trust anchor. *)
Spoilt(a) ==
  {[a EXCEPT !.key = k2], [a EXCEPT !.cert.issuer = ca2], [a EXCEPT !.cert.valid_from = 1],
   [a EXCEPT !.password = FALSE], [a EXCEPT !.ca = ca2]}

MCClientAssets == {Good, [Good EXCEPT !.expected = None]} \union Spoilt(Good)
MCServerAssets == {GoodServer, [GoodServer EXCEPT !.cert.subject = alice]} \union Spoilt(GoodServer)
=============================================================================
