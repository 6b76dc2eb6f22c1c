----------------------------- MODULE Handshake ------------------------------
(***************************************************************************)
(* The mutual-authentication handshake on one connection: perform_client_  *)
(* handshake (zerotrust/client/handshake.py) and perform_server_handshake  *)
(* (zerotrust/server/handshake.py), from the moment the connection is      *)
(* accepted until both ends have closed it.  Handshakes on different       *)
(* connections share nothing but the files they load their keys from       *)
(* (module Pki), so one connection is the whole system here.               *)
(*                                                                         *)
(* Each end is a sequential program; a step is one send or one receive     *)
(* with the checks that follow it, and a refusal and its ERROR are two     *)
(* steps.  The peers follow the protocol; what may be wrong is what they   *)
(* were set up with: a private key that does not belong to the             *)
(* certificate, another CA, a certificate out of its dates, a wrong        *)
(* password, a server of another name.  Either process may be killed, the  *)
(* network may lose the connection at any time, the client's socket has a  *)
(* timeout, the server's has none.                                         *)
(***************************************************************************)
EXTENDS Integers, Sequences, Crypto

CONSTANTS
  Key, Subject, Nonce, Secret,
  ClientAssets, ServerAssets,      \* what the two ends may have loaded from their files
  None,
  MaxTime                          \* bound: the model's time ends here

Cert == [subject : Subject, key : Key, issuer : Key, valid_from : Nat, valid_until : Nat]

(* A certificate, the private key beside it, whether the password opens it, *)
(* the CA's key, and the subject expected of the peer.                      *)
Assets == [cert : Cert, key : Key, password : BOOLEAN, ca : Key, expected : Subject \union {None}]

Ciphertext == [under : Key, hides : Secret]
Signature == [by : Key, of : Nonce \X Nonce \X Ciphertext]
Derived(label) == Secret \X (Nonce \X Nonce) \X {label}
Session ==
  [peer_cert : Cert, keys : [c2s : Derived("first"), s2c : Derived("second")],
   transcript : Nonce \X Nonce \X Ciphertext]

ASSUME HandshakeConstants ==
  /\ ClientAssets \subseteq Assets
  /\ ServerAssets \subseteq {a \in Assets : a.expected = None}
  /\ None \notin Nonce \union Secret
  /\ None \notin Cert /\ None \notin Ciphertext /\ None \notin Session
  /\ MaxTime \in Nat

VARIABLES
  clock,
  assets,      \* of each end
  pc,          \* where each end is, or how it ended
  know,        \* what each end has learnt so far
  session,     \* the session-state dict each end has returned, or None
  line,        \* each end's socket: open, fin, reset or closed
  queue,       \* the messages on their way to each end
  disturbed    \* the network lost the connection or the client ran out of time (history)

vars == <<clock, assets, pc, know, session, line, queue, disturbed>>

End == {"client", "server"}
Other(e) == IF e = "client" THEN "server" ELSE "client"

Nothing == [peer |-> None, nc |-> None, ns |-> None, ct |-> None, pm |-> None]

Init ==
  /\ clock = 0
  /\ assets \in {[client |-> c, server |-> s] : c \in ClientAssets, s \in ServerAssets}
  /\ pc = [client |-> "sendHello", server |-> "start"]
  /\ know = [e \in End |-> Nothing]
  /\ session = [e \in End |-> None]
  /\ line = [e \in End |-> "open"]
  /\ queue = [e \in End |-> <<>>]
  /\ disturbed = FALSE

----------------------------------------------------------------------------
(* Messages *)

Hello(cert, nonce) == [type |-> "HELLO", cert |-> cert, nonce |-> nonce]
KeyExchange(ct) == [type |-> "KEY_EXCHANGE", ct |-> ct]
AuthResponse(signature) == [type |-> "AUTH_RESPONSE", signature |-> signature]
SessionOk(signature) == [type |-> "SESSION_OK", signature |-> signature]
Error == [type |-> "ERROR"]

(* The socket of an end.  A message sent to a peer that has closed is lost, *)
(* and answered with a reset, which may be seen at once or later.           *)
Send(e, m) ==
  \/ /\ line[e] = "open"
     /\ queue' = [queue EXCEPT ![Other(e)] = Append(@, m)]
     /\ UNCHANGED line
  \/ /\ line[e] = "fin"
     /\ line' \in {line, [line EXCEPT ![e] = "reset"]}
     /\ UNCHANGED queue

(* An end closes its socket while q is under way.  If it leaves messages   *)
(* unread the peer gets a reset, and with it may lose what it had not read.*)
HangUp(e, q) ==
  LET rest == [q EXCEPT ![e] = <<>>] IN
  IF q[e] # <<>> /\ line[Other(e)] # "closed"
    THEN /\ line' = [line EXCEPT ![e] = "closed", ![Other(e)] = "reset"]
         /\ queue' \in {rest, [rest EXCEPT ![Other(e)] = <<>>]}
    ELSE /\ line' = [line EXCEPT ![e] = "closed", ![Other(e)] = IF @ = "open" THEN "fin" ELSE @]
         /\ queue' = rest

Goto(e, next) == pc' = [pc EXCEPT ![e] = next]
Learn(e, k) == know' = [know EXCEPT ![e] = k]
Received(e) == [queue EXCEPT ![e] = Tail(@)]
Receive(e) == queue' = Received(e) /\ UNCHANGED line

(* An end gives up: its function raises, and the caller closes the socket. *)
Raise(e, how, q) ==
  /\ Goto(e, how)
  /\ HangUp(e, q)
  /\ UNCHANGED <<know, session>>

verify_certificate(cert, ca, expected) ==
  /\ cert.issuer = ca
  /\ cert.valid_from <= clock /\ clock <= cert.valid_until
  /\ expected \in {None, cert.subject}

Transcript(k) == build_transcript_hash(k.nc, k.ns, k.ct)

SessionOfSaltSwapped(k) ==     \* mutant: one end concatenates the nonces the other way round
  [peer_cert |-> k.peer, transcript |-> Transcript(k),
   keys |-> hkdf_derive(k.pm, IF k.peer = assets["server"].cert THEN <<k.ns, k.nc>> ELSE <<k.nc, k.ns>>)]

SessionOf(k) ==
  [peer_cert |-> k.peer, keys |-> hkdf_derive(k.pm, <<k.nc, k.ns>>), transcript |-> Transcript(k)]

----------------------------------------------------------------------------
(* The client *)

SendClientHello ==
  /\ pc["client"] = "sendHello"
  /\ \E n \in Nonce :
       /\ Send("client", Hello(assets["client"].cert, n))
       /\ Learn("client", [know["client"] EXCEPT !.nc = n])
  /\ Goto("client", "awaitHello")
  /\ UNCHANGED <<clock, assets, disturbed, session>>

TakeServerHelloUnverified ==   \* mutant: the certificate is not looked at before KEY_EXCHANGE
  /\ pc["client"] = "awaitHello"
  /\ queue["client"] # <<>>
  /\ LET m == Head(queue["client"]) IN
       IF m.type = "HELLO"
         THEN /\ Learn("client", [know["client"] EXCEPT !.peer = m.cert, !.ns = m.nonce])
              /\ Goto("client", "sendKey")
              /\ Receive("client")
              /\ UNCHANGED session
         ELSE Raise("client", "AuthError", Received("client"))
  /\ UNCHANGED <<clock, assets, disturbed>>

(* The certificate is verified before anything else is sent. *)
TakeServerHello ==
  /\ pc["client"] = "awaitHello"
  /\ queue["client"] # <<>>
  /\ LET m == Head(queue["client"]) IN
       IF m.type = "HELLO" /\ verify_certificate(m.cert, assets["client"].ca, assets["client"].expected)
         THEN /\ Learn("client", [know["client"] EXCEPT !.peer = m.cert, !.ns = m.nonce])
              /\ Goto("client", "sendKey")
              /\ Receive("client")
              /\ UNCHANGED session
         ELSE Raise("client", "AuthError", Received("client"))
  /\ UNCHANGED <<clock, assets, disturbed>>

SendKeyExchange ==
  /\ pc["client"] = "sendKey"
  /\ \E s \in Secret :
       LET ct == rsa_oaep_encrypt(know["client"].peer.key, s) IN
       /\ Send("client", KeyExchange(ct))
       /\ Learn("client", [know["client"] EXCEPT !.pm = s, !.ct = ct])
  /\ Goto("client", "sendAuth")
  /\ UNCHANGED <<clock, assets, disturbed, session>>

(* The private key is first needed here. *)
SendAuthResponse ==
  /\ pc["client"] = "sendAuth"
  /\ assets["client"].password
  /\ Send("client", AuthResponse(rsa_sign(assets["client"].key, Transcript(know["client"]))))
  /\ Goto("client", "awaitOk")
  /\ UNCHANGED <<clock, assets, disturbed, know, session>>

SignFails ==
  /\ pc["client"] = "sendAuth"
  /\ ~ assets["client"].password
  /\ Raise("client", "CryptoError", queue)
  /\ UNCHANGED <<clock, assets, disturbed>>

TakeSessionOk ==
  /\ pc["client"] = "awaitOk"
  /\ queue["client"] # <<>>
  /\ LET m == Head(queue["client"])
         k == know["client"] IN
       IF m.type = "SESSION_OK" /\ rsa_verify(k.peer.key, Transcript(k), m.signature)
         THEN /\ session' = [session EXCEPT !["client"] = SessionOf(k)]
              /\ Goto("client", "session")
              /\ Receive("client")
              /\ UNCHANGED know
         ELSE Raise("client", "AuthError", Received("client"))
  /\ UNCHANGED <<clock, assets, disturbed>>

(* A send on a connection that was reset raises OSError, wherever it is. *)
ClientSendFails ==
  /\ pc["client"] \in {"sendHello", "sendKey", "sendAuth"}
  /\ pc["client"] = "sendAuth" => assets["client"].password
  /\ line["client"] = "reset"
  /\ Raise("client", "OSError", queue)
  /\ UNCHANGED <<clock, assets, disturbed>>

ClientReceiveFailsRaw ==       \* mutant: the wait for SESSION_OK without its try
  /\ pc["client"] \in {"awaitHello", "awaitOk"}
  /\ queue["client"] = <<>>
  /\ \/ line["client"] = "fin" /\ Raise("client", "ProtocolError", queue)
     \/ line["client"] = "reset" /\ Raise("client", "OSError", queue)
  /\ UNCHANGED <<clock, assets, disturbed>>

(* Only the wait for SESSION_OK turns what recv_message raises into         *)
(* AuthError (142-149).                                                     *)
Surfacing(how) == IF pc["client"] = "awaitOk" THEN "AuthError" ELSE how

(* Nothing more comes: the peer has closed, or the connection was reset.    *)
ClientReceiveFails ==
  /\ pc["client"] \in {"awaitHello", "awaitOk"}
  /\ queue["client"] = <<>>
  /\ \/ line["client"] = "fin" /\ Raise("client", Surfacing("ProtocolError"), queue)
     \/ line["client"] = "reset" /\ Raise("client", Surfacing("OSError"), queue)
  /\ UNCHANGED <<clock, assets, disturbed>>

(* The socket's timeout ends a wait, also while the answer is on its way.   *)
ClientTimesOut ==
  /\ pc["client"] \in {"awaitHello", "awaitOk"}
  /\ Raise("client", Surfacing("OSError"), queue)
  /\ disturbed' = TRUE
  /\ UNCHANGED <<clock, assets>>

(* The command that needed the session is over. *)
ClientLeaves ==
  /\ pc["client"] = "session"
  /\ Raise("client", "left", queue)
  /\ UNCHANGED <<clock, assets, disturbed>>

----------------------------------------------------------------------------
(* The server *)

(* serve_connection loads the certificates and the key and opens its       *)
(* database; an error there closes the connection without a word.          *)
StartServing ==
  /\ pc["server"] = "start"
  /\ \/ Goto("server", "awaitHello") /\ UNCHANGED <<know, session, line, queue>>
     \/ Raise("server", "failed", queue)
  /\ UNCHANGED <<clock, assets, disturbed>>

(* What was read, or the end of the stream, fails a check. *)
Decline(q) ==
  /\ Goto("server", "refuse")
  /\ queue' = q
  /\ UNCHANGED <<know, session, line>>

(* _fail: ERROR is sent if it still can be, then AuthError is raised.       *)
Refuse ==
  /\ pc["server"] = "refuse"
  /\ Raise("server", "AuthError",
           IF line["server"] = "open" THEN [queue EXCEPT !["client"] = Append(@, Error)] ELSE queue)
  /\ UNCHANGED <<clock, assets, disturbed>>

TakeClientHelloIgnoring ==     \* mutant: a HELLO that fails the checks is logged and dropped
  /\ pc["server"] = "awaitHello"
  /\ queue["server"] # <<>>
  /\ LET m == Head(queue["server"]) IN
       IF m.type = "HELLO" /\ verify_certificate(m.cert, assets["server"].ca, None)
         THEN /\ Learn("server", [know["server"] EXCEPT !.peer = m.cert, !.nc = m.nonce])
              /\ Goto("server", "sendHello")
              /\ Receive("server")
              /\ UNCHANGED session
         ELSE Receive("server") /\ UNCHANGED <<pc, know, session>>
  /\ UNCHANGED <<clock, assets, disturbed>>

TakeClientHello ==
  /\ pc["server"] = "awaitHello"
  /\ queue["server"] # <<>>
  /\ LET m == Head(queue["server"]) IN
       IF m.type = "HELLO" /\ verify_certificate(m.cert, assets["server"].ca, None)
         THEN /\ Learn("server", [know["server"] EXCEPT !.peer = m.cert, !.nc = m.nonce])
              /\ Goto("server", "sendHello")
              /\ Receive("server")
              /\ UNCHANGED session
         ELSE Decline(Received("server"))
  /\ UNCHANGED <<clock, assets, disturbed>>

SendServerHello ==
  /\ pc["server"] = "sendHello"
  /\ \E n \in Nonce :
       /\ Send("server", Hello(assets["server"].cert, n))
       /\ Learn("server", [know["server"] EXCEPT !.ns = n])
  /\ Goto("server", "awaitKey")
  /\ UNCHANGED <<clock, assets, disturbed, session>>

TakeKeyExchange ==
  /\ pc["server"] = "awaitKey"
  /\ queue["server"] # <<>>
  /\ LET m == Head(queue["server"]) IN
       IF m.type = "KEY_EXCHANGE" /\ assets["server"].password /\ Opens(assets["server"].key, m.ct)
         THEN /\ Learn("server", [know["server"] EXCEPT !.ct = m.ct, !.pm = rsa_oaep_decrypt(m.ct)])
              /\ Goto("server", "awaitAuth")
              /\ Receive("server")
              /\ UNCHANGED session
         ELSE Decline(Received("server"))
  /\ UNCHANGED <<clock, assets, disturbed>>

TakeAuthResponseUnchecked ==   \* mutant: the client's proof of possession is not verified
  /\ pc["server"] = "awaitAuth"
  /\ queue["server"] # <<>>
  /\ IF Head(queue["server"]).type = "AUTH_RESPONSE"
       THEN /\ Goto("server", "sendOk")
            /\ Receive("server")
            /\ UNCHANGED <<know, session>>
       ELSE Decline(Received("server"))
  /\ UNCHANGED <<clock, assets, disturbed>>

TakeAuthResponse ==
  /\ pc["server"] = "awaitAuth"
  /\ queue["server"] # <<>>
  /\ LET m == Head(queue["server"])
         k == know["server"] IN
       IF m.type = "AUTH_RESPONSE" /\ rsa_verify(k.peer.key, Transcript(k), m.signature)
         THEN /\ Goto("server", "sendOk")
              /\ Receive("server")
              /\ UNCHANGED <<know, session>>
         ELSE Decline(Received("server"))
  /\ UNCHANGED <<clock, assets, disturbed>>

SendSessionOk ==
  /\ pc["server"] = "sendOk"
  /\ Send("server", SessionOk(rsa_sign(assets["server"].key, Transcript(know["server"]))))
  /\ session' = [session EXCEPT !["server"] = SessionOf(know["server"])]
  /\ Goto("server", "session")
  /\ UNCHANGED <<clock, assets, disturbed, know>>

ServerSendFails ==
  /\ pc["server"] \in {"sendHello", "sendOk"}
  /\ line["server"] = "reset"
  /\ Raise("server", "OSError", queue)
  /\ UNCHANGED <<clock, assets, disturbed>>

ServerReceiveFailsOnReset ==   \* mutant: an end of the stream is read as an empty message
  /\ pc["server"] \in {"awaitHello", "awaitKey", "awaitAuth"}
  /\ queue["server"] = <<>>
  /\ line["server"] = "reset"
  /\ Raise("server", "OSError", queue)
  /\ UNCHANGED <<clock, assets, disturbed>>

(* The client has closed: the server sees the end of the stream, which it  *)
(* refuses as malformed, or a reset.  It waits for nothing else.           *)
ServerReceiveFails ==
  /\ pc["server"] \in {"awaitHello", "awaitKey", "awaitAuth"}
  /\ queue["server"] = <<>>
  /\ \/ line["server"] = "fin" /\ Decline(queue)
     \/ line["server"] = "reset" /\ Raise("server", "OSError", queue)
  /\ UNCHANGED <<clock, assets, disturbed>>

(* The loop of serve_connection ends with the connection. *)
ServerLeaves ==
  /\ pc["server"] = "session"
  /\ line["server"] \in {"fin", "reset"}
  /\ Raise("server", "left", queue)
  /\ UNCHANGED <<clock, assets, disturbed>>

----------------------------------------------------------------------------
Ended == {"AuthError", "CryptoError", "OSError", "ProtocolError", "failed", "killed", "left"}

(* The process of one end is killed, and its sockets are closed. *)
Kill(e) ==
  /\ pc[e] \notin Ended
  /\ Raise(e, "killed", queue)
  /\ UNCHANGED <<clock, assets, disturbed>>

(* The network loses the connection with all that is under way on it, also *)
(* when one end has closed it and the other has still to read.             *)
Break ==
  /\ \E e \in End : line[e] \in {"open", "fin"}
  /\ line' = [e \in End |-> IF line[e] = "closed" THEN "closed" ELSE "reset"]
  /\ queue' = [e \in End |-> <<>>]
  /\ disturbed' = TRUE
  /\ UNCHANGED <<clock, assets, pc, know, session>>

Tick ==
  /\ clock < MaxTime
  /\ clock' = clock + 1
  /\ UNCHANGED <<assets, pc, know, session, line, queue, disturbed>>

ClientStep ==
  \/ SendClientHello \/ TakeServerHello \/ SendKeyExchange
  \/ SendAuthResponse \/ SignFails \/ TakeSessionOk
  \/ ClientSendFails \/ ClientReceiveFails \/ ClientTimesOut \/ ClientLeaves

ServerStep ==
  \/ StartServing \/ TakeClientHello \/ SendServerHello
  \/ TakeKeyExchange \/ TakeAuthResponse \/ SendSessionOk \/ Refuse
  \/ ServerSendFails \/ ServerReceiveFails \/ ServerLeaves

Next == ClientStep \/ ServerStep \/ (\E e \in End : Kill(e)) \/ Break \/ Tick

Spec == Init /\ [][Next]_vars

(* Both programs run, and the timeout of the client's socket ends a wait.  *)
FairSpec == Spec /\ WF_vars(ClientStep) /\ WF_vars(ServerStep)

----------------------------------------------------------------------------

Message ==
  [type : {"HELLO"}, cert : Cert, nonce : Nonce] \union [type : {"KEY_EXCHANGE"}, ct : Ciphertext]
    \union [type : {"AUTH_RESPONSE", "SESSION_OK"}, signature : Signature] \union {Error}

Knowledge ==
  [peer : Cert \union {None}, nc : Nonce \union {None}, ns : Nonce \union {None},
   ct : Ciphertext \union {None}, pm : Secret \union {None}]

Waiting ==
  {"sendHello", "awaitHello", "sendKey", "sendAuth", "awaitOk",
   "start", "awaitKey", "awaitAuth", "sendOk", "refuse", "session"}

(* Type correctness of the two ends and of what is under way between them. *)
TypeOK ==
  /\ clock \in Nat
  /\ assets \in [End -> Assets]
  /\ pc \in [End -> Waiting \union Ended]
  /\ know \in [End -> Knowledge]
  /\ line \in [End -> {"open", "fin", "reset", "closed"}]
  /\ queue \in [End -> Seq(Message)]
  /\ session \in [End -> Session \union {None}]
  /\ disturbed \in BOOLEAN

(* The keys and the transcript that the client's session holds are those   *)
(* of the server, which has its session first, and each session names the  *)
(* certificate the other end presented: both walked through the handshake  *)
(* and ended up with the same c2s_key and s2c_key (server/handshake.py:3-5).*)
Agreement ==
  session["client"] # None =>
    /\ session["server"] # None
    /\ session["client"].keys = session["server"].keys
    /\ session["client"].transcript = session["server"].transcript
    /\ session["client"].peer_cert = assets["server"].cert
    /\ session["server"].peer_cert = assets["client"].cert

(* An end has a session only with a peer that holds the private key of the *)
(* certificate it presented: a bundle put together from two issues of a    *)
(* certificate, whichever end it is at, never gets one (server:208-215 and *)
(* client:161-163).                                                        *)
PossessionProved ==
  \A e \in End : session[e] # None =>
    /\ assets[Other(e)].key = session[e].peer_cert.key
    /\ session[e].peer_cert.issuer = assets[e].ca
    /\ assets[e].expected \in {None, session[e].peer_cert.subject}

(* A pre-master secret is on its way, or has arrived, only encrypted for a *)
(* server whose certificate the client's CA signed for the name the client *)
(* expects (client/handshake.py:112-117).                                  *)
SecretOnlyToVerified ==
  know["client"].ct # None =>
    LET cert == assets["server"].cert IN
      /\ know["client"].ct.under = cert.key
      /\ cert.issuer = assets["client"].ca
      /\ assets["client"].expected \in {None, cert.subject}

(* The two ends never wait for each other over a connection that is up: a  *)
(* message is under way to one of them.  The server's socket has no        *)
(* timeout, so nothing else would free its worker thread before the        *)
(* client's own timeout (server/handshake.py:122-197, handler.py:1067).    *)
NoStandoff ==
  /\ pc["client"] \in {"awaitHello", "awaitOk"}
  /\ pc["server"] \in {"awaitHello", "awaitKey", "awaitAuth", "session"}
  => \E e \in End : queue[e] # <<>> \/ line[e] # "open"

(* When the server has refused the handshake, the client has not ended     *)
(* with a bare ProtocolError or OSError, although the server's ERROR may   *)
(* be lost to the reset that an unread AUTH_RESPONSE causes (client:142-   *)
(* 149).  The two exceptions are those in which the client could not have  *)
(* been told: the network lost the connection, before, while or after the  *)
(* server refused, or the client's own timeout ended its wait (client:93). *)
RefusalIsAuthError ==
  pc["server"] = "AuthError" /\ pc["client"] \in {"ProtocolError", "OSError"} => disturbed

(* Both ends come to an end and close: no worker thread is left waiting    *)
(* for a client that has timed out or was killed, wherever it was, and no  *)
(* client for a server that was.                                           *)
BothEnd == <>(\A e \in End : pc[e] \in Ended)

=============================================================================
