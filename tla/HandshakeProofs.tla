-------------------------- MODULE HandshakeProofs ---------------------------
(***************************************************************************)
(* Both ends of a handshake agree, a session is only had with the holder   *)
(* of the certificate's key, and the pre-master secret goes only to a      *)
(* verified server: for all certificates, keys, nonces, secrets and times. *)
(* A client that was refused is told so, and the two ends never wait for   *)
(* each other.                                                             *)
(*                                                                         *)
(* An end learns of the other only through messages, so the invariant says *)
(* of every message under way what it says about its sender's knowledge,   *)
(* and that the sender will not change that knowledge again.               *)
(***************************************************************************)
EXTENDS Handshake, TLAPS

Elements(q) == {q[i] : i \in DOMAIN q}
InTransit(e) == Elements(queue[e])

(* The states in which an end has not yet sent a message.                   *)
NoHello == {"start", "awaitHello", "sendHello"}          \* of the server
NoKey == {"sendHello", "awaitHello", "sendKey"}          \* of the client
NoAuth == NoKey \union {"sendAuth"}

----------------------------------------------------------------------------
(* What an end has learnt by the time it gets where it is.                  *)
ClientKnows ==
  /\ pc["client"] \in {"awaitHello", "sendKey", "sendAuth", "awaitOk", "session"} =>
       know["client"].nc # None
  /\ pc["client"] \in {"sendKey", "sendAuth", "awaitOk", "session"} =>
       know["client"].peer # None /\ know["client"].ns # None
  /\ pc["client"] \in {"sendAuth", "awaitOk", "session"} =>
       know["client"].ct # None /\ know["client"].pm # None

ServerKnows ==
  /\ pc["server"] \in {"sendHello", "awaitKey", "awaitAuth", "sendOk", "session"} =>
       know["server"].peer # None /\ know["server"].nc # None
  /\ pc["server"] \in {"awaitKey", "awaitAuth", "sendOk", "session"} => know["server"].ns # None
  /\ pc["server"] \in {"awaitAuth", "sendOk", "session"} =>
       know["server"].ct # None /\ know["server"].pm # None

(* What each kind of message under way says about its sender.               *)
HelloFromClient ==
  \A m \in InTransit("server") : m.type = "HELLO" =>
    /\ pc["client"] # "sendHello"
    /\ m.cert = assets["client"].cert
    /\ m.nonce = know["client"].nc

HelloFromServer ==
  \A m \in InTransit("client") : m.type = "HELLO" =>
    /\ pc["server"] \notin NoHello
    /\ m.cert = assets["server"].cert
    /\ m.nonce = know["server"].ns

KeyFromClient ==
  \A m \in InTransit("server") : m.type = "KEY_EXCHANGE" =>
    /\ pc["client"] \notin NoKey
    /\ know["client"].ct # None
    /\ m.ct = know["client"].ct

AuthFromClient ==
  \A m \in InTransit("server") : m.type = "AUTH_RESPONSE" =>
    /\ pc["client"] \notin NoAuth
    /\ m.signature = rsa_sign(assets["client"].key, Transcript(know["client"]))

OkFromServer ==
  \A m \in InTransit("client") : m.type = "SESSION_OK" =>
    /\ session["server"] # None
    /\ m.signature = rsa_sign(assets["server"].key, Transcript(know["server"]))

(* What an end has learnt is what the other one has, and will keep.         *)
ServerHeardHello ==
  know["server"].peer # None =>
    /\ pc["client"] # "sendHello"
    /\ know["server"].peer = assets["client"].cert
    /\ know["server"].nc = know["client"].nc
    /\ know["server"].peer.issuer = assets["server"].ca

ClientHeardHello ==
  know["client"].peer # None =>
    /\ pc["server"] \notin NoHello
    /\ pc["client"] \notin {"sendHello", "awaitHello"}
    /\ know["client"].peer = assets["server"].cert
    /\ know["client"].ns = know["server"].ns
    /\ know["client"].peer.issuer = assets["client"].ca
    /\ assets["client"].expected \in {None, know["client"].peer.subject}

ClientChoseKey ==
  know["client"].ct # None =>
    /\ pc["client"] \notin NoKey
    /\ know["client"].peer # None
    /\ know["client"].ct = rsa_oaep_encrypt(know["client"].peer.key, know["client"].pm)

ServerHeardKey ==
  know["server"].ct # None =>
    /\ pc["client"] \notin NoKey
    /\ pc["server"] \notin {"start", "awaitHello", "sendHello", "awaitKey"}
    /\ know["server"].peer # None
    /\ know["server"].ct = know["client"].ct
    /\ know["server"].pm = know["client"].pm

(* The server has verified the client's proof, and then the client the      *)
(* server's: only then has either a session, which it made of what it knows.*)
ServerConvinced ==
  pc["server"] \in {"sendOk", "session"} \/ session["server"] # None =>
    /\ pc["client"] \notin NoAuth
    /\ know["server"].ct # None
    /\ Transcript(know["server"]) = Transcript(know["client"])
    /\ know["server"].peer.key = assets["client"].key

ServerSession ==
  session["server"] # None =>
    /\ pc["server"] \notin Waiting \ {"session"}
    /\ session["server"] = SessionOf(know["server"])

ClientConvinced ==
  session["client"] # None =>
    /\ pc["client"] \notin Waiting \ {"session"}
    /\ know["client"].peer # None
    /\ session["server"] # None
    /\ session["client"] = SessionOf(know["client"])
    /\ know["client"].peer.key = assets["server"].key

IInv ==
  /\ TypeOK
  /\ assets["server"].expected = None
  /\ ClientKnows /\ ServerKnows
  /\ HelloFromClient /\ HelloFromServer /\ KeyFromClient /\ AuthFromClient /\ OkFromServer
  /\ ServerHeardHello /\ ClientHeardHello /\ ClientChoseKey /\ ServerHeardKey
  /\ ServerConvinced /\ ServerSession /\ ClientConvinced
----------------------------------------------------------------------------
(* Taking a message off a queue and putting one on.                         *)
LEMMA TakenOff ==
  ASSUME NEW S, NEW q \in Seq(S), q # <<>>
  PROVE  /\ Head(q) \in S /\ Head(q) \in Elements(q)
         /\ Tail(q) \in Seq(S) /\ Elements(Tail(q)) \subseteq Elements(q)
  BY DEF Elements

LEMMA PutOn ==
  ASSUME NEW S, NEW q \in Seq(S), NEW m \in S
  PROVE  Append(q, m) \in Seq(S) /\ Elements(Append(q, m)) \subseteq Elements(q) \union {m}
  BY DEF Elements

(* A message that is sent is all that is added to what is under way.        *)
LEMMA SendAdds ==
  ASSUME TypeOK, NEW e \in End, NEW m \in Message, Send(e, m)
  PROVE  /\ line' \in [End -> {"open", "fin", "reset", "closed"}]
         /\ queue' \in [End -> Seq(Message)]
         /\ InTransit(e)' \subseteq InTransit(e)
         /\ InTransit(Other(e))' \subseteq InTransit(Other(e)) \union {m}
<1>1. Other(e) \in End /\ Other(e) # e
  BY DEF End, Other
<1>2. CASE line[e] = "open" /\ queue' = [queue EXCEPT ![Other(e)] = Append(@, m)] /\ UNCHANGED line
  <2>1. queue[Other(e)] \in Seq(Message)
    BY <1>1 DEF TypeOK
  <2>2. /\ Append(queue[Other(e)], m) \in Seq(Message)
        /\ Elements(Append(queue[Other(e)], m)) \subseteq Elements(queue[Other(e)]) \union {m}
    BY <2>1, PutOn
  <2>3. queue'[e] = queue[e] /\ queue'[Other(e)] = Append(queue[Other(e)], m)
    BY <1>1, <1>2 DEF TypeOK
  <2> QED
    BY <1>1, <1>2, <2>2, <2>3 DEF TypeOK, InTransit
<1>3. CASE line[e] = "fin" /\ line' \in {line, [line EXCEPT ![e] = "reset"]} /\ UNCHANGED queue
  BY <1>1, <1>3 DEF TypeOK, InTransit
<1> QED
  BY <1>2, <1>3 DEF Send

(* An end that closes takes messages away and adds none.                    *)
LEMMA HangUpLoses ==
  ASSUME TypeOK, NEW e \in End, NEW q \in [End -> Seq(Message)], HangUp(e, q)
  PROVE  /\ line' \in [End -> {"open", "fin", "reset", "closed"}]
         /\ queue' \in [End -> Seq(Message)]
         /\ \A x \in End : InTransit(x)' \subseteq Elements(q[x])
<1>1. Other(e) \in End /\ Other(e) # e /\ \A x \in End : x = e \/ x = Other(e)
  BY DEF End, Other
<1>2. <<>> \in Seq(Message) /\ Elements(<<>>) = {}
  BY DEF Elements
<1> DEFINE rest == [q EXCEPT ![e] = <<>>]
<1>3. queue' \in {rest, [rest EXCEPT ![Other(e)] = <<>>]}
  BY DEF HangUp
<1>4. queue' \in [End -> Seq(Message)] /\ \A x \in End : queue'[x] \in {<<>>, q[x]}
  BY <1>1, <1>2, <1>3
<1>5. line' \in [End -> {"open", "fin", "reset", "closed"}]
  BY <1>1 DEF HangUp, TypeOK
<1> QED
  BY <1>2, <1>4, <1>5 DEF InTransit

----------------------------------------------------------------------------
(* Every way of giving up preserves the invariant: no end learns anything,  *)
(* and at most an ERROR is added to what is under way.                      *)
LEMMA RaisePreserves ==
  ASSUME IInv, NEW e \in End, NEW how \in Ended, NEW q \in [End -> Seq(Message)],
         \A x \in End : Elements(q[x]) \subseteq InTransit(x) \union {Error},
         Raise(e, how, q), UNCHANGED <<clock, assets>>, disturbed' \in {disturbed, TRUE}
  PROVE  IInv'
<1>1. /\ pc' = [pc EXCEPT ![e] = how] /\ HangUp(e, q)
      /\ UNCHANGED <<clock, assets, know, session>>
  BY DEF Raise, Goto
<1>2. TypeOK
  BY DEF IInv
<1>3. /\ line' \in [End -> {"open", "fin", "reset", "closed"}]
      /\ queue' \in [End -> Seq(Message)]
      /\ \A x \in End : InTransit(x)' \subseteq InTransit(x) \union {Error}
  BY <1>1, <1>2, HangUpLoses
<1>4. TypeOK'
  BY <1>1, <1>2, <1>3 DEF TypeOK
<1>5. \A x \in End : \A m \in InTransit(x)' : m.type # "ERROR" => m \in InTransit(x)
  BY <1>3 DEF Error
<1>6. how \notin Waiting /\ e \in {"client", "server"} /\ pc \in [End -> Waiting \union Ended]
  BY <1>2 DEF Ended, Waiting, End, TypeOK
<1>7. "client" \in End /\ "server" \in End
  BY DEF End
<1>8. (HelloFromClient /\ HelloFromServer /\ KeyFromClient /\ AuthFromClient /\ OkFromServer)'
  BY <1>1, <1>5, <1>6, <1>7
     DEF IInv, HelloFromClient, HelloFromServer, KeyFromClient, AuthFromClient, OkFromServer,
         NoHello, NoKey, NoAuth, Waiting, Transcript
<1>9. (ClientKnows /\ ServerKnows /\ ServerHeardHello /\ ClientHeardHello)'
  BY <1>1, <1>6, <1>7
     DEF IInv, ClientKnows, ServerKnows, ServerHeardHello, ClientHeardHello, NoHello, Waiting
<1>10. (ClientChoseKey /\ ServerHeardKey /\ ServerConvinced /\ ServerSession /\ ClientConvinced)'
  BY <1>1, <1>6, <1>7
     DEF IInv, ClientChoseKey, ServerHeardKey, ServerConvinced, ServerSession, ClientConvinced,
         NoKey, NoAuth, Waiting, Transcript, SessionOf
<1> QED
  BY <1>1, <1>4, <1>8, <1>9, <1>10 DEF IInv

----------------------------------------------------------------------------
(* The steps by which an end gets further: one that sends adds its message, *)
(* one that receives takes one off its queue.                               *)
LEMMA Ends ==
  /\ "client" \in End /\ "server" \in End
  /\ Other("client") = "server" /\ Other("server") = "client"
  BY DEF End, Other

LEMMA SendClientHelloPreserves == IInv /\ SendClientHello => IInv'
<1> SUFFICES ASSUME IInv, SendClientHello PROVE IInv'
  OBVIOUS
<1>1. /\ TypeOK /\ assets["client"] \in Assets /\ know["client"] \in Knowledge
      /\ pc["client"] = "sendHello"
  BY Ends DEF IInv, TypeOK, SendClientHello
<1>0. PICK n \in Nonce :
        Send("client", Hello(assets["client"].cert, n)) /\ know' = [know EXCEPT !["client"] = [know["client"] EXCEPT !.nc = n]]
  BY DEF SendClientHello, Learn
<1>2. /\ pc' = [pc EXCEPT !["client"] = "awaitHello"] /\ pc'["client"] = "awaitHello" /\ pc'["server"] = pc["server"]
      /\ UNCHANGED <<clock, assets, disturbed, session>>
  BY <1>1, Ends DEF TypeOK, SendClientHello, Goto
<1>3. assets["client"].cert \in Cert
  BY <1>1 DEF IInv, Assets
<1>4. Hello(assets["client"].cert, n) \in Message
  BY <1>0, <1>1, <1>3 DEF Message, Assets, Hello
<1>5. /\ line' \in [End -> {"open", "fin", "reset", "closed"}]
      /\ queue' \in [End -> Seq(Message)]
      /\ InTransit("client")' \subseteq InTransit("client")
      /\ InTransit("server")' \subseteq InTransit("server") \union {Hello(assets["client"].cert, n)}
  BY <1>0, <1>1, <1>4, SendAdds, Ends
<1>6. /\ know'["client"] = [know["client"] EXCEPT !.nc = n] /\ know'["server"] = know["server"]
      /\ know' \in [End -> Knowledge]
  BY <1>0, <1>1, <1>3, Ends DEF TypeOK, Knowledge
<1>7. TypeOK'
  BY <1>0, <1>1, <1>2, <1>5, <1>6, Ends DEF TypeOK, Waiting
<1>8. (HelloFromClient /\ HelloFromServer /\ KeyFromClient /\ AuthFromClient /\ OkFromServer)'
  BY <1>1, <1>2, <1>5, <1>6
     DEF IInv, HelloFromClient, HelloFromServer, KeyFromClient, AuthFromClient, OkFromServer, Hello, ServerSession,
         NoHello, NoKey, NoAuth, Waiting, Transcript
<1>9. (ClientKnows /\ ServerKnows /\ ServerHeardHello /\ ClientHeardHello)'
  BY <1>1, <1>2, <1>5, <1>6, HandshakeConstants
     DEF IInv, ClientKnows, ServerKnows, ServerHeardHello, ClientHeardHello, NoHello
<1>10. (ClientChoseKey /\ ServerHeardKey /\ ServerConvinced /\ ServerSession /\ ClientConvinced)'
  BY <1>1, <1>2, <1>5, <1>6
     DEF IInv, ClientKnows, ServerKnows, ClientChoseKey, ServerHeardKey, ServerConvinced, ServerSession,
         ClientConvinced, NoKey, NoAuth, Waiting, Transcript, SessionOf
<1> QED
  BY <1>2, <1>7, <1>8, <1>9, <1>10 DEF IInv

LEMMA SendKeyExchangePreserves == IInv /\ SendKeyExchange => IInv'
<1> SUFFICES ASSUME IInv, SendKeyExchange PROVE IInv'
  OBVIOUS
<1>1. /\ TypeOK /\ assets["client"] \in Assets /\ know["client"] \in Knowledge
      /\ pc["client"] = "sendKey"
  BY Ends DEF IInv, TypeOK, SendKeyExchange
<1>0. PICK s \in Secret :
        Send("client", KeyExchange(rsa_oaep_encrypt(know["client"].peer.key, s))) /\ know' = [know EXCEPT !["client"] = [know["client"] EXCEPT !.pm = s, !.ct = rsa_oaep_encrypt(know["client"].peer.key, s)]]
  BY Zenon DEF SendKeyExchange, Learn
<1>2. /\ pc' = [pc EXCEPT !["client"] = "sendAuth"] /\ pc'["client"] = "sendAuth" /\ pc'["server"] = pc["server"]
      /\ UNCHANGED <<clock, assets, disturbed, session>>
  BY <1>1, Ends DEF TypeOK, SendKeyExchange, Goto
<1>3. rsa_oaep_encrypt(know["client"].peer.key, s) \in Ciphertext /\ None \notin Ciphertext
  BY <1>0, <1>1, HandshakeConstants DEF IInv, ClientKnows, Knowledge, Cert, Ciphertext, rsa_oaep_encrypt
<1>4. KeyExchange(rsa_oaep_encrypt(know["client"].peer.key, s)) \in Message
  BY <1>0, <1>1, <1>3 DEF Message, Assets, KeyExchange
<1>5. /\ line' \in [End -> {"open", "fin", "reset", "closed"}]
      /\ queue' \in [End -> Seq(Message)]
      /\ InTransit("client")' \subseteq InTransit("client")
      /\ InTransit("server")' \subseteq InTransit("server") \union {KeyExchange(rsa_oaep_encrypt(know["client"].peer.key, s))}
  BY <1>0, <1>1, <1>4, SendAdds, Ends
<1>6. /\ know'["client"] = [know["client"] EXCEPT !.pm = s, !.ct = rsa_oaep_encrypt(know["client"].peer.key, s)] /\ know'["server"] = know["server"]
      /\ know' \in [End -> Knowledge]
  BY <1>0, <1>1, <1>3, Ends DEF TypeOK, Knowledge
<1>7. TypeOK'
  BY <1>0, <1>1, <1>2, <1>5, <1>6, Ends DEF TypeOK, Waiting
<1>8. (HelloFromClient /\ HelloFromServer /\ KeyFromClient /\ AuthFromClient /\ OkFromServer)'
  BY <1>1, <1>2, <1>5, <1>6, <1>3
     DEF IInv, HelloFromClient, HelloFromServer, KeyFromClient, AuthFromClient, OkFromServer, KeyExchange, ServerSession,
         NoHello, NoKey, NoAuth, Waiting, Transcript
<1>9. (ClientKnows /\ ServerKnows /\ ServerHeardHello /\ ClientHeardHello)'
  BY <1>1, <1>2, <1>5, <1>6, <1>3, HandshakeConstants
     DEF IInv, ClientKnows, ServerKnows, ServerHeardHello, ClientHeardHello, NoHello
<1>10. (ClientChoseKey /\ ServerHeardKey /\ ServerConvinced /\ ServerSession /\ ClientConvinced)'
  BY <1>1, <1>2, <1>5, <1>6, <1>3
     DEF IInv, ClientKnows, ServerKnows, ClientChoseKey, ServerHeardKey, ServerConvinced, ServerSession,
         ClientConvinced, NoKey, NoAuth, Waiting, Transcript, SessionOf
<1> QED
  BY <1>2, <1>7, <1>8, <1>9, <1>10 DEF IInv

LEMMA SendAuthResponsePreserves == IInv /\ SendAuthResponse => IInv'
<1> SUFFICES ASSUME IInv, SendAuthResponse PROVE IInv'
  OBVIOUS
<1>1. /\ TypeOK /\ assets["client"] \in Assets /\ know["client"] \in Knowledge
      /\ pc["client"] = "sendAuth"
  BY Ends DEF IInv, TypeOK, SendAuthResponse
<1>0. Send("client", AuthResponse(rsa_sign(assets["client"].key, Transcript(know["client"])))) /\ know' = know
  BY DEF SendAuthResponse
<1>2. /\ pc' = [pc EXCEPT !["client"] = "awaitOk"] /\ pc'["client"] = "awaitOk" /\ pc'["server"] = pc["server"]
      /\ UNCHANGED <<clock, assets, disturbed, session>>
  BY <1>1, Ends DEF TypeOK, SendAuthResponse, Goto
<1>3. know["client"].nc \in Nonce /\ know["client"].ns \in Nonce /\ know["client"].ct \in Ciphertext
  BY <1>1 DEF IInv, ClientKnows, Knowledge
<1>4. AuthResponse(rsa_sign(assets["client"].key, Transcript(know["client"]))) \in Message
  BY <1>0, <1>1, <1>3 DEF Message, Assets, Signature, AuthResponse, rsa_sign, Transcript, build_transcript_hash
<1>5. /\ line' \in [End -> {"open", "fin", "reset", "closed"}]
      /\ queue' \in [End -> Seq(Message)]
      /\ InTransit("client")' \subseteq InTransit("client")
      /\ InTransit("server")' \subseteq InTransit("server") \union {AuthResponse(rsa_sign(assets["client"].key, Transcript(know["client"])))}
  BY <1>0, <1>1, <1>4, SendAdds, Ends
<1>7. TypeOK'
  BY <1>0, <1>1, <1>2, <1>5, Ends DEF TypeOK, Waiting
<1>8. (HelloFromClient /\ HelloFromServer /\ KeyFromClient /\ AuthFromClient /\ OkFromServer)'
  BY <1>0, <1>1, <1>2, <1>5
     DEF IInv, HelloFromClient, HelloFromServer, KeyFromClient, AuthFromClient, OkFromServer, AuthResponse, ServerSession,
         NoHello, NoKey, NoAuth, Waiting, Transcript
<1>9. (ClientKnows /\ ServerKnows /\ ServerHeardHello /\ ClientHeardHello)'
  BY <1>0, <1>1, <1>2, <1>5, HandshakeConstants
     DEF IInv, ClientKnows, ServerKnows, ServerHeardHello, ClientHeardHello, NoHello
<1>10. (ClientChoseKey /\ ServerHeardKey /\ ServerConvinced /\ ServerSession /\ ClientConvinced)'
  BY <1>0, <1>1, <1>2, <1>5
     DEF IInv, ClientKnows, ServerKnows, ClientChoseKey, ServerHeardKey, ServerConvinced, ServerSession,
         ClientConvinced, NoKey, NoAuth, Waiting, Transcript, SessionOf
<1> QED
  BY <1>2, <1>7, <1>8, <1>9, <1>10 DEF IInv

LEMMA SendServerHelloPreserves == IInv /\ SendServerHello => IInv'
<1> SUFFICES ASSUME IInv, SendServerHello PROVE IInv'
  OBVIOUS
<1>1. /\ TypeOK /\ assets["server"] \in Assets /\ know["server"] \in Knowledge
      /\ pc["server"] = "sendHello"
  BY Ends DEF IInv, TypeOK, SendServerHello
<1>0. PICK n \in Nonce :
        Send("server", Hello(assets["server"].cert, n)) /\ know' = [know EXCEPT !["server"] = [know["server"] EXCEPT !.ns = n]]
  BY DEF SendServerHello, Learn
<1>2. /\ pc' = [pc EXCEPT !["server"] = "awaitKey"] /\ pc'["server"] = "awaitKey" /\ pc'["client"] = pc["client"]
      /\ UNCHANGED <<clock, assets, disturbed, session>>
  BY <1>1, Ends DEF TypeOK, SendServerHello, Goto
<1>3. assets["server"].cert \in Cert
  BY <1>1 DEF IInv, Assets
<1>4. Hello(assets["server"].cert, n) \in Message
  BY <1>0, <1>1, <1>3 DEF Message, Assets, Hello
<1>5. /\ line' \in [End -> {"open", "fin", "reset", "closed"}]
      /\ queue' \in [End -> Seq(Message)]
      /\ InTransit("server")' \subseteq InTransit("server")
      /\ InTransit("client")' \subseteq InTransit("client") \union {Hello(assets["server"].cert, n)}
  BY <1>0, <1>1, <1>4, SendAdds, Ends
<1>6. /\ know'["server"] = [know["server"] EXCEPT !.ns = n] /\ know'["client"] = know["client"]
      /\ know' \in [End -> Knowledge]
  BY <1>0, <1>1, <1>3, Ends DEF TypeOK, Knowledge
<1>7. TypeOK'
  BY <1>0, <1>1, <1>2, <1>5, <1>6, Ends DEF TypeOK, Waiting
<1>8. (HelloFromClient /\ HelloFromServer /\ KeyFromClient /\ AuthFromClient /\ OkFromServer)'
  BY <1>1, <1>2, <1>5, <1>6
     DEF IInv, HelloFromClient, HelloFromServer, KeyFromClient, AuthFromClient, OkFromServer, Hello, ServerSession,
         NoHello, NoKey, NoAuth, Waiting, Transcript
<1>9. (ClientKnows /\ ServerKnows /\ ServerHeardHello /\ ClientHeardHello)'
  BY <1>1, <1>2, <1>5, <1>6, HandshakeConstants
     DEF IInv, ClientKnows, ServerKnows, ServerHeardHello, ClientHeardHello, NoHello
<1>10. (ClientChoseKey /\ ServerHeardKey /\ ServerConvinced /\ ServerSession /\ ClientConvinced)'
  BY <1>1, <1>2, <1>5, <1>6
     DEF IInv, ClientKnows, ServerKnows, ClientChoseKey, ServerHeardKey, ServerConvinced, ServerSession,
         ClientConvinced, NoKey, NoAuth, Waiting, Transcript, SessionOf
<1> QED
  BY <1>2, <1>7, <1>8, <1>9, <1>10 DEF IInv

LEMMA SendSessionOkPreserves == IInv /\ SendSessionOk => IInv'
<1> SUFFICES ASSUME IInv, SendSessionOk PROVE IInv'
  OBVIOUS
<1>1. /\ TypeOK /\ assets["server"] \in Assets /\ know["server"] \in Knowledge
      /\ pc["server"] = "sendOk"
  BY Ends DEF IInv, TypeOK, SendSessionOk
<1>0. Send("server", SessionOk(rsa_sign(assets["server"].key, Transcript(know["server"])))) /\ know' = know
  BY DEF SendSessionOk
<1> DEFINE made == SessionOf(know["server"])
<1>2. /\ pc' = [pc EXCEPT !["server"] = "session"] /\ pc'["server"] = "session" /\ pc'["client"] = pc["client"]
      /\ UNCHANGED <<clock, assets, disturbed>>
  BY <1>1, Ends DEF TypeOK, SendSessionOk, Goto
<1>3. /\ know["server"].nc \in Nonce /\ know["server"].ns \in Nonce /\ know["server"].ct \in Ciphertext
      /\ know["server"].peer \in Cert /\ know["server"].pm \in Secret
  BY <1>1 DEF IInv, ServerKnows, Knowledge
<1>4. SessionOk(rsa_sign(assets["server"].key, Transcript(know["server"]))) \in Message
  BY <1>0, <1>1, <1>3 DEF Message, Assets, Signature, SessionOk, rsa_sign, Transcript, build_transcript_hash
<1>5. /\ line' \in [End -> {"open", "fin", "reset", "closed"}]
      /\ queue' \in [End -> Seq(Message)]
      /\ InTransit("server")' \subseteq InTransit("server")
      /\ InTransit("client")' \subseteq InTransit("client") \union {SessionOk(rsa_sign(assets["server"].key, Transcript(know["server"])))}
  BY <1>0, <1>1, <1>4, SendAdds, Ends
<1>6. /\ made \in Session /\ made # None
      /\ session'["server"] = made /\ session'["client"] = session["client"]
      /\ session' \in [End -> Session \union {None}]
  <2>1. know["server"].nc \in Nonce /\ know["server"].ns \in Nonce
    BY <1>3
  <2> DEFINE salt == <<know["server"].nc, know["server"].ns>>
  <2>7. salt \in Nonce \X Nonce
    BY <2>1
  <2> HIDE DEF salt
  <2>2. ASSUME NEW label PROVE <<know["server"].pm, salt, label>> \in Derived(label)
    BY <1>3, <2>7 DEF Derived
  <2>3. hkdf_derive(know["server"].pm, salt)
          \in [c2s : Derived("first"), s2c : Derived("second")]
    BY <2>2 DEF hkdf_derive
  <2>4. Transcript(know["server"]) \in Nonce \X Nonce \X Ciphertext
    BY <1>3 DEF Transcript, build_transcript_hash
  <2>5. made \in Session
    BY <1>3, <2>3, <2>4 DEF SessionOf, Session, salt
  <2>6. session' = [session EXCEPT !["server"] = made]
    BY DEF SendSessionOk
  <2> QED
    BY <2>5, <2>6, Ends, HandshakeConstants, <1>1 DEF TypeOK
<1> HIDE DEF made
<1>7. TypeOK'
  BY <1>0, <1>1, <1>2, <1>5, <1>6, Ends DEF TypeOK, Waiting
<1>8. (HelloFromClient /\ HelloFromServer /\ KeyFromClient /\ AuthFromClient /\ OkFromServer)'
  BY <1>0, <1>1, <1>2, <1>5, <1>6, <1>3
     DEF IInv, HelloFromClient, HelloFromServer, KeyFromClient, AuthFromClient, OkFromServer, SessionOk, ServerSession,
         NoHello, NoKey, NoAuth, Waiting, Transcript
<1>9. (ClientKnows /\ ServerKnows /\ ServerHeardHello /\ ClientHeardHello)'
  BY <1>0, <1>1, <1>2, <1>5, <1>6, <1>3, HandshakeConstants
     DEF IInv, ClientKnows, ServerKnows, ServerHeardHello, ClientHeardHello, NoHello
<1>10. (ClientChoseKey /\ ServerHeardKey /\ ServerConvinced /\ ServerSession /\ ClientConvinced)'
  BY <1>0, <1>1, <1>2, <1>5, <1>6, <1>3
     DEF IInv, ClientKnows, ServerKnows, ClientChoseKey, ServerHeardKey, ServerConvinced, ServerSession,
         ClientConvinced, NoKey, NoAuth, Waiting, Transcript, made
<1> QED
  BY <1>2, <1>7, <1>8, <1>9, <1>10 DEF IInv

----------------------------------------------------------------------------
(* What is left when an end has taken a message, and what a refusal adds.   *)
LEMMA ReceivedTakes ==
  ASSUME TypeOK, NEW e \in End, queue[e] # <<>>
  PROVE  /\ Head(queue[e]) \in Message /\ Head(queue[e]) \in InTransit(e)
         /\ Received(e) \in [End -> Seq(Message)]
         /\ \A x \in End : Elements(Received(e)[x]) \subseteq InTransit(x)
<1>1. queue[e] \in Seq(Message)
  BY DEF TypeOK
<1>2. /\ Head(queue[e]) \in Message /\ Head(queue[e]) \in Elements(queue[e])
      /\ Tail(queue[e]) \in Seq(Message) /\ Elements(Tail(queue[e])) \subseteq Elements(queue[e])
  BY <1>1, TakenOff
<1>3. Received(e) \in [End -> Seq(Message)]
      /\ \A x \in End : Received(e)[x] = IF x = e THEN Tail(queue[e]) ELSE queue[x]
  BY <1>2 DEF TypeOK, Received
<1> QED
  BY <1>2, <1>3 DEF InTransit

LEMMA RefusePreserves == IInv /\ Refuse => IInv'
<1> SUFFICES ASSUME IInv, Refuse PROVE IInv'
  OBVIOUS
<1> DEFINE told == [queue EXCEPT !["client"] = Append(@, Error)]
<1>1. queue \in [End -> Seq(Message)] /\ \A x \in End : Elements(queue[x]) = InTransit(x)
  BY DEF IInv, TypeOK, InTransit
<1>2. /\ Append(queue["client"], Error) \in Seq(Message)
      /\ Elements(Append(queue["client"], Error)) \subseteq Elements(queue["client"]) \union {Error}
  BY <1>1, PutOn, Ends DEF Message
<1>3. /\ told \in [End -> Seq(Message)]
      /\ \A x \in End : Elements(told[x]) \subseteq InTransit(x) \union {Error}
  BY <1>1, <1>2, Ends
<1>4. /\ Raise("server", "AuthError", told) \/ Raise("server", "AuthError", queue)
      /\ UNCHANGED <<clock, assets, disturbed>>
  BY DEF Refuse
<1> HIDE DEF told
<1>5. "AuthError" \in Ended
  BY DEF Ended
<1> QED
  BY <1>1, <1>3, <1>4, <1>5, Ends, RaisePreserves

LEMMA GivingUpPreserves ==
  ASSUME IInv, NEW e \in End, NEW how \in Ended, Raise(e, how, queue),
         UNCHANGED <<clock, assets>>, disturbed' \in {disturbed, TRUE}
  PROVE  IInv'
<1>1. queue \in [End -> Seq(Message)] /\ \A x \in End : Elements(queue[x]) \subseteq InTransit(x) \union {Error}
  BY DEF IInv, TypeOK, InTransit
<1> QED
  BY <1>1, RaisePreserves

(* Time passes, a server starts to serve or is about to refuse, or the      *)
(* network fails: nothing the invariant speaks of is added.                 *)
LEMMA QuietPreserves ==
  ASSUME IInv, TypeOK', UNCHANGED <<assets, know, session>>,
         \A e \in End : InTransit(e)' \subseteq InTransit(e),
         \/ UNCHANGED pc
         \/ pc["server"] = "start" /\ pc' = [pc EXCEPT !["server"] = "awaitHello"]
         \/ pc["server"] \in {"awaitHello", "awaitKey", "awaitAuth"} /\ pc' = [pc EXCEPT !["server"] = "refuse"]
  PROVE  IInv'
<1>1. /\ pc'["client"] = pc["client"]
      /\ \/ pc'["server"] = pc["server"]
         \/ pc["server"] = "start" /\ pc'["server"] = "awaitHello"
         \/ pc["server"] \in {"awaitHello", "awaitKey", "awaitAuth"} /\ pc'["server"] = "refuse"
  BY Ends DEF IInv, TypeOK
<1>2. (HelloFromClient /\ HelloFromServer /\ KeyFromClient /\ AuthFromClient /\ OkFromServer)'
  BY <1>1, Ends
     DEF IInv, HelloFromClient, HelloFromServer, KeyFromClient, AuthFromClient, OkFromServer,
         NoHello, NoKey, NoAuth, Transcript
<1>3. (ClientKnows /\ ServerKnows /\ ServerHeardHello /\ ClientHeardHello)'
  BY <1>1 DEF IInv, ClientKnows, ServerKnows, ServerHeardHello, ClientHeardHello, NoHello
<1>4. (ClientChoseKey /\ ServerHeardKey /\ ServerConvinced /\ ServerSession /\ ClientConvinced)'
  BY <1>1
     DEF IInv, ClientChoseKey, ServerHeardKey, ServerConvinced, ServerSession, ClientConvinced,
         NoKey, NoAuth, Waiting, Transcript, SessionOf
<1> QED
  BY <1>2, <1>3, <1>4 DEF IInv

LEMMA DeclinePreserves ==
  ASSUME IInv, pc["server"] \in {"awaitHello", "awaitKey", "awaitAuth"},
         NEW q \in [End -> Seq(Message)], \A x \in End : Elements(q[x]) \subseteq InTransit(x),
         Decline(q), UNCHANGED <<clock, assets, disturbed>>
  PROVE  IInv'
<1>1. pc' = [pc EXCEPT !["server"] = "refuse"] /\ queue' = q /\ UNCHANGED <<know, session, line>>
  BY DEF Decline, Goto
<1>2. TypeOK'
  BY <1>1, Ends DEF IInv, TypeOK, Waiting
<1>3. \A x \in End : InTransit(x)' \subseteq InTransit(x)
  BY <1>1 DEF InTransit
<1> QED
  BY <1>1, <1>2, <1>3, QuietPreserves

(* Taking a message and going on.                                           *)
LEMMA ReceiveTakes ==
  ASSUME TypeOK, NEW e \in End, queue[e] # <<>>, Receive(e)
  PROVE  /\ line' \in [End -> {"open", "fin", "reset", "closed"}]
         /\ queue' \in [End -> Seq(Message)]
         /\ \A x \in End : InTransit(x)' \subseteq InTransit(x)
<1>1. queue' = Received(e) /\ line' = line
  BY DEF Receive
<1> QED
  BY <1>1, ReceivedTakes DEF TypeOK, InTransit

LEMMA TakeClientHelloPreserves == IInv /\ TakeClientHello => IInv'
<1> SUFFICES ASSUME IInv, TakeClientHello PROVE IInv'
  OBVIOUS
<1> DEFINE m == Head(queue["server"])
<1>1. /\ TypeOK /\ assets["server"] \in Assets /\ know["server"] \in Knowledge
      /\ pc["server"] = "awaitHello" /\ queue["server"] # <<>> /\ UNCHANGED <<clock, assets, disturbed>>
  BY Ends DEF IInv, TypeOK, TakeClientHello
<1>2. /\ m \in Message /\ m \in InTransit("server")
      /\ Received("server") \in [End -> Seq(Message)]
      /\ \A x \in End : Elements(Received("server")[x]) \subseteq InTransit(x)
  BY <1>1, Ends, ReceivedTakes
<1>3. CASE Decline(Received("server"))
  BY <1>1, <1>2, <1>3, DeclinePreserves
<1>4. CASE /\ m.type = "HELLO" /\ verify_certificate(m.cert, assets["server"].ca, None)
           /\ know' = [know EXCEPT !["server"] = [know["server"] EXCEPT !.peer = m.cert, !.nc = m.nonce]]
           /\ session' = session
           /\ pc' = [pc EXCEPT !["server"] = "sendHello"]
           /\ Receive("server")
  <2>1. /\ m.cert \in Cert /\ m.nonce \in Nonce /\ m.cert.issuer = assets["server"].ca
        /\ m.cert = assets["client"].cert /\ m.nonce = know["client"].nc /\ pc["client"] # "sendHello"
        /\ m.cert # None /\ m.nonce # None
    BY <1>2, <1>4, HandshakeConstants DEF IInv, HelloFromClient, Message, Error, verify_certificate
  <2>2. pc'["server"] = "sendHello" /\ pc'["client"] = pc["client"]
    BY <1>1, <1>4, Ends DEF TypeOK
  <2>5. /\ line' \in [End -> {"open", "fin", "reset", "closed"}]
        /\ queue' \in [End -> Seq(Message)]
        /\ InTransit("client")' \subseteq InTransit("client")
        /\ InTransit("server")' \subseteq InTransit("server")
    BY <1>1, <1>4, Ends, ReceiveTakes
  <2>6. /\ know'["server"] = [know["server"] EXCEPT !.peer = m.cert, !.nc = m.nonce] /\ know'["client"] = know["client"]
        /\ know' \in [End -> Knowledge]
    BY <1>1, <1>4, <2>1, Ends DEF TypeOK, Knowledge
  <2> HIDE DEF m
  <2>7. TypeOK'
    BY <1>1, <1>4, <2>1, <2>2, <2>5, <2>6, Ends DEF TypeOK, Waiting
  <2>8. (HelloFromClient /\ HelloFromServer /\ KeyFromClient /\ AuthFromClient /\ OkFromServer)'
    BY <1>1, <1>4, <2>1, <2>2, <2>5, <2>6
       DEF IInv, HelloFromClient, HelloFromServer, KeyFromClient, AuthFromClient, OkFromServer, ServerSession,
           NoHello, NoKey, NoAuth, Waiting, Transcript
  <2>9. (ClientKnows /\ ServerKnows /\ ServerHeardHello /\ ClientHeardHello)'
    BY <1>1, <1>4, <2>1, <2>2, <2>5, <2>6, HandshakeConstants
       DEF IInv, ClientKnows, ServerKnows, ServerHeardHello, ClientHeardHello, NoHello
  <2>10. (ClientChoseKey /\ ServerHeardKey /\ ServerConvinced /\ ServerSession /\ ClientConvinced)'
    BY <1>1, <1>4, <2>1, <2>2, <2>5, <2>6
       DEF IInv, ClientKnows, ServerKnows, ClientChoseKey, ServerHeardKey, ServerConvinced, ServerSession,
           ClientConvinced, NoKey, NoAuth, Waiting, Transcript, SessionOf
  <2> QED
    BY <1>1, <2>7, <2>8, <2>9, <2>10 DEF IInv
<1> QED
  BY <1>3, <1>4 DEF TakeClientHello, Goto, Learn

LEMMA TakeKeyExchangePreserves == IInv /\ TakeKeyExchange => IInv'
<1> SUFFICES ASSUME IInv, TakeKeyExchange PROVE IInv'
  OBVIOUS
<1> DEFINE m == Head(queue["server"])
<1>1. /\ TypeOK /\ assets["server"] \in Assets /\ know["server"] \in Knowledge
      /\ pc["server"] = "awaitKey" /\ queue["server"] # <<>> /\ UNCHANGED <<clock, assets, disturbed>>
  BY Ends DEF IInv, TypeOK, TakeKeyExchange
<1>2. /\ m \in Message /\ m \in InTransit("server")
      /\ Received("server") \in [End -> Seq(Message)]
      /\ \A x \in End : Elements(Received("server")[x]) \subseteq InTransit(x)
  BY <1>1, Ends, ReceivedTakes
<1>3. CASE Decline(Received("server"))
  BY <1>1, <1>2, <1>3, DeclinePreserves
<1>4. CASE /\ m.type = "KEY_EXCHANGE"
           /\ know' = [know EXCEPT !["server"] = [know["server"] EXCEPT !.ct = m.ct, !.pm = rsa_oaep_decrypt(m.ct)]]
           /\ session' = session
           /\ pc' = [pc EXCEPT !["server"] = "awaitAuth"]
           /\ Receive("server")
  <2>1. /\ m.ct \in Ciphertext /\ rsa_oaep_decrypt(m.ct) \in Secret
        /\ m.ct # None /\ rsa_oaep_decrypt(m.ct) # None
        /\ m.ct = know["client"].ct /\ rsa_oaep_decrypt(m.ct) = know["client"].pm
        /\ pc["client"] \notin NoKey
    BY <1>2, <1>4, HandshakeConstants
       DEF IInv, KeyFromClient, ClientChoseKey, Message, Error, Ciphertext, rsa_oaep_encrypt, rsa_oaep_decrypt
  <2>2. pc'["server"] = "awaitAuth" /\ pc'["client"] = pc["client"]
    BY <1>1, <1>4, Ends DEF TypeOK
  <2>5. /\ line' \in [End -> {"open", "fin", "reset", "closed"}]
        /\ queue' \in [End -> Seq(Message)]
        /\ InTransit("client")' \subseteq InTransit("client")
        /\ InTransit("server")' \subseteq InTransit("server")
    BY <1>1, <1>4, Ends, ReceiveTakes
  <2>6. /\ know'["server"] = [know["server"] EXCEPT !.ct = m.ct, !.pm = rsa_oaep_decrypt(m.ct)] /\ know'["client"] = know["client"]
        /\ know' \in [End -> Knowledge]
    BY <1>1, <1>4, <2>1, Ends DEF TypeOK, Knowledge
  <2> HIDE DEF m
  <2>7. TypeOK'
    BY <1>1, <1>4, <2>1, <2>2, <2>5, <2>6, Ends DEF TypeOK, Waiting
  <2>8. (HelloFromClient /\ HelloFromServer /\ KeyFromClient /\ AuthFromClient /\ OkFromServer)'
    BY <1>1, <1>4, <2>1, <2>2, <2>5, <2>6
       DEF IInv, HelloFromClient, HelloFromServer, KeyFromClient, AuthFromClient, OkFromServer, ServerSession,
           NoHello, NoKey, NoAuth, Waiting, Transcript
  <2>9. (ClientKnows /\ ServerKnows /\ ServerHeardHello /\ ClientHeardHello)'
    BY <1>1, <1>4, <2>1, <2>2, <2>5, <2>6, HandshakeConstants
       DEF IInv, ClientKnows, ServerKnows, ServerHeardHello, ClientHeardHello, NoHello
  <2>10. (ClientChoseKey /\ ServerHeardKey /\ ServerConvinced /\ ServerSession /\ ClientConvinced)'
    BY <1>1, <1>4, <2>1, <2>2, <2>5, <2>6
       DEF IInv, ClientKnows, ServerKnows, ClientChoseKey, ServerHeardKey, ServerConvinced, ServerSession,
           ClientConvinced, NoKey, NoAuth, Waiting, Transcript, SessionOf
  <2> QED
    BY <1>1, <2>7, <2>8, <2>9, <2>10 DEF IInv
<1> QED
  BY <1>3, <1>4 DEF TakeKeyExchange, Goto, Learn

LEMMA TakeAuthResponsePreserves == IInv /\ TakeAuthResponse => IInv'
<1> SUFFICES ASSUME IInv, TakeAuthResponse PROVE IInv'
  OBVIOUS
<1> DEFINE m == Head(queue["server"])
<1>1. /\ TypeOK /\ assets["server"] \in Assets /\ know["server"] \in Knowledge
      /\ pc["server"] = "awaitAuth" /\ queue["server"] # <<>> /\ UNCHANGED <<clock, assets, disturbed>>
  BY Ends DEF IInv, TypeOK, TakeAuthResponse
<1>2. /\ m \in Message /\ m \in InTransit("server")
      /\ Received("server") \in [End -> Seq(Message)]
      /\ \A x \in End : Elements(Received("server")[x]) \subseteq InTransit(x)
  BY <1>1, Ends, ReceivedTakes
<1>3. CASE Decline(Received("server"))
  BY <1>1, <1>2, <1>3, DeclinePreserves
<1>4. CASE /\ m.type = "AUTH_RESPONSE" /\ rsa_verify(know["server"].peer.key, Transcript(know["server"]), m.signature)
           /\ know' = know
           /\ session' = session
           /\ pc' = [pc EXCEPT !["server"] = "sendOk"]
           /\ Receive("server")
  <2>1. /\ pc["client"] \notin NoAuth /\ know["server"].ct # None
        /\ Transcript(know["server"]) = Transcript(know["client"])
        /\ know["server"].peer.key = assets["client"].key
    BY <1>1, <1>2, <1>4 DEF IInv, AuthFromClient, ServerKnows, rsa_verify, rsa_sign
  <2>2. pc'["server"] = "sendOk" /\ pc'["client"] = pc["client"]
    BY <1>1, <1>4, Ends DEF TypeOK
  <2>5. /\ line' \in [End -> {"open", "fin", "reset", "closed"}]
        /\ queue' \in [End -> Seq(Message)]
        /\ InTransit("client")' \subseteq InTransit("client")
        /\ InTransit("server")' \subseteq InTransit("server")
    BY <1>1, <1>4, Ends, ReceiveTakes
  <2> HIDE DEF m
  <2>7. TypeOK'
    BY <1>1, <1>4, <2>1, <2>2, <2>5, Ends DEF TypeOK, Waiting
  <2>8. (HelloFromClient /\ HelloFromServer /\ KeyFromClient /\ AuthFromClient /\ OkFromServer)'
    BY <1>1, <1>4, <2>1, <2>2, <2>5
       DEF IInv, HelloFromClient, HelloFromServer, KeyFromClient, AuthFromClient, OkFromServer, ServerSession,
           NoHello, NoKey, NoAuth, Waiting, Transcript
  <2>9. (ClientKnows /\ ServerKnows /\ ServerHeardHello /\ ClientHeardHello)'
    BY <1>1, <1>4, <2>1, <2>2, <2>5, HandshakeConstants
       DEF IInv, ClientKnows, ServerKnows, ServerHeardHello, ClientHeardHello, NoHello
  <2>10. (ClientChoseKey /\ ServerHeardKey /\ ServerConvinced /\ ServerSession /\ ClientConvinced)'
    BY <1>1, <1>4, <2>1, <2>2, <2>5
       DEF IInv, ClientKnows, ServerKnows, ClientChoseKey, ServerHeardKey, ServerConvinced, ServerSession,
           ClientConvinced, NoKey, NoAuth, Waiting, Transcript, SessionOf
  <2> QED
    BY <1>1, <2>7, <2>8, <2>9, <2>10 DEF IInv
<1> QED
  BY <1>3, <1>4 DEF TakeAuthResponse, Goto, Raise

LEMMA TakeServerHelloPreserves == IInv /\ TakeServerHello => IInv'
<1> SUFFICES ASSUME IInv, TakeServerHello PROVE IInv'
  OBVIOUS
<1> DEFINE m == Head(queue["client"])
<1>1. /\ TypeOK /\ assets["client"] \in Assets /\ know["client"] \in Knowledge
      /\ pc["client"] = "awaitHello" /\ queue["client"] # <<>> /\ UNCHANGED <<clock, assets, disturbed>>
  BY Ends DEF IInv, TypeOK, TakeServerHello
<1>2. /\ m \in Message /\ m \in InTransit("client")
      /\ Received("client") \in [End -> Seq(Message)]
      /\ \A x \in End : Elements(Received("client")[x]) \subseteq InTransit(x)
  BY <1>1, Ends, ReceivedTakes
<1>3. CASE Raise("client", "AuthError", Received("client"))
  BY <1>1, <1>2, <1>3, Ends, RaisePreserves DEF Ended
<1>4. CASE /\ m.type = "HELLO" /\ verify_certificate(m.cert, assets["client"].ca, assets["client"].expected)
           /\ know' = [know EXCEPT !["client"] = [know["client"] EXCEPT !.peer = m.cert, !.ns = m.nonce]]
           /\ session' = session
           /\ pc' = [pc EXCEPT !["client"] = "sendKey"]
           /\ Receive("client")
  <2>1. /\ m.cert \in Cert /\ m.nonce \in Nonce /\ m.cert.issuer = assets["client"].ca
        /\ assets["client"].expected \in {None, m.cert.subject}
        /\ m.cert = assets["server"].cert /\ m.nonce = know["server"].ns /\ pc["server"] \notin NoHello
        /\ m.cert # None /\ m.nonce # None
    BY <1>2, <1>4, HandshakeConstants DEF IInv, HelloFromServer, Message, Error, verify_certificate
  <2>2. pc'["client"] = "sendKey" /\ pc'["server"] = pc["server"]
    BY <1>1, <1>4, Ends DEF TypeOK
  <2>5. /\ line' \in [End -> {"open", "fin", "reset", "closed"}]
        /\ queue' \in [End -> Seq(Message)]
        /\ InTransit("client")' \subseteq InTransit("client")
        /\ InTransit("server")' \subseteq InTransit("server")
    BY <1>1, <1>4, Ends, ReceiveTakes
  <2>6. /\ know'["client"] = [know["client"] EXCEPT !.peer = m.cert, !.ns = m.nonce] /\ know'["server"] = know["server"]
        /\ know' \in [End -> Knowledge]
    BY <1>1, <1>4, <2>1, Ends DEF TypeOK, Knowledge
  <2> HIDE DEF m
  <2>7. TypeOK'
    BY <1>1, <1>4, <2>1, <2>2, <2>5, <2>6, Ends DEF TypeOK, Waiting
  <2>8. (HelloFromClient /\ HelloFromServer /\ KeyFromClient /\ AuthFromClient /\ OkFromServer)'
    BY <1>1, <1>4, <2>1, <2>2, <2>5, <2>6
       DEF IInv, HelloFromClient, HelloFromServer, KeyFromClient, AuthFromClient, OkFromServer, ServerSession,
           NoHello, NoKey, NoAuth, Waiting, Transcript
  <2>9. (ClientKnows /\ ServerKnows /\ ServerHeardHello /\ ClientHeardHello)'
    BY <1>1, <1>4, <2>1, <2>2, <2>5, <2>6, HandshakeConstants
       DEF IInv, ClientKnows, ServerKnows, ServerHeardHello, ClientHeardHello, NoHello
  <2>10. (ClientChoseKey /\ ServerHeardKey /\ ServerConvinced /\ ServerSession /\ ClientConvinced)'
    BY <1>1, <1>4, <2>1, <2>2, <2>5, <2>6
       DEF IInv, ClientKnows, ServerKnows, ClientChoseKey, ServerHeardKey, ServerConvinced, ServerSession,
           ClientConvinced, NoKey, NoAuth, Waiting, Transcript, SessionOf
  <2> QED
    BY <1>1, <2>7, <2>8, <2>9, <2>10 DEF IInv
<1> QED
  BY <1>3, <1>4 DEF TakeServerHello, Goto, Learn

LEMMA TakeSessionOkPreserves == IInv /\ TakeSessionOk => IInv'
<1> SUFFICES ASSUME IInv, TakeSessionOk PROVE IInv'
  OBVIOUS
<1> DEFINE m == Head(queue["client"])
<1>1. /\ TypeOK /\ assets["client"] \in Assets /\ know["client"] \in Knowledge
      /\ pc["client"] = "awaitOk" /\ queue["client"] # <<>> /\ UNCHANGED <<clock, assets, disturbed>>
  BY Ends DEF IInv, TypeOK, TakeSessionOk
<1>2. /\ m \in Message /\ m \in InTransit("client")
      /\ Received("client") \in [End -> Seq(Message)]
      /\ \A x \in End : Elements(Received("client")[x]) \subseteq InTransit(x)
  BY <1>1, Ends, ReceivedTakes
<1>3. CASE Raise("client", "AuthError", Received("client"))
  BY <1>1, <1>2, <1>3, Ends, RaisePreserves DEF Ended
<1>4. CASE /\ m.type = "SESSION_OK" /\ rsa_verify(know["client"].peer.key, Transcript(know["client"]), m.signature)
           /\ know' = know
           /\ session' = [session EXCEPT !["client"] = SessionOf(know["client"])]
           /\ pc' = [pc EXCEPT !["client"] = "session"]
           /\ Receive("client")
  <2>1. /\ session["server"] # None /\ session["server"] \in Session
        /\ session["server"] = SessionOf(know["server"])
        /\ SessionOf(know["client"]) \in Session
        /\ know["client"].peer # None
        /\ know["client"].peer.key = assets["server"].key
    <3>1. /\ session["server"] # None /\ know["client"].peer # None
          /\ know["client"].peer.key = assets["server"].key
      BY <1>1, <1>2, <1>4 DEF IInv, OkFromServer, ClientKnows, rsa_verify, rsa_sign
    <3>2. session["server"] \in Session /\ session["server"] = SessionOf(know["server"])
      BY <1>1, <3>1, Ends DEF IInv, ServerSession, TypeOK
    <3>3. hkdf_derive(know["client"].pm, <<know["client"].nc, know["client"].ns>>)
            = hkdf_derive(know["server"].pm, <<know["server"].nc, know["server"].ns>>)
          /\ Transcript(know["client"]) = Transcript(know["server"])
      BY <3>1 DEF IInv, ServerConvinced, ServerHeardKey, Transcript, build_transcript_hash
    <3>4. know["client"].peer \in Cert
      BY <1>1, <3>1 DEF Knowledge
    <3> QED
      BY <3>1, <3>2, <3>3, <3>4 DEF SessionOf, Session
  <2>2. pc'["client"] = "session" /\ pc'["server"] = pc["server"]
    BY <1>1, <1>4, Ends DEF TypeOK
  <2>5. /\ line' \in [End -> {"open", "fin", "reset", "closed"}]
        /\ queue' \in [End -> Seq(Message)]
        /\ InTransit("client")' \subseteq InTransit("client")
        /\ InTransit("server")' \subseteq InTransit("server")
    BY <1>1, <1>4, Ends, ReceiveTakes
  <2>6. /\ session'["client"] = SessionOf(know["client"]) /\ session'["server"] = session["server"]
        /\ session' \in [End -> Session \union {None}]
    BY <1>1, <1>4, <2>1, Ends DEF TypeOK
  <2> HIDE DEF m
  <2>7. TypeOK'
    BY <1>1, <1>4, <2>1, <2>2, <2>5, <2>6, Ends DEF TypeOK, Waiting
  <2>8. (HelloFromClient /\ HelloFromServer /\ KeyFromClient /\ AuthFromClient /\ OkFromServer)'
    BY <1>1, <1>4, <2>1, <2>2, <2>5, <2>6
       DEF IInv, HelloFromClient, HelloFromServer, KeyFromClient, AuthFromClient, OkFromServer, ServerSession,
           NoHello, NoKey, NoAuth, Waiting, Transcript
  <2>9. (ClientKnows /\ ServerKnows /\ ServerHeardHello /\ ClientHeardHello)'
    BY <1>1, <1>4, <2>1, <2>2, <2>5, <2>6, HandshakeConstants
       DEF IInv, ClientKnows, ServerKnows, ServerHeardHello, ClientHeardHello, NoHello
  <2>10. (ClientChoseKey /\ ServerHeardKey /\ ServerConvinced /\ ServerSession /\ ClientConvinced)'
    BY <1>1, <1>4, <2>1, <2>2, <2>5, <2>6
       DEF IInv, ClientKnows, ServerKnows, ClientChoseKey, ServerHeardKey, ServerConvinced, ServerSession,
           ClientConvinced, NoKey, NoAuth, Waiting, Transcript
  <2> QED
    BY <1>1, <2>7, <2>8, <2>9, <2>10 DEF IInv
<1> QED
  BY <1>3, <1>4 DEF TakeSessionOk, Goto, Raise

----------------------------------------------------------------------------
LEMMA InitIInv == Init => IInv
<1> SUFFICES ASSUME Init PROVE IInv
  OBVIOUS
<1>1. PICK c \in ClientAssets, s \in ServerAssets : assets = [client |-> c, server |-> s]
  BY DEF Init
<1>2. assets \in [End -> Assets] /\ assets["server"].expected = None
  BY <1>1, HandshakeConstants DEF End
<1>3. TypeOK
  <2>1. pc \in [End -> Waiting \union Ended]
    BY DEF Init, End, Waiting
  <2>2. Nothing \in Knowledge
    BY DEF Knowledge, Nothing
  <2>3. know \in [End -> Knowledge] /\ session \in [End -> Session \union {None}]
    BY <2>2 DEF Init
  <2>4. line \in [End -> {"open", "fin", "reset", "closed"}] /\ queue \in [End -> Seq(Message)]
    BY DEF Init
  <2> QED
    BY <1>2, <2>1, <2>3, <2>4 DEF Init, TypeOK
<1>4. \A e \in End : know[e] = Nothing /\ session[e] = None /\ InTransit(e) = {}
  BY DEF Init, InTransit, Elements
<1> QED
  BY <1>2, <1>3, <1>4, Ends
     DEF IInv, Init, Nothing, ClientKnows, ServerKnows, HelloFromClient, HelloFromServer, KeyFromClient,
         AuthFromClient, OkFromServer, ServerHeardHello, ClientHeardHello, ClientChoseKey, ServerHeardKey,
         ServerConvinced, ServerSession, ClientConvinced

LEMMA NextIInv == IInv /\ [Next]_vars => IInv'
<1> SUFFICES ASSUME IInv, [Next]_vars PROVE IInv'
  OBVIOUS
<1>1. /\ "AuthError" \in Ended /\ "CryptoError" \in Ended /\ "OSError" \in Ended /\ "ProtocolError" \in Ended
      /\ "failed" \in Ended /\ "killed" \in Ended /\ "left" \in Ended
  BY DEF Ended
<1>2. queue \in [End -> Seq(Message)] /\ \A x \in End : Elements(queue[x]) \subseteq InTransit(x)
  BY DEF IInv, TypeOK, InTransit
<1>3. CASE ClientStep
  <2>1. CASE SignFails \/ ClientSendFails \/ ClientReceiveFails \/ ClientLeaves
    <3>1. \E how \in Ended : Raise("client", how, queue) /\ UNCHANGED <<clock, assets, disturbed>>
      BY <1>1, <2>1 DEF SignFails, ClientSendFails, ClientReceiveFails, Surfacing, ClientLeaves
    <3> QED
      BY <3>1, Ends, GivingUpPreserves
  <2>2. CASE ClientTimesOut
    BY <1>1, <2>2, Ends, GivingUpPreserves DEF ClientTimesOut, Surfacing
  <2> QED
    BY <1>3, <2>1, <2>2, SendClientHelloPreserves, TakeServerHelloPreserves, SendKeyExchangePreserves,
       SendAuthResponsePreserves, TakeSessionOkPreserves DEF ClientStep
<1>4. CASE ServerStep
  <2>1. CASE StartServing
    <3>1. CASE Raise("server", "failed", queue)
      BY <1>1, <2>1, <3>1, Ends, GivingUpPreserves DEF StartServing
    <3>2. CASE Goto("server", "awaitHello") /\ UNCHANGED <<know, session, line, queue>>
      <4>1. TypeOK'
        BY <2>1, <3>2 DEF StartServing, Goto, IInv, TypeOK, Waiting
      <4> QED
        BY <2>1, <3>2, <4>1, QuietPreserves DEF StartServing, Goto, InTransit
    <3> QED
      BY <2>1, <3>1, <3>2 DEF StartServing
  <2>2. CASE ServerSendFails \/ ServerLeaves
    <3>1. \E how \in Ended : Raise("server", how, queue) /\ UNCHANGED <<clock, assets, disturbed>>
      BY <1>1, <2>2 DEF ServerSendFails, ServerLeaves
    <3> QED
      BY <3>1, Ends, GivingUpPreserves
  <2>3. CASE ServerReceiveFails
    BY <1>1, <1>2, <2>3, Ends, GivingUpPreserves, DeclinePreserves DEF ServerReceiveFails
  <2> QED
    BY <1>4, <2>1, <2>2, <2>3, RefusePreserves, TakeClientHelloPreserves, SendServerHelloPreserves,
       TakeKeyExchangePreserves, TakeAuthResponsePreserves, SendSessionOkPreserves DEF ServerStep
<1>5. ASSUME NEW e \in End, Kill(e) PROVE IInv'
  BY <1>1, <1>5, GivingUpPreserves DEF Kill
<1>6. CASE Break
  <2>1. \A e \in End : InTransit(e)' = {}
    BY <1>6 DEF Break, InTransit, Elements
  <2>2. TypeOK'
    BY <1>6 DEF Break, IInv, TypeOK
  <2> QED
    BY <1>6, <2>1, <2>2, QuietPreserves DEF Break
<1>7. CASE Tick \/ UNCHANGED vars
  <2>1. UNCHANGED <<assets, pc, know, session, line, queue, disturbed>> /\ clock' \in Nat
    BY <1>7 DEF Tick, vars, IInv, TypeOK
  <2>2. TypeOK'
    BY <2>1 DEF IInv, TypeOK
  <2> QED
    BY <2>1, <2>2, QuietPreserves DEF InTransit
<1> QED
  BY <1>3, <1>4, <1>5, <1>6, <1>7 DEF Next

LEMMA Invariance == Spec => []IInv
<1> QED
  BY InitIInv, NextIInv, PTL DEF Spec

(* The type invariant of the handshake is an invariant of Spec.             *)
THEOREM HandshakeTypes == Spec => []TypeOK
<1>1. IInv => TypeOK
  BY DEF IInv
<1> QED
  BY Invariance, <1>1, PTL

(* Whatever certificates, keys, nonces and secrets: a client's session has  *)
(* the same keys, transcript and peers as the server's.                     *)
THEOREM EndsAgree == Spec => []Agreement
<1>1. ASSUME IInv, session["client"] # None PROVE Agreement
  <2>1. /\ session["server"] = SessionOf(know["server"]) /\ session["server"] # None
        /\ session["client"] = SessionOf(know["client"]) /\ know["client"].peer # None
    BY <1>1 DEF IInv, ClientConvinced, ServerSession
  <2>2. /\ know["server"].ct # None /\ know["server"].peer # None
        /\ Transcript(know["server"]) = Transcript(know["client"])
        /\ know["server"].pm = know["client"].pm
    BY <1>1, <2>1 DEF IInv, ServerConvinced, ServerHeardKey
  <2>3. know["client"].nc = know["server"].nc /\ know["client"].ns = know["server"].ns
    BY <2>2 DEF Transcript, build_transcript_hash
  <2>4. know["server"].peer = assets["client"].cert /\ know["client"].peer = assets["server"].cert
    BY <1>1, <2>1, <2>2 DEF IInv, ServerHeardHello, ClientHeardHello
  <2> QED
    BY <2>1, <2>2, <2>3, <2>4 DEF Agreement, SessionOf
<1>2. IInv => Agreement
  BY <1>1 DEF Agreement
<1> QED
  BY Invariance, <1>2, PTL

(* A session is only had with the holder of the private key that belongs to *)
(* the certificate it names, which the end's CA issued.                     *)
THEOREM SessionsWithHolders == Spec => []PossessionProved
<1>1. ASSUME IInv, session["client"] # None
      PROVE  /\ assets["server"].key = session["client"].peer_cert.key
             /\ session["client"].peer_cert.issuer = assets["client"].ca
             /\ assets["client"].expected \in {None, session["client"].peer_cert.subject}
  <2>1. session["client"].peer_cert = know["client"].peer /\ know["client"].peer # None
    BY <1>1 DEF IInv, ClientConvinced, SessionOf
  <2> QED
    BY <1>1, <2>1 DEF IInv, ClientConvinced, ClientHeardHello
<1>2. ASSUME IInv, session["server"] # None
      PROVE  /\ assets["client"].key = session["server"].peer_cert.key
             /\ session["server"].peer_cert.issuer = assets["server"].ca
             /\ assets["server"].expected \in {None, session["server"].peer_cert.subject}
  <2>1. session["server"].peer_cert = know["server"].peer /\ know["server"].peer # None
    BY <1>2 DEF IInv, ServerSession, ServerConvinced, ServerHeardKey, SessionOf
  <2> QED
    BY <1>2, <2>1 DEF IInv, ServerConvinced, ServerHeardHello
<1>3. IInv => PossessionProved
  BY <1>1, <1>2 DEF PossessionProved, End, Other
<1> QED
  BY Invariance, <1>3, PTL

(* No pre-master secret is encrypted for a server that was not verified.    *)
THEOREM SecretsGoToVerified == Spec => []SecretOnlyToVerified
<1>1. IInv => SecretOnlyToVerified
  BY DEF IInv, SecretOnlyToVerified, ClientChoseKey, ClientHeardHello, rsa_oaep_encrypt
<1> QED
  BY Invariance, <1>1, PTL
----------------------------------------------------------------------------
(* RefusalIsAuthError is about the order of the steps, and needs more: what *)
(* the two sockets say of each other, and how far the two programs can be   *)
(* apart while both still run.                                              *)
Short(q) == q = <<>> \/ Tail(q) = <<>>

(* An end has closed its socket exactly when its program has ended.         *)
Hung == \A e \in End : pc[e] \in Ended <=> line[e] = "closed"

(* A socket is at its end because the peer closed it; a connection that is  *)
(* reset while both hold it was lost by the network.                        *)
OneLine ==
  \A e \in End :
    /\ line[e] = "fin" => line[Other(e)] = "closed"
    /\ line[e] = "reset" /\ line[Other(e)] # "closed" => disturbed

(* While both run, the server has at most one message to read, unless the   *)
(* client has sent all of its own.                                          *)
InStep ==
  pc["client"] \notin Ended /\ pc["server"] \notin Ended =>
    /\ pc["client"] \in {"sendHello", "sendKey"} => queue["server"] = <<>>
    /\ pc["client"] \in {"awaitHello", "sendAuth"} => Short(queue["server"])
    /\ pc["client"] = "awaitHello" /\ pc["server"] \notin {"start", "awaitHello"} => queue["server"] = <<>>
    /\ pc["client"] = "sendAuth" /\ pc["server"] # "awaitKey" => queue["server"] = <<>>

(* Each program is at one of its own places.                                *)
InPlace ==
  /\ pc["client"] \in Ended \union
       {"sendHello", "awaitHello", "sendKey", "sendAuth", "awaitOk", "session"}
  /\ pc["server"] \in Ended \union
       {"start", "awaitHello", "sendHello", "awaitKey", "awaitAuth", "sendOk", "refuse", "session"}

(* The server has chosen its nonce only once it has sent it.                *)
NoNonceYet == pc["server"] \in NoHello => know["server"].ns = None

(* Where the server's decision to refuse finds a client that still runs:    *)
(* waiting for the server's HELLO, or past its KEY_EXCHANGE.                *)
RefusalAhead ==
  pc["server"] = "refuse" /\ pc["client"] \notin Ended =>
    \/ pc["client"] \in {"sendAuth", "awaitOk", "session"}
    \/ pc["client"] = "awaitHello" /\ know["server"].ns = None

(* Where a refusal finds the client, if the network and the client's timer  *)
(* leave them alone: waiting for SESSION_OK, or with the ERROR still to be  *)
(* read, or about to send into a socket that takes it.                      *)
Untold == {"ProtocolError", "OSError"}

RefusalSeen ==
  pc["server"] = "AuthError" /\ ~ disturbed =>
    \/ pc["client"] \in (Ended \ Untold) \union {"awaitOk", "session"}
    \/ pc["client"] = "awaitHello" /\ queue["client"] # <<>> /\ know["server"].ns = None
    \/ pc["client"] = "sendAuth" /\ line["client"] = "fin"

(* Left alone, a client ends untold only when the server has ended before.  *)
LastToGo == pc["client"] \in Untold /\ ~ disturbed => pc["server"] \in Ended

Course ==
  /\ Hung /\ OneLine /\ InStep /\ InPlace /\ NoNonceYet
  /\ RefusalAhead /\ RefusalSeen /\ LastToGo

(* What the invariants say of the places of both ends together.            *)
LEMMA Places ==
  ASSUME IInv, Course
  PROVE  /\ pc["client"] \in {"sendKey", "sendAuth", "awaitOk", "session"} => pc["server"] \notin NoHello
         /\ pc["client"] \in NoKey => pc["server"] \notin {"awaitAuth", "sendOk", "session"}
         /\ pc["client"] = "sendHello" => pc["server"] \notin {"sendHello", "awaitKey"}
         /\ \A e \in End : line[e] \in {"open", "fin", "reset", "closed"}
         /\ \A e \in End : queue[e] \in Seq(Message)
         /\ "AuthError" \in Ended /\ Ended \intersect Waiting = {}
  BY DEF IInv, TypeOK, ClientKnows, ServerKnows, ClientHeardHello, ServerHeardHello, ServerHeardKey,
         NoHello, NoKey, Ended, Waiting

(* An end that gives up leaves the other with a socket that says so.        *)
LEMMA RaiseKeepsCourse ==
  ASSUME IInv, Course, NEW e \in End, NEW how \in Ended, NEW q \in [End -> Seq(Message)],
         pc[e] \notin Ended, Raise(e, how, q), disturbed' \in {disturbed, TRUE},
         e = "server" /\ how = "AuthError" => RefusalSeen',
         e = "client" /\ how \in Untold => disturbed' \/ pc["server"] \in Ended \ {"AuthError"}
  PROVE  Course'
<1>1. /\ Other(e) \in End /\ Other(e) # e /\ Other(Other(e)) = e
      /\ \A x \in End : x = e \/ x = Other(e)
  BY DEF End, Other
<1>2. /\ pc'[e] = how /\ pc'[Other(e)] = pc[Other(e)] /\ know' = know
      /\ HangUp(e, q)
  BY <1>1 DEF Raise, Goto, IInv, TypeOK
<1>3. /\ line'[e] = "closed"
      /\ line'[Other(e)] = "closed" <=> line[Other(e)] = "closed"
  BY <1>1, <1>2 DEF HangUp, IInv, TypeOK
<1>4. Hung' /\ OneLine'
  BY <1>1, <1>2, <1>3 DEF Course, Hung, OneLine
<1>5. e = "client" \/ e = "server"
  BY DEF End
<1>6. InStep' /\ InPlace'
  BY <1>1, <1>2, <1>5, Ends DEF Course, InStep, InPlace
<1>7. NoNonceYet' /\ RefusalAhead'
  BY <1>1, <1>2, <1>5, Ends DEF Course, NoNonceYet, RefusalAhead, NoHello, Ended
<1>8. RefusalSeen' /\ LastToGo'
  <2>1. CASE e = "client"
    <3>1. pc'["client"] = how /\ pc'["server"] = pc["server"]
      BY <1>2, <2>1, Ends
    <3> QED
      BY <2>1, <3>1 DEF RefusalSeen, LastToGo
  <2>2. CASE e = "server"
    <3>1. pc'["server"] = how /\ pc'["client"] = pc["client"]
      BY <1>2, <2>2, Ends
    <3> QED
      BY <2>2, <3>1 DEF RefusalSeen, LastToGo
  <2> QED
    BY <1>5, <2>1, <2>2
<1> QED
  BY <1>4, <1>6, <1>7, <1>8 DEF Course

(* The server decides to refuse: a client that still runs has sent all that *)
(* the server read, and waits, or is about to send its last message.        *)
LEMMA DeclineKeepsCourse ==
  ASSUME IInv, Course, pc["server"] \in {"awaitHello", "awaitKey", "awaitAuth"},
         UNCHANGED <<clock, assets, disturbed>>,
         NEW q,
         \/ queue["server"] # <<>> /\ q = Received("server")
         \/ line["server"] = "fin" /\ q = queue,
         Decline(q)
  PROVE  Course'
<1>1. /\ pc'["server"] = "refuse" /\ pc'["client"] = pc["client"]
      /\ queue' = q /\ UNCHANGED <<know, session, line>>
  BY Ends DEF Decline, Goto, IInv, TypeOK
<1>2. pc["server"] \notin Ended /\ "refuse" \notin Ended \union NoHello
  BY DEF Ended, NoHello
<1>3. Hung' /\ OneLine' /\ InPlace' /\ NoNonceYet'
  BY <1>1, <1>2 DEF Course, Hung, OneLine, InPlace, NoNonceYet, End
<1>4. RefusalSeen' /\ LastToGo'
  BY <1>1, <1>2 DEF Course, RefusalSeen, LastToGo
<1>5. ASSUME pc["client"] \notin Ended
      PROVE  /\ queue["server"] # <<>> /\ queue'["server"] = Tail(queue["server"])
             /\ pc["client"] \notin {"sendHello", "sendKey"}
             /\ pc["client"] = "awaitHello" => pc["server"] = "awaitHello"
             /\ pc["client"] = "sendAuth" => pc["server"] = "awaitKey"
  <2>1. line["server"] # "fin"
    BY <1>5, Ends DEF Course, Hung, OneLine
  <2>2. queue["server"] # <<>> /\ queue'["server"] = Tail(queue["server"])
    BY <1>1, <2>1, Ends DEF Received, IInv, TypeOK
  <2> QED
    BY <1>2, <1>5, <2>2 DEF Course, InStep
<1>6. InStep'
  BY <1>1, <1>2, <1>5 DEF Course, InStep, Short
<1>7. RefusalAhead'
  BY <1>1, <1>5 DEF Course, RefusalAhead, InPlace, NoNonceYet, NoHello
<1> QED
  BY <1>3, <1>4, <1>6, <1>7 DEF Course

(* The refusal itself: if the network and the timer leave them alone, the   *)
(* client has sent all of its messages, or its socket is not reset and it   *)
(* has the ERROR to read.                                                   *)
LEMMA RefuseKeepsCourse == IInv /\ Course /\ Refuse => Course'
<1> SUFFICES ASSUME IInv, Course, Refuse PROVE Course'
  OBVIOUS
<1> DEFINE r == IF line["server"] = "open" THEN [queue EXCEPT !["client"] = Append(@, Error)] ELSE queue
<1>1. /\ pc["server"] = "refuse" /\ Raise("server", "AuthError", r)
      /\ UNCHANGED <<clock, assets, disturbed>>
  BY DEF Refuse
<1>2. queue \in [End -> Seq(Message)]
  BY DEF IInv, TypeOK
<1>3. r \in [End -> Seq(Message)]
  BY <1>2, Ends, PutOn DEF Message
<1>4. pc["server"] \notin Ended
  BY <1>1 DEF Ended
<1>5. /\ pc'["server"] = "AuthError" /\ pc'["client"] = pc["client"] /\ know' = know
      /\ HangUp("server", r)
  BY <1>1, Ends DEF Raise, Goto, IInv, TypeOK
<1>6. RefusalSeen'
  <2> SUFFICES ASSUME ~ disturbed, pc["client"] \notin Ended PROVE RefusalSeen'
    BY <1>1, <1>4, <1>5 DEF Course, RefusalSeen, LastToGo
  <2>1. line["client"] # "closed" /\ line["server"] # "closed"
    BY <1>4, Ends DEF Course, Hung
  <2>2. line["server"] = "open" /\ line["client"] = "open"
    BY <2>1, Ends, Places DEF Course, OneLine
  <2>3. r["server"] = queue["server"] /\ r["client"] = Append(queue["client"], Error)
    BY <1>2, <2>2, Ends
  <2>4. CASE pc["client"] = "awaitHello"
    <3>0. queue["server"] = <<>>
      BY <1>1, <1>4, <2>4 DEF Course, InStep
    <3>1. r["server"] = <<>> /\ know["server"].ns = None
      BY <1>1, <2>3, <2>4, <3>0 DEF Course, RefusalAhead
    <3>2. queue' = [r EXCEPT !["server"] = <<>>]
      BY <1>5, <3>1 DEF HangUp
    <3>3. queue'["client"] = Append(queue["client"], Error) /\ queue["client"] \in Seq(Message)
      BY <1>3, <2>3, <3>2, Ends, Places
    <3>4. queue'["client"] # <<>>
      BY <3>3
    <3> QED
      BY <1>5, <2>4, <3>1, <3>4 DEF RefusalSeen
  <2>5. CASE pc["client"] = "sendAuth"
    <3>1. r["server"] = <<>>
      BY <1>1, <1>4, <2>3, <2>5 DEF Course, InStep
    <3>2. line'["client"] = "fin"
      BY <1>5, <2>2, <3>1, Ends DEF HangUp, IInv, TypeOK
    <3> QED
      BY <1>5, <2>5, <3>2 DEF RefusalSeen
  <2>6. CASE pc["client"] \in {"awaitOk", "session"}
    BY <1>5, <2>6 DEF RefusalSeen
  <2> QED
    BY <1>1, <2>4, <2>5, <2>6 DEF Course, RefusalAhead
<1> QED
  BY <1>1, <1>3, <1>4, <1>6, Ends, RaiseKeepsCourse DEF Ended

(* Sending and receiving keep what the two sockets say of each other.       *)
LEMMA SendKeepsLine ==
  ASSUME IInv, Course, NEW e \in End, NEW m, NEW next \in Waiting, Send(e, m),
         pc[e] \in Waiting, pc' = [pc EXCEPT ![e] = next], disturbed' = disturbed
  PROVE  /\ Hung' /\ OneLine'
         /\ queue'[e] = queue[e]
         /\ queue'[Other(e)] \in {queue[Other(e)], Append(queue[Other(e)], m)}
         /\ line[e] = "fin" => queue'[Other(e)] = queue[Other(e)]
<1>1. /\ Other(e) \in End /\ Other(e) # e /\ Other(Other(e)) = e
      /\ \A x \in End : x = e \/ x = Other(e)
  BY DEF End, Other
<1>2. pc[e] \notin Ended /\ pc'[e] \notin Ended /\ pc'[Other(e)] = pc[Other(e)]
  BY <1>1, Places DEF IInv, TypeOK
<1>3. CASE line[e] = "open" /\ queue' = [queue EXCEPT ![Other(e)] = Append(@, m)] /\ UNCHANGED line
  <2>1. queue'[e] = queue[e] /\ queue'[Other(e)] = Append(queue[Other(e)], m) /\ line' = line
    BY <1>1, <1>3 DEF IInv, TypeOK
  <2> QED
    BY <1>1, <1>2, <1>3, <2>1 DEF Course, Hung, OneLine
<1>4. CASE line[e] = "fin" /\ line' \in {line, [line EXCEPT ![e] = "reset"]} /\ UNCHANGED queue
  <2>1. line'[e] \in {"fin", "reset"} /\ line'[Other(e)] = line[Other(e)] /\ queue' = queue
    BY <1>1, <1>4 DEF IInv, TypeOK
  <2> QED
    BY <1>1, <1>2, <1>4, <2>1 DEF Course, Hung, OneLine
<1> QED
  BY <1>3, <1>4 DEF Send

(* A message is taken off the end's own queue and nothing else changes.     *)
LEMMA ReceiveKeepsLine ==
  ASSUME IInv, Course, NEW e \in End, NEW next \in Waiting, Receive(e), queue[e] # <<>>,
         pc[e] \in Waiting, pc' = [pc EXCEPT ![e] = next], disturbed' = disturbed
  PROVE  /\ Hung' /\ OneLine'
         /\ queue'[e] = Tail(queue[e]) /\ queue'[Other(e)] = queue[Other(e)]
<1>1. /\ Other(e) \in End /\ Other(e) # e /\ Other(Other(e)) = e
      /\ \A x \in End : x = e \/ x = Other(e)
  BY DEF End, Other
<1>2. pc[e] \notin Ended /\ pc'[e] \notin Ended /\ pc'[Other(e)] = pc[Other(e)]
  BY <1>1, Places DEF IInv, TypeOK
<1>3. queue'[e] = Tail(queue[e]) /\ queue'[Other(e)] = queue[Other(e)] /\ line' = line
  BY <1>1 DEF Receive, Received, IInv, TypeOK
<1> QED
  BY <1>1, <1>2, <1>3 DEF Course, Hung, OneLine

(* A queue with one message is short.                                       *)
LEMMA OneIsShort ==
  ASSUME NEW m PROVE Short(Append(<<>>, m)) /\ Short(<<>>)
<1>1. Append(<<>>, m) \in Seq({m}) /\ Len(Append(<<>>, m)) = 1
  OBVIOUS
<1>2. Tail(Append(<<>>, m)) = <<>>
  BY <1>1
<1> QED
  BY <1>2 DEF Short

(* The steps by which the client gets further.                              *)
LEMMA ClientGoesOn ==
  ASSUME IInv, Course,
         SendClientHello \/ SendKeyExchange \/ SendAuthResponse \/ TakeServerHello \/ TakeSessionOk
  PROVE  Course'
<1>0. disturbed' = disturbed
  BY Zenon DEF SendClientHello, SendKeyExchange, SendAuthResponse, TakeServerHello, TakeSessionOk
<1>1. CASE SendClientHello
  <2>1. PICK n \in Nonce : Send("client", Hello(assets["client"].cert, n))
    BY <1>1 DEF SendClientHello
  <2>2. /\ pc["client"] = "sendHello" /\ pc' = [pc EXCEPT !["client"] = "awaitHello"]
        /\ know'["server"] = know["server"]
    BY <1>1, Ends DEF SendClientHello, Goto, Learn, IInv, TypeOK
  <2>3. pc'["client"] = "awaitHello" /\ pc'["server"] = pc["server"]
    BY <2>2, Ends DEF IInv, TypeOK
  <2>4. /\ Hung' /\ OneLine'
        /\ queue'["server"] \in {queue["server"], Append(queue["server"], Hello(assets["client"].cert, n))}
    BY <2>1, <2>2, Ends, <1>0, SendKeepsLine DEF Waiting
  <2>5. pc["server"] \notin Ended => queue["server"] = <<>> /\ pc["server"] \in {"start", "awaitHello"}
    <3>1. pc["server"] \notin Ended => pc["server"] \in {"start", "awaitHello"}
      BY <2>2, Places DEF Course, InPlace, RefusalAhead, NoKey, Ended
    <3> QED
      BY <2>2, <3>1 DEF Course, InStep, Ended
  <2>6. InStep'
    BY <2>3, <2>4, <2>5, OneIsShort DEF InStep
  <2>7. InPlace' /\ NoNonceYet'
    BY <2>2, <2>3 DEF Course, InPlace, NoNonceYet
  <2>8. RefusalAhead' /\ RefusalSeen' /\ LastToGo'
    BY <2>2, <2>3, <1>0 DEF Course, RefusalAhead, RefusalSeen, LastToGo, Untold, Ended
  <2> QED
    BY <2>4, <2>6, <2>7, <2>8 DEF Course
<1>2. CASE SendKeyExchange
  <2>1. PICK m : Send("client", m)
    BY <1>2 DEF SendKeyExchange
  <2>0. \E k : know' = [know EXCEPT !["client"] = k]
    BY <1>2, Zenon DEF SendKeyExchange, Learn
  <2>10. pc["client"] = "sendKey" /\ pc' = [pc EXCEPT !["client"] = "sendAuth"]
    BY <1>2, Zenon DEF SendKeyExchange, Goto
  <2>2. /\ pc["client"] = "sendKey" /\ pc' = [pc EXCEPT !["client"] = "sendAuth"]
        /\ know'["server"] = know["server"]
    BY <2>0, <2>10, Ends DEF IInv, TypeOK
  <2>3. pc'["client"] = "sendAuth" /\ pc'["server"] = pc["server"]
    BY <2>2, Ends DEF IInv, TypeOK
  <2>4. /\ Hung' /\ OneLine'
        /\ queue'["server"] \in {queue["server"], Append(queue["server"], m)}
    BY <2>1, <2>2, Ends, <1>0, SendKeepsLine DEF Waiting
  <2>5. pc["server"] \notin Ended => queue["server"] = <<>> /\ pc["server"] = "awaitKey"
    <3>1. pc["server"] \notin Ended => pc["server"] = "awaitKey"
      BY <2>2, Places DEF Course, InPlace, RefusalAhead, NoKey, NoHello, Ended
    <3> QED
      BY <2>2, <3>1 DEF Course, InStep, Ended
  <2>6. InStep'
    BY <2>3, <2>4, <2>5, OneIsShort DEF InStep
  <2>7. InPlace' /\ NoNonceYet'
    BY <2>2, <2>3 DEF Course, InPlace, NoNonceYet
  <2>8. RefusalAhead' /\ RefusalSeen' /\ LastToGo'
    BY <2>2, <2>3, <1>0 DEF Course, RefusalAhead, RefusalSeen, LastToGo, Untold, Ended
  <2> QED
    BY <2>4, <2>6, <2>7, <2>8 DEF Course
<1>3. CASE SendAuthResponse
  <2>1. PICK m : Send("client", m)
    BY <1>3 DEF SendAuthResponse
  <2>2. /\ pc["client"] = "sendAuth" /\ pc' = [pc EXCEPT !["client"] = "awaitOk"] /\ know' = know
    BY <1>3 DEF SendAuthResponse, Goto
  <2>3. pc'["client"] = "awaitOk" /\ pc'["server"] = pc["server"]
    BY <2>2, Ends DEF IInv, TypeOK
  <2>4. Hung' /\ OneLine'
    BY <2>1, <2>2, Ends, <1>0, SendKeepsLine DEF Waiting
  <2> QED
    BY <1>0, <2>2, <2>3, <2>4
       DEF Course, InStep, InPlace, NoNonceYet, RefusalAhead, RefusalSeen, LastToGo, Untold, Ended
<1>4. CASE TakeServerHello
  <2> DEFINE m == Head(queue["client"])
  <2>1. pc["client"] = "awaitHello" /\ queue["client"] # <<>> /\ UNCHANGED <<clock, assets, disturbed>>
    BY <1>4 DEF TakeServerHello
  <2>2. m \in Message /\ m \in InTransit("client") /\ Received("client") \in [End -> Seq(Message)]
    BY <2>1, Ends, ReceivedTakes DEF IInv
  <2>3. CASE Raise("client", "AuthError", Received("client"))
    BY <2>1, <2>2, <2>3, Ends, RaiseKeepsCourse DEF Ended, Untold
  <2>4. CASE /\ m.type = "HELLO" /\ Receive("client") /\ pc' = [pc EXCEPT !["client"] = "sendKey"]
             /\ know' = [know EXCEPT !["client"] = [know["client"] EXCEPT !.peer = m.cert, !.ns = m.nonce]]
    <3>1. pc'["client"] = "sendKey" /\ pc'["server"] = pc["server"] /\ know'["server"] = know["server"]
      BY <2>4, Ends DEF IInv, TypeOK
    <3>2. /\ Hung' /\ OneLine' /\ queue'["server"] = queue["server"]
      BY <2>1, <2>4, Ends, <1>0, ReceiveKeepsLine DEF Waiting
    <3>3. pc["server"] \notin NoHello /\ know["server"].ns # None
      BY <2>2, <2>4, HandshakeConstants DEF IInv, HelloFromServer, Message, Error
    <3>4. InStep'
      BY <2>1, <3>1, <3>2, <3>3 DEF Course, InStep, NoHello, Ended
    <3>5. InPlace' /\ NoNonceYet' /\ RefusalAhead' /\ RefusalSeen' /\ LastToGo'
      BY <1>0, <2>1, <3>1, <3>3
         DEF Course, InPlace, NoNonceYet, RefusalAhead, RefusalSeen, LastToGo, Untold, Ended
    <3> QED
      BY <3>2, <3>4, <3>5 DEF Course
  <2> QED
    BY <1>4, <2>3, <2>4 DEF TakeServerHello, Goto, Learn
<1>5. CASE TakeSessionOk
  <2>1. pc["client"] = "awaitOk" /\ queue["client"] # <<>> /\ UNCHANGED <<clock, assets, disturbed>>
    BY <1>5 DEF TakeSessionOk
  <2>2. Received("client") \in [End -> Seq(Message)]
    BY <2>1, Ends, ReceivedTakes DEF IInv
  <2>3. CASE Raise("client", "AuthError", Received("client"))
    BY <2>1, <2>2, <2>3, Ends, RaiseKeepsCourse DEF Ended, Untold
  <2>4. CASE Receive("client") /\ pc' = [pc EXCEPT !["client"] = "session"] /\ know' = know
    <3>1. pc'["client"] = "session" /\ pc'["server"] = pc["server"]
      BY <2>4, Ends DEF IInv, TypeOK
    <3>2. Hung' /\ OneLine'
      BY <2>1, <2>4, Ends, <1>0, ReceiveKeepsLine DEF Waiting
    <3> QED
      BY <1>0, <2>1, <2>4, <3>1, <3>2
         DEF Course, InStep, InPlace, NoNonceYet, RefusalAhead, RefusalSeen, LastToGo, Untold, Ended
  <2> QED
    BY <1>5, <2>3, <2>4 DEF TakeSessionOk, Goto
<1> QED
  BY <1>1, <1>2, <1>3, <1>4, <1>5

(* The steps by which the server gets further, or refuses.                  *)
LEMMA ServerGoesOn ==
  ASSUME IInv, Course,
         \/ SendServerHello \/ SendSessionOk
         \/ TakeClientHello \/ TakeKeyExchange \/ TakeAuthResponse
  PROVE  Course'
<1>0. disturbed' = disturbed
  BY Zenon DEF SendServerHello, SendSessionOk, TakeClientHello, TakeKeyExchange, TakeAuthResponse
<1>1. ASSUME NEW from \in {"sendHello", "sendOk"}, NEW next \in {"awaitKey", "session"}, NEW m,
             pc["server"] = from, pc' = [pc EXCEPT !["server"] = next], Send("server", m)
      PROVE  Course'
  <2>1. pc'["server"] = next /\ pc'["client"] = pc["client"] /\ next \in Waiting /\ from \in Waiting
    BY <1>1, Ends DEF IInv, TypeOK, Waiting
  <2>2. Hung' /\ OneLine' /\ queue'["server"] = queue["server"]
    BY <1>1, <2>1, Ends, <1>0, SendKeepsLine
  <2>3. InStep'
    BY <1>1, <2>1, <2>2 DEF Course, InStep, Short, Ended
  <2>4. InPlace' /\ NoNonceYet' /\ RefusalAhead' /\ RefusalSeen' /\ LastToGo'
    BY <1>0, <1>1, <2>1
       DEF Course, InPlace, NoNonceYet, RefusalAhead, RefusalSeen, LastToGo, NoHello, Ended
  <2> QED
    BY <2>2, <2>3, <2>4 DEF Course
<1>2. ASSUME NEW from \in {"awaitHello", "awaitKey", "awaitAuth"}, NEW next \in {"sendHello", "awaitAuth", "sendOk"},
             from = "awaitHello" <=> next = "sendHello",
             next = "sendHello" => know'["server"].ns = know["server"].ns,
             pc["server"] = from, pc' = [pc EXCEPT !["server"] = next],
             queue["server"] # <<>>, Receive("server")
      PROVE  Course'
  <2>1. pc'["server"] = next /\ pc'["client"] = pc["client"] /\ next \in Waiting /\ from \in Waiting
    BY <1>2, Ends DEF IInv, TypeOK, Waiting
  <2>2. Hung' /\ OneLine' /\ queue'["server"] = Tail(queue["server"])
    BY <1>2, <2>1, Ends, <1>0, ReceiveKeepsLine
  <2>3. InStep'
    BY <1>2, <2>1, <2>2 DEF Course, InStep, Short, Ended
  <2>4. InPlace' /\ NoNonceYet' /\ RefusalAhead' /\ RefusalSeen' /\ LastToGo'
    BY <1>0, <1>2, <2>1
       DEF Course, InPlace, NoNonceYet, RefusalAhead, RefusalSeen, LastToGo, NoHello, Ended
  <2> QED
    BY <2>2, <2>3, <2>4 DEF Course
<1>3. CASE SendServerHello
  BY <1>1, <1>3 DEF SendServerHello, Goto
<1>4. CASE SendSessionOk
  BY <1>1, <1>4 DEF SendSessionOk, Goto
<1>5. CASE TakeClientHello
  <2>1. pc["server"] = "awaitHello" /\ queue["server"] # <<>> /\ UNCHANGED <<clock, assets, disturbed>>
    BY <1>5 DEF TakeClientHello
  <2>2. CASE Decline(Received("server"))
    BY <2>1, <2>2, DeclineKeepsCourse
  <2>3. CASE \E k : /\ k.ns = know["server"].ns /\ Learn("server", k)
                    /\ Goto("server", "sendHello") /\ Receive("server")
    <3>1. know'["server"].ns = know["server"].ns
      BY <2>3, Ends DEF Learn, IInv, TypeOK
    <3> QED
      BY <1>2, <2>1, <2>3, <3>1 DEF Goto
  <2>4. \A m : know["server"].ns = [know["server"] EXCEPT !.peer = m.cert, !.nc = m.nonce].ns
    BY Ends DEF IInv, TypeOK, Knowledge
  <2> QED
    BY <1>5, <2>2, <2>3, <2>4 DEF TakeClientHello
<1>6. CASE TakeKeyExchange
  <2>1. pc["server"] = "awaitKey" /\ queue["server"] # <<>> /\ UNCHANGED <<clock, assets, disturbed>>
    BY <1>6 DEF TakeKeyExchange
  <2>2. CASE Decline(Received("server"))
    BY <2>1, <2>2, DeclineKeepsCourse
  <2>3. CASE Goto("server", "awaitAuth") /\ Receive("server")
    BY <1>2, <2>1, <2>3 DEF Goto
  <2> QED
    BY <1>6, <2>2, <2>3 DEF TakeKeyExchange
<1>7. CASE TakeAuthResponse
  <2>1. pc["server"] = "awaitAuth" /\ queue["server"] # <<>> /\ UNCHANGED <<clock, assets, disturbed>>
    BY <1>7 DEF TakeAuthResponse
  <2>2. CASE Decline(Received("server"))
    BY <2>1, <2>2, DeclineKeepsCourse
  <2>3. CASE Goto("server", "sendOk") /\ Receive("server")
    BY <1>2, <2>1, <2>3 DEF Goto
  <2> QED
    BY <1>7, <2>2, <2>3 DEF TakeAuthResponse
<1> QED
  BY <1>3, <1>4, <1>5, <1>6, <1>7

(* Every step keeps the course.                                             *)
LEMMA NextCourse == IInv /\ Course /\ [Next]_vars => Course'
<1> SUFFICES ASSUME IInv, Course, [Next]_vars PROVE Course'
  OBVIOUS
<1>1. queue \in [End -> Seq(Message)]
  BY DEF IInv, TypeOK
<1>2. ASSUME NEW e \in End, NEW how \in Ended, Raise(e, how, queue), disturbed' \in {disturbed, TRUE},
             pc[e] \notin Ended, e = "server" => how # "AuthError",
             e = "client" /\ how \in Untold => disturbed' \/ pc["server"] \in Ended \ {"AuthError"}
      PROVE  Course'
  BY <1>1, <1>2, RaiseKeepsCourse
<1>3. CASE SignFails \/ ClientLeaves
  <2>1. \E how \in Ended \ Untold : Raise("client", how, queue)
    BY <1>3 DEF SignFails, ClientLeaves, Ended, Untold
  <2>2. pc["client"] \notin Ended /\ disturbed' = disturbed
    BY <1>3 DEF SignFails, ClientLeaves, Ended
  <2> QED
    BY <1>2, <2>1, <2>2, Ends
<1>10. CASE ClientSendFails \/ ClientReceiveFails
  <2>1. /\ pc["client"] \in {"sendHello", "sendKey", "sendAuth", "awaitHello", "awaitOk"}
        /\ line["client"] \in {"fin", "reset"}
        /\ disturbed' = disturbed
    BY <1>10 DEF ClientSendFails, ClientReceiveFails
  <2>2. \E how \in Ended : /\ Raise("client", how, queue)
                           /\ how \in Untold => \/ pc["client"] \in {"sendHello", "sendKey"}
                                                \/ pc["client"] = "sendAuth" /\ line["client"] = "reset"
                                                \/ pc["client"] = "awaitHello" /\ queue["client"] = <<>>
    BY <1>10 DEF ClientSendFails, ClientReceiveFails, Surfacing, Ended, Untold
  <2>3. pc["client"] \notin Ended
    BY <2>1 DEF Ended
  <2>4. disturbed \/ pc["server"] \in Ended
    BY <2>1, Ends DEF Course, OneLine, Hung
  <2>5. ASSUME NEW how \in Ended, how \in Untold, pc["server"] = "AuthError",
               \/ pc["client"] \in {"sendHello", "sendKey"}
               \/ pc["client"] = "sendAuth" /\ line["client"] = "reset"
               \/ pc["client"] = "awaitHello" /\ queue["client"] = <<>>
        PROVE  disturbed
    BY <2>3, <2>5 DEF Course, RefusalSeen
  <2> QED
    BY <1>2, <2>1, <2>2, <2>3, <2>4, <2>5, Ends
<1>11. CASE ClientTimesOut
  <2>1. pc["client"] \notin Ended /\ disturbed' = TRUE
    BY <1>11 DEF ClientTimesOut, Ended
  <2> QED
    BY <1>2, <1>11, <2>1, Ends DEF ClientTimesOut, Surfacing, Ended
<1>4. CASE StartServing
  <2>1. pc["server"] = "start" /\ pc["server"] \notin Ended /\ "failed" \in Ended /\ disturbed' = disturbed
    BY <1>4 DEF StartServing, Ended
  <2>2. CASE Raise("server", "failed", queue)
    BY <1>2, <2>1, <2>2, Ends
  <2>3. CASE Goto("server", "awaitHello") /\ UNCHANGED <<know, session, line, queue>>
    <3>1. pc'["server"] = "awaitHello" /\ pc'["client"] = pc["client"]
      BY <2>3, Ends DEF Goto, IInv, TypeOK
    <3>2. Hung'
      BY <2>1, <2>3, <3>1 DEF Course, Hung, End, Ended
    <3>3. OneLine' /\ InPlace' /\ NoNonceYet' /\ RefusalAhead' /\ RefusalSeen' /\ LastToGo'
      BY <2>1, <2>3, <3>1
         DEF Course, OneLine, InPlace, NoNonceYet, RefusalAhead, RefusalSeen, LastToGo, NoHello
    <3>4. InStep'
      BY <2>1, <2>3, <3>1 DEF Course, InStep
    <3> QED
      BY <3>2, <3>3, <3>4 DEF Course
  <2> QED
    BY <1>4, <2>2, <2>3 DEF StartServing
<1>5. CASE ServerSendFails \/ ServerLeaves
  <2>1. \E how \in Ended : how # "AuthError" /\ Raise("server", how, queue) /\ disturbed' = disturbed
    BY <1>5 DEF ServerSendFails, ServerLeaves, Ended
  <2>2. pc["server"] \notin Ended
    BY <1>5 DEF ServerSendFails, ServerLeaves, Ended
  <2> QED
    BY <1>2, <2>1, <2>2, Ends
<1>6. CASE ServerReceiveFails
  <2>1. pc["server"] \in {"awaitHello", "awaitKey", "awaitAuth"} /\ UNCHANGED <<clock, assets, disturbed>>
    BY <1>6 DEF ServerReceiveFails
  <2>2. CASE line["server"] = "fin" /\ Decline(queue)
    BY <2>1, <2>2, DeclineKeepsCourse
  <2>3. CASE Raise("server", "OSError", queue)
    BY <1>2, <2>1, <2>3, Ends DEF Ended
  <2> QED
    BY <1>6, <2>2, <2>3 DEF ServerReceiveFails
<1>7. ASSUME NEW e \in End, Kill(e) PROVE Course'
  BY <1>2, <1>7 DEF Kill, Ended, Untold
<1>8. CASE Break
  <2>1. /\ \A e \in End : /\ line'[e] = IF line[e] = "closed" THEN "closed" ELSE "reset"
                         /\ queue'[e] = <<>>
        /\ disturbed' = TRUE /\ UNCHANGED <<pc, know>>
    BY <1>8 DEF Break
  <2>2. Hung' /\ OneLine'
    BY <2>1 DEF Course, Hung, OneLine
  <2>3. InStep'
    BY <2>1, Ends DEF InStep, Short
  <2>4. InPlace' /\ NoNonceYet' /\ RefusalAhead' /\ RefusalSeen' /\ LastToGo'
    BY <2>1 DEF Course, InPlace, NoNonceYet, RefusalAhead, RefusalSeen, LastToGo
  <2> QED
    BY <2>2, <2>3, <2>4 DEF Course
<1>9. CASE Tick \/ UNCHANGED vars
  BY <1>9
     DEF Tick, vars, Course, Hung, OneLine, InStep, InPlace, NoNonceYet, RefusalAhead, RefusalSeen, LastToGo, Short
<1> QED
  BY <1>3, <1>4, <1>5, <1>6, <1>7, <1>8, <1>9, <1>10, <1>11, RefuseKeepsCourse, ClientGoesOn, ServerGoesOn
     DEF Next, ClientStep, ServerStep

(* At first the two programs are in step.                                   *)
LEMMA InitCourse == Init => Course
  BY DEF Init, Course, Hung, OneLine, InStep, InPlace, NoNonceYet, RefusalAhead, RefusalSeen, LastToGo,
         Untold, NoHello, Nothing, Short, Ended, End, Other

(* For all certificates, keys, nonces and times, and wherever an end is     *)
(* killed or closes with messages unread: a client whose handshake the      *)
(* server has refused does not end with a bare ProtocolError or OSError,    *)
(* unless the network lost the connection or the client's own timeout ended *)
(* its wait, which may be between the refusal and the arrival of its ERROR. *)
THEOREM RefusalsAreSeen == Spec => []RefusalIsAuthError
<1>1. Course => RefusalIsAuthError
  BY DEF Course, RefusalSeen, RefusalIsAuthError, Ended, Untold
<1>2. Spec => []Course
  BY Invariance, InitCourse, NextCourse, PTL DEF Spec
<1> QED
  BY <1>1, <1>2, PTL

----------------------------------------------------------------------------
(* While the connection is up, what an end has to read before it goes on is *)
(* there as soon as the other end can do nothing but wait.                  *)
UnderWay ==
  (\A e \in End : line[e] = "open") =>
    /\ pc["client"] = "awaitHello" /\ pc["server"] \in {"start", "awaitHello"} =>
         queue["server"] # <<>>
    /\ pc["client"] = "awaitHello" /\ pc["server"] = "awaitKey" => queue["client"] # <<>>
    /\ pc["client"] \in {"sendAuth", "awaitOk"} /\ pc["server"] = "awaitKey" =>
         queue["server"] # <<>>
    /\ pc["client"] = "awaitOk" /\ pc["server"] = "awaitKey" => Tail(queue["server"]) # <<>>
    /\ pc["client"] = "awaitOk" /\ pc["server"] = "awaitAuth" => queue["server"] # <<>>
    /\ pc["client"] = "awaitOk" /\ pc["server"] = "session" => queue["client"] # <<>>

LEMMA AppendIsThere ==
  ASSUME NEW S, NEW q \in Seq(S), NEW m \in S
  PROVE  /\ Append(q, m) # <<>>
         /\ q # <<>> => Tail(Append(q, m)) # <<>>
<1>1. Append(q, m) \in Seq(S) /\ Len(Append(q, m)) = Len(q) + 1 /\ Len(q) \in Nat
  OBVIOUS
<1>2. ASSUME q # <<>> PROVE Len(Tail(Append(q, m))) = Len(q) /\ Len(q) # 0
  BY <1>1, <1>2
<1> QED
  BY <1>1, <1>2

(* On a connection that is up after it a message sent has been put on.      *)
LEMMA SendOnOpen ==
  ASSUME TypeOK, NEW e \in End, NEW m, Send(e, m), \A x \in End : line'[x] = "open"
  PROVE  /\ \A x \in End : line[x] = "open"
         /\ queue'[e] = queue[e]
         /\ queue'[Other(e)] # <<>>
         /\ queue[Other(e)] # <<>> => Tail(queue'[Other(e)]) # <<>>
<1>1. Other(e) \in End /\ Other(e) # e
  BY DEF End, Other
<1>2. line[e] = "open" /\ queue' = [queue EXCEPT ![Other(e)] = Append(@, m)] /\ line' = line
  BY DEF Send, TypeOK
<1>3. /\ queue'[e] = queue[e] /\ queue'[Other(e)] = Append(queue[Other(e)], m)
      /\ queue[Other(e)] \in Seq(Message)
  BY <1>1, <1>2 DEF TypeOK
<1>4. queue[Other(e)] \in Seq(Message \union {m})
  BY <1>3
<1> QED
  BY <1>2, <1>3, <1>4, AppendIsThere

LEMMA RaiseCloses ==
  ASSUME TypeOK, NEW e \in End, NEW how, NEW q, Raise(e, how, q)
  PROVE  line'[e] = "closed"
  BY DEF Raise, HangUp, TypeOK, End, Other

LEMMA NextUnderWay == IInv /\ Course /\ UnderWay /\ [Next]_vars => UnderWay'
<1> SUFFICES ASSUME IInv, Course, UnderWay, [Next]_vars, \A e \in End : line'[e] = "open"
             PROVE  UnderWay'
  BY DEF UnderWay
<1>1. TypeOK
  BY DEF IInv
<1>2. ASSUME NEW e \in End, NEW how, NEW q, Raise(e, how, q) PROVE FALSE
  BY <1>1, <1>2, RaiseCloses
<1>3. ASSUME NEW next, NEW m, pc' = [pc EXCEPT !["client"] = next], Send("client", m)
      PROVE  /\ pc'["client"] = next /\ pc'["server"] = pc["server"]
             /\ \A e \in End : line[e] = "open"
             /\ queue'["client"] = queue["client"] /\ queue'["server"] # <<>>
             /\ queue["server"] # <<>> => Tail(queue'["server"]) # <<>>
  BY <1>1, <1>3, Ends, SendOnOpen DEF TypeOK
<1>4. ASSUME NEW next, NEW m, pc' = [pc EXCEPT !["server"] = next], Send("server", m)
      PROVE  /\ pc'["server"] = next /\ pc'["client"] = pc["client"]
             /\ \A e \in End : line[e] = "open"
             /\ queue'["server"] = queue["server"] /\ queue'["client"] # <<>>
  BY <1>1, <1>4, Ends, SendOnOpen DEF TypeOK
<1>5. ASSUME NEW next, pc' = [pc EXCEPT !["client"] = next], next \notin {"awaitHello", "sendAuth", "awaitOk"}
      PROVE  UnderWay'
  BY <1>1, <1>5, Ends DEF TypeOK, UnderWay
<1>6. ASSUME NEW next, pc' = [pc EXCEPT !["server"] = next], Receive("server"),
             \/ next \in {"sendHello", "sendOk"}
             \/ next = "awaitAuth" /\ pc["server"] = "awaitKey"
      PROVE  UnderWay'
  <2>1. /\ pc'["server"] = next /\ pc'["client"] = pc["client"] /\ line' = line
        /\ queue'["server"] = Tail(queue["server"])
    BY <1>1, <1>6, Ends DEF TypeOK, Receive, Received
  <2> QED
    BY <1>6, <2>1 DEF UnderWay
<1>22. ASSUME NEW q, Decline(q) PROVE UnderWay'
  <2>1. pc'["server"] = "refuse"
    BY <1>1, <1>22, Ends DEF Decline, Goto, TypeOK
  <2> QED
    BY <2>1 DEF UnderWay
<1>7. CASE SendClientHello
  BY <1>3, <1>7, Places DEF SendClientHello, Goto, UnderWay
<1>8. CASE SendKeyExchange
  BY <1>3, <1>8 DEF SendKeyExchange, Goto, UnderWay
<1>9. CASE SendAuthResponse
  <2>1. pc["client"] = "sendAuth" /\ pc["server"] # "session"
    BY <1>9 DEF SendAuthResponse, IInv, ServerConvinced, NoAuth
  <2> QED
    BY <1>3, <1>9, <2>1 DEF SendAuthResponse, Goto, UnderWay
<1>10. CASE TakeServerHello \/ TakeSessionOk
  BY <1>2, <1>5, <1>10, Ends DEF TakeServerHello, TakeSessionOk, Goto
<1>11. CASE SignFails \/ ClientSendFails \/ ClientReceiveFails \/ ClientTimesOut \/ ClientLeaves
  BY <1>2, <1>11, Ends DEF SignFails, ClientSendFails, ClientReceiveFails, ClientTimesOut, ClientLeaves
<1>12. CASE StartServing
  <2>1. Goto("server", "awaitHello") /\ UNCHANGED <<line, queue>> /\ pc["server"] = "start"
    BY <1>2, <1>12, Ends DEF StartServing
  <2>2. pc'["server"] = "awaitHello" /\ pc'["client"] = pc["client"]
    BY <1>1, <2>1, Ends DEF Goto, TypeOK
  <2> QED
    BY <2>1, <2>2 DEF UnderWay
<1>13. CASE TakeClientHello
  BY <1>6, <1>22, <1>13, Ends DEF TakeClientHello, Goto
<1>14. CASE TakeKeyExchange
  BY <1>6, <1>22, <1>14, Ends DEF TakeKeyExchange, Goto
<1>15. CASE TakeAuthResponse
  BY <1>6, <1>22, <1>15, Ends DEF TakeAuthResponse, Goto
<1>16. CASE SendServerHello
  <2>1. pc["server"] = "sendHello" /\ pc["client"] \notin {"sendAuth", "awaitOk"}
    BY <1>16, Places DEF SendServerHello, NoHello
  <2> QED
    BY <1>4, <1>16, <2>1 DEF SendServerHello, Goto, UnderWay
<1>17. CASE SendSessionOk
  BY <1>4, <1>17 DEF SendSessionOk, Goto, UnderWay
<1>18. CASE ServerSendFails \/ ServerReceiveFails \/ Refuse \/ ServerLeaves
  BY <1>2, <1>18, <1>22, Ends DEF ServerSendFails, ServerReceiveFails, ServerLeaves, Refuse
<1>19. ASSUME NEW e \in End, Kill(e) PROVE UnderWay'
  BY <1>2, <1>19 DEF Kill
<1>20. CASE Break
  BY <1>20 DEF Break
<1>21. CASE Tick \/ UNCHANGED vars
  BY <1>21 DEF Tick, vars, UnderWay
<1> QED
  BY <1>7, <1>8, <1>9, <1>10, <1>11, <1>12, <1>13, <1>14, <1>15, <1>16, <1>17, <1>18, <1>19,
     <1>20, <1>21 DEF Next, ClientStep, ServerStep

(* The worker thread of a handshake, whose socket has no timeout, and its  *)
(* client never both wait on a connection that is up: whichever ends were  *)
(* set up wrongly, a refusal closes the connection and everything else is  *)
(* answered (server/handshake.py:122-197).                                 *)
THEOREM NobodyWaitsForNothing == Spec => []NoStandoff
<1>1. Init => UnderWay
  BY DEF Init, UnderWay
<1>2. IInv /\ Course /\ UnderWay => NoStandoff
  <2> SUFFICES ASSUME IInv, Course, UnderWay,
                      pc["client"] \in {"awaitHello", "awaitOk"},
                      pc["server"] \in {"awaitHello", "awaitKey", "awaitAuth", "session"},
                      \A e \in End : queue[e] = <<>> /\ line[e] = "open"
               PROVE  FALSE
    BY DEF NoStandoff
  <2>1. pc["client"] = "awaitHello" => pc["server"] \notin {"awaitAuth", "session"}
    BY Places DEF NoKey
  <2>2. pc["client"] = "awaitOk" => pc["server"] # "awaitHello"
    BY Places DEF NoHello
  <2> QED
    BY <2>1, <2>2, Ends DEF UnderWay
<1>3. Spec => []Course
  BY Invariance, InitCourse, NextCourse, PTL DEF Spec
<1> QED
  BY <1>1, <1>2, <1>3, Invariance, NextUnderWay, PTL DEF Spec
=============================================================================
