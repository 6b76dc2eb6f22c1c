--------------------------- MODULE DeliveryProofs ---------------------------
(***************************************************************************)
(* What a command was told holds of the server's store, for any number of  *)
(* files, users and connections.                                           *)
(*                                                                         *)
(* The composition keeps the store's own invariant, because each of its    *)
(* steps is one of FileStore or leaves the store alone (StoreRefined); so  *)
(* it also keeps the promise of FileDrop (PromiseKeptToCommands).          *)
(* Linked ties the two ends of a connection together: a request, a job and *)
(* a reply on one connection are about the file of the command that is     *)
(* still there, and a confirmation under way was sent about it.  BegunLate *)
(* follows a command that started when the file was known to be closed.    *)
(* A second invariant, RefusalInv, is about the uploads that were refused. *)
(***************************************************************************)
EXTENDS Delivery, TLAPS

FS == INSTANCE FileStoreRefines WITH Package <- {Own}, MaxUploads <- 1

Confirming == {"REVOKE_ACK", "ACK_OK"}

Linked(w) ==
  /\ client[w] = Off => ~ conn[w].up /\ conn[w].rep = "none"
  /\ client[w] # Off =>
       /\ conn[w].req # NoRequest => conn[w].req.file = client[w].file
       /\ job[w] # Store!Idle => job[w].file = client[w].file
       /\ conn[w].rep \in Store!ReplyType => conn[w].rep \in sent[client[w].file]

(* An acknowledgement is under way only for what has been decrypted. *)
Acknowledging(w) ==
  /\ conn[w].req.type = "DOWNLOAD_ACK" => conn[w].req.file \in decrypted
  /\ job[w].pc = "insertAck" => job[w].file \in decrypted

BegunLate(w) ==
  client[w] # Off /\ client[w].late =>
    /\ sent[client[w].file] \intersect Confirming # {}
    /\ client[w].pc \notin {"ACK_OK", "save"}
    /\ conn[w].rep # "DOWNLOAD_RESPONSE"
    /\ job[w].pc \in {"authorise", "respond"} => job[w].after \intersect Confirming # {}

ToldWasSent == \A f \in File, r \in Store!ReplyType : <<r, f>> \in told => r \in sent[f]

ConnOK(w) == Linked(w) /\ Acknowledging(w) /\ BegunLate(w)

ConnInv ==
  /\ \A w \in Worker : ConnOK(w)
  /\ ToldWasSent
  /\ AckMeansDecrypted

IInv == TypeOK /\ FS!IInv /\ ConnInv

----------------------------------------------------------------------------
(* Store and FS are the same module under two names. *)

LEMMA SameInit == Store!Init => FS!Init
  BY DEF Store!Init, FS!Init, Store!Idle, FS!Idle, Store!NoFile, FS!NoFile

LEMMA SameNext == [Store!Next]_(Store!vars) => [FS!Next]_(FS!vars)
  BY Zenon
  DEF Store!rows, FS!rows, Store!disk, FS!disk, Store!uploads, FS!uploads,
      Store!vars, FS!vars, Store!Idle, FS!Idle, Store!Working, FS!Working,
      Store!Storing, FS!Storing, Store!Downloading, FS!Downloading, Store!Become,
      FS!Become, Store!Goto, FS!Goto, Store!CertValid, FS!CertValid, Store!Form,
      FS!Form, Store!UploadAdmitted, FS!UploadAdmitted, Store!NoFile, FS!NoFile,
      Store!Empty, FS!Empty, Store!Part, FS!Part, Store!Whole, FS!Whole,
      Store!Mixed, FS!Mixed, Store!Writing, FS!Writing, Store!SomeOver, FS!SomeOver,
      Store!AllOver, FS!AllOver, Store!HeldBy, FS!HeldBy, Store!Put, FS!Put,
      Store!AfterReplace, FS!AfterReplace, Store!Exposed, FS!Exposed,
      Store!CutShort, FS!CutShort, Store!TakeUpload, FS!TakeUpload, Store!OpenTmp,
      FS!OpenTmp, Store!WriteShort, FS!WriteShort, Store!FillTmp, FS!FillTmp,
      Store!Replace, FS!Replace, Store!InsertFile, FS!InsertFile,
      Store!TakeDownload, FS!TakeDownload, Store!PastExpiration, FS!PastExpiration,
      Store!FindExpired, FS!FindExpired, Store!MarkExpired, FS!MarkExpired,
      Store!Authorise, FS!Authorise, Store!Respond, FS!Respond, Store!TakeAck,
      FS!TakeAck, Store!InsertAck, FS!InsertAck, Store!MarkDownloaded,
      FS!MarkDownloaded, Store!TakeRevoke, FS!TakeRevoke, Store!MarkRevoked,
      FS!MarkRevoked, Store!SendReply, FS!SendReply, Store!AnswerOnly,
      FS!AnswerOnly, Store!Abort, FS!Abort, Store!StartCleaner, FS!StartCleaner,
      Store!StartPass, FS!StartPass, Store!Overdue, FS!Overdue, Store!Sweep,
      FS!Sweep, Store!PassFails, FS!PassFails, Store!Tick, FS!Tick, Store!Restart,
      FS!Restart, Store!Handle, FS!Handle, Store!Clean, FS!Clean, Store!Next,
      FS!Next

LEMMA SameTypes == FS!TypeOK => Store!TypeOK
  BY
  DEF Store!TypeOK, FS!TypeOK, Store!Busy, FS!Busy, Store!BusyPC, FS!BusyPC,
      Store!Closed, FS!Closed, Store!Status, FS!Status, Store!Content, FS!Content,
      Store!ReplyType, FS!ReplyType, Store!Idle, FS!Idle

(* What follows uses of the store's invariant. *)
LEMMA StoreFacts ==
  ASSUME FS!IInv
  PROVE  /\ Store!TypeOK
         /\ \A w \in Worker, r \in Confirming :
              job[w].pc = "respond" => r \notin job[w].after
<1>1. Store!TypeOK
  BY SameTypes DEF FS!IInv
<1>2. \A w \in Worker, r \in Confirming : job[w].pc = "respond" => r \notin job[w].after
  BY DEF FS!IInv, FS!JobsOK, FS!GrantedBefore, Confirming
<1> QED
  BY <1>1, <1>2

----------------------------------------------------------------------------
(* What the steps of the store do to the job of a worker and to the replies. *)

Others(w) == \A v \in Worker \ {w} : job'[v] = job[v]
Grows == \A f \in File : sent[f] \subseteq sent'[f]

LEMMA Jobs ==
  ASSUME Store!TypeOK, NEW w \in Worker, job[w] # Store!Idle
  PROVE  /\ job[w].file \in File
         /\ job[w].pc \in Store!BusyPC
  BY DEF Store!TypeOK, Store!Busy

LEMMA HandleEffect ==
  ASSUME Store!TypeOK, NEW w \in Worker, Store!Handle(w)
  PROVE  /\ job[w] # Store!Idle
         /\ Others(w)
         /\ Grows
         /\ job'[w] = Store!Idle /\ LastReply(job[w].pc) \in Store!ReplyType =>
              LastReply(job[w].pc) \in sent'[job[w].file]
         /\ job'[w] # Store!Idle =>
              /\ job'[w].file = job[w].file
              /\ job'[w].after = job[w].after
              /\ job'[w].pc # "insertAck"
              /\ job'[w].pc \in {"authorise", "respond"} => job[w].pc = "authorise"
         /\ acks' = acks \/ (job[w].pc = "insertAck" /\ acks' = acks \union {job[w].file})
<1>1. job[w] # Store!Idle
  BY DEF Store!Handle, Store!OpenTmp, Store!WriteShort, Store!FillTmp, Store!Replace,
         Store!InsertFile, Store!FindExpired, Store!MarkExpired, Store!Authorise,
         Store!Respond, Store!InsertAck, Store!MarkDownloaded, Store!MarkRevoked,
         Store!SendReply, Store!Idle
<1>2. job[w] \in Store!Busy /\ job \in [Worker -> Store!Busy \union {Store!Idle}]
  BY <1>1 DEF Store!TypeOK
<1> USE <1>1, <1>2 DEF Others, Grows, LastReply, Store!Goto, Store!Become, Store!ReplyType
<1>3. CASE \/ Store!OpenTmp(w) \/ Store!WriteShort(w) \/ Store!FillTmp(w) \/ Store!Replace(w)
           \/ Store!InsertFile(w) \/ Store!MarkDownloaded(w) \/ Store!MarkRevoked(w)
  BY <1>3 DEF Store!OpenTmp, Store!WriteShort, Store!FillTmp, Store!Replace, Store!InsertFile,
              Store!MarkDownloaded, Store!MarkRevoked, Store!rows, Store!Busy, Store!Idle
<1>4. CASE Store!InsertAck(w)
  BY <1>4 DEF Store!InsertAck, Store!Busy, Store!Idle
<1>5. CASE Store!FindExpired(w) \/ Store!Authorise(w)
  BY <1>5 DEF Store!FindExpired, Store!Authorise, Store!rows, Store!Busy, Store!Idle
<1>6. CASE Store!MarkExpired(w)
  BY <1>6 DEF Store!MarkExpired
<1>7. CASE Store!Respond(w) \/ Store!SendReply(w)
  <2>1. sent \in [File -> SUBSET Store!ReplyType] /\ job[w].file \in File
    BY DEF Store!TypeOK, Store!Busy
  <2> QED
    BY <1>7, <2>1 DEF Store!Respond, Store!SendReply, Store!rows
<1> QED
  BY <1>3, <1>4, <1>5, <1>6, <1>7 DEF Store!Handle

LEMMA TakeEffect ==
  ASSUME Store!TypeOK, NEW w \in Worker, NEW f \in File, NEW u \in User,
         \/ Store!TakeUpload(w, f, Own) \/ Store!TakeDownload(w, f, u)
         \/ Store!TakeAck(w, f, u) \/ Store!TakeRevoke(w, f, u)
  PROVE  /\ job[w] = Store!Idle
         /\ Others(w)
         /\ sent' = sent /\ acks' = acks
         /\ job'[w] # Store!Idle =>
              /\ job'[w].file = f
              /\ job'[w].pc = "insertAck" => Store!TakeAck(w, f, u)
              /\ job'[w].pc \in {"authorise", "respond"} => job'[w].after = sent[f]
<1>1. job \in [Worker -> Store!Busy \union {Store!Idle}]
  BY DEF Store!TypeOK
<1> QED
  BY <1>1
  DEF Others, Store!TakeUpload, Store!TakeDownload, Store!TakeAck, Store!TakeRevoke,
      Store!Become, Store!Working, Store!Storing, Store!Downloading, Store!Idle,
      Store!rows, Store!disk

LEMMA AbortEffect ==
  ASSUME Store!TypeOK, NEW w \in Worker, Store!Abort(w)
  PROVE  /\ job'[w] = Store!Idle
         /\ Others(w)
         /\ sent' = sent /\ acks' = acks
  BY DEF Others, Store!TypeOK, Store!Abort, Store!Become, Store!rows, Store!disk

LEMMA BackgroundEffect ==
  ASSUME Store!Clean \/ Store!Tick
  PROVE  job' = job /\ sent' = sent /\ acks' = acks
  BY DEF Store!Clean, Store!Tick, Store!StartCleaner, Store!StartPass, Store!Sweep,
         Store!PassFails, Store!rows, Store!disk

LEMMA RestartEffect ==
  ASSUME Store!Restart
  PROVE  job' = [w \in Worker |-> Store!Idle] /\ sent' = sent /\ acks' = acks
  BY DEF Store!Restart, Store!rows, Store!disk

----------------------------------------------------------------------------
(* Every step of the composition is a step of the store or leaves it alone. *)
LEMMA StepRefines ==
  ASSUME TypeOK, [Next]_vars
  PROVE  [Store!Next]_(Store!vars)
<1>1. UNCHANGED store => UNCHANGED Store!vars
  BY DEF store, Store!vars
<1>2. ASSUME NEW w \in Worker, NEW cmd \in Command, NEW f \in File, StartCommand(w, cmd, f)
      PROVE  UNCHANGED store
  BY <1>2 DEF StartCommand
<1>3. ASSUME NEW w \in Worker, ClientStep(w)
      PROVE  UNCHANGED store
  BY <1>3 DEF ClientStep, Finish, TakeRefusal, Acknowledge, TakeAckReply, Save, LeaveEarly
<1>4. ASSUME NEW w \in Worker, TakeRequest(w)
      PROVE  Store!Next
  <2>1. conn[w].req \in [type : RequestType, file : File]
    BY <1>4 DEF TakeRequest, TypeOK
  <2>2. /\ conn[w].req.file \in File
        /\ Sender[conn[w].req.file] \in User
        /\ Recipient[conn[w].req.file] \in User
    BY <2>1, DeliveryConstants
  <2> QED
    BY <1>4, <2>2 DEF TakeRequest, Store!Next
<1>5. ASSUME NEW w \in Worker, RefuseRequest(w)
      PROVE  UNCHANGED store
  BY <1>5 DEF RefuseRequest
<1>6. ASSUME NEW w \in Worker, Work(w) \/ Fail(w)
      PROVE  Store!Next
  BY <1>6 DEF Work, Fail, Store!Next
<1>7. CASE Background \/ Restart
  BY <1>7 DEF Background, Restart, Store!Next
<1>8. CASE UNCHANGED vars
  BY <1>8 DEF vars, Store!vars
<1> QED
  BY <1>1, <1>2, <1>3, <1>4, <1>5, <1>6, <1>7, <1>8 DEF Next, ServerStep

LEMMA StepKeepsStore ==
  ASSUME IInv, [Next]_vars
  PROVE  FS!IInv' /\ Store!TypeOK'
<1>1. FS!IInv'
  BY StepRefines, SameNext, FS!NextIInv, DeliveryConstants DEF IInv
<1>2. FS!TypeOK'
  BY <1>1 DEF FS!IInv
<1>3. FS!TypeOK' => Store!TypeOK'
  BY SameTypes, PTL
<1> QED
  BY <1>1, <1>2, <1>3

----------------------------------------------------------------------------
(* Types *)

Conn == [up : BOOLEAN, req : [type : RequestType, file : File] \union {NoRequest},
         rep : Reply \union {"none"}]
Client == [pc : Reply \union {"save"}, cmd : Command, file : File, late : BOOLEAN]

LEMMA Types ==
  TypeOK <=> /\ Store!TypeOK
             /\ conn \in [Worker -> Conn]
             /\ client \in [Worker -> Client \union {Off}]
             /\ decrypted \subseteq File
             /\ saved \subseteq File
             /\ told \subseteq Reply \X File
  BY DEF TypeOK, Conn, Client

LEMMA InitTypes == Init => TypeOK
<1> SUFFICES ASSUME Init PROVE TypeOK
  OBVIOUS
<1>1. FS!TypeOK
  BY SameInit, FS!InitTypeOK, DeliveryConstants DEF Init
<1> QED
  BY <1>1, SameTypes DEF Init, TypeOK, NoRequest, Off

LEMMA OnIsClient ==
  ASSUME TypeOK, NEW w \in Worker, client[w].pc # "off"
  PROVE  client[w] \in Client /\ client[w] # Off
  BY Types DEF Off

LEMMA OnIsOn ==
  ASSUME TypeOK, NEW w \in Worker
  PROVE  client[w] = Off <=> client[w].pc = "off"
<1>1. \A c \in Client : c.pc # "off"
  BY DEF Client, Reply, Store!ReplyType
<1> QED
  BY <1>1, Types DEF Off

(* What a step makes of one connection. *)
LEMMA ConnIs ==
  ASSUME conn \in [Worker -> Conn], NEW w \in Worker
  PROVE  /\ conn[w].up \in BOOLEAN
         /\ conn[w].req \in [type : RequestType, file : File] \union {NoRequest}
         /\ conn[w].rep \in Reply \union {"none"}
<1>1. conn[w] \in Conn
  OBVIOUS
<1> QED
  BY <1>1 DEF Conn

LEMMA ConnTyped ==
  ASSUME conn \in [Worker -> Conn], NEW w \in Worker, NEW up \in BOOLEAN,
         NEW req \in [type : RequestType, file : File] \union {NoRequest},
         NEW rep \in Reply \union {"none"},
         Connection(w, up, req, rep)
  PROVE  conn' \in [Worker -> Conn]
<1>1. [up |-> up, req |-> req, rep |-> rep] \in Conn
  BY DEF Conn
<1> QED
  BY <1>1 DEF Connection

LEMMA LastReplyTyped == ASSUME NEW pc PROVE LastReply(pc) \in Reply
  BY DEF LastReply, Reply, Store!ReplyType

LEMMA NextTypes ==
  ASSUME TypeOK, Next, Store!TypeOK'
  PROVE  TypeOK'
<1>t. /\ conn \in [Worker -> Conn] /\ client \in [Worker -> Client \union {Off}]
      /\ decrypted \subseteq File /\ saved \subseteq File /\ told \subseteq Reply \X File
  BY Types
<1> SUFFICES /\ conn' \in [Worker -> Conn] /\ client' \in [Worker -> Client \union {Off}]
             /\ decrypted' \subseteq File /\ saved' \subseteq File
             /\ told' \subseteq Reply \X File
  BY DEF TypeOK, Conn, Client
<1> USE <1>t
<1>1. ASSUME NEW w \in Worker, NEW cmd \in Command, NEW f \in File, StartCommand(w, cmd, f)
      PROVE  conn' \in [Worker -> Conn] /\ client' \in [Worker -> Client \union {Off}]
  <2>1. Request(RequestOf(cmd), f) \in [type : RequestType, file : File]
    BY DEF Request, RequestOf, Command, RequestType
  <2>2. AnswerTo(cmd) \in Reply
    BY DEF AnswerTo, Command, Reply, Store!ReplyType
  <2>3. KnownClosed(f) \in BOOLEAN
    BY DEF KnownClosed
  <2> QED
    BY <1>1, <2>1, <2>2, <2>3, ConnTyped DEF StartCommand, Client
<1>2. ASSUME NEW w \in Worker, ClientStep(w)
      PROVE  /\ conn' \in [Worker -> Conn] /\ client' \in [Worker -> Client \union {Off}]
             /\ decrypted' \subseteq File /\ saved' \subseteq File
             /\ told' \subseteq Reply \X File
  <2>1. client[w] \in Client
    BY <1>2, OnIsClient, OnIsOn
    DEF ClientStep, Finish, TakeRefusal, Acknowledge, TakeAckReply, Save, LeaveEarly
  <2>2. client[w].file \in File /\ (client[w].pc # "save" => client[w].pc \in Reply)
    BY <2>1 DEF Client
  <2>3. Request("DOWNLOAD_ACK", client[w].file) \in [type : RequestType, file : File]
    BY <2>2 DEF Request, RequestType
  <2>4. CASE Finish(w) \/ TakeRefusal(w) \/ Save(w) \/ LeaveEarly(w)
    <3>1. told' \subseteq Reply \X File
      BY <2>2, <2>4 DEF Finish, TakeRefusal, Save, LeaveEarly, Confirm, Reply, ends
    <3>2. Leave(w) /\ decrypted' = decrypted /\ saved' \in {saved, saved \union {client[w].file}}
      BY <2>4 DEF Finish, TakeRefusal, Save, LeaveEarly, ends
    <3>3. conn' \in [Worker -> Conn]
      BY <3>2, ConnTyped, ConnIs DEF Leave, Close
    <3>4. client' \in [Worker -> Client \union {Off}]
      BY <3>2 DEF Leave
    <3> QED
      BY <2>2, <3>1, <3>2, <3>3, <3>4
  <2>5. CASE Acknowledge(w)
    <3>1. "ACK_OK" \in Reply
      BY DEF Reply, Store!ReplyType
    <3>2. [client[w] EXCEPT !.pc = "ACK_OK"] \in Client
      BY <2>1, <3>1 DEF Client
    <3>4. conn' \in [Worker -> Conn]
      BY <2>3, <2>5, ConnTyped, ConnIs DEF Acknowledge
    <3> QED
      BY <2>2, <2>5, <3>2, <3>4 DEF Acknowledge
  <2>6. CASE TakeAckReply(w)
    <3>1. [client[w] EXCEPT !.pc = "save"] \in Client
      BY <2>1 DEF Client
    <3>2. told' \subseteq Reply \X File
      BY <2>2, <2>6 DEF TakeAckReply, Confirm
    <3>3. conn' \in [Worker -> Conn]
      BY <2>6, ConnTyped, ConnIs DEF TakeAckReply
    <3> QED
      BY <2>6, <3>1, <3>2, <3>3 DEF TakeAckReply
  <2> QED
    BY <1>2, <2>4, <2>5, <2>6 DEF ClientStep
<1>3. ASSUME NEW w \in Worker, ServerStep(w)
      PROVE  conn' \in [Worker -> Conn] /\ UNCHANGED <<client, ends>>
  <2>1. "ERROR" \in Reply
    BY DEF Reply
  <2>2. ASSUME NEW rep \in Reply, Answer(w, rep) PROVE conn' \in [Worker -> Conn]
    BY <2>2, ConnTyped, ConnIs DEF Answer
  <2>3. CASE TakeRequest(w)
    <3>1. conn' \in [Worker -> Conn]
      BY <2>1, <2>3, ConnTyped, ConnIs DEF TakeRequest
    <3> QED
      BY <2>3, <3>1 DEF TakeRequest
  <2>4. CASE RefuseRequest(w)
    <3>1. conn' \in [Worker -> Conn]
      BY <2>1, <2>4, ConnTyped, ConnIs DEF RefuseRequest
    <3> QED
      BY <2>4, <3>1 DEF RefuseRequest
  <2>5. CASE Work(w)
    <3>1. conn' \in [Worker -> Conn]
      BY <2>2, <2>5, LastReplyTyped DEF Work
    <3> QED
      BY <2>5, <3>1 DEF Work
  <2>6. CASE Fail(w)
    <3>1. conn' \in [Worker -> Conn]
      BY <2>1, <2>2, <2>6, ConnTyped, ConnIs DEF Fail, Close
    <3> QED
      BY <2>6, <3>1 DEF Fail
  <2> QED
    BY <1>3, <2>3, <2>4, <2>5, <2>6 DEF ServerStep
<1>4. CASE Restart
  <2>1. conn' = [w \in Worker |-> [conn[w] EXCEPT !.up = FALSE, !.req = NoRequest]]
    BY <1>4 DEF Restart
  <2>2. ASSUME NEW c \in Conn PROVE [c EXCEPT !.up = FALSE, !.req = NoRequest] \in Conn
    BY DEF Conn
  <2>3. conn' \in [Worker -> Conn]
    BY <2>1, <2>2
  <2> QED
    BY <1>4, <2>3 DEF Restart, ends
<1>5. CASE Background
  BY <1>5 DEF Background, ends
<1> QED
  BY <1>1, <1>2, <1>3, <1>4, <1>5 DEF Next, StartCommand, ends

----------------------------------------------------------------------------
(* The invariant *)

LEMMA InitIInv == Init => IInv
<1> SUFFICES ASSUME Init PROVE IInv
  OBVIOUS
<1>1. FS!IInv
  BY SameInit, FS!InitIInv, DeliveryConstants DEF Init
<1>2. job = [w \in Worker |-> Store!Idle] /\ acks = {}
  BY DEF Init, Store!Init
<1>3. ConnInv
  BY <1>2 DEF Init, ConnInv, ConnOK, Linked, Acknowledging, BegunLate, ToldWasSent,
              AckMeansDecrypted, NoRequest, Off, Store!Idle
<1> QED
  BY <1>1, <1>3, InitTypes DEF IInv

(* The connections a step does not touch keep what is known of them. *)
LEMMA OtherConns ==
  ASSUME TypeOK, NEW v \in Worker, ConnOK(v), Grows, decrypted \subseteq decrypted',
         conn'[v] = conn[v], client'[v] = client[v], job'[v] = job[v]
  PROVE  ConnOK(v)'
<1>1. client[v] # Off => sent[client[v].file] \subseteq sent'[client[v].file]
  <2>1. client[v] # Off => client[v].file \in File
    BY OnIsClient, OnIsOn DEF Client
  <2> QED
    BY <2>1 DEF Grows
<1>2. Linked(v)'
  BY <1>1 DEF ConnOK, Linked
<1>3. Acknowledging(v)'
  BY DEF ConnOK, Acknowledging
<1>4. BegunLate(v)'
  BY <1>1 DEF ConnOK, BegunLate
<1> QED
  BY <1>2, <1>3, <1>4 DEF ConnOK

LEMMA StoreAlone ==
  ASSUME UNCHANGED store
  PROVE  job' = job /\ sent' = sent /\ acks' = acks /\ Grows
  BY DEF store, Grows

LEMMA StartKeeps ==
  ASSUME TypeOK, ConnInv,
         NEW w \in Worker, NEW cmd \in Command, NEW f \in File, StartCommand(w, cmd, f)
  PROVE  ConnInv'
<1>1. /\ conn \in [Worker -> Conn] /\ client \in [Worker -> Client \union {Off}]
      /\ UNCHANGED store /\ UNCHANGED ends
      /\ job[w] = Store!Idle
  BY Types DEF StartCommand, Released
<1>2. /\ conn' = [conn EXCEPT ![w] =
                    [up |-> TRUE, req |-> Request(RequestOf(cmd), f), rep |-> "none"]]
      /\ client' = [client EXCEPT ![w] =
                      [pc |-> AnswerTo(cmd), cmd |-> cmd, file |-> f, late |-> KnownClosed(f)]]
  BY DEF StartCommand, Connection
<1>3. /\ Request(RequestOf(cmd), f).file = f
      /\ Request(RequestOf(cmd), f).type # "DOWNLOAD_ACK"
      /\ AnswerTo(cmd) \notin {"ACK_OK", "save", "off"}
  BY DEF Request, RequestOf, AnswerTo, Command
<1>4. KnownClosed(f) => sent[f] \intersect Confirming # {}
  <2>1. SUFFICES ASSUME KnownClosed(f) PROVE sent[f] \intersect Confirming # {}
    OBVIOUS
  <2>2. PICK r \in Confirming : <<r, f>> \in told
    BY <2>1 DEF KnownClosed, Confirming
  <2>3. r \in Store!ReplyType
    BY DEF Confirming, Store!ReplyType
  <2> QED
    BY <2>2, <2>3 DEF ConnInv, ToldWasSent
<1>5. ConnOK(w)'
  <2>1. client'[w] # Off
    BY <1>1, <1>2, <1>3 DEF Off
  <2>2. /\ conn'[w].rep = "none" /\ conn'[w].req.file = f
        /\ conn'[w].req.type # "DOWNLOAD_ACK" /\ client'[w].file = f
        /\ client'[w].pc \notin {"ACK_OK", "save"} /\ client'[w].late = KnownClosed(f)
    BY <1>1, <1>2, <1>3
  <2>3. job'[w] = Store!Idle /\ sent' = sent
    BY <1>1, StoreAlone
  <2>4. Linked(w)'
    BY <2>1, <2>2, <2>3 DEF Linked, Store!ReplyType
  <2>5. Acknowledging(w)'
    BY <2>2, <2>3 DEF Acknowledging, Store!Idle
  <2>6. BegunLate(w)'
    BY <1>4, <2>2, <2>3 DEF BegunLate, Store!Idle
  <2> QED
    BY <2>4, <2>5, <2>6 DEF ConnOK
<1>6. ASSUME NEW v \in Worker, v # w PROVE ConnOK(v)'
  BY <1>1, <1>2, <1>6, StoreAlone, OtherConns DEF ConnInv, ends
<1> QED
  BY <1>1, <1>5, <1>6, StoreAlone DEF ConnInv, ToldWasSent, AckMeansDecrypted, ends

(* The command ends, and its connection is down. *)
LEMMA LeaveKeeps ==
  ASSUME TypeOK, NEW w \in Worker, ConnOK(w), Leave(w), UNCHANGED store,
         decrypted' = decrypted
  PROVE  ConnOK(w)'
<1>1. /\ client'[w] = Off /\ ~ conn'[w].up
      /\ conn'[w].rep = "none" /\ conn'[w].req = conn[w].req
  BY Types DEF Leave, Close, Connection
<1> QED
  BY <1>1, StoreAlone DEF ConnOK, Linked, Acknowledging, BegunLate

LEMMA ClientKeeps ==
  ASSUME TypeOK, ConnInv, NEW w \in Worker, ClientStep(w)
  PROVE  ConnInv'
<1>1. /\ conn \in [Worker -> Conn] /\ client \in [Worker -> Client \union {Off}]
      /\ decrypted \subseteq File
  BY Types
<1>2. UNCHANGED store
  BY DEF ClientStep, Finish, TakeRefusal, Acknowledge, TakeAckReply, Save, LeaveEarly
<1>3. client[w] \in Client /\ client[w] # Off /\ client[w].file \in File
  <2>1. client[w] # Off
    BY OnIsOn DEF ClientStep, Finish, TakeRefusal, Acknowledge, TakeAckReply, Save, LeaveEarly
  <2> QED
    BY <1>1, <2>1 DEF Client
<1>4. ConnOK(w)
  BY DEF ConnInv
<1>5. SUFFICES /\ ConnOK(w)'
               /\ decrypted \subseteq decrypted'
               /\ \A v \in Worker \ {w} : conn'[v] = conn[v] /\ client'[v] = client[v]
               /\ \/ told' = told
                  \/ told' = told \union {<<"ERROR", client[w].file>>}
                  \/ /\ told' = told \union {<<client[w].pc, client[w].file>>}
                     /\ client[w].pc \in sent[client[w].file]
  <2>1. ASSUME NEW v \in Worker, v # w PROVE ConnOK(v)'
    BY <1>2, <1>5, <2>1, StoreAlone, OtherConns DEF ConnInv
  <2>2. ToldWasSent'
    <3>1. \A f \in File, r \in Store!ReplyType : <<r, f>> \in told => r \in sent[f]
      BY DEF ConnInv, ToldWasSent
    <3>2. "ERROR" \notin Store!ReplyType
      BY DEF Store!ReplyType
    <3>3. sent' = sent
      BY <1>2, StoreAlone
    <3>4. ASSUME NEW f \in File, NEW r \in Store!ReplyType, <<r, f>> \in told'
          PROVE  r \in sent[f]
      <4>1. <<r, f>> \in told \/ r = "ERROR" \/ (r = client[w].pc /\ f = client[w].file /\ r \in sent[f])
        BY <1>5, <3>4
      <4> QED
        BY <3>1, <3>2, <4>1
    <3> QED
      BY <3>3, <3>4 DEF ToldWasSent
  <2>3. AckMeansDecrypted'
    BY <1>2, <1>5, StoreAlone DEF ConnInv, AckMeansDecrypted
  <2> QED
    BY <1>5, <2>1, <2>2, <2>3 DEF ConnInv
<1>6. CASE Finish(w)
  <2>1. ConnOK(w)'
    BY <1>2, <1>4, <1>6, LeaveKeeps DEF Finish
  <2>2. client[w].pc \in sent[client[w].file]
    BY <1>3, <1>4, <1>6 DEF Finish, ConnOK, Linked, Store!ReplyType
  <2>3. /\ decrypted' = decrypted
        /\ told' = told \union {<<client[w].pc, client[w].file>>}
        /\ \A v \in Worker \ {w} : conn'[v] = conn[v] /\ client'[v] = client[v]
    BY <1>1, <1>6 DEF Finish, Confirm, Leave, Close, Connection
  <2> QED
    BY <2>1, <2>2, <2>3
<1>7. CASE TakeRefusal(w) \/ Save(w) \/ LeaveEarly(w)
  <2>1. Leave(w) /\ decrypted' = decrypted
    BY <1>7 DEF TakeRefusal, Save, LeaveEarly, ends
  <2>2. ConnOK(w)'
    BY <1>2, <1>4, <2>1, LeaveKeeps
  <2>3. told' = told \/ told' = told \union {<<"ERROR", client[w].file>>}
    BY <1>7 DEF TakeRefusal, Save, LeaveEarly, ends
  <2> QED
    BY <1>1, <2>1, <2>2, <2>3 DEF Leave, Close, Connection
<1>8. CASE Acknowledge(w)
  <2>1. /\ client'[w] # Off /\ client'[w].pc = "ACK_OK"
        /\ client'[w].file = client[w].file /\ client'[w].late = client[w].late
        /\ decrypted' = decrypted \union {client[w].file}
        /\ conn'[w].rep = "none"
        /\ conn'[w].req \in {conn[w].req, Request("DOWNLOAD_ACK", client[w].file)}
    BY <1>1, <1>3, <1>8 DEF Acknowledge, Connection, Client, Off
  <2>2. ~ client[w].late
    BY <1>3, <1>4, <1>8 DEF Acknowledge, ConnOK, BegunLate
  <2>3. Linked(w)'
    BY <1>2, <1>3, <1>4, <2>1, StoreAlone DEF ConnOK, Linked, Request, Store!ReplyType
  <2>4. Acknowledging(w)'
    BY <1>2, <1>4, <2>1, StoreAlone DEF ConnOK, Acknowledging, Request
  <2>5. BegunLate(w)'
    BY <2>1, <2>2 DEF BegunLate
  <2> QED
    BY <1>1, <1>8, <2>1, <2>3, <2>4, <2>5 DEF Acknowledge, Connection, ConnOK
<1>9. CASE TakeAckReply(w)
  <2>1. /\ client'[w] # Off /\ client'[w].pc = "save"
        /\ client'[w].file = client[w].file /\ client'[w].late = client[w].late
        /\ conn'[w].rep = "none" /\ conn'[w].req = conn[w].req
        /\ decrypted' = decrypted
    BY <1>1, <1>3, <1>9 DEF TakeAckReply, Connection, Client, Off
  <2>2. ~ client[w].late
    BY <1>3, <1>4, <1>9 DEF TakeAckReply, ConnOK, BegunLate
  <2>3. Linked(w)' /\ Acknowledging(w)' /\ BegunLate(w)'
    BY <1>2, <1>3, <1>4, <2>1, <2>2, StoreAlone
    DEF ConnOK, Linked, Acknowledging, BegunLate, Store!ReplyType
  <2>4. \/ told' = told
        \/ /\ told' = told \union {<<client[w].pc, client[w].file>>}
           /\ client[w].pc \in sent[client[w].file]
    BY <1>3, <1>4, <1>9 DEF TakeAckReply, Confirm, ConnOK, Linked, Store!ReplyType
  <2> QED
    BY <1>1, <1>9, <2>1, <2>3, <2>4 DEF TakeAckReply, Connection, ConnOK
<1> QED
  BY <1>6, <1>7, <1>8, <1>9 DEF ClientStep

(* What a step of the server on one connection has to establish. *)
LEMMA ServerFrame ==
  ASSUME TypeOK, ConnInv, NEW w \in Worker, ConnOK(w)', Others(w), Grows,
         UNCHANGED <<client, ends>>,
         \A v \in Worker \ {w} : conn'[v] = conn[v],
         acks' \subseteq decrypted
  PROVE  ConnInv'
<1>1. ASSUME NEW v \in Worker, v # w PROVE ConnOK(v)'
  BY <1>1, OtherConns DEF ConnInv, Others, ends
<1>2. ToldWasSent'
  BY DEF ConnInv, ToldWasSent, Grows, ends
<1>3. AckMeansDecrypted'
  BY DEF AckMeansDecrypted, ends
<1> QED
  BY <1>1, <1>2, <1>3 DEF ConnInv

LEMMA TakeKeeps ==
  ASSUME TypeOK, ConnInv, NEW w \in Worker, TakeRequest(w)
  PROVE  ConnInv'
<1> DEFINE req == conn[w].req
<1>1. conn \in [Worker -> Conn] /\ ConnOK(w) /\ Store!TypeOK
  BY Types DEF ConnInv
<1>2. req \in [type : RequestType, file : File] /\ req # NoRequest
  BY <1>1 DEF TakeRequest, Conn
<1>3. req.file \in File /\ Sender[req.file] \in User /\ Recipient[req.file] \in User
  BY <1>2, DeliveryConstants
<1>4. /\ job[w] = Store!Idle
      /\ Others(w)
      /\ sent' = sent /\ acks' = acks
      /\ job'[w] # Store!Idle =>
           /\ job'[w].file = req.file
           /\ job'[w].pc = "insertAck" => req.type = "DOWNLOAD_ACK"
           /\ job'[w].pc \in {"authorise", "respond"} => job'[w].after = sent[req.file]
  <2>1. CASE req.type = "UPLOAD_REQUEST" /\ Store!TakeUpload(w, req.file, Own)
    <3>1. job'[w] = Store!Idle \/ job'[w].pc = "openTmp"
      BY <1>1, <2>1 DEF Store!TakeUpload, Store!Become, Store!Storing, Store!TypeOK
    <3> QED
      BY <1>1, <1>3, <2>1, <3>1, TakeEffect
  <2>2. CASE req.type = "DOWNLOAD_REQUEST" /\ Store!TakeDownload(w, req.file, Recipient[req.file])
    <3>1. job'[w].pc = "authorise"
      BY <1>1, <2>2 DEF Store!TakeDownload, Store!Become, Store!Downloading, Store!TypeOK
    <3> QED
      BY <1>1, <1>3, <2>2, <3>1, TakeEffect
  <2>3. CASE req.type = "DOWNLOAD_ACK" /\ Store!TakeAck(w, req.file, Recipient[req.file])
    BY <1>1, <1>3, <2>3, TakeEffect
  <2>4. CASE req.type = "REVOKE_REQUEST" /\ Store!TakeRevoke(w, req.file, Sender[req.file])
    <3>1. job'[w].pc \in {"markRevoked", "REVOKE_ACK"}
      BY <1>1, <2>4 DEF Store!TakeRevoke, Store!Become, Store!Working, Store!TypeOK
    <3> QED
      BY <1>1, <1>3, <2>4, <3>1, TakeEffect
  <2> QED
    BY <2>1, <2>2, <2>3, <2>4 DEF TakeRequest
<1>5. /\ conn'[w].up = conn[w].up /\ conn'[w].req = NoRequest
      /\ conn'[w].rep \in {"ERROR", "none"} /\ (~ conn[w].up => conn'[w].rep = "none")
      /\ \A v \in Worker \ {w} : conn'[v] = conn[v]
      /\ UNCHANGED <<client, ends>>
  BY <1>1 DEF TakeRequest, Connection
<1>6. Linked(w)'
  BY <1>1, <1>2, <1>4, <1>5 DEF ConnOK, Linked, Store!ReplyType
<1>7. Acknowledging(w)'
  <2>1. job'[w].pc = "insertAck" => job'[w] # Store!Idle
    BY DEF Store!Idle
  <2> QED
    BY <1>1, <1>4, <1>5, <2>1 DEF ConnOK, Acknowledging, NoRequest, ends
<1>8. BegunLate(w)'
  <2>1. job'[w].pc \in {"authorise", "respond"} => job'[w] # Store!Idle
    BY DEF Store!Idle
  <2> QED
    BY <1>1, <1>2, <1>4, <1>5, <2>1 DEF ConnOK, BegunLate, Linked
<1> QED
  BY <1>4, <1>5, <1>6, <1>7, <1>8, ServerFrame
  DEF ConnOK, Grows, ConnInv, AckMeansDecrypted

LEMMA WorkKeeps ==
  ASSUME IInv, NEW w \in Worker, Work(w)
  PROVE  ConnInv'
<1>1. /\ TypeOK /\ ConnInv /\ Store!TypeOK /\ ConnOK(w)
      /\ conn \in [Worker -> Conn]
      /\ client[w] # Off => client[w].file \in File
  BY Types DEF IInv, ConnInv, Client
<1>2. /\ job[w] # Store!Idle
      /\ Others(w)
      /\ Grows
      /\ job'[w] = Store!Idle /\ LastReply(job[w].pc) \in Store!ReplyType =>
           LastReply(job[w].pc) \in sent'[job[w].file]
      /\ job'[w] # Store!Idle =>
           /\ job'[w].file = job[w].file
           /\ job'[w].after = job[w].after
           /\ job'[w].pc # "insertAck"
           /\ job'[w].pc \in {"authorise", "respond"} => job[w].pc = "authorise"
      /\ acks' = acks \/ (job[w].pc = "insertAck" /\ acks' = acks \union {job[w].file})
  BY <1>1, HandleEffect DEF Work
<1>3. /\ conn'[w].up = conn[w].up /\ conn'[w].req = conn[w].req
      /\ \/ conn'[w].rep = conn[w].rep
         \/ conn'[w].rep = "none"
         \/ conn[w].up /\ job'[w] = Store!Idle /\ conn'[w].rep = LastReply(job[w].pc)
      /\ \A v \in Worker \ {w} : conn'[v] = conn[v]
      /\ UNCHANGED <<client, ends>>
  BY <1>1 DEF Work, Answer, Connection
<1>4. client[w] # Off => sent[client[w].file] \subseteq sent'[client[w].file]
  BY <1>1, <1>2 DEF Grows
<1>5. Linked(w)'
  BY <1>1, <1>2, <1>3, <1>4 DEF ConnOK, Linked, Store!ReplyType
<1>6. Acknowledging(w)'
  BY <1>1, <1>2, <1>3 DEF ConnOK, Acknowledging, Store!Idle, ends
<1>7. BegunLate(w)'
  <2>1. LastReply(job[w].pc) = "DOWNLOAD_RESPONSE" => job[w].pc = "respond"
    BY DEF LastReply
  <2>2. SUFFICES ASSUME client[w] # Off, client[w].late PROVE BegunLate(w)'
    BY <1>3 DEF BegunLate
  <2>3. job[w].pc # "respond"
    BY <1>1, <2>2, StoreFacts DEF IInv, ConnOK, BegunLate
  <2>4. job'[w].pc \in {"authorise", "respond"} => job'[w] # Store!Idle
    BY DEF Store!Idle
  <2> QED
    BY <1>1, <1>2, <1>3, <1>4, <2>1, <2>2, <2>3, <2>4 DEF ConnOK, BegunLate
<1> QED
  BY <1>1, <1>2, <1>3, <1>5, <1>6, <1>7, ServerFrame
  DEF ConnOK, ConnInv, Acknowledging, AckMeansDecrypted

LEMMA RefuseKeeps ==
  ASSUME TypeOK, ConnInv, NEW w \in Worker, RefuseRequest(w) \/ Fail(w)
  PROVE  ConnInv'
<1>1. conn \in [Worker -> Conn] /\ ConnOK(w) /\ Store!TypeOK
  BY Types DEF ConnInv
<1>2. job'[w] = Store!Idle /\ Others(w) /\ sent' = sent /\ acks' = acks
  BY <1>1, AbortEffect, StoreAlone DEF RefuseRequest, Fail, Others
<1>3. /\ conn'[w].up => conn[w].up
      /\ conn'[w].req \in {NoRequest, conn[w].req}
      /\ conn'[w].rep \in {"ERROR", "none"} /\ (~ conn[w].up => conn'[w].rep = "none")
      /\ \A v \in Worker \ {w} : conn'[v] = conn[v]
      /\ UNCHANGED <<client, ends>>
  BY <1>1 DEF RefuseRequest, Fail, Answer, Close, Connection
<1>4. Linked(w)'
  BY <1>1, <1>2, <1>3 DEF ConnOK, Linked, Store!ReplyType
<1>5. Acknowledging(w)'
  BY <1>1, <1>2, <1>3 DEF ConnOK, Acknowledging, NoRequest, Store!Idle, ends
<1>6. BegunLate(w)'
  BY <1>1, <1>2, <1>3 DEF ConnOK, BegunLate, Store!Idle
<1> QED
  BY <1>2, <1>3, <1>4, <1>5, <1>6, ServerFrame
  DEF ConnOK, Grows, ConnInv, AckMeansDecrypted

LEMMA RestKeeps ==
  ASSUME TypeOK, ConnInv, Background \/ Restart
  PROVE  ConnInv'
<1>1. conn \in [Worker -> Conn]
  BY Types
<1>2. sent' = sent /\ acks' = acks /\ UNCHANGED <<client, ends>>
  BY BackgroundEffect, RestartEffect DEF Background, Restart
<1>3. ASSUME NEW w \in Worker PROVE ConnOK(w)'
  <2>1. ConnOK(w)
    BY DEF ConnInv
  <2>2. job'[w] \in {job[w], Store!Idle}
    BY BackgroundEffect, RestartEffect DEF Background, Restart
  <2>3. /\ conn'[w].up => conn[w].up
        /\ conn'[w].rep = conn[w].rep
        /\ conn'[w].req \in {NoRequest, conn[w].req}
    <3>1. conn[w] \in Conn
      BY <1>1
    <3>2. \/ conn'[w] = conn[w]
          \/ conn'[w] = [conn[w] EXCEPT !.up = FALSE, !.req = NoRequest]
      BY DEF Background, Restart
    <3>3. CASE conn'[w] = conn[w]
      BY <3>3
    <3>4. CASE conn'[w] = [conn[w] EXCEPT !.up = FALSE, !.req = NoRequest]
      BY <3>1, <3>4 DEF Conn
    <3> QED
      BY <3>2, <3>3, <3>4
  <2>4. Linked(w)'
    BY <1>2, <2>1, <2>2, <2>3 DEF ConnOK, Linked
  <2>5. Acknowledging(w)'
    BY <1>2, <2>1, <2>2, <2>3 DEF ConnOK, Acknowledging, NoRequest, Store!Idle, ends
  <2>6. BegunLate(w)'
    BY <1>2, <2>1, <2>2, <2>3 DEF ConnOK, BegunLate, Store!Idle
  <2> QED
    BY <2>4, <2>5, <2>6 DEF ConnOK
<1> QED
  BY <1>2, <1>3 DEF ConnInv, ToldWasSent, AckMeansDecrypted, ends

LEMMA NextIInv == IInv /\ [Next]_vars => IInv'
<1> SUFFICES ASSUME IInv, [Next]_vars PROVE IInv'
  OBVIOUS
<1>1. FS!IInv' /\ Store!TypeOK'
  BY StepKeepsStore
<1>2. TypeOK /\ ConnInv
  BY DEF IInv
<1>3. CASE Next
  <2>1. TypeOK'
    BY <1>1, <1>2, <1>3, NextTypes
  <2>2. ConnInv'
    BY <1>2, <1>3, StartKeeps, ClientKeeps, TakeKeeps, WorkKeeps, RefuseKeeps, RestKeeps
    DEF Next, ServerStep
  <2> QED
    BY <1>1, <2>1, <2>2 DEF IInv
<1>4. CASE UNCHANGED vars
  <2>1. TypeOK'
    BY <1>1, <1>2, <1>4 DEF vars, TypeOK
  <2>2. ConnInv'
    BY <1>2, <1>4
    DEF vars, ConnInv, ConnOK, Linked, Acknowledging, BegunLate, ToldWasSent, AckMeansDecrypted
  <2> QED
    BY <1>1, <2>1, <2>2 DEF IInv
<1> QED
  BY <1>3, <1>4

LEMMA IInvHolds == Spec => []IInv
  BY InitIInv, NextIInv, PTL DEF Spec

(* The connections, the commands and the store keep their types. *)
THEOREM TypeCorrect == Spec => []TypeOK
<1>1. IInv => TypeOK
  BY DEF IInv
<1> QED
  BY <1>1, IInvHolds, PTL

(* The clients and their connections only restrict and feed the server:    *)
(* every behaviour of the composition is one of module FileStore (the      *)
(* steps of handler.py and cleanup.py), so its theorems hold here.         *)
THEOREM StoreRefined == Spec => Store!Spec
<1>1. Init => Store!Init
  BY DEF Init
<1>2. IInv /\ [Next]_vars => [Store!Next]_(Store!vars)
  BY StepRefines DEF IInv
<1> QED
  BY <1>1, <1>2, IInvHolds, PTL DEF Spec, Store!Spec

(* What module FileDrop promises of a file holds of the whole composition, *)
(* with connections that break and requests that are taken up late: closing *)
(* is final, and a file is served only for a request that was read while   *)
(* it was open (handler.py:483-682).                                       *)
THEOREM PromiseKeptToCommands == Spec => Store!KeepsPromise
<1>1. ASSUME FS!Drop!Init PROVE Store!Drop!Init
  BY <1>1
  DEF FS!Drop!Init, Store!Drop!Init, FS!StateOf, Store!StateOf, FS!GrantOf, Store!GrantOf
<1>2. Init => Store!Drop!Init
  <2>1. FS!Init => FS!Drop!Init
    BY FS!InitRefines, DeliveryConstants
  <2> QED
    BY <1>1, <2>1, SameInit DEF Init
<1>3. [FS!Drop!Next]_(FS!Drop!vars) => [Store!Drop!Next]_(Store!Drop!vars)
  BY
  DEF FS!Drop!vars, Store!Drop!vars, FS!StateOf, Store!StateOf, FS!GrantOf, Store!GrantOf,
      FS!Drop!Publish, Store!Drop!Publish, FS!Drop!Close, Store!Drop!Close,
      FS!Drop!Grant, Store!Drop!Grant, FS!Drop!Deliver, Store!Drop!Deliver,
      FS!Drop!GiveUp, Store!Drop!GiveUp, FS!Drop!Next, Store!Drop!Next
<1>4. IInv /\ [Next]_vars => [Store!Drop!Next]_(Store!Drop!vars)
  <2>1. IInv /\ [Next]_vars => [FS!Next]_(FS!vars)
    BY StepRefines, SameNext DEF IInv
  <2>2. FS!IInv /\ [FS!Next]_(FS!vars) => [FS!Drop!Next]_(FS!Drop!vars)
    BY FS!StepRefines, DeliveryConstants
  <2> QED
    BY <1>3, <2>1, <2>2 DEF IInv
<1> QED
  BY <1>2, <1>4, IInvHolds, PTL DEF Spec, Store!KeepsPromise, Store!Drop!Spec

(* Each file id comes under one package and once (Fresh), so that no other *)
(* upload writes to what an upload has stored.                             *)
UploadsInv == FS!WritersInv /\ FS!UploadersFirst

LEMMA InitUploads == Init => UploadsInv
  BY SameInit, FS!InitWriters, FS!InitUploads, DeliveryConstants DEF Init, UploadsInv

LEMMA NextUploads ==
  ASSUME IInv, UploadsInv, [Next]_vars
  PROVE  UploadsInv' /\ \A f \in File : FS!Rejected(f) => FS!Rejected(f)'
<1>1. [FS!Next]_(FS!vars)
  BY StepRefines, SameNext DEF IInv
<1> QED
  BY <1>1, FS!NextWriters, FS!NextUploads, DeliveryConstants DEF IInv, UploadsInv

LEMMA UploadsInvHolds == Spec => []UploadsInv
<1>1. IInv /\ UploadsInv /\ [Next]_vars => UploadsInv'
  BY NextUploads
<1> QED
  BY <1>1, InitUploads, IInvHolds, PTL DEF Spec

(* Whoever has read an UPLOAD_ACK (upload.py:138-147) finds the file's row *)
(* and its whole blob on the server, whatever happened in between.         *)
THEOREM ConfirmedUploadsAreKept == Spec => []ConfirmedUploadIsKept
<1>1. ASSUME IInv, UploadsInv, NEW f \in File, <<"UPLOAD_ACK", f>> \in told
      PROVE  status[f] # "absent" /\ blob[f] = Store!Whole(Own)
  <2>1. "UPLOAD_ACK" \in sent[f]
    BY <1>1 DEF IInv, ConnInv, ToldWasSent, Store!ReplyType
  <2>2. status[f] # "absent"
    BY <1>1, <2>1 DEF IInv, FS!IInv, FS!AckedHasRow
  <2>3. FS!FileOK(f) /\ FS!RowOK(f)
    BY <1>1 DEF UploadsInv, FS!WritersInv
  <2>4. uploaded[f] = {Own} /\ blob[f] # FS!NoFile
    BY <1>1, <2>2, <2>3 DEF FS!RowOK, IInv, FS!IInv, FS!TypeOK
  <2>5. f \notin cut /\ \A w \in Worker : ~ FS!Holds(w, f, "blob")
    BY <1>1 DEF UploadsInv, FS!UploadersFirst, FS!Holds
  <2>6. blob[f] = FS!Whole(Own)
    BY <2>3, <2>4, <2>5 DEF FS!FileOK
  <2> QED
    BY <2>2, <2>6 DEF FS!Whole, Store!Whole
<1>2. IInv /\ UploadsInv => ConfirmedUploadIsKept
  BY <1>1 DEF ConfirmedUploadIsKept
<1> QED
  BY <1>2, IInvHolds, UploadsInvHolds, PTL

(* A row of acks is there only for a file that the recipient's client has  *)
(* verified and decrypted (download.py:200-216).                           *)
THEOREM AcksFollowDecryption == Spec => []AckMeansDecrypted
<1>1. IInv => AckMeansDecrypted
  BY DEF IInv, ConnInv
<1> QED
  BY <1>1, IInvHolds, PTL

(* A download begun after the file was confirmed closed ends without it,   *)
(* although the handler decides on a row it read (handler.py:483-531).     *)
THEOREM ClosedFilesStayAway == Spec => []NoFileAfterClosing
<1>1. ASSUME IInv, NEW w \in Worker, client[w].pc \in {"ACK_OK", "save"}
      PROVE  ~ client[w].late
  <2>1. client[w] # Off
    BY <1>1 DEF Off
  <2> QED
    BY <1>1, <2>1 DEF IInv, ConnInv, ConnOK, BegunLate
<1>2. IInv => NoFileAfterClosing
  BY <1>1 DEF NoFileAfterClosing
<1> QED
  BY <1>2, IInvHolds, PTL

----------------------------------------------------------------------------
(* Requests that are answered *)

LEMMA InitAnswered == Init => EveryRequestIsAnswered
  BY DEF Init, EveryRequestIsAnswered, Off, Store!ReplyType

LEMMA NextAnswered ==
  ASSUME TypeOK, EveryRequestIsAnswered, [Next]_vars
  PROVE  EveryRequestIsAnswered'
<1> DEFINE Answered(v) ==
             client[v].pc \in Store!ReplyType /\ conn[v].up =>
               conn[v].req # NoRequest \/ job[v] # Store!Idle \/ conn[v].rep # "none"
<1> DEFINE Same(v) == conn'[v] = conn[v] /\ client'[v] = client[v] /\ job'[v] = job[v]
<1>1. /\ conn \in [Worker -> Conn] /\ client \in [Worker -> Client \union {Off}]
      /\ Store!TypeOK
  BY Types
<1>2. \A v \in Worker : Answered(v)
  BY DEF EveryRequestIsAnswered
<1>3. SUFFICES \A v \in Worker : Answered(v)'
  BY DEF EveryRequestIsAnswered
<1>4. \A v \in Worker : Same(v) => Answered(v)'
  BY <1>2
<1> HIDE DEF Answered
<1>5. ASSUME NEW w \in Worker, \A v \in Worker \ {w} : Same(v), Answered(w)'
      PROVE  \A v \in Worker : Answered(v)'
  BY <1>4, <1>5
<1>6. ASSUME NEW w \in Worker, NEW cmd \in Command, NEW f \in File, StartCommand(w, cmd, f)
      PROVE  \A v \in Worker : Answered(v)'
  <2>1. conn'[w].req # NoRequest
    BY <1>1, <1>6 DEF StartCommand, Connection, Request, RequestOf, NoRequest, Command
  <2>2. \A v \in Worker \ {w} : Same(v)
    BY <1>1, <1>6, StoreAlone DEF StartCommand, Connection
  <2> QED
    BY <1>5, <2>1, <2>2 DEF Answered
<1>7. ASSUME NEW w \in Worker, ClientStep(w)
      PROVE  \A v \in Worker : Answered(v)'
  <2>1. CASE Finish(w) \/ TakeRefusal(w) \/ Save(w) \/ LeaveEarly(w)
    <3>1. Leave(w) /\ UNCHANGED store
      BY <2>1 DEF Finish, TakeRefusal, Save, LeaveEarly
    <3>2. \A v \in Worker \ {w} : Same(v)
      BY <1>1, <3>1, StoreAlone DEF Leave, Close, Connection
    <3>3. ~ conn'[w].up
      BY <1>1, <3>1 DEF Leave, Close, Connection
    <3> QED
      BY <1>5, <3>2, <3>3 DEF Answered
  <2>2. CASE Acknowledge(w)
    <3>1. \A v \in Worker \ {w} : Same(v)
      BY <1>1, <2>2, StoreAlone DEF Acknowledge, Connection
    <3>2. conn'[w].up = conn[w].up /\ (conn[w].up => conn'[w].req # NoRequest)
      BY <1>1, <2>2 DEF Acknowledge, Connection, Request, NoRequest
    <3> QED
      BY <1>5, <3>1, <3>2 DEF Answered
  <2>3. CASE TakeAckReply(w)
    <3>1. \A v \in Worker \ {w} : Same(v)
      BY <1>1, <2>3, StoreAlone DEF TakeAckReply, Connection
    <3>2. client[w] \in Client
      BY <2>3, OnIsClient DEF TakeAckReply
    <3>3. client'[w].pc = "save"
      BY <1>1, <2>3, <3>2 DEF TakeAckReply, Client
    <3> QED
      BY <1>5, <3>1, <3>3 DEF Answered, Store!ReplyType
  <2> QED
    BY <1>7, <2>1, <2>2, <2>3 DEF ClientStep
<1>8. ASSUME NEW w \in Worker, TakeRequest(w)
      PROVE  \A v \in Worker : Answered(v)'
  <2>1. Others(w)
    <3>1. conn[w].req \in [type : RequestType, file : File]
      BY <1>1, <1>8 DEF TakeRequest, Conn
    <3>2. /\ conn[w].req.file \in File
          /\ Sender[conn[w].req.file] \in User /\ Recipient[conn[w].req.file] \in User
      BY <3>1, DeliveryConstants
    <3> QED
      BY <1>1, <1>8, <3>2, TakeEffect DEF TakeRequest
  <2>2. /\ conn'[w].up = conn[w].up
        /\ conn[w].up /\ job'[w] = Store!Idle => conn'[w].rep = "ERROR"
        /\ UNCHANGED client /\ \A v \in Worker \ {w} : conn'[v] = conn[v]
    BY <1>1, <1>8 DEF TakeRequest, Connection
  <2>3. \A v \in Worker \ {w} : Same(v)
    BY <2>1, <2>2 DEF Others
  <2> QED
    BY <1>5, <2>2, <2>3 DEF Answered
<1>9. ASSUME NEW w \in Worker, RefuseRequest(w)
      PROVE  \A v \in Worker : Answered(v)'
  <2>1. /\ conn'[w].up = conn[w].up /\ (conn[w].up => conn'[w].rep = "ERROR")
        /\ UNCHANGED client /\ \A v \in Worker \ {w} : conn'[v] = conn[v]
    BY <1>1, <1>9 DEF RefuseRequest, Connection
  <2>2. \A v \in Worker \ {w} : Same(v)
    BY <1>9, <2>1, StoreAlone DEF RefuseRequest
  <2> QED
    BY <1>5, <2>1, <2>2 DEF Answered
<1>10. ASSUME NEW w \in Worker, Work(w)
       PROVE  \A v \in Worker : Answered(v)'
  <2>1. Others(w)
    BY <1>1, <1>10, HandleEffect DEF Work
  <2>2. "none" \notin Reply
    BY DEF Reply, Store!ReplyType
  <2>3. /\ conn'[w].up = conn[w].up
        /\ conn[w].up /\ job'[w] = Store!Idle => conn'[w].rep # "none"
        /\ UNCHANGED client /\ \A v \in Worker \ {w} : conn'[v] = conn[v]
    BY <1>1, <1>10, <2>2, LastReplyTyped DEF Work, Answer, Connection
  <2>4. \A v \in Worker \ {w} : Same(v)
    BY <2>1, <2>3 DEF Others
  <2> QED
    BY <1>5, <2>3, <2>4 DEF Answered
<1>11. ASSUME NEW w \in Worker, Fail(w)
       PROVE  \A v \in Worker : Answered(v)'
  <2>1. Others(w)
    BY <1>1, <1>11, AbortEffect DEF Fail
  <2>2. /\ ~ conn'[w].up \/ conn'[w].rep = "ERROR"
        /\ UNCHANGED client /\ \A v \in Worker \ {w} : conn'[v] = conn[v]
    <3>1. UNCHANGED client
      BY <1>11 DEF Fail
    <3>2. CASE Answer(w, "ERROR")
      BY <1>1, <3>1, <3>2 DEF Answer, Connection
    <3>3. CASE Close(w)
      BY <1>1, <3>1, <3>3 DEF Close, Connection
    <3> QED
      BY <1>11, <3>2, <3>3 DEF Fail
  <2>3. \A v \in Worker \ {w} : Same(v)
    BY <2>1, <2>2 DEF Others
  <2> QED
    BY <1>5, <2>2, <2>3 DEF Answered
<1>12. ASSUME Background PROVE \A v \in Worker : Answered(v)'
  BY <1>4, <1>12, BackgroundEffect DEF Background
<1>13. ASSUME Restart PROVE \A v \in Worker : Answered(v)'
  <2>1. ASSUME NEW v \in Worker PROVE ~ conn'[v].up
    <3>1. conn[v] \in Conn /\ conn'[v] = [conn[v] EXCEPT !.up = FALSE, !.req = NoRequest]
      BY <1>1, <1>13 DEF Restart
    <3> QED
      BY <3>1 DEF Conn
  <2> QED
    BY <2>1 DEF Answered
<1>14. ASSUME UNCHANGED vars PROVE \A v \in Worker : Answered(v)'
  BY <1>4, <1>14 DEF vars
<1> QED
  BY <1>6, <1>7, <1>8, <1>9, <1>10, <1>11, <1>12, <1>13, <1>14 DEF Next, ServerStep

(* A command that waits for an answer is given one by its worker, or loses *)
(* its connection (handler.py:1070-1121), for every check and every step   *)
(* of the handlers at which an exchange may be cut.                        *)
THEOREM RequestsAreAnswered == Spec => []EveryRequestIsAnswered
<1>1. TypeOK /\ EveryRequestIsAnswered /\ [Next]_vars => EveryRequestIsAnswered'
  BY NextAnswered
<1> QED
  BY <1>1, InitAnswered, TypeCorrect, PTL DEF Spec

----------------------------------------------------------------------------
(* Uploads that were refused.  While an upload waits, its request and its  *)
(* job are those of an upload, and the ERROR that may be on its way was    *)
(* sent when no row for the file was there or to come.                     *)
ByCommand(w) ==
  client[w].pc = "UPLOAD_ACK" =>
    /\ conn[w].req # NoRequest => conn[w].req.type = "UPLOAD_REQUEST"
    /\ job[w] # Store!Idle => job[w].pc \in FS!Uploading \union {"UPLOAD_ACK"}
    /\ conn[w].rep = "ERROR" => FS!Rejected(client[w].file)

RefusedForGood == \A f \in File : <<"ERROR", f>> \in told => FS!Rejected(f)

RefusalInv ==
  /\ UploadsInv
  /\ RefusedForGood
  /\ \A w \in Worker : ByCommand(w)

LEMMA InitRefusals == Init => RefusalInv
<1> SUFFICES ASSUME Init PROVE RefusalInv
  OBVIOUS
<1>1. UploadsInv
  BY InitUploads
<1> QED
  BY <1>1 DEF RefusalInv, Init, RefusedForGood, ByCommand, Off

(* What a worker does to the upload of a command that waits for it. *)
LEMMA WorkOnUpload ==
  ASSUME IInv, RefusalInv, NEW w \in Worker, client[w].pc = "UPLOAD_ACK",
         \A f \in File : FS!Rejected(f) => FS!Rejected(f)',
         TakeRequest(w) \/ RefuseRequest(w) \/ Work(w) \/ Fail(w)
  PROVE  ByCommand(w)'
<1>1. /\ conn \in [Worker -> Conn] /\ client \in [Worker -> Client \union {Off}]
      /\ Store!TypeOK /\ TypeOK
  BY Types DEF IInv
<1>2. client[w] \in Client /\ client[w] # Off /\ client[w].file \in File
  <2>1. client[w] \in Client /\ client[w] # Off
    BY <1>1, OnIsClient
  <2> QED
    BY <2>1 DEF Client
<1>3. /\ conn[w].req # NoRequest => conn[w].req.type = "UPLOAD_REQUEST"
      /\ job[w] # Store!Idle => job[w].pc \in FS!Uploading \union {"UPLOAD_ACK"}
      /\ conn[w].rep = "ERROR" => FS!Rejected(client[w].file)
  BY DEF RefusalInv, ByCommand
<1>4. /\ conn[w].req # NoRequest => conn[w].req.file = client[w].file
      /\ job[w] # Store!Idle => job[w].file = client[w].file
  BY <1>2 DEF IInv, ConnInv, ConnOK, Linked
<1>5. /\ \A v \in Worker : job[v].pc \in FS!Uploading =>
           requests[job[v].file] # 0 /\ status[job[v].file] = "absent"
      /\ \A u, v \in Worker :
           /\ job[u].pc \in FS!Uploading /\ job[v].pc \in FS!Uploading
           /\ job[u].file = job[v].file
           => u = v
  BY DEF RefusalInv, UploadsInv, FS!UploadersFirst
<1>6. UNCHANGED client
  BY DEF TakeRequest, RefuseRequest, Work, Fail
<1>7. CASE TakeRequest(w)
  <2>1. conn[w].req # NoRequest /\ conn[w].req.type = "UPLOAD_REQUEST"
    BY <1>3, <1>7 DEF TakeRequest
  <2>2. Store!TakeUpload(w, client[w].file, Own)
    BY <1>4, <1>7, <2>1 DEF TakeRequest
  <2>3. /\ conn'[w].req = NoRequest
        /\ job'[w] # Store!Idle => conn'[w].rep = "none"
    BY <1>1, <1>7 DEF TakeRequest, Connection
  <2>4. CASE job' = job
    <3>1. /\ requests[client[w].file] = 0 /\ requests'[client[w].file] = 1
          /\ status' = status
      BY <1>1, <1>2, <2>2 DEF Store!TakeUpload, Store!rows, Store!TypeOK
    <3>2. status[client[w].file] = "absent"
      BY <1>2, <3>1 DEF RefusalInv, UploadsInv, FS!UploadersFirst
    <3>3. FS!Rejected(client[w].file)'
      BY <1>5, <1>6, <2>4, <3>1, <3>2 DEF FS!Rejected
    <3>4. job[w] = Store!Idle
      BY <2>2 DEF Store!TakeUpload
    <3> QED
      BY <2>3, <2>4, <3>3, <3>4 DEF ByCommand
  <2>5. CASE job'[w] = Store!Storing(client[w].file, Own)
    <3>1. job'[w].pc = "openTmp" /\ job'[w] # Store!Idle
      BY <2>5 DEF Store!Storing, Store!Idle
    <3> QED
      BY <2>3, <3>1 DEF ByCommand, FS!Uploading
  <2> QED
    BY <1>1, <2>2, <2>4, <2>5 DEF Store!TakeUpload, Store!Become, Store!TypeOK
<1>8. CASE RefuseRequest(w)
  BY <1>3, <1>8 DEF RefuseRequest, NoRequest
<1>9. CASE Work(w)
  <2>1. job[w] # Store!Idle
    BY <1>1, <1>9, HandleEffect DEF Work
  <2>2. job[w] \in Store!Busy /\ job \in [Worker -> Store!Busy \union {Store!Idle}]
    BY <1>1, <2>1 DEF Store!TypeOK
  <2>3. conn'[w].req = conn[w].req
    BY <1>1, <1>9 DEF Work, Answer, Connection
  <2>4. CASE job[w].pc \in FS!Uploading
    <3>1. \/ Store!OpenTmp(w) \/ Store!WriteShort(w) \/ Store!FillTmp(w) \/ Store!Replace(w)
          \/ Store!InsertFile(w)
      BY <1>9, <2>4
      DEF Work, Store!Handle, Store!FindExpired, Store!MarkExpired, Store!Authorise,
          Store!Respond, Store!InsertAck, Store!MarkDownloaded, Store!MarkRevoked,
          Store!SendReply, FS!Uploading
    <3>2. \E pc \in FS!Uploading \union {"UPLOAD_ACK"} : job'[w] = [job[w] EXCEPT !.pc = pc]
      BY <2>2, <3>1
      DEF Store!OpenTmp, Store!WriteShort, Store!FillTmp, Store!Replace, Store!InsertFile,
          Store!Goto, FS!Uploading
    <3>3. job'[w].pc \in FS!Uploading \union {"UPLOAD_ACK"} /\ job'[w] # Store!Idle
      BY <2>2, <3>2 DEF Store!Busy, Store!Idle, FS!Uploading
    <3>4. UNCHANGED conn
      BY <1>9, <3>3 DEF Work
    <3>5. ASSUME conn'[w].rep = "ERROR" PROVE FS!Rejected(client[w].file)'
      <4>1. FS!Rejected(client[w].file)
        BY <1>3, <3>4, <3>5
      <4>2. client[w].file \in File /\ client'[w].file = client[w].file
        BY <1>2, <1>6
      <4> QED
        BY <4>1, <4>2
    <3> QED
      BY <1>3, <1>6, <3>3, <3>4, <3>5 DEF ByCommand
  <2>5. CASE job[w].pc = "UPLOAD_ACK"
    <3>1. Store!SendReply(w)
      BY <1>9, <2>5
      DEF Work, Store!Handle, Store!OpenTmp, Store!WriteShort, Store!FillTmp,
          Store!Replace, Store!InsertFile, Store!FindExpired, Store!MarkExpired, Store!Authorise, Store!Respond,
          Store!InsertAck, Store!MarkDownloaded, Store!MarkRevoked
    <3>2. job'[w] = Store!Idle
      BY <2>2, <3>1 DEF Store!SendReply, Store!Become
    <3>3. LastReply(job[w].pc) = "UPLOAD_ACK"
      BY <2>5 DEF LastReply
    <3>4. conn'[w].rep # "ERROR"
      BY <1>1, <1>9, <3>2, <3>3 DEF Work, Answer, Connection
    <3> QED
      BY <1>3, <2>3, <3>2, <3>4 DEF ByCommand
  <2> QED
    BY <1>3, <2>1, <2>4, <2>5
<1>10. CASE Fail(w)
  <2>1. job[w] # Store!Idle /\ job'[w] = Store!Idle /\ Others(w)
    BY <1>1, <1>10, AbortEffect DEF Fail, Store!Abort
  <2>2. conn'[w].req = conn[w].req
    BY <1>1, <1>10 DEF Fail, Answer, Close, Connection
  <2>3. CASE Close(w)
    <3>1. conn'[w].rep = "none"
      BY <1>1, <2>3 DEF Close, Connection
    <3> QED
      BY <1>3, <2>1, <2>2, <3>1 DEF ByCommand
  <2>4. CASE job[w].pc \in Caught
    <3>1. job[w].pc \in FS!Uploading /\ job[w].file = client[w].file
      BY <1>3, <1>4, <2>1, <2>4 DEF Caught
    <3>2. requests' = requests /\ status' = status
      BY <1>10 DEF Fail, Store!Abort, Store!rows
    <3>3. requests[client[w].file] # 0 /\ status[client[w].file] = "absent"
      BY <1>5, <3>1
    <3>4. \A v \in Worker : job'[v].pc \in FS!Uploading => job'[v].file # client[w].file
      BY <1>5, <2>1, <3>1 DEF Others, Store!Idle, FS!Uploading
    <3>5. FS!Rejected(client[w].file)'
      BY <1>6, <3>2, <3>3, <3>4 DEF FS!Rejected
    <3> QED
      BY <1>3, <2>1, <2>2, <3>5 DEF ByCommand
  <2> QED
    BY <1>10, <2>3, <2>4 DEF Fail
<1> QED
  BY <1>7, <1>8, <1>9, <1>10

LEMMA NextRefusals ==
  ASSUME IInv, RefusalInv, [Next]_vars
  PROVE  RefusalInv'
<1> DEFINE Same(v) == conn'[v] = conn[v] /\ client'[v] = client[v] /\ job'[v] = job[v]
<1>1. /\ conn \in [Worker -> Conn] /\ client \in [Worker -> Client \union {Off}]
      /\ Store!TypeOK /\ TypeOK
  BY Types DEF IInv
<1>2. UploadsInv' /\ \A f \in File : FS!Rejected(f) => FS!Rejected(f)'
  BY NextUploads DEF RefusalInv
<1>3. \A v \in Worker : client[v].pc = "UPLOAD_ACK" => client[v].file \in File
  BY <1>1, OnIsClient DEF Client
<1>4. \A v \in Worker : ByCommand(v)
  BY DEF RefusalInv
<1>5. ASSUME NEW v \in Worker, Same(v) PROVE ByCommand(v)'
  BY <1>2, <1>3, <1>4, <1>5 DEF ByCommand
<1>6. told' = told => RefusedForGood'
  BY <1>2 DEF RefusalInv, RefusedForGood
<1>7. ASSUME NEW w \in Worker, NEW cmd \in Command, NEW f \in File, StartCommand(w, cmd, f)
      PROVE  RefusedForGood' /\ \A v \in Worker : ByCommand(v)'
  <2>1. \A v \in Worker \ {w} : Same(v)
    BY <1>1, <1>7, StoreAlone DEF StartCommand, Connection
  <2>2. /\ client'[w].pc = AnswerTo(cmd) /\ conn'[w].rep = "none"
        /\ conn'[w].req.type = RequestOf(cmd) /\ job'[w] = Store!Idle
    BY <1>1, <1>7, StoreAlone DEF StartCommand, Connection, Released, Request
  <2>3. AnswerTo(cmd) = "UPLOAD_ACK" => RequestOf(cmd) = "UPLOAD_REQUEST"
    BY DEF AnswerTo, RequestOf, Command
  <2>4. ByCommand(w)'
    BY <2>2, <2>3 DEF ByCommand
  <2>5. told' = told
    BY <1>7 DEF StartCommand, ends
  <2> QED
    BY <1>5, <1>6, <2>1, <2>4, <2>5
<1>8. ASSUME NEW w \in Worker, ClientStep(w)
      PROVE  RefusedForGood' /\ \A v \in Worker : ByCommand(v)'
  <2>1. \A v \in Worker \ {w} : Same(v)
    <3>1. /\ UNCHANGED store
          /\ \A v \in Worker \ {w} : conn'[v] = conn[v] /\ client'[v] = client[v]
      <4>1. UNCHANGED store
        BY <1>8 DEF ClientStep, Finish, TakeRefusal, Acknowledge, TakeAckReply, Save, LeaveEarly
      <4>2. CASE Leave(w)
        BY <1>1, <4>1, <4>2 DEF Leave, Close, Connection
      <4>3. CASE Acknowledge(w) \/ TakeAckReply(w)
        BY <1>1, <4>1, <4>3 DEF Acknowledge, TakeAckReply, Connection
      <4> QED
        BY <1>8, <4>2, <4>3 DEF ClientStep, Finish, TakeRefusal, Save, LeaveEarly
    <3> QED
      BY <3>1, StoreAlone
  <2>2. client'[w].pc \in {"off", "ACK_OK", "save"}
    <3>1. CASE Leave(w)
      BY <1>1, <3>1 DEF Leave, Off
    <3>2. CASE Acknowledge(w) \/ TakeAckReply(w)
      <4>1. client[w] \in Client
        BY <1>1, <3>2, OnIsClient DEF Acknowledge, TakeAckReply
      <4> QED
        BY <1>1, <3>2, <4>1 DEF Acknowledge, TakeAckReply, Client
    <3> QED
      BY <1>8, <3>1, <3>2 DEF ClientStep, Finish, TakeRefusal, Save, LeaveEarly
  <2>3. ByCommand(w)'
    BY <2>2 DEF ByCommand
  <2>4. CASE TakeRefusal(w)
    <3>1. /\ told' = told \union {<<"ERROR", client[w].file>>}
          /\ client[w].pc = "UPLOAD_ACK" /\ conn[w].rep = "ERROR"
      BY <2>4 DEF TakeRefusal
    <3>2. FS!Rejected(client[w].file) /\ client[w].file \in File
      BY <1>3, <1>4, <3>1 DEF ByCommand
    <3>3. ASSUME NEW f \in File, <<"ERROR", f>> \in told' PROVE FS!Rejected(f)'
      <4>1. <<"ERROR", f>> \in told \/ f = client[w].file
        BY <3>1, <3>3
      <4>2. FS!Rejected(f)
        BY <3>2, <4>1 DEF RefusalInv, RefusedForGood
      <4> QED
        BY <1>2, <4>2
    <3>4. RefusedForGood'
      BY <3>3 DEF RefusedForGood
    <3> QED
      BY <1>5, <2>1, <2>3, <3>4
  <2>5. CASE ~ TakeRefusal(w)
    <3>1. \A f \in File : <<"ERROR", f>> \in told' => <<"ERROR", f>> \in told
      BY <1>8, <2>5
      DEF ClientStep, Finish, Acknowledge, TakeAckReply, Save, LeaveEarly, Confirm, ends
    <3> QED
      BY <1>2, <1>5, <2>1, <2>3, <3>1 DEF RefusalInv, RefusedForGood
  <2> QED
    BY <2>4, <2>5
<1>9. ASSUME NEW w \in Worker, ServerStep(w)
      PROVE  RefusedForGood' /\ \A v \in Worker : ByCommand(v)'
  <2>1. told' = told /\ UNCHANGED client
    BY <1>9 DEF ServerStep, TakeRequest, RefuseRequest, Work, Fail, ends
  <2>2. Others(w)
    <3>1. CASE TakeRequest(w)
      <4>1. conn[w].req \in [type : RequestType, file : File]
        BY <1>1, <3>1 DEF TakeRequest, Conn
      <4>2. /\ conn[w].req.file \in File
            /\ Sender[conn[w].req.file] \in User /\ Recipient[conn[w].req.file] \in User
        BY <4>1, DeliveryConstants
      <4> QED
        BY <1>1, <3>1, <4>2, TakeEffect DEF TakeRequest
    <3>2. CASE RefuseRequest(w)
      BY <3>2, StoreAlone DEF RefuseRequest, Others
    <3>3. CASE Work(w) \/ Fail(w)
      BY <1>1, <3>3, HandleEffect, AbortEffect DEF Work, Fail
    <3> QED
      BY <1>9, <3>1, <3>2, <3>3 DEF ServerStep
  <2>3. \A v \in Worker \ {w} : conn'[v] = conn[v]
    <3>1. conn' = conn \/ \E c : conn' = [conn EXCEPT ![w] = c]
      BY <1>9 DEF ServerStep, TakeRequest, RefuseRequest, Work, Fail, Answer, Close, Connection
    <3> QED
      BY <1>1, <3>1
  <2>4. \A v \in Worker \ {w} : ByCommand(v)'
    BY <1>5, <2>1, <2>2, <2>3 DEF Others
  <2>5. ByCommand(w)'
    <3>1. CASE client[w].pc = "UPLOAD_ACK"
      BY <1>2, <1>9, <3>1, WorkOnUpload DEF ServerStep
    <3>2. CASE client[w].pc # "UPLOAD_ACK"
      BY <2>1, <3>2 DEF ByCommand
    <3> QED
      BY <3>1, <3>2
  <2> QED
    BY <1>6, <2>1, <2>4, <2>5
<1>10. ASSUME Background PROVE RefusedForGood' /\ \A v \in Worker : ByCommand(v)'
  <2>1. (\A v \in Worker : Same(v)) /\ told' = told
    BY <1>10, BackgroundEffect DEF Background, ends
  <2> QED
    BY <1>5, <1>6, <2>1
<1>11. ASSUME Restart PROVE RefusedForGood' /\ \A v \in Worker : ByCommand(v)'
  <2>1. told' = told /\ UNCHANGED client
    BY <1>11 DEF Restart, ends
  <2>2. ASSUME NEW v \in Worker PROVE ByCommand(v)'
    <3>1. conn[v] \in Conn /\ conn'[v] = [conn[v] EXCEPT !.up = FALSE, !.req = NoRequest]
      BY <1>1, <1>11 DEF Restart
    <3>2. conn'[v].req = NoRequest /\ conn'[v].rep = conn[v].rep
      BY <3>1 DEF Conn
    <3>3. job'[v] = Store!Idle
      BY <1>11, RestartEffect DEF Restart
    <3> QED
      BY <1>2, <1>3, <1>4, <2>1, <3>2, <3>3 DEF ByCommand
  <2> QED
    BY <1>6, <2>1, <2>2
<1>12. ASSUME UNCHANGED vars PROVE RefusedForGood' /\ \A v \in Worker : ByCommand(v)'
  <2>1. (\A v \in Worker : Same(v)) /\ told' = told
    BY <1>12 DEF vars
  <2> QED
    BY <1>5, <1>6, <2>1
<1>13. RefusedForGood' /\ \A v \in Worker : ByCommand(v)'
  BY <1>7, <1>8, <1>9, <1>10, <1>11, <1>12 DEF Next
<1> QED
  BY <1>2, <1>13 DEF RefusalInv

(* Whoever read an ERROR after an upload can send the file again: the      *)
(* first package has no row on the server and none will follow, also when  *)
(* the handler failed half-way (handler.py:428-442).                       *)
THEOREM RefusedUploadsLeaveNoRow == Spec => []RefusedUploadHasNoRow
<1>1. IInv /\ RefusalInv /\ [Next]_vars => RefusalInv'
  BY NextRefusals
<1>2. RefusalInv => RefusedUploadHasNoRow
  BY DEF RefusalInv, RefusedForGood, FS!Rejected, RefusedUploadHasNoRow
<1> QED
  BY <1>1, <1>2, InitRefusals, IInvHolds, PTL DEF Spec
=============================================================================
