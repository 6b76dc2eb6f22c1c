------------------------------ MODULE Delivery ------------------------------
(***************************************************************************)
(* The commands of the client against the server: upload, download and     *)
(* revoke (zerotrust/client/cli.py with upload.py, download.py, revoke.py  *)
(* and session.py), each over a connection of its own to a worker thread   *)
(* of the server (serve_connection in server/handler.py), which works on   *)
(* the file store of module FileStore.                                     *)
(*                                                                         *)
(* A command sends one request at a time and waits for its reply.  The     *)
(* socket has a timeout (session.py, create_connection), the command may   *)
(* be killed, and the server may close the connection or die: each ends    *)
(* the command where it is, while a request it has sent may still be taken *)
(* up, and a reply be on its way.                                          *)
(*                                                                         *)
(* The certificates are those of module FileStore.  Commands of users who  *)
(* have no right to the file are left to that module, and so is            *)
(* LIST_PENDING, which changes nothing.                                    *)
(***************************************************************************)
EXTENDS Integers

CONSTANTS
  User, File, Worker, Sender, Recipient, Expiration, CertUntil, Enrolled, None, MaxTime

ASSUME DeliveryConstants ==
  /\ Sender \in [File -> User]
  /\ Recipient \in [File -> User]
  /\ Expiration \in [File -> Int]
  /\ CertUntil \in [User -> Int]
  /\ Enrolled \subseteq User
  /\ None \notin File
  /\ MaxTime \in Nat

VARIABLES
  clock, status, row, acks, tmp, blob, fd, job, cleaner, requests, uploaded, cut,
  sent,        \* so far: of FileStore
  conn,        \* each connection: is it up, and what is under way on it
  client,      \* what the command at the other end is doing
  decrypted,   \* the files the recipient has verified and decrypted (history)
  saved,       \* the files in the recipient's downloads directory
  told         \* the confirmations that commands have received, and the
               \* ERRORs that uploads have (history)

store == <<clock, status, row, acks, tmp, blob, fd, job, cleaner, requests, uploaded,
           cut, sent>>
ends == <<decrypted, saved, told>>
vars == <<clock, status, row, acks, tmp, blob, fd, job, cleaner, requests, uploaded,
          cut, sent, conn, client, decrypted, saved, told>>

(* A client draws a file id (uuid4) for one package and sends it once: what *)
(* comes under the id is its own package, and FileStore's bound is 1.      *)
Own == "own"

Store == INSTANCE FileStore WITH Package <- {Own}, MaxUploads <- 1

Command == {"upload", "download", "revoke"}
Reply == Store!ReplyType \union {"ERROR"}

RequestOf(cmd) ==
  [upload |-> "UPLOAD_REQUEST", download |-> "DOWNLOAD_REQUEST", revoke |-> "REVOKE_REQUEST"][cmd]
AnswerTo(cmd) ==
  [upload |-> "UPLOAD_ACK", download |-> "DOWNLOAD_RESPONSE", revoke |-> "REVOKE_ACK"][cmd]
UserOf(cmd, f) == IF cmd = "download" THEN Recipient[f] ELSE Sender[f]

NoRequest == [type |-> "none"]
Request(type, f) == [type |-> type, file |-> f]

Off == [pc |-> "off"]

(* A worker thread and its connection are free for the next command. *)
Released(w) ==
  client[w] = Off /\ ~ conn[w].up /\ conn[w].req = NoRequest /\ job[w] = Store!Idle

Init ==
  /\ Store!Init
  /\ conn = [w \in Worker |-> [up |-> FALSE, req |-> NoRequest, rep |-> "none"]]
  /\ client = [w \in Worker |-> Off]
  /\ decrypted = {}
  /\ saved = {}
  /\ told = {}

Connection(w, up, req, rep) ==
  conn' = [conn EXCEPT ![w] = [up |-> up, req |-> req, rep |-> rep]]

----------------------------------------------------------------------------
(* The client *)

(* A file id is new: no earlier request has it, taken up or under way. *)
Fresh(f) == requests[f] = 0 /\ \A v \in Worker : conn[v].req # Request("UPLOAD_REQUEST", f)

(* Some command has learnt that the file is revoked or acknowledged. *)
KnownClosed(f) == told \intersect ({"REVOKE_ACK", "ACK_OK"} \X {f}) # {}

(* The handshake checks the user's certificate; an upload then fetches the *)
(* recipient's and checks it (peer.py).                                    *)
StartCommand(w, cmd, f) ==
  /\ Released(w)
  /\ Store!CertValid(UserOf(cmd, f))
  /\ cmd = "upload" => Fresh(f) /\ Recipient[f] \in Enrolled /\ Store!CertValid(Recipient[f])
  /\ Connection(w, TRUE, Request(RequestOf(cmd), f), "none")
  /\ client' = [client EXCEPT ![w] =
       [pc |-> AnswerTo(cmd), cmd |-> cmd, file |-> f, late |-> KnownClosed(f)]]
  /\ UNCHANGED <<store, ends>>

Close(w) == Connection(w, FALSE, conn[w].req, "none")
Leave(w) == client' = [client EXCEPT ![w] = Off] /\ Close(w)
Confirm(w) == told' = told \union {<<client[w].pc, client[w].file>>}

FinishAnyReply(w) ==           \* mutant: the type of the reply is not looked at
  /\ client[w].pc \in {"UPLOAD_ACK", "REVOKE_ACK"}
  /\ conn[w].rep # "none"
  /\ Confirm(w)
  /\ Leave(w)
  /\ UNCHANGED <<store, decrypted, saved>>

(* An upload or a revocation is over with its acknowledgement. *)
Finish(w) ==
  /\ client[w].pc \in {"UPLOAD_ACK", "REVOKE_ACK"}
  /\ conn[w].rep = client[w].pc
  /\ Confirm(w)
  /\ Leave(w)
  /\ UNCHANGED <<store, decrypted, saved>>

AcknowledgeFirst(w) ==         \* mutant: the acknowledgement goes out before the verification
  /\ client[w].pc = "DOWNLOAD_RESPONSE"
  /\ conn[w].rep = "DOWNLOAD_RESPONSE"
  /\ Connection(w, conn[w].up,
       IF conn[w].up THEN Request("DOWNLOAD_ACK", client[w].file) ELSE conn[w].req, "none")
  /\ client' = [client EXCEPT ![w].pc = "ACK_OK"]
  /\ UNCHANGED <<store, ends>>

(* The server has refused the upload: upload_file raises what the ERROR     *)
(* says, and the command exits with 1 (141-143).                           *)
TakeRefusal(w) ==
  /\ client[w].pc = "UPLOAD_ACK"
  /\ conn[w].rep = "ERROR"
  /\ told' = told \union {<<"ERROR", client[w].file>>}
  /\ Leave(w)
  /\ UNCHANGED <<store, decrypted, saved>>

(* download_file verifies and decrypts the response and then acknowledges  *)
(* it (200-216).  The sender's certificate has to be valid still.          *)
Acknowledge(w) ==
  /\ client[w].pc = "DOWNLOAD_RESPONSE"
  /\ conn[w].rep = "DOWNLOAD_RESPONSE"
  /\ Store!CertValid(Sender[client[w].file])
  /\ decrypted' = decrypted \union {client[w].file}
  /\ Connection(w, conn[w].up,
       IF conn[w].up THEN Request("DOWNLOAD_ACK", client[w].file) ELSE conn[w].req, "none")
  /\ client' = [client EXCEPT ![w].pc = "ACK_OK"]
  /\ UNCHANGED <<store, saved, told>>

(* Whatever the server answers, ERROR too, the file is kept (218-228). *)
TakeAckReply(w) ==
  /\ client[w].pc = "ACK_OK"
  /\ conn[w].rep # "none"
  /\ Connection(w, conn[w].up, conn[w].req, "none")
  /\ client' = [client EXCEPT ![w].pc = "save"]
  /\ IF conn[w].rep = "ACK_OK" THEN Confirm(w) ELSE UNCHANGED told
  /\ UNCHANGED <<store, decrypted, saved>>

Save(w) ==
  /\ client[w].pc = "save"
  /\ saved' = saved \union {client[w].file}
  /\ Leave(w)
  /\ UNCHANGED <<store, decrypted, told>>

LeaveOpen(w) ==                \* mutant: connected_session without its finally
  /\ client[w] # Off
  /\ client' = [client EXCEPT ![w] = Off]
  /\ UNCHANGED <<store, conn, ends>>

(* The command ends with exit code 1: an ERROR to a download or a           *)
(* revocation, an unexpected reply, a failed verification, a timeout, a    *)
(* connection that was closed, an error of the disk; or it is killed.      *)
LeaveEarly(w) ==
  /\ client[w] # Off
  /\ Leave(w)
  /\ UNCHANGED <<store, ends>>

----------------------------------------------------------------------------
(* The worker of a connection *)

(* A reply to a connection that is down is lost. *)
Answer(w, rep) == Connection(w, conn[w].up, conn[w].req, IF conn[w].up THEN rep ELSE "none")

TakeRequest(w) ==
  LET req == conn[w].req IN
  /\ req # NoRequest
  /\ \/ req.type = "UPLOAD_REQUEST" /\ Store!TakeUpload(w, req.file, Own)
     \/ req.type = "DOWNLOAD_REQUEST" /\ Store!TakeDownload(w, req.file, Recipient[req.file])
     \/ req.type = "DOWNLOAD_ACK" /\ Store!TakeAck(w, req.file, Recipient[req.file])
     \/ req.type = "REVOKE_REQUEST" /\ Store!TakeRevoke(w, req.file, Sender[req.file])
  /\ Connection(w, conn[w].up, NoRequest,
                IF conn[w].up /\ job'[w] = Store!Idle THEN "ERROR" ELSE "none")
  /\ UNCHANGED <<client, ends>>

(* A check of the handler fails; STALE may be the answer to any request    *)
(* that was long on its way.  TakeUpload has the refusals of an upload.    *)
RefuseRequest(w) ==
  /\ conn[w].req.type \in {"DOWNLOAD_REQUEST", "DOWNLOAD_ACK", "REVOKE_REQUEST"}
  /\ job[w] = Store!Idle
  /\ Connection(w, conn[w].up, NoRequest, IF conn[w].up THEN "ERROR" ELSE "none")
  /\ UNCHANGED <<store, client, ends>>

LastReplyUnnamed(pc) ==        \* mutant: the name of the step for the type of the reply
  IF pc \in {"respond", "UPLOAD_ACK", "ACK_OK", "REVOKE_ACK"} THEN pc ELSE "ERROR"

(* The reply with which a handler ends after its last step. *)
LastReply(pc) ==
  IF pc = "respond" THEN "DOWNLOAD_RESPONSE"
  ELSE IF pc \in {"UPLOAD_ACK", "ACK_OK", "REVOKE_ACK"} THEN pc ELSE "ERROR"

WorkInSilence(w) ==            \* mutant: an early return of a handler without its _send_error
  /\ Store!Handle(w)
  /\ IF job'[w] = Store!Idle /\ LastReply(job[w].pc) # "ERROR"
       THEN Answer(w, LastReply(job[w].pc)) ELSE UNCHANGED conn
  /\ UNCHANGED <<client, ends>>

Work(w) ==
  /\ Store!Handle(w)
  /\ IF job'[w] = Store!Idle THEN Answer(w, LastReply(job[w].pc)) ELSE UNCHANGED conn
  /\ UNCHANGED <<client, ends>>

FailAnsweringAlways(w) ==      \* mutant: one except around the handler, send_message included
  /\ Store!Abort(w)
  /\ Answer(w, "ERROR")
  /\ UNCHANGED <<client, ends>>

(* The steps whose errors a handler catches: the disk's in an upload (428) *)
(* and a download (656), the database's in mark_status of an               *)
(* acknowledgement (783) and of a revocation (1004).                       *)
Caught == {"openTmp", "fillTmp", "cutShort", "replace", "respond", "markDownloaded", "markRevoked"}

(* A handler fails: it answers INTERNAL_ERROR, or its exception ends       *)
(* serve_connection, which closes the socket.                              *)
Fail(w) ==
  /\ Store!Abort(w)
  /\ \/ job[w].pc \in Caught /\ Answer(w, "ERROR")
     \/ Close(w)
  /\ UNCHANGED <<client, ends>>

(* The server process dies, and its connections with it.  A reply it has   *)
(* sent may still arrive.                                                  *)
Restart ==
  /\ Store!Restart
  /\ conn' = [w \in Worker |-> [conn[w] EXCEPT !.up = FALSE, !.req = NoRequest]]
  /\ UNCHANGED <<client, ends>>

Background ==
  /\ Store!Clean \/ Store!Tick
  /\ UNCHANGED <<conn, client, ends>>

ClientStep(w) ==
  \/ Finish(w) \/ TakeRefusal(w) \/ Acknowledge(w) \/ TakeAckReply(w) \/ Save(w)
  \/ LeaveEarly(w)
ServerStep(w) == TakeRequest(w) \/ RefuseRequest(w) \/ Work(w) \/ Fail(w)

Next ==
  \/ \E w \in Worker, cmd \in Command, f \in File : StartCommand(w, cmd, f)
  \/ \E w \in Worker : ClientStep(w) \/ ServerStep(w)
  \/ Background
  \/ Restart

Spec == Init /\ [][Next]_vars

(* The timeout of the client's socket ends every wait, and the threads of  *)
(* the server run.                                                         *)
FairSpec ==
  Spec /\ \A w \in Worker : WF_vars(ClientStep(w)) /\ WF_vars(ServerStep(w))

----------------------------------------------------------------------------
RequestType == {"UPLOAD_REQUEST", "DOWNLOAD_REQUEST", "DOWNLOAD_ACK", "REVOKE_REQUEST"}

(* Type correctness of the connections and the commands. *)
TypeOK ==
  /\ Store!TypeOK
  /\ conn \in [Worker -> [up : BOOLEAN,
                          req : [type : RequestType, file : File] \union {NoRequest},
                          rep : Reply \union {"none"}]]
  /\ client \in [Worker -> [pc : Reply \union {"save"}, cmd : Command, file : File,
                            late : BOOLEAN] \union {Off}]
  /\ decrypted \subseteq File
  /\ saved \subseteq File
  /\ told \subseteq Reply \X File

(* Who was told that an upload succeeded can rely on it: the row and the   *)
(* whole blob are there from then on, whatever the server, the cleanup     *)
(* thread and other commands do (upload.py:140-146).                       *)
ConfirmedUploadIsKept ==
  \A f \in File : <<"UPLOAD_ACK", f>> \in told =>
    status[f] # "absent" /\ blob[f] = Store!Whole(Own)

(* Who was told that an upload was refused can upload again: no row stands *)
(* for the first one, and none will, so that the recipient never gets the  *)
(* file twice (upload.py:141-143).  Only a lost answer leaves that open:   *)
(* the handler's INTERNAL_ERROR (442) is for errors before the INSERT, and *)
(* one at or after it closes the connection.                               *)
RefusedUploadHasNoRow ==
  \A f \in File : <<"ERROR", f>> \in told => status[f] = "absent"

(* While a connection is up the server owes its command an answer until it *)
(* has sent one: whichever check or step of a handler fails, it answers or *)
(* closes, and never takes the next request instead (1070-1121), so that   *)
(* no client and worker wait for each other until the client's timeout.    *)
EveryRequestIsAnswered ==
  \A w \in Worker : client[w].pc \in Store!ReplyType /\ conn[w].up =>
    conn[w].req # NoRequest \/ job[w] # Store!Idle \/ conn[w].rep # "none"

(* A signed acknowledgement in acks, which the sender may hold against the *)
(* recipient, is never there before some client of the recipient verified  *)
(* and decrypted the file (download.py:200-216), although the server takes *)
(* a DOWNLOAD_ACK for any row without having served it.                    *)
AckMeansDecrypted == acks \subseteq decrypted

(* A download begun after a revoke command had succeeded, or after another *)
(* download had been acknowledged, never gets the file, although a late    *)
(* mark_status may have overwritten the status that closed it and requests *)
(* of commands that are gone may still be taken up.                        *)
NoFileAfterClosing ==
  \A w \in Worker : client[w].pc \in {"ACK_OK", "save"} => ~ client[w].late

(* Every command ends, and its connection and worker thread are free then, *)
(* also when the peer is gone in the middle of an exchange.                *)
ConnectionsReleased == \A w \in Worker : ~ Released(w) ~> Released(w)
=============================================================================
