----------------------------- MODULE FileStore -----------------------------
(***************************************************************************)
(* The file store of the server: the handlers of zerotrust/server/         *)
(* handler.py for UPLOAD_REQUEST, LIST_PENDING, DOWNLOAD_REQUEST,          *)
(* DOWNLOAD_ACK and REVOKE_REQUEST over the tables of store.py and the     *)
(* directory of blobs, with the cleanup thread of cleanup.py.              *)
(*                                                                         *)
(* Every connection has a worker thread and an SQLite connection of its    *)
(* own, so a step is one SQL statement, one operation on the directory or  *)
(* one read of the clock, with the checks around it that read nothing      *)
(* shared.  A worker may stop between any two steps: the statement or the  *)
(* file operation fails, the peer is gone when the reply is sent, or the   *)
(* process dies.  The directory and the tables survive.                    *)
(*                                                                         *)
(* The server takes up any number of UPLOAD_REQUESTs for one file id: it   *)
(* looks for no row before it writes the blob, and only the primary key of *)
(* the INSERT refuses a second one.  They may bring several packages; what *)
(* is signed into all of them, the sender, the recipient and the           *)
(* expiration, is taken to be the same.                                    *)
(***************************************************************************)
EXTENDS Integers

CONSTANTS
  User, File, Worker,
  Package,                         \* the packages that come under a file id
  Sender, Recipient, Expiration,   \* what the packages of each file say
  CertUntil,                       \* when the certificate of each user ends
  Enrolled,                        \* the users with a certificate in pubkeys/
  None,                            \* no file
  MaxUploads,                      \* bound: UPLOAD_REQUESTs that come under a file id
  MaxTime                          \* bound: the model's time ends here

ASSUME StoreConstants ==
  /\ Sender \in [File -> User]
  /\ Recipient \in [File -> User]
  /\ Expiration \in [File -> Int]
  /\ CertUntil \in [User -> Int]
  /\ Enrolled \subseteq User
  /\ None \notin File
  /\ MaxUploads \in Nat
  /\ MaxTime \in Nat

Closed == {"downloaded", "expired", "revoked"}
Status == {"absent", "pending"} \union Closed      \* "absent": no row
ReplyType == {"UPLOAD_ACK", "DOWNLOAD_RESPONSE", "ACK_OK", "REVOKE_ACK"}

(* A request is well formed and its signature verifies, or one of the two fails. *)
Form == {"sound", "malformed", "forged"}

(* What a file of the directory holds: nothing, some or all of the bytes   *)
(* of one package, or bytes of several.                                    *)
NoFile == [kind |-> "none", of |-> None]
Empty == [kind |-> "empty", of |-> None]
Part(p) == [kind |-> "part", of |-> p]
Whole(p) == [kind |-> "whole", of |-> p]
Mixed == [kind |-> "mixed", of |-> None]

Content == [kind : {"none", "empty", "part", "whole", "mixed"}, of : Package \union {None}]

Writing == {"fillTmp", "cutShort"}        \* where a worker has a file open

(* The bytes of p are written over what is there, and may leave some of it. *)
SomeOver(c, p) ==
  IF c = Whole(p) THEN c ELSE IF c \in {Empty, Part(p)} THEN Part(p) ELSE Mixed

AllOver(c, p) ==
  IF c \in {Empty, Part(p), Whole(p)} THEN {Whole(p)} ELSE {Whole(p), Mixed}

VARIABLES
  clock,       \* int(time.time())
  status,      \* the status column of each file's row
  acks,        \* the files with a row in acks
  row,         \* the package whose hash and keys are in each file's row
  tmp, blob,   \* <file_id>.bin.tmp and <file_id>.bin of each file
  fd,          \* the file that each worker has open, by the name it has now
  job,         \* what each worker is doing
  cleaner,     \* what the cleanup thread is doing
  requests,    \* how many UPLOAD_REQUESTs for each file were taken up
  uploaded,    \* the packages they brought (history)
  cut,         \* the files on which several workers wrote and one of them
               \* was cut short (history)
  sent         \* the kinds of replies sent about each file (history)

rows == <<status, acks>>
disk == <<tmp, blob, fd>>
uploads == <<row, requests, uploaded, cut>>
vars == <<clock, status, row, acks, tmp, blob, fd, job, cleaner, requests, uploaded,
          cut, sent>>

Idle == [pc |-> "idle"]
Working(pc, f) ==
  [pc |-> pc, file |-> f, package |-> None, seen |-> "absent", after |-> {}]
Storing(f, p) ==
  [pc |-> "openTmp", file |-> f, package |-> p, seen |-> "absent", after |-> {}]

(* A download remembers the status it read and, as history, which replies  *)
(* about the file had been sent when it came in.                           *)
Downloading(f) ==
  [pc |-> "authorise", file |-> f, package |-> None, seen |-> status[f], after |-> sent[f]]

Become(w, j) == job' = [job EXCEPT ![w] = j]
Goto(w, pc) == job' = [job EXCEPT ![w].pc = pc]

Init ==
  /\ clock = 0
  /\ status = [f \in File |-> "absent"]
  /\ acks = {}
  /\ row = [f \in File |-> None]
  /\ tmp = [f \in File |-> NoFile]
  /\ blob = [f \in File |-> NoFile]
  /\ fd = [w \in Worker |-> "closed"]
  /\ job = [w \in Worker |-> Idle]
  /\ cleaner = [pc |-> "starting"]
  /\ requests = [f \in File |-> 0]
  /\ uploaded = [f \in File |-> {}]
  /\ cut = {}
  /\ sent = [f \in File |-> {}]

CertValid(u) == clock <= CertUntil[u]

----------------------------------------------------------------------------
(* UPLOAD_REQUEST *)

UploadAdmitted(f, form) ==
  /\ CertValid(Sender[f])
  /\ form = "sound"
  /\ Recipient[f] \in Enrolled
  /\ CertValid(Recipient[f])

TakeUpload(w, f, p) ==
  /\ job[w] = Idle
  /\ requests[f] < MaxUploads
  /\ requests' = [requests EXCEPT ![f] = @ + 1]
  /\ uploaded' = [uploaded EXCEPT ![f] = @ \union {p}]
  /\ \E form \in Form :
       IF UploadAdmitted(f, form) THEN Become(w, Storing(f, p)) ELSE UNCHANGED job
  /\ UNCHANGED <<clock, rows, row, disk, cleaner, cut, sent>>

(* Every upload of a file opens the same .tmp, which empties it for all. *)
OpenTmp(w) ==
  /\ job[w].pc = "openTmp"
  /\ tmp' = [tmp EXCEPT ![job[w].file] = Empty]
  /\ fd' = [fd EXCEPT ![w] = "tmp"]
  /\ Goto(w, "fillTmp")
  /\ UNCHANGED <<clock, rows, blob, cleaner, uploads, sent>>

(* A worker writes to the file it has open, wherever os.replace has moved  *)
(* it to; one that has lost its name is seen by nobody.                    *)
HeldBy(w) == IF fd[w] = "tmp" THEN tmp[job[w].file] ELSE blob[job[w].file]

Put(w, c) ==
  /\ tmp' = IF fd[w] = "tmp" THEN [tmp EXCEPT ![job[w].file] = c] ELSE tmp
  /\ blob' = IF fd[w] = "blob" THEN [blob EXCEPT ![job[w].file] = c] ELSE blob

(* The one write of an upload ends early: what follows is its error, or    *)
(* the end of the process.                                                 *)
WriteShort(w) ==
  /\ job[w].pc = "fillTmp"
  /\ Put(w, SomeOver(HeldBy(w), job[w].package))
  /\ Goto(w, "cutShort")
  /\ UNCHANGED <<clock, rows, fd, cleaner, uploads, sent>>

FillTmpNoReplace(w) ==         \* mutant: the row is inserted before os.replace
  /\ job[w].pc = "fillTmp"
  /\ \E c \in AllOver(HeldBy(w), job[w].package) : Put(w, c)
  /\ fd' = [fd EXCEPT ![w] = "closed"]
  /\ Goto(w, "insert")
  /\ UNCHANGED <<clock, rows, cleaner, uploads, sent>>

FillTmp(w) ==
  /\ job[w].pc = "fillTmp"
  /\ \E c \in AllOver(HeldBy(w), job[w].package) : Put(w, c)
  /\ fd' = [fd EXCEPT ![w] = "closed"]
  /\ Goto(w, "replace")
  /\ UNCHANGED <<clock, rows, cleaner, uploads, sent>>

(* os.replace moves what is there under the name of the .tmp, and those    *)
(* who have it open with it.  A .tmp that is gone is an error.             *)
AfterReplace(w, f) ==
  IF fd[w] # "closed" /\ job[w].file = f
    THEN IF fd[w] = "tmp" THEN "blob" ELSE "unlinked"
    ELSE fd[w]

Replace(w) ==
  /\ job[w].pc = "replace"
  /\ tmp[job[w].file] # NoFile
  /\ blob' = [blob EXCEPT ![job[w].file] = tmp[job[w].file]]
  /\ tmp' = [tmp EXCEPT ![job[w].file] = NoFile]
  /\ fd' = [v \in Worker |-> AfterReplace(v, job[w].file)]
  /\ Goto(w, "insert")
  /\ UNCHANGED <<clock, rows, cleaner, uploads, sent>>

(* The primary key refuses a second row: the INSERT is an error then, when *)
(* the blob of the first has been replaced.                                *)
InsertFile(w) ==
  /\ job[w].pc = "insert"
  /\ status[job[w].file] = "absent"
  /\ status' = [status EXCEPT ![job[w].file] = "pending"]
  /\ row' = [row EXCEPT ![job[w].file] = job[w].package]
  /\ Goto(w, "UPLOAD_ACK")
  /\ UNCHANGED <<clock, acks, disk, cleaner, requests, uploaded, cut, sent>>

----------------------------------------------------------------------------
(* LIST_PENDING and DOWNLOAD_REQUEST *)

PendingForLate(u, now) ==      \* mutant: >= for > in the query
  {f \in File : Recipient[f] = u /\ status[f] = "pending" /\ Expiration[f] >= now}

(* The clock is read (94) before the SELECT: now may be in the past. *)
PendingFor(u, now) ==
  {f \in File : Recipient[f] = u /\ status[f] = "pending" /\ Expiration[f] > now}

(* _authorise_download reads the row (483) ... *)
TakeDownload(w, f, u) ==
  /\ job[w] = Idle
  /\ status[f] # "absent"
  /\ Recipient[f] = u
  /\ Become(w, Downloading(f))
  /\ UNCHANGED <<clock, rows, disk, cleaner, uploads, sent>>

(* ... and then the clock: past the expiration a pending row is to be marked ... *)
PastExpiration(f) == Expiration[f] <= clock

FindExpired(w) ==
  /\ job[w].pc = "authorise"
  /\ PastExpiration(job[w].file)
  /\ IF job[w].seen = "pending" THEN Goto(w, "markExpired") ELSE Become(w, Idle)
  /\ UNCHANGED <<clock, rows, disk, cleaner, uploads, sent>>

(* ... by an UPDATE that does not look at the status again (513). *)
MarkExpired(w) ==
  /\ job[w].pc = "markExpired"
  /\ status' = [status EXCEPT ![job[w].file] = "expired"]
  /\ Become(w, Idle)
  /\ UNCHANGED <<clock, acks, disk, cleaner, uploads, sent>>

AuthoriseAny(w) ==             \* mutant: the status that was read is not looked at
  /\ job[w].pc = "authorise"
  /\ ~ PastExpiration(job[w].file)
  /\ Goto(w, "respond")
  /\ UNCHANGED <<clock, rows, disk, cleaner, uploads, sent>>

(* The status that was read decides: only a pending file is served. *)
Authorise(w) ==
  /\ job[w].pc = "authorise"
  /\ ~ PastExpiration(job[w].file)
  /\ IF job[w].seen = "pending" THEN Goto(w, "respond") ELSE Become(w, Idle)
  /\ UNCHANGED <<clock, rows, disk, cleaner, uploads, sent>>

RespondAgain(w) ==             \* mutant: one grant serves any number of responses
  /\ job[w].pc = "respond"
  /\ blob[job[w].file] # NoFile
  /\ sent' = [sent EXCEPT ![job[w].file] = @ \union {"DOWNLOAD_RESPONSE"}]
  /\ UNCHANGED <<clock, rows, disk, job, cleaner, uploads>>

(* The blob is read and sent; a missing one is an INTERNAL_ERROR. *)
Respond(w) ==
  /\ job[w].pc = "respond"
  /\ blob[job[w].file] # NoFile
  /\ sent' = [sent EXCEPT ![job[w].file] = @ \union {"DOWNLOAD_RESPONSE"}]
  /\ Become(w, Idle)
  /\ UNCHANGED <<clock, rows, disk, cleaner, uploads>>

----------------------------------------------------------------------------
(* DOWNLOAD_ACK *)

TakeAckMarkFirst(w, f, u) ==   \* mutant: the status is written, the acknowledgement is not
  /\ job[w] = Idle
  /\ status[f] # "absent"
  /\ Recipient[f] = u
  /\ CertValid(u)
  /\ Become(w, Working("markDownloaded", f))
  /\ UNCHANGED <<clock, rows, disk, cleaner, uploads, sent>>

TakeAck(w, f, u) ==
  /\ job[w] = Idle
  /\ status[f] # "absent"
  /\ Recipient[f] = u
  /\ CertValid(u)
  /\ Become(w, Working("insertAck", f))
  /\ UNCHANGED <<clock, rows, disk, cleaner, uploads, sent>>

InsertAck(w) ==
  /\ job[w].pc = "insertAck"
  /\ acks' = acks \union {job[w].file}
  /\ Goto(w, "markDownloaded")
  /\ UNCHANGED <<clock, status, disk, cleaner, uploads, sent>>

MarkReceived(w) ==             \* mutant: the word of the signed struct in the status column
  /\ job[w].pc = "markDownloaded"
  /\ status' = [status EXCEPT ![job[w].file] = "received"]
  /\ Goto(w, "ACK_OK")
  /\ UNCHANGED <<clock, acks, disk, cleaner, uploads, sent>>

MarkDownloaded(w) ==
  /\ job[w].pc = "markDownloaded"
  /\ status' = [status EXCEPT ![job[w].file] = "downloaded"]
  /\ Goto(w, "ACK_OK")
  /\ UNCHANGED <<clock, acks, disk, cleaner, uploads, sent>>

----------------------------------------------------------------------------
(* REVOKE_REQUEST *)

TakeRevokeReplyFirst(w, f, u) ==   \* mutant: REVOKE_ACK without the UPDATE
  /\ job[w] = Idle
  /\ Sender[f] = u
  /\ CertValid(u)
  /\ status[f] \in {"pending", "revoked"}
  /\ Become(w, Working("REVOKE_ACK", f))
  /\ UNCHANGED <<clock, rows, disk, cleaner, uploads, sent>>

(* The row is read (888), and what the row said decides (956-998). *)
TakeRevoke(w, f, u) ==
  /\ job[w] = Idle
  /\ status[f] # "absent"
  /\ Sender[f] = u
  /\ CertValid(u)
  /\ \/ status[f] = "pending" /\ Become(w, Working("markRevoked", f))
     \/ status[f] = "revoked" /\ Become(w, Working("REVOKE_ACK", f))
  /\ UNCHANGED <<clock, rows, disk, cleaner, uploads, sent>>

MarkRevoked(w) ==
  /\ job[w].pc = "markRevoked"
  /\ status' = [status EXCEPT ![job[w].file] = "revoked"]
  /\ Goto(w, "REVOKE_ACK")
  /\ UNCHANGED <<clock, acks, disk, cleaner, uploads, sent>>

----------------------------------------------------------------------------
(* The replies that end an upload, an acknowledgement and a revocation. *)
SendReply(w) ==
  /\ job[w].pc \in {"UPLOAD_ACK", "ACK_OK", "REVOKE_ACK"}
  /\ sent' = [sent EXCEPT ![job[w].file] = @ \union {job[w].pc}]
  /\ Become(w, Idle)
  /\ UNCHANGED <<clock, rows, disk, cleaner, uploads>>

(* A request that fails one of the handler's checks is answered with an    *)
(* error, and LIST_PENDING with PendingFor: neither changes anything.      *)
AnswerOnly(w) ==
  /\ job[w] = Idle
  /\ UNCHANGED vars

(* A worker stops in its write to a file that another upload has moved to  *)
(* its final name, or is about to.                                         *)
Exposed(w) ==
  /\ job[w].pc \in Writing
  /\ \/ fd[w] = "blob"
     \/ \E v \in Worker \ {w} :
          job[v].pc \in Writing \union {"replace"} /\ job[v].file = job[w].file

CutShort(W) == cut' = cut \union {job[w].file : w \in {v \in W : Exposed(v)}}

(* The statement or the file operation fails, or the peer is gone: the     *)
(* handler stops where it is.  Nothing is undone, and the .tmp file stays. *)
Abort(w) ==
  /\ job[w] # Idle
  /\ Become(w, Idle)
  /\ fd' = [fd EXCEPT ![w] = "closed"]
  /\ CutShort({w})
  /\ UNCHANGED <<clock, rows, row, tmp, blob, cleaner, requests, uploaded, sent>>

----------------------------------------------------------------------------
(* The cleanup thread.  It opens its connection and creates the tables     *)
(* outside the try of the loop: an error there ends the thread for good.   *)
StartCleaner ==
  /\ cleaner.pc = "starting"
  /\ cleaner' \in {[pc |-> "waiting"], [pc |-> "dead"]}
  /\ UNCHANGED <<clock, rows, disk, job, uploads, sent>>

StartPass ==
  /\ cleaner.pc = "waiting"
  /\ cleaner' = [pc |-> "sweep", now |-> clock]
  /\ UNCHANGED <<clock, rows, disk, job, uploads, sent>>

OverdueAlways(f) == status[f] = "pending"                        \* mutant: no time in the WHERE
OverdueReversed(f) == status[f] = "pending" /\ Expiration[f] > cleaner.now        \* mutant: > for <

(* mark_expired: one UPDATE, with the status in its WHERE. *)
Overdue(f) == status[f] = "pending" /\ Expiration[f] < cleaner.now

SweepForgets ==                \* mutant: the pass resets the rows that are not overdue
  /\ cleaner.pc = "sweep"
  /\ status' = [f \in File |-> IF Overdue(f) THEN "expired"
                              ELSE IF status[f] = "absent" THEN "absent" ELSE "pending"]
  /\ cleaner' = [pc |-> "waiting"]
  /\ UNCHANGED <<clock, acks, disk, job, uploads, sent>>

Sweep ==
  /\ cleaner.pc = "sweep"
  /\ status' = [f \in File |-> IF Overdue(f) THEN "expired" ELSE status[f]]
  /\ cleaner' = [pc |-> "waiting"]
  /\ UNCHANGED <<clock, acks, disk, job, uploads, sent>>

PassFails ==
  /\ cleaner.pc = "sweep"
  /\ cleaner' = [pc |-> "waiting"]
  /\ UNCHANGED <<clock, rows, disk, job, uploads, sent>>

----------------------------------------------------------------------------
Tick ==
  /\ clock < MaxTime
  /\ clock' = clock + 1
  /\ UNCHANGED <<rows, disk, job, cleaner, uploads, sent>>

(* The process ends, by SIGINT or a crash, and is started again. *)
Restart ==
  /\ job' = [w \in Worker |-> Idle]
  /\ cleaner' = [pc |-> "starting"]
  /\ fd' = [w \in Worker |-> "closed"]
  /\ CutShort(Worker)
  /\ UNCHANGED <<clock, rows, row, tmp, blob, requests, uploaded, sent>>

Handle(w) ==
  \/ OpenTmp(w) \/ WriteShort(w) \/ FillTmp(w) \/ Replace(w) \/ InsertFile(w)
  \/ FindExpired(w) \/ MarkExpired(w) \/ Authorise(w) \/ Respond(w)
  \/ InsertAck(w) \/ MarkDownloaded(w)
  \/ MarkRevoked(w)
  \/ SendReply(w)

Clean == StartCleaner \/ StartPass \/ Sweep \/ PassFails

Next ==
  \/ \E w \in Worker, f \in File, p \in Package : TakeUpload(w, f, p)
  \/ \E w \in Worker, f \in File, u \in User :
       TakeDownload(w, f, u) \/ TakeAck(w, f, u) \/ TakeRevoke(w, f, u)
  \/ \E w \in Worker : Handle(w) \/ Abort(w) \/ AnswerOnly(w)
  \/ Clean
  \/ Tick
  \/ Restart

Spec == Init /\ [][Next]_vars

(* The loop of the cleanup thread runs while the process does: a pass that *)
(* starts again and again is not refused or cut short every time.          *)
FairSpec ==
  /\ Spec
  /\ WF_vars(StartCleaner)
  /\ SF_vars(StartPass)
  /\ SF_vars(Sweep)

----------------------------------------------------------------------------
BusyPC ==
  {"openTmp", "fillTmp", "cutShort", "replace", "insert", "authorise", "markExpired", "respond",
   "insertAck", "markDownloaded", "markRevoked", "UPLOAD_ACK", "ACK_OK", "REVOKE_ACK"}

Busy ==
  [pc : BusyPC, file : File, package : Package \union {None}, seen : Status, after : SUBSET ReplyType]

(* Type correctness of the tables, the directory and the threads' locals. *)
TypeOK ==
  /\ clock \in Nat
  /\ status \in [File -> Status]
  /\ acks \subseteq File
  /\ row \in [File -> Package \union {None}]
  /\ tmp \in [File -> Content]
  /\ blob \in [File -> Content]
  /\ fd \in [Worker -> {"closed", "tmp", "blob", "unlinked"}]
  /\ job \in [Worker -> Busy \union {Idle}]
  /\ cleaner \in [pc : {"starting", "waiting", "dead"}] \union [pc : {"sweep"}, now : Nat]
  /\ requests \in [File -> Nat]
  /\ uploaded \in [File -> SUBSET Package]
  /\ cut \subseteq File
  /\ sent \in [File -> SUBSET ReplyType]

(* An accepted upload is kept, however many UPLOAD_REQUESTs come under its *)
(* id and wherever a crash or an error cuts one of them (402-448): once    *)
(* UPLOAD_ACK was sent the file has its row, and a row never stands        *)
(* without a blob.  If they all bring the package of the row, the blob is  *)
(* that package, unless another of them still has it open for its own      *)
(* write of the same bytes, or was cut short in it.  One that brings       *)
(* another package replaces the blob of the row.                           *)
UploadIsDurable ==
  \A f \in File :
    /\ "UPLOAD_ACK" \in sent[f] => status[f] # "absent"
    /\ status[f] # "absent" =>
         /\ row[f] \in uploaded[f]
         /\ blob[f] # NoFile
         /\ uploaded[f] = {row[f]} /\ f \notin cut =>
              \/ blob[f] = Whole(row[f])
              \/ \E w \in Worker : fd[w] = "blob" /\ job[w].file = f

(* The status says downloaded only of a file whose signed acknowledgement  *)
(* is in acks: _handle_download_ack (779-785) is the only way there, and   *)
(* it may be cut between the two statements.                               *)
DownloadedHasAck ==
  \A f \in File : status[f] = "downloaded" => f \in acks

(* A sender or recipient who was told REVOKE_ACK or ACK_OK finds the file  *)
(* closed from then on, whatever late handler writes the status after it:  *)
(* the unconditional UPDATE of mark_status (114) never writes pending.     *)
ConfirmedIsClosed ==
  \A f \in File, r \in {"REVOKE_ACK", "ACK_OK"} : r \in sent[f] => status[f] \in Closed

(* A DOWNLOAD_REQUEST that comes after a REVOKE_ACK or an ACK_OK is not    *)
(* served, although _authorise_download (483-531) decides on a row it read *)
(* earlier: only requests that were under way can still get the file.      *)
NotServedAfterClosing ==
  \A w \in Worker, r \in {"REVOKE_ACK", "ACK_OK"} :
    job[w].pc = "respond" => r \notin job[w].after

(* A file is marked expired only when its time is over: the cleanup pass   *)
(* uses a clock value it read earlier (cleanup.py:48) and the download     *)
(* handler a status it read earlier (handler.py:512).                      *)
ExpiredIsPast ==
  \A f \in File : status[f] = "expired" => Expiration[f] <= clock

(* The three comparisons of an expiration with a clock agree, whichever    *)
(* clock value the query of list_pending_for (92-95) has read: what it     *)
(* shows, a DOWNLOAD_REQUEST that finds the same time does not find        *)
(* expired (511), and a pass of the cleanup thread that read the clock     *)
(* before it (cleanup.py:48) does not expire it.                           *)
ListedIsServed ==
  \A u \in User, now \in 0..clock : \A f \in PendingFor(u, now) :
    /\ now = clock => ~ PastExpiration(f)
    /\ cleaner.pc = "sweep" /\ cleaner.now <= now => ~ Overdue(f)

(* A row is never deleted and a closed file never becomes pending again,   *)
(* in any interleaving of the unconditional UPDATEs of mark_status.        *)
NeverReopened ==
  [][\A f \in File :
       /\ status[f] \in Closed => status'[f] \in Closed
       /\ status[f] = "pending" => status'[f] # "absent"]_vars

(* While the cleanup thread is alive a pending file whose time is over     *)
(* does not stay pending (cleanup.py:72-88), even if no one asks for it.   *)
ExpiredIsSwept ==
  <>[](cleaner.pc # "dead") =>
    \A f \in File : (status[f] = "pending" /\ Expiration[f] < clock) ~> status[f] # "pending"

(* The handlers keep the promise of module FileDrop: a request is granted  *)
(* with its read of an open file, and served at most once for that grant.  *)
GrantOf(w) ==
  IF job[w].pc \in {"authorise", "respond"}
    THEN IF job[w].seen = "pending" THEN job[w].file ELSE None
    ELSE None

StateOf(f) ==
  IF status[f] = "absent" THEN "absent"
  ELSE IF status[f] = "pending" THEN "open" ELSE "closed"

Drop == INSTANCE FileDrop WITH
  state <- [f \in File |-> StateOf(f)],
  granted <- [w \in Worker |-> GrantOf(w)],
  delivered <- {f \in File : "DOWNLOAD_RESPONSE" \in sent[f]}

KeepsPromise == Drop!Spec

=============================================================================
