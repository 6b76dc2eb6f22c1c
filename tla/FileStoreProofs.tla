--------------------------- MODULE FileStoreProofs ---------------------------
(***************************************************************************)
(* The safety properties of the file store, for any number of files,       *)
(* workers and users.                                                      *)
(*                                                                         *)
(* None of them is inductive, because a handler acts on what it read       *)
(* earlier.  JobsOK says, for every point between two steps of a handler,  *)
(* what the handler may still rely on there; the properties follow from it *)
(* and from one another.                                                   *)
(* What stands in the directory is another matter: WritersInv says what    *)
(* the names of a file hold while several uploads of it overlap, and       *)
(* UploadersFirst what is left of that where each file is asked for once.  *)
(***************************************************************************)
EXTENDS FileStore, TLAPS

Uploading == {"openTmp", "fillTmp", "cutShort", "replace", "insert"}

JobsOK ==
  \A w \in Worker :
    /\ job[w].pc \in BusyPC \ Uploading => status[job[w].file] # "absent"
    /\ job[w].pc = "markExpired" => Expiration[job[w].file] <= clock
    /\ job[w].pc = "markDownloaded" => job[w].file \in acks
    /\ job[w].pc \in {"REVOKE_ACK", "ACK_OK"} => status[job[w].file] \in Closed
    /\ job[w].pc = "respond" => job[w].seen = "pending"

(* A download that read a pending row came in before any confirmation. *)
GrantedBefore ==
  \A w \in Worker, r \in {"REVOKE_ACK", "ACK_OK"} :
    job[w].pc \in {"authorise", "respond"} /\ job[w].seen = "pending" => r \notin job[w].after

(* Who was told UPLOAD_ACK has a row. *)
AckedHasRow == \A f \in File : "UPLOAD_ACK" \in sent[f] => status[f] # "absent"

CleanerBehind == cleaner.pc = "sweep" => cleaner.now <= clock

IInv ==
  /\ TypeOK
  /\ JobsOK
  /\ GrantedBefore
  /\ CleanerBehind
  /\ AckedHasRow
  /\ DownloadedHasAck
  /\ ConfirmedIsClosed
  /\ ExpiredIsPast

----------------------------------------------------------------------------
LEMMA InitTypeOK == Init => TypeOK
  BY StoreConstants DEF Init, TypeOK, Status, Content, NoFile, Idle

(* Where a worker goes it is well typed. *)
LEMMA GotoTyped ==
  ASSUME TypeOK, NEW w \in Worker, job[w].pc \in BusyPC, NEW pc \in BusyPC, Goto(w, pc)
  PROVE  /\ job' \in [Worker -> Busy \union {Idle}]
         /\ job[w] \in Busy
<1>1. job[w] \in Busy
  BY DEF TypeOK, BusyPC, Idle
<1>2. [job[w] EXCEPT !.pc = pc] \in Busy
  BY <1>1 DEF Busy
<1> QED
  BY <1>1, <1>2 DEF Goto, TypeOK

LEMMA BecomeTyped ==
  ASSUME TypeOK, NEW w \in Worker, NEW j \in Busy \union {Idle}, Become(w, j)
  PROVE  job' \in [Worker -> Busy \union {Idle}]
  BY DEF Become, TypeOK

LEMMA WorkingTyped ==
  ASSUME NEW f \in File, NEW pc \in BusyPC
  PROVE  Working(pc, f) \in Busy
  BY DEF Working, Busy, Status

LEMMA StoringTyped ==
  ASSUME NEW f \in File, NEW p \in Package
  PROVE  /\ Storing(f, p) \in Busy
         /\ Storing(f, p).pc = "openTmp" /\ Storing(f, p).file = f
         /\ Storing(f, p).package = p
  BY DEF Storing, Busy, BusyPC, Status

LEMMA HeldTyped ==
  ASSUME TypeOK, NEW w \in Worker, job[w] \in Busy
  PROVE  HeldBy(w) \in Content
  BY DEF HeldBy, TypeOK, Busy

LEMMA OverTyped ==
  ASSUME NEW c \in Content, NEW p \in Package \union {None}
  PROVE  SomeOver(c, p) \in Content /\ AllOver(c, p) \subseteq Content
  BY DEF SomeOver, AllOver, Content, Part, Whole, Mixed, Empty

LEMMA CutTyped ==
  ASSUME TypeOK, NEW W \in SUBSET Worker, CutShort(W)
  PROVE  cut' \subseteq File
<1>1. ASSUME NEW w \in Worker, Exposed(w) PROVE job[w].file \in File
  BY <1>1 DEF Exposed, Writing, TypeOK, Busy, Idle
<1> QED
  BY <1>1 DEF CutShort, TypeOK

LEMMA NextTypeOK == TypeOK /\ [Next]_vars => TypeOK'
<1> SUFFICES ASSUME TypeOK, [Next]_vars PROVE TypeOK'
  OBVIOUS
<1> USE StoreConstants DEF rows, disk, uploads
<1>1. ASSUME NEW w \in Worker, NEW f \in File, NEW p \in Package, TakeUpload(w, f, p)
      PROVE  TypeOK'
  <2>1. Storing(f, p) \in Busy
    BY StoringTyped
  <2>2. job' \in [Worker -> Busy \union {Idle}]
    BY <1>1, <2>1, BecomeTyped DEF TakeUpload, TypeOK
  <2>3. requests' \in [File -> Nat] /\ uploaded' \in [File -> SUBSET Package]
    BY <1>1 DEF TakeUpload, TypeOK
  <2> QED
    BY <1>1, <2>2, <2>3 DEF TakeUpload, TypeOK, rows, disk
<1>2. ASSUME NEW w \in Worker, OpenTmp(w) \/ WriteShort(w) \/ FillTmp(w) \/ Replace(w)
      PROVE  TypeOK'
  <2>1. job' \in [Worker -> Busy \union {Idle}] /\ job[w] \in Busy
    BY <1>2, GotoTyped DEF OpenTmp, WriteShort, FillTmp, Replace, BusyPC
  <2>2. tmp' \in [File -> Content] /\ blob' \in [File -> Content]
    <3>1. CASE OpenTmp(w) \/ Replace(w)
      <4>1. job[w].file \in File /\ Empty \in Content /\ NoFile \in Content
        BY <2>1 DEF Busy, Content, Empty, NoFile
      <4> QED
        BY <3>1, <4>1 DEF OpenTmp, Replace, TypeOK
    <3>2. CASE WriteShort(w) \/ FillTmp(w)
      <4>1. PICK c \in Content : Put(w, c)
        BY <2>1, <3>2, OverTyped, HeldTyped DEF WriteShort, FillTmp, Busy
      <4> QED
        BY <2>1, <4>1 DEF Put, TypeOK
    <3> QED
      BY <1>2, <3>1, <3>2
  <2>3. fd' \in [Worker -> {"closed", "tmp", "blob", "unlinked"}]
    BY <1>2 DEF OpenTmp, WriteShort, FillTmp, Replace, AfterReplace, TypeOK
  <2> QED
    BY <1>2, <2>1, <2>2, <2>3 DEF OpenTmp, WriteShort, FillTmp, Replace, TypeOK, rows, uploads
<1>3. ASSUME NEW w \in Worker,
             InsertFile(w) \/ MarkDownloaded(w) \/ MarkRevoked(w) \/ InsertAck(w)
      PROVE  TypeOK'
  <2>1. job' \in [Worker -> Busy \union {Idle}] /\ job[w] \in Busy
    BY <1>3, GotoTyped DEF InsertFile, MarkDownloaded, MarkRevoked, InsertAck, BusyPC
  <2> QED
    BY <1>3, <2>1
    DEF InsertFile, MarkDownloaded, MarkRevoked, InsertAck, TypeOK, disk, Busy, Status, Closed
<1>4. ASSUME NEW w \in Worker, NEW f \in File, NEW u \in User, TakeDownload(w, f, u)
      PROVE  TypeOK'
  <2>1. Downloading(f) \in Busy
    BY DEF Downloading, Busy, BusyPC, TypeOK
  <2>2. job' \in [Worker -> Busy \union {Idle}]
    BY <1>4, <2>1, BecomeTyped DEF TakeDownload
  <2> QED
    BY <1>4, <2>2 DEF TakeDownload, TypeOK, rows, disk
<1>5. ASSUME NEW w \in Worker, NEW f \in File, NEW u \in User,
             TakeAck(w, f, u) \/ TakeRevoke(w, f, u)
      PROVE  TypeOK'
  <2>1. /\ Working("insertAck", f) \in Busy
        /\ Working("markRevoked", f) \in Busy
        /\ Working("REVOKE_ACK", f) \in Busy
    BY WorkingTyped DEF BusyPC
  <2>2. job' \in [Worker -> Busy \union {Idle}]
    BY <1>5, <2>1, BecomeTyped DEF TakeAck, TakeRevoke
  <2> QED
    BY <1>5, <2>2 DEF TakeAck, TakeRevoke, TypeOK, rows, disk
<1>6. ASSUME NEW w \in Worker, FindExpired(w) \/ Authorise(w)
      PROVE  TypeOK'
  <2>1. job' \in [Worker -> Busy \union {Idle}]
    BY <1>6, GotoTyped, BecomeTyped DEF FindExpired, Authorise, BusyPC
  <2> QED
    BY <1>6, <2>1 DEF FindExpired, Authorise, TypeOK, rows, disk
<1>7. ASSUME NEW w \in Worker, MarkExpired(w) \/ Respond(w) \/ SendReply(w)
      PROVE  TypeOK'
  <2>1. job[w] \in Busy
    BY <1>7 DEF MarkExpired, Respond, SendReply, TypeOK, Idle
  <2>2. job' \in [Worker -> Busy \union {Idle}]
    BY <1>7, BecomeTyped DEF MarkExpired, Respond, SendReply
  <2>3. status' \in [File -> Status]
    BY <1>7, <2>1 DEF MarkExpired, Respond, SendReply, TypeOK, Status, Closed, Busy, rows
  <2>4. sent' \in [File -> SUBSET ReplyType]
    <3>1. ASSUME NEW f \in File, NEW r \in ReplyType
          PROVE  [sent EXCEPT ![f] = @ \union {r}] \in [File -> SUBSET ReplyType]
      BY DEF TypeOK
    <3>2. job[w].file \in File
      BY <2>1 DEF Busy
    <3> QED
      BY <1>7, <3>1, <3>2 DEF MarkExpired, Respond, SendReply, TypeOK, ReplyType
  <2> QED
    BY <1>7, <2>2, <2>3, <2>4 DEF MarkExpired, Respond, SendReply, TypeOK, rows, disk
<1>8. ASSUME NEW w \in Worker, Abort(w) \/ AnswerOnly(w)
      PROVE  TypeOK'
  <2>1. CutShort({w}) => cut' \subseteq File
    BY CutTyped
  <2> QED
    BY <1>8, <2>1, BecomeTyped DEF Abort, AnswerOnly, TypeOK, vars
<1>9. CASE Clean
  <2>1. cleaner' \in [pc : {"starting", "waiting", "dead"}] \union [pc : {"sweep"}, now : Nat]
    BY <1>9 DEF Clean, StartCleaner, StartPass, Sweep, PassFails, TypeOK
  <2>2. status' \in [File -> Status]
    BY <1>9 DEF Clean, StartCleaner, StartPass, Sweep, PassFails, TypeOK, Status, Closed, rows
  <2> QED
    BY <1>9, <2>1, <2>2
    DEF Clean, StartCleaner, StartPass, Sweep, PassFails, TypeOK, rows, disk
<1>10. CASE Tick \/ Restart
  <2>1. CutShort(Worker) => cut' \subseteq File
    BY CutTyped
  <2> QED
    BY <1>10, <2>1 DEF Tick, Restart, TypeOK
<1>11. CASE UNCHANGED vars
  BY <1>11 DEF vars, TypeOK
<1> QED
  BY <1>1, <1>2, <1>3, <1>4, <1>5, <1>6, <1>7, <1>8, <1>9, <1>10, <1>11 DEF Next, Handle

(* Type correctness: the status column, the directory and the locals of    *)
(* every thread keep their types.                                          *)
THEOREM TypeCorrect == Spec => []TypeOK
  BY InitTypeOK, NextTypeOK, PTL DEF Spec

----------------------------------------------------------------------------
LEMMA InitIInv == Init => IInv
  BY InitTypeOK
  DEF Init, IInv, JobsOK, GrantedBefore, CleanerBehind, AckedHasRow,
      DownloadedHasAck, ConfirmedIsClosed, ExpiredIsPast, Idle, Uploading, BusyPC, Closed

(* The parts of the invariant that speak of the tables, the directory and  *)
(* the replies, and those that speak of the threads.                       *)
StoreInv == AckedHasRow /\ DownloadedHasAck /\ ConfirmedIsClosed /\ ExpiredIsPast
ThreadInv == JobsOK /\ GrantedBefore /\ CleanerBehind

(* A worker that goes on keeps its file, and nobody else moves. *)
LEMMA GoesOn ==
  ASSUME TypeOK, ThreadInv, NEW w \in Worker, job[w] \in Busy, NEW pc \in BusyPC, Goto(w, pc),
         pc \in {"authorise", "respond"} => job[w].pc \in {"authorise", "respond"}
  PROVE  /\ \A v \in Worker \ {w} : job'[v] = job[v]
         /\ job'[w].pc = pc /\ job'[w].file = job[w].file
         /\ job'[w].seen = job[w].seen /\ job'[w].after = job[w].after
         /\ GrantedBefore'
<1>1. /\ \A v \in Worker \ {w} : job'[v] = job[v]
      /\ job'[w] = [job[w] EXCEPT !.pc = pc]
  BY DEF Goto, TypeOK
<1>2. /\ job'[w].pc = pc /\ job'[w].file = job[w].file
      /\ job'[w].seen = job[w].seen /\ job'[w].after = job[w].after
  BY <1>1 DEF Busy
<1>3. GrantedBefore'
  <2>1. ASSUME NEW v \in Worker, NEW r \in {"REVOKE_ACK", "ACK_OK"},
               job'[v].pc \in {"authorise", "respond"}, job'[v].seen = "pending"
        PROVE  r \notin job'[v].after
    <3>1. /\ job[v].pc \in {"authorise", "respond"} /\ job[v].seen = "pending"
          /\ job'[v].after = job[v].after
      BY <1>1, <1>2, <2>1
    <3> QED
      BY <3>1 DEF ThreadInv, GrantedBefore
  <2> QED
    BY <2>1 DEF GrantedBefore
<1> QED
  BY <1>1, <1>2, <1>3

(* A worker at rest has nothing to rely on. *)
LEMMA IdleJob == Idle.pc \notin BusyPC /\ Idle.pc = "idle"
  BY DEF Idle, BusyPC

LEMMA NextIInv == IInv /\ [Next]_vars => IInv'
<1> SUFFICES ASSUME IInv, [Next]_vars PROVE IInv'
  OBVIOUS
<1>t. TypeOK /\ TypeOK'
  BY NextTypeOK DEF IInv
<1> SUFFICES ThreadInv' /\ StoreInv'
  BY <1>t DEF IInv, ThreadInv, StoreInv
<1>inv. ThreadInv /\ StoreInv
  BY DEF IInv, ThreadInv, StoreInv
<1> USE StoreConstants, <1>t, <1>inv DEF rows, disk, uploads
<1> USE DEF ThreadInv, StoreInv, JobsOK, GrantedBefore, CleanerBehind,
            AckedHasRow, DownloadedHasAck, ConfirmedIsClosed, ExpiredIsPast,
            Uploading, BusyPC, Closed
<1>1. ASSUME NEW w \in Worker, NEW f \in File, NEW p \in Package, TakeUpload(w, f, p)
      PROVE  ThreadInv' /\ StoreInv'
  <2>1. ThreadInv'
    BY <1>1 DEF TakeUpload, Become, Storing, TypeOK
  <2>2. StoreInv'
    BY <1>1 DEF TakeUpload
  <2> QED
    BY <2>1, <2>2
<1>2. ASSUME NEW w \in Worker, OpenTmp(w) \/ WriteShort(w) \/ FillTmp(w) \/ Replace(w)
      PROVE  ThreadInv' /\ StoreInv'
  <2>1. job[w] \in Busy
    BY <1>2 DEF OpenTmp, WriteShort, FillTmp, Replace, TypeOK, Idle
  <2>2. PICK pc \in Uploading : Goto(w, pc)
    BY <1>2 DEF OpenTmp, WriteShort, FillTmp, Replace
  <2>3. UNCHANGED <<clock, status, acks, cleaner, sent>>
    BY <1>2 DEF OpenTmp, WriteShort, FillTmp, Replace
  <2>4. ThreadInv'
    <3>1. /\ \A v \in Worker \ {w} : job'[v] = job[v]
          /\ job'[w].pc = pc /\ job'[w].file = job[w].file
          /\ GrantedBefore'
      BY <2>1, <2>2, GoesOn
    <3>2. JobsOK' /\ CleanerBehind'
      BY <2>3, <3>1 DEF TypeOK
    <3> QED
      BY <3>1, <3>2
  <2> QED
    BY <2>3, <2>4
<1>5. ASSUME NEW w \in Worker, InsertFile(w)
      PROVE  ThreadInv' /\ StoreInv'
  <2>1. job[w] \in Busy
    BY <1>5 DEF InsertFile, TypeOK, Idle
  <2>2. ThreadInv'
    <3>1. Goto(w, "UPLOAD_ACK") /\ job[w].file \in File
      BY <1>5, <2>1 DEF InsertFile, Busy
    <3>2. /\ \A v \in Worker \ {w} : job'[v] = job[v]
          /\ job'[w].pc = "UPLOAD_ACK" /\ job'[w].file = job[w].file
          /\ GrantedBefore'
      BY <1>5, <2>1, <3>1, GoesOn DEF InsertFile
    <3>3. JobsOK' /\ CleanerBehind'
      BY <1>5, <3>1, <3>2 DEF InsertFile, TypeOK, disk
    <3> QED
      BY <3>2, <3>3
  <2>3. StoreInv'
    BY <1>5, <2>1 DEF InsertFile, TypeOK, disk, Busy
  <2> QED
    BY <2>2, <2>3
<1>6. ASSUME NEW w \in Worker, NEW f \in File, NEW u \in User, TakeDownload(w, f, u)
      PROVE  ThreadInv' /\ StoreInv'
  <2>1. ThreadInv'
    BY <1>6 DEF TakeDownload, Become, Downloading, TypeOK, rows, disk
  <2> QED
    BY <1>6, <2>1 DEF TakeDownload, rows, disk
<1>7. ASSUME NEW w \in Worker, NEW f \in File, NEW u \in User,
             TakeAck(w, f, u) \/ TakeRevoke(w, f, u)
      PROVE  ThreadInv' /\ StoreInv'
  <2>1. ThreadInv'
    BY <1>7 DEF TakeAck, TakeRevoke, Become, Working, TypeOK, rows, disk
  <2> QED
    BY <1>7, <2>1 DEF TakeAck, TakeRevoke, rows, disk
<1>8. ASSUME NEW w \in Worker, FindExpired(w)
      PROVE  ThreadInv' /\ StoreInv'
  <2>1. job[w] \in Busy
    BY <1>8 DEF FindExpired, TypeOK, Idle
  <2>2. ThreadInv'
    <3>1. CASE job[w].seen = "pending"
      <4>1. /\ \A v \in Worker \ {w} : job'[v] = job[v]
            /\ job'[w].pc = "markExpired" /\ job'[w].file = job[w].file
            /\ GrantedBefore'
        BY <1>8, <2>1, <3>1, GoesOn DEF FindExpired
      <4>2. JobsOK' /\ CleanerBehind'
        BY <1>8, <4>1 DEF FindExpired, PastExpiration
      <4> QED
        BY <4>1, <4>2
    <3>2. CASE job[w].seen # "pending"
      BY <1>8, <3>2, IdleJob DEF FindExpired, Become, TypeOK
    <3> QED
      BY <3>1, <3>2
  <2> QED
    BY <1>8, <2>2 DEF FindExpired, rows, disk
<1>9. ASSUME NEW w \in Worker, Authorise(w)
      PROVE  ThreadInv' /\ StoreInv'
  <2>1. job[w] \in Busy
    BY <1>9 DEF Authorise, TypeOK, Idle
  <2>2. ThreadInv'
    BY <1>9, <2>1, IdleJob DEF Authorise, Goto, Become, TypeOK, rows, disk, Busy
  <2> QED
    BY <1>9, <2>2 DEF Authorise, rows, disk
<1>10. ASSUME NEW w \in Worker, MarkExpired(w)
       PROVE  ThreadInv' /\ StoreInv'
  <2>1. job[w] \in Busy
    BY <1>10 DEF MarkExpired, TypeOK, Idle
  <2>2. ThreadInv'
    BY <1>10, <2>1, IdleJob DEF MarkExpired, Become, TypeOK, disk, Busy
  <2>3. StoreInv'
    BY <1>10, <2>1 DEF MarkExpired, TypeOK, disk, Busy
  <2> QED
    BY <2>2, <2>3
<1>11. ASSUME NEW w \in Worker, Respond(w)
       PROVE  ThreadInv' /\ StoreInv'
  <2>1. job[w] \in Busy
    BY <1>11 DEF Respond, TypeOK, Idle
  <2>2. ThreadInv'
    BY <1>11, <2>1, IdleJob DEF Respond, Become, TypeOK, rows, disk, Busy
  <2>3. StoreInv'
    BY <1>11, <2>1 DEF Respond, TypeOK, rows, disk, Busy
  <2> QED
    BY <2>2, <2>3
<1>12. ASSUME NEW w \in Worker, InsertAck(w)
       PROVE  ThreadInv' /\ StoreInv'
  <2>1. job[w] \in Busy
    BY <1>12 DEF InsertAck, TypeOK, Idle
  <2>2. ThreadInv'
    <3>1. Goto(w, "markDownloaded") /\ job[w].file \in File
      BY <1>12, <2>1 DEF InsertAck, Busy
    <3>2. /\ \A v \in Worker \ {w} : job'[v] = job[v]
          /\ job'[w].pc = "markDownloaded" /\ job'[w].file = job[w].file
          /\ GrantedBefore'
      BY <1>12, <2>1, <3>1, GoesOn DEF InsertAck
    <3>3. JobsOK' /\ CleanerBehind'
      BY <1>12, <3>1, <3>2 DEF InsertAck, TypeOK, disk
    <3> QED
      BY <3>2, <3>3
  <2> QED
    BY <1>12, <2>2 DEF InsertAck, disk
<1>13. ASSUME NEW w \in Worker, MarkDownloaded(w)
       PROVE  ThreadInv' /\ StoreInv'
  <2>1. job[w] \in Busy
    BY <1>13 DEF MarkDownloaded, TypeOK, Idle
  <2>2. ThreadInv'
    <3>1. Goto(w, "ACK_OK") /\ job[w].file \in File
      BY <1>13, <2>1 DEF MarkDownloaded, Busy
    <3>2. /\ \A v \in Worker \ {w} : job'[v] = job[v]
          /\ job'[w].pc = "ACK_OK" /\ job'[w].file = job[w].file
          /\ GrantedBefore'
      BY <1>13, <2>1, <3>1, GoesOn DEF MarkDownloaded
    <3>3. JobsOK' /\ CleanerBehind'
      BY <1>13, <3>1, <3>2 DEF MarkDownloaded, TypeOK, disk
    <3> QED
      BY <3>2, <3>3
  <2>3. StoreInv'
    BY <1>13, <2>1 DEF MarkDownloaded, TypeOK, disk, Busy
  <2> QED
    BY <2>2, <2>3
<1>21. ASSUME NEW w \in Worker, MarkRevoked(w)
       PROVE  ThreadInv' /\ StoreInv'
  <2>1. job[w] \in Busy
    BY <1>21 DEF MarkRevoked, TypeOK, Idle
  <2>2. ThreadInv'
    <3>1. Goto(w, "REVOKE_ACK") /\ job[w].file \in File
      BY <1>21, <2>1 DEF MarkRevoked, Busy
    <3>2. /\ \A v \in Worker \ {w} : job'[v] = job[v]
          /\ job'[w].pc = "REVOKE_ACK" /\ job'[w].file = job[w].file
          /\ GrantedBefore'
      BY <1>21, <2>1, <3>1, GoesOn DEF MarkRevoked
    <3>3. JobsOK' /\ CleanerBehind'
      BY <1>21, <3>1, <3>2 DEF MarkRevoked, TypeOK, disk
    <3> QED
      BY <3>2, <3>3
  <2>3. StoreInv'
    BY <1>21, <2>1 DEF MarkRevoked, TypeOK, disk, Busy
  <2> QED
    BY <2>2, <2>3
<1>14. ASSUME NEW w \in Worker, SendReply(w)
       PROVE  ThreadInv' /\ StoreInv'
  <2>1. job[w] \in Busy
    BY <1>14 DEF SendReply, TypeOK, Idle
  <2>2. ThreadInv'
    BY <1>14, <2>1, IdleJob DEF SendReply, Become, TypeOK, rows, disk, Busy
  <2>3. StoreInv'
    BY <1>14, <2>1 DEF SendReply, TypeOK, rows, disk, Busy
  <2> QED
    BY <2>2, <2>3
<1>15. ASSUME NEW w \in Worker, Abort(w) \/ AnswerOnly(w)
       PROVE  ThreadInv' /\ StoreInv'
  <2>1. ThreadInv'
    BY <1>15, IdleJob DEF Abort, AnswerOnly, Become, TypeOK, vars, rows, disk
  <2> QED
    BY <1>15, <2>1 DEF Abort, AnswerOnly, vars, rows, disk
<1>16. CASE Sweep
  <2>1. \A f \in File : Overdue(f) => status[f] = "pending" /\ Expiration[f] <= clock
    BY <1>16 DEF Sweep, Overdue, TypeOK
  <2>2. ThreadInv'
    BY <1>16, <2>1 DEF Sweep, TypeOK, disk, Busy, Idle
  <2>3. StoreInv'
    BY <1>16, <2>1 DEF Sweep, TypeOK, disk
  <2> QED
    BY <2>2, <2>3
<1>17. CASE StartCleaner \/ StartPass \/ PassFails
  <2>1. ThreadInv'
    BY <1>17 DEF StartCleaner, StartPass, PassFails, TypeOK, rows, disk
  <2> QED
    BY <1>17, <2>1 DEF StartCleaner, StartPass, PassFails, rows, disk
<1>18. CASE Tick
  <2>1. ASSUME NEW f \in File, Expiration[f] <= clock PROVE Expiration[f] <= clock'
    BY <1>18, <2>1 DEF Tick, TypeOK
  <2>2. JobsOK'
    BY <1>18, <2>1 DEF Tick, TypeOK, rows, disk, Busy, Idle
  <2>3. GrantedBefore' /\ CleanerBehind'
    BY <1>18 DEF Tick, TypeOK
  <2>4. StoreInv'
    BY <1>18, <2>1 DEF Tick, TypeOK, rows, disk
  <2> QED
    BY <2>2, <2>3, <2>4
<1>19. CASE Restart
  BY <1>19, IdleJob DEF Restart, TypeOK, rows, disk
<1>20. CASE UNCHANGED vars
  BY <1>20 DEF vars
<1> QED
  BY <1>1, <1>2, <1>5, <1>6, <1>7, <1>8, <1>9, <1>10, <1>11, <1>12, <1>13,
     <1>14, <1>15, <1>16, <1>17, <1>18, <1>19, <1>20, <1>21
  DEF Next, Handle, Clean

LEMMA IInvHolds == Spec => []IInv
  BY InitIInv, NextIInv, PTL DEF Spec

(* The status downloaded is backed by an acknowledgement in acks.          *)
THEOREM AcksBackDownloads == Spec => []DownloadedHasAck
<1>1. IInv => DownloadedHasAck
  BY DEF IInv
<1> QED
  BY <1>1, IInvHolds, PTL

(* What a client was told is closed stays closed, ...                      *)
THEOREM ConfirmationsHold == Spec => []ConfirmedIsClosed
<1>1. IInv => ConfirmedIsClosed
  BY DEF IInv
<1> QED
  BY <1>1, IInvHolds, PTL

(* ... and no request that comes after a confirmation is served.           *)
THEOREM ClosingStopsDelivery == Spec => []NotServedAfterClosing
<1>1. IInv => NotServedAfterClosing
  BY DEF IInv, JobsOK, GrantedBefore, NotServedAfterClosing
<1> QED
  BY <1>1, IInvHolds, PTL

(* Only files whose time is over are marked expired.                       *)
THEOREM ExpiryIsHonest == Spec => []ExpiredIsPast
<1>1. IInv => ExpiredIsPast
  BY DEF IInv
<1> QED
  BY <1>1, IInvHolds, PTL

(* What is listed, a request finds unexpired and a pass under way spares.  *)
THEOREM ListingsAgree == Spec => []ListedIsServed
<1>1. ASSUME IInv, NEW f \in File, NEW now \in 0..clock, Expiration[f] > now
      PROVE  /\ now = clock => ~ PastExpiration(f)
             /\ cleaner.pc = "sweep" /\ cleaner.now <= now => ~ Overdue(f)
  <2>1. clock \in Nat /\ Expiration[f] \in Int
    BY <1>1, StoreConstants DEF IInv, TypeOK
  <2>2. cleaner.pc = "sweep" => cleaner.now \in Nat
    BY <1>1 DEF IInv, TypeOK
  <2> QED
    BY <1>1, <2>1, <2>2 DEF PastExpiration, Overdue
<1>2. IInv => ListedIsServed
  BY <1>1 DEF ListedIsServed, PendingFor
<1> QED
  BY <1>2, IInvHolds, PTL

----------------------------------------------------------------------------
(* Several uploads of one file *)

(* What the uploads do not notice: neither a row nor the directory changes *)
(* in it, and who is not uploading does not begin to.                      *)
QuietStep ==
  /\ UNCHANGED <<row, tmp, blob, fd, requests, uploaded, cut>>
  /\ \A f \in File : status[f] = "absent" <=> status'[f] = "absent"
  /\ \A w \in Worker :
       job'[w] = job[w] \/ (job[w].pc \notin Uploading /\ job'[w].pc \notin Uploading)

(* The workers of W stop where they are. *)
StopStep(W) ==
  /\ \A w \in W : job'[w] = Idle /\ fd'[w] = "closed"
  /\ \A w \in Worker \ W : job'[w] = job[w] /\ fd'[w] = fd[w]
  /\ CutShort(W)
  /\ UNCHANGED <<status, row, tmp, blob, requests, uploaded>>

UploadStep(w) == OpenTmp(w) \/ WriteShort(w) \/ FillTmp(w) \/ Replace(w) \/ InsertFile(w)

LEMMA StepKinds ==
  ASSUME IInv, [Next]_vars
  PROVE  \/ QuietStep
         \/ \E w \in Worker, f \in File, p \in Package : TakeUpload(w, f, p)
         \/ \E w \in Worker : UploadStep(w)
         \/ \E W \in SUBSET Worker : StopStep(W)
<1> USE DEF rows, disk, uploads
<1>1. TypeOK /\ JobsOK
  BY DEF IInv
<1>2. /\ job \in [Worker -> Busy \union {Idle}] /\ status \in [File -> Status]
      /\ \A w \in Worker : job[w].pc \in BusyPC => job[w] \in Busy /\ job[w].file \in File
  BY <1>1, IdleJob DEF TypeOK, Busy
<1>3. ASSUME NEW w \in Worker, job[w].pc \in BusyPC \ Uploading,
             UNCHANGED <<row, tmp, blob, fd, requests, uploaded, cut>>,
             \A v \in Worker \ {w} : job'[v] = job[v],
             job'[w].pc \notin Uploading,
             \/ status' = status
             \/ \E s \in Closed : status' = [status EXCEPT ![job[w].file] = s]
      PROVE  QuietStep
  <2>1. job[w].file \in File /\ status[job[w].file] # "absent"
    BY <1>1, <1>2, <1>3 DEF JobsOK
  <2>2. \A f \in File : status[f] = "absent" <=> status'[f] = "absent"
    BY <1>2, <1>3, <2>1 DEF Closed
  <2>3. \A v \in Worker :
          job'[v] = job[v] \/ (job[v].pc \notin Uploading /\ job'[v].pc \notin Uploading)
    BY <1>3
  <2> QED
    BY <1>3, <2>2, <2>3 DEF QuietStep
<1>4. ASSUME NEW w \in Worker, MarkDownloaded(w) \/ MarkRevoked(w) \/ InsertAck(w)
      PROVE  QuietStep
  <2>1. job[w].pc \in BusyPC \ Uploading /\ job[w] \in Busy
    BY <1>2, <1>4 DEF MarkDownloaded, MarkRevoked, InsertAck, Uploading, BusyPC
  <2>2. /\ \A v \in Worker \ {w} : job'[v] = job[v]
        /\ \E pc \in {"ACK_OK", "REVOKE_ACK", "markDownloaded"} :
             job'[w] = [job[w] EXCEPT !.pc = pc]
    BY <1>2, <1>4 DEF MarkDownloaded, MarkRevoked, InsertAck, Goto
  <2>3. job'[w].pc \notin Uploading
    BY <2>1, <2>2 DEF Busy, Uploading
  <2>4. UNCHANGED <<row, tmp, blob, fd, requests, uploaded, cut>>
    BY <1>4 DEF MarkDownloaded, MarkRevoked, InsertAck
  <2>5. status' = status \/ \E s \in Closed : status' = [status EXCEPT ![job[w].file] = s]
    BY <1>4 DEF MarkDownloaded, MarkRevoked, InsertAck, Closed
  <2> QED
    BY <1>3, <2>1, <2>2, <2>3, <2>4, <2>5
<1>5. ASSUME NEW w \in Worker,
             FindExpired(w) \/ Authorise(w) \/ MarkExpired(w) \/ Respond(w) \/ SendReply(w)
      PROVE  QuietStep
  <2>1. job[w].pc \in BusyPC \ Uploading /\ job[w] \in Busy
    BY <1>2, <1>5 DEF FindExpired, Authorise, MarkExpired, Respond, SendReply, Uploading, BusyPC
  <2>2. /\ \A v \in Worker \ {w} : job'[v] = job[v]
        /\ \/ job'[w] = Idle
           \/ \E pc \in {"markExpired", "respond"} : job'[w] = [job[w] EXCEPT !.pc = pc]
    BY <1>2, <1>5 DEF FindExpired, Authorise, MarkExpired, Respond, SendReply, Goto, Become
  <2>3. job'[w].pc \notin Uploading
    BY <2>1, <2>2 DEF Busy, Uploading, Idle
  <2>4. UNCHANGED <<row, tmp, blob, fd, requests, uploaded, cut>>
    BY <1>5 DEF FindExpired, Authorise, MarkExpired, Respond, SendReply
  <2>5. status' = status \/ \E s \in Closed : status' = [status EXCEPT ![job[w].file] = s]
    BY <1>5 DEF FindExpired, Authorise, MarkExpired, Respond, SendReply, Closed
  <2> QED
    BY <1>3, <2>1, <2>2, <2>3, <2>4, <2>5
<1>6. ASSUME NEW w \in Worker, NEW f \in File, NEW u \in User,
             TakeDownload(w, f, u) \/ TakeAck(w, f, u) \/ TakeRevoke(w, f, u)
      PROVE  QuietStep
  <2>1. /\ \A v \in Worker \ {w} : job'[v] = job[v]
        /\ job[w].pc = "idle"
        /\ job'[w].pc \in {"authorise", "insertAck", "markRevoked", "REVOKE_ACK"}
    BY <1>2, <1>6 DEF TakeDownload, TakeAck, TakeRevoke, Become, Downloading, Working, Idle
  <2>2. UNCHANGED <<status, row, tmp, blob, fd, requests, uploaded, cut>>
    BY <1>6 DEF TakeDownload, TakeAck, TakeRevoke
  <2> QED
    BY <2>1, <2>2 DEF QuietStep, Uploading
<1>7. ASSUME NEW w \in Worker, Abort(w)
      PROVE  StopStep({w})
  BY <1>1, <1>7 DEF Abort, StopStep, Become, TypeOK
<1>8. CASE Clean
  <2>1. UNCHANGED <<row, tmp, blob, fd, requests, uploaded, cut, job>>
    BY <1>8 DEF Clean, StartCleaner, StartPass, Sweep, PassFails
  <2>2. \A f \in File : status[f] = "absent" <=> status'[f] = "absent"
    <3>1. CASE Sweep
      BY <3>1 DEF Sweep, Overdue
    <3>2. CASE StartCleaner \/ StartPass \/ PassFails
      BY <3>2 DEF StartCleaner, StartPass, PassFails
    <3> QED
      BY <1>8, <3>1, <3>2 DEF Clean
  <2> QED
    BY <2>1, <2>2 DEF QuietStep
<1>9. CASE Tick \/ UNCHANGED vars
  BY <1>9 DEF Tick, vars, QuietStep
<1>10. CASE Restart
  BY <1>10 DEF Restart, StopStep
<1> QED
  BY <1>4, <1>5, <1>6, <1>7, <1>8, <1>9, <1>10 DEF Next, Handle, AnswerOnly, UploadStep

(* What a worker that uploads has open is there, and what it has replaced  *)
(* stays; what it brings is one of the packages of the file.               *)
WriterOK(w) ==
  /\ fd[w] # "closed" => job[w].pc \in Writing
  /\ fd[w] = "tmp" => tmp[job[w].file] # NoFile
  /\ fd[w] = "blob" => blob[job[w].file] # NoFile
  /\ job[w].pc = "insert" => blob[job[w].file] # NoFile
  /\ job[w].pc \in Uploading =>
       job[w].package \in Package /\ job[w].package \in uploaded[job[w].file]

Holds(w, f, name) == fd[w] = name /\ job[w].file = f
AtWork(w, f) == job[w].pc \in Writing \union {"replace"} /\ job[w].file = f

(* While all uploads of a file bring one package and none of them was cut  *)
(* short in front of another, each of its two names stands for nothing,    *)
(* for the whole package, or for what a writer still has open.             *)
FileOK(f) ==
  \A p \in Package : uploaded[f] = {p} =>
    /\ tmp[f] \in {NoFile, Empty, Part(p), Whole(p)}
    /\ blob[f] \in {NoFile, Empty, Part(p), Whole(p)}
    /\ f \notin cut =>
         /\ blob[f] \in {NoFile, Whole(p)} \/ \E w \in Worker : Holds(w, f, "blob")
         /\ (\E w \in Worker : AtWork(w, f)) =>
              tmp[f] \in {NoFile, Whole(p)} \/ \E w \in Worker : Holds(w, f, "tmp")

Untouched(f) == uploaded[f] = {} => tmp[f] = NoFile /\ blob[f] = NoFile

RowOK(f) == status[f] # "absent" => row[f] \in uploaded[f] /\ blob[f] # NoFile

WritersInv ==
  /\ \A w \in Worker : WriterOK(w)
  /\ \A f \in File : FileOK(f) /\ Untouched(f) /\ RowOK(f)

LEMMA InitWriters == Init => WritersInv
  BY DEF Init, WritersInv, WriterOK, FileOK, Untouched, RowOK, Idle, Uploading

(* A file whose names and writers a step leaves alone. *)
LEMMA SameFile ==
  ASSUME NEW f \in File, FileOK(f), Untouched(f), RowOK(f),
         UNCHANGED <<tmp[f], blob[f], uploaded[f]>>,
         f \in cut => f \in cut',
         status'[f] # "absent" => status[f] # "absent",
         row'[f] = row[f],
         \A w \in Worker : job[w].file = f /\ fd[w] \in {"tmp", "blob"} =>
           fd'[w] = fd[w] /\ job'[w].file = f,
         \A w \in Worker : AtWork(w, f)' => AtWork(w, f)
  PROVE  FileOK(f)' /\ Untouched(f)' /\ RowOK(f)'
<1>1. Untouched(f)' /\ RowOK(f)'
  BY DEF Untouched, RowOK
<1>2. \A w \in Worker : /\ Holds(w, f, "tmp") => Holds(w, f, "tmp")'
                        /\ Holds(w, f, "blob") => Holds(w, f, "blob")'
  BY DEF Holds
<1>3. FileOK(f)'
  BY <1>2 DEF FileOK
<1> QED
  BY <1>1, <1>3

LEMMA QuietWriters ==
  ASSUME IInv, WritersInv, QuietStep
  PROVE  WritersInv'
<1> USE DEF QuietStep
<1>1. ASSUME NEW w \in Worker PROVE WriterOK(w)'
  <2>1. WriterOK(w)
    BY DEF WritersInv
  <2>2. CASE job'[w] = job[w]
    BY <2>1, <2>2 DEF WriterOK
  <2>3. CASE job[w].pc \notin Uploading /\ job'[w].pc \notin Uploading
    BY <2>1, <2>3 DEF WriterOK, Uploading, Writing
  <2> QED
    BY <2>2, <2>3
<1>2. ASSUME NEW f \in File PROVE FileOK(f)' /\ Untouched(f)' /\ RowOK(f)'
  <2>1. \A w \in Worker : fd[w] # "closed" => job[w].pc \in Uploading
    BY DEF WritersInv, WriterOK, Writing, Uploading
  <2>2. \A w \in Worker : AtWork(w, f)' => AtWork(w, f)
    BY DEF AtWork, Writing, Uploading
  <2> QED
    BY <2>1, <2>2, SameFile DEF WritersInv
<1> QED
  BY <1>1, <1>2 DEF WritersInv

LEMMA StopWriters ==
  ASSUME IInv, WritersInv, NEW W \in SUBSET Worker, StopStep(W)
  PROVE  WritersInv'
<1> USE DEF StopStep
<1>1. ASSUME NEW w \in Worker PROVE WriterOK(w)'
  <2>1. WriterOK(w)
    BY DEF WritersInv
  <2>2. CASE w \in W
    BY <2>2 DEF WriterOK, Idle, Uploading
  <2>3. CASE w \notin W
    BY <2>1, <2>3 DEF WriterOK
  <2> QED
    BY <2>2, <2>3
<1>2. ASSUME NEW f \in File PROVE FileOK(f)' /\ Untouched(f)' /\ RowOK(f)'
  <2>1. FileOK(f) /\ Untouched(f) /\ RowOK(f)
    BY DEF WritersInv
  <2>2. Untouched(f)' /\ RowOK(f)'
    BY <2>1 DEF Untouched, RowOK
  <2>3. \A w \in Worker : AtWork(w, f)' => w \notin W /\ AtWork(w, f)
    BY DEF AtWork, Idle, Writing
  <2>4. ASSUME NEW w \in W, Holds(w, f, "blob") PROVE f \in cut'
    <3>1. job[w].pc \in Writing
      BY <2>4 DEF WritersInv, WriterOK, Holds
    <3> QED
      BY <2>4, <3>1 DEF CutShort, Exposed, Holds
  <2>5. ASSUME NEW w \in W, Holds(w, f, "tmp"), NEW v \in Worker, AtWork(v, f)' PROVE f \in cut'
    <3>1. job[w].pc \in Writing
      BY <2>5 DEF WritersInv, WriterOK, Holds
    <3>2. v \in Worker \ {w} /\ AtWork(v, f)
      BY <2>3, <2>5
    <3> QED
      BY <2>5, <3>1, <3>2 DEF CutShort, Exposed, Holds, AtWork
  <2>6. ASSUME NEW w \in Worker \ W, NEW name, Holds(w, f, name) PROVE Holds(w, f, name)'
    BY <2>6 DEF Holds
  <2>7. FileOK(f)'
    <3> SUFFICES ASSUME NEW p \in Package, uploaded'[f] = {p}
                 PROVE  /\ tmp'[f] \in {NoFile, Empty, Part(p), Whole(p)}
                        /\ blob'[f] \in {NoFile, Empty, Part(p), Whole(p)}
                        /\ f \notin cut' =>
                             /\ blob'[f] \in {NoFile, Whole(p)}
                                  \/ \E w \in Worker : Holds(w, f, "blob")'
                             /\ (\E w \in Worker : AtWork(w, f)') =>
                                  tmp'[f] \in {NoFile, Whole(p)}
                                    \/ \E w \in Worker : Holds(w, f, "tmp")'
      BY DEF FileOK
    <3>1. /\ tmp[f] \in {NoFile, Empty, Part(p), Whole(p)}
          /\ blob[f] \in {NoFile, Empty, Part(p), Whole(p)}
          /\ f \notin cut =>
               /\ blob[f] \in {NoFile, Whole(p)} \/ \E w \in Worker : Holds(w, f, "blob")
               /\ (\E w \in Worker : AtWork(w, f)) =>
                    tmp[f] \in {NoFile, Whole(p)} \/ \E w \in Worker : Holds(w, f, "tmp")
      BY <2>1 DEF FileOK
    <3>2. f \notin cut' => f \notin cut
      BY DEF CutShort
    <3>3. ASSUME f \notin cut', ~ blob'[f] \in {NoFile, Whole(p)}
          PROVE  \E w \in Worker : Holds(w, f, "blob")'
      <4>1. PICK w \in Worker : Holds(w, f, "blob")
        BY <3>1, <3>2, <3>3
      <4> QED
        BY <2>4, <2>6, <3>3, <4>1
    <3>4. ASSUME f \notin cut', NEW v \in Worker, AtWork(v, f)', ~ tmp'[f] \in {NoFile, Whole(p)}
          PROVE  \E w \in Worker : Holds(w, f, "tmp")'
      <4>1. PICK w \in Worker : Holds(w, f, "tmp")
        BY <2>3, <3>1, <3>2, <3>4
      <4> QED
        BY <2>5, <2>6, <3>4, <4>1
    <3> QED
      BY <3>1, <3>3, <3>4
  <2> QED
    BY <2>2, <2>7
<1> QED
  BY <1>1, <1>2 DEF WritersInv

LEMMA TakeWriters ==
  ASSUME IInv, WritersInv, NEW w \in Worker, NEW f \in File, NEW p \in Package,
         TakeUpload(w, f, p)
  PROVE  WritersInv'
<1> USE DEF rows, disk
<1>1. /\ TypeOK
      /\ uploaded' = [uploaded EXCEPT ![f] = @ \union {p}]
      /\ UNCHANGED <<status, row, tmp, blob, fd, cut>>
      /\ job[w] = Idle
      /\ \A v \in Worker \ {w} : job'[v] = job[v]
      /\ job'[w] = Idle \/ job'[w] = Storing(f, p)
  BY DEF IInv, TakeUpload, Become, TypeOK
<1>2. uploaded'[f] = uploaded[f] \union {p} /\ \A g \in File \ {f} : uploaded'[g] = uploaded[g]
  BY <1>1 DEF TypeOK
<1>3. fd[w] = "closed"
  BY <1>1 DEF WritersInv, WriterOK, Idle, Writing
<1>4. \A v \in Worker : job[v].pc \in Uploading => job[v].file \in File
  BY <1>1 DEF TypeOK, Busy, Idle, Uploading
<1>5. ASSUME NEW v \in Worker PROVE WriterOK(v)'
  <2>1. WriterOK(v)
    BY DEF WritersInv
  <2>2. CASE v # w
    BY <1>1, <1>2, <1>4, <2>1, <2>2 DEF WriterOK
  <2>3. CASE v = w
    BY <1>1, <1>2, <1>3, <2>3 DEF WriterOK, Storing, Idle, Uploading
  <2> QED
    BY <2>2, <2>3
<1>6. \A v \in Worker, g \in File : AtWork(v, g)' => AtWork(v, g)
  BY <1>1 DEF AtWork, Storing, Idle, Writing
<1>7. \A v \in Worker : fd[v] \in {"tmp", "blob"} => job'[v] = job[v]
  BY <1>1, <1>3
<1>8. ASSUME NEW g \in File PROVE FileOK(g)' /\ Untouched(g)' /\ RowOK(g)'
  <2>1. FileOK(g) /\ Untouched(g) /\ RowOK(g)
    BY DEF WritersInv
  <2>2. CASE uploaded'[g] = uploaded[g]
    BY <1>1, <1>6, <1>7, <2>1, <2>2, SameFile
  <2>3. CASE g = f /\ uploaded[f] = {}
    BY <1>1, <1>2, <2>1, <2>3 DEF FileOK, Untouched, RowOK
  <2>4. CASE g = f /\ uploaded[f] # {} /\ p \notin uploaded[f]
    <3>1. \A q \in Package : uploaded'[f] # {q}
      BY <1>2, <2>4
    <3> QED
      BY <1>1, <1>2, <2>1, <2>4, <3>1 DEF FileOK, Untouched, RowOK
  <2>5. CASE g = f /\ p \in uploaded[f]
    BY <1>2, <2>2, <2>5
  <2> QED
    BY <1>2, <2>2, <2>3, <2>4, <2>5
<1> QED
  BY <1>5, <1>8 DEF WritersInv

(* A write leaves something, and over bytes of the same package leaves no  *)
(* others.                                                                 *)
LEMMA WrittenOver ==
  ASSUME NEW p, NEW c
  PROVE  /\ SomeOver(c, p) # NoFile /\ NoFile \notin AllOver(c, p)
         /\ c \in {Empty, Part(p), Whole(p)} =>
              SomeOver(c, p) \in {Part(p), Whole(p)} /\ AllOver(c, p) = {Whole(p)}
  BY DEF SomeOver, AllOver, NoFile, Empty, Part, Whole, Mixed

LEMMA UploadWriters ==
  ASSUME IInv, WritersInv, NEW w \in Worker, UploadStep(w)
  PROVE  WritersInv'
<1> USE DEF rows, disk, uploads
<1>1. /\ TypeOK /\ job[w] \in Busy
      /\ job[w].pc \in Uploading
      /\ job[w].package \in Package /\ job[w].package \in uploaded[job[w].file]
  <2>1. TypeOK /\ job[w].pc \in Uploading
    BY DEF IInv, UploadStep, OpenTmp, WriteShort, FillTmp, Replace, InsertFile, Uploading
  <2> QED
    BY <2>1 DEF TypeOK, Idle, Uploading, WritersInv, WriterOK
<1>2. PICK f \in File, p \in Package : f = job[w].file /\ p = job[w].package
  BY <1>1 DEF Busy
<1>3. /\ UNCHANGED <<uploaded, cut>>
      /\ \A v \in Worker \ {w} : job'[v] = job[v]
      /\ job'[w].file = f /\ job'[w].package = p
  <2>1. UNCHANGED <<uploaded, cut>> /\ \E pc \in BusyPC : Goto(w, pc)
    BY DEF UploadStep, OpenTmp, WriteShort, FillTmp, Replace, InsertFile, BusyPC
  <2>2. \A v \in Worker \ {w} : job'[v] = job[v]
    BY <1>1, <2>1 DEF Goto, TypeOK
  <2>3. PICK pc \in BusyPC : job'[w] = [job[w] EXCEPT !.pc = pc]
    BY <1>1, <2>1 DEF Goto, TypeOK
  <2>4. job'[w].file = f /\ job'[w].package = p
    BY <1>1, <1>2, <2>3 DEF Busy
  <2> QED
    BY <2>1, <2>2, <2>4
<1>4. \A v \in Worker : job[v].pc \in Uploading => job[v].file \in File
  BY <1>1 DEF TypeOK, Busy, Idle, Uploading
<1>5. /\ \A v \in Worker : WriterOK(v)
      /\ \A g \in File : FileOK(g) /\ Untouched(g) /\ RowOK(g)
      /\ \A v \in Worker : fd[v] # "closed" => job[v].pc \in Uploading /\ job[v].file \in File
  BY <1>4 DEF WritersInv, WriterOK, Writing, Uploading
<1>6. p \in uploaded[f] /\ uploaded[f] # {}
  BY <1>1, <1>2
(* The other files, and the row of this one. *)
<1>7. ASSUME \A g \in File \ {f} : UNCHANGED <<status[g], row[g], tmp[g], blob[g]>>,
             \A v \in Worker : job[v].file # f => fd'[v] = fd[v],
             status'[f] # "absent" => row'[f] \in uploaded[f] /\ blob'[f] # NoFile,
             FileOK(f)',
             \A v \in Worker : WriterOK(v)'
      PROVE  WritersInv'
  <2>1. ASSUME NEW g \in File \ {f} PROVE FileOK(g)' /\ Untouched(g)' /\ RowOK(g)'
    <3>1. \A v \in Worker : AtWork(v, g)' => AtWork(v, g)
      BY <1>2, <1>3 DEF AtWork
    <3>2. \A v \in Worker : job[v].file = g /\ fd[v] \in {"tmp", "blob"} =>
            fd'[v] = fd[v] /\ job'[v].file = g
      BY <1>2, <1>3, <1>7
    <3> QED
      BY <1>3, <1>5, <1>7, <3>1, <3>2, SameFile
  <2>2. Untouched(f)' /\ RowOK(f)'
    BY <1>3, <1>6, <1>7 DEF Untouched, RowOK
  <2> QED
    BY <1>7, <2>1, <2>2 DEF WritersInv
<1>8. CASE OpenTmp(w)
  <2>1. /\ tmp' = [tmp EXCEPT ![f] = Empty] /\ UNCHANGED <<status, row, blob>>
        /\ fd'[w] = "tmp" /\ \A v \in Worker \ {w} : fd'[v] = fd[v]
        /\ fd[w] = "closed" /\ job'[w].pc = "fillTmp"
    <3>1. job'[w] = [job[w] EXCEPT !.pc = "fillTmp"]
      BY <1>1, <1>8 DEF OpenTmp, Goto, TypeOK
    <3>2. job'[w].pc = "fillTmp"
      BY <1>1, <3>1 DEF Busy
    <3>3. fd[w] = "closed"
      BY <1>5, <1>8 DEF WriterOK, OpenTmp, Writing
    <3> QED
      BY <1>1, <1>2, <1>8, <3>2, <3>3 DEF OpenTmp, TypeOK
  <2>2. tmp'[f] = Empty /\ Empty # NoFile /\ \A g \in File \ {f} : tmp'[g] = tmp[g]
    BY <1>1, <2>1 DEF TypeOK, Empty, NoFile
  <2>3. ASSUME NEW v \in Worker PROVE WriterOK(v)'
    <3>1. CASE v = w
      BY <1>1, <1>2, <1>3, <2>1, <2>2, <3>1 DEF WriterOK, Writing
    <3>2. CASE v # w
      BY <1>3, <1>4, <1>5, <2>1, <2>2, <3>2 DEF WriterOK, Writing, Uploading
    <3> QED
      BY <3>1, <3>2
  <2>4. FileOK(f)'
    <3>1. \A v \in Worker : Holds(v, f, "blob") => Holds(v, f, "blob")'
      BY <1>3, <2>1 DEF Holds
    <3>2. Holds(w, f, "tmp")'
      BY <1>3, <2>1 DEF Holds
    <3> QED
      BY <1>3, <1>5, <2>1, <2>2, <3>1, <3>2 DEF FileOK
  <2>5. \A v \in Worker : job[v].file # f => fd'[v] = fd[v]
    BY <1>2, <2>1
  <2>6. status'[f] # "absent" => row'[f] \in uploaded[f] /\ blob'[f] # NoFile
    BY <1>5, <2>1 DEF RowOK
  <2> QED
    BY <1>7, <2>1, <2>2, <2>3, <2>4, <2>5, <2>6
<1>9. CASE WriteShort(w) \/ FillTmp(w)
  <2>1. /\ UNCHANGED <<status, row>> /\ \A v \in Worker \ {w} : fd'[v] = fd[v]
        /\ job[w].pc = "fillTmp"
        /\ \/ WriteShort(w) /\ fd'[w] = fd[w] /\ job'[w].pc = "cutShort"
           \/ FillTmp(w) /\ fd'[w] = "closed" /\ job'[w].pc = "replace"
    <3>1. /\ WriteShort(w) => job'[w] = [job[w] EXCEPT !.pc = "cutShort"]
          /\ FillTmp(w) => job'[w] = [job[w] EXCEPT !.pc = "replace"]
      <4>1. WriteShort(w) => job' = [job EXCEPT ![w].pc = "cutShort"]
        BY DEF WriteShort, Goto
      <4>2. FillTmp(w) => job' = [job EXCEPT ![w].pc = "replace"]
        BY DEF FillTmp, Goto
      <4> QED
        BY <1>1, <4>1, <4>2 DEF TypeOK
    <3>2. (WriteShort(w) => job'[w].pc = "cutShort") /\ (FillTmp(w) => job'[w].pc = "replace")
      BY <1>1, <3>1 DEF Busy
    <3> QED
      BY <1>1, <1>9, <3>2 DEF WriteShort, FillTmp, TypeOK
  <2>2. PICK c : /\ Put(w, c) /\ c # NoFile
                 /\ HeldBy(w) \in {Empty, Part(p), Whole(p)} =>
                      c \in {Part(p), Whole(p)} /\ (FillTmp(w) => c = Whole(p))
    <3>1. CASE WriteShort(w) /\ ~ FillTmp(w)
      BY <1>2, <3>1, WrittenOver DEF WriteShort
    <3>2. CASE FillTmp(w)
      BY <1>2, <3>2, WrittenOver DEF FillTmp
    <3> QED
      BY <1>9, <3>1, <3>2
  <2>3. /\ \A g \in File \ {f} : tmp'[g] = tmp[g] /\ blob'[g] = blob[g]
        /\ IF fd[w] = "tmp" THEN tmp'[f] = c ELSE tmp'[f] = tmp[f]
        /\ IF fd[w] = "blob" THEN blob'[f] = c ELSE blob'[f] = blob[f]
    BY <1>1, <1>2, <2>2 DEF Put, TypeOK
  <2>4. ASSUME NEW v \in Worker PROVE WriterOK(v)'
    <3>1. CASE v = w
      BY <1>1, <1>2, <1>3, <1>5, <2>1, <2>2, <2>3, <3>1 DEF WriterOK, Writing
    <3>2. CASE v # w
      <4>1. job'[v] = job[v] /\ fd'[v] = fd[v] /\ WriterOK(v)
        BY <1>3, <1>5, <2>1, <3>2
      <4>2. \A g \in File : /\ tmp[g] # NoFile => tmp'[g] # NoFile
                            /\ blob[g] # NoFile => blob'[g] # NoFile
        BY <2>2, <2>3
      <4>3. /\ fd[v] # "closed" => job[v].file \in File
            /\ job[v].pc = "insert" => job[v].file \in File
        BY <1>4, <1>5 DEF Uploading
      <4> QED
        BY <1>3, <4>1, <4>2, <4>3 DEF WriterOK
    <3> QED
      BY <3>1, <3>2
  <2>5. FileOK(f)'
    <3> SUFFICES ASSUME uploaded[f] = {p}
                 PROVE  /\ tmp'[f] \in {NoFile, Empty, Part(p), Whole(p)}
                        /\ blob'[f] \in {NoFile, Empty, Part(p), Whole(p)}
                        /\ f \notin cut =>
                             /\ blob'[f] \in {NoFile, Whole(p)}
                                  \/ \E v \in Worker : Holds(v, f, "blob")'
                             /\ tmp'[f] \in {NoFile, Whole(p)}
                                  \/ \E v \in Worker : Holds(v, f, "tmp")'
      BY <1>3, <1>6 DEF FileOK
    <3>1. /\ tmp[f] \in {NoFile, Empty, Part(p), Whole(p)}
          /\ blob[f] \in {NoFile, Empty, Part(p), Whole(p)}
          /\ f \notin cut =>
               /\ blob[f] \in {NoFile, Whole(p)} \/ \E v \in Worker : Holds(v, f, "blob")
               /\ tmp[f] \in {NoFile, Whole(p)} \/ \E v \in Worker : Holds(v, f, "tmp")
      <4>1. AtWork(w, f)
        BY <1>2, <2>1 DEF AtWork, Writing
      <4> QED
        BY <1>5, <4>1 DEF FileOK
    <3>2. fd[w] \in {"tmp", "blob"} => c \in {Part(p), Whole(p)} /\ (FillTmp(w) => c = Whole(p))
      <4>1. fd[w] \in {"tmp", "blob"} => HeldBy(w) # NoFile
        BY <1>2, <1>5 DEF WriterOK, HeldBy
      <4>2. fd[w] \in {"tmp", "blob"} => HeldBy(w) \in {Empty, Part(p), Whole(p)}
        BY <1>2, <3>1, <4>1 DEF HeldBy
      <4> QED
        BY <2>2, <4>2
    <3>3. ASSUME NEW v \in Worker, NEW name, Holds(v, f, name), v # w PROVE Holds(v, f, name)'
      BY <1>3, <2>1, <3>3 DEF Holds
    <3>4. WriteShort(w) /\ fd'[w] = fd[w] => \A name : Holds(w, f, name) => Holds(w, f, name)'
      BY <1>2, <1>3 DEF Holds
    <3>5. ASSUME f \notin cut, blob'[f] \notin {NoFile, Whole(p)}
          PROVE  \E v \in Worker : Holds(v, f, "blob")'
      <4>1. CASE fd[w] = "blob"
        <5>1. Holds(w, f, "blob") /\ blob'[f] = c
          BY <1>2, <2>3, <4>1 DEF Holds
        <5> QED
          BY <2>1, <3>2, <3>4, <3>5, <4>1, <5>1
      <4>2. CASE fd[w] # "blob"
        <5>1. PICK v \in Worker : Holds(v, f, "blob")
          BY <2>3, <3>1, <3>5, <4>2
        <5> QED
          BY <3>3, <4>2, <5>1 DEF Holds
      <4> QED
        BY <4>1, <4>2
    <3>6. ASSUME f \notin cut, tmp'[f] \notin {NoFile, Whole(p)}
          PROVE  \E v \in Worker : Holds(v, f, "tmp")'
      <4>1. CASE fd[w] = "tmp"
        <5>1. Holds(w, f, "tmp") /\ tmp'[f] = c
          BY <1>2, <2>3, <4>1 DEF Holds
        <5> QED
          BY <2>1, <3>2, <3>4, <3>6, <4>1, <5>1
      <4>2. CASE fd[w] # "tmp"
        <5>1. PICK v \in Worker : Holds(v, f, "tmp")
          BY <2>3, <3>1, <3>6, <4>2
        <5> QED
          BY <3>3, <4>2, <5>1 DEF Holds
      <4> QED
        BY <4>1, <4>2
    <3> QED
      BY <2>3, <3>1, <3>2, <3>5, <3>6
  <2>6. \A v \in Worker : job[v].file # f => fd'[v] = fd[v]
    BY <1>2, <2>1
  <2>7. status'[f] # "absent" => row'[f] \in uploaded[f] /\ blob'[f] # NoFile
    BY <1>5, <2>1, <2>2, <2>3 DEF RowOK
  <2> QED
    BY <1>7, <2>1, <2>3, <2>4, <2>5, <2>6, <2>7
<1>10. CASE Replace(w)
  <2>1. /\ UNCHANGED <<status, row>> /\ job[w].pc = "replace" /\ job'[w].pc = "insert"
        /\ tmp[f] # NoFile /\ blob'[f] = tmp[f] /\ tmp'[f] = NoFile
        /\ \A g \in File \ {f} : tmp'[g] = tmp[g] /\ blob'[g] = blob[g]
        /\ \A v \in Worker : fd'[v] = AfterReplace(v, f)
    <3>1. job'[w] = [job[w] EXCEPT !.pc = "insert"]
      BY <1>1, <1>10 DEF Replace, Goto, TypeOK
    <3>2. job'[w].pc = "insert"
      BY <1>1, <3>1 DEF Busy
    <3> QED
      BY <1>1, <1>2, <1>10, <3>2 DEF Replace, TypeOK
  <2>2. /\ fd[w] = "closed" /\ fd'[w] = "closed"
        /\ \A v \in Worker : job[v].file # f => fd'[v] = fd[v]
        /\ \A v \in Worker : fd'[v] # "closed" => fd[v] # "closed"
        /\ \A v \in Worker : Holds(v, f, "tmp") => fd'[v] = "blob"
        /\ \A v \in Worker : job[v].file = f => fd'[v] # "tmp"
    <3>1. fd[w] = "closed"
      BY <1>5, <2>1 DEF WriterOK, Writing
    <3> QED
      BY <2>1, <3>1 DEF AfterReplace, Holds
  <2>3. ASSUME NEW v \in Worker PROVE WriterOK(v)'
    <3>1. CASE v = w
      BY <1>2, <1>3, <1>6, <2>1, <2>2, <3>1 DEF WriterOK
    <3>2. CASE v # w
      <4>1. job'[v] = job[v] /\ WriterOK(v) /\ uploaded' = uploaded
        BY <1>3, <1>5, <3>2
      <4>2. CASE job[v].file = f
        BY <2>1, <2>2, <4>1, <4>2 DEF WriterOK
      <4>3. CASE job[v].file # f
        <5>1. job[v].pc \in Uploading => job[v].file \in File \ {f}
          BY <1>4, <4>3
        <5> QED
          BY <2>1, <2>2, <4>1, <4>3, <5>1 DEF WriterOK, Writing, Uploading
      <4> QED
        BY <4>2, <4>3
    <3> QED
      BY <3>1, <3>2
  <2>4. FileOK(f)'
    <3> SUFFICES ASSUME uploaded[f] = {p}
                 PROVE  /\ tmp'[f] = NoFile
                        /\ blob'[f] \in {NoFile, Empty, Part(p), Whole(p)}
                        /\ f \notin cut => blob'[f] \in {NoFile, Whole(p)}
                                             \/ \E v \in Worker : Holds(v, f, "blob")'
      BY <1>3, <1>6 DEF FileOK
    <3>1. AtWork(w, f)
      BY <1>2, <2>1 DEF AtWork
    <3>2. /\ tmp[f] \in {NoFile, Empty, Part(p), Whole(p)}
          /\ f \notin cut => tmp[f] \in {NoFile, Whole(p)}
                               \/ \E v \in Worker : Holds(v, f, "tmp")
      BY <1>5, <3>1 DEF FileOK
    <3>3. ASSUME NEW v \in Worker, Holds(v, f, "tmp") PROVE Holds(v, f, "blob")'
      BY <1>3, <2>2, <3>3 DEF Holds
    <3> QED
      BY <2>1, <3>2, <3>3
  <2>5. status'[f] # "absent" => row'[f] \in uploaded[f] /\ blob'[f] # NoFile
    BY <1>5, <2>1 DEF RowOK
  <2> QED
    BY <1>7, <2>1, <2>2, <2>3, <2>4, <2>5
<1>11. CASE InsertFile(w)
  <2>1. /\ UNCHANGED <<tmp, blob, fd>> /\ job[w].pc = "insert" /\ job'[w].pc = "UPLOAD_ACK"
        /\ row'[f] = p
        /\ \A g \in File \ {f} : status'[g] = status[g] /\ row'[g] = row[g]
    <3>1. job'[w] = [job[w] EXCEPT !.pc = "UPLOAD_ACK"]
      BY <1>1, <1>11 DEF InsertFile, Goto, TypeOK
    <3>2. job'[w].pc = "UPLOAD_ACK"
      BY <1>1, <3>1 DEF Busy
    <3> QED
      BY <1>1, <1>2, <1>11, <3>2 DEF InsertFile, TypeOK
  <2>2. fd[w] = "closed" /\ blob[f] # NoFile
    BY <1>2, <1>5, <2>1 DEF WriterOK, Writing
  <2>3. ASSUME NEW v \in Worker PROVE WriterOK(v)'
    BY <1>3, <1>5, <2>1, <2>2 DEF WriterOK, Uploading
  <2>4. FileOK(f)'
    <3>1. \A v \in Worker : AtWork(v, f)' => AtWork(v, f)
      BY <1>3, <2>1 DEF AtWork, Writing
    <3>2. \A v \in Worker : \A name : Holds(v, f, name) => Holds(v, f, name)'
      BY <1>2, <1>3, <2>1 DEF Holds
    <3> QED
      BY <1>3, <1>5, <2>1, <3>1, <3>2 DEF FileOK
  <2> QED
    BY <1>6, <1>7, <2>1, <2>2, <2>3, <2>4
<1> QED
  BY <1>8, <1>9, <1>10, <1>11 DEF UploadStep

LEMMA NextWriters == IInv /\ WritersInv /\ [Next]_vars => WritersInv'
  BY StepKinds, QuietWriters, StopWriters, TakeWriters, UploadWriters

LEMMA WritersInvHolds == Spec => []WritersInv
  BY InitWriters, NextWriters, IInvHolds, PTL DEF Spec

(* What was acknowledged has its row, and the blob of a row is the package *)
(* it was inserted for, unless another upload brought another package, has *)
(* the blob open, or was cut short while several wrote.                    *)
THEOREM UploadsAreDurable == Spec => []UploadIsDurable
<1>1. ASSUME IInv, WritersInv, NEW f \in File
      PROVE  /\ "UPLOAD_ACK" \in sent[f] => status[f] # "absent"
             /\ status[f] # "absent" =>
                  /\ row[f] \in uploaded[f]
                  /\ blob[f] # NoFile
                  /\ uploaded[f] = {row[f]} /\ f \notin cut =>
                       \/ blob[f] = Whole(row[f])
                       \/ \E w \in Worker : fd[w] = "blob" /\ job[w].file = f
  <2>1. "UPLOAD_ACK" \in sent[f] => status[f] # "absent"
    BY <1>1 DEF IInv, AckedHasRow
  <2>2. FileOK(f) /\ RowOK(f) /\ uploaded[f] \subseteq Package
    BY <1>1 DEF WritersInv, IInv, TypeOK
  <2> QED
    BY <2>1, <2>2 DEF FileOK, RowOK, Holds
<1>2. IInv /\ WritersInv => UploadIsDurable
  BY <1>1 DEF UploadIsDurable
<1> QED
  BY <1>2, IInvHolds, WritersInvHolds, PTL

----------------------------------------------------------------------------
(* One upload of each file *)

(* Where a file is asked for once at most, as by the clients of this       *)
(* repository, no row is there before the upload that inserts it, and      *)
(* nobody else writes to the file.                                         *)
UploadersFirst ==
  /\ \A f \in File : status[f] # "absent" => requests[f] # 0
  /\ \A w \in Worker : job[w].pc \in Uploading =>
       requests[job[w].file] # 0 /\ status[job[w].file] = "absent"
  /\ \A v, w \in Worker :
       job[v].pc \in Uploading /\ job[w].pc \in Uploading /\ job[v].file = job[w].file => v = w
  /\ cut = {}
  /\ \A w \in Worker : fd[w] # "blob"

(* The file was asked for, has no row and nobody is at work on its upload. *)
Rejected(f) ==
  /\ requests[f] # 0
  /\ status[f] = "absent"
  /\ \A w \in Worker : job[w].pc \in Uploading => job[w].file # f

LEMMA InitUploads == Init => UploadersFirst
  BY DEF Init, UploadersFirst, Uploading, Idle

(* Once rejected a file stays so: an upload is taken up only once, and only *)
(* its INSERT makes a row where there was none.                             *)
LEMMA NextUploads ==
  ASSUME MaxUploads = 1, IInv, WritersInv, UploadersFirst, [Next]_vars
  PROVE  UploadersFirst' /\ \A f \in File : Rejected(f) => Rejected(f)'
<1> DEFINE Goal == UploadersFirst' /\ \A f \in File : Rejected(f) => Rejected(f)'
<1>1. /\ job \in [Worker -> Busy \union {Idle}] /\ status \in [File -> Status]
      /\ requests \in [File -> Nat] /\ fd \in [Worker -> {"closed", "tmp", "blob", "unlinked"}]
      /\ \A w \in Worker : job[w].pc \in Uploading => job[w] \in Busy /\ job[w].file \in File
  BY DEF IInv, TypeOK, Busy, Idle, Uploading
<1>2. \A w \in Worker : fd[w] # "closed" => job[w].pc \in Uploading
  BY DEF WritersInv, WriterOK, Writing, Uploading
<1>3. CASE QuietStep
  <2>1. \A w \in Worker : job'[w].pc \in Uploading => job'[w] = job[w]
    BY <1>3 DEF QuietStep
  <2>2. UploadersFirst'
    BY <1>1, <1>3, <2>1 DEF UploadersFirst, QuietStep
  <2>3. \A f \in File : Rejected(f) => Rejected(f)'
    BY <1>3, <2>1 DEF Rejected, QuietStep
  <2> QED
    BY <2>2, <2>3
<1>4. ASSUME NEW w \in Worker, NEW f \in File, NEW p \in Package, TakeUpload(w, f, p)
      PROVE  Goal
  <2>1. /\ requests[f] = 0 /\ requests'[f] = 1
        /\ \A g \in File \ {f} : requests'[g] = requests[g]
        /\ UNCHANGED <<status, fd, cut>>
        /\ \A v \in Worker \ {w} : job'[v] = job[v]
        /\ job[w].pc = "idle"
        /\ job'[w] = Idle \/ job'[w] = Storing(f, p)
    BY <1>1, <1>4 DEF TakeUpload, Become, rows, disk, Idle
  <2>2. status[f] = "absent" /\ \A v \in Worker : job[v].pc \in Uploading => job[v].file # f
    BY <1>1, <2>1 DEF UploadersFirst
  <2>3. \A v \in Worker : job'[v].pc \in Uploading =>
          \/ v = w /\ job'[v].file = f
          \/ v # w /\ job'[v] = job[v] /\ job'[v].file \in File \ {f}
    BY <1>1, <2>1, <2>2 DEF Storing, Idle, Uploading
  <2>4. UploadersFirst'
    BY <2>1, <2>2, <2>3 DEF UploadersFirst
  <2>5. \A g \in File : Rejected(g) => Rejected(g)'
    BY <2>1, <2>3 DEF Rejected
  <2> QED
    BY <2>4, <2>5
<1>5. ASSUME NEW w \in Worker, UploadStep(w)
      PROVE  Goal
  <2>1. job[w] \in Busy /\ job[w].pc \in Uploading
    BY <1>1, <1>5
    DEF UploadStep, OpenTmp, WriteShort, FillTmp, Replace, InsertFile, Uploading
  <2>2. PICK f \in File : f = job[w].file
    BY <2>1 DEF Busy
  <2>3. /\ UNCHANGED <<requests, cut>>
        /\ \A v \in Worker \ {w} : job'[v] = job[v]
        /\ job'[w].file = f
        /\ InsertFile(w) => job'[w].pc = "UPLOAD_ACK"
    <3>1. /\ UNCHANGED <<requests, cut>>
          /\ \E pc \in BusyPC : Goto(w, pc) /\ (InsertFile(w) => pc = "UPLOAD_ACK")
      <4>1. CASE InsertFile(w)
        BY <4>1 DEF InsertFile, BusyPC
      <4>2. CASE ~ InsertFile(w)
        BY <1>5, <4>2
        DEF UploadStep, OpenTmp, WriteShort, FillTmp, Replace, BusyPC, uploads
      <4> QED
        BY <4>1, <4>2
    <3>2. PICK pc \in BusyPC : /\ job'[w] = [job[w] EXCEPT !.pc = pc]
                               /\ \A v \in Worker \ {w} : job'[v] = job[v]
                               /\ InsertFile(w) => pc = "UPLOAD_ACK"
      BY <1>1, <3>1 DEF Goto
    <3>3. job'[w].file = f /\ job'[w].pc = pc
      BY <2>1, <2>2, <3>2 DEF Busy
    <3> QED
      BY <3>1, <3>2, <3>3
  <2>4. \A v \in Worker : job[v].pc \in Uploading /\ v # w => job[v].file \in File \ {f}
    BY <1>1, <2>1, <2>2 DEF UploadersFirst
  <2>5. \A v \in Worker : job'[v].pc \in Uploading /\ v # w => job'[v].file \in File \ {f}
    BY <2>3, <2>4
  <2>6. \A v \in Worker : fd'[v] # "blob"
    <3>1. CASE Replace(w)
      <4>1. fd[w] = "closed"
        BY <3>1 DEF WritersInv, WriterOK, Replace, Writing
      <4>2. ASSUME NEW v \in Worker, fd[v] # "closed" PROVE job[v].file # f
        BY <1>2, <2>4, <4>1, <4>2
      <4>3. \A v \in Worker : fd'[v] = AfterReplace(v, f)
        BY <2>2, <3>1 DEF Replace
      <4> QED
        BY <4>2, <4>3 DEF AfterReplace, UploadersFirst
    <3>2. CASE ~ Replace(w)
      BY <1>1, <1>5, <3>2
      DEF UploadStep, OpenTmp, WriteShort, FillTmp, InsertFile, disk, UploadersFirst
    <3> QED
      BY <3>1, <3>2
  <2>7. /\ \A g \in File \ {f} : status'[g] = status[g]
        /\ ~ InsertFile(w) => status'[f] = status[f]
        /\ requests[f] # 0 /\ status[f] = "absent"
    <3>1. requests[f] # 0 /\ status[f] = "absent"
      BY <2>1, <2>2 DEF UploadersFirst
    <3>2. CASE InsertFile(w)
      BY <1>1, <2>2, <3>1, <3>2 DEF InsertFile
    <3>3. CASE ~ InsertFile(w)
      BY <1>5, <3>1, <3>3 DEF UploadStep, OpenTmp, WriteShort, FillTmp, Replace, rows
    <3> QED
      BY <3>2, <3>3
  <2>8. InsertFile(w) => job'[w].pc \notin Uploading
    BY <2>3 DEF Uploading
  <2>9. UploadersFirst'
    <3>1. \A g \in File : status'[g] # "absent" => requests'[g] # 0
      BY <2>3, <2>7 DEF UploadersFirst
    <3>2. ASSUME NEW v \in Worker, job'[v].pc \in Uploading
          PROVE  requests'[job'[v].file] # 0 /\ status'[job'[v].file] = "absent"
      <4>1. CASE v = w
        BY <2>3, <2>7, <2>8, <3>2, <4>1
      <4>2. CASE v # w
        BY <2>3, <2>5, <2>7, <3>2, <4>2 DEF UploadersFirst
      <4> QED
        BY <4>1, <4>2
    <3>3. \A u, v \in Worker :
            job'[u].pc \in Uploading /\ job'[v].pc \in Uploading /\ job'[u].file = job'[v].file
            => u = v
      BY <2>3, <2>5 DEF UploadersFirst
    <3> QED
      BY <2>3, <2>6, <3>1, <3>2, <3>3 DEF UploadersFirst
  <2>10. ASSUME NEW g \in File, Rejected(g) PROVE Rejected(g)'
    <3>1. g # f
      BY <2>1, <2>2, <2>10 DEF Rejected
    <3> QED
      BY <2>3, <2>7, <2>10, <3>1 DEF Rejected
  <2> QED
    BY <2>9, <2>10
<1>6. ASSUME NEW W \in SUBSET Worker, StopStep(W)
      PROVE  Goal
  <2>1. \A w \in W : ~ Exposed(w)
    BY DEF Exposed, UploadersFirst, Writing, Uploading
  <2>2. cut' = {}
    BY <1>6, <2>1 DEF StopStep, CutShort, UploadersFirst
  <2>3. \A w \in Worker : fd'[w] # "blob" /\ (job'[w].pc \in Uploading => job'[w] = job[w])
    BY <1>6 DEF StopStep, UploadersFirst, Idle, Uploading
  <2>4. UploadersFirst'
    BY <1>6, <2>2, <2>3 DEF StopStep, UploadersFirst
  <2>5. \A f \in File : Rejected(f) => Rejected(f)'
    BY <1>6, <2>3 DEF StopStep, Rejected
  <2> QED
    BY <2>4, <2>5
<1> QED
  BY <1>3, <1>4, <1>5, <1>6, StepKinds

=============================================================================
