----------------------------- MODULE WebUiProofs ----------------------------
(***************************************************************************)
(* Racing downloads of a file heal each other's truncations, a download    *)
(* that ended well is never found missing, and an undisturbed upload       *)
(* stores what was chosen: for any number of requests, files and names.    *)
(*                                                                         *)
(* The invariant has a half for each directory.  Of the downloads          *)
(* directory it says who will still write into a truncated .tmp before     *)
(* anybody can move it into place (TmpHeals); of the upload directory, what*)
(* lies under the name of an upload that was not disturbed (AloneKept).    *)
(***************************************************************************)
EXTENDS WebUi, TLAPS

UploadPc == {"save", "read", "send", "remember"}
SavingPc == {"write", "replace", "hand"}

----------------------------------------------------------------------------
(* A truncated .tmp will be written to before it can be moved into place,  *)
(* or nobody is near moving it.                                            *)
TmpHeals ==
  \A f \in File :
    saved[f].tmp = "torn" /\ f \notin cut =>
      \/ \E r \in Request : At(r, "write") /\ File_(r) = f /\ job[r].fd = "tmp"
      \/ \A r \in Request : job[r].pc \in {"write", "replace"} => File_(r) # f

DownloadsOK == DownloadIsThere /\ TearsHeal /\ TmpHeals

(* What an upload will read is there. *)
SaveThere ==
  \A r \in Request : job[r].pc \in {"save", "read"} => uploads[path(r)] # "absent"

(* An upload that was not disturbed: what lies under its name is its own.  *)
AloneKept ==
  \A r \in Request : job[r].pc \in {"save", "read"} /\ job[r].alone =>
    /\ uploads[path(r)] = (IF At(r, "save") THEN "torn" ELSE job[r].original)
    /\ \A q \in Request \ {r} : At(q, "save") => path(q) # path(r)

(* What a command knows of the file it has drawn. *)
FileDrawn ==
  \A r \in Request : job[r].pc \in {"send", "remember"} =>
    /\ content[File_(r)] # None
    /\ meant[File_(r)] = job[r].original
    /\ At(r, "remember") => state[File_(r)] # "absent"

NotDrawn == \A f \in File : content[f] = None => state[f] = "absent" /\ f \notin alone

UploadsOK == SaveThere /\ AloneKept /\ FileDrawn /\ NotDrawn /\ OriginalsArrive

(* The inductive invariant. *)
IInv == TypeOK /\ DownloadsOK /\ UploadsOK

----------------------------------------------------------------------------
(* The fields of a job, by where it is. *)
LEMMA JobFields ==
  ASSUME NEW j \in Job
  PROVE  /\ j.pc # "idle" /\ j # Idle
         /\ j.cmd = "upload" <=> j.pc \in UploadPc
         /\ j.pc \in UploadPc => j.original \in Original /\ j.fd = "none"
         /\ j.pc \in UploadPc \ {"save", "read"} => j.file \in File
         /\ j.pc \notin UploadPc => j.file \in File
         /\ j.pc # "write" => j.fd = "none"
         /\ j.attended \in BOOLEAN /\ j.alone \in BOOLEAN
  <1>1. CASE j \in UploadJob({"save", "read"}, {None}) \union UploadJob({"send", "remember"}, File)
    BY <1>1 DEF UploadJob, UploadPc, Idle
  <1>2. CASE j \in DownloadJob({"ask", "receive", "ack", "open", "replace", "hand"}, {"none"})
                  \union DownloadJob({"write"}, {"tmp", "final", "gone"})
    BY <1>2 DEF DownloadJob, UploadPc, Idle
  <1> QED
    BY <1>1, <1>2 DEF Job

(* A request that is not idle has a job. *)
LEMMA JobOf ==
  ASSUME TypeOK, NEW r \in Request, job[r].pc # "idle"
  PROVE  job[r] \in Job /\ Running(r)
  BY DEF TypeOK, Idle, Running

(* The uses of these two. *)
LEMMA UploadsByPc ==
  ASSUME TypeOK, NEW r \in Request
  PROVE  Uploads(r) <=> job[r].pc \in UploadPc
  <1>1. CASE job[r].pc = "idle"
    <2>1. job[r] \notin Job
      BY <1>1, JobFields
    <2> QED
      BY <1>1, <2>1 DEF TypeOK, Uploads, Running, UploadPc, Idle
  <1>2. CASE job[r].pc # "idle"
    BY <1>2, JobOf, JobFields DEF Uploads
  <1> QED
    BY <1>1, <1>2

----------------------------------------------------------------------------
(* Types *)

LEMMA TypeInit == ASSUME Init PROVE TypeOK
  BY WebUiConstants DEF Init, Drop!Init, TypeOK, Idle, Damaged

LEMMA StartUploadType ==
  ASSUME TypeOK, NEW r \in Request, NEW o \in Original, StartUpload(r, o)
  PROVE  TypeOK'
  <1>1. job' \in [Request -> Job \union {Idle}]
    <2>1. ASSUME NEW q \in Request PROVE job'[q] \in Job \union {Idle}
      <3>1. CASE q = r
        BY <3>1 DEF StartUpload, Job, UploadJob
      <3>2. CASE q # r /\ SameName(q, o)
        <4>1. job[q] \in Job /\ job[q].pc \in {"save", "read"}
          BY <3>2 DEF SameName, Uploads, Running, TypeOK
        <4>2. [job[q] EXCEPT !.alone = FALSE] \in Job
          BY <4>1 DEF Job, UploadJob, DownloadJob
        <4> QED
          BY <3>2, <4>2 DEF StartUpload
      <3>3. CASE q # r /\ ~ SameName(q, o)
        BY <3>3 DEF StartUpload, TypeOK
      <3> QED
        BY <3>1, <3>2, <3>3
    <2> QED
      BY <2>1 DEF StartUpload
  <1>2. uploads' \in [Name -> Original \union Damaged \union {"absent"}]
    BY DEF StartUpload, TypeOK, Damaged
  <1> QED
    BY <1>1, <1>2 DEF StartUpload, TypeOK, server

LEMMA SaveUploadType ==
  ASSUME TypeOK, NEW r \in Request, SaveUpload(r)
  PROVE  TypeOK'
  <1>1. job[r] \in Job /\ job[r].pc = "save" /\ job[r].original \in Original
    BY JobOf, JobFields DEF SaveUpload, At, UploadPc
  <1>2. [job[r] EXCEPT !.pc = "read"] \in Job
    BY <1>1 DEF Job, UploadJob, DownloadJob
  <1>3. job' \in [Request -> Job \union {Idle}]
    BY <1>2 DEF SaveUpload, GoTo, TypeOK
  <1>4. uploads' \in [Name -> Original \union Damaged \union {"absent"}]
    BY <1>1 DEF SaveUpload, TypeOK, Damaged
  <1> QED
    BY <1>3, <1>4 DEF SaveUpload, TypeOK, server

LEMMA ReadUploadType ==
  ASSUME TypeOK, SaveThere, NEW r \in Request, ReadUpload(r)
  PROVE  TypeOK'
  <1>1. PICK f \in File :
          /\ content' = [content EXCEPT ![f] = uploads[path(r)]]
          /\ meant' = [meant EXCEPT ![f] = job[r].original]
          /\ alone' = IF job[r].alone THEN alone \union {f} ELSE alone
          /\ job' = [job EXCEPT ![r].pc = "send", ![r].file = f]
    BY DEF ReadUpload, ReadFrom
  <1>2. job[r] \in Job /\ job[r].pc = "read" /\ job[r].original \in Original
    BY JobOf, JobFields DEF ReadUpload, ReadFrom, UploadPc
  <1>3. [job[r] EXCEPT !.pc = "send", !.file = f] \in Job
    BY <1>2 DEF Job, UploadJob, DownloadJob
  <1>4. job' = [job EXCEPT ![r] = [job[r] EXCEPT !.pc = "send", !.file = f]]
    BY <1>1, <1>2 DEF Job, UploadJob, DownloadJob, TypeOK
  <1>5. job' \in [Request -> Job \union {Idle}]
    BY <1>3, <1>4 DEF TypeOK
  <1>6. uploads[path(r)] \in Original \union Damaged
    <2>1. path(r) \in Name
      BY <1>2, WebUiConstants DEF path
    <2>2. uploads[path(r)] # "absent"
      BY <1>2 DEF SaveThere
    <2> QED
      BY <2>1, <2>2 DEF TypeOK
  <1>7. content' \in [File -> Original \union Damaged \union {None}]
    BY <1>1, <1>6 DEF TypeOK
  <1>8. meant' \in [File -> Original \union {None}] /\ alone' \subseteq File
    BY <1>1, <1>2 DEF TypeOK
  <1>9. UNCHANGED <<state, granted, delivered, uploads, names, saved, cut>>
    BY DEF ReadUpload, ReadFrom, server
  <1> QED
    BY <1>5, <1>7, <1>8, <1>9 DEF TypeOK

LEMMA SendUploadType ==
  ASSUME TypeOK, NEW r \in Request, SendUpload(r)
  PROVE  TypeOK'
  <1>1. job[r] \in Job /\ job[r].pc = "send" /\ File_(r) \in File
    BY JobOf, JobFields DEF SendUpload, At, UploadPc, File_
  <1>2. [job[r] EXCEPT !.pc = "remember"] \in Job
    BY <1>1 DEF Job, UploadJob, DownloadJob
  <1>3. job' \in [Request -> Job \union {Idle}]
    BY <1>2 DEF SendUpload, GoTo, TypeOK
  <1>4. state' \in [File -> {"absent", "open", "closed"}] /\ UNCHANGED <<granted, delivered>>
    BY <1>1 DEF SendUpload, Drop!Publish, TypeOK
  <1> QED
    BY <1>3, <1>4 DEF SendUpload, TypeOK

LEMMA RememberType ==
  ASSUME TypeOK, NEW r \in Request, Remember(r)
  PROVE  TypeOK'
  <1>1. job[r] \in Job /\ File_(r) \in File /\ job[r].original \in Original
    BY JobOf, JobFields DEF Remember, At, UploadPc, File_
  <1>2. names' \in [File -> Name \union {None}]
    BY <1>1, WebUiConstants DEF Remember, path, TypeOK
  <1> QED
    BY <1>2 DEF Remember, Done, TypeOK, server

LEMMA StartDownloadType ==
  ASSUME TypeOK, NEW r \in Request, NEW f \in File, StartDownload(r, f)
  PROVE  TypeOK'
  <1>1. job' \in [Request -> Job \union {Idle}]
    BY DEF StartDownload, TypeOK, Job, DownloadJob
  <1> QED
    BY <1>1 DEF StartDownload, TypeOK, server

(* The steps of a download up to the acknowledgement. *)
LEMMA TalkType ==
  ASSUME TypeOK, NEW r \in Request, Ask(r) \/ Receive(r) \/ SendAck(r)
  PROVE  TypeOK'
  <1>1. job[r] \in Job /\ job[r].pc \in {"ask", "receive", "ack"} /\ File_(r) \in File
    BY JobOf, JobFields DEF Ask, Receive, SendAck, At, UploadPc, File_
  <1>2. \A pc \in {"receive", "ack", "open"} : [job[r] EXCEPT !.pc = pc] \in Job
    BY <1>1 DEF Job, UploadJob, DownloadJob
  <1>3. job' \in [Request -> Job \union {Idle}]
    BY <1>2 DEF Ask, Receive, SendAck, GoTo, TypeOK
  <1>4. /\ state' \in [File -> {"absent", "open", "closed"}]
        /\ granted' \in [Request -> File \union {None}]
        /\ delivered' \subseteq File
    <2>1. CASE Ask(r)
      BY <1>1, <2>1 DEF Ask, Drop!Grant, TypeOK
    <2>2. CASE Receive(r)
      BY <2>2 DEF Receive, Drop!Deliver, TypeOK
    <2>3. CASE SendAck(r)
      BY <2>3 DEF SendAck, Drop!Close, TypeOK, server
    <2> QED
      BY <2>1, <2>2, <2>3
  <1>5. UNCHANGED <<uploads, names, content, meant, alone, saved, cut>>
    BY DEF Ask, Receive, SendAck
  <1> QED
    BY <1>3, <1>4, <1>5 DEF TypeOK

Saved == [tmp : {"absent", "torn", "whole"}, final : {"absent", "torn", "whole"}]

LEMMA OpenTmpType ==
  ASSUME TypeOK, NEW r \in Request, OpenTmp(r)
  PROVE  TypeOK'
  <1>1. job[r] \in Job /\ job[r].pc = "open" /\ File_(r) \in File
    BY JobOf, JobFields DEF OpenTmp, At, UploadPc, File_
  <1>2. [job[r] EXCEPT !.pc = "write", !.fd = "tmp"] \in Job
    BY <1>1 DEF Job, UploadJob, DownloadJob
  <1>3. job' = [job EXCEPT ![r] = [job[r] EXCEPT !.pc = "write", !.fd = "tmp"]]
    BY <1>1 DEF OpenTmp, Job, UploadJob, DownloadJob, TypeOK
  <1>4. job' \in [Request -> Job \union {Idle}]
    BY <1>2, <1>3 DEF TypeOK
  <1>5. saved' \in [File -> Saved]
    BY <1>1 DEF OpenTmp, TypeOK, Saved
  <1> QED
    BY <1>4, <1>5 DEF OpenTmp, TypeOK, server, Saved

LEMMA WriteTmpType ==
  ASSUME TypeOK, NEW r \in Request, WriteTmp(r)
  PROVE  TypeOK'
  <1>1. job[r] \in Job /\ job[r].pc = "write" /\ File_(r) \in File
    BY JobOf, JobFields DEF WriteTmp, At, UploadPc, File_
  <1>2. [job[r] EXCEPT !.pc = "replace", !.fd = "none"] \in Job
    BY <1>1 DEF Job, UploadJob, DownloadJob
  <1>3. job' = [job EXCEPT ![r] = [job[r] EXCEPT !.pc = "replace", !.fd = "none"]]
    BY <1>1 DEF WriteTmp, Job, UploadJob, DownloadJob, TypeOK
  <1>4. job' \in [Request -> Job \union {Idle}]
    BY <1>2, <1>3 DEF TypeOK
  <1>5. Filled(r) \in Saved
    BY <1>1 DEF Filled, TypeOK, Saved
  <1>6. saved' \in [File -> Saved]
    BY <1>5 DEF WriteTmp, TypeOK, Saved
  <1> QED
    BY <1>4, <1>6 DEF WriteTmp, TypeOK, server, Saved

(* What a shift leaves alone, and what it does to descriptors. *)
LEMMA ShiftedJob ==
  ASSUME TypeOK, NEW f \in File, NEW to \in {"final", "gone"}, NEW q \in Request
  PROVE  /\ Shifted(f, to)[q] \in Job \union {Idle}
         /\ Shifted(f, to)[q].pc = job[q].pc
         /\ job[q] \in Job => /\ Shifted(f, to)[q].file = job[q].file
                             /\ Shifted(f, to)[q].original = job[q].original
                             /\ Shifted(f, to)[q].alone = job[q].alone
         /\ job[q] \in Job /\ job[q].file = f => Shifted(f, to)[q].fd = Shift(job[q].fd, to)
         /\ job[q] \in Job /\ job[q].file # f => Shifted(f, to)[q] = job[q]
         /\ job[q].pc # "write" => Shifted(f, to)[q] = job[q]
  <1>1. CASE job[q] = Idle
    BY <1>1, JobFields DEF Shifted, Running
  <1>2. CASE job[q] \in Job
    <2>1. job[q] # Idle
      BY <1>2, JobFields
    <2>2. CASE job[q].file # f
      BY <1>2, <2>2 DEF Shifted, File_
    <2>3. CASE job[q].file = f
      <3>1. Shifted(f, to)[q] = [job[q] EXCEPT !.fd = Shift(job[q].fd, to)]
        BY <2>1, <2>3 DEF Shifted, Running, File_
      <3>2. job[q].pc # "write" => Shift(job[q].fd, to) = job[q].fd
        BY <1>2, JobFields DEF Shift
      <3>3. job[q].pc # "write" => [job[q] EXCEPT !.fd = job[q].fd] = job[q]
        BY <1>2 DEF Job, UploadJob, DownloadJob
      <3>4. [job[q] EXCEPT !.fd = Shift(job[q].fd, to)] \in Job
        BY <1>2 DEF Job, UploadJob, DownloadJob, Shift
      <3>5. /\ [job[q] EXCEPT !.fd = Shift(job[q].fd, to)].pc = job[q].pc
            /\ [job[q] EXCEPT !.fd = Shift(job[q].fd, to)].file = job[q].file
            /\ [job[q] EXCEPT !.fd = Shift(job[q].fd, to)].original = job[q].original
            /\ [job[q] EXCEPT !.fd = Shift(job[q].fd, to)].alone = job[q].alone
            /\ [job[q] EXCEPT !.fd = Shift(job[q].fd, to)].fd = Shift(job[q].fd, to)
        BY <1>2 DEF Job, UploadJob, DownloadJob
      <3> QED
        BY <1>2, <2>3, <3>1, <3>2, <3>3, <3>4, <3>5
    <2> QED
      BY <2>2, <2>3
  <1> QED
    BY <1>1, <1>2 DEF TypeOK

(* The jobs after os.replace and after a failed write. *)
LEMMA ReplaceJobs ==
  ASSUME TypeOK, NEW r \in Request, Replace(r)
  PROVE  /\ job[r] \in Job /\ job[r].pc = "replace" /\ File_(r) \in File
         /\ job'[r] = [job[r] EXCEPT !.pc = "hand"]
         /\ \A q \in Request \ {r} : job'[q] = Shifted(File_(r), "final")[q]
         /\ saved' = [saved EXCEPT ![File_(r)] = [tmp |-> "absent", final |-> saved[File_(r)].tmp]]
         /\ DOMAIN job' = Request /\ job' = [q \in Request |-> job'[q]]
  <1>1. job[r] \in Job /\ job[r].pc = "replace" /\ File_(r) \in File
    BY JobOf, JobFields DEF Replace, ReplaceFrom, UploadPc, File_
  <1>2. Shifted(File_(r), "final")[r] = job[r]
    BY <1>1, ShiftedJob
  <1>3. Shifted(File_(r), "final") \in [Request -> Job \union {Idle}]
    BY <1>1, ShiftedJob DEF Shifted
  <1>4. [job[r] EXCEPT !.pc = "hand", !.fd = "none"] = [job[r] EXCEPT !.pc = "hand"]
    BY <1>1 DEF Job, UploadJob, DownloadJob
  <1>5. job' = [Shifted(File_(r), "final") EXCEPT ![r] = [job[r] EXCEPT !.pc = "hand", !.fd = "none"]]
    BY <1>1, <1>2, <1>3 DEF Replace, ReplaceFrom, Job, UploadJob, DownloadJob
  <1>6. saved' = [saved EXCEPT ![File_(r)] = [tmp |-> "absent", final |-> saved[File_(r)].tmp]]
    BY <1>1 DEF Replace, ReplaceFrom, TypeOK
  <1> QED
    BY <1>1, <1>3, <1>4, <1>5, <1>6

LEMMA FailJobs ==
  ASSUME TypeOK, NEW r \in Request, WriteFails(r)
  PROVE  /\ job[r] \in Job /\ job[r].pc \in {"open", "write", "replace"} /\ File_(r) \in File
         /\ job'[r] = Idle
         /\ \A q \in Request \ {r} : job'[q] = Shifted(File_(r), "gone")[q]
         /\ saved' = [saved EXCEPT ![File_(r)] = [tmp |-> "absent", final |-> saved[File_(r)].final]]
         /\ DOMAIN job' = Request /\ job' = [q \in Request |-> job'[q]]
  <1>1. job[r] \in Job /\ job[r].pc \in {"open", "write", "replace"} /\ File_(r) \in File
    BY JobOf, JobFields DEF WriteFails, FailUnlinking, UploadPc, File_
  <1>3. Shifted(File_(r), "gone") \in [Request -> Job \union {Idle}]
    BY <1>1, ShiftedJob DEF Shifted
  <1> QED
    BY <1>1, <1>3 DEF WriteFails, FailUnlinking

LEMMA ReplaceType ==
  ASSUME TypeOK, NEW r \in Request, Replace(r)
  PROVE  TypeOK'
  <1>1. job' \in [Request -> Job \union {Idle}]
    <2>1. [job[r] EXCEPT !.pc = "hand"] \in Job
      BY ReplaceJobs DEF Job, UploadJob, DownloadJob
    <2>2. ASSUME NEW q \in Request \ {r} PROVE job'[q] \in Job \union {Idle}
      <3>1. job'[q] = Shifted(File_(r), "final")[q] /\ File_(r) \in File
        BY ReplaceJobs
      <3>2. Shifted(File_(r), "final")[q] \in Job \union {Idle}
        BY <3>1, ShiftedJob
      <3> QED
        BY <3>1, <3>2
    <2> QED
      BY <2>1, <2>2, ReplaceJobs
  <1>2. saved' \in [File -> Saved]
    <2>1. File_(r) \in File
      BY ReplaceJobs
    <2>2. [tmp |-> "absent", final |-> saved[File_(r)].tmp] \in Saved
      BY <2>1 DEF TypeOK, Saved
    <2>3. saved' = [saved EXCEPT ![File_(r)] = [tmp |-> "absent", final |-> saved[File_(r)].tmp]]
      BY ReplaceJobs
    <2> QED
      BY <2>2, <2>3 DEF TypeOK, Saved
  <1> QED
    BY <1>1, <1>2 DEF Replace, ReplaceFrom, TypeOK, server, Saved

LEMMA WriteFailsType ==
  ASSUME TypeOK, NEW r \in Request, WriteFails(r)
  PROVE  TypeOK'
  <1>1. job' \in [Request -> Job \union {Idle}]
    <2>1. ASSUME NEW q \in Request \ {r} PROVE job'[q] \in Job \union {Idle}
      <3>1. job'[q] = Shifted(File_(r), "gone")[q] /\ File_(r) \in File
        BY FailJobs
      <3>2. Shifted(File_(r), "gone")[q] \in Job \union {Idle}
        BY <3>1, ShiftedJob
      <3> QED
        BY <3>1, <3>2
    <2> QED
      BY <2>1, FailJobs
  <1>2. saved' \in [File -> Saved]
    <2>1. File_(r) \in File
      BY FailJobs
    <2>2. [tmp |-> "absent", final |-> saved[File_(r)].final] \in Saved
      BY <2>1 DEF TypeOK, Saved
    <2>3. saved' = [saved EXCEPT ![File_(r)] = [tmp |-> "absent", final |-> saved[File_(r)].final]]
      BY FailJobs
    <2> QED
      BY <2>2, <2>3 DEF TypeOK, Saved
  <1>3. cut' \subseteq File
    <2>1. File_(r) \in File /\ cut \subseteq File
      BY FailJobs DEF TypeOK
    <2>2. cut' \in {cut, cut \union {File_(r)}}
      BY DEF WriteFails, FailUnlinking
    <2> QED
      BY <2>1, <2>2
  <1> QED
    BY <1>1, <1>2, <1>3 DEF WriteFails, FailUnlinking, TypeOK, server, Saved

LEMMA HandOverType ==
  ASSUME TypeOK, NEW r \in Request, HandOver(r)
  PROVE  TypeOK'
  BY DEF HandOver, Done, TypeOK, server

LEMMA StopType ==
  ASSUME TypeOK, NEW r \in Request, Stop(r)
  PROVE  TypeOK'
  <1>1. cut' \subseteq File
    <2>1. job[r].pc = "write" => File_(r) \in File
      BY JobOf, JobFields DEF UploadPc, File_
    <2> QED
      BY <2>1 DEF Stop, At, TypeOK
  <1>2. granted' \in [Request -> File \union {None}] /\ UNCHANGED <<state, delivered>>
    BY DEF Stop, Drop!GiveUp, TypeOK
  <1> QED
    BY <1>1, <1>2 DEF Stop, Done, TypeOK

LEMMA RestartType ==
  ASSUME TypeOK, Restart
  PROVE  TypeOK'
  <1>1. ASSUME NEW q \in Request PROVE job'[q] \in Job \union {Idle}
    <2>1. CASE job[q] = Idle
      BY <2>1 DEF Restart, Running
    <2>2. CASE job[q] \in Job
      <3>1. [job[q] EXCEPT !.attended = FALSE] \in Job
        BY <2>2 DEF Job, UploadJob, DownloadJob
      <3> QED
        BY <3>1 DEF Restart
    <2> QED
      BY <2>1, <2>2 DEF TypeOK
  <1>2. job' \in [Request -> Job \union {Idle}]
    BY <1>1 DEF Restart
  <1> QED
    BY <1>2 DEF Restart, TypeOK, server

LEMMA RevokeType ==
  ASSUME TypeOK, NEW f \in File, Revoke(f)
  PROVE  TypeOK'
  BY DEF Revoke, Drop!Close, TypeOK

LEMMA TypeStep ==
  ASSUME TypeOK, SaveThere, [Next]_vars
  PROVE  TypeOK'
  <1>1. CASE UNCHANGED vars
    BY <1>1 DEF vars, server, TypeOK
  <1>2. CASE \E r \in Request : UploadStep(r)
    BY <1>2, StartUploadType, SaveUploadType, ReadUploadType, SendUploadType, RememberType
       DEF UploadStep
  <1>3. CASE \E r \in Request : DownloadStep(r)
    BY <1>3, StartDownloadType, TalkType, OpenTmpType, WriteTmpType, ReplaceType, WriteFailsType,
       HandOverType DEF DownloadStep
  <1>4. CASE \E r \in Request : Stop(r)
    BY <1>4, StopType
  <1> QED
    BY <1>1, <1>2, <1>3, <1>4, RestartType, RevokeType DEF Next

----------------------------------------------------------------------------
(* The downloads directory *)

(* Steps that keep the directory, and all jobs that are saving.             *)
LEMMA SavingKept ==
  ASSUME DownloadsOK, UNCHANGED <<saved, cut>>,
         \A q \in Request :
           job[q].pc \in SavingPc \/ job'[q].pc \in SavingPc =>
             job'[q].pc = job[q].pc /\ job'[q].file = job[q].file /\ job'[q].fd = job[q].fd
  PROVE  DownloadsOK'
  <1>1. DownloadIsThere'
    BY DEF DownloadsOK, DownloadIsThere, SavingPc, At, File_
  <1>2. TearsHeal'
    BY DEF DownloadsOK, TearsHeal, SavingPc, At, File_
  <1>3. TmpHeals'
    <2> SUFFICES ASSUME NEW f \in File, saved[f].tmp = "torn", f \notin cut
                 PROVE  (\/ \E r \in Request : At(r, "write") /\ File_(r) = f /\ job[r].fd = "tmp"
                         \/ \A r \in Request : job[r].pc \in {"write", "replace"} => File_(r) # f)'
      BY DEF TmpHeals
    <2>1. CASE \E r \in Request : At(r, "write") /\ File_(r) = f /\ job[r].fd = "tmp"
      BY <2>1 DEF SavingPc, At, File_
    <2>2. CASE \A r \in Request : job[r].pc \in {"write", "replace"} => File_(r) # f
      BY <2>2 DEF SavingPc, File_
    <2> QED
      BY <2>1, <2>2 DEF DownloadsOK, TmpHeals
  <1> QED
    BY <1>1, <1>2, <1>3 DEF DownloadsOK

(* The steps of an upload, and of a download before it saves. *)
LEMMA QuietDownloads ==
  ASSUME TypeOK, DownloadsOK, NEW r \in Request,
         UploadStep(r) \/ Ask(r) \/ Receive(r) \/ SendAck(r) \/ \E f \in File : StartDownload(r, f)
  PROVE  DownloadsOK'
  <1>1. CASE \E o \in Original : StartUpload(r, o)
    <2>1. PICK o \in Original : StartUpload(r, o)
      BY <1>1
    <2>2. ASSUME NEW q \in Request
          PROVE  job[q].pc \in SavingPc \/ job'[q].pc \in SavingPc => job'[q] = job[q]
      <3>1. CASE q = r
        BY <2>1, <3>1 DEF StartUpload, Idle, SavingPc
      <3>2. CASE q # r /\ SameName(q, o)
        <4>1. job[q] \in Job /\ job[q].pc \in {"save", "read"}
          BY <3>2 DEF SameName, Uploads, Running, TypeOK
        <4>2. [job[q] EXCEPT !.alone = FALSE].pc = job[q].pc
          BY <4>1 DEF Job, UploadJob, DownloadJob
        <4> QED
          BY <2>1, <3>2, <4>1, <4>2 DEF StartUpload, SavingPc
      <3>3. CASE q # r /\ ~ SameName(q, o)
        BY <2>1, <3>3 DEF StartUpload
      <3> QED
        BY <3>1, <3>2, <3>3
    <2> QED
      BY <2>1, <2>2, SavingKept DEF StartUpload
  <1>2. CASE SaveUpload(r) \/ SendUpload(r) \/ Ask(r) \/ Receive(r) \/ SendAck(r)
    <2>1. job[r] \in Job /\ job[r].pc \notin SavingPc
      BY <1>2, JobOf DEF SaveUpload, SendUpload, Ask, Receive, SendAck, At, SavingPc
    <2>2. PICK pc \in {"read", "remember", "receive", "ack", "open"} : GoTo(r, pc)
      BY <1>2 DEF SaveUpload, SendUpload, Ask, Receive, SendAck
    <2>3. [job[r] EXCEPT !.pc = pc].pc = pc
      BY <2>1 DEF Job, UploadJob, DownloadJob
    <2>4. \A q \in Request : job[q].pc \in SavingPc \/ job'[q].pc \in SavingPc => job'[q] = job[q]
      BY <2>1, <2>2, <2>3 DEF GoTo, SavingPc, TypeOK
    <2>5. UNCHANGED <<saved, cut>>
      BY <1>2 DEF SaveUpload, SendUpload, Ask, Receive, SendAck
    <2> QED
      BY <2>4, <2>5, SavingKept
  <1>3. CASE ReadUpload(r)
    <2>1. job[r] \in Job /\ job[r].pc = "read"
      BY <1>3, JobOf DEF ReadUpload, ReadFrom
    <2>2. PICK f \in File : job' = [job EXCEPT ![r].pc = "send", ![r].file = f]
      BY <1>3 DEF ReadUpload, ReadFrom
    <2>3. job'[r].pc = "send"
      BY <2>1, <2>2 DEF TypeOK, Job, UploadJob, DownloadJob
    <2>4. \A q \in Request : job[q].pc \in SavingPc \/ job'[q].pc \in SavingPc => job'[q] = job[q]
      BY <2>1, <2>2, <2>3 DEF SavingPc, TypeOK
    <2> QED
      BY <1>3, <2>4, SavingKept DEF ReadUpload, ReadFrom
  <1>4. CASE Remember(r) \/ \E f \in File : StartDownload(r, f)
    <2>1. job[r].pc \notin SavingPc /\ job'[r].pc \notin SavingPc
      BY <1>4 DEF Remember, At, Done, StartDownload, SavingPc, Idle, TypeOK
    <2>2. \A q \in Request \ {r} : job'[q] = job[q]
      BY <1>4 DEF Remember, Done, StartDownload, TypeOK
    <2> QED
      BY <1>4, <2>1, <2>2, SavingKept DEF Remember, StartDownload
  <1> QED
    BY <1>1, <1>2, <1>3, <1>4 DEF UploadStep

(* Opening the .tmp truncates it, and whoever opened it will write it. *)
LEMMA OpenTmpHeals ==
  ASSUME TypeOK, DownloadsOK, NEW r \in Request, OpenTmp(r)
  PROVE  DownloadsOK'
  <1>1. job[r] \in Job /\ job[r].pc = "open" /\ File_(r) \in File
    BY JobOf, JobFields DEF OpenTmp, At, UploadPc, File_
  <1>2. job'[r].pc = "write" /\ job'[r].fd = "tmp" /\ job'[r].file = File_(r)
    BY <1>1 DEF OpenTmp, File_, TypeOK, Job, UploadJob, DownloadJob
  <1>3. \A q \in Request \ {r} : job'[q] = job[q]
    BY DEF OpenTmp, TypeOK
  <1>4. \A f \in File : saved'[f].final = saved[f].final
    BY DEF OpenTmp, TypeOK
  <1>5. \A f \in File \ {File_(r)} : saved'[f] = saved[f]
    BY DEF OpenTmp, TypeOK
  <1>6. \A q \in Request : job[q].pc = "hand" => job[q].file \in File
    BY JobOf, JobFields DEF UploadPc
  <1>7. DownloadIsThere'
    BY <1>1, <1>2, <1>3, <1>4, <1>6 DEF DownloadsOK, DownloadIsThere, At, File_
  <1>8. TearsHeal'
    <2> SUFFICES ASSUME NEW f \in File, saved'[f].final = "torn", f \notin cut
                 PROVE  (\E q \in Request : At(q, "write") /\ File_(q) = f /\ job[q].fd = "final")'
      BY DEF TearsHeal, OpenTmp
    <2>1. PICK q \in Request : At(q, "write") /\ File_(q) = f /\ job[q].fd = "final"
      BY <1>4 DEF DownloadsOK, TearsHeal
    <2>2. q # r
      BY <1>1, <2>1 DEF At
    <2> QED
      BY <1>3, <2>1, <2>2 DEF At, File_
  <1>9. TmpHeals'
    <2> SUFFICES ASSUME NEW f \in File, saved'[f].tmp = "torn", f \notin cut
                 PROVE  (\/ \E q \in Request : At(q, "write") /\ File_(q) = f /\ job[q].fd = "tmp"
                         \/ \A q \in Request : job[q].pc \in {"write", "replace"} => File_(q) # f)'
      BY DEF TmpHeals, OpenTmp
    <2>1. CASE f = File_(r)
      BY <1>2, <2>1 DEF At, File_
    <2>2. CASE f # File_(r)
      BY <1>1, <1>2, <1>3, <1>5, <2>2 DEF DownloadsOK, TmpHeals, At, File_
    <2> QED
      BY <2>1, <2>2
  <1> QED
    BY <1>7, <1>8, <1>9 DEF DownloadsOK

(* A write makes whole what its descriptor refers to by now. *)
LEMMA WriteTmpHeals ==
  ASSUME TypeOK, DownloadsOK, NEW r \in Request, WriteTmp(r)
  PROVE  DownloadsOK'
  <1>1. job[r] \in Job /\ job[r].pc = "write" /\ File_(r) \in File
    BY JobOf, JobFields DEF WriteTmp, At, UploadPc, File_
  <1>2. job'[r].pc = "replace" /\ job'[r].fd = "none" /\ job'[r].file = File_(r)
    BY <1>1 DEF WriteTmp, File_, TypeOK, Job, UploadJob, DownloadJob
  <1>3. \A q \in Request \ {r} : job'[q] = job[q]
    BY DEF WriteTmp, TypeOK
  <1>4. saved'[File_(r)] = Filled(r) /\ \A f \in File \ {File_(r)} : saved'[f] = saved[f]
    BY <1>1 DEF WriteTmp, TypeOK
  <1>5. /\ Filled(r).final = IF job[r].fd = "final" THEN "whole" ELSE saved[File_(r)].final
        /\ Filled(r).tmp = IF job[r].fd = "tmp" THEN "whole" ELSE saved[File_(r)].tmp
    BY DEF Filled
  <1>6. \A q \in Request : job[q].pc = "hand" => job[q].file \in File
    BY JobOf, JobFields DEF UploadPc
  <1>7. DownloadIsThere'
    BY <1>1, <1>2, <1>3, <1>4, <1>5, <1>6 DEF DownloadsOK, DownloadIsThere, At, File_
  <1>8. TearsHeal'
    <2> SUFFICES ASSUME NEW f \in File, saved'[f].final = "torn", f \notin cut
                 PROVE  (\E q \in Request : At(q, "write") /\ File_(q) = f /\ job[q].fd = "final")'
      BY DEF TearsHeal, WriteTmp
    <2>1. saved[f].final = "torn" /\ (f = File_(r) => job[r].fd # "final")
      BY <1>4, <1>5
    <2>2. PICK q \in Request : At(q, "write") /\ File_(q) = f /\ job[q].fd = "final"
      BY <2>1 DEF DownloadsOK, TearsHeal
    <2>3. q # r
      BY <2>1, <2>2
    <2> QED
      BY <1>3, <2>2, <2>3 DEF At, File_
  <1>9. TmpHeals'
    <2> SUFFICES ASSUME NEW f \in File, saved'[f].tmp = "torn", f \notin cut
                 PROVE  (\/ \E q \in Request : At(q, "write") /\ File_(q) = f /\ job[q].fd = "tmp"
                         \/ \A q \in Request : job[q].pc \in {"write", "replace"} => File_(q) # f)'
      BY DEF TmpHeals, WriteTmp
    <2>1. saved[f].tmp = "torn" /\ (f = File_(r) => job[r].fd # "tmp")
      BY <1>4, <1>5
    <2>2. CASE \E q \in Request : At(q, "write") /\ File_(q) = f /\ job[q].fd = "tmp"
      <3>1. PICK q \in Request : At(q, "write") /\ File_(q) = f /\ job[q].fd = "tmp"
        BY <2>2
      <3>2. q # r
        BY <2>1, <3>1
      <3> QED
        BY <1>3, <3>1, <3>2 DEF At, File_
    <2>3. CASE \A q \in Request : job[q].pc \in {"write", "replace"} => File_(q) # f
      BY <1>1, <1>2, <1>3, <2>3 DEF File_
    <2> QED
      BY <2>1, <2>2, <2>3 DEF DownloadsOK, TmpHeals
  <1> QED
    BY <1>7, <1>8, <1>9 DEF DownloadsOK

(* os.replace may move a truncated file into place, but then somebody has  *)
(* it open and will write it there.                                        *)
LEMMA ReplaceHeals ==
  ASSUME TypeOK, DownloadsOK, NEW r \in Request, Replace(r)
  PROVE  DownloadsOK'
  <1>1. job[r] \in Job /\ job[r].pc = "replace" /\ File_(r) \in File
    BY ReplaceJobs
  <1>2. job'[r].pc = "hand" /\ job'[r].file = File_(r)
    <2>1. job'[r] = [job[r] EXCEPT !.pc = "hand"]
      BY ReplaceJobs
    <2> QED
      BY <1>1, <2>1 DEF File_, Job, UploadJob, DownloadJob
  <1>3. ASSUME NEW q \in Request \ {r}
        PROVE  /\ job'[q].pc = job[q].pc
               /\ job[q] \in Job => job'[q].file = job[q].file
               /\ job[q] \in Job /\ job[q].file # File_(r) => job'[q] = job[q]
               /\ job[q] \in Job /\ job[q].file = File_(r) /\ job[q].fd = "tmp" => job'[q].fd = "final"
    <2>1. job'[q] = Shifted(File_(r), "final")[q]
      BY ReplaceJobs
    <2> QED
      BY <1>1, <2>1, ShiftedJob DEF Shift
  <1>4. /\ saved'[File_(r)].tmp = "absent"
        /\ saved'[File_(r)].final = saved[File_(r)].tmp
        /\ \A f \in File \ {File_(r)} : saved'[f] = saved[f]
    <2>1. saved' = [saved EXCEPT ![File_(r)] = [tmp |-> "absent", final |-> saved[File_(r)].tmp]]
      BY ReplaceJobs
    <2> QED
      BY <1>1, <2>1 DEF TypeOK
  <1>5. saved[File_(r)].tmp # "absent" /\ cut' = cut
    BY DEF Replace, ReplaceFrom
  <1>6. \A q \in Request : job[q].pc \in SavingPc => job[q] \in Job /\ job[q].file \in File
    BY JobOf, JobFields DEF UploadPc, SavingPc
  <1>7. DownloadIsThere'
    BY <1>1, <1>2, <1>3, <1>4, <1>5, <1>6 DEF DownloadsOK, DownloadIsThere, At, File_, SavingPc
  <1>8. TearsHeal'
    <2> SUFFICES ASSUME NEW f \in File, saved'[f].final = "torn", f \notin cut
                 PROVE  (\E q \in Request : At(q, "write") /\ File_(q) = f /\ job[q].fd = "final")'
      BY <1>5 DEF TearsHeal
    <2>1. CASE f = File_(r)
      <3>1. saved[f].tmp = "torn"
        BY <1>4, <2>1
      <3>2. PICK q \in Request : At(q, "write") /\ File_(q) = f /\ job[q].fd = "tmp"
        BY <1>1, <2>1, <3>1 DEF DownloadsOK, TmpHeals
      <3>3. q # r /\ job[q] \in Job
        BY <1>1, <1>6, <3>2 DEF At, SavingPc
      <3>4. job'[q].pc = "write" /\ job'[q].file = f /\ job'[q].fd = "final"
        BY <1>3, <2>1, <3>2, <3>3 DEF At, File_
      <3> QED
        BY <3>4 DEF At, File_
    <2>2. CASE f # File_(r)
      <3>1. PICK q \in Request : At(q, "write") /\ File_(q) = f /\ job[q].fd = "final"
        BY <1>4, <2>2 DEF DownloadsOK, TearsHeal
      <3>2. q # r /\ job[q] \in Job /\ job'[q] = job[q]
        BY <1>1, <1>3, <1>6, <2>2, <3>1 DEF At, SavingPc, File_
      <3> QED
        BY <3>1, <3>2 DEF At, File_
    <2> QED
      BY <2>1, <2>2
  <1>9. TmpHeals'
    <2> SUFFICES ASSUME NEW f \in File, saved'[f].tmp = "torn", f \notin cut
                 PROVE  (\/ \E q \in Request : At(q, "write") /\ File_(q) = f /\ job[q].fd = "tmp"
                         \/ \A q \in Request : job[q].pc \in {"write", "replace"} => File_(q) # f)'
      BY <1>5 DEF TmpHeals
    <2>1. f # File_(r) /\ saved[f].tmp = "torn"
      BY <1>4
    <2>2. CASE \E q \in Request : At(q, "write") /\ File_(q) = f /\ job[q].fd = "tmp"
      <3>1. PICK q \in Request : At(q, "write") /\ File_(q) = f /\ job[q].fd = "tmp"
        BY <2>2
      <3>2. q # r /\ job'[q] = job[q]
        BY <1>1, <1>3, <1>6, <2>1, <3>1 DEF At, SavingPc, File_
      <3> QED
        BY <3>1, <3>2 DEF At, File_
    <2>3. CASE \A q \in Request : job[q].pc \in {"write", "replace"} => File_(q) # f
      <3>1. ASSUME NEW q \in Request, job'[q].pc \in {"write", "replace"} PROVE job'[q].file # f
        BY <1>2, <1>3, <1>6, <2>3, <3>1 DEF SavingPc, File_
      <3> QED
        BY <3>1 DEF File_
    <2> QED
      BY <2>1, <2>2, <2>3 DEF DownloadsOK, TmpHeals
  <1> QED
    BY <1>7, <1>8, <1>9 DEF DownloadsOK

(* A failed write takes the .tmp of its file with it. *)
LEMMA WriteFailsHeals ==
  ASSUME TypeOK, DownloadsOK, NEW r \in Request, WriteFails(r)
  PROVE  DownloadsOK'
  <1>1. File_(r) \in File /\ job'[r] = Idle
    BY FailJobs
  <1>2. ASSUME NEW q \in Request \ {r}
        PROVE  /\ job'[q].pc = job[q].pc
               /\ job[q] \in Job => job'[q].file = job[q].file
               /\ job[q] \in Job /\ job[q].file # File_(r) => job'[q] = job[q]
               /\ job[q] \in Job /\ job[q].fd = "final" => job'[q].fd = "final"
    <2>1. job'[q] = Shifted(File_(r), "gone")[q]
      BY FailJobs
    <2> QED
      BY <1>1, <2>1, ShiftedJob DEF Shift
  <1>3. /\ saved'[File_(r)].tmp = "absent"
        /\ \A f \in File : saved'[f].final = saved[f].final
        /\ \A f \in File \ {File_(r)} : saved'[f] = saved[f]
    <2>1. saved' = [saved EXCEPT ![File_(r)] = [tmp |-> "absent", final |-> saved[File_(r)].final]]
      BY FailJobs
    <2> QED
      BY <1>1, <2>1 DEF TypeOK
  <1>4. cut \subseteq cut' /\ (job[r].fd = "final" => File_(r) \in cut')
    BY DEF WriteFails, FailUnlinking
  <1>5. \A q \in Request : job[q].pc \in SavingPc => job[q] \in Job /\ job[q].file \in File
    BY JobOf, JobFields DEF UploadPc, SavingPc
  <1>6. DownloadIsThere'
    BY <1>1, <1>2, <1>3, <1>5 DEF DownloadsOK, DownloadIsThere, At, File_, SavingPc, Idle
  <1>7. TearsHeal'
    <2> SUFFICES ASSUME NEW f \in File, saved'[f].final = "torn", f \notin cut'
                 PROVE  (\E q \in Request : At(q, "write") /\ File_(q) = f /\ job[q].fd = "final")'
      BY DEF TearsHeal
    <2>1. PICK q \in Request : At(q, "write") /\ File_(q) = f /\ job[q].fd = "final"
      BY <1>3, <1>4 DEF DownloadsOK, TearsHeal
    <2>2. q # r /\ job[q] \in Job
      BY <1>4, <1>5, <2>1 DEF At, SavingPc
    <2> QED
      BY <1>2, <2>1, <2>2 DEF At, File_
  <1>8. TmpHeals'
    <2> SUFFICES ASSUME NEW f \in File, saved'[f].tmp = "torn", f \notin cut'
                 PROVE  (\/ \E q \in Request : At(q, "write") /\ File_(q) = f /\ job[q].fd = "tmp"
                         \/ \A q \in Request : job[q].pc \in {"write", "replace"} => File_(q) # f)'
      BY DEF TmpHeals
    <2>1. f # File_(r) /\ saved[f].tmp = "torn" /\ f \notin cut
      BY <1>3, <1>4
    <2>2. CASE \E q \in Request : At(q, "write") /\ File_(q) = f /\ job[q].fd = "tmp"
      <3>1. PICK q \in Request : At(q, "write") /\ File_(q) = f /\ job[q].fd = "tmp"
        BY <2>2
      <3>2. q # r /\ job'[q] = job[q]
        BY <1>2, <1>5, <2>1, <3>1 DEF At, SavingPc, File_
      <3> QED
        BY <3>1, <3>2 DEF At, File_
    <2>3. CASE \A q \in Request : job[q].pc \in {"write", "replace"} => File_(q) # f
      <3>1. ASSUME NEW q \in Request, job'[q].pc \in {"write", "replace"} PROVE job'[q].file # f
        BY <1>1, <1>2, <1>5, <2>3, <3>1 DEF SavingPc, File_, Idle
      <3> QED
        BY <3>1 DEF File_
    <2> QED
      BY <2>1, <2>2, <2>3 DEF DownloadsOK, TmpHeals
  <1> QED
    BY <1>6, <1>7, <1>8 DEF DownloadsOK

(* A command that is cut off beside another one is what cut records; alone *)
(* it leaves a .tmp that nobody is about to move.                          *)
LEMMA EndHeals ==
  ASSUME TypeOK, DownloadsOK, NEW r \in Request, HandOver(r) \/ Stop(r)
  PROVE  DownloadsOK'
  <1>1. job'[r] = Idle /\ \A q \in Request \ {r} : job'[q] = job[q]
    BY DEF HandOver, Stop, Done, TypeOK
  <1>2. saved' = saved /\ cut \subseteq cut'
    BY DEF HandOver, Stop
  <1>3. At(r, "write") /\ Beside(r) => File_(r) \in cut'
    BY DEF HandOver, Stop, At
  <1>4. DownloadIsThere'
    BY <1>1, <1>2 DEF DownloadsOK, DownloadIsThere, At, File_, Idle
  <1>5. TearsHeal'
    <2> SUFFICES ASSUME NEW f \in File, saved[f].final = "torn", f \notin cut'
                 PROVE  (\E q \in Request : At(q, "write") /\ File_(q) = f /\ job[q].fd = "final")'
      BY <1>2 DEF TearsHeal
    <2>1. PICK q \in Request : At(q, "write") /\ File_(q) = f /\ job[q].fd = "final"
      BY <1>2 DEF DownloadsOK, TearsHeal
    <2>2. q # r
      BY <1>3, <2>1 DEF Beside
    <2> QED
      BY <1>1, <2>1, <2>2 DEF At, File_
  <1>6. TmpHeals'
    <2> SUFFICES ASSUME NEW f \in File, saved[f].tmp = "torn", f \notin cut'
                 PROVE  (\/ \E q \in Request : At(q, "write") /\ File_(q) = f /\ job[q].fd = "tmp"
                         \/ \A q \in Request : job[q].pc \in {"write", "replace"} => File_(q) # f)'
      BY <1>2 DEF TmpHeals
    <2>1. CASE \E q \in Request \ {r} : At(q, "write") /\ File_(q) = f /\ job[q].fd = "tmp"
      BY <1>1, <2>1 DEF At, File_
    <2>2. CASE At(r, "write") /\ File_(r) = f
      <3>1. \A q \in Request \ {r} : job[q].pc \in {"write", "replace"} => File_(q) # f
        BY <1>3, <2>2 DEF Beside
      <3> QED
        BY <1>1, <3>1 DEF File_, Idle
    <2>3. CASE \A q \in Request : job[q].pc \in {"write", "replace"} => File_(q) # f
      BY <1>1, <2>3 DEF File_, Idle
    <2> QED
      BY <1>2, <2>1, <2>2, <2>3 DEF DownloadsOK, TmpHeals
  <1> QED
    BY <1>4, <1>5, <1>6 DEF DownloadsOK

LEMMA OthersHeal ==
  ASSUME TypeOK, DownloadsOK, Restart \/ (\E f \in File : Revoke(f)) \/ UNCHANGED vars
  PROVE  DownloadsOK'
  <1>1. CASE Restart
    <2>1. ASSUME NEW q \in Request, job[q].pc \in SavingPc \/ job'[q].pc \in SavingPc
          PROVE  job'[q].pc = job[q].pc /\ job'[q].file = job[q].file /\ job'[q].fd = job[q].fd
      <3>1. job'[q] = IF ~ Running(q) \/ At(q, "save") THEN Idle ELSE [job[q] EXCEPT !.attended = FALSE]
        BY <1>1 DEF Restart
      <3>2. CASE ~ Running(q) \/ At(q, "save")
        BY <2>1, <3>1, <3>2 DEF Running, At, Idle, SavingPc
      <3>3. CASE Running(q) /\ ~ At(q, "save")
        <4>1. job[q] \in Job
          BY <3>3 DEF Running, TypeOK
        <4> QED
          BY <3>1, <3>3, <4>1 DEF Job, UploadJob, DownloadJob
      <3> QED
        BY <3>2, <3>3
    <2> QED
      BY <1>1, <2>1, SavingKept DEF Restart
  <1>2. CASE (\E f \in File : Revoke(f)) \/ UNCHANGED vars
    BY <1>2, SavingKept DEF Revoke, vars
  <1> QED
    BY <1>1, <1>2

LEMMA DownloadsStep ==
  ASSUME TypeOK, DownloadsOK, [Next]_vars
  PROVE  DownloadsOK'
  BY QuietDownloads, OpenTmpHeals, WriteTmpHeals, ReplaceHeals, WriteFailsHeals, EndHeals, OthersHeal
     DEF Next, DownloadStep

----------------------------------------------------------------------------
(* The upload directory and the name table *)

(* Steps that leave the directory alone and take no upload further. *)
LEMMA UploadsKept ==
  ASSUME UploadsOK, UNCHANGED <<uploads, content, meant, alone>>,
         names' = names \/ names' = [f \in File |-> None],
         \A f \in File : state'[f] = "absent" <=> state[f] = "absent",
         \A q \in Request : job'[q].pc \in UploadPc =>
           /\ job'[q].pc = job[q].pc /\ job'[q].original = job[q].original
           /\ job'[q].alone = job[q].alone /\ job'[q].file = job[q].file,
         \A q \in Request : job[q].pc \in {"send", "remember"} => job[q].file \in File
  PROVE  UploadsOK'
  <1>1. SaveThere'
    BY DEF UploadsOK, SaveThere, UploadPc, path
  <1>2. AloneKept'
    BY DEF UploadsOK, AloneKept, UploadPc, path, At
  <1>3. FileDrawn'
    BY DEF UploadsOK, FileDrawn, UploadPc, At, File_
  <1>4. NotDrawn'
    BY DEF UploadsOK, NotDrawn
  <1>5. OriginalsArrive'
    BY DEF UploadsOK, OriginalsArrive
  <1> QED
    BY <1>1, <1>2, <1>3, <1>4, <1>5 DEF UploadsOK

LEMMA DrawnFiles ==
  ASSUME TypeOK, NEW q \in Request, job[q].pc \in {"send", "remember"}
  PROVE  job[q].file \in File
  BY JobOf, JobFields DEF UploadPc

LEMMA QuietUploads ==
  ASSUME TypeOK, UploadsOK, NEW r \in Request, DownloadStep(r) \/ Stop(r)
  PROVE  UploadsOK'
  <1>1. UNCHANGED <<uploads, names, content, meant, alone>>
    BY DEF DownloadStep, StartDownload, Ask, Receive, SendAck, OpenTmp, WriteTmp, Replace, ReplaceFrom,
           WriteFails, FailUnlinking, HandOver, Stop
  <1>2. \A f \in File : state'[f] = "absent" <=> state[f] = "absent"
    <2>1. CASE SendAck(r)
      BY <2>1 DEF SendAck, Drop!Close, server
    <2>2. CASE (DownloadStep(r) /\ ~ SendAck(r)) \/ Stop(r)
      BY <2>2 DEF DownloadStep, StartDownload, Ask, Receive, OpenTmp, WriteTmp, Replace, ReplaceFrom,
                  WriteFails, FailUnlinking, HandOver, Stop, Drop!Grant, Drop!Deliver, Drop!GiveUp, server
    <2> QED
      BY <2>1, <2>2
  <1>3. ASSUME NEW q \in Request, job'[q].pc \in UploadPc
        PROVE  /\ job'[q].pc = job[q].pc /\ job'[q].original = job[q].original
               /\ job'[q].alone = job[q].alone /\ job'[q].file = job[q].file
    <2>1. CASE Replace(r)
      <3>1. q # r
        <4>1. job'[r].pc = "hand"
          BY <2>1, ReplaceJobs DEF Job, UploadJob, DownloadJob
        <4> QED
          BY <1>3, <4>1 DEF UploadPc
      <3>2. job'[q] = Shifted(File_(r), "final")[q] /\ File_(r) \in File
        BY <2>1, <3>1, ReplaceJobs
      <3> QED
        BY <1>3, <3>2, ShiftedJob DEF UploadPc
    <2>2. CASE WriteFails(r)
      <3>1. q # r
        BY <1>3, <2>2, FailJobs DEF UploadPc, Idle
      <3>2. job'[q] = Shifted(File_(r), "gone")[q] /\ File_(r) \in File
        BY <2>2, <3>1, FailJobs
      <3> QED
        BY <1>3, <3>2, ShiftedJob DEF UploadPc
    <2>3. CASE HandOver(r) \/ Stop(r) \/ \E f \in File : StartDownload(r, f)
      BY <1>3, <2>3 DEF HandOver, Stop, Done, StartDownload, UploadPc, Idle, TypeOK
    <2>4. CASE Ask(r) \/ Receive(r) \/ SendAck(r)
      <3>1. job[r] \in Job
        BY <2>4, JobOf DEF Ask, Receive, SendAck, At
      <3>2. PICK pc \in {"receive", "ack", "open"} : job' = [job EXCEPT ![r].pc = pc]
        BY <2>4 DEF Ask, Receive, SendAck, GoTo
      <3>3. job'[r].pc = pc
        BY <3>1, <3>2 DEF TypeOK, Job, UploadJob, DownloadJob
      <3> QED
        BY <1>3, <3>2, <3>3 DEF UploadPc, TypeOK
    <2>5. CASE OpenTmp(r) \/ WriteTmp(r)
      <3>1. job[r] \in Job
        BY <2>5, JobOf DEF OpenTmp, WriteTmp, At
      <3>2. job'[r].pc \in {"write", "replace"} /\ \A p \in Request \ {r} : job'[p] = job[p]
        BY <2>5, <3>1 DEF OpenTmp, WriteTmp, TypeOK, Job, UploadJob, DownloadJob
      <3> QED
        BY <1>3, <3>2 DEF UploadPc
    <2> QED
      BY <2>1, <2>2, <2>3, <2>4, <2>5 DEF DownloadStep
  <1> QED
    BY <1>1, <1>2, <1>3, DrawnFiles, UploadsKept

LEMMA OthersKeepUploads ==
  ASSUME TypeOK, UploadsOK, Restart \/ (\E f \in File : Revoke(f)) \/ UNCHANGED vars
  PROVE  UploadsOK'
  <1>1. CASE Restart
    <2>1. ASSUME NEW q \in Request, job'[q].pc \in UploadPc
          PROVE  /\ job'[q].pc = job[q].pc /\ job'[q].original = job[q].original
                 /\ job'[q].alone = job[q].alone /\ job'[q].file = job[q].file
      <3>1. job'[q] = IF ~ Running(q) \/ At(q, "save") THEN Idle ELSE [job[q] EXCEPT !.attended = FALSE]
        BY <1>1 DEF Restart
      <3>2. Running(q) /\ ~ At(q, "save")
        BY <2>1, <3>1 DEF Idle, UploadPc
      <3>3. job[q] \in Job
        BY <3>2 DEF Running, TypeOK
      <3> QED
        BY <3>1, <3>2, <3>3 DEF Job, UploadJob, DownloadJob
    <2>2. /\ UNCHANGED <<uploads, content, meant, alone>>
          /\ names' = [f \in File |-> None]
          /\ \A f \in File : state'[f] = "absent" <=> state[f] = "absent"
      BY <1>1 DEF Restart, server
    <2> QED
      BY <2>1, <2>2, DrawnFiles, UploadsKept
  <1>2. CASE (\E f \in File : Revoke(f)) \/ UNCHANGED vars
    <2>1. /\ UNCHANGED <<uploads, names, content, meant, alone, job>>
          /\ \A f \in File : state'[f] = "absent" <=> state[f] = "absent"
      BY <1>2 DEF Revoke, Drop!Close, vars, server
    <2> QED
      BY <2>1, DrawnFiles, UploadsKept
  <1> QED
    BY <1>1, <1>2

(* A new upload truncates the file of its name: uploads of that name which *)
(* have not been read are not alone any more.                              *)
LEMMA StartUploadKeeps ==
  ASSUME TypeOK, UploadsOK, NEW r \in Request, NEW o \in Original, StartUpload(r, o)
  PROVE  UploadsOK'
  <1>1. /\ job'[r].pc = "save" /\ job'[r].original = o
        /\ job'[r].alone = \A p \in Request : SameName(p, o) => At(p, "read")
    BY DEF StartUpload
  <1>2. ASSUME NEW q \in Request \ {r}
        PROVE  /\ job'[q].pc = job[q].pc
               /\ job[q] \in Job => job'[q].original = job[q].original /\ job'[q].file = job[q].file
               /\ ~ SameName(q, o) => job'[q] = job[q]
               /\ SameName(q, o) => ~ job'[q].alone
    <2>1. CASE SameName(q, o)
      <3>1. job[q] \in Job
        BY <2>1 DEF SameName, Uploads, Running, TypeOK
      <3>2. job'[q] = [job[q] EXCEPT !.alone = FALSE]
        BY <2>1 DEF StartUpload
      <3> QED
        BY <2>1, <3>1, <3>2 DEF Job, UploadJob, DownloadJob
    <2>2. CASE ~ SameName(q, o)
      BY <2>2 DEF StartUpload
    <2> QED
      BY <2>1, <2>2
  <1>3. UNCHANGED <<state, names, content, meant, alone>>
    BY DEF StartUpload, server
  <1>4. /\ NameOf[o] \in Name /\ uploads'[NameOf[o]] = "torn"
        /\ \A n \in Name \ {NameOf[o]} : uploads'[n] = uploads[n]
    BY WebUiConstants DEF StartUpload, TypeOK
  <1>5. ASSUME NEW q \in Request, job[q].pc \in UploadPc
        PROVE  job[q] \in Job /\ path(q) \in Name /\ Uploads(q)
    BY <1>5, JobOf, JobFields, UploadsByPc, WebUiConstants DEF UploadPc, path
  <1>6. ASSUME NEW q \in Request \ {r}, job[q].pc \in {"save", "read"}, ~ SameName(q, o)
        PROVE  path(q) # NameOf[o]
    BY <1>5, <1>6 DEF SameName, UploadPc
  <1>7. SaveThere'
    BY <1>1, <1>2, <1>4, <1>5 DEF UploadsOK, SaveThere, path, UploadPc
  <1>8. AloneKept'
    <2> SUFFICES ASSUME NEW q \in Request, job'[q].pc \in {"save", "read"}, job'[q].alone
                 PROVE  (/\ uploads[path(q)] = (IF At(q, "save") THEN "torn" ELSE job[q].original)
                         /\ \A p \in Request \ {q} : At(p, "save") => path(p) # path(q))'
      BY DEF AloneKept
    <2>1. CASE q = r
      <3>1. uploads'[path(q)'] = "torn"
        BY <1>1, <1>4, <2>1 DEF path
      <3>2. ASSUME NEW p \in Request \ {r}, job'[p].pc = "save" PROVE NameOf[job'[p].original] # NameOf[o]
        <4>1. job[p].pc = "save" /\ job[p] \in Job /\ Uploads(p)
          BY <1>2, <1>5, <3>2 DEF UploadPc
        <4>2. job'[p].original = job[p].original
          BY <1>2, <4>1
        <4>3. \A p1 \in Request : SameName(p1, o) => At(p1, "read")
          BY <1>1, <2>1
        <4>4. ~ SameName(p, o)
          BY <4>1, <4>3 DEF At
        <4> QED
          BY <4>1, <4>2, <4>4 DEF SameName, path
      <3> QED
        BY <1>1, <2>1, <3>1, <3>2 DEF At, path
    <2>2. CASE q # r
      <3>1. job'[q] = job[q] /\ ~ SameName(q, o)
        BY <1>2, <2>2
      <3>2. path(q) # NameOf[o] /\ path(q) \in Name
        BY <1>5, <1>6, <2>2, <3>1 DEF UploadPc
      <3>3. uploads[path(q)] = (IF At(q, "save") THEN "torn" ELSE job[q].original)
        BY <3>1 DEF UploadsOK, AloneKept
      <3>4. ASSUME NEW p \in Request \ {q}, job'[p].pc = "save" PROVE NameOf[job'[p].original] # path(q)
        <4>1. CASE p = r
          BY <1>1, <3>2, <4>1
        <4>2. CASE p # r
          <5>1. job[p].pc = "save" /\ job[p] \in Job
            BY <1>2, <1>5, <3>4, <4>2 DEF UploadPc
          <5>2. job'[p].original = job[p].original
            BY <1>2, <4>2, <5>1
          <5>3. path(p) # path(q)
            BY <3>1, <5>1 DEF UploadsOK, AloneKept, At
          <5> QED
            BY <5>2, <5>3 DEF path
        <4> QED
          BY <4>1, <4>2
      <3> QED
        BY <1>4, <3>1, <3>2, <3>3, <3>4 DEF At, path
    <2> QED
      BY <2>1, <2>2
  <1>9. FileDrawn'
    <2>1. ASSUME NEW q \in Request, job'[q].pc \in {"send", "remember"}
          PROVE  /\ content[job'[q].file] # None
                 /\ meant[job'[q].file] = job'[q].original
                 /\ job'[q].pc = "remember" => state[job'[q].file] # "absent"
      <3>1. q # r
        BY <1>1, <2>1
      <3>2. job[q].pc \in {"send", "remember"} /\ job'[q].pc = job[q].pc
        BY <1>2, <2>1, <3>1
      <3>3. job'[q].file = job[q].file /\ job'[q].original = job[q].original
        BY <1>2, <1>5, <3>1, <3>2 DEF UploadPc
      <3> QED
        BY <3>2, <3>3 DEF UploadsOK, FileDrawn, File_, At
    <2> QED
      BY <1>3, <2>1 DEF FileDrawn, File_, At
  <1>10. NotDrawn' /\ OriginalsArrive'
    BY <1>3 DEF UploadsOK, NotDrawn, OriginalsArrive
  <1> QED
    BY <1>7, <1>8, <1>9, <1>10 DEF UploadsOK

(* The save of an upload that is alone leaves its own original.            *)
LEMMA SaveUploadKeeps ==
  ASSUME TypeOK, UploadsOK, NEW r \in Request, SaveUpload(r)
  PROVE  UploadsOK'
  <1>1. job[r] \in Job /\ job[r].pc = "save" /\ job[r].original \in Original /\ path(r) \in Name
    BY JobOf, JobFields, WebUiConstants DEF SaveUpload, At, UploadPc, path
  <1>2. job'[r].pc = "read" /\ job'[r].original = job[r].original /\ job'[r].alone = job[r].alone
    BY <1>1 DEF SaveUpload, GoTo, TypeOK, Job, UploadJob, DownloadJob
  <1>3. \A q \in Request \ {r} : job'[q] = job[q]
    BY DEF SaveUpload, GoTo, TypeOK
  <1>4. PICK c \in {job[r].original} \union (IF MayMix(r) THEN {"mixed"} ELSE {}) :
          uploads' = [uploads EXCEPT ![path(r)] = c]
    BY DEF SaveUpload
  <1>5. c # "absent"
    BY <1>1, <1>4, WebUiConstants
  <1>6. uploads'[path(r)] = c /\ \A n \in Name \ {path(r)} : uploads'[n] = uploads[n]
    BY <1>1, <1>4 DEF TypeOK
  <1>7. ASSUME NEW q \in Request, job[q].pc \in UploadPc
        PROVE  path(q) \in Name
    BY <1>7, JobOf, JobFields, WebUiConstants DEF UploadPc, path
  <1>8. UNCHANGED <<state, names, content, meant, alone>>
    BY DEF SaveUpload, server
  <1>9. SaveThere'
    BY <1>1, <1>2, <1>3, <1>5, <1>6, <1>7 DEF UploadsOK, SaveThere, path, UploadPc
  <1>10. AloneKept'
    <2> SUFFICES ASSUME NEW q \in Request, job'[q].pc \in {"save", "read"}, job'[q].alone
                 PROVE  (/\ uploads[path(q)] = (IF At(q, "save") THEN "torn" ELSE job[q].original)
                         /\ \A p \in Request \ {q} : At(p, "save") => path(p) # path(q))'
      BY DEF AloneKept
    <2>1. job[q].pc \in {"save", "read"} /\ job[q].alone
      BY <1>1, <1>2, <1>3
    <2>2. /\ uploads[path(q)] = (IF At(q, "save") THEN "torn" ELSE job[q].original)
          /\ \A p \in Request \ {q} : At(p, "save") => path(p) # path(q)
      BY <2>1 DEF UploadsOK, AloneKept
    <2>3. \A p \in Request \ {q} : job'[p].pc = "save" => NameOf[job'[p].original] # NameOf[job'[q].original]
      BY <1>2, <1>3, <2>2 DEF At, path
    <2>4. CASE q = r
      <3>1. ~ MayMix(r)
        BY <1>1, <2>2, <2>4 DEF MayMix, At
      <3>2. c = job[r].original
        BY <1>4, <3>1
      <3> QED
        BY <1>2, <1>6, <2>3, <2>4, <3>2 DEF At, path
    <2>5. CASE q # r
      <3>1. path(q) # path(r) /\ path(q) \in Name
        BY <1>1, <1>7, <2>1, <2>2, <2>5 DEF At, UploadPc
      <3> QED
        BY <1>3, <1>6, <2>2, <2>3, <2>5, <3>1 DEF At, path
    <2> QED
      BY <2>4, <2>5
  <1>11. FileDrawn'
    BY <1>2, <1>3, <1>8 DEF UploadsOK, FileDrawn, File_, At
  <1>12. NotDrawn' /\ OriginalsArrive'
    BY <1>8 DEF UploadsOK, NotDrawn, OriginalsArrive
  <1> QED
    BY <1>9, <1>10, <1>11, <1>12 DEF UploadsOK

(* The read: the file gets the original its user had chosen. *)
LEMMA ReadUploadKeeps ==
  ASSUME TypeOK, UploadsOK, NEW r \in Request, ReadUpload(r)
  PROVE  UploadsOK'
  <1>1. PICK f \in File :
          /\ content[f] = None
          /\ content' = [content EXCEPT ![f] = uploads[path(r)]]
          /\ meant' = [meant EXCEPT ![f] = job[r].original]
          /\ alone' = IF job[r].alone THEN alone \union {f} ELSE alone
          /\ job' = [job EXCEPT ![r].pc = "send", ![r].file = f]
    BY DEF ReadUpload, ReadFrom
  <1>2. job[r] \in Job /\ job[r].pc = "read" /\ job[r].original \in Original /\ path(r) \in Name
    BY JobOf, JobFields, WebUiConstants DEF ReadUpload, ReadFrom, UploadPc, path
  <1>3. job'[r].pc = "send" /\ job'[r].file = f /\ job'[r].original = job[r].original
    BY <1>1, <1>2 DEF TypeOK, Job, UploadJob, DownloadJob
  <1>4. \A q \in Request \ {r} : job'[q] = job[q]
    BY <1>1 DEF TypeOK
  <1>5. UNCHANGED <<state, uploads, names>>
    BY DEF ReadUpload, ReadFrom, server
  <1>6. /\ content'[f] = uploads[path(r)] /\ meant'[f] = job[r].original
        /\ \A g \in File \ {f} : content'[g] = content[g] /\ meant'[g] = meant[g]
    BY <1>1 DEF TypeOK
  <1>7. state[f] = "absent" /\ f \notin alone /\ names[f] = None
    BY <1>1 DEF UploadsOK, NotDrawn, OriginalsArrive
  <1>8. uploads[path(r)] # None
    <2>1. uploads[path(r)] # "absent"
      BY <1>2 DEF UploadsOK, SaveThere
    <2> QED
      BY <1>2, <2>1, WebUiConstants DEF TypeOK, Damaged
  <1>9. job[r].alone => uploads[path(r)] = job[r].original
    BY <1>2 DEF UploadsOK, AloneKept, At
  <1>10. SaveThere' /\ AloneKept'
    BY <1>3, <1>4, <1>5 DEF UploadsOK, SaveThere, AloneKept, path, At
  <1>11. FileDrawn'
    <2>1. ASSUME NEW q \in Request \ {r}, job[q].pc \in {"send", "remember"}
          PROVE  job[q].file \in File /\ job[q].file # f
      BY <1>1, <2>1, DrawnFiles DEF UploadsOK, FileDrawn, File_
    <2> QED
      BY <1>3, <1>4, <1>5, <1>6, <1>8, <2>1 DEF UploadsOK, FileDrawn, File_, At
  <1>12. NotDrawn'
    BY <1>1, <1>5, <1>6, <1>8 DEF UploadsOK, NotDrawn
  <1>13. OriginalsArrive'
    BY <1>1, <1>5, <1>6, <1>7, <1>9 DEF UploadsOK, OriginalsArrive
  <1> QED
    BY <1>10, <1>11, <1>12, <1>13 DEF UploadsOK

LEMMA SendUploadKeeps ==
  ASSUME TypeOK, UploadsOK, NEW r \in Request, SendUpload(r)
  PROVE  UploadsOK'
  <1>1. job[r] \in Job /\ job[r].pc = "send" /\ File_(r) \in File
    BY JobOf, JobFields DEF SendUpload, At, UploadPc, File_
  <1>2. job'[r].pc = "remember" /\ job'[r].file = job[r].file /\ job'[r].original = job[r].original
    BY <1>1 DEF SendUpload, GoTo, TypeOK, Job, UploadJob, DownloadJob
  <1>3. \A q \in Request \ {r} : job'[q] = job[q]
    BY DEF SendUpload, GoTo, TypeOK
  <1>4. state'[File_(r)] = "open" /\ \A f \in File \ {File_(r)} : state'[f] = state[f]
    BY <1>1 DEF SendUpload, Drop!Publish, TypeOK
  <1>5. UNCHANGED <<uploads, names, content, meant, alone>>
    BY DEF SendUpload
  <1>6. SaveThere' /\ AloneKept'
    BY <1>2, <1>3, <1>5 DEF UploadsOK, SaveThere, AloneKept, path, At
  <1>7. FileDrawn'
    <2>1. \A q \in Request : job[q].pc \in {"send", "remember"} => job[q].file \in File
      BY DrawnFiles
    <2> QED
      BY <1>1, <1>2, <1>3, <1>4, <1>5, <2>1 DEF UploadsOK, FileDrawn, File_, At
  <1>8. NotDrawn'
    BY <1>1, <1>4, <1>5 DEF UploadsOK, NotDrawn, FileDrawn
  <1>9. OriginalsArrive'
    BY <1>4, <1>5 DEF UploadsOK, OriginalsArrive
  <1> QED
    BY <1>6, <1>7, <1>8, <1>9 DEF UploadsOK

LEMMA RememberKeeps ==
  ASSUME TypeOK, UploadsOK, NEW r \in Request, Remember(r)
  PROVE  UploadsOK'
  <1>1. job[r].pc = "remember" /\ File_(r) \in File
    BY JobOf, JobFields DEF Remember, At, UploadPc, File_
  <1>2. job'[r] = Idle /\ \A q \in Request \ {r} : job'[q] = job[q]
    BY DEF Remember, Done, TypeOK
  <1>3. UNCHANGED <<state, uploads, content, meant, alone>>
    BY DEF Remember, server
  <1>4. \A f \in File : names'[f] = names[f] \/ (f = File_(r) /\ names'[f] = path(r))
    <2>1. names' = names \/ names' = [names EXCEPT ![File_(r)] = path(r)]
      BY DEF Remember
    <2> QED
      BY <1>1, <2>1 DEF TypeOK
  <1>5. SaveThere' /\ AloneKept'
    BY <1>2, <1>3 DEF UploadsOK, SaveThere, AloneKept, path, At, Idle
  <1>6. FileDrawn' /\ NotDrawn'
    BY <1>2, <1>3 DEF UploadsOK, FileDrawn, NotDrawn, File_, At, Idle
  <1>7. OriginalsArrive'
    <2>1. state[File_(r)] # "absent" /\ path(r) = NameOf[meant[File_(r)]]
      BY <1>1 DEF UploadsOK, FileDrawn, At, path
    <2> QED
      BY <1>3, <1>4, <2>1 DEF UploadsOK, OriginalsArrive
  <1> QED
    BY <1>5, <1>6, <1>7 DEF UploadsOK

LEMMA UploadsStep ==
  ASSUME TypeOK, UploadsOK, [Next]_vars
  PROVE  UploadsOK'
  BY StartUploadKeeps, SaveUploadKeeps, ReadUploadKeeps, SendUploadKeeps, RememberKeeps,
     QuietUploads, OthersKeepUploads DEF Next, UploadStep

----------------------------------------------------------------------------
LEMMA InvariantInit == ASSUME Init PROVE IInv
  <1>1. TypeOK
    BY TypeInit
  <1>2. DownloadsOK
    BY DEF Init, DownloadsOK, DownloadIsThere, TearsHeal, TmpHeals, At, Idle
  <1>3. UploadsOK
    BY DEF Init, Drop!Init, UploadsOK, SaveThere, AloneKept, FileDrawn, NotDrawn, OriginalsArrive, At, Idle
  <1> QED
    BY <1>1, <1>2, <1>3 DEF IInv

(* The inductive invariant holds throughout. *)
THEOREM WebUiInvariant == Spec => []IInv
  <1>1. Init => IInv
    BY InvariantInit
  <1>2. IInv /\ [Next]_vars => IInv'
    BY TypeStep, DownloadsStep, UploadsStep DEF IInv, UploadsOK
  <1> QED
    BY <1>1, <1>2, PTL DEF Spec

(* Requests, directories and the name table keep their types (app.py). *)
THEOREM WebUiTypes == Spec => []TypeOK
  BY WebUiInvariant, PTL DEF IInv

(* However many downloads of a file race, fail or clean up beside each     *)
(* other, one that ended well has left the file in its place: app.py never *)
(* gets to its line 279.                                                   *)
THEOREM DownloadsAreThere == Spec => []DownloadIsThere
  <1>1. IInv => DownloadIsThere
    BY DEF IInv, DownloadsOK
  <1> QED
    BY <1>1, WebUiInvariant, PTL

(* A truncated file that os.replace moved into place (download.py:67) is   *)
(* about to be written by whoever truncated it, unless that command was    *)
(* cut off beside another one.                                             *)
THEOREM RacingDownloadsHeal == Spec => []TearsHeal
  <1>1. IInv => TearsHeal
    BY DEF IInv, DownloadsOK
  <1> QED
    BY <1>1, WebUiInvariant, PTL

(* An upload which no other upload of its name disturbed stores what its   *)
(* user had chosen, under the name its user had chosen (app.py:250-261).   *)
THEOREM UndisturbedUploadsArrive == Spec => []OriginalsArrive
  <1>1. IInv => OriginalsArrive
    BY DEF IInv, UploadsOK
  <1> QED
    BY <1>1, WebUiInvariant, PTL
=============================================================================
