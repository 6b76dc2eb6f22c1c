-------------------------------- MODULE WebUi -------------------------------
(***************************************************************************)
(* The web page over the command line (webui/app.py) and the files that    *)
(* its requests and the commands they run share: the upload directory, the *)
(* name table UPLOAD_FILENAMES, and a recipient's downloads directory with *)
(* the two steps of _atomic_write (zerotrust/client/download.py).          *)
(*                                                                         *)
(* Each request is a thread of the Flask process that runs one command as  *)
(* a subprocess.  A command stops where it is when it fails, when its 30   *)
(* seconds are over, or when it is killed; when the Flask process dies its *)
(* threads end, and the commands they had started go on unattended.        *)
(* The server is what module FileDrop promises, a request its worker.      *)
(*                                                                         *)
(* File descriptors matter here: opening a path with "wb" truncates the    *)
(* file that is there, and os.replace moves a file under the hands of      *)
(* whoever has it open.                                                    *)
(***************************************************************************)
CONSTANTS
  Request,
  File,
  Original,            \* the files that users choose in their browsers
  Name,
  NameOf,              \* safe_name: the last part of an original's path
  None

ASSUME WebUiConstants ==
  /\ NameOf \in [Original -> Name]
  /\ Original \intersect {"absent", "torn", "mixed"} = {}
  /\ None \notin File \union Original \union Name \union {"torn", "mixed"}

VARIABLES
  state, granted, delivered,   \* of FileDrop
  job,         \* each request and its command
  uploads,     \* UPLOADS_DIR: what lies under each name
  names,       \* UPLOAD_FILENAMES
  content,     \* what each file id was encrypted from
  meant,       \* the original that the user of that upload had chosen (history)
  alone,       \* files that no other upload of that name overlapped (history)
  saved,       \* downloads/<file id>.tmp and downloads/<file id>
  cut          \* files of which a download was cut off beside another (history)

server == <<state, granted, delivered>>
vars == <<state, granted, delivered, job, uploads, names, content, meant, alone, saved, cut>>

Drop == INSTANCE FileDrop WITH Worker <- Request

(* Content that is nobody's file: the beginning of one, or pieces of two. *)
Damaged == {"torn", "mixed"}

Idle == [pc |-> "idle"]
Running(r) == job[r] # Idle
At(r, pc) == job[r].pc = pc
File_(r) == job[r].file
GoTo(r, pc) == job' = [job EXCEPT ![r].pc = pc]
Done(r) == job' = [job EXCEPT ![r] = Idle]

Init ==
  /\ Drop!Init
  /\ job = [r \in Request |-> Idle]
  /\ uploads = [n \in Name |-> "absent"]
  /\ names = [f \in File |-> None]
  /\ content = [f \in File |-> None]
  /\ meant = [f \in File |-> None]
  /\ alone = {}
  /\ saved = [f \in File |-> [tmp |-> "absent", final |-> "absent"]]
  /\ cut = {}

----------------------------------------------------------------------------
(* POST /upload *)

Uploads(r) == Running(r) /\ job[r].cmd = "upload"
path(r) == NameOf[job[r].original]

SameName(r, o) == Uploads(r) /\ job[r].pc \in {"save", "read"} /\ path(r) = NameOf[o]

(* The request is complete, and fp.save truncates the file of that name.   *)
(* It disturbs uploads of that name which have not been read yet, and is   *)
(* disturbed by those that are being saved.                                *)
StartUpload(r, o) ==
  /\ job[r] = Idle
  /\ job' = [q \in Request |->
       IF q = r THEN [pc |-> "save", cmd |-> "upload", original |-> o, file |-> None, fd |-> "none",
                      attended |-> TRUE, alone |-> \A p \in Request : SameName(p, o) => At(p, "read")]
       ELSE IF SameName(q, o) THEN [job[q] EXCEPT !.alone = FALSE]
       ELSE job[q]]
  /\ uploads' = [uploads EXCEPT ![NameOf[o]] = "torn"]
  /\ UNCHANGED <<server, names, content, meant, alone, saved, cut>>

(* Another request has the same file open, or has written it meanwhile: of *)
(* the longer of two files the end remains.                                *)
MayMix(r) ==
  \/ uploads[path(r)] \notin {"torn", job[r].original}
  \/ \E q \in Request :
       Uploads(q) /\ At(q, "save") /\ path(q) = path(r) /\ job[q].original # job[r].original

SaveUpload(r) ==
  /\ At(r, "save")
  /\ \E c \in {job[r].original} \union (IF MayMix(r) THEN {"mixed"} ELSE {}) :
       uploads' = [uploads EXCEPT ![path(r)] = c]
  /\ GoTo(r, "read")
  /\ UNCHANGED <<server, names, content, meant, alone, saved, cut>>

(* upload_file reads the path and draws a fresh file id (93-97). *)
ReadFrom(r, pcs) ==
  /\ job[r].pc \in pcs
  /\ Uploads(r)
  /\ \E f \in File :
       /\ content[f] = None
       /\ content' = [content EXCEPT ![f] = uploads[path(r)]]
       /\ meant' = [meant EXCEPT ![f] = job[r].original]
       /\ alone' = IF job[r].alone THEN alone \union {f} ELSE alone
       /\ job' = [job EXCEPT ![r].pc = "send", ![r].file = f]
  /\ UNCHANGED <<server, uploads, names, saved, cut>>

ReadEarly(r) == ReadFrom(r, {"save", "read"})   \* mutant: the command is started before the save is over
ReadUpload(r) == ReadFrom(r, {"read"})

SendUpload(r) ==
  /\ At(r, "send")
  /\ Drop!Publish(File_(r))
  /\ GoTo(r, "remember")
  /\ UNCHANGED <<uploads, names, content, meant, alone, saved, cut>>

(* The command exits with 0: its output has the file id. *)
Remember(r) ==
  /\ At(r, "remember")
  /\ names' = IF job[r].attended THEN [names EXCEPT ![File_(r)] = path(r)] ELSE names
  /\ Done(r)
  /\ UNCHANGED <<server, uploads, content, meant, alone, saved, cut>>

----------------------------------------------------------------------------
(* GET /download/<file_id>, by the recipient *)

StartDownload(r, f) ==
  /\ job[r] = Idle
  /\ job' = [job EXCEPT ![r] =
       [pc |-> "ask", cmd |-> "download", original |-> None, file |-> f,
        fd |-> "none", attended |-> TRUE, alone |-> TRUE]]
  /\ UNCHANGED <<server, uploads, names, content, meant, alone, saved, cut>>

Ask(r) ==
  /\ At(r, "ask")
  /\ Drop!Grant(r, File_(r))
  /\ GoTo(r, "receive")
  /\ UNCHANGED <<uploads, names, content, meant, alone, saved, cut>>

(* The response has come and its plaintext is verified. *)
Receive(r) ==
  /\ At(r, "receive")
  /\ Drop!Deliver(r)
  /\ GoTo(r, "ack")
  /\ UNCHANGED <<uploads, names, content, meant, alone, saved, cut>>

(* The acknowledgement closes the file, or is refused: both are accepted. *)
SendAck(r) ==
  /\ At(r, "ack")
  /\ Drop!Close({File_(r)}) \/ UNCHANGED server
  /\ GoTo(r, "open")
  /\ UNCHANGED <<uploads, names, content, meant, alone, saved, cut>>

(* tmp_path.open("wb"): a new file, or the one that is there, truncated. *)
OpenTmp(r) ==
  /\ At(r, "open")
  /\ saved' = [saved EXCEPT ![File_(r)].tmp = "torn"]
  /\ job' = [job EXCEPT ![r].pc = "write", ![r].fd = "tmp"]
  /\ UNCHANGED <<server, uploads, names, content, meant, alone, cut>>

(* The bytes go where the open file is by now. *)
Filled(r) == [which \in {"tmp", "final"} |-> IF which = job[r].fd THEN "whole" ELSE saved[File_(r)][which]]

WriteUnclosed(r) ==            \* mutant: without the with statement
  /\ At(r, "write")
  /\ saved' = [saved EXCEPT ![File_(r)] = Filled(r)]
  /\ GoTo(r, "replace")
  /\ UNCHANGED <<server, uploads, names, content, meant, alone, cut>>

WriteTmp(r) ==
  /\ At(r, "write")
  /\ saved' = [saved EXCEPT ![File_(r)] = Filled(r)]
  /\ job' = [job EXCEPT ![r].pc = "replace", ![r].fd = "none"]
  /\ UNCHANGED <<server, uploads, names, content, meant, alone, cut>>

(* What the open descriptors of a file refer to after its .tmp was renamed *)
(* or unlinked.                                                            *)
Shift(fd, tmpTo) == IF fd = "tmp" THEN tmpTo ELSE IF fd = "final" /\ tmpTo = "final" THEN "gone" ELSE fd
Shifted(f, tmpTo) ==
  [q \in Request |-> IF Running(q) /\ File_(q) = f
                     THEN [job[q] EXCEPT !.fd = Shift(@, tmpTo)] ELSE job[q]]

ReplaceFrom(r, pcs) ==
  /\ job[r].pc \in pcs
  /\ saved[File_(r)].tmp # "absent"
  /\ saved' = [saved EXCEPT ![File_(r)] = [tmp |-> "absent", final |-> @.tmp]]
  /\ job' = [Shifted(File_(r), "final") EXCEPT ![r].pc = "hand", ![r].fd = "none"]
  /\ UNCHANGED <<server, uploads, names, content, meant, alone, cut>>

ReplaceUnwritten(r) == ReplaceFrom(r, {"write", "replace"})   \* mutant: without waiting for the write
Replace(r) == ReplaceFrom(r, {"replace"})

FailUnlinking(r, left) ==
  /\ job[r].pc \in {"open", "write", "replace"}
  /\ saved' = [saved EXCEPT ![File_(r)] = [tmp |-> "absent", final |-> left]]
  /\ job' = [Shifted(File_(r), "gone") EXCEPT ![r] = Idle]
  /\ cut' = IF job[r].fd = "final" THEN cut \union {File_(r)} ELSE cut
  /\ UNCHANGED <<server, uploads, names, content, meant, alone>>

UnlinkBoth(r) == FailUnlinking(r, "absent")   \* mutant: the error branch removes the file too

(* An OSError of open, write or os.replace; for the latter it is enough    *)
(* that the .tmp has gone.  Whatever lies under its name is unlinked.      *)
WriteFails(r) == FailUnlinking(r, saved[File_(r)].final)

(* The command exited with 0: the file is sent to the browser. *)
HandOver(r) ==
  /\ At(r, "hand")
  /\ saved[File_(r)].final # "absent"
  /\ Done(r)
  /\ UNCHANGED <<server, uploads, names, content, meant, alone, saved, cut>>

----------------------------------------------------------------------------
Beside(r) ==
  \/ job[r].fd = "final"
  \/ \E q \in Request \ {r} : job[q].pc \in {"write", "replace"} /\ File_(q) = File_(r)

(* The command exits with 1 or is killed; the request is answered with a   *)
(* message or with 500.                                                    *)
Stop(r) ==
  /\ Running(r)
  /\ Drop!GiveUp({r})
  /\ Done(r)
  /\ cut' = IF At(r, "write") /\ Beside(r) THEN cut \union {File_(r)} ELSE cut
  /\ UNCHANGED <<uploads, names, content, meant, alone, saved>>

(* The Flask process dies and is started again.  A save dies with it. *)
Restart ==
  /\ names' = [f \in File |-> None]
  /\ job' = [r \in Request |->
       IF ~ Running(r) \/ At(r, "save") THEN Idle ELSE [job[r] EXCEPT !.attended = FALSE]]
  /\ UNCHANGED <<server, uploads, content, meant, alone, saved, cut>>

(* POST /revoke/<file_id>, in one step; or the file expires. *)
Revoke(f) ==
  /\ Drop!Close({f})
  /\ UNCHANGED <<job, uploads, names, content, meant, alone, saved, cut>>

UploadStep(r) ==
  \/ \E o \in Original : StartUpload(r, o)
  \/ SaveUpload(r) \/ ReadUpload(r) \/ SendUpload(r) \/ Remember(r)

DownloadStep(r) ==
  \/ \E f \in File : StartDownload(r, f)
  \/ Ask(r) \/ Receive(r) \/ SendAck(r)
  \/ OpenTmp(r) \/ WriteTmp(r) \/ Replace(r) \/ WriteFails(r) \/ HandOver(r)

Next ==
  \/ \E r \in Request : UploadStep(r) \/ DownloadStep(r) \/ Stop(r)
  \/ \E f \in File : Revoke(f)
  \/ Restart

Spec == Init /\ [][Next]_vars

----------------------------------------------------------------------------
UploadJob(pcs, files) ==
  [pc : pcs, cmd : {"upload"}, original : Original, file : files, fd : {"none"},
   attended : BOOLEAN, alone : BOOLEAN]
DownloadJob(pcs, fds) ==
  [pc : pcs, cmd : {"download"}, original : {None}, file : File, fd : fds,
   attended : BOOLEAN, alone : BOOLEAN]

Job ==
  UploadJob({"save", "read"}, {None}) \union UploadJob({"send", "remember"}, File)
    \union DownloadJob({"ask", "receive", "ack", "open", "replace", "hand"}, {"none"})
    \union DownloadJob({"write"}, {"tmp", "final", "gone"})

(* Type correctness of the requests, the directories and the name table. *)
TypeOK ==
  /\ state \in [File -> {"absent", "open", "closed"}]
  /\ granted \in [Request -> File \union {None}]
  /\ delivered \subseteq File
  /\ job \in [Request -> Job \union {Idle}]
  /\ uploads \in [Name -> Original \union Damaged \union {"absent"}]
  /\ names \in [File -> Name \union {None}]
  /\ content \in [File -> Original \union Damaged \union {None}]
  /\ meant \in [File -> Original \union {None}]
  /\ alone \subseteq File
  /\ saved \in [File -> [tmp : {"absent", "torn", "whole"}, final : {"absent", "torn", "whole"}]]
  /\ cut \subseteq File

(* A download command that ended well has left its file in its place, also *)
(* when others of the same file fail or clean up beside it: app.py never   *)
(* finds it missing (278-280).                                             *)
DownloadIsThere == \A r \in Request : At(r, "hand") => saved[File_(r)].final # "absent"

(* What lies under a file's name in the downloads directory is whole, or   *)
(* some download of it is still about to write it (_atomic_write, whose    *)
(* .tmp is shared by all downloads of a file).  The exception is a command *)
(* that was cut off in its write while another one was under way.          *)
TearsHeal ==
  \A f \in File :
    saved[f].final = "torn" /\ f \notin cut =>
      \E r \in Request : At(r, "write") /\ File_(r) = f /\ job[r].fd = "final"

(* What the server stores is the file its user had chosen, and the name in *)
(* the table is that file's name, unless another upload of the same name   *)
(* began before the command had read it or was still being saved when it   *)
(* began: whatever was cut off, left behind or still running unattended in *)
(* the upload directory before (app.py:250-261).                           *)
OriginalsArrive ==
  \A f \in File :
    /\ f \in alone => content[f] = meant[f]
    /\ names[f] # None => state[f] # "absent" /\ names[f] = NameOf[meant[f]]
=============================================================================
