# TLA+ models of the zerotrust file drop

This directory holds TLA+ specifications of the file-drop system in
`zerotrust/`: what its parts do at the grain at which they can interfere or
fail, the properties that make it correct, model-checking configurations for
TLC, and proofs for TLAPS. `PROJECT.json` connects every definition with the
lines of code it models and every property with a run.

## 1. The system

A sender encrypts a file for a recipient and uploads it to a server; the
recipient lists, downloads and acknowledges it; the sender may revoke it
before that; the server lets it expire. Users hold certificates of one CA.

| Component | State it keeps | Operations | Interacts with |
|---|---|---|---|
| Replay cache, `server/replay.py` | table `seen_nonces` | `check_and_record`, `purge_old_nonces` | called first by the upload, download, acknowledge and revoke handlers, on one SQLite connection per thread; purged by the cleanup thread |
| Request handlers and file store, `server/handler.py`, `store.py`, `storage_layout.py` | tables `files`, `acks`; directory `files/` with `<id>.bin` and `<id>.bin.tmp` | `UPLOAD_REQUEST`, `LIST_PENDING`, `DOWNLOAD_REQUEST`, `DOWNLOAD_ACK`, `REVOKE_REQUEST`, `GET_PUBKEY` | one worker thread per connection; share only the database file and the directory |
| Cleanup thread, `server/cleanup.py` | its clock reading within a pass | purge nonces, expire rows, every 60 s | the same tables, by its own connection |
| Server process, `server/main.py`, `serve_connection` | connections, worker threads | accept, dispatch, shut down | starts the cleanup thread; an exception of a handler ends its connection |
| Client commands, `client/cli.py` and `upload`, `download`, `revoke`, `session`, `peer` | the downloads directory | `login`, `list`, `upload`, `download`, `revoke` | one connection per command, one request at a time, socket timeout 5 s |
| Handshake, `server/handshake.py`, `client/handshake.py`, `common/transcript.py` | nonces, pre-master secret, transcript | HELLO, KEY_EXCHANGE, AUTH_RESPONSE, SESSION_OK | before any request on a connection |
| CA, `ca/ca.py`, `ca/cert.py`, and the targets of `Makefile` that copy what it issued | `ca_data/`, `users/<name>/`, `client_<name>/`, `pubkeys/` | `init`, `issue`, `verify`; `client-setup`, `server-register`, `user` | certificates are verified at the handshake, in the handlers and in the client |
| Public-key directory | `pubkeys/<name>.json` | read by `GET_PUBKEY` and upload; written by `server-register` | |
| Wire format, `common/protocol.py` | - | framing, envelopes | everything that is sent |
| Crypto helpers, `common/*.py` | - | sign, verify, wrap, encrypt | pure functions |
| Web UI, `webui/app.py` | upload directory, name table `UPLOAD_FILENAMES`, the recipients' downloads directories | upload, download, revoke, add a user; the start page | every request is a thread that runs one client command (or `make user`) as a subprocess with a limit of 30 s |
| Audit log, `legacy/`, `scripts/`, `demo/` | log files; - | - | not part of the behaviour studied here |

### What is hard about it

Handlers run in parallel threads, and each is a sequence of separately
committed SQL statements and file operations with reads of the wall clock in
between. An upload writes its blob before it asks the table anything, so two
uploads under one file id write the same `.tmp`. Nothing spans two statements: `mark_status` is
`UPDATE files SET status = ? WHERE file_id = ?`, whatever the status has
become since the handler read it. The cleanup thread uses a clock value from
the start of its pass. Any statement may fail (locked database, full disk),
the process may be killed between two of them, and the peer may be gone when
the reply is sent. On the client's side a reply may be lost, a request may be
taken up after the client has given up on it, and the client may die between
its acknowledgement and its write to disk. In the handshake either end may
refuse, die or time out at every message, and a message that meets a closed
socket may destroy the answer that was on its way. The CA's commands, the
Makefile and the web UI share files by name and write them in several steps,
without locks. `PROJECT.json` lists each of these under `hazards`, at the line
where it bites.

### What makes each component correct

* **Replay cache**: no envelope is accepted twice, also after its row has been
  purged, the clock was stepped back or the server was restarted; refused
  requests burn nothing; the table does not grow for ever.
* **File store**: an acknowledged upload has its row, no row is without a blob,
  and the blob is the row's package unless an upload under the same id brought
  another one or was cut short beside it; status `downloaded` means
  a stored acknowledgement; what a client was told is closed stays closed and
  is not served to later requests; only overdue files are `expired`; listing,
  download and cleanup agree about the expiration boundary; closing is final.
* **Cleanup**: while the thread lives, overdue files do not stay pending and
  old nonces do not stay in the table.
* **Client commands**: what a command reported holds of the server's store, the
  refusals of uploads included: the file that was refused has no row and never
  gets one; every request is answered, or its connection is closed, or a worker
  is still at it; an acknowledgement is sent only for what was verified and
  decrypted; every command ends and frees its connection and worker.
* **Handshake**: a client with a session has the keys and transcript of the
  server's; each end holds a session only with a peer that has the private key
  of its certificate; the pre-master secret goes only to a verified server; a
  refusal reaches the user as an authentication error, unless the network lost
  the connection or the client's own timeout ended its wait; the ends never wait for
  each other on an open connection with nothing to read; both programs end.
* **CA**: key pair and certificate on disk belong together and verify with the
  CA's, and bundles and `pubkeys/` hold copies of what was issued, unless two
  commands issued it at once; what was issued stays once no command is past the
  check.
* **Web UI**: an upload that no other upload of its name disturbed stores what
  was chosen; a download that succeeded is there and, unless a command was cut
  off in its write beside another one, becomes whole.

## 2. Modules

| Module | Role |
|---|---|
| `ReplayCache` | `check_and_record` and `purge_old_nonces`, statement by statement |
| `ReplayCacheProofs` | its proofs |
| `FileDrop` | abstract specification: what the server promises of a file |
| `FileStore` | the five handlers and the cleanup thread, step by step; instance of `FileDrop` under a refinement mapping |
| `FileStoreProofs`, `FileStoreRefines` | its proofs: invariants; action property and refinement |
| `FileStoreClaims` | sentences of the documentation about the store that the code does not keep |
| `Delivery` | the client commands over breakable connections, composed with `FileStore` (`Store == INSTANCE FileStore`) |
| `DeliveryProofs` | its proofs: the composition implements `FileStore`, and through it `FileDrop`; its invariants |
| `DeliveryClaims` | a sentence of the documentation about downloads |
| `Crypto` | signatures, ciphertexts, hashes and derived keys as terms |
| `Handshake`, `HandshakeProofs` | the two sequential programs of the handshake on one connection; its proofs |
| `Pki`, `PkiProofs` | the CA's commands and the Makefile's copies, file by file; its proofs |
| `WebUi`, `WebUiProofs`, `WebUiClaims` | the web page's requests over their shared directories, with `FileDrop` as the server; its proofs; a comment of `app.py` |
| `MC_ReplayCache`, `MC_FileStore`, `MC_Delivery`, `MC_Handshake`, `MC_Pki`, `MC_WebUi` | instances for TLC |

Operators commented "mutant" stand next to the definition they vary (a dropped
check, a swapped order, a reversed comparison). No specification uses them;
each property is known to fail when its mutant takes the definition's place.

### ReplayCache

A worker is idle or at the INSERT (`call[t].pc = "record"`), with the clock
value it compared with the window; the cleanup thread is idle or at the DELETE
with its cutoff. `CheckWindow` is lines 46-50, `RecordNonce` and
`RefuseReplay` the two outcomes of the INSERT under the primary key,
`RecordFails` any other SQLite error. `clock` measures elapsed time; a read of
`time.time()` may lag it by up to `MaxStepBack`, because the system clock may
be stepped back. A worker may stall up to `MaxStall` between its read and its
INSERT (SQLite's own wait for a locked database is 5 s).
`RetentionCoversWindow` is the assumption under which the cache is sound:
retention >= 2 * window + stall + step. With the code's 300 and 30 this leaves
240 s for stall and step together.

### FileStore

One action is one SQL statement, one file operation or one read of the clock,
together with the checks around it that read nothing shared. `job[w]` is the
program counter and the locals of a worker:

* upload: `TakeUpload` (all checks), `OpenTmp`, `FillTmp` or `WriteShort` (the
  write ends early), `Replace` (`os.replace`), `InsertFile`, `SendReply`;
* download: `TakeDownload` (reads the row), then `FindExpired` and
  `MarkExpired`, or `Authorise` (decides on the row that was read), `Respond`;
* acknowledgement: `TakeAck`, `InsertAck`, `MarkDownloaded`, `SendReply`;
* revocation: `TakeRevoke`, `MarkRevoked`, `SendReply`;
* `LIST_PENDING` and `GET_PUBKEY` and every refused request change nothing
  (`AnswerOnly`); `PendingFor` is the query behind the listing.

`Abort` stops a handler anywhere (the statement fails, the peer is gone);
`Restart` ends all threads and keeps tables and directory. The cleaner reads
the clock (`StartPass`) and expires by that value (`Sweep`); a pass may fail;
the thread may die at start-up, outside the loop's `try`.

The server takes up any number of UPLOAD_REQUESTs under one file id: it looks
for no row before it writes the blob, and the replay cache knows nonces, not
file ids. `requests` counts them, up to the bound `MaxUploads`; each brings one
of the constant set `Package`. They all write the same `.tmp`. `fd[w]` says
whether a worker has that file open and by which name it goes by now:
`os.replace` of one upload moves the file under the others (`AfterReplace`), so
a worker may end up writing to the blob itself. A file holds nothing, is empty,
has some or all bytes of one package, or bytes of several (`Mixed`). Only
`InsertFile` refuses the second upload, by the primary key, when the blob has
been replaced already. The one `f.write` of an upload is one step, or one that
is cut short.

Abstracted: a package's sender, recipient and expiration are functions of the
file id, also where several packages come under it (the client signs the four
together); the table `row` says which package's hash and keys were inserted.
Signatures verify or do not (`Form`); the replay check is in `ReplayCache`.
`sent`, the `after` of a download, `uploaded` (the packages that came) and `cut`
(files on which several uploads were at work when one was cut short) are history.

`FileDrop` knows of each file whether it is absent, open or closed, and of
each worker which file it has been granted. The mapping takes `pending` to
open and the three closing statuses to closed; a worker holds a grant from its
read of a pending row until it responds or stops. So a file may be served once
for a request that was under way when the file was closed, and never for a
later one.

### Delivery

Each `w` is one command and its connection and worker. `conn[w]` holds whether
the connection is up, the request on its way to the server and the reply on
its way back; `client[w].pc` is the reply the command waits for. The server's
steps are those of `FileStore`, with the request consumed and the reply
produced in the same step (`TakeRequest`, `RefuseRequest`, `Work`, `Fail`). An
upload that fails a check is answered by an ERROR (`TakeRefusal`). A failure
further on is answered by one only where the handler catches it (`Caught`);
anywhere else the exception leaves the handler, and the connection is closed. A
request that was sent stays in the socket after the client has left, and may
be taken up then; a reply to a connection that is down is lost. `LeaveEarly`
stands for every way a command ends with exit code 1 or is killed, the socket
timeout among them. `told` is history: the confirmations, and the ERRORs of
uploads, that commands have received. The clients of this repository draw a
uuid4 for every package they send and never send it again (upload.py:97), so
the store is taken with one package per id and `MaxUploads` 1 (`Own`, `Fresh`);
what several uploads under one id do is left to `FileStore`. Users without a right to the file are left to `FileStore`, where
any user may ask for any file.

### Handshake

`pc[e]` is where each end's function is, `know[e]` its locals (peer
certificate, nonces, ciphertext, pre-master secret), `session[e]` the dict it
has returned. A step is one send, or one receive with the checks that follow
it: `SendClientHello`, `TakeServerHello` (verifies the certificate before
anything else is sent), `SendKeyExchange`, `SendAuthResponse` (or `SignFails`,
where the password first matters), `TakeSessionOk`; on the server
`StartServing`, `TakeClientHello`, `SendServerHello`, `TakeKeyExchange`,
`TakeAuthResponse`, `SendSessionOk`. A check that fails only decides
(`Decline`); `Refuse`, a step of its own, is the end of `_fail`, which sends
ERROR if it still can, raises, and has the socket closed. So the network may
lose the connection (`Break`), the client be killed or its timer end its wait
(`ClientTimesOut`) before the server's decision, between it and the ERROR, and
while the ERROR is on its way, also when the server has closed already.
`Surfacing` is the one `try` that makes an AuthError of such an end, that around
SESSION_OK; `disturbed` is history: the network or the timer has intervened.
`line[e]` and `queue[e]` are an end's socket:
closing it gives the peer an end of stream, closing it with messages unread a
reset, and a reset may destroy what the peer had not read. Each end loads its
`assets` once; `verify_certificate` looks at the issuer's key, the dates and the
expected subject. Cryptography is in `Crypto`: a key pair is one value, and a
signature, a ciphertext or a derived key is the record of what went into it.
What can be wrong is the set-up of an end; the peers follow the protocol.

### Pki

An operator runs a shell command, `job[o]`: `cmd_init`, `cmd_issue` with
`Sign` (the CA's key is read only after the checks), `client_setup`,
`server_register`; `user_target` is the sequence that `make user` runs. Each
then writes its files (`InitFiles`, `IssueFiles`, `SetupFiles`,
`RegisterFiles`) in the code's order, truncating (`OpenFile`) and filling
(`FillFile`) one after the other; a copy takes what its source holds at that
moment, a torn file included. `Crash` ends a command anywhere. `disk` maps
every path to absent, torn, mixed, or what the file says. Which operator uses
which commands, forced or not, is the constant `Runs`.

Nothing keeps two operators from the same command for the same user: the web
page runs `make user` in a thread per request (app.py:320), and there is no lock
between the check at ca.py:125 and the writes at 140-142. Both pass then, and
each truncates and fills the files of the other; `Filled` is what a write leaves
on a file that somebody else has filled meanwhile: the one, the other, or bytes
of both. The history variable `overlapped` names the users whose certificate two
commands were past the check for at once, and the CA if two initialised it.

### WebUi

`job[r]` is one HTTP request and the command it runs. An upload saves the
browser's file under its own name (`StartUpload` truncates, `SaveUpload`
fills), the command reads it and draws a file id (`ReadUpload`), publishes
(`SendUpload`), and the request records the name (`Remember`). A download asks,
receives and acknowledges, and runs `_atomic_write`: `OpenTmp`, `WriteTmp`,
`Replace`, or `WriteFails` with its unlink; then `HandOver` sends the file to
the browser. `fd` is what the command's open descriptor refers to by now:
`os.replace` and `unlink` of another command move the file under it (`Shift`).
`Stop` is any end with exit code 1 and the kill after 30 s; `Restart` is the
death of the Flask process, after which its commands go on unattended.
The server is `FileDrop` (`Drop`), with requests for workers, so `PromiseKept`
links this module to the handlers. `content`, `meant`, `alone` and `cut` are
history. `add_user` is `make user`, which is in `Pki`; the start page and
`RECENT_COMMANDS` are display only.

## 3. Runs

| Run | Shows | Bounds |
|---|---|---|
| `replay_cache` | `AcceptOnce`, `StillGuarded`, `OnlyAcceptedBurns`, `OldRowsPurged` | 1 nonce of 16 bytes and 1 short one, 8 timestamps, 2 workers, time 0-7, window, stall and step 1, retention 4 (the least the assumption allows) |
| `file_store` | the invariants, `NeverReopened`, `KeepsPromise`, `ExpiredIsSwept` | 1 file, 1 package that comes in up to 2 uploads, 2 workers, 3 users, time 0-2; the file expires at 1, the sender's certificate ends after 1 |
| `delivery` | `ConfirmedUploadIsKept`, `RefusedUploadHasNoRow`, `EveryRequestIsAnswered`, `AckMeansDecrypted`, `NoFileAfterClosing` | 1 file, 2 connections (symmetric), time 0-1 with the file expiring at 1 |
| `delivery_live` | `ConnectionsReleased` | the same with 1 connection |
| `handshake` | `Agreement`, `PossessionProved`, `SecretOnlyToVerified`, `RefusalIsAuthError`, `NoStandoff`, `BothEnd` | at each end a good bundle, or one with a single thing wrong (key, issuer, dates, password, trust anchor; subject or expected subject); 2 nonces, 2 secrets, time 0-2, certificates end after 1 |
| `pki` | `IssuedWhole`, `CopiesAgree`, `IssuedForGood` | 2 operators (`MCRuns`), who may both initialise the CA and both issue for one user, 2 users, 3 key pairs (symmetric), no forced command |
| `web_ui` | `DownloadIsThere`, `TearsHeal`, `OriginalsArrive` | 3 requests (symmetric), 1 file id, 2 originals of one name (symmetric) |
| five `claim_*` runs | each ends in a counterexample to a sentence of the documentation | as the run of the same component; 2 requests for the web UI |

Every run's `TypeOK` is checked with it.

Why the bounds are enough. Handlers of different files share no state (every
statement names one id, the sweep treats rows independently), so one file
shows all interference; two workers give every pair of handlers, two uploads
under the same id among them, and the cleanup thread is a third party. Time 2
lets a file be pending, at its boundary and overdue, and a certificate end as
well. A second package under the id makes the run too long to be part of it;
the theorem `UploadsAreDurable` is for any number of packages and uploads. In `replay_cache`, 7 time
units take a nonce from its first use past its retention and out of the
table while copies of its envelope still arrive. The theorems below have no
bounds. Connections do not wait for one another in the model or in the code
(SQLite's lock is released at the end of each statement or gives up with an
error, which is `Abort`), so one connection suffices for `delivery_live`;
symmetry is used only where no liveness is checked. In `Delivery`, certificates
do not expire within the bounded time.

Handshakes share nothing, so one connection shows all of one; two nonces and
two secrets let an end mix up values of two roles, and time 2 lets a
certificate begin and end during the handshake. In `pki` three key pairs are one for
the CA and two for issues that overlap, or of which the first was cut off;
`MCRuns` has every command, a lone `issue` and `user`, and the same user's
certificate issued by both operators. In `web_ui`, three requests let a
third download clean up or be cut off beside two that race, and one file id is
enough since downloads of different ids share no path; more uploads than one
only race before they draw an id.

### Fairness

* `ReplayCache`: the loop of `cleanup.py` starts a pass every minute (weak
  fairness of `ReadCutoff`), and a DELETE that is tried again and again is not
  refused every time (strong fairness of `DeleteOld`).
* `FileStore`: `StartCleaner` weakly, `StartPass` and `Sweep` strongly fair,
  for the same reason. Nothing is assumed of workers. `ExpiredIsSwept` speaks
  of runs in which the thread is finally alive.
* `Delivery`: a client's wait is ended by its socket timeout, and the server's
  threads run. Neither the server's own timeouts (it has none) nor that
  messages arrive is assumed.
* `Handshake`: the same two: weak fairness of `ClientStep`, which includes the
  end of a wait by the timeout, and of `ServerStep`, which does not. `Break`
  resets every socket that is not closed; a connection that goes silent without a reset, and would
  hold the server's worker for good, is not modelled.

### What the claims show

| Run | The sentence | The code |
|---|---|---|
| `claim_served_once` | README.md:410-415, a `DOWNLOAD_RESPONSE` consumes the file | handler.py:682 writes no status; only the acknowledgement does |
| `claim_revoked_stays_revoked` | README.md:402-404, later requests are rejected with `REVOKED` | handler.py:782 and 513 overwrite the status unconditionally |
| `claim_no_half_file_left` | handler.py:402-403, no half-files in the final directory | the `.tmp` file is in that directory and never removed |
| `claim_crashed_download` | README.md:416-417, a crashed download leaves the row `pending` | download.py acknowledges (216) before it saves (228) |
| `claim_hands_back_what_was_chosen` | app.py:56-60, the browser gets what the sender originally chose | app.py:251-252 saves every upload of a name to one path, and the command opens it later (upload.py:91-94) |

`NeverReopened`, `ConfirmedIsClosed` and `NotServedAfterClosing` hold beside
these: whatever the late UPDATEs make of the status, a closed file does not
become available again. `OriginalsArrive` says how much of the last sentence
remains.

Other differences between text and code that the models follow the code in,
without a run of their own:

* handler.py:824 says only `pending` rows can flip to `revoked`; the row is read
  at 888 and the UPDATE at 1003 goes by id (`MarkRevoked`).
* README.md:383 says the cleanup thread deletes expired blobs; cleanup.py:51-52
  only updates rows (`Sweep`).
* Makefile:154 calls `user` idempotent; ca.py:125 refuses a second `issue`, and
  make stops there (`cmd_issue`).
* Makefile:154 also has nothing to say of two `make user` for one user at once:
  both pass ca.py:125, and the certificate of one and the key of the other may
  be left (`cmd_issue`, `Filled`). `IssuedWhole` and `CopiesAgree` except such
  users, and `IssuedForGood` speaks of a certificate only once no command is past
  the check.
* server/handshake.py:114-116 says that after any failure the client receives a
  clean error. Where the network or the client's timer ends the wait for the
  server's HELLO before the ERROR arrives, client/handshake.py:93 ends with a
  bare OSError (`RefusalIsAuthError` has the exact condition).
* handler.py:402-411 writes and moves the blob before the primary key refuses a
  second row, so an UPLOAD_REQUEST that is refused may have replaced the blob of
  the row that stands (`UploadIsDurable` says what remains).
* download.py:180 says the file is written atomically; the `.tmp` name is shared
  by all downloads of a file, and a truncated file can be in the final place for
  a while (`TearsHeal` says how long).

## 4. Proofs

All theorems are for any number of files, workers, users, nonces, keys,
requests and any times. They assume the modules' named assumptions on
constants: `ReplayConstants`, `RetentionCoversWindow`, `StoreConstants`,
`DeliveryConstants` (the same for the composition), `HandshakeConstants`,
`PkiConstants`, `WebUiConstants`. The theorems about `Pki` have one hypothesis
more, `Unforced`: no command of `Runs` has `--force`, as none of make and the
web page has.

**ReplayCache.** `NoReplay` (`AcceptOnce`) is not inductive: once the row is
purged only the timestamp guards an envelope. The invariant adds `StillGuarded`
(an accepted envelope has its row, young enough, or its window has closed for
every clock reading still possible), that a worker at its INSERT holds a clock
value inside the window of its envelope and at most `MaxStall` + `MaxStepBack`
old, and that the cutoff of a purge under way is at least the retention time
behind. `RecordNonce` accepts only without a row; for an envelope accepted
before, that leaves "the window has closed", which contradicts what the worker
holds. `DeleteOld` takes a row only if its window has closed: here
`RetentionCoversWindow` is used. `PurgeIsSafe` is the guard itself.
`RefusedBurnNothing` (`OnlyAcceptedBurns`) uses that the value stored as
`seen_at` is the one the window was tested with.

**FileStore.** The invariant is `IInv` in `FileStoreProofs`. A handler acts on
what it read earlier, so `JobsOK` states, for every point between two steps,
what still holds there: the acknowledgement stored before `MarkDownloaded`, the
time over before `MarkExpired`, the file closed before a confirming reply, the
row present in all handlers but an upload. `CleanerBehind` bounds the cleaner's
clock value by the clock, and `GrantedBefore` says that a download which read a
pending row came in before any confirmation was sent. `AcksBackDownloads`,
`ConfirmationsHold`, `ClosingStopsDelivery`, `ExpiryIsHonest` and
`ListingsAgree` follow.

`UploadsAreDurable` has to say what uploads under one id do to each other and
needs a second invariant, `WritersInv`: what a worker has open is there under
the name it goes by, and whoever is at its INSERT has left a blob (`WriterOK`);
while all uploads of a file bring one package, each of the file's two names
stands for nothing, for all or some of that package, and for some of it only
while a worker still has it open, or after one was cut short beside another
(`FileOK`); a row has a blob and the package of one of the uploads (`RowOK`). An
upload step is one lemma (`UploadWriters`), and every other step either touches
none of this or stops workers (`StepKinds`). Where each file is asked for once
(`MaxUploads = 1`), `UploadersFirst` adds that a file being uploaded has no row
and one writer; with it, a file whose upload was admitted and then given up
(`Rejected`) has no row and never gets one (`NextUploads`), which `Delivery` uses.

`FileStoreRefines` proves `ClosedForGood` (the action property
`NeverReopened`) and `PromiseKept`: initial states map to initial states, and
under `IInv` every step maps to one of `FileDrop` or to a stutter. The statuses
written by late UPDATEs map to `Close` or to a stutter (`ClosingRefines`),
for which the row has to exist: that is in `JobsOK`.

**Delivery.** `StoreRefined` shows that every step of the composition is a step
of `FileStore` or leaves the store alone; so the store's `IInv` holds in it, and
the theorems of the store are cited through `FS == INSTANCE FileStoreRefines`.
With the store's step-by-step refinement this gives `PromiseKeptToCommands`: the
commands, their connections and the handlers together implement `FileDrop`. On
top of it, `Linked` says that a request, a job and a reply
on a connection are about the file of the command that is still at its other
end, and that a confirmation under way was sent about it; without it a reply
could confirm a file it is not about. `Acknowledging` carries "decrypted" from
the client's step over the request to the row in `acks`. `BegunLate` follows a
command that began when a confirmation was known: its request is taken up with
the confirmation in `after`, and the store's `GrantedBefore` then rules out the
response. `AcksFollowDecryption` and `ClosedFilesStayAway` follow.

`ConfirmedUploadsAreKept` takes the store's `WritersInv` and `UploadersFirst`
over into the composition (`UploadsInv`): an id comes under one package and
once, so nobody else writes to what an upload has stored. `RefusedUploadsLeaveNoRow` needs `RefusalInv` on top of them: while a
command waits for UPLOAD_ACK, the request and the job on its connection are an
upload's (`ByCommand`), and an ERROR under way to it, or received, was sent when
the store had neither a row nor an upload at work (`RefusedForGood`). That this
stays so is `NextUploads` of the store; that no ERROR is sent once the row is
there comes from `Caught`, which ends before the INSERT. `RequestsAreAnswered`
(`EveryRequestIsAnswered`) is inductive over the types alone.

**Handshake.** An end knows of the other only through messages, so the
invariant says of every message under way what it says about its sender's
knowledge, and that the sender will not change that knowledge again
(`HelloFromClient` to `OkFromServer`); what an end has learnt is then what the
other has (`ServerHeardHello`, `ClientHeardHello` and what follows them).
`Agreement` compares two sessions computed at different moments, and is
inductive only with these. `EndsAgree`, `SessionsWithHolders` and
`SecretsGoToVerified` follow. `RefusalIsAuthError` is about the order of steps
and needs a second invariant, `Course`, on top of the first: what the two
sockets say of each other (`OneLine`), that the server never has more than one
message to read before the client has sent all of its own (`InStep`), where the
server's decision to refuse finds a client that still runs (`RefusalAhead`), and
where, if neither the network nor the client's timer has intervened, the refusal
itself does (`RefusalSeen`): with the ERROR in its queue, with a socket that
still takes the next message, or already waiting for SESSION_OK. `LastToGo` says
that a client that is left alone ends with a bare ProtocolError or OSError only
after the server has ended. `RefusalsAreSeen` follows. `UnderWay`, on top of `Course`, says what
each end still has coming: while it waits on an open connection, the message it
waits for is in its queue or its peer has yet to send it. So at least one of two
open ends can always go on without its timeout (`NobodyWaitsForNothing`, the
invariant `NoStandoff`).

**Pki.** The certificate is written last, and its presence refuses the next
issue. The invariant says of every command under way how far it has got and
that what it wrote is still in place (`InitOK`, `IssueOK`, `CopyOK`), that the
CA's key is in place before its certificate is begun, and the user's likewise
(`CaInPlace`, `KeyInPlace`), and that copies are of what is there now
(`CopiesCurrent`). All that concerns a user's files holds while the user is
`Undisturbed`, and `OneAtATime` ties that to the commands: two that are past the
check for one subject have made it an overlapped one. `CertificatesForGood`
needs no such condition, but that nobody is past the check (`Settled`): from
there on `MayIssue` refuses everybody, whatever overlapped before.

**WebUi.** The invariant has a half for each directory. `TmpHeals` says who
will still write into a truncated `.tmp` before anybody can move it into place;
with it `TearsHeal` survives `os.replace`. `AloneKept` says what lies under the
name of an undisturbed upload, and `FileDrawn` and `NotDrawn` tie a file id to
the request that drew it. `DownloadsAreThere`, `RacingDownloadsHeal` and
`UndisturbedUploadsArrive` follow.

**Only model-checked.** The liveness properties (`OldRowsPurged`,
`ExpiredIsSwept`, `ConnectionsReleased`, `BothEnd`), which need fairness and are
out of the prover's reach.

## 5. Not modelled

* Frames: splitting a message into reads changes nothing that another step
  reads. A message over the size limit raises `ProtocolError` in `pack_message`,
  which ends the handler and the connection: that is `Abort` and `Fail`. Which
  uploads are too large to be sent back depends on sizes, which are abstracted.
* `login` and `list`, which end after the handshake and a read-only request.
* Cryptography: outcomes and terms only. Audit logging, redaction and output
  formats: no handler reads them.
* `legacy/`, `demo/` and the linters under `scripts/`: no part of the running
  system.
* `_load_server_assets` and the order of shutdown in `main.py`: a failure there
  ends a connection or the process, which `StartServing`, `Abort` and `Restart`
  cover.
* A system clock that is stepped forward, or back by more than `MaxStepBack`;
  in `FileStore` and `Delivery` the clock is never stepped back.
* A partition that keeps a connection open and silent (see Fairness).
* Forced commands in the runs of `Pki`: `--force` is documented as replacing
  what was issued, so no property of it is left to check.

## 6. State of the work

Done: `ReplayCache`, `FileDrop`, `FileStore`, `Delivery`, `Handshake`, `Pki`
and `WebUi`, each with runs and proofs.

Left:

1. A garbage collector for blobs and `.tmp` files without a row, once the code
   has one: the hazards at handler.py:406 and 411 become checkable promises.
2. What two issues of one user at once may leave, once ca.py has a lock or an
   exclusive create between its check and its writes.
3. Sizes: which accepted uploads can be sent back, as arithmetic over the
   lengths of the fields and the limit of `pack_message`.
