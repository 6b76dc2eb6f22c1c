-------------------------------- MODULE Pki ---------------------------------
(***************************************************************************)
(* The files that make up the key infrastructure, and the commands that    *)
(* write them: zerotrust.ca.ca init and issue (zerotrust/ca/ca.py), and    *)
(* the Makefile's client-setup, server-register and user, which copy what  *)
(* was issued into the client's bundle and the server's directory.         *)
(*                                                                         *)
(* A command is a shell process: it looks at files, then writes others one *)
(* after the other, each by truncating and filling it.  It may be killed,  *)
(* or fail, between any two steps.  Operators work at the same time (the   *)
(* web UI runs "make user" in a thread per request) and nothing keeps two  *)
(* of them from the same target of the same user: there is no lock between *)
(* what a command looks at and what it writes.  Which commands each of     *)
(* them uses is the constant Runs.                                         *)
(***************************************************************************)
EXTENDS Integers, Sequences

CONSTANTS
  User,
  Operator,
  Key,                 \* bound: key pairs that are ever generated
  CA,                  \* the subject of the CA's own certificate
  Runs,                \* the commands of each operator
  None

Target == {"init", "issue", "client-setup", "server-register"}

user_target == <<"issue", "client-setup", "server-register">>

Command ==
  [targets : {<<"init">>}, user : {CA}, force : BOOLEAN]
    \union [targets : {<<t>> : t \in Target \ {"init"}} \union {user_target}, user : User, force : BOOLEAN]

ASSUME PkiConstants ==
  /\ CA \notin User
  /\ None \notin Key
  /\ Runs \in [Operator -> SUBSET Command]

Path ==
  [dir : {"ca_data"}, of : {CA}, file : {"private", "public", "cert"}]
    \union [dir : {"users"}, of : User, file : {"private", "public", "cert"}]
    \union [dir : {"client"}, of : User, file : {"cert", "private", "ca_cert"}]
    \union [dir : {"pubkeys"}, of : User, file : {"cert"}]

ca_data(file) == [dir |-> "ca_data", of |-> CA, file |-> file]
users(u, file) == [dir |-> "users", of |-> u, file |-> file]
client(u, file) == [dir |-> "client", of |-> u, file |-> file]
pubkeys(u) == [dir |-> "pubkeys", of |-> u, file |-> "cert"]

(* What a path holds: nothing, the beginning of a file (or none of it),    *)
(* bytes of two writers, or a whole file.                                  *)
Absent == [is |-> "absent"]
Torn == [is |-> "torn"]
Mixed == [is |-> "mixed"]
Private(k) == [is |-> "private", key |-> k]
Public(k) == [is |-> "public", key |-> k]
issue_certificate(subject, k, ca_key) == [is |-> "cert", subject |-> subject, key |-> k, by |-> ca_key]

Content ==
  {Absent, Torn, Mixed} \union {Private(k) : k \in Key} \union {Public(k) : k \in Key}
    \union [is : {"cert"}, subject : User \union {CA}, key : Key, by : Key]

VARIABLES
  disk,
  job,         \* of each operator, or Idle
  used,        \* the key pairs generated so far
  overlapped   \* users whose certificate two operators were issuing at once,
               \* and CA if two were initialising it (history)

vars == <<disk, job, used, overlapped>>

(* A command under way: what it has still to do, the keys it has made or   *)
(* read, and how many of its target's files it has written.                *)
Job ==
  [pc : {"idle", "next", "sign", "write"}, rest : Seq(Target), user : User \union {CA}, force : BOOLEAN,
   key : Key \union {None}, by : Key \union {None}, written : 0..3, open : BOOLEAN]

Idle ==
  [pc |-> "idle", rest |-> <<>>, user |-> CA, force |-> FALSE, key |-> None, by |-> None,
   written |-> 0, open |-> FALSE]

Started(c) ==
  [pc |-> "next", rest |-> c.targets, user |-> c.user, force |-> c.force, key |-> None, by |-> None,
   written |-> 0, open |-> FALSE]

Init ==
  /\ disk = [p \in Path |-> Absent]
  /\ job = [o \in Operator |-> Idle]
  /\ used = {}
  /\ overlapped = {}

exists(p) == disk[p] # Absent

Goto(o, j) == job' = [job EXCEPT ![o] = j]
Exit(o) == Goto(o, Idle) /\ UNCHANGED <<disk, used, overlapped>>
At(o, target) == job[o].pc = "next" /\ Head(job[o].rest) = target
Writing(j) == [j EXCEPT !.pc = "write", !.written = 0]

(* Past the checks of init or issue; whom o's passing them makes a subject  *)
(* of two commands.                                                        *)
Doing(j, target) == j.pc \in {"sign", "write"} /\ Head(j.rest) = target
Overlap(o, target) ==
  {job[x].user : x \in {x \in Operator \ {o} : Doing(job[x], target) /\ job[x].user = job[o].user}}

----------------------------------------------------------------------------
(* The files a target writes, in their order, and with what: a new content, *)
(* or, when it copies, that of another path.                                *)
Copies(j) == Head(j.rest) \in {"client-setup", "server-register"}

InitFiles(j) ==
  <<<<ca_data("private"), Private(j.key)>>, <<ca_data("public"), Public(j.key)>>,
    <<ca_data("cert"), issue_certificate(CA, j.key, j.key)>>>>

IssueFilesCertFirst(j) ==      \* mutant: the certificate is written before the keys
  <<<<users(j.user, "cert"), issue_certificate(j.user, j.key, j.by)>>,
    <<users(j.user, "private"), Private(j.key)>>, <<users(j.user, "public"), Public(j.key)>>>>

IssueFiles(j) ==
  <<<<users(j.user, "private"), Private(j.key)>>, <<users(j.user, "public"), Public(j.key)>>,
    <<users(j.user, "cert"), issue_certificate(j.user, j.key, j.by)>>>>

SetupFiles(j) ==
  <<<<client(j.user, "cert"), users(j.user, "cert")>>, <<client(j.user, "private"), users(j.user, "private")>>,
    <<client(j.user, "ca_cert"), ca_data("cert")>>>>

RegisterFiles(j) == <<<<pubkeys(j.user), users(j.user, "cert")>>>>

Plan(j) ==
  CASE Head(j.rest) = "init" -> InitFiles(j)
    [] Head(j.rest) = "issue" -> IssueFiles(j)
    [] Head(j.rest) = "client-setup" -> SetupFiles(j)
    [] Head(j.rest) = "server-register" -> RegisterFiles(j)

Start(o) ==
  /\ job[o].pc = "idle"
  /\ \E c \in Runs[o] : Goto(o, Started(c))
  /\ UNCHANGED <<disk, used, overlapped>>

(* Without --force, init refuses when either file is there. *)
cmd_init(o) ==
  /\ At(o, "init")
  /\ IF (exists(ca_data("private")) \/ exists(ca_data("cert"))) /\ ~ job[o].force
       THEN Exit(o)
       ELSE \E k \in Key \ used :
              /\ used' = used \union {k}
              /\ Goto(o, [Writing(job[o]) EXCEPT !.key = k])
              /\ overlapped' = overlapped \union Overlap(o, "init")
              /\ UNCHANGED disk

MayIssueUnchecked(o) ==        \* mutant: a certificate that exists is no reason to refuse
  exists(ca_data("private")) /\ exists(ca_data("cert"))

(* The checks of issue: the CA is there, and the certificate is not. *)
MayIssue(o) ==
  /\ exists(ca_data("private")) /\ exists(ca_data("cert"))
  /\ exists(users(job[o].user, "cert")) => job[o].force

cmd_issue(o) ==
  /\ At(o, "issue")
  /\ IF MayIssue(o)
       THEN /\ Goto(o, [job[o] EXCEPT !.pc = "sign"])
            /\ overlapped' = overlapped \union Overlap(o, "issue")
            /\ UNCHANGED <<disk, used>>
       ELSE Exit(o)

CaFile == disk[ca_data("private")]      \* mutant: the file's content is taken for the key

CaKey == disk[ca_data("private")].key

(* Only now is the CA's private key read; one that is torn does not load. *)
Sign(o) ==
  /\ job[o].pc = "sign"
  /\ IF disk[ca_data("private")].is = "private"
       THEN \E k \in Key \ used :
              /\ used' = used \union {k}
              /\ Goto(o, [Writing(job[o]) EXCEPT !.key = k, !.by = CaKey])
              /\ UNCHANGED <<disk, overlapped>>
       ELSE Exit(o)

client_setup_unchecked(o) ==   \* mutant: the certificate is not asked for
  /\ At(o, "client-setup")
  /\ IF exists(users(job[o].user, "private"))
       THEN Goto(o, Writing(job[o])) /\ UNCHANGED <<disk, used, overlapped>>
       ELSE Exit(o)

client_setup(o) ==
  /\ At(o, "client-setup")
  /\ IF /\ exists(users(job[o].user, "cert")) /\ exists(users(job[o].user, "private"))
        /\ exists(ca_data("cert"))
       THEN Goto(o, Writing(job[o])) /\ UNCHANGED <<disk, used, overlapped>>
       ELSE Exit(o)

server_register(o) ==
  /\ At(o, "server-register")
  /\ IF exists(users(job[o].user, "cert"))
       THEN Goto(o, Writing(job[o])) /\ UNCHANGED <<disk, used, overlapped>>
       ELSE Exit(o)

(* The next file is truncated, *)
OpenFile(o) ==
  /\ job[o].pc = "write" /\ ~ job[o].open
  /\ disk' = [disk EXCEPT ![Plan(job[o])[job[o].written + 1][1]] = Torn]
  /\ Goto(o, [job[o] EXCEPT !.open = TRUE])
  /\ UNCHANGED <<used, overlapped>>

(* What a path may hold when c has been written to it: the file is still   *)
(* as it was truncated, or another command has meanwhile filled it and the *)
(* bytes of both lie over each other, whatever their lengths come to.      *)
Filled(p, c) == IF disk[p] \in {Torn, c} THEN {c} ELSE {c, disk[p], Mixed}

(* and filled.  After the last one, make goes on to the next target. *)
FillFile(o) ==
  /\ job[o].pc = "write" /\ job[o].open
  /\ LET j == job[o]
         item == Plan(j)[j.written + 1]
     IN /\ \E d \in Filled(item[1], IF Copies(j) THEN disk[item[2]] ELSE item[2]) :
             disk' = [disk EXCEPT ![item[1]] = d]
        /\ Goto(o, IF j.written + 1 < Len(Plan(j)) THEN [j EXCEPT !.written = @ + 1, !.open = FALSE]
                   ELSE IF Tail(j.rest) = <<>> THEN Idle
                   ELSE [j EXCEPT !.pc = "next", !.rest = Tail(@), !.open = FALSE])
  /\ UNCHANGED <<used, overlapped>>

(* The process is killed, or a write fails: what is on disk stays. *)
Crash(o) == job[o].pc # "idle" /\ Exit(o)

Next ==
  \E o \in Operator :
    \/ Start(o) \/ cmd_init(o) \/ cmd_issue(o) \/ Sign(o) \/ client_setup(o) \/ server_register(o)
    \/ OpenFile(o) \/ FillFile(o) \/ Crash(o)

Spec == Init /\ [][Next]_vars

----------------------------------------------------------------------------
(* No operator forces a command: make and the web UI never do.             *)
Unforced == \A o \in Operator : \A c \in Runs[o] : ~ c.force

whole_cert(p) == disk[p].is = "cert"

Undisturbed(subject) == subject \notin overlapped /\ CA \notin overlapped

(* Type correctness of the files and of the commands under way. *)
TypeOK ==
  /\ disk \in [Path -> Content]
  /\ job \in [Operator -> Job]
  /\ used \subseteq Key
  /\ overlapped \subseteq User \union {CA}

(* A user's certificate is only there in full next to the private and the  *)
(* public key it is for, under the user's name, and verifies with the CA   *)
(* certificate that the bundles will carry once that is there in full:     *)
(* wherever earlier attempts to issue it, or to initialise the CA, were    *)
(* cut off (ca.py:74-96, 125-142).  That is so unless two commands issued  *)
(* it, or initialised the CA, at once: both then pass the check, and what  *)
(* is left may be of either.                                               *)
IssuedWhole ==
  \A u \in User : Undisturbed(u) /\ whole_cert(users(u, "cert")) =>
    LET cert == disk[users(u, "cert")] IN
      /\ cert.subject = u
      /\ disk[users(u, "private")] = Private(cert.key)
      /\ disk[users(u, "public")] = Public(cert.key)
      /\ disk[ca_data("private")] = Private(cert.by)
      /\ whole_cert(ca_data("cert")) => disk[ca_data("cert")].key = cert.by

(* The copies agree: what a bundle or the server's directory holds in full *)
(* is of the certificate that was issued, so a file that is encrypted for  *)
(* a registered key can be decrypted from the user's bundle, also when a   *)
(* copy was made while the original was being written, or two commands     *)
(* copied at once (Makefile:86-115); unless two issued the original.       *)
CopiesAgree ==
  \A u \in User : Undisturbed(u) =>
    /\ \A p \in {client(u, "cert"), pubkeys(u)} :
         whole_cert(p) => disk[p] = disk[users(u, "cert")] /\ whole_cert(users(u, "cert"))
    /\ disk[client(u, "private")].is = "private" =>
         \A p \in {client(u, "cert"), pubkeys(u)} :
           whole_cert(p) => disk[client(u, "private")] = Private(disk[p].key)
    /\ whole_cert(client(u, "ca_cert")) => disk[client(u, "ca_cert")] = disk[ca_data("cert")]

(* Once a certificate is there in full and no command is past the check to *)
(* issue it, no command changes it or its keys: every later issue or user  *)
(* is refused, at whatever point the operators are, also when earlier ones *)
(* overlapped.  While one still is past the check, nothing is promised: it *)
(* replaces what another has written (ca.py:125 looks, 140-142 write).     *)
Settled(u) ==
  /\ whole_cert(users(u, "cert"))
  /\ \A o \in Operator : ~ (Doing(job[o], "issue") /\ job[o].user = u)

IssuedForGood ==
  [][\A u \in User : Settled(u) =>
       /\ Settled(u)'
       /\ \A f \in {"private", "public", "cert"} : disk'[users(u, f)] = disk[users(u, f)]]_vars

=============================================================================
