----------------------------- MODULE PkiProofs ------------------------------
(***************************************************************************)
(* As long as no command is forced, what was issued belongs together and   *)
(* its copies agree, unless two commands issued it at once; and once no    *)
(* command is past the check to issue a certificate that is there in full, *)
(* none undoes it: for any users, operators and commands, and wherever     *)
(* commands were cut off.                                                  *)
(*                                                                         *)
(* The certificate is written last and its presence refuses the next       *)
(* issue, so the invariant says of every command that writes how far it    *)
(* has got, and that the files behind it are in place.  What it says of a  *)
(* user's files holds while the user is Undisturbed.                       *)
(***************************************************************************)
EXTENDS Pki, TLAPS

(* What is left of a command is targets for CA or for a user.               *)
Allowed(j) ==
  \A i \in DOMAIN j.rest : IF j.rest[i] = "init" THEN j.user = CA ELSE j.user \in User

(* A command under way is not forced, and is where its targets take it.     *)
RunOK(j) ==
  /\ j.pc # "idle" => j.rest # <<>> /\ ~ j.force /\ Allowed(j)
  /\ j.pc = "sign" => Head(j.rest) = "issue"
  /\ j.pc = "write" => j.written \in 0..2 /\ (Head(j.rest) = "server-register" => j.written = 0)
  /\ j.pc # "write" => ~ j.open

Last(j) == j.written = 2 /\ j.open

(* How far init has got, and issue.                                         *)
InitFar(j) ==
  /\ IF j.written > 0 THEN disk[ca_data("private")] = Private(j.key)
     ELSE disk[ca_data("private")].is # "private"
  /\ j.open /\ j.written = 0 => disk[ca_data("private")] = Torn
  /\ disk[ca_data("cert")] = IF Last(j) THEN Torn ELSE Absent

InitOK(j) ==
  Doing(j, "init") => j.key \in Key /\ (CA \notin overlapped => InitFar(j))

IssueFar(j) ==
  /\ exists(ca_data("cert"))
  /\ j.pc = "sign" => disk[users(j.user, "cert")] = Absent
  /\ j.pc = "write" =>
       /\ disk[ca_data("private")] = Private(j.by)
       /\ j.open /\ j.written = 0 => disk[users(j.user, "private")] = Torn
       /\ j.open /\ j.written = 1 => disk[users(j.user, "public")] = Torn
       /\ j.written > 0 => disk[users(j.user, "private")] = Private(j.key)
       /\ j.written > 1 => disk[users(j.user, "public")] = Public(j.key)
       /\ disk[users(j.user, "cert")] = IF Last(j) THEN Torn ELSE Absent

IssueOK(j) ==
  Doing(j, "issue") =>
    /\ j.pc = "write" => j.key \in Key /\ j.by \in Key
    /\ Undisturbed(j.user) => IssueFar(j)

CopyOK(j) ==
  Doing(j, "client-setup") \/ Doing(j, "server-register") => exists(users(j.user, "cert"))

JobOK(j) == RunOK(j) /\ InitOK(j) /\ IssueOK(j) /\ CopyOK(j)
JobsOK == \A o \in Operator : JobOK(job[o])

(* Two operators past the check of init, or of issue for one user, have     *)
(* made that subject an overlapped one.                                     *)
OneAtATime ==
  \A x, y \in Operator : \A t \in {"init", "issue"} :
    x # y /\ Doing(job[x], t) /\ Doing(job[y], t) /\ job[x].user = job[y].user =>
      job[x].user \in overlapped

(* The CA's key is in place before its certificate is begun.                *)
CaInPlace ==
  CA \notin overlapped =>
    /\ exists(ca_data("cert")) => disk[ca_data("private")].is = "private"
    /\ whole_cert(ca_data("cert")) => disk[ca_data("private")] = Private(disk[ca_data("cert")].key)

(* A user's key is in place before the certificate is begun.                *)
KeyInPlace ==
  \A u \in User :
    Undisturbed(u) /\ exists(users(u, "cert")) =>
      disk[users(u, "private")].is = "private" /\ disk[ca_data("private")].is = "private"

Together(u) ==
  whole_cert(users(u, "cert")) =>
    LET cert == disk[users(u, "cert")] IN
      /\ cert.subject = u
      /\ disk[users(u, "private")] = Private(cert.key)
      /\ disk[users(u, "public")] = Public(cert.key)
      /\ disk[ca_data("private")] = Private(cert.by)

IssuedTogether == \A u \in User : Undisturbed(u) => Together(u)

(* Copies are of what is there now.                                         *)
Current(u) ==
  /\ whole_cert(client(u, "cert")) => disk[client(u, "cert")] = disk[users(u, "cert")]
  /\ whole_cert(pubkeys(u)) => disk[pubkeys(u)] = disk[users(u, "cert")]
  /\ disk[client(u, "private")].is = "private" =>
       exists(users(u, "cert")) /\ disk[client(u, "private")] = disk[users(u, "private")]
  /\ whole_cert(client(u, "ca_cert")) => disk[client(u, "ca_cert")] = disk[ca_data("cert")]

CopiesCurrent == \A u \in User : Undisturbed(u) => Current(u)

InPlace == CaInPlace /\ KeyInPlace /\ IssuedTogether /\ CopiesCurrent

IInv == TypeOK /\ JobsOK /\ OneAtATime /\ InPlace

----------------------------------------------------------------------------
(* Contents and paths of different kinds differ.                            *)
LEMMA Kinds ==
  /\ Absent.is = "absent" /\ Torn.is = "torn" /\ Mixed.is = "mixed"
  /\ Torn # Absent /\ Mixed # Absent
  /\ \A k : /\ Private(k).is = "private" /\ Private(k).key = k /\ Private(k) # Absent
            /\ Public(k).is = "public" /\ Public(k) # Absent
  /\ \A u, k, b : LET c == issue_certificate(u, k, b) IN
       c.is = "cert" /\ c.subject = u /\ c.key = k /\ c.by = b /\ c # Absent
  BY DEF Absent, Torn, Mixed, Private, Public, issue_certificate

LEMMA PathsApart ==
  /\ \A f, g : ca_data(f) = ca_data(g) => f = g
  /\ \A u, v, f, g : users(u, f) = users(v, g) => u = v /\ f = g
  /\ \A u, v, f, g : client(u, f) = client(v, g) => u = v /\ f = g
  /\ \A u, v : pubkeys(u) = pubkeys(v) => u = v
  /\ \A u, v, f, g : /\ ca_data(f) # users(u, g) /\ ca_data(f) # client(u, g) /\ ca_data(f) # pubkeys(u)
                     /\ users(u, f) # client(v, g) /\ users(u, f) # pubkeys(v)
                     /\ client(u, f) # pubkeys(v)
  BY DEF ca_data, users, client, pubkeys

LEMMA PathTypes ==
  /\ \A f \in {"private", "public", "cert"} : ca_data(f) \in Path
  /\ \A u \in User : /\ \A f \in {"private", "public", "cert"} : users(u, f) \in Path
                     /\ \A f \in {"cert", "private", "ca_cert"} : client(u, f) \in Path
                     /\ pubkeys(u) \in Path
  BY DEF Path, ca_data, users, client, pubkeys

LEMMA ContentTypes ==
  /\ Absent \in Content /\ Torn \in Content /\ Mixed \in Content
  /\ \A k \in Key : Private(k) \in Content /\ Public(k) \in Content
  /\ \A u \in User \union {CA}, k \in Key, b \in Key : issue_certificate(u, k, b) \in Content
  BY DEF Content, Absent, Torn, Mixed, Private, Public, issue_certificate

LEMMA PrivateContent == \A c \in Content : c.is = "private" => \E k \in Key : c = Private(k)
  BY DEF Content, Absent, Torn, Mixed, Private, Public

(* The files of a target one by one.                                        *)
LEMMA Items ==
  ASSUME NEW j, NEW w \in 0..2
  PROVE  /\ Len(InitFiles(j)) = 3 /\ Len(IssueFiles(j)) = 3 /\ Len(SetupFiles(j)) = 3
         /\ Len(RegisterFiles(j)) = 1
         /\ InitFiles(j)[w + 1] =
              IF w = 0 THEN <<ca_data("private"), Private(j.key)>>
              ELSE IF w = 1 THEN <<ca_data("public"), Public(j.key)>>
              ELSE <<ca_data("cert"), issue_certificate(CA, j.key, j.key)>>
         /\ IssueFiles(j)[w + 1] =
              IF w = 0 THEN <<users(j.user, "private"), Private(j.key)>>
              ELSE IF w = 1 THEN <<users(j.user, "public"), Public(j.key)>>
              ELSE <<users(j.user, "cert"), issue_certificate(j.user, j.key, j.by)>>
         /\ SetupFiles(j)[w + 1] =
              IF w = 0 THEN <<client(j.user, "cert"), users(j.user, "cert")>>
              ELSE IF w = 1 THEN <<client(j.user, "private"), users(j.user, "private")>>
              ELSE <<client(j.user, "ca_cert"), ca_data("cert")>>
         /\ w = 0 => RegisterFiles(j)[w + 1] = <<pubkeys(j.user), users(j.user, "cert")>>
<1>1. w = 0 \/ w = 1 \/ w = 2
  OBVIOUS
<1> QED
  BY <1>1 DEF InitFiles, IssueFiles, SetupFiles, RegisterFiles

----------------------------------------------------------------------------
(* Steps that write nothing.                                                *)
LEMMA JobStep ==
  ASSUME IInv, NEW o \in Operator, NEW j \in Job, JobOK(j), job' = [job EXCEPT ![o] = j],
         UNCHANGED disk, used' \subseteq Key,
         overlapped \subseteq overlapped', overlapped' \subseteq User \union {CA},
         \A x \in Operator \ {o} : \A t \in {"init", "issue"} :
           Doing(j, t) /\ Doing(job[x], t) /\ j.user = job[x].user => j.user \in overlapped'
  PROVE  IInv'
<1>1. TypeOK'
  BY DEF IInv, TypeOK
<1>2. \A x \in Operator : job'[x] = IF x = o THEN j ELSE job[x]
  BY DEF IInv, TypeOK
<1>3. JobsOK'
  <2> SUFFICES ASSUME NEW x \in Operator PROVE JobOK(job[x])'
    BY DEF JobsOK
  <2> DEFINE i == IF x = o THEN j ELSE job[x]
  <2>1. JobOK(i) /\ job'[x] = i
    BY <1>2 DEF IInv, JobsOK
  <2> HIDE DEF i
  <2> QED
    BY <2>1
       DEF JobOK, RunOK, Allowed, InitOK, InitFar, IssueOK, IssueFar, CopyOK, Doing, Last, Undisturbed, exists
<1>4. OneAtATime'
  <2> SUFFICES ASSUME NEW x \in Operator, NEW y \in Operator, NEW t \in {"init", "issue"}, x # y,
                      Doing(job'[x], t), Doing(job'[y], t), job'[x].user = job'[y].user
               PROVE  job'[x].user \in overlapped'
    BY DEF OneAtATime, Doing
  <2>1. CASE x # o /\ y # o
    BY <1>2, <2>1 DEF IInv, OneAtATime
  <2>2. CASE x = o
    BY <1>2, <2>2
  <2>3. CASE y = o
    BY <1>2, <2>3
  <2> QED
    BY <2>1, <2>2, <2>3
<1>5. InPlace'
  BY DEF IInv, InPlace, CaInPlace, KeyInPlace, IssuedTogether, Together, CopiesCurrent, Current, Undisturbed,
         exists, whole_cert
<1> QED
  BY <1>1, <1>3, <1>4, <1>5 DEF IInv

(* So are those by which nobody comes past a check.                         *)
LEMMA StageStep ==
  ASSUME IInv, NEW o \in Operator, NEW j \in Job, JobOK(j), job' = [job EXCEPT ![o] = j],
         UNCHANGED <<disk, overlapped>>, used' \subseteq Key,
         \A t \in {"init", "issue"} : Doing(j, t) => Doing(job[o], t) /\ j.user = job[o].user
  PROVE  IInv'
<1>1. \A x \in Operator \ {o} : \A t \in {"init", "issue"} :
        Doing(j, t) /\ Doing(job[x], t) /\ j.user = job[x].user => j.user \in overlapped'
  BY DEF IInv, OneAtATime
<1>2. /\ UNCHANGED disk /\ overlapped \subseteq overlapped'
      /\ overlapped' \subseteq User \union {CA}
  BY DEF IInv, TypeOK
<1> QED
  BY <1>1, <1>2, JobStep

LEMMA IdleJob == Idle \in Job /\ JobOK(Idle) /\ \A t : ~ Doing(Idle, t)
  BY DEF Idle, Job, JobOK, RunOK, InitOK, IssueOK, CopyOK, Doing

LEMMA ExitPreserves ==
  ASSUME IInv, NEW o \in Operator, Exit(o) PROVE IInv'
  BY IdleJob, StageStep DEF Exit, Goto, IInv, TypeOK

LEMMA StartPreserves ==
  ASSUME IInv, Unforced, NEW o \in Operator, Start(o) PROVE IInv'
<1>1. PICK c \in Runs[o] : job' = [job EXCEPT ![o] = Started(c)]
  BY DEF Start, Goto
<1> DEFINE j == Started(c)
<1>2. c \in Command /\ ~ c.force
  BY PkiConstants DEF Unforced
<1>3. /\ c.targets \in Seq(Target) /\ c.targets # <<>> /\ c.force \in BOOLEAN /\ c.user \in User \union {CA}
      /\ \A i \in DOMAIN c.targets : IF c.targets[i] = "init" THEN c.user = CA ELSE c.user \in User
  <2>1. c.force \in BOOLEAN
    BY <1>2 DEF Command
  <2>2. \/ c.user = CA /\ c.targets = <<"init">>
        \/ c.user \in User /\ \E t \in Target \ {"init"} : c.targets = <<t>>
        \/ c.user \in User /\ c.targets = user_target
    BY <1>2 DEF Command
  <2>3. CASE c.user = CA /\ c.targets = <<"init">>
    BY <2>1, <2>3 DEF Target
  <2>4. CASE c.user \in User /\ \E t \in Target \ {"init"} : c.targets = <<t>>
    BY <2>1, <2>4
  <2>5. CASE c.user \in User /\ c.targets = user_target
    BY <2>1, <2>5 DEF Target, user_target
  <2> QED
    BY <2>2, <2>3, <2>4, <2>5
<1>4. j \in Job
  BY <1>3 DEF Started, Job
<1>5. j.pc = "next" /\ j.rest = c.targets /\ j.user = c.user /\ j.force = c.force /\ j.open = FALSE
  BY DEF Started
<1>6. JobOK(j)
  BY <1>2, <1>3, <1>5 DEF JobOK, RunOK, InitOK, IssueOK, CopyOK, Doing, Allowed
<1>7. \A t : ~ Doing(j, t)
  BY <1>5 DEF Doing
<1> QED
  BY <1>1, <1>4, <1>6, <1>7, StageStep DEF Start, IInv, TypeOK

(* What the fields of a command under way are when it begins to write.      *)
LEMMA WritingFields ==
  ASSUME NEW j \in Job
  PROVE  /\ Writing(j) \in Job
         /\ Writing(j).pc = "write" /\ Writing(j).written = 0 /\ Writing(j).rest = j.rest
         /\ Writing(j).user = j.user /\ Writing(j).force = j.force /\ Writing(j).open = j.open
<1>1. [j EXCEPT !.pc = "write"] \in Job
  BY DEF Job
<1>2. [[j EXCEPT !.pc = "write"] EXCEPT !.written = 0] \in Job
  <2> DEFINE i == [j EXCEPT !.pc = "write"]
  <2>1. i \in Job /\ 0 \in 0..3
    BY <1>1
  <2> HIDE DEF i
  <2>2. [i EXCEPT !.written = 0] \in Job
    BY <2>1 DEF Job
  <2> QED
    BY <2>2 DEF i
<1>3. Writing(j) = [[j EXCEPT !.pc = "write"] EXCEPT !.written = 0]
  BY DEF Writing
<1> QED
  BY <1>2, <1>3 DEF Job

(* Whoever passes a check while another is past it makes an overlap.        *)
LEMMA OverlapSeen ==
  ASSUME IInv, NEW o \in Operator, NEW t \in {"init", "issue"}
  PROVE  /\ overlapped \union Overlap(o, t) \subseteq User \union {CA}
         /\ \A x \in Operator \ {o} :
              Doing(job[x], t) /\ job[o].user = job[x].user => job[o].user \in overlapped \union Overlap(o, t)
  BY DEF IInv, TypeOK, Job, Overlap

LEMMA cmd_initPreserves ==
  ASSUME IInv, NEW o \in Operator, cmd_init(o) PROVE IInv'
<1>1. job[o] \in Job /\ JobOK(job[o]) /\ At(o, "init")
  BY DEF IInv, TypeOK, JobsOK, cmd_init
<1>2. CASE Exit(o)
  BY <1>2, ExitPreserves
<1>3. CASE ~ Exit(o)
  <2>1. /\ disk[ca_data("private")] = Absent /\ disk[ca_data("cert")] = Absent
        /\ UNCHANGED disk /\ overlapped' = overlapped \union Overlap(o, "init")
    BY <1>1, <1>3 DEF cmd_init, exists, At, JobOK, RunOK
  <2>2. PICK k \in Key \ used : used' = used \union {k} /\ job' = [job EXCEPT ![o] = [Writing(job[o]) EXCEPT !.key = k]]
    BY <1>1, <1>3 DEF cmd_init, Goto, At, JobOK, RunOK
  <2> DEFINE j == [Writing(job[o]) EXCEPT !.key = k]
  <2>3. /\ j \in Job /\ j.key = k /\ j.pc = "write" /\ j.written = 0 /\ j.rest = job[o].rest
        /\ j.user = job[o].user /\ j.force = job[o].force /\ j.open = job[o].open
    BY <1>1, WritingFields DEF Job
  <2> HIDE DEF j
  <2>4. JobOK(j)
    <3>1. RunOK(j)
      BY <1>1, <2>3 DEF At, JobOK, RunOK, Allowed
    <3>2. InitOK(j)
      <4>1. j.key \in Key /\ ~ j.open /\ j.written = 0
        BY <1>1, <2>2, <2>3 DEF At, JobOK, RunOK
      <4> QED
        BY <2>1, <4>1, Kinds DEF InitOK, InitFar, Last
    <3>3. IssueOK(j) /\ CopyOK(j)
      BY <1>1, <2>3 DEF At, IssueOK, CopyOK, Doing
    <3> QED
      BY <3>1, <3>2, <3>3 DEF JobOK
  <2>5. used' \subseteq Key
    BY <2>2 DEF IInv, TypeOK
  <2>6. /\ overlapped' \subseteq User \union {CA}
        /\ \A x \in Operator \ {o} : \A t \in {"init", "issue"} :
             Doing(j, t) /\ Doing(job[x], t) /\ j.user = job[x].user => j.user \in overlapped'
    BY <1>1, <2>1, <2>3, OverlapSeen DEF Doing, At
  <2> QED
    BY <2>1, <2>2, <2>3, <2>4, <2>5, <2>6, JobStep DEF j
<1> QED
  BY <1>2, <1>3

LEMMA cmd_issuePreserves ==
  ASSUME IInv, NEW o \in Operator, cmd_issue(o) PROVE IInv'
<1>1. job[o] \in Job /\ JobOK(job[o]) /\ At(o, "issue")
  BY DEF IInv, TypeOK, JobsOK, cmd_issue
<1>2. CASE ~ MayIssue(o)
  BY <1>2, ExitPreserves DEF cmd_issue
<1>3. CASE MayIssue(o)
  <2> DEFINE j == [job[o] EXCEPT !.pc = "sign"]
  <2>1. /\ job' = [job EXCEPT ![o] = j] /\ UNCHANGED <<disk, used>>
        /\ overlapped' = overlapped \union Overlap(o, "issue")
    BY <1>3 DEF cmd_issue, Goto
  <2>2. /\ j \in Job /\ j.pc = "sign" /\ j.rest = job[o].rest /\ j.user = job[o].user
        /\ j.force = job[o].force /\ j.open = job[o].open
    BY <1>1 DEF Job
  <2> HIDE DEF j
  <2>3. JobOK(j)
    <3>1. exists(ca_data("cert")) /\ disk[users(j.user, "cert")] = Absent
      BY <1>1, <1>3, <2>2 DEF At, MayIssue, exists, JobOK, RunOK
    <3>2. RunOK(j)
      BY <1>1, <2>2 DEF At, JobOK, RunOK, Allowed
    <3> QED
      BY <1>1, <2>2, <3>1, <3>2 DEF At, JobOK, InitOK, IssueOK, IssueFar, CopyOK, Doing
  <2>4. /\ overlapped' \subseteq User \union {CA}
        /\ \A x \in Operator \ {o} : \A t \in {"init", "issue"} :
             Doing(j, t) /\ Doing(job[x], t) /\ j.user = job[x].user => j.user \in overlapped'
    BY <1>1, <2>1, <2>2, OverlapSeen DEF Doing, At
  <2> QED
    BY <2>1, <2>2, <2>3, <2>4, JobStep DEF IInv, TypeOK
<1> QED
  BY <1>2, <1>3

LEMMA SignPreserves ==
  ASSUME IInv, NEW o \in Operator, Sign(o) PROVE IInv'
<1>1. job[o] \in Job /\ JobOK(job[o]) /\ job[o].pc = "sign" /\ Head(job[o].rest) = "issue"
  BY DEF IInv, TypeOK, JobsOK, JobOK, RunOK, Sign
<1>2. CASE Exit(o)
  BY <1>2, ExitPreserves
<1>3. CASE ~ Exit(o)
  <2>1. disk[ca_data("private")].is = "private" /\ UNCHANGED <<disk, overlapped>>
    BY <1>3 DEF Sign
  <2>2. PICK k \in Key \ used :
          used' = used \union {k} /\ job' = [job EXCEPT ![o] = [Writing(job[o]) EXCEPT !.key = k, !.by = CaKey]]
    BY <1>3 DEF Sign, Goto
  <2>3. CaKey \in Key /\ disk[ca_data("private")] = Private(CaKey)
    <3>1. PICK b \in Key : disk[ca_data("private")] = Private(b)
      BY <2>1, PrivateContent, PathTypes DEF IInv, TypeOK
    <3> QED
      BY <3>1, Kinds DEF CaKey
  <2> DEFINE j == [Writing(job[o]) EXCEPT !.key = k, !.by = CaKey]
  <2>4. /\ j \in Job /\ j.key = k /\ j.by = CaKey /\ j.pc = "write" /\ j.written = 0 /\ j.rest = job[o].rest
        /\ j.user = job[o].user /\ j.force = job[o].force /\ j.open = job[o].open
    BY <1>1, <2>3, WritingFields DEF Job
  <2> HIDE DEF j
  <2>5. JobOK(j)
    <3>1. RunOK(j)
      BY <1>1, <2>4 DEF JobOK, RunOK, Allowed
    <3>2. Undisturbed(j.user) => exists(ca_data("cert")) /\ disk[users(j.user, "cert")] = Absent
      BY <1>1, <2>4 DEF JobOK, IssueOK, IssueFar, Doing
    <3>4. IssueOK(j)
      <4>1. j.key \in Key /\ j.by \in Key /\ disk[ca_data("private")] = Private(j.by)
        BY <2>2, <2>3, <2>4
      <4>2. j.pc = "write" /\ j.written = 0 /\ ~ j.open
        BY <1>1, <2>4 DEF JobOK, RunOK
      <4>3. ~ Last(j) /\ ~ (j.written > 0) /\ ~ (j.written > 1) /\ j.pc # "sign"
        BY <4>2 DEF Last
      <4> QED
        BY <3>2, <4>1, <4>2, <4>3 DEF IssueOK, IssueFar
    <3>3. InitOK(j) /\ CopyOK(j)
      BY <1>1, <2>4 DEF InitOK, CopyOK, Doing
    <3> QED
      BY <3>1, <3>3, <3>4 DEF JobOK
  <2>6. used' \subseteq Key
    BY <2>2 DEF IInv, TypeOK
  <2>7. \A t : Doing(j, t) => Doing(job[o], t) /\ j.user = job[o].user
    BY <1>1, <2>4 DEF Doing
  <2> QED
    BY <2>1, <2>2, <2>4, <2>5, <2>6, <2>7, StageStep DEF j
<1> QED
  BY <1>2, <1>3

LEMMA CopyBeginsPreserves ==
  ASSUME IInv, NEW o \in Operator, client_setup(o) \/ server_register(o) PROVE IInv'
<1>1. /\ job[o] \in Job /\ JobOK(job[o]) /\ job[o].pc = "next"
      /\ Head(job[o].rest) \in {"client-setup", "server-register"}
  BY DEF IInv, TypeOK, JobsOK, client_setup, server_register, At
<1>2. CASE Exit(o)
  BY <1>2, ExitPreserves
<1>3. CASE ~ Exit(o)
  <2>1. /\ exists(users(job[o].user, "cert")) /\ job' = [job EXCEPT ![o] = Writing(job[o])]
        /\ UNCHANGED <<disk, used, overlapped>>
    BY <1>3 DEF client_setup, server_register, Goto
  <2>2. JobOK(Writing(job[o]))
    <3>1. RunOK(Writing(job[o]))
      BY <1>1, WritingFields DEF JobOK, RunOK, Allowed
    <3>2. CopyOK(Writing(job[o]))
      BY <1>1, <2>1, WritingFields DEF CopyOK
    <3>3. InitOK(Writing(job[o])) /\ IssueOK(Writing(job[o]))
      BY <1>1, WritingFields DEF InitOK, IssueOK, Doing
    <3> QED
      BY <3>1, <3>2, <3>3 DEF JobOK
  <2>3. \A t \in {"init", "issue"} : ~ Doing(Writing(job[o]), t)
    BY <1>1, WritingFields DEF Doing
  <2> QED
    BY <1>1, <2>1, <2>2, <2>3, WritingFields, StageStep DEF IInv, TypeOK
<1> QED
  BY <1>2, <1>3

----------------------------------------------------------------------------
(* Steps that write a file.                                                 *)
LEMMA Written ==
  ASSUME TypeOK, NEW o \in Operator, NEW p \in Path, NEW c \in Content, NEW n \in Job,
         disk' = [disk EXCEPT ![p] = c], job' = [job EXCEPT ![o] = n], UNCHANGED <<used, overlapped>>
  PROVE  /\ TypeOK'
         /\ \A q \in Path : disk'[q] = IF q = p THEN c ELSE disk[q]
         /\ \A x \in Operator : job'[x] = IF x = o THEN n ELSE job[x]
  BY DEF TypeOK

(* What the command at a target knows of itself.                            *)
LEMMA AtWork ==
  ASSUME IInv, NEW o \in Operator, job[o].pc = "write"
  PROVE  /\ job[o] \in Job /\ JobOK(job[o])
         /\ job[o].rest # <<>> /\ Head(job[o].rest) \in Target
         /\ job[o].written \in 0..2
         /\ IF Head(job[o].rest) = "init" THEN job[o].user = CA ELSE job[o].user \in User
<1>1. job[o] \in Job /\ JobOK(job[o]) /\ job[o].rest \in Seq(Target) /\ job[o].rest # <<>>
  BY DEF IInv, TypeOK, JobsOK, JobOK, RunOK, Job
<1>2. 1 \in DOMAIN job[o].rest /\ Head(job[o].rest) = job[o].rest[1] /\ job[o].rest[1] \in Target
  BY <1>1
<1> QED
  BY <1>1, <1>2 DEF JobOK, RunOK, Allowed

(* So does one past the check of init or of issue.                          *)
LEMMA AtStage ==
  ASSUME IInv, NEW o \in Operator, job[o].pc # "idle"
  PROVE  /\ Head(job[o].rest) \in Target
         /\ IF Head(job[o].rest) = "init" THEN job[o].user = CA ELSE job[o].user \in User
<1>1. job[o] \in Job /\ RunOK(job[o]) /\ job[o].rest \in Seq(Target) /\ job[o].rest # <<>>
  BY DEF IInv, TypeOK, JobsOK, JobOK, RunOK, Job
<1>2. 1 \in DOMAIN job[o].rest /\ Head(job[o].rest) = job[o].rest[1] /\ job[o].rest[1] \in Target
  BY <1>1
<1> QED
  BY <1>1, <1>2 DEF RunOK, Allowed

(* A file of one command is no file that another relies on.                 *)
LEMMA OthersKeep ==
  ASSUME IInv, NEW o \in Operator, job[o].pc = "write",
         NEW p \in Path, NEW c \in Content, NEW n \in Job,
         disk' = [disk EXCEPT ![p] = c], job' = [job EXCEPT ![o] = n], UNCHANGED <<used, overlapped>>,
         \/ /\ Head(job[o].rest) = "init" /\ (c = Absent => disk[p] = Absent)
            /\ \E f : p = ca_data(f)
            /\ Last(job[o]) => p = ca_data("cert")
         \/ /\ Head(job[o].rest) = "issue" /\ (c = Absent => disk[p] = Absent)
            /\ \E f : p = users(job[o].user, f)
         \/ /\ Head(job[o].rest) \in {"client-setup", "server-register"}
            /\ (\E u, f : p = client(u, f)) \/ (\E u : p = pubkeys(u)),
         NEW x \in Operator, x # o
  PROVE  JobOK(job[x])'
<1>1. /\ \A q \in Path : disk'[q] = IF q = p THEN c ELSE disk[q]
      /\ job'[x] = job[x]
  BY DEF IInv, TypeOK
<1>2. job[x] \in Job /\ JobOK(job[x])
  BY DEF IInv, TypeOK, JobsOK
<1>3. RunOK(job[x])'
  BY <1>1, <1>2 DEF JobOK, RunOK, Allowed
<1>4. job[x].pc # "idle" /\ Head(job[x].rest) # "init" => job[x].user \in User
  <2> HAVE job[x].pc # "idle" /\ Head(job[x].rest) # "init"
  <2>1. 1 \in DOMAIN job[x].rest /\ Head(job[x].rest) = job[x].rest[1]
    BY <1>2 DEF JobOK, RunOK, Job
  <2> QED
    BY <1>2, <2>1 DEF JobOK, RunOK, Allowed
<1>5. \A u \in User : exists(users(u, "cert")) => exists(users(u, "cert"))'
  <2>1. \A u \in User : (c = Absent => disk[p] = Absent) \/ users(u, "cert") # p
    BY PathsApart
  <2> QED
    BY <1>1, <2>1, PathTypes DEF exists
<1>6. CopyOK(job[x])'
  BY <1>1, <1>2, <1>4, <1>5 DEF JobOK, CopyOK, Doing
<1>7. InitOK(job[x])'
  <2>1. SUFFICES ASSUME Doing(job[x], "init"), CA \notin overlapped PROVE InitFar(job[x])'
    BY <1>1, <1>2 DEF JobOK, InitOK, Doing
  <2>2. Head(job[o].rest) # "init"
    <3>1. Doing(job[o], "init") => job[o].user = CA
      BY AtWork DEF Doing
    <3>2. job[x].user = CA
      BY <1>2, <2>1, AtStage DEF Doing
    <3> QED
      BY <2>1, <3>1, <3>2 DEF IInv, OneAtATime, Doing
  <2>3. \A f : ca_data(f) # p
    BY <2>2, PathsApart
  <2>4. disk'[ca_data("private")] = disk[ca_data("private")] /\ disk'[ca_data("cert")] = disk[ca_data("cert")]
    BY <1>1, <2>3, PathTypes
  <2> QED
    BY <1>1, <1>2, <2>1, <2>4 DEF JobOK, InitOK, InitFar, Last
<1>8. IssueOK(job[x])'
  <2>1. SUFFICES ASSUME Doing(job[x], "issue"), Undisturbed(job[x].user) PROVE IssueFar(job[x])'
    BY <1>1, <1>2 DEF JobOK, IssueOK, Doing, Undisturbed
  <2>2. job[x].user \in User /\ disk[ca_data("cert")] # Absent
    BY <1>2, <1>4, <2>1 DEF JobOK, IssueOK, IssueFar, Doing, exists
  <2>3. Head(job[o].rest) = "init" => p = ca_data("cert")
    <3>1. Head(job[o].rest) = "init" => Last(job[o])
      BY <2>1, <2>2, AtWork DEF JobOK, InitOK, InitFar, Doing, Undisturbed
    <3> QED
      BY <3>1, PathsApart
  <2>4. \A f : users(job[x].user, f) # p
    <3>1. Head(job[o].rest) = "issue" => job[o].user # job[x].user
      BY <2>1 DEF IInv, OneAtATime, Doing, Undisturbed
    <3> QED
      BY <3>1, PathsApart
  <2>5. ca_data("private") # p
    BY <2>3, PathsApart
  <2>6. ca_data("cert") = p => c # Absent
    BY <2>2, PathsApart
  <2>7. /\ disk'[ca_data("private")] = disk[ca_data("private")]
        /\ disk'[ca_data("cert")] # Absent
        /\ \A f \in {"private", "public", "cert"} : disk'[users(job[x].user, f)] = disk[users(job[x].user, f)]
    BY <1>1, <2>2, <2>4, <2>5, <2>6, PathTypes
  <2> QED
    BY <1>1, <1>2, <2>1, <2>7 DEF JobOK, IssueOK, IssueFar, Last, exists
<1> QED
  BY <1>3, <1>6, <1>7, <1>8 DEF JobOK

(* When every command is right with what it wrote, what is on disk is too.  *)
LEMMA InitWrites ==
  ASSUME IInv, NEW o \in Operator, job[o].pc = "write", Head(job[o].rest) = "init", CA \notin overlapped,
         NEW p \in Path, NEW c \in Content, NEW n \in Job,
         disk' = [disk EXCEPT ![p] = c], job' = [job EXCEPT ![o] = n], UNCHANGED <<used, overlapped>>,
         \/ p = ca_data("private") /\ job[o].written = 0
         \/ p = ca_data("public")
         \/ p = ca_data("cert") /\ job[o].written = 2 /\ c = Torn /\ ~ job[o].open
         \/ /\ p = ca_data("cert") /\ job[o].written = 2 /\ job[o].open
            /\ c = issue_certificate(CA, job[o].key, job[o].key)
  PROVE  InPlace'
<1> DEFINE j == job[o]
<1>1. \A q \in Path : disk'[q] = IF q = p THEN c ELSE disk[q]
  BY DEF IInv, TypeOK
<1>3. \A u \in User : /\ \A f \in {"private", "public", "cert"} : disk'[users(u, f)] = disk[users(u, f)]
                      /\ \A f \in {"cert", "private", "ca_cert"} : disk'[client(u, f)] = disk[client(u, f)]
                      /\ disk'[pubkeys(u)] = disk[pubkeys(u)]
  BY <1>1, PathTypes, PathsApart
<1>4. j.written \in 0..2 /\ InitFar(j)
  BY AtWork DEF JobOK, InitOK, Doing
<1>8. \A u \in User : Undisturbed(u)' => Undisturbed(u)
  BY DEF Undisturbed
<1>5. CASE p = ca_data("private") /\ j.written = 0
  <2>1. /\ disk[ca_data("private")].is # "private" /\ disk[ca_data("cert")] = Absent
        /\ disk'[ca_data("cert")] = Absent
    BY <1>1, <1>4, <1>5, PathTypes, PathsApart DEF InitFar, Last
  <2>2. \A u \in User : Undisturbed(u) => disk[users(u, "cert")] = Absent
    BY <2>1 DEF IInv, InPlace, KeyInPlace, exists
  <2>3. CaInPlace'
    BY <2>1, Kinds DEF CaInPlace, exists, whole_cert
  <2>4. KeyInPlace'
    BY <1>3, <1>8, <2>2 DEF KeyInPlace, exists
  <2>5. IssuedTogether'
    BY <1>3, <1>8, <2>2, Kinds DEF IssuedTogether, Together, whole_cert
  <2>6. CopiesCurrent'
    BY <1>3, <1>8, <2>1, <2>2, Kinds DEF IInv, InPlace, CopiesCurrent, Current, exists, whole_cert
  <2> QED
    BY <2>3, <2>4, <2>5, <2>6 DEF InPlace
<1>6. CASE p = ca_data("public")
  <2>1. disk'[ca_data("private")] = disk[ca_data("private")] /\ disk'[ca_data("cert")] = disk[ca_data("cert")]
    BY <1>1, <1>6, PathTypes, PathsApart
  <2> QED
    BY <1>3, <1>8, <2>1
       DEF IInv, InPlace, CaInPlace, KeyInPlace, IssuedTogether, Together, CopiesCurrent, Current, exists,
           whole_cert
<1>7. CASE p = ca_data("cert") /\ j.written = 2 /\ (c = Torn \/ c = issue_certificate(CA, j.key, j.key))
  <2>1. /\ disk[ca_data("private")] = Private(j.key)
        /\ ~ whole_cert(ca_data("cert"))
        /\ disk'[ca_data("private")] = disk[ca_data("private")] /\ disk'[ca_data("cert")] = c
    BY <1>1, <1>4, <1>7, Kinds, PathTypes, PathsApart DEF InitFar, whole_cert
  <2>2. CaInPlace'
    BY <1>7, <2>1, Kinds DEF CaInPlace, exists, whole_cert
  <2>3. (KeyInPlace /\ IssuedTogether)'
    BY <1>3, <1>8, <2>1 DEF IInv, InPlace, KeyInPlace, IssuedTogether, Together, exists, whole_cert
  <2>4. CopiesCurrent'
    BY <1>3, <1>8, <2>1 DEF IInv, InPlace, CopiesCurrent, Current, exists, whole_cert
  <2> QED
    BY <2>2, <2>3, <2>4 DEF InPlace
<1> QED
  BY <1>5, <1>6, <1>7

LEMMA IssueWrites ==
  ASSUME IInv, NEW o \in Operator, job[o].pc = "write", Head(job[o].rest) = "issue",
         NEW p \in Path, NEW c \in Content, NEW n \in Job,
         disk' = [disk EXCEPT ![p] = c], job' = [job EXCEPT ![o] = n], UNCHANGED <<used, overlapped>>,
         \E f : p = users(job[o].user, f),
         Undisturbed(job[o].user) =>
           \/ p = users(job[o].user, "private") /\ job[o].written = 0
           \/ p = users(job[o].user, "public") /\ job[o].written = 1
           \/ p = users(job[o].user, "cert") /\ job[o].written = 2 /\ c = Torn /\ ~ job[o].open
           \/ /\ p = users(job[o].user, "cert") /\ job[o].written = 2 /\ job[o].open
              /\ c = issue_certificate(job[o].user, job[o].key, job[o].by)
  PROVE  InPlace'
<1> DEFINE j == job[o]
           v == job[o].user
<1>1. \A q \in Path : disk'[q] = IF q = p THEN c ELSE disk[q]
  BY DEF IInv, TypeOK
<1>2. /\ \A u \in User \ {v} : \A f \in {"private", "public", "cert"} : disk'[users(u, f)] = disk[users(u, f)]
      /\ \A u \in User : /\ \A f \in {"cert", "private", "ca_cert"} : disk'[client(u, f)] = disk[client(u, f)]
                         /\ disk'[pubkeys(u)] = disk[pubkeys(u)]
      /\ \A f \in {"private", "public", "cert"} : disk'[ca_data(f)] = disk[ca_data(f)]
  <2>2. \A u \in User \ {v} : \A f : users(u, f) # p
    BY PathsApart
  <2>3. \A u, f : client(u, f) # p /\ pubkeys(u) # p /\ ca_data(f) # p
    BY PathsApart
  <2>4. \A u \in User \ {v} : \A f \in {"private", "public", "cert"} : disk'[users(u, f)] = disk[users(u, f)]
    BY <1>1, <2>2, PathTypes
  <2>5. \A f \in {"private", "public", "cert"} : disk'[ca_data(f)] = disk[ca_data(f)]
    BY <1>1, <2>3, PathTypes
  <2>6. \A u \in User : /\ \A f \in {"cert", "private", "ca_cert"} : disk'[client(u, f)] = disk[client(u, f)]
                       /\ disk'[pubkeys(u)] = disk[pubkeys(u)]
    BY <1>1, <2>3, PathTypes
  <2> QED
    BY <2>4, <2>5, <2>6
<1>3. v \in User /\ j.written \in 0..2 /\ j.pc = "write" /\ (Undisturbed(v) => IssueFar(j))
  BY AtWork DEF JobOK, IssueOK, Doing
<1>4. CaInPlace'
  BY <1>2 DEF IInv, InPlace, CaInPlace, exists, whole_cert
<1>0. \A u \in User : Undisturbed(u)' <=> Undisturbed(u)
  BY DEF Undisturbed
<1>7. CASE ~ Undisturbed(v)
  <2>1. \A u \in User : Undisturbed(u) => u # v
    BY <1>7
  <2>2. KeyInPlace'
    BY <1>0, <1>2, <2>1 DEF IInv, InPlace, KeyInPlace, exists
  <2>3. IssuedTogether'
    BY <1>0, <1>2, <2>1 DEF IInv, InPlace, IssuedTogether, Together, whole_cert
  <2>4. CopiesCurrent'
    BY <1>0, <1>2, <2>1 DEF IInv, InPlace, CopiesCurrent, Current, exists, whole_cert
  <2> QED
    BY <1>4, <2>2, <2>3, <2>4 DEF InPlace
<1>5. CASE Undisturbed(v) /\ (p = users(v, "private") \/ p = users(v, "public")) /\ j.written < 2
  <2>1. disk[users(v, "cert")] = Absent /\ disk'[users(v, "cert")] = Absent
    BY <1>1, <1>3, <1>5, PathTypes, PathsApart DEF IssueFar, Last
  <2>2. \A u \in User : exists(users(u, "cert"))' => u # v
    BY <2>1 DEF exists
  <2>3. \A u \in User : whole_cert(users(u, "cert"))' => u # v
    BY <2>1, Kinds DEF whole_cert
  <2>4. KeyInPlace'
    BY <1>0, <1>2, <2>2 DEF IInv, InPlace, KeyInPlace, exists
  <2>5. IssuedTogether'
    BY <1>0, <1>2, <2>3 DEF IInv, InPlace, IssuedTogether, Together, whole_cert
  <2>6. ~ whole_cert(client(v, "cert")) /\ ~ whole_cert(pubkeys(v)) /\ disk[client(v, "private")].is # "private"
    BY <1>3, <1>5, <2>1, Kinds DEF IInv, InPlace, CopiesCurrent, Current, exists, whole_cert
  <2>7. CopiesCurrent'
    BY <1>0, <1>2, <2>6 DEF IInv, InPlace, CopiesCurrent, Current, exists, whole_cert
  <2> QED
    BY <1>4, <2>4, <2>5, <2>7 DEF InPlace
<1>6. CASE /\ Undisturbed(v) /\ p = users(v, "cert") /\ j.written = 2
           /\ (c = Torn \/ c = issue_certificate(v, j.key, j.by))
  <2>1. /\ disk[users(v, "private")] = Private(j.key) /\ disk[users(v, "public")] = Public(j.key)
        /\ disk[ca_data("private")] = Private(j.by)
        /\ disk[users(v, "cert")] \in {Absent, Torn}
    BY <1>3, <1>6 DEF IssueFar
  <2>2. /\ disk'[users(v, "private")] = Private(j.key) /\ disk'[users(v, "public")] = Public(j.key)
        /\ disk'[users(v, "cert")] = c /\ disk'[ca_data("private")] = Private(j.by)
        /\ disk'[users(v, "private")] = disk[users(v, "private")]
    BY <1>1, <1>2, <1>3, <1>6, <2>1, PathTypes, PathsApart
  <2>3. KeyInPlace'
    <3>1. ASSUME NEW u \in User, Undisturbed(u)', exists(users(u, "cert"))'
          PROVE  (disk[users(u, "private")].is = "private" /\ disk[ca_data("private")].is = "private")'
      <4>1. CASE u = v
        <5>1. Private(j.key).is = "private" /\ Private(j.by).is = "private"
          BY Kinds
        <5> QED
          BY <2>2, <4>1, <5>1
      <4>2. CASE u # v
        BY <1>0, <1>2, <3>1, <4>2 DEF IInv, InPlace, KeyInPlace, exists
      <4> QED
        BY <4>1, <4>2
    <3> QED
      BY <3>1 DEF KeyInPlace
  <2>4. IssuedTogether'
    <3>1. ASSUME NEW u \in User, Undisturbed(u)' PROVE Together(u)'
      <4>1. CASE u = v
        <5>1. c = Torn => ~ whole_cert(users(u, "cert"))'
          BY <2>2, <4>1, Kinds DEF whole_cert
        <5>2. c # Torn => c.subject = v /\ c.key = j.key /\ c.by = j.by
          BY <1>6, Kinds
        <5> QED
          BY <2>2, <4>1, <5>1, <5>2 DEF Together
      <4>2. CASE u # v
        BY <1>0, <1>2, <3>1, <4>2 DEF IInv, InPlace, IssuedTogether, Together, whole_cert
      <4> QED
        BY <4>1, <4>2
    <3> QED
      BY <3>1 DEF IssuedTogether
  <2>5. ~ whole_cert(client(v, "cert")) /\ ~ whole_cert(pubkeys(v))
    BY <1>3, <1>6, <2>1, Kinds DEF IInv, InPlace, CopiesCurrent, Current, whole_cert
  <2>6. disk'[users(v, "cert")] # Absent
    BY <1>6, <2>2, Kinds
  <2>7. CopiesCurrent'
    <3>1. ASSUME NEW u \in User, Undisturbed(u)' PROVE Current(u)'
      <4>1. CASE u = v
        BY <1>0, <1>2, <2>2, <2>5, <2>6, <3>1, <4>1 DEF IInv, InPlace, CopiesCurrent, Current, exists, whole_cert
      <4>2. CASE u # v
        BY <1>0, <1>2, <3>1, <4>2 DEF IInv, InPlace, CopiesCurrent, Current, exists, whole_cert
      <4> QED
        BY <4>1, <4>2
    <3> QED
      BY <3>1 DEF CopiesCurrent
  <2> QED
    BY <1>4, <2>3, <2>4, <2>7 DEF InPlace
<1> QED
  BY <1>5, <1>6, <1>7

LEMMA CopyWrites ==
  ASSUME IInv, NEW o \in Operator, NEW u \in User, exists(users(u, "cert")),
         NEW p \in Path, NEW c \in Content, NEW n \in Job,
         disk' = [disk EXCEPT ![p] = c], job' = [job EXCEPT ![o] = n], UNCHANGED <<used, overlapped>>,
         \/ p = client(u, "cert") /\ c \in {Torn, Mixed, disk[p], disk[users(u, "cert")]}
         \/ p = client(u, "private") /\ c \in {Torn, Mixed, disk[p], disk[users(u, "private")]}
         \/ p = client(u, "ca_cert") /\ c \in {Torn, Mixed, disk[p], disk[ca_data("cert")]}
         \/ p = pubkeys(u) /\ c \in {Torn, Mixed, disk[p], disk[users(u, "cert")]}
  PROVE  InPlace'
<1>1. \A q \in Path : disk'[q] = IF q = p THEN c ELSE disk[q]
  BY DEF IInv, TypeOK
<1>2. /\ \A v \in User : \A f \in {"private", "public", "cert"} : disk'[users(v, f)] = disk[users(v, f)]
      /\ \A f \in {"private", "public", "cert"} : disk'[ca_data(f)] = disk[ca_data(f)]
  BY <1>1, PathTypes, PathsApart
<1>3. (CaInPlace /\ KeyInPlace /\ IssuedTogether)'
  BY <1>2 DEF IInv, InPlace, CaInPlace, KeyInPlace, IssuedTogether, Together, Undisturbed, exists, whole_cert
<1>4. ASSUME NEW v \in User, Undisturbed(v)' PROVE Current(v)'
  <2> USE DEF Undisturbed
  <2>1. disk'[client(v, "cert")] \in {disk[client(v, "cert")], Torn, Mixed, disk[users(v, "cert")]}
    BY <1>1, PathTypes, PathsApart
  <2>2. disk'[pubkeys(v)] \in {disk[pubkeys(v)], Torn, Mixed, disk[users(v, "cert")]}
    BY <1>1, PathTypes, PathsApart
  <2>3. \/ disk'[client(v, "private")] \in {disk[client(v, "private")], Torn, Mixed}
        \/ v = u /\ disk'[client(v, "private")] = disk[users(v, "private")]
    BY <1>1, PathTypes, PathsApart
  <2>4. disk'[client(v, "ca_cert")] \in {disk[client(v, "ca_cert")], Torn, Mixed, disk[ca_data("cert")]}
    BY <1>1, PathTypes, PathsApart
  <2>5. (whole_cert(client(v, "cert")) => disk[client(v, "cert")] = disk[users(v, "cert")])'
    BY <1>2, <2>1, <1>4, Kinds DEF IInv, InPlace, CopiesCurrent, Current, whole_cert
  <2>6. (whole_cert(pubkeys(v)) => disk[pubkeys(v)] = disk[users(v, "cert")])'
    BY <1>2, <2>2, <1>4, Kinds DEF IInv, InPlace, CopiesCurrent, Current, whole_cert
  <2>7. (disk[client(v, "private")].is = "private" =>
           exists(users(v, "cert")) /\ disk[client(v, "private")] = disk[users(v, "private")])'
    BY <1>2, <2>3, <1>4, Kinds DEF IInv, InPlace, CopiesCurrent, Current, exists
  <2>8. (whole_cert(client(v, "ca_cert")) => disk[client(v, "ca_cert")] = disk[ca_data("cert")])'
    BY <1>2, <2>4, <1>4, Kinds DEF IInv, InPlace, CopiesCurrent, Current, whole_cert
  <2> QED
    BY <2>5, <2>6, <2>7, <2>8 DEF Current
<1>5. CopiesCurrent'
  BY <1>4 DEF CopiesCurrent
<1> QED
  BY <1>3, <1>5 DEF InPlace

(* The file a command is at, and what it writes or copies there.            *)
Item(o) == Plan(job[o])[job[o].written + 1]
Source(o) == IF Copies(job[o]) THEN disk[Item(o)[2]] ELSE Item(o)[2]

AtInit(o) ==
  LET j == job[o] IN
    /\ Head(j.rest) = "init" /\ j.key \in Key /\ ~ Copies(j) /\ Len(Plan(j)) = 3
    /\ \/ j.written = 0 /\ Item(o) = <<ca_data("private"), Private(j.key)>>
       \/ j.written = 1 /\ Item(o) = <<ca_data("public"), Public(j.key)>>
       \/ j.written = 2 /\ Item(o) = <<ca_data("cert"), issue_certificate(CA, j.key, j.key)>>

AtIssue(o) ==
  LET j == job[o] IN
    /\ Head(j.rest) = "issue" /\ j.user \in User /\ j.key \in Key /\ j.by \in Key
    /\ ~ Copies(j) /\ Len(Plan(j)) = 3
    /\ \/ j.written = 0 /\ Item(o) = <<users(j.user, "private"), Private(j.key)>>
       \/ j.written = 1 /\ Item(o) = <<users(j.user, "public"), Public(j.key)>>
       \/ j.written = 2 /\ Item(o) = <<users(j.user, "cert"), issue_certificate(j.user, j.key, j.by)>>

AtCopy(o) ==
  LET j == job[o] IN
    /\ Head(j.rest) \in {"client-setup", "server-register"} /\ j.user \in User /\ Copies(j)
    /\ exists(users(j.user, "cert"))
    /\ Len(Plan(j)) = IF Head(j.rest) = "client-setup" THEN 3 ELSE 1
    /\ \/ Item(o) = <<client(j.user, "cert"), users(j.user, "cert")>>
       \/ Item(o) = <<client(j.user, "private"), users(j.user, "private")>>
       \/ Item(o) = <<client(j.user, "ca_cert"), ca_data("cert")>>
       \/ Item(o) = <<pubkeys(j.user), users(j.user, "cert")>>

(* A copy never writes under users/, where it is taken from. *)
LEMMA CopiesGoElsewhere ==
  ASSUME NEW o, AtCopy(o)
  PROVE  \A u, f : Item(o)[1] # users(u, f)
<1>1. \/ \E f : Item(o)[1] = client(job[o].user, f)
      \/ Item(o)[1] = pubkeys(job[o].user)
  BY DEF AtCopy
<1> QED
  BY <1>1, PathsApart

LEMMA AtItem ==
  ASSUME IInv, NEW o \in Operator, job[o].pc = "write"
  PROVE  AtInit(o) \/ AtIssue(o) \/ AtCopy(o)
<1> DEFINE j == job[o]
           w == job[o].written
           u == job[o].user
<1>1. /\ j \in Job /\ JobOK(j) /\ Head(j.rest) \in Target /\ w \in 0..2
      /\ IF Head(j.rest) = "init" THEN j.user = CA ELSE j.user \in User
  BY AtWork
<1>2. w = 0 \/ w = 1 \/ w = 2
  BY <1>1
<1>3. CASE Head(j.rest) = "init"
  <2>1. Plan(j) = InitFiles(j) /\ ~ Copies(j)
    BY <1>3 DEF Plan, Copies
  <2>2. j.key \in Key
    BY <1>1, <1>3 DEF JobOK, InitOK, Doing
  <2>3. Len(Plan(j)) = 3
    BY <1>1, <2>1, Items
  <2>5. InitFiles(j)[w + 1] =
          IF w = 0 THEN <<ca_data("private"), Private(j.key)>>
          ELSE IF w = 1 THEN <<ca_data("public"), Public(j.key)>>
          ELSE <<ca_data("cert"), issue_certificate(CA, j.key, j.key)>>
    BY <1>1, Items
  <2>4. \/ w = 0 /\ Item(o) = <<ca_data("private"), Private(j.key)>>
        \/ w = 1 /\ Item(o) = <<ca_data("public"), Public(j.key)>>
        \/ w = 2 /\ Item(o) = <<ca_data("cert"), issue_certificate(CA, j.key, j.key)>>
    BY <1>2, <2>1, <2>5 DEF Item
  <2> QED
    BY <1>3, <2>1, <2>2, <2>3, <2>4 DEF AtInit
<1>4. CASE Head(j.rest) = "issue"
  <2>1. Plan(j) = IssueFiles(j) /\ ~ Copies(j)
    BY <1>4 DEF Plan, Copies
  <2>2. j.key \in Key /\ j.by \in Key
    BY <1>1, <1>4 DEF JobOK, IssueOK, Doing
  <2>3. Len(Plan(j)) = 3
    BY <1>1, <2>1, Items
  <2>5. IssueFiles(j)[w + 1] =
          IF w = 0 THEN <<users(u, "private"), Private(j.key)>>
          ELSE IF w = 1 THEN <<users(u, "public"), Public(j.key)>>
          ELSE <<users(u, "cert"), issue_certificate(u, j.key, j.by)>>
    BY <1>1, Items
  <2>4. \/ w = 0 /\ Item(o) = <<users(u, "private"), Private(j.key)>>
        \/ w = 1 /\ Item(o) = <<users(u, "public"), Public(j.key)>>
        \/ w = 2 /\ Item(o) = <<users(u, "cert"), issue_certificate(u, j.key, j.by)>>
    BY <1>2, <2>1, <2>5 DEF Item
  <2> QED
    BY <1>1, <1>4, <2>1, <2>2, <2>3, <2>4 DEF AtIssue
<1>5. CASE Head(j.rest) = "client-setup"
  <2>1. Plan(j) = SetupFiles(j) /\ Copies(j)
    BY <1>5 DEF Plan, Copies
  <2>2. exists(users(u, "cert"))
    BY <1>1, <1>5 DEF JobOK, CopyOK, Doing
  <2>3. Len(Plan(j)) = 3
    BY <1>1, <2>1, Items
  <2>5. SetupFiles(j)[w + 1] =
          IF w = 0 THEN <<client(u, "cert"), users(u, "cert")>>
          ELSE IF w = 1 THEN <<client(u, "private"), users(u, "private")>>
          ELSE <<client(u, "ca_cert"), ca_data("cert")>>
    BY <1>1, Items
  <2>4. \/ Item(o) = <<client(u, "cert"), users(u, "cert")>>
        \/ Item(o) = <<client(u, "private"), users(u, "private")>>
        \/ Item(o) = <<client(u, "ca_cert"), ca_data("cert")>>
    BY <1>2, <2>1, <2>5 DEF Item
  <2> QED
    BY <1>1, <1>5, <2>1, <2>2, <2>3, <2>4 DEF AtCopy
<1>6. CASE Head(j.rest) = "server-register"
  <2>1. Plan(j) = RegisterFiles(j) /\ Copies(j)
    BY <1>6 DEF Plan, Copies
  <2>2. exists(users(u, "cert")) /\ w = 0
    BY <1>1, <1>6 DEF JobOK, RunOK, CopyOK, Doing
  <2>3. Len(Plan(j)) = 1
    BY <1>1, <2>1, Items
  <2>5. RegisterFiles(j)[w + 1] = <<pubkeys(u), users(u, "cert")>>
    BY <1>1, <2>2, Items
  <2>4. Item(o) = <<pubkeys(u), users(u, "cert")>>
    BY <2>1, <2>2, <2>5 DEF Item
  <2> QED
    BY <1>1, <1>6, <2>1, <2>2, <2>3, <2>4 DEF AtCopy
<1> QED
  BY <1>1, <1>3, <1>4, <1>5, <1>6 DEF Target

(* Both steps write at the item.                                            *)
LEMMA ItemTypes ==
  ASSUME IInv, NEW o \in Operator, job[o].pc = "write"
  PROVE  /\ Item(o)[1] \in Path /\ Source(o) \in Content
         /\ ~ Copies(job[o]) => Source(o) = Item(o)[2]
         /\ \A c \in Filled(Item(o)[1], Source(o)) :
              c \in Content /\ c \in {Source(o), disk[Item(o)[1]], Mixed}
<1>1. disk \in [Path -> Content] /\ CA \notin User
  BY PkiConstants DEF IInv, TypeOK
<1>2. Item(o)[1] \in Path /\ Source(o) \in Content
  <2>1. CASE AtInit(o)
    BY <1>1, <2>1, PathTypes, ContentTypes DEF AtInit, Source
  <2>2. CASE AtIssue(o)
    BY <1>1, <2>2, PathTypes, ContentTypes DEF AtIssue, Source
  <2>3. CASE AtCopy(o)
    BY <1>1, <2>3, PathTypes DEF AtCopy, Source
  <2> QED
    BY <2>1, <2>2, <2>3, AtItem
<1>3. \A c \in Filled(Item(o)[1], Source(o)) : c \in {Source(o), disk[Item(o)[1]], Mixed}
  BY DEF Filled
<1> QED
  BY <1>1, <1>2, <1>3, ContentTypes DEF Source

(* A command that is alone at its subject finds the file as it truncated it *)
(* and fills it in full.                                                    *)
LEMMA FilledInFull ==
  ASSUME IInv, NEW o \in Operator, job[o].pc = "write", job[o].open,
         NEW c \in Filled(Item(o)[1], Source(o)),
         \/ AtInit(o) /\ CA \notin overlapped /\ job[o].written # 1
         \/ AtIssue(o) /\ Undisturbed(job[o].user)
  PROVE  c = Item(o)[2]
<1>1. JobOK(job[o])
  BY AtWork
<1>2. CASE AtInit(o) /\ CA \notin overlapped /\ job[o].written # 1
  <2>1. InitFar(job[o]) /\ Source(o) = Item(o)[2]
    BY <1>1, <1>2 DEF AtInit, JobOK, InitOK, Doing, Source
  <2>2. disk[Item(o)[1]] = Torn
    BY <1>2, <2>1 DEF AtInit, InitFar, Last
  <2> QED
    BY <2>1, <2>2 DEF Filled
<1>3. CASE AtIssue(o) /\ Undisturbed(job[o].user)
  <2>1. IssueFar(job[o]) /\ Source(o) = Item(o)[2]
    BY <1>1, <1>3 DEF AtIssue, JobOK, IssueOK, Doing, Source
  <2>2. disk[Item(o)[1]] = Torn
    BY <1>3, <2>1 DEF AtIssue, IssueFar, Last
  <2> QED
    BY <2>1, <2>2 DEF Filled
<1> QED
  BY <1>2, <1>3

(* Writing brings nobody past a check.                                      *)
LEMMA StageKept ==
  ASSUME IInv, NEW o \in Operator, NEW n \in Job, job' = [job EXCEPT ![o] = n], UNCHANGED overlapped,
         \A t \in {"init", "issue"} : Doing(n, t) => Doing(job[o], t) /\ n.user = job[o].user
  PROVE  OneAtATime'
<1>1. \A x \in Operator : job'[x] = IF x = o THEN n ELSE job[x]
  BY DEF IInv, TypeOK
<1> SUFFICES ASSUME NEW x \in Operator, NEW y \in Operator, NEW t \in {"init", "issue"}, x # y,
                    Doing(job'[x], t), Doing(job'[y], t), job'[x].user = job'[y].user
             PROVE  job'[x].user \in overlapped'
  BY DEF OneAtATime, Doing
<1>2. \A z \in {x, y} : Doing(job[z], t) /\ job[z].user = job'[z].user
  BY <1>1
<1> QED
  BY <1>2 DEF IInv, OneAtATime

(* Whatever is written there, nothing else is disturbed.                    *)
LEMMA ItemWritten ==
  ASSUME IInv, NEW o \in Operator, job[o].pc = "write", NEW n \in Job,
         NEW c \in Content,
         (c = Torn /\ ~ job[o].open) \/ (c \in Filled(Item(o)[1], Source(o)) /\ job[o].open),
         disk' = [disk EXCEPT ![Item(o)[1]] = c], job' = [job EXCEPT ![o] = n],
         UNCHANGED <<used, overlapped>>
  PROVE  /\ TypeOK' /\ InPlace'
         /\ \A x \in Operator \ {o} : JobOK(job[x])'
<1>1. TypeOK' /\ Item(o)[1] \in Path
  BY ItemTypes, Written DEF IInv
<1>2. c \in {Torn, Mixed, Source(o), disk[Item(o)[1]]}
  BY ItemTypes
<1>3. CASE AtInit(o)
  <2>1. c = Absent => disk[Item(o)[1]] = Absent
    <3>1. Source(o) # Absent
      BY <1>3, Kinds DEF AtInit, Source
    <3> QED
      BY <1>2, <3>1, Kinds
  <2>2. InPlace'
    <3>1. CASE CA \in overlapped
      BY <3>1 DEF InPlace, CaInPlace, KeyInPlace, IssuedTogether, CopiesCurrent, Undisturbed
    <3>2. CASE CA \notin overlapped
      <4>1. \/ c = Torn /\ ~ job[o].open
            \/ c = Item(o)[2] /\ job[o].open
            \/ job[o].written = 1
        BY <1>3, <3>2, FilledInFull
      <4>2. \/ Item(o)[1] = ca_data("private") /\ job[o].written = 0
            \/ Item(o)[1] = ca_data("public")
            \/ Item(o)[1] = ca_data("cert") /\ job[o].written = 2 /\ c = Torn /\ ~ job[o].open
            \/ /\ Item(o)[1] = ca_data("cert") /\ job[o].written = 2 /\ job[o].open
               /\ c = issue_certificate(CA, job[o].key, job[o].key)
        BY <1>3, <4>1 DEF AtInit
      <4>3. Head(job[o].rest) = "init"
        BY <1>3 DEF AtInit
      <4> QED
        BY <1>1, <3>2, <4>2, <4>3, InitWrites
    <3> QED
      BY <3>1, <3>2
  <2>3. /\ Head(job[o].rest) = "init" /\ (\E f : Item(o)[1] = ca_data(f))
        /\ (Last(job[o]) => Item(o)[1] = ca_data("cert"))
    BY <1>3 DEF AtInit, Last
  <2>4. \A x \in Operator \ {o} : JobOK(job[x])'
    BY <1>1, <2>1, <2>3, OthersKeep
  <2> QED
    BY <1>1, <2>2, <2>4
<1>4. CASE AtIssue(o)
  <2>1. c = Absent => disk[Item(o)[1]] = Absent
    <3>1. Source(o) # Absent
      BY <1>4, Kinds DEF AtIssue, Source
    <3> QED
      BY <1>2, <3>1, Kinds
  <2>2. Head(job[o].rest) = "issue" /\ \E f : Item(o)[1] = users(job[o].user, f)
    BY <1>4 DEF AtIssue
  <2>3. InPlace'
    <3>1. Undisturbed(job[o].user) => (c = Torn /\ ~ job[o].open) \/ (c = Item(o)[2] /\ job[o].open)
      BY <1>4, FilledInFull
    <3>2. Undisturbed(job[o].user) =>
            \/ Item(o)[1] = users(job[o].user, "private") /\ job[o].written = 0
            \/ Item(o)[1] = users(job[o].user, "public") /\ job[o].written = 1
            \/ Item(o)[1] = users(job[o].user, "cert") /\ job[o].written = 2 /\ c = Torn /\ ~ job[o].open
            \/ /\ Item(o)[1] = users(job[o].user, "cert") /\ job[o].written = 2 /\ job[o].open
               /\ c = issue_certificate(job[o].user, job[o].key, job[o].by)
      BY <1>4, <3>1 DEF AtIssue
    <3> QED
      BY <1>1, <2>2, <3>2, IssueWrites
  <2>4. \A x \in Operator \ {o} : JobOK(job[x])'
    BY <1>1, <2>1, <2>2, OthersKeep
  <2> QED
    BY <1>1, <2>3, <2>4
<1>5. CASE AtCopy(o)
  <2>1. c \in {Torn, Mixed, disk[Item(o)[1]], disk[Item(o)[2]]}
    BY <1>2, <1>5 DEF AtCopy, Source
  <2>2. InPlace'
    <3> DEFINE u == job[o].user
               p == Item(o)[1]
    <3>1. \/ p = client(u, "cert") /\ c \in {Torn, Mixed, disk[p], disk[users(u, "cert")]}
          \/ p = client(u, "private") /\ c \in {Torn, Mixed, disk[p], disk[users(u, "private")]}
          \/ p = client(u, "ca_cert") /\ c \in {Torn, Mixed, disk[p], disk[ca_data("cert")]}
          \/ p = pubkeys(u) /\ c \in {Torn, Mixed, disk[p], disk[users(u, "cert")]}
      BY <1>5, <2>1 DEF AtCopy
    <3>2. u \in User /\ exists(users(u, "cert"))
      BY <1>5 DEF AtCopy
    <3> QED
      BY <1>1, <3>1, <3>2, CopyWrites
  <2>3. /\ Head(job[o].rest) \in {"client-setup", "server-register"}
        /\ (\E u, f : Item(o)[1] = client(u, f)) \/ (\E u : Item(o)[1] = pubkeys(u))
    BY <1>5 DEF AtCopy
  <2>4. \A x \in Operator \ {o} : JobOK(job[x])'
    BY <1>1, <2>3, OthersKeep
  <2> QED
    BY <1>1, <2>2, <2>4
<1> QED
  BY <1>3, <1>4, <1>5, AtItem

LEMMA OpenFilePreserves ==
  ASSUME IInv, NEW o \in Operator, OpenFile(o) PROVE IInv'
<1> DEFINE n == [job[o] EXCEPT !.open = TRUE]
<1>1. /\ job[o].pc = "write" /\ ~ job[o].open /\ UNCHANGED <<used, overlapped>>
      /\ disk' = [disk EXCEPT ![Item(o)[1]] = Torn] /\ job' = [job EXCEPT ![o] = n]
  BY DEF OpenFile, Goto, Item
<1>2. job[o] \in Job /\ JobOK(job[o]) /\ Item(o)[1] \in Path
  BY <1>1, AtWork, ItemTypes
<1>3. /\ n \in Job /\ n.open = TRUE
      /\ n.pc = "write" /\ n.rest = job[o].rest /\ n.user = job[o].user /\ n.force = job[o].force
      /\ n.key = job[o].key /\ n.by = job[o].by /\ n.written = job[o].written
  BY <1>1, <1>2 DEF Job
<1> HIDE DEF n
<1>4. TypeOK' /\ InPlace' /\ \A x \in Operator \ {o} : JobOK(job[x])'
  <2>1. Torn \in Content
    BY ContentTypes
  <2>2. Torn = Torn /\ ~ job[o].open
    BY <1>1
  <2> QED
    BY <1>1, <1>3, <2>1, <2>2, ItemWritten
<1>5. job'[o] = n /\ \A q \in Path : disk'[q] = IF q = Item(o)[1] THEN Torn ELSE disk[q]
  BY <1>1, <1>2 DEF IInv, TypeOK
<1>6. JobOK(job[o])'
  <2>1. RunOK(job[o])'
    <3>1. /\ job[o].rest # <<>> /\ ~ job[o].force /\ Allowed(job[o])
          /\ job[o].written \in 0..2 /\ (Head(job[o].rest) = "server-register" => job[o].written = 0)
      BY <1>1, <1>2 DEF JobOK, RunOK
    <3>2. Allowed(n)
      BY <1>3, <3>1 DEF Allowed
    <3>3. RunOK(n)
      BY <1>3, <3>1, <3>2 DEF RunOK
    <3> QED
      BY <1>5, <3>3 DEF RunOK, Allowed
  <2>2. CASE AtInit(o)
    <3>1. job[o].written = 2 => Item(o)[1] = ca_data("cert")
      BY <2>2 DEF AtInit
    <3>2. job[o].written # 0 => Item(o)[1] # ca_data("private")
      BY <2>2, PathsApart DEF AtInit
    <3>3. job[o].written = 0 => Item(o)[1] = ca_data("private")
      BY <2>2 DEF AtInit
    <3>4. job[o].written # 2 => Item(o)[1] # ca_data("cert")
      BY <2>2, PathsApart DEF AtInit
    <3>5. job[o].written \in 0..2 /\ job[o].key \in Key /\ Head(job[o].rest) = "init"
      BY <1>1, <2>2, AtWork DEF AtInit
    <3>6. ASSUME CA \notin overlapped
          PROVE  InitFar(job[o])'
      <4>1. /\ job[o].written > 0 => disk[ca_data("private")] = Private(job[o].key)
            /\ disk[ca_data("cert")] = Absent
        BY <1>1, <1>2, <3>5, <3>6 DEF JobOK, InitOK, InitFar, Doing, Last
      <4>2. /\ job[o].written > 0 => disk'[ca_data("private")] = Private(job[o].key)
            /\ job[o].written = 0 => disk'[ca_data("private")] = Torn
            /\ disk'[ca_data("cert")] = IF job[o].written = 2 THEN Torn ELSE Absent
        BY <1>5, <3>1, <3>2, <3>3, <3>4, <3>5, <4>1, PathTypes
      <4> QED
        BY <1>3, <1>5, <3>5, <4>2, Kinds DEF InitFar, Last
    <3>7. InitOK(job[o])'
      BY <1>1, <1>3, <1>5, <3>5, <3>6 DEF InitOK
    <3>8. (IssueOK(job[o]) /\ CopyOK(job[o]))'
      BY <1>3, <1>5, <3>5 DEF IssueOK, CopyOK, Doing
    <3> QED
      BY <2>1, <3>7, <3>8 DEF JobOK
  <2>3. CASE AtIssue(o)
    <3> DEFINE u == job[o].user
    <3>1. /\ job[o].written = 2 => Item(o)[1] = users(u, "cert")
          /\ job[o].written = 1 => Item(o)[1] = users(u, "public")
          /\ job[o].written = 0 => Item(o)[1] = users(u, "private")
      BY <2>3 DEF AtIssue
    <3>2. job[o].written # 0 => Item(o)[1] # users(u, "private")
      BY <2>3, PathsApart DEF AtIssue
    <3>3. job[o].written = 2 => Item(o)[1] # users(u, "public")
      BY <2>3, PathsApart DEF AtIssue
    <3>4. job[o].written # 2 => Item(o)[1] # users(u, "cert")
      BY <2>3, PathsApart DEF AtIssue
    <3>5. \A f : Item(o)[1] # ca_data(f)
      BY <2>3, PathsApart DEF AtIssue
    <3>6. /\ job[o].written \in 0..2 /\ job[o].key \in Key /\ job[o].by \in Key
          /\ Head(job[o].rest) = "issue" /\ u \in User
      BY <1>1, <2>3, AtWork DEF AtIssue
    <3>7. ASSUME Undisturbed(u)
          PROVE  IssueFar(job[o])'
      <4>1. /\ exists(ca_data("cert")) /\ disk[ca_data("private")] = Private(job[o].by)
            /\ job[o].written > 0 => disk[users(u, "private")] = Private(job[o].key)
            /\ job[o].written > 1 => disk[users(u, "public")] = Public(job[o].key)
            /\ disk[users(u, "cert")] = Absent
        BY <1>1, <1>2, <3>6, <3>7 DEF JobOK, IssueOK, IssueFar, Doing, Last
      <4>2. disk'[ca_data("cert")] # Absent /\ disk'[ca_data("private")] = Private(job[o].by)
        BY <1>5, <3>5, <4>1, PathTypes DEF exists
      <4>3. /\ job[o].written > 0 => disk'[users(u, "private")] = Private(job[o].key)
            /\ job[o].written > 1 => disk'[users(u, "public")] = Public(job[o].key)
            /\ job[o].written = 0 => disk'[users(u, "private")] = Torn
            /\ job[o].written = 1 => disk'[users(u, "public")] = Torn
            /\ disk'[users(u, "cert")] = IF job[o].written = 2 THEN Torn ELSE Absent
        BY <1>5, <3>1, <3>2, <3>3, <3>4, <3>6, <4>1, PathTypes
      <4> QED
        BY <1>3, <1>5, <3>6, <4>2, <4>3 DEF IssueFar, Last, exists
    <3>8. IssueOK(job[o])'
      BY <1>1, <1>3, <1>5, <3>6, <3>7 DEF IssueOK, Undisturbed
    <3>9. (InitOK(job[o]) /\ CopyOK(job[o]))'
      BY <1>3, <1>5, <3>6 DEF InitOK, CopyOK, Doing
    <3> QED
      BY <2>1, <3>8, <3>9 DEF JobOK
  <2>4. CASE AtCopy(o)
    <3>1. \A u, f : Item(o)[1] # users(u, f)
      BY <2>4, CopiesGoElsewhere
    <3>2. disk'[users(job[o].user, "cert")] # Absent
      BY <1>5, <2>4, <3>1, PathTypes DEF AtCopy, exists
    <3>3. Head(job[o].rest) # "init" /\ Head(job[o].rest) # "issue"
      BY <2>4 DEF AtCopy
    <3>4. (InitOK(job[o]) /\ IssueOK(job[o]))'
      BY <1>3, <1>5, <3>3 DEF InitOK, IssueOK, Doing
    <3>5. CopyOK(job[o])'
      BY <1>3, <1>5, <3>2 DEF CopyOK, exists
    <3> QED
      BY <2>1, <3>4, <3>5 DEF JobOK
  <2> QED
    BY <1>1, <2>2, <2>3, <2>4, AtItem
<1>7. OneAtATime'
  <2>1. \A t : Doing(n, t) => Doing(job[o], t) /\ n.user = job[o].user
    BY <1>1, <1>3 DEF Doing
  <2> QED
    BY <1>1, <1>3, <2>1, StageKept
<1> QED
  BY <1>4, <1>6, <1>7 DEF IInv, JobsOK

(* The command after a file: at the next file, at the next target, or done. *)
More(j) == [j EXCEPT !.written = @ + 1, !.open = FALSE]
NextTarget(j) == [j EXCEPT !.pc = "next", !.rest = Tail(@), !.open = FALSE]

LEMMA MoreFields ==
  ASSUME NEW j \in Job, j.written \in 0..1
  PROVE  /\ More(j) \in Job /\ More(j).open = FALSE /\ More(j).written = j.written + 1
         /\ More(j).pc = j.pc /\ More(j).rest = j.rest /\ More(j).user = j.user /\ More(j).force = j.force
         /\ More(j).key = j.key /\ More(j).by = j.by
<1> DEFINE w == j.written + 1
<1>1. w \in 0..3
  OBVIOUS
<1> HIDE DEF w
<1>2. [j EXCEPT !.written = w] \in Job
  BY <1>1 DEF Job
<1> DEFINE i == [j EXCEPT !.written = w]
<1>3. /\ i \in Job /\ i.written = w /\ i.pc = j.pc /\ i.rest = j.rest /\ i.user = j.user /\ i.force = j.force
      /\ i.key = j.key /\ i.by = j.by
  BY <1>2 DEF Job
<1>4. More(j) = [i EXCEPT !.open = FALSE]
  BY DEF More, w
<1> HIDE DEF i
<1> QED
  BY <1>3, <1>4 DEF Job, w

LEMMA NextTargetFields ==
  ASSUME NEW j \in Job, RunOK(j), j.pc # "idle", Tail(j.rest) # <<>>
  PROVE  NextTarget(j) \in Job /\ NextTarget(j).pc = "next" /\ RunOK(NextTarget(j))
<1> DEFINE r == Tail(j.rest)
<1>1. j.rest \in Seq(Target) /\ j.rest # <<>> /\ ~ j.force /\ Allowed(j)
  BY DEF Job, RunOK
<1>2. r \in Seq(Target) /\ \A i \in DOMAIN r : i + 1 \in DOMAIN j.rest /\ r[i] = j.rest[i + 1]
  BY <1>1
<1> HIDE DEF r
<1> DEFINE a == [j EXCEPT !.pc = "next"]
           b == [a EXCEPT !.rest = r]
<1>3. a \in Job /\ a.pc = "next" /\ a.user = j.user /\ a.force = j.force
  BY DEF Job
<1> HIDE DEF a
<1>4. b \in Job /\ b.pc = "next" /\ b.user = j.user /\ b.force = j.force /\ b.rest = r
  BY <1>2, <1>3 DEF Job
<1> HIDE DEF b
<1>5. NextTarget(j) = [b EXCEPT !.open = FALSE]
  BY DEF NextTarget, a, b, r
<1>6. /\ NextTarget(j) \in Job /\ NextTarget(j).pc = "next" /\ NextTarget(j).user = j.user
      /\ NextTarget(j).force = j.force /\ NextTarget(j).rest = r /\ NextTarget(j).open = FALSE
  BY <1>4, <1>5 DEF Job
<1>7. Allowed(NextTarget(j))
  BY <1>1, <1>2, <1>6 DEF Allowed
<1>8. r # <<>>
  BY DEF r
<1> QED
  BY <1>1, <1>6, <1>7, <1>8 DEF RunOK

After(o) ==
  IF job[o].written + 1 < Len(Plan(job[o])) THEN More(job[o])
  ELSE IF Tail(job[o].rest) = <<>> THEN Idle ELSE NextTarget(job[o])

LEMMA AfterFile ==
  ASSUME IInv, NEW o \in Operator, job[o].pc = "write"
  PROVE  LET j == job[o] IN
           /\ After(o) \in Job
           /\ j.written + 1 < Len(Plan(j)) =>
                j.written \in 0..1 /\ (AtInit(o) \/ AtIssue(o) \/ Head(j.rest) = "client-setup")
           /\ \A t : Doing(After(o), t) => Doing(j, t) /\ After(o).user = j.user
<1> DEFINE j == job[o]
           w == job[o].written
           n == IF w + 1 < Len(Plan(j)) THEN More(j) ELSE IF Tail(j.rest) = <<>> THEN Idle ELSE NextTarget(j)
<1>2. j \in Job /\ JobOK(j) /\ w \in 0..2
  BY AtWork
<1>3. w + 1 < Len(Plan(j)) => w \in 0..1 /\ (AtInit(o) \/ AtIssue(o) \/ Head(j.rest) = "client-setup")
  <2>0. HAVE w + 1 < Len(Plan(j))
  <2>1. Len(Plan(j)) = 3 \/ Len(Plan(j)) = 1
    BY AtItem DEF AtInit, AtIssue, AtCopy
  <2>2. w \in 0..1 /\ Len(Plan(j)) = 3
    <3>1. w \in 0..2
      BY <1>2
    <3>2. CASE Len(Plan(j)) = 3
      BY <2>0, <3>1, <3>2
    <3>3. CASE Len(Plan(j)) = 1
      BY <2>0, <3>1, <3>3
    <3> QED
      BY <2>1, <3>2, <3>3
  <2>3. AtCopy(o) => Head(j.rest) = "client-setup"
    <3>1. ASSUME AtCopy(o), Head(j.rest) # "client-setup" PROVE Len(Plan(j)) = 1
      BY <3>1, Zenon DEF AtCopy
    <3> QED
      BY <2>2, <3>1
  <2> QED
    BY <2>2, <2>3, AtItem
<1>4. n \in Job
  <2>1. CASE w + 1 < Len(Plan(j))
    BY <1>2, <1>3, <2>1, MoreFields
  <2>2. CASE ~ (w + 1 < Len(Plan(j))) /\ Tail(j.rest) = <<>>
    BY <2>2, IdleJob
  <2>3. CASE ~ (w + 1 < Len(Plan(j))) /\ Tail(j.rest) # <<>>
    <3>1. NextTarget(j) \in Job
      BY <1>2, <2>3, NextTargetFields DEF JobOK
    <3> QED
      BY <2>3, <3>1
  <2> QED
    BY <2>1, <2>2, <2>3
<1>5. \A t : Doing(n, t) => Doing(j, t) /\ n.user = j.user
  <2>1. CASE w + 1 < Len(Plan(j))
    BY <1>2, <1>3, <2>1, MoreFields DEF Doing
  <2>2. CASE ~ (w + 1 < Len(Plan(j))) /\ Tail(j.rest) = <<>>
    BY <2>2, IdleJob
  <2>3. CASE ~ (w + 1 < Len(Plan(j))) /\ Tail(j.rest) # <<>>
    BY <1>2, <2>3, NextTargetFields DEF JobOK, Doing
  <2> QED
    BY <2>1, <2>2, <2>3
<1> QED
  BY <1>3, <1>4, <1>5 DEF After

LEMMA FillFilePreserves ==
  ASSUME IInv, NEW o \in Operator, FillFile(o) PROVE IInv'
<1> DEFINE j == job[o]
           w == job[o].written
           n == After(o)
<1>0. PICK c \in Filled(Item(o)[1], Source(o)) : disk' = [disk EXCEPT ![Item(o)[1]] = c]
  BY DEF FillFile, Item, Source
<1>1. /\ j.pc = "write" /\ j.open /\ UNCHANGED <<used, overlapped>>
      /\ disk' = [disk EXCEPT ![Item(o)[1]] = c] /\ job' = [job EXCEPT ![o] = n]
  BY <1>0 DEF FillFile, Goto, Item, After, More, NextTarget
<1>2. j \in Job /\ JobOK(j) /\ Item(o)[1] \in Path /\ c \in Content /\ w \in 0..2
  BY <1>1, AtWork, ItemTypes
<1>3. /\ n \in Job
      /\ w + 1 < Len(Plan(j)) => w \in 0..1 /\ (AtInit(o) \/ AtIssue(o) \/ Head(j.rest) = "client-setup")
      /\ \A t : Doing(n, t) => Doing(j, t) /\ n.user = j.user
  BY <1>1, AfterFile
<1> HIDE DEF n
<1>5. TypeOK' /\ InPlace' /\ \A x \in Operator \ {o} : JobOK(job[x])'
  BY <1>0, <1>1, <1>2, <1>3, ItemWritten
<1>6. job'[o] = n /\ \A q \in Path : disk'[q] = IF q = Item(o)[1] THEN c ELSE disk[q]
  BY <1>1, <1>2 DEF IInv, TypeOK
<1>10. OneAtATime'
  BY <1>1, <1>3, StageKept
<1>7. CASE ~ (w + 1 < Len(Plan(j))) /\ Tail(j.rest) = <<>>
  <2>1. n = Idle
    BY <1>7, IdleJob DEF n, After
  <2>2. n.pc = "idle" /\ n.open = FALSE
    BY <2>1 DEF Idle
  <2>3. JobOK(job[o])'
    BY <1>6, <2>2 DEF JobOK, RunOK, InitOK, IssueOK, CopyOK, Doing
  <2> QED
    BY <1>5, <1>10, <2>3 DEF IInv, JobsOK
<1>8. CASE ~ (w + 1 < Len(Plan(j))) /\ Tail(j.rest) # <<>>
  <2>1. n = NextTarget(j) /\ n.pc = "next" /\ RunOK(n)
    BY <1>1, <1>2, <1>8, NextTargetFields DEF n, After, JobOK
  <2>2. RunOK(job[o])'
    BY <1>6, <2>1 DEF RunOK, Allowed
  <2>3. JobOK(job[o])'
    BY <1>6, <2>1, <2>2 DEF JobOK, InitOK, IssueOK, CopyOK, Doing
  <2> QED
    BY <1>5, <1>10, <2>3 DEF IInv, JobsOK
<1>9. CASE w + 1 < Len(Plan(j))
  <2>1. /\ n.open = FALSE /\ n.written = w + 1 /\ n.pc = "write" /\ n.rest = j.rest /\ n.user = j.user
        /\ n.force = j.force /\ n.key = j.key /\ n.by = j.by /\ w \in 0..1
    BY <1>1, <1>2, <1>3, <1>9, MoreFields DEF n, After
  <2>2. RunOK(job[o])'
    <3>1. j.rest # <<>> /\ ~ j.force /\ Allowed(j) /\ Head(j.rest) # "server-register"
      BY <1>1, <1>2, <1>3, <1>9 DEF JobOK, RunOK, AtInit, AtIssue
    <3>2. Allowed(n)
      BY <2>1, <3>1 DEF Allowed
    <3>3. w + 1 \in 0..2
      BY <2>1
    <3>4. RunOK(n)
      BY <2>1, <3>1, <3>2, <3>3 DEF RunOK
    <3> QED
      BY <1>6, <3>4 DEF RunOK, Allowed
  <2>3. CASE AtInit(o)
    <3>1. Head(j.rest) = "init" /\ j.key \in Key
      BY <2>3 DEF AtInit
    <3>2. ASSUME CA \notin overlapped
          PROVE  InitFar(job[o])'
      <4>1. disk[ca_data("cert")] = Absent /\ (w > 0 => disk[ca_data("private")] = Private(j.key))
        BY <1>1, <1>2, <2>1, <3>1, <3>2 DEF JobOK, InitOK, InitFar, Doing, Last
      <4>2. w = 0 => Item(o)[1] = ca_data("private") /\ c = Private(j.key)
        BY <1>0, <1>1, <2>3, <3>2, FilledInFull DEF AtInit
      <4>3. /\ w = 1 => Item(o)[1] # ca_data("private")
            /\ Item(o)[1] # ca_data("cert")
        BY <2>1, <2>3, PathsApart DEF AtInit
      <4>4. disk'[ca_data("private")] = Private(j.key) /\ disk'[ca_data("cert")] = Absent
        BY <1>6, <2>1, <4>1, <4>2, <4>3, PathTypes
      <4> QED
        BY <1>6, <2>1, <4>4 DEF InitFar, Last
    <3>3. InitOK(job[o])'
      BY <1>1, <1>6, <2>1, <3>1, <3>2 DEF InitOK
    <3>4. (IssueOK(job[o]) /\ CopyOK(job[o]))'
      BY <1>6, <2>1, <3>1 DEF IssueOK, CopyOK, Doing
    <3> QED
      BY <1>5, <1>10, <2>2, <3>3, <3>4 DEF IInv, JobsOK, JobOK
  <2>4. CASE AtIssue(o)
    <3> DEFINE u == job[o].user
    <3>1. Head(j.rest) = "issue" /\ j.key \in Key /\ j.by \in Key /\ u \in User
      BY <2>4 DEF AtIssue
    <3>2. ASSUME Undisturbed(u)
          PROVE  IssueFar(job[o])'
      <4>1. /\ exists(ca_data("cert")) /\ disk[ca_data("private")] = Private(j.by)
            /\ disk[users(u, "cert")] = Absent
            /\ w > 0 => disk[users(u, "private")] = Private(j.key)
        <5>1. Doing(j, "issue") /\ ~ Last(j)
          BY <1>1, <2>1, <3>1 DEF Doing, Last
        <5> QED
          BY <1>1, <1>2, <3>2, <5>1 DEF JobOK, IssueOK, IssueFar
      <4>2. c = Item(o)[2]
        BY <1>0, <1>1, <2>4, <3>2, FilledInFull
      <4>3. /\ w = 0 => Item(o)[1] = users(u, "private") /\ c = Private(j.key)
            /\ w = 1 => Item(o)[1] = users(u, "public") /\ c = Public(j.key)
        BY <2>4, <4>2 DEF AtIssue
      <4>4. /\ Item(o)[1] # users(u, "cert") /\ (w = 1 => Item(o)[1] # users(u, "private"))
            /\ \A f : Item(o)[1] # ca_data(f)
        BY <2>1, <2>4, PathsApart DEF AtIssue
      <4>5. /\ disk'[users(u, "private")] = Private(j.key) /\ disk'[users(u, "cert")] = Absent
            /\ w = 1 => disk'[users(u, "public")] = Public(j.key)
            /\ disk'[ca_data("private")] = Private(j.by) /\ disk'[ca_data("cert")] # Absent
        BY <1>6, <2>1, <3>1, <4>1, <4>3, <4>4, PathTypes DEF exists
      <4>6. w + 1 > 1 => w = 1
        BY <2>1
      <4> QED
        BY <1>6, <2>1, <3>1, <4>5, <4>6 DEF IssueFar, Last, exists
    <3>3. IssueOK(job[o])'
      BY <1>1, <1>6, <2>1, <3>1, <3>2 DEF IssueOK, Undisturbed
    <3>4. (InitOK(job[o]) /\ CopyOK(job[o]))'
      BY <1>6, <2>1, <3>1 DEF InitOK, CopyOK, Doing
    <3> QED
      BY <1>5, <1>10, <2>2, <3>3, <3>4 DEF IInv, JobsOK, JobOK
  <2>5. CASE AtCopy(o)
    <3>1. \A u, f : Item(o)[1] # users(u, f)
      BY <2>5, CopiesGoElsewhere
    <3>2. disk'[users(j.user, "cert")] # Absent
      BY <1>6, <2>5, <3>1, PathTypes DEF AtCopy, exists
    <3>3. Head(j.rest) # "init" /\ Head(j.rest) # "issue"
      BY <2>5 DEF AtCopy
    <3>4. (InitOK(job[o]) /\ IssueOK(job[o]))'
      BY <1>6, <2>1, <3>3 DEF InitOK, IssueOK, Doing
    <3>5. CopyOK(job[o])'
      BY <1>6, <2>1, <3>2 DEF CopyOK, exists
    <3> QED
      BY <1>5, <1>10, <2>2, <3>4, <3>5 DEF IInv, JobsOK, JobOK
  <2> QED
    BY <1>1, <2>3, <2>4, <2>5, AtItem
<1> QED
  BY <1>7, <1>8, <1>9

----------------------------------------------------------------------------
(* Nothing is on disk at first, and no command is under way.                *)
LEMMA InitIInv == Init => IInv
<1> SUFFICES ASSUME Init PROVE IInv
  OBVIOUS
<1>1. /\ \A q \in Path : disk[q] = Absent
      /\ \A o \in Operator : job[o] = Idle
  BY DEF Init
<1>2. TypeOK
  BY IdleJob, ContentTypes DEF Init, TypeOK
<1>3. JobsOK
  BY <1>1, IdleJob DEF JobsOK
<1>4. OneAtATime
  BY <1>1, IdleJob DEF OneAtATime
<1>5. InPlace
  BY <1>1, PathTypes, Kinds
     DEF InPlace, CaInPlace, KeyInPlace, IssuedTogether, Together, CopiesCurrent, Current, exists, whole_cert
<1> QED
  BY <1>2, <1>3, <1>4, <1>5 DEF IInv

(* Every step of every operator keeps it.                                   *)
LEMMA NextIInv == ASSUME Unforced PROVE IInv /\ [Next]_vars => IInv'
<1> SUFFICES ASSUME IInv, [Next]_vars PROVE IInv'
  OBVIOUS
<1>1. CASE UNCHANGED vars
  <2>1. (TypeOK /\ OneAtATime /\ InPlace)'
    BY <1>1
       DEF vars, IInv, TypeOK, OneAtATime, Doing, InPlace, CaInPlace, KeyInPlace, IssuedTogether, Together,
           CopiesCurrent, Current, Undisturbed, exists, whole_cert
  <2>2. JobsOK'
    BY <1>1
       DEF vars, IInv, JobsOK, JobOK, RunOK, Allowed, InitOK, InitFar, IssueOK, IssueFar, CopyOK, Doing, Last,
           Undisturbed, exists
  <2> QED
    BY <2>1, <2>2 DEF IInv
<1>2. ASSUME NEW o \in Operator, Start(o) PROVE IInv'
  BY <1>2, StartPreserves
<1>3. ASSUME NEW o \in Operator, cmd_init(o) PROVE IInv'
  BY <1>3, cmd_initPreserves
<1>4. ASSUME NEW o \in Operator, cmd_issue(o) PROVE IInv'
  BY <1>4, cmd_issuePreserves
<1>5. ASSUME NEW o \in Operator, Sign(o) PROVE IInv'
  BY <1>5, SignPreserves
<1>6. ASSUME NEW o \in Operator, client_setup(o) \/ server_register(o) PROVE IInv'
  BY <1>6, CopyBeginsPreserves
<1>7. ASSUME NEW o \in Operator, OpenFile(o) PROVE IInv'
  BY <1>7, OpenFilePreserves
<1>8. ASSUME NEW o \in Operator, FillFile(o) PROVE IInv'
  BY <1>8, FillFilePreserves
<1>9. ASSUME NEW o \in Operator, Crash(o) PROVE IInv'
  BY <1>9, ExitPreserves DEF Crash
<1> QED
  BY <1>1, <1>2, <1>3, <1>4, <1>5, <1>6, <1>7, <1>8, <1>9 DEF Next

(* As long as no command is forced, every command that is alone at its      *)
(* subject finds in place what it has written so far (ca.py:68-151,         *)
(* Makefile:86-115), whatever the others do or where they were cut off.     *)
THEOREM PkiInvariant == ASSUME Unforced PROVE Spec => []IInv
<1>1. IInv /\ [Next]_vars => IInv'
  BY NextIInv
<1> QED
  BY <1>1, InitIInv, PTL DEF Spec

(* The files and commands keep their types; the key that issue reads from   *)
(* the CA's file is a key, since a torn file does not load (ca.py:129).     *)
THEOREM PkiTypes == ASSUME Unforced PROVE Spec => []TypeOK
<1>1. IInv => TypeOK
  BY DEF IInv
<1> QED
  BY <1>1, PkiInvariant, PTL

(* A certificate that is there in full has its keys beside it and verifies  *)
(* with the CA's certificate, unless two commands issued it or initialised  *)
(* the CA at once (ca.py:74-96, 125-142).                                   *)
THEOREM CertificatesIssuedWhole == ASSUME Unforced PROVE Spec => []IssuedWhole
<1>1. IInv => IssuedWhole
  <2> SUFFICES ASSUME IInv, NEW u \in User, Undisturbed(u), whole_cert(users(u, "cert"))
               PROVE  LET cert == disk[users(u, "cert")] IN
                        /\ cert.subject = u
                        /\ disk[users(u, "private")] = Private(cert.key)
                        /\ disk[users(u, "public")] = Public(cert.key)
                        /\ disk[ca_data("private")] = Private(cert.by)
                        /\ whole_cert(ca_data("cert")) => disk[ca_data("cert")].key = cert.by
    BY DEF IssuedWhole
  <2>1. whole_cert(ca_data("cert")) =>
          disk[ca_data("private")] = Private(disk[ca_data("cert")].key)
    BY DEF IInv, InPlace, CaInPlace, Undisturbed
  <2> QED
    BY <2>1, Kinds DEF IInv, InPlace, IssuedTogether, Together
<1> QED
  BY <1>1, PkiInvariant, PTL

(* Bundle and directory are of the certificate that was issued, unless two  *)
(* commands issued it or initialised the CA at once (Makefile:86-115).      *)
THEOREM CopiesStayCurrent == ASSUME Unforced PROVE Spec => []CopiesAgree
<1>1. IInv => CopiesAgree
  <2> SUFFICES ASSUME IInv, NEW u \in User, Undisturbed(u)
               PROVE  /\ \A p \in {client(u, "cert"), pubkeys(u)} :
                           whole_cert(p) => disk[p] = disk[users(u, "cert")] /\ whole_cert(users(u, "cert"))
                      /\ disk[client(u, "private")].is = "private" =>
                           \A p \in {client(u, "cert"), pubkeys(u)} :
                             whole_cert(p) => disk[client(u, "private")] = Private(disk[p].key)
                      /\ whole_cert(client(u, "ca_cert")) => disk[client(u, "ca_cert")] = disk[ca_data("cert")]
    BY DEF CopiesAgree
  <2>1. \A p \in {client(u, "cert"), pubkeys(u)} :
          whole_cert(p) => disk[p] = disk[users(u, "cert")] /\ whole_cert(users(u, "cert"))
    BY DEF IInv, InPlace, CopiesCurrent, Current, whole_cert
  <2>2. whole_cert(users(u, "cert")) => disk[users(u, "private")] = Private(disk[users(u, "cert")].key)
    BY DEF IInv, InPlace, IssuedTogether, Together
  <2> QED
    BY <2>1, <2>2 DEF IInv, InPlace, CopiesCurrent, Current
<1> QED
  BY <1>1, PkiInvariant, PTL

(* Which commands are past the check to issue u after a step.               *)
LEMMA IssuersSeen ==
  ASSUME IInv, NEW o \in Operator, NEW u \in User, Settled(u),
         Start(o) \/ cmd_init(o) \/ cmd_issue(o) \/ Sign(o) \/ client_setup(o) \/ server_register(o)
           \/ OpenFile(o) \/ FillFile(o) \/ Crash(o)
  PROVE  \A x \in Operator : ~ (Doing(job'[x], "issue") /\ job'[x].user = u)
<1>1. PICK n : job' = [job EXCEPT ![o] = n]
  BY DEF Start, cmd_init, cmd_issue, Sign, client_setup, server_register, OpenFile, FillFile, Crash, Exit, Goto
<1>2. \A x \in Operator : job'[x] = IF x = o THEN n ELSE job[x]
  BY <1>1 DEF IInv, TypeOK
<1>3. job[o] \in Job /\ JobOK(job[o])
  BY DEF IInv, TypeOK, JobsOK
<1>4. job' = [job EXCEPT ![o] = Idle] => ~ Doing(job'[o], "issue")
  BY IdleJob DEF IInv, TypeOK
<1>5. ASSUME Start(o) PROVE ~ Doing(job'[o], "issue")
  BY <1>5 DEF Start, Goto, Started, Doing, IInv, TypeOK
<1>6. ASSUME cmd_init(o) PROVE ~ Doing(job'[o], "issue")
  <2>1. PICK k \in Key \union {None} :
          \/ job' = [job EXCEPT ![o] = Idle]
          \/ job' = [job EXCEPT ![o] = [Writing(job[o]) EXCEPT !.key = k]]
    BY <1>6 DEF cmd_init, Exit, Goto
  <2> DEFINE j == [Writing(job[o]) EXCEPT !.key = k]
  <2>2. j.rest = job[o].rest
    BY <1>3, WritingFields DEF Job
  <2> HIDE DEF j
  <2>3. Head(job[o].rest) = "init"
    BY <1>6 DEF cmd_init, At
  <2>4. ~ Doing(j, "issue")
    BY <2>2, <2>3 DEF Doing
  <2> QED
    BY <1>4, <2>1, <2>4 DEF IInv, TypeOK, j
<1>7. ASSUME cmd_issue(o) PROVE ~ (Doing(job'[o], "issue") /\ job'[o].user = u)
  <2>1. CASE job[o].user = u
    <3>1. exists(users(u, "cert")) /\ ~ job[o].force
      BY <1>3, <1>7, Kinds DEF Settled, whole_cert, exists, cmd_issue, At, JobOK, RunOK
    <3> QED
      BY <1>4, <1>7, <2>1, <3>1 DEF cmd_issue, MayIssue, Exit, Goto
  <2>2. CASE job[o].user # u
    <3>1. \/ job' = [job EXCEPT ![o] = Idle]
          \/ job' = [job EXCEPT ![o] = [job[o] EXCEPT !.pc = "sign"]]
      BY <1>7 DEF cmd_issue, Exit, Goto
    <3>2. [job[o] EXCEPT !.pc = "sign"].user # u
      BY <1>3, <2>2 DEF Job
    <3> QED
      BY <1>4, <3>1, <3>2 DEF IInv, TypeOK
  <2> QED
    BY <2>1, <2>2
<1>8. ASSUME Sign(o) PROVE ~ (Doing(job'[o], "issue") /\ job'[o].user = u)
  <2>1. PICK k \in Key \union {None} :
          \/ job' = [job EXCEPT ![o] = Idle]
          \/ job' = [job EXCEPT ![o] = [Writing(job[o]) EXCEPT !.key = k, !.by = CaKey]]
    BY <1>8 DEF Sign, Exit, Goto
  <2> DEFINE j == [Writing(job[o]) EXCEPT !.key = k, !.by = CaKey]
  <2>2. j.user = job[o].user
    BY <1>3, WritingFields DEF Job
  <2> HIDE DEF j
  <2>3. Doing(job[o], "issue")
    BY <1>3, <1>8 DEF Sign, JobOK, RunOK, Doing
  <2>4. j.user # u
    BY <2>2, <2>3 DEF Settled
  <2> QED
    BY <1>4, <2>1, <2>4 DEF IInv, TypeOK, j
<1>9. ASSUME client_setup(o) \/ server_register(o) PROVE ~ Doing(job'[o], "issue")
  <2>1. /\ job[o].pc = "next" /\ Head(job[o].rest) # "issue"
        /\ job' = [job EXCEPT ![o] = Idle] \/ job' = [job EXCEPT ![o] = Writing(job[o])]
    BY <1>9 DEF client_setup, server_register, At, Exit, Goto
  <2>2. ~ Doing(Writing(job[o]), "issue")
    BY <1>3, <2>1, WritingFields DEF Doing
  <2> QED
    BY <1>4, <2>1, <2>2 DEF IInv, TypeOK
<1>10. ASSUME OpenFile(o) PROVE ~ (Doing(job'[o], "issue") /\ job'[o].user = u)
  <2> DEFINE j == [job[o] EXCEPT !.open = TRUE]
  <2>1. job[o].pc = "write" /\ job' = [job EXCEPT ![o] = j]
    BY <1>10 DEF OpenFile, Goto
  <2>2. j.rest = job[o].rest /\ j.user = job[o].user
    BY <1>3 DEF Job
  <2> HIDE DEF j
  <2>3. Doing(j, "issue") => Doing(job[o], "issue")
    BY <2>1, <2>2 DEF Doing
  <2> QED
    BY <2>1, <2>2, <2>3 DEF IInv, TypeOK, Settled
<1>11. ASSUME FillFile(o) PROVE ~ (Doing(job'[o], "issue") /\ job'[o].user = u)
  <2>1. job[o].pc = "write" /\ job' = [job EXCEPT ![o] = After(o)]
    BY <1>11 DEF FillFile, Goto, After, More, NextTarget
  <2> QED
    BY <2>1, AfterFile DEF IInv, TypeOK, Settled
<1>12. ASSUME Crash(o) PROVE ~ Doing(job'[o], "issue")
  BY <1>4, <1>12 DEF Crash, Exit, Goto
<1>13. ~ (Doing(job'[o], "issue") /\ job'[o].user = u)
  BY <1>5, <1>6, <1>7, <1>8, <1>9, <1>10, <1>11, <1>12
<1> QED
  BY <1>2, <1>13 DEF Settled

(* When nobody is past the check to issue a certificate that is there in    *)
(* full, it is not replaced, nor are its keys (ca.py:116-127): a step       *)
(* writes one file of its item, and the check refuses every later issue.    *)
THEOREM CertificatesForGood == ASSUME Unforced PROVE Spec => IssuedForGood
<1> DEFINE Files(u) == \A f \in {"private", "public", "cert"} : disk'[users(u, f)] = disk[users(u, f)]
           Stays == \A u \in User : Settled(u) =>
                      /\ Settled(u)'
                      /\ \A f \in {"private", "public", "cert"} : disk'[users(u, f)] = disk[users(u, f)]
<1>1. ASSUME IInv, NEW o \in Operator, NEW c, job[o].pc = "write",
             disk' = [disk EXCEPT ![Item(o)[1]] = c], NEW u \in User, Settled(u)
      PROVE  Files(u)
  <2>1. CASE AtInit(o) \/ AtCopy(o)
    <3>1. \A f : users(u, f) # Item(o)[1]
      <4>1. CASE AtInit(o)
        BY <4>1, PathsApart DEF AtInit
      <4>2. CASE AtCopy(o)
        BY <4>2, PathsApart DEF AtCopy
      <4> QED
        BY <2>1, <4>1, <4>2
    <3> QED
      BY <1>1, <3>1, PathTypes DEF IInv, TypeOK
  <2>2. CASE AtIssue(o)
    <3>1. Doing(job[o], "issue") /\ \E f : Item(o)[1] = users(job[o].user, f)
      BY <1>1, <2>2 DEF AtIssue, Doing
    <3>2. u # job[o].user
      BY <1>1, <3>1 DEF Settled
    <3>3. \A f : users(u, f) # Item(o)[1]
      BY <3>1, <3>2, PathsApart
    <3> QED
      BY <1>1, <3>3, PathTypes DEF IInv, TypeOK
  <2> QED
    BY <1>1, <2>1, <2>2, AtItem
<1>2. IInv /\ [Next]_vars => [Stays]_vars
  <2> SUFFICES ASSUME IInv, Next, NEW u \in User, Settled(u) PROVE Settled(u)' /\ Files(u)
    OBVIOUS
  <2>1. PICK o \in Operator :
          Start(o) \/ cmd_init(o) \/ cmd_issue(o) \/ Sign(o) \/ client_setup(o) \/ server_register(o)
            \/ OpenFile(o) \/ FillFile(o) \/ Crash(o)
    BY DEF Next
  <2>2. Files(u)
    <3>1. CASE OpenFile(o) \/ FillFile(o)
      <4>1. job[o].pc = "write" /\ \E c : disk' = [disk EXCEPT ![Item(o)[1]] = c]
        BY <3>1 DEF OpenFile, FillFile, Item
      <4> QED
        BY <1>1, <4>1
    <3>2. CASE ~ (OpenFile(o) \/ FillFile(o))
      BY <2>1, <3>2 DEF Start, cmd_init, cmd_issue, Sign, client_setup, server_register, Crash, Exit
    <3> QED
      BY <3>1, <3>2
  <2>3. whole_cert(users(u, "cert"))'
    BY <2>2 DEF Settled, whole_cert
  <2>4. \A x \in Operator : ~ (Doing(job'[x], "issue") /\ job'[x].user = u)
    BY <2>1, IssuersSeen
  <2> QED
    BY <2>2, <2>3, <2>4 DEF Settled, Doing
<1> QED
  BY <1>2, PkiInvariant, PTL DEF Spec, IssuedForGood
=============================================================================
