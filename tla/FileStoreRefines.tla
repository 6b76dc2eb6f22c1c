-------------------------- MODULE FileStoreRefines --------------------------
(***************************************************************************)
(* The handlers keep the promise of module FileDrop (KeepsPromise), and    *)
(* never reopen a closed file (NeverReopened).  Both are proved step by    *)
(* step from the inductive invariant of FileStoreProofs: that Respond is   *)
(* the delivery of a grant needs what JobsOK says of a worker there.       *)
(***************************************************************************)
EXTENDS FileStoreProofs

NoReopening ==
  \A f \in File :
    /\ status[f] \in Closed => status'[f] \in Closed
    /\ status[f] = "pending" => status'[f] # "absent"

LEMMA StepReopensNothing == IInv /\ [Next]_vars => [NoReopening]_vars
<1> SUFFICES ASSUME IInv, Next PROVE NoReopening
  BY DEF NoReopening
<1>t. TypeOK /\ TypeOK'
  BY NextTypeOK DEF IInv
<1> USE <1>t DEF NoReopening, Closed
<1>1. ASSUME status' = status PROVE NoReopening
  BY <1>1
<1>2. ASSUME NEW w \in Worker,
             InsertFile(w) \/ MarkExpired(w) \/ MarkDownloaded(w) \/ MarkRevoked(w)
      PROVE  NoReopening
  <2>1. job[w] \in Busy
    BY <1>2 DEF InsertFile, MarkExpired, MarkDownloaded, MarkRevoked, TypeOK, Idle
  <2> QED
    BY <1>2, <2>1 DEF InsertFile, MarkExpired, MarkDownloaded, MarkRevoked, TypeOK, Busy
<1>3. CASE Sweep
  BY <1>3 DEF Sweep, Overdue, TypeOK
<1>4. ASSUME NEW w \in Worker, Handle(w) \/ Abort(w) \/ AnswerOnly(w)
      PROVE  NoReopening
  BY <1>1, <1>2, <1>4
  DEF Handle, OpenTmp, WriteShort, FillTmp, Replace, FindExpired, Authorise, Respond, InsertAck, SendReply,
      Abort, AnswerOnly, rows, vars
<1>5. ASSUME NEW w \in Worker, NEW f \in File, NEW u \in User,
             TakeDownload(w, f, u) \/ TakeAck(w, f, u) \/ TakeRevoke(w, f, u)
      PROVE  NoReopening
  BY <1>1, <1>5 DEF TakeDownload, TakeAck, TakeRevoke, rows
<1>6. ASSUME NEW w \in Worker, NEW f \in File, NEW p \in Package, TakeUpload(w, f, p)
      PROVE  NoReopening
  BY <1>1, <1>6 DEF TakeUpload, rows
<1>7. CASE Clean
  BY <1>1, <1>3, <1>7 DEF Clean, StartCleaner, StartPass, PassFails, rows
<1>8. CASE Tick \/ Restart
  BY <1>1, <1>8 DEF Tick, Restart, rows
<1> QED
  BY <1>4, <1>5, <1>6, <1>7, <1>8 DEF Next

(* No interleaving of the unconditional UPDATEs makes a closed file        *)
(* pending again, and no step deletes a row.                               *)
THEOREM ClosedForGood == Spec => NeverReopened
<1>1. IInv /\ [Next]_vars =>
        [\A f \in File :
           /\ status[f] \in Closed => status'[f] \in Closed
           /\ status[f] = "pending" => status'[f] # "absent"]_vars
  BY StepReopensNothing DEF NoReopening
<1> QED
  BY <1>1, IInvHolds, PTL DEF Spec, NeverReopened

----------------------------------------------------------------------------
(* The refinement mapping, named. *)
States == [f \in File |-> StateOf(f)]
Grants == [w \in Worker |-> GrantOf(w)]
Delivered == {f \in File : "DOWNLOAD_RESPONSE" \in sent[f]}

LEMMA InitRefines == Init => Drop!Init
  BY DEF Init, Drop!Init, StateOf, GrantOf, Idle

(* A step that leaves the mapped state alone. *)
LEMMA Stutters ==
  ASSUME States' = States, Grants' = Grants, Delivered' = Delivered
  PROVE  UNCHANGED Drop!vars
  BY DEF States, Grants, Delivered, Drop!vars

LEMMA SameRowsSameStates ==
  ASSUME status' = status PROVE States' = States
  BY DEF States, StateOf

LEMMA SameSentSameDelivered ==
  ASSUME sent' = sent PROVE Delivered' = Delivered
  BY DEF Delivered

(* Only a worker that enters or leaves a download changes the grants. *)
LEMMA OtherStepsKeepGrants ==
  ASSUME TypeOK, NEW w \in Worker, NEW pc \in BusyPC \ {"authorise", "respond"},
         job[w].pc \notin {"authorise", "respond"}, Goto(w, pc)
  PROVE  Grants' = Grants
<1>1. ASSUME NEW v \in Worker PROVE GrantOf(v)' = GrantOf(v)
  <2>1. CASE v = w
    <3>1. job'[w].pc = pc
      BY DEF Goto, TypeOK, Busy, Idle
    <3> QED
      BY <2>1, <3>1 DEF GrantOf
  <2>2. CASE v # w
    BY <2>2 DEF Goto, GrantOf, TypeOK
  <2> QED
    BY <2>1, <2>2
<1> QED
  BY <1>1 DEF Grants

(* Writing a closing status closes an open file and leaves a closed one.   *)
LEMMA ClosingRefines ==
  ASSUME TypeOK, NEW f \in File, NEW s \in Closed, status[f] # "absent",
         status' = [status EXCEPT ![f] = s], Grants' = Grants, Delivered' = Delivered
  PROVE  [Drop!Next]_Drop!vars
<1> USE DEF TypeOK, Closed, Status
<1>1. CASE status[f] = "pending"
  <2>1. States' = [g \in File |-> IF g \in {f} THEN "closed" ELSE States[g]]
    BY <1>1 DEF States, StateOf
  <2>2. Drop!Close({f})
    BY <1>1, <2>1 DEF Drop!Close, States, StateOf, Grants, Delivered
  <2> QED
    BY <2>2 DEF Drop!Next
<1>2. CASE status[f] # "pending"
  <2>1. States' = States
    BY <1>2 DEF States, StateOf
  <2> QED
    BY <2>1, Stutters
<1> QED
  BY <1>1, <1>2

LEMMA StepRefines == IInv /\ [Next]_vars => [Drop!Next]_Drop!vars
<1> SUFFICES ASSUME IInv, [Next]_vars PROVE [Drop!Next]_Drop!vars
  OBVIOUS
<1>t. TypeOK /\ JobsOK
  BY DEF IInv
<1> USE <1>t, StoreConstants
<1>1. ASSUME NEW w \in Worker, NEW f \in File, NEW p \in Package, TakeUpload(w, f, p)
      PROVE  [Drop!Next]_Drop!vars
  <2>1. job' = job \/ Become(w, Storing(f, p))
    BY <1>1 DEF TakeUpload
  <2>2. job[w] = Idle
    BY <1>1 DEF TakeUpload
  <2>3. Grants' = Grants
    BY <2>1, <2>2 DEF Become, Storing, Idle, Grants, GrantOf, TypeOK
  <2> QED
    BY <1>1, <2>3, Stutters, SameRowsSameStates, SameSentSameDelivered DEF TakeUpload, rows
<1>2. ASSUME NEW w \in Worker,
             OpenTmp(w) \/ WriteShort(w) \/ FillTmp(w) \/ Replace(w) \/ InsertAck(w)
      PROVE  [Drop!Next]_Drop!vars
  <2>1. Grants' = Grants
    BY <1>2, OtherStepsKeepGrants DEF OpenTmp, WriteShort, FillTmp, Replace, InsertAck, BusyPC
  <2> QED
    BY <1>2, <2>1, Stutters, SameRowsSameStates, SameSentSameDelivered
    DEF OpenTmp, WriteShort, FillTmp, Replace, InsertAck, rows
<1>3. ASSUME NEW w \in Worker, InsertFile(w)
      PROVE  [Drop!Next]_Drop!vars
  <2>1. job[w] \in Busy
    BY <1>3 DEF InsertFile, TypeOK, Idle
  <2>2. Grants' = Grants
    BY <1>3, OtherStepsKeepGrants DEF InsertFile, BusyPC
  <2>3. Drop!Publish(job[w].file)
    BY <1>3, <2>1, <2>2, SameSentSameDelivered
    DEF InsertFile, Drop!Publish, StateOf, Grants, Delivered, TypeOK, Busy
  <2>4. job[w].file \in File
    BY <2>1 DEF Busy
  <2> QED
    BY <2>3, <2>4 DEF Drop!Next
<1>4. ASSUME NEW w \in Worker, NEW f \in File, NEW u \in User, TakeDownload(w, f, u)
      PROVE  [Drop!Next]_Drop!vars
  <2>1. States' = States /\ Delivered' = Delivered
    BY <1>4, SameRowsSameStates, SameSentSameDelivered DEF TakeDownload, rows
  <2>2. Grants' = [Grants EXCEPT ![w] = IF status[f] = "pending" THEN f ELSE None]
    BY <1>4 DEF TakeDownload, Become, Downloading, Grants, GrantOf, TypeOK
  <2>3. Grants[w] = None
    BY <1>4 DEF TakeDownload, Idle, Grants, GrantOf
  <2>4. CASE status[f] = "pending"
    <3>1. Drop!Grant(w, f)
      BY <2>1, <2>2, <2>3, <2>4 DEF Drop!Grant, States, Grants, Delivered, StateOf
    <3> QED
      BY <3>1 DEF Drop!Next
  <2>5. CASE status[f] # "pending"
    <3>1. Grants' = Grants
      BY <2>2, <2>3, <2>5 DEF Grants
    <3> QED
      BY <2>1, <3>1, Stutters
  <2> QED
    BY <2>4, <2>5
<1>5. ASSUME NEW w \in Worker, NEW f \in File, NEW u \in User,
             TakeAck(w, f, u) \/ TakeRevoke(w, f, u)
      PROVE  [Drop!Next]_Drop!vars
  <2>1. Grants' = Grants
    BY <1>5 DEF TakeAck, TakeRevoke, Become, Working, Idle, Grants, GrantOf, TypeOK
  <2> QED
    BY <1>5, <2>1, Stutters, SameRowsSameStates, SameSentSameDelivered
    DEF TakeAck, TakeRevoke, rows
<1>6. ASSUME NEW w \in Worker, FindExpired(w) \/ Authorise(w) \/ Abort(w)
      PROVE  [Drop!Next]_Drop!vars
  <2>1. States' = States /\ Delivered' = Delivered
    BY <1>6, SameRowsSameStates, SameSentSameDelivered DEF FindExpired, Authorise, Abort, rows
  <2>2. \/ Grants' = Grants
        \/ Grants' = [v \in Worker |-> IF v \in {w} THEN None ELSE Grants[v]]
    BY <1>6 DEF FindExpired, Authorise, Abort, Goto, Become, Idle, Grants, GrantOf, TypeOK, Busy
  <2>3. CASE Grants' = Grants
    BY <2>1, <2>3, Stutters
  <2>4. CASE Grants' = [v \in Worker |-> IF v \in {w} THEN None ELSE Grants[v]]
    <3>1. Drop!GiveUp({w})
      BY <2>1, <2>4 DEF Drop!GiveUp, States, Grants, Delivered
    <3> QED
      BY <3>1 DEF Drop!Next
  <2> QED
    BY <2>2, <2>3, <2>4
<1>7. ASSUME NEW w \in Worker, Respond(w)
      PROVE  [Drop!Next]_Drop!vars
  <2>1. job[w] \in Busy
    BY <1>7 DEF Respond, TypeOK, Idle
  <2>2. Grants[w] = job[w].file /\ job[w].file \in File
    BY <1>7, <2>1 DEF Respond, JobsOK, Grants, GrantOf, Busy
  <2>3. Grants' = [Grants EXCEPT ![w] = None]
    BY <1>7 DEF Respond, Become, Idle, Grants, GrantOf, TypeOK
  <2>4. Delivered' = Delivered \union {job[w].file}
    BY <1>7, <2>2 DEF Respond, Delivered, TypeOK
  <2>5. States' = States
    BY <1>7, SameRowsSameStates DEF Respond, rows
  <2>6. Drop!Deliver(w)
    BY <2>2, <2>3, <2>4, <2>5 DEF Drop!Deliver, States, Grants, Delivered
  <2> QED
    BY <2>6 DEF Drop!Next
<1>8. ASSUME NEW w \in Worker, MarkExpired(w) \/ MarkDownloaded(w) \/ MarkRevoked(w)
      PROVE  [Drop!Next]_Drop!vars
  <2>1. job[w] \in Busy
    BY <1>8 DEF MarkExpired, MarkDownloaded, MarkRevoked, TypeOK, Idle
  <2>2. job[w].file \in File /\ status[job[w].file] # "absent"
    BY <1>8, <2>1
    DEF MarkExpired, MarkDownloaded, MarkRevoked, JobsOK, BusyPC, Uploading, Busy
  <2>3. Grants' = Grants
    <3>1. CASE MarkExpired(w)
      BY <3>1 DEF MarkExpired, Become, Idle, Grants, GrantOf, TypeOK
    <3>2. CASE MarkDownloaded(w) \/ MarkRevoked(w)
      BY <3>2, OtherStepsKeepGrants DEF MarkDownloaded, MarkRevoked, BusyPC
    <3> QED
      BY <1>8, <3>1, <3>2
  <2>4. Delivered' = Delivered
    BY <1>8, SameSentSameDelivered DEF MarkExpired, MarkDownloaded, MarkRevoked
  <2>5. \E s \in Closed : status' = [status EXCEPT ![job[w].file] = s]
    BY <1>8 DEF MarkExpired, MarkDownloaded, MarkRevoked, Closed
  <2> QED
    BY <2>2, <2>3, <2>4, <2>5, ClosingRefines
<1>9. ASSUME NEW w \in Worker, SendReply(w)
      PROVE  [Drop!Next]_Drop!vars
  <2>1. job[w] \in Busy
    BY <1>9 DEF SendReply, TypeOK, Idle
  <2>2. Delivered' = Delivered
    BY <1>9, <2>1 DEF SendReply, Delivered, TypeOK, Busy
  <2>3. Grants' = Grants
    BY <1>9 DEF SendReply, Become, Idle, Grants, GrantOf, TypeOK
  <2> QED
    BY <1>9, <2>2, <2>3, Stutters, SameRowsSameStates DEF SendReply, rows
<1>10. CASE Sweep
  <2> DEFINE F == {f \in File : Overdue(f)}
  <2>1. Grants' = Grants /\ Delivered' = Delivered
    BY <1>10, SameSentSameDelivered DEF Sweep, Grants, GrantOf
  <2>2. States' = [f \in File |-> IF f \in F THEN "closed" ELSE States[f]]
    BY <1>10 DEF Sweep, States, StateOf, TypeOK
  <2>3. \A f \in F : States[f] = "open"
    BY DEF States, StateOf, Overdue
  <2>4. Drop!Close(F)
    BY <2>1, <2>2, <2>3 DEF Drop!Close, States, Grants, Delivered
  <2> QED
    BY <2>4 DEF Drop!Next
<1>11. CASE StartCleaner \/ StartPass \/ PassFails \/ Tick
  <2>1. Grants' = Grants
    BY <1>11 DEF StartCleaner, StartPass, PassFails, Tick, Grants, GrantOf
  <2> QED
    BY <1>11, <2>1, Stutters, SameRowsSameStates, SameSentSameDelivered
    DEF StartCleaner, StartPass, PassFails, Tick, rows
<1>12. CASE Restart
  <2>1. States' = States /\ Delivered' = Delivered
    BY <1>12, SameRowsSameStates, SameSentSameDelivered DEF Restart, rows
  <2>2. Grants' = [v \in Worker |-> IF v \in Worker THEN None ELSE Grants[v]]
    BY <1>12 DEF Restart, Idle, Grants, GrantOf
  <2>3. Drop!GiveUp(Worker)
    BY <2>1, <2>2 DEF Drop!GiveUp, States, Grants, Delivered
  <2> QED
    BY <2>3 DEF Drop!Next
<1>13. CASE UNCHANGED vars \/ \E w \in Worker : AnswerOnly(w)
  <2>1. UNCHANGED <<status, job, sent>>
    BY <1>13 DEF vars, AnswerOnly
  <2>2. Grants' = Grants
    BY <2>1 DEF Grants, GrantOf
  <2> QED
    BY <2>1, <2>2, Stutters, SameRowsSameStates, SameSentSameDelivered
<1> QED
  BY <1>1, <1>2, <1>3, <1>4, <1>5, <1>6, <1>7, <1>8, <1>9, <1>10, <1>11, <1>12, <1>13
  DEF Next, Handle, Clean

(* The handlers and the cleanup thread, in any interleaving and with any   *)
(* crash, do what module FileDrop promises: a file is granted only while   *)
(* it is open, one grant serves it at most once, and closing is final.     *)
THEOREM PromiseKept == Spec => KeepsPromise
  BY InitRefines, StepRefines, IInvHolds, PTL DEF Spec, KeepsPromise, Drop!Spec
=============================================================================
