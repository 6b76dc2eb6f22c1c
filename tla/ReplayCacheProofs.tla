------------------------- MODULE ReplayCacheProofs -------------------------
(***************************************************************************)
(* The replay cache accepts no envelope twice, for every window, every     *)
(* retention time that covers it, every number of workers and every set of *)
(* nonces and timestamps.                                                  *)
(*                                                                         *)
(* AcceptOnce alone is not inductive: a worker that has passed the window  *)
(* test may hold an envelope whose row the purge has deleted meanwhile.    *)
(* What rules that out is StillGuarded together with what the locals of    *)
(* the threads say about the clock.                                        *)
(***************************************************************************)
EXTENDS ReplayCache, TLAPS

(* What a worker between lines 48 and 53 knows: its reading of the clock   *)
(* is recent and inside the window of its envelope.                        *)
FreshReading ==
  \A t \in Thread :
    call[t].pc = "record" =>
      /\ InWindow(call[t].env, call[t].now)
      /\ call[t].began - MaxStepBack <= call[t].now
      /\ call[t].now <= call[t].began
      /\ call[t].began <= clock
      /\ clock <= call[t].began + MaxStall

(* The cutoff the cleanup thread is about to use is no later than the one  *)
(* it would compute now.                                                   *)
CutoffBehind ==
  purge.pc = "delete" => purge.cutoff <= clock - NONCE_RETENTION_SECONDS

IInv ==
  /\ TypeOK
  /\ FreshReading
  /\ CutoffBehind
  /\ StillGuarded
  /\ AcceptOnce

----------------------------------------------------------------------------
(* The type invariant of the replay cache is an invariant of Spec.         *)
LEMMA InitTypeOK == Init => TypeOK
  BY ReplayConstants DEF Init, TypeOK, Idle, Envelope

LEMMA NextTypeOK == TypeOK /\ [Next]_vars => TypeOK'
<1> SUFFICES ASSUME TypeOK, [Next]_vars PROVE TypeOK'
  OBVIOUS
<1> USE ReplayConstants DEF TypeOK
<1>1. ASSUME NEW t \in Thread, NEW env \in Envelope, CheckWindow(t, env)
      PROVE  TypeOK'
  <2>1. PICK now \in WallClock : call' = [call EXCEPT ![t] = Recording(env, now)]
    BY <1>1 DEF CheckWindow
  <2>2. Recording(env, now) \in RecordingCall
    BY <1>1, <2>1 DEF CheckWindow, Recording, RecordingCall, Envelope, WallClock
  <2> QED
    BY <1>1, <2>1, <2>2 DEF CheckWindow
<1>2. ASSUME NEW t \in Thread, NEW env \in Envelope, RefuseAtOnce(t, env)
      PROVE  TypeOK'
  BY <1>2 DEF RefuseAtOnce, vars
<1>3. ASSUME NEW t \in Thread, RecordNonce(t)
      PROVE  TypeOK'
  <2>1. call[t] \in RecordingCall
    BY <1>3 DEF RecordNonce, Idle
  <2>2. call[t].env \in Envelope /\ [nonce |-> call[t].env.nonce, seen_at |-> call[t].now] \in Row
    BY <2>1 DEF RecordingCall, Envelope, Row
  <2>3. accepted[call[t].env] + 1 \in Nat
    BY <2>2
  <2>4. accepted' \in [Envelope -> Nat]
    BY <1>3, <2>2, <2>3 DEF RecordNonce
  <2>5. seen_nonces' \subseteq Row
    BY <1>3, <2>2 DEF RecordNonce
  <2> QED
    BY <1>3, <2>4, <2>5 DEF RecordNonce
<1>4. ASSUME NEW t \in Thread, RefuseReplay(t) \/ RecordFails(t)
      PROVE  TypeOK'
  BY <1>4 DEF RefuseReplay, RecordFails
<1>5. CASE ReadCutoff
  <2>1. PICK now \in WallClock : purge' = [pc |-> "delete", cutoff |-> Cutoff(now)]
    BY <1>5 DEF ReadCutoff
  <2>2. Cutoff(now) \in Int
    BY <2>1 DEF Cutoff, WallClock
  <2> QED
    BY <1>5, <2>1, <2>2 DEF ReadCutoff
<1>6. CASE DeleteOld \/ DeleteFails
  BY <1>6 DEF DeleteOld, DeleteFails
<1>7. CASE Tick
  BY <1>7 DEF Tick
<1>8. CASE Restart
  BY <1>8 DEF Restart
<1>9. CASE UNCHANGED vars
  BY <1>9 DEF vars
<1> QED
  BY <1>1, <1>2, <1>3, <1>4, <1>5, <1>6, <1>7, <1>8, <1>9 DEF Next

(* Type correctness: the table, the clock and the locals of every thread   *)
(* keep their types, whatever the workers and the purge do.                *)
THEOREM TypeCorrect == Spec => []TypeOK
  BY InitTypeOK, NextTypeOK, PTL DEF Spec

----------------------------------------------------------------------------
LEMMA TimestampIsInt ==
  ASSUME NEW env \in Envelope PROVE env.timestamp \in Int
  BY ReplayConstants DEF Envelope

(* The arithmetic of the retention time: a row old enough to be purged     *)
(* belongs to an envelope whose window has closed.                         *)
LEMMA PurgedIsClosed ==
  ASSUME NEW env \in Envelope, NEW at \in Int, NEW cutoff \in Int, clock \in Nat,
         at + TIMESTAMP_WINDOW_SECONDS >= env.timestamp,
         cutoff <= clock - NONCE_RETENTION_SECONDS,
         OlderThan([nonce |-> env.nonce, seen_at |-> at], cutoff)
  PROVE  WindowClosed(env)
<1>1. env.timestamp \in Int
  BY TimestampIsInt
<1>2. at < cutoff
  BY DEF OlderThan
<1> QED
  BY <1>1, <1>2, ReplayConstants, RetentionCoversWindow DEF WindowClosed

LEMMA InitIInv == Init => IInv
  BY InitTypeOK
  DEF Init, IInv, FreshReading, CutoffBehind, StillGuarded, AcceptOnce, Idle

LEMMA NextIInv == IInv /\ [Next]_vars => IInv'
<1> SUFFICES ASSUME IInv, [Next]_vars PROVE IInv'
  OBVIOUS
<1>t. TypeOK' /\ TypeOK
  BY NextTypeOK DEF IInv
<1> USE ReplayConstants, <1>t DEF IInv
<1>1. ASSUME NEW t \in Thread, NEW env \in Envelope, CheckWindow(t, env)
      PROVE  IInv'
  <2>1. PICK now \in WallClock : /\ InWindow(env, now)
                                 /\ call' = [call EXCEPT ![t] = Recording(env, now)]
    BY <1>1 DEF CheckWindow
  <2>2. FreshReading'
    BY <1>1, <2>1 DEF FreshReading, CheckWindow, Recording, WallClock, InWindow, TypeOK
  <2> QED
    BY <1>1, <2>2 DEF CheckWindow, CutoffBehind, StillGuarded, WindowClosed, AcceptOnce
<1>2. ASSUME NEW t \in Thread, NEW env \in Envelope, RefuseAtOnce(t, env)
      PROVE  IInv'
  BY <1>2 DEF RefuseAtOnce, vars, FreshReading, CutoffBehind, StillGuarded, WindowClosed,
              AcceptOnce, InWindow
<1>3. ASSUME NEW t \in Thread, RecordNonce(t)
      PROVE  IInv'
  <2> DEFINE e == call[t].env
  <2>1. call[t] \in RecordingCall /\ e \in Envelope
    BY <1>3 DEF RecordNonce, Idle, TypeOK, RecordingCall, Envelope
  <2>2. InWindow(e, call[t].now) /\ call[t].now >= clock - MaxStall - MaxStepBack
    BY <1>3, <2>1 DEF FreshReading, RecordNonce, RecordingCall, TypeOK
  <2>i. e.timestamp \in Int /\ call[t].now \in Int
    BY <2>1, TimestampIsInt DEF RecordingCall
  <2>3. ~ WindowClosed(e)
    BY <2>i, <2>2 DEF InWindow, WindowClosed, TypeOK
  <2>4. accepted[e] = 0
    BY <1>3, <2>1, <2>3 DEF StillGuarded, Recorded, RecordNonce, TypeOK
  <2>5. /\ accepted' = [accepted EXCEPT ![e] = 1]
        /\ \A row \in seen_nonces : row \in seen_nonces'
        /\ [nonce |-> e.nonce, seen_at |-> call[t].now] \in seen_nonces'
        /\ clock' = clock /\ purge' = purge
    BY <1>3, <2>4 DEF RecordNonce
  <2>6. FreshReading'
    BY <1>3 DEF RecordNonce, FreshReading, Idle, InWindow, TypeOK
  <2>7. AcceptOnce'
    BY <2>1, <2>5 DEF AcceptOnce, TypeOK
  <2>8. StillGuarded'
    <3> SUFFICES ASSUME NEW env \in Envelope, accepted'[env] > 0
                 PROVE  \/ WindowClosed(env)
                        \/ \E row \in seen_nonces' :
                             /\ row.nonce = env.nonce
                             /\ row.seen_at + TIMESTAMP_WINDOW_SECONDS >= env.timestamp
      BY <2>5 DEF StillGuarded, WindowClosed
    <3>1. CASE env = e
      <4>1. call[t].now + TIMESTAMP_WINDOW_SECONDS >= e.timestamp
        BY <2>i, <2>2 DEF InWindow
      <4> QED
        BY <2>5, <3>1, <4>1
    <3>2. CASE env # e
      <4>1. accepted[env] > 0
        BY <2>1, <2>5, <3>2 DEF TypeOK
      <4> QED
        BY <2>5, <4>1 DEF StillGuarded
    <3> QED
      BY <3>1, <3>2
  <2>9. CutoffBehind'
    BY <2>5 DEF CutoffBehind
  <2> QED
    BY <2>6, <2>7, <2>8, <2>9
<1>4. ASSUME NEW t \in Thread, RefuseReplay(t) \/ RecordFails(t)
      PROVE  IInv'
  BY <1>4 DEF RefuseReplay, RecordFails, FreshReading, CutoffBehind, StillGuarded,
              WindowClosed, AcceptOnce, Idle, InWindow, TypeOK
<1>5. CASE ReadCutoff
  <2>1. CutoffBehind'
    BY <1>5 DEF ReadCutoff, CutoffBehind, Cutoff, WallClock, TypeOK
  <2> QED
    BY <1>5, <2>1 DEF ReadCutoff, FreshReading, StillGuarded, WindowClosed, AcceptOnce, InWindow
<1>6. CASE DeleteOld
  <2>1. StillGuarded'
    <3> SUFFICES ASSUME NEW env \in Envelope, accepted[env] > 0, ~ WindowClosed(env)
                 PROVE  \E row \in seen_nonces' :
                          /\ row.nonce = env.nonce
                          /\ row.seen_at + TIMESTAMP_WINDOW_SECONDS >= env.timestamp
      BY <1>6 DEF DeleteOld, StillGuarded, WindowClosed
    <3>1. PICK row \in seen_nonces :
            /\ row.nonce = env.nonce
            /\ row.seen_at + TIMESTAMP_WINDOW_SECONDS >= env.timestamp
      BY DEF StillGuarded
    <3>2. row.seen_at \in Int /\ purge.cutoff \in Int
      BY <1>6 DEF TypeOK, Row, DeleteOld, Idle
    <3>3. ~ OlderThan(row, purge.cutoff)
      <4> SUFFICES ASSUME OlderThan(row, purge.cutoff) PROVE FALSE
        OBVIOUS
      <4>1. OlderThan([nonce |-> env.nonce, seen_at |-> row.seen_at], purge.cutoff)
        BY DEF OlderThan
      <4>2. purge.cutoff <= clock - NONCE_RETENTION_SECONDS
        BY <1>6 DEF DeleteOld, CutoffBehind
      <4> QED
        BY <3>1, <3>2, <4>1, <4>2, PurgedIsClosed DEF TypeOK
    <3> QED
      BY <1>6, <3>1, <3>3 DEF DeleteOld
  <2>2. CutoffBehind'
    BY <1>6 DEF DeleteOld, CutoffBehind, Idle
  <2> QED
    BY <1>6, <2>1, <2>2 DEF DeleteOld, FreshReading, AcceptOnce, InWindow
<1>7. CASE DeleteFails
  BY <1>7 DEF DeleteFails, FreshReading, CutoffBehind, StillGuarded, WindowClosed, AcceptOnce,
              Idle, InWindow
<1>8. CASE Tick
  <2>1. FreshReading'
    BY <1>8 DEF Tick, FreshReading, InWindow, TypeOK, RecordingCall, Idle
  <2>2. CutoffBehind'
    BY <1>8 DEF Tick, CutoffBehind, TypeOK, Idle
  <2>3. StillGuarded'
    <3>1. ASSUME NEW env \in Envelope, WindowClosed(env) PROVE WindowClosed(env)'
      BY <1>8, <3>1, TimestampIsInt DEF Tick, WindowClosed, TypeOK
    <3> QED
      BY <1>8, <3>1 DEF Tick, StillGuarded
  <2> QED
    BY <1>8, <2>1, <2>2, <2>3 DEF Tick, AcceptOnce
<1>9. CASE Restart
  BY <1>9 DEF Restart, FreshReading, CutoffBehind, StillGuarded, WindowClosed, AcceptOnce, Idle
<1>10. CASE UNCHANGED vars
  BY <1>10 DEF vars, FreshReading, CutoffBehind, StillGuarded, WindowClosed, AcceptOnce, InWindow
<1> QED
  BY <1>1, <1>2, <1>3, <1>4, <1>5, <1>6, <1>7, <1>8, <1>9, <1>10 DEF Next

LEMMA IInvHolds == Spec => []IInv
  BY InitIInv, NextIInv, PTL DEF Spec

(* Replay protection: check_and_record returns True at most once for an    *)
(* envelope, although its row is purged after the retention time, the      *)
(* purge and the workers interleave at will, the clock may be stepped back *)
(* and the server may restart.                                             *)
THEOREM NoReplay == Spec => []AcceptOnce
<1>1. IInv => AcceptOnce
  BY DEF IInv
<1> QED
  BY <1>1, IInvHolds, PTL

(* The purge forgets a nonce only after the timestamp test refuses every   *)
(* envelope that carried it.                                               *)
THEOREM PurgeIsSafe == Spec => []StillGuarded
<1>1. IInv => StillGuarded
  BY DEF IInv
<1> QED
  BY <1>1, IInvHolds, PTL

----------------------------------------------------------------------------
(* What a row witnesses: an envelope that was accepted.                     *)
AcceptedFor(row, env) ==
  env.nonce = row.nonce /\ accepted[env] > 0 /\ InWindow(env, row.seen_at)

LEMMA StepBurnsOnlyAccepted ==
  IInv /\ OnlyAcceptedBurns /\ [Next]_vars => OnlyAcceptedBurns'
<1> SUFFICES ASSUME IInv, OnlyAcceptedBurns, [Next]_vars PROVE OnlyAcceptedBurns'
  OBVIOUS
<1>1. ASSUME NEW t \in Thread, RecordNonce(t)
      PROVE  OnlyAcceptedBurns'
  <2>1. call[t] \in RecordingCall
    BY <1>1 DEF IInv, TypeOK, RecordNonce, Idle
  <2>2. call[t].env \in Envelope /\ accepted \in [Envelope -> Nat]
    BY <2>1, ReplayConstants DEF IInv, TypeOK, RecordingCall, Envelope
  <2>3. /\ accepted'[call[t].env] = accepted[call[t].env] + 1
        /\ \A env \in Envelope : accepted'[env] >= accepted[env]
    BY <1>1, <2>2 DEF RecordNonce
  <2>4. InWindow(call[t].env, call[t].now)
    BY <1>1 DEF IInv, FreshReading, RecordNonce
  <2> SUFFICES ASSUME NEW row \in seen_nonces'
               PROVE  \E env \in Envelope : AcceptedFor(row, env)'
    BY DEF OnlyAcceptedBurns, AcceptedFor
  <2>5. CASE row \in seen_nonces
    <3>1. PICK env \in Envelope : AcceptedFor(row, env)
      BY <2>5 DEF OnlyAcceptedBurns, AcceptedFor
    <3>2. accepted'[env] \in Nat /\ accepted[env] \in Nat /\ accepted'[env] > 0
      BY <2>2, <2>3, <3>1, <1>1 DEF AcceptedFor, RecordNonce
    <3> QED
      BY <3>1, <3>2 DEF AcceptedFor, InWindow
  <2>6. CASE row = [nonce |-> call[t].env.nonce, seen_at |-> call[t].now]
    <3>1. accepted'[call[t].env] > 0
      BY <2>2, <2>3
    <3> QED
      BY <2>2, <2>4, <2>6, <3>1 DEF AcceptedFor, InWindow
  <2> QED
    BY <1>1, <2>5, <2>6 DEF RecordNonce
<1>2. ASSUME seen_nonces' \subseteq seen_nonces, UNCHANGED accepted
      PROVE  OnlyAcceptedBurns'
  BY <1>2 DEF OnlyAcceptedBurns, InWindow
<1>3. ASSUME NEW t \in Thread, NEW env \in Envelope, CheckWindow(t, env) \/ RefuseAtOnce(t, env)
      PROVE  OnlyAcceptedBurns'
  BY <1>2, <1>3 DEF CheckWindow, RefuseAtOnce, vars
<1>4. ASSUME NEW t \in Thread, RefuseReplay(t) \/ RecordFails(t)
      PROVE  OnlyAcceptedBurns'
  BY <1>2, <1>4 DEF RefuseReplay, RecordFails
<1>5. CASE ReadCutoff \/ DeleteOld \/ DeleteFails
  BY <1>2, <1>5 DEF ReadCutoff, DeleteOld, DeleteFails
<1>6. CASE Tick \/ Restart \/ UNCHANGED vars
  BY <1>2, <1>6 DEF Tick, Restart, vars
<1> QED
  BY <1>1, <1>3, <1>4, <1>5, <1>6 DEF Next

(* A request that was refused burns nothing: every row of the table comes  *)
(* from an envelope that passed the window test and was accepted, with its *)
(* seen_at inside that envelope's window (replay.py:46-60).                *)
THEOREM RefusedBurnNothing == Spec => []OnlyAcceptedBurns
<1>1. Init => OnlyAcceptedBurns
  BY DEF Init, OnlyAcceptedBurns
<1>2. IInv /\ OnlyAcceptedBurns /\ [Next]_vars => OnlyAcceptedBurns'
  BY StepBurnsOnlyAccepted
<1> QED
  BY <1>1, <1>2, IInvHolds, PTL DEF Spec
=============================================================================
