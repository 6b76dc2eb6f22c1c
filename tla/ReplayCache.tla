---------------------------- MODULE ReplayCache ----------------------------
(***************************************************************************)
(* The replay cache of the server: zerotrust/server/replay.py, called by   *)
(* every state-changing handler before anything else, and by the cleanup   *)
(* thread, which purges it.  Each caller has its own SQLite connection, so *)
(* the only thing they share is the table seen_nonces, and the only atomic *)
(* steps are the SQL statements.  Between the statement that reads the     *)
(* wall clock and the one that uses the value anything may happen.         *)
(*                                                                         *)
(* Time is measured by clock, which never goes back.  time.time() is not   *)
(* that clock: it may be stepped back, so a read returns a value at most   *)
(* MaxStepBack behind it.                                                  *)
(***************************************************************************)
EXTENDS Integers

CONSTANTS
  Nonce,                       \* the nonces envelopes carry
  Nonce16,                     \* those of them that are 16 bytes long
  Timestamp,                   \* the timestamps envelopes carry
  Thread,                      \* the worker threads of the server
  TIMESTAMP_WINDOW_SECONDS,
  NONCE_RETENTION_SECONDS,
  MaxStepBack,                 \* how far time.time() may lag behind clock
  MaxStall,                    \* the longest a worker takes from line 48 to line 53
  MaxTime                      \* bound: the model's time ends here

ASSUME ReplayConstants ==
  /\ Nonce16 \subseteq Nonce
  /\ Timestamp \subseteq Int
  /\ TIMESTAMP_WINDOW_SECONDS \in Nat
  /\ NONCE_RETENTION_SECONDS \in Nat
  /\ MaxStepBack \in Nat
  /\ MaxStall \in Nat
  /\ MaxTime \in Nat

(* With the code's 30 and 300 this leaves 240 seconds for a stalled worker *)
(* and a stepped clock together.                                           *)
ASSUME RetentionCoversWindow ==
  NONCE_RETENTION_SECONDS >= 2 * TIMESTAMP_WINDOW_SECONDS + MaxStall + MaxStepBack

Envelope == [nonce : Nonce, timestamp : Timestamp]

VARIABLES
  clock,         \* elapsed time
  seen_nonces,   \* the rows of the table
  call,          \* what each worker is doing in check_and_record
  purge,         \* what the cleanup thread is doing in purge_old_nonces
  accepted       \* how many times each envelope was accepted (history)

vars == <<clock, seen_nonces, call, purge, accepted>>

(* A read of int(time.time()). *)
WallClock == (clock - MaxStepBack) .. clock

Idle == [pc |-> "idle"]
Recording(env, now) == [pc |-> "record", env |-> env, now |-> now, began |-> clock]

Init ==
  /\ clock = 0
  /\ seen_nonces = {}
  /\ call = [t \in Thread |-> Idle]
  /\ purge = Idle
  /\ accepted = [env \in Envelope |-> 0]

----------------------------------------------------------------------------
(* check_and_record *)

InWindow(env, now) ==
  /\ now - env.timestamp <= TIMESTAMP_WINDOW_SECONDS
  /\ env.timestamp - now <= TIMESTAMP_WINDOW_SECONDS

NeverRecorded(nonce) == FALSE  \* mutant: seen_nonces without its primary key

Recorded(nonce) == \E row \in seen_nonces : row.nonce = nonce

CheckNoLength(t, env) ==       \* mutant: the length test of line 46 dropped
  /\ call[t] = Idle
  /\ \E now \in WallClock :
       /\ InWindow(env, now)
       /\ call' = [call EXCEPT ![t] = Recording(env, now)]
  /\ UNCHANGED <<clock, seen_nonces, purge, accepted>>

CheckNoWindow(t, env) ==       \* mutant: the window test of line 49 dropped
  /\ call[t] = Idle
  /\ env.nonce \in Nonce16
  /\ \E now \in WallClock : call' = [call EXCEPT ![t] = Recording(env, now)]
  /\ UNCHANGED <<clock, seen_nonces, purge, accepted>>

(* Lines 46-50: the length and the window are checked first, and a caller  *)
(* that fails either returns False without touching the table.             *)
CheckWindow(t, env) ==
  /\ call[t] = Idle
  /\ env.nonce \in Nonce16
  /\ \E now \in WallClock :
       /\ InWindow(env, now)
       /\ call' = [call EXCEPT ![t] = Recording(env, now)]
  /\ UNCHANGED <<clock, seen_nonces, purge, accepted>>

RefuseAtOnce(t, env) ==
  /\ call[t] = Idle
  /\ \/ env.nonce \notin Nonce16
     \/ \E now \in WallClock : ~ InWindow(env, now)
  /\ UNCHANGED vars

(* Lines 51-56: the INSERT commits, and the envelope is accepted. *)
RecordNonce(t) ==
  /\ call[t].pc = "record"
  /\ ~ Recorded(call[t].env.nonce)
  /\ seen_nonces' = seen_nonces \union {[nonce |-> call[t].env.nonce, seen_at |-> call[t].now]}
  /\ accepted' = [accepted EXCEPT ![call[t].env] = @ + 1]
  /\ call' = [call EXCEPT ![t] = Idle]
  /\ UNCHANGED <<clock, purge>>

(* Lines 57-59: the primary key refuses the INSERT. *)
RefuseReplay(t) ==
  /\ call[t].pc = "record"
  /\ Recorded(call[t].env.nonce)
  /\ call' = [call EXCEPT ![t] = Idle]
  /\ UNCHANGED <<clock, seen_nonces, purge, accepted>>

(* Any other sqlite3.Error (a locked database, a full disk) leaves         *)
(* check_and_record and ends the connection: nothing was recorded.         *)
RecordFails(t) ==
  /\ call[t].pc = "record"
  /\ call' = [call EXCEPT ![t] = Idle]
  /\ UNCHANGED <<clock, seen_nonces, purge, accepted>>

----------------------------------------------------------------------------
(* purge_old_nonces *)

WindowCutoff(now) ==           \* mutant: the window taken for the retention time
  now - TIMESTAMP_WINDOW_SECONDS

Cutoff(now) == now - NONCE_RETENTION_SECONDS

NewerThan(row, cutoff) ==      \* mutant: the comparison of the DELETE reversed
  row.seen_at > cutoff

OlderThan(row, cutoff) == row.seen_at < cutoff

ReadCutoff ==
  /\ purge = Idle
  /\ \E now \in WallClock :
       purge' = [pc |-> "delete", cutoff |-> Cutoff(now)]
  /\ UNCHANGED <<clock, seen_nonces, call, accepted>>

DeleteOld ==
  /\ purge.pc = "delete"
  /\ seen_nonces' = {row \in seen_nonces : ~ OlderThan(row, purge.cutoff)}
  /\ purge' = Idle
  /\ UNCHANGED <<clock, call, accepted>>

(* cleanup.py catches the error and tries again at the next pass. *)
DeleteFails ==
  /\ purge.pc = "delete"
  /\ purge' = Idle
  /\ UNCHANGED <<clock, seen_nonces, call, accepted>>

----------------------------------------------------------------------------
(* Time passes, but no worker stays more than MaxStall between its read of *)
(* the clock and its INSERT.                                               *)
Tick ==
  /\ clock < MaxTime
  /\ \A t \in Thread : call[t].pc = "record" => clock - call[t].began < MaxStall
  /\ clock' = clock + 1
  /\ UNCHANGED <<seen_nonces, call, purge, accepted>>

(* The process dies and is started again: the table survives, the threads  *)
(* do not.                                                                 *)
Restart ==
  /\ call' = [t \in Thread |-> Idle]
  /\ purge' = Idle
  /\ UNCHANGED <<clock, seen_nonces, accepted>>

Next ==
  \/ \E t \in Thread, env \in Envelope : CheckWindow(t, env)
  \/ \E t \in Thread, env \in Envelope : RefuseAtOnce(t, env)
  \/ \E t \in Thread : RecordNonce(t)
  \/ \E t \in Thread : RefuseReplay(t)
  \/ \E t \in Thread : RecordFails(t)
  \/ ReadCutoff
  \/ DeleteOld
  \/ DeleteFails
  \/ Tick
  \/ Restart

Spec == Init /\ [][Next]_vars

(* The loop in cleanup.py starts a pass every minute; a pass that starts   *)
(* over and over is not always interrupted or refused.                     *)
FairSpec == Spec /\ WF_vars(ReadCutoff) /\ SF_vars(DeleteOld)

----------------------------------------------------------------------------
Row == [nonce : Nonce16, seen_at : Int]

RecordingCall ==
  [pc : {"record"}, env : [nonce : Nonce16, timestamp : Timestamp], now : Int, began : Int]

(* Type correctness of the clock, the table and the threads' locals. *)
TypeOK ==
  /\ clock \in Nat
  /\ seen_nonces \subseteq Row
  /\ call \in [Thread -> RecordingCall \union {Idle}]
  /\ purge \in [pc : {"delete"}, cutoff : Int] \union {Idle}
  /\ accepted \in [Envelope -> Nat]

(* No envelope is accepted twice: whatever two workers and the purge do    *)
(* between the statements of check_and_record (40-60), a delivered copy of *)
(* a request is refused, also after its row is gone from the table.        *)
AcceptOnce == \A env \in Envelope : accepted[env] <= 1

(* The time at which no worker, in flight or to come, can read a clock     *)
(* value that is still inside the envelope's window.                       *)
WindowClosed(env) ==
  env.timestamp + TIMESTAMP_WINDOW_SECONDS < clock - MaxStall - MaxStepBack

(* An accepted envelope stays guarded: its row is in the table, unless its *)
(* window has closed for good.  purge_old_nonces (63-69) may forget only   *)
(* what the timestamp test of line 49 refuses by itself.                   *)
StillGuarded ==
  \A env \in Envelope :
    accepted[env] > 0 =>
      \/ WindowClosed(env)
      \/ \E row \in seen_nonces :
           /\ row.nonce = env.nonce
           /\ row.seen_at + TIMESTAMP_WINDOW_SECONDS >= env.timestamp

(* Only an accepted request burns its nonce: whatever is in the table came *)
(* from an envelope that passed the window test (49) and was accepted, so  *)
(* a request that is refused at the INSERT (57) is refused because of one  *)
(* that went through.                                                      *)
OnlyAcceptedBurns ==
  \A row \in seen_nonces :
    \E env \in Envelope :
      /\ env.nonce = row.nonce
      /\ accepted[env] > 0
      /\ InWindow(env, row.seen_at)

(* The cache does not grow for ever: a row older than the retention time,  *)
(* counted by the slowest reading of the clock, is eventually deleted.     *)
OldRowsPurged ==
  \A nonce \in Nonce16 :
    (\E row \in seen_nonces :
       /\ row.nonce = nonce
       /\ row.seen_at < clock - MaxStepBack - NONCE_RETENTION_SECONDS)
    ~> ~ Recorded(nonce)
=============================================================================
