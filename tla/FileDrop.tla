------------------------------ MODULE FileDrop ------------------------------
(***************************************************************************)
(* What the server promises of a file, apart from how it keeps it: a file  *)
(* is published once, is open until it is closed, and stays closed.  A     *)
(* request for it is granted only while the file is open; whoever was      *)
(* granted the file may still be served after it has been closed, because  *)
(* the server does not look again.  A request that comes after the closing *)
(* is never served.                                                        *)
(***************************************************************************)
CONSTANTS File, Worker, None   \* None: no member of File

VARIABLES
  state,       \* of each file: absent, open or closed
  granted,     \* the file each worker may still serve, or None
  delivered    \* the files that were served at least once

vars == <<state, granted, delivered>>

Init ==
  /\ state = [f \in File |-> "absent"]
  /\ granted = [w \in Worker |-> None]
  /\ delivered = {}

Publish(f) ==
  /\ state[f] = "absent"
  /\ state' = [state EXCEPT ![f] = "open"]
  /\ UNCHANGED <<granted, delivered>>

(* A sweep of the cleanup thread may close several files at once. *)
Close(F) ==
  /\ \A f \in F : state[f] = "open"
  /\ state' = [f \in File |-> IF f \in F THEN "closed" ELSE state[f]]
  /\ UNCHANGED <<granted, delivered>>

Grant(w, f) ==
  /\ state[f] = "open"
  /\ granted[w] = None
  /\ granted' = [granted EXCEPT ![w] = f]
  /\ UNCHANGED <<state, delivered>>

Deliver(w) ==
  /\ granted[w] # None
  /\ delivered' = delivered \union {granted[w]}
  /\ granted' = [granted EXCEPT ![w] = None]
  /\ UNCHANGED state

(* A refused request, a lost connection; a crash, which ends them all. *)
GiveUp(W) ==
  /\ granted' = [w \in Worker |-> IF w \in W THEN None ELSE granted[w]]
  /\ UNCHANGED <<state, delivered>>

Next ==
  \/ \E f \in File : Publish(f)
  \/ \E F \in SUBSET File : Close(F)
  \/ \E w \in Worker, f \in File : Grant(w, f)
  \/ \E w \in Worker : Deliver(w)
  \/ \E W \in SUBSET Worker : GiveUp(W)

Spec == Init /\ [][Next]_vars
=============================================================================
