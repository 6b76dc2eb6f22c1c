--------------------------- MODULE MC_ReplayCache ---------------------------
(* The replay cache with the window, the stall and the clock step at one   *)
(* time unit each, and the retention time exactly as long as it has to be. *)
EXTENDS ReplayCache

CONSTANTS n1, short, t1, t2

MCTimestamp == 0 .. MaxTime
=============================================================================
