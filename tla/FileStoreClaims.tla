-------------------------- MODULE FileStoreClaims --------------------------
(***************************************************************************)
(* Sentences of the repository's documentation and comments about the file *)
(* store, each stated as a property of module FileStore.  The code does    *)
(* not keep them: each has a run whose counterexample shows where the code *)
(* and the sentence part.                                                  *)
(***************************************************************************)
EXTENDS FileStore

(* README.md:408-416, One-time download: a DOWNLOAD_RESPONSE consumes the  *)
(* file and any subsequent DOWNLOAD_REQUEST yields ALREADY_DOWNLOADED.     *)
(* _handle_download_request (580-691) writes no status; only the           *)
(* acknowledgement does.                                                   *)
ServedOnce ==
  \A w \in Worker : job[w].pc = "respond" => "DOWNLOAD_RESPONSE" \notin job[w].after

(* README.md:402-404, Revocation: any later DOWNLOAD_REQUEST for a revoked *)
(* file is rejected with REVOKED, for which its row has to say revoked.    *)
(* An acknowledgement or a late mark_status("expired") overwrites it.      *)
RevokedStaysRevoked ==
  \A f \in File : "REVOKE_ACK" \in sent[f] => status[f] = "revoked"

(* handler.py:402-403: a crash in the middle of a write leaves no half     *)
(* file in the final directory.  The .tmp file is in that directory, and   *)
(* nothing removes it after a crash or an error.                           *)
NoHalfFileLeft ==
  (\A w \in Worker : job[w] = Idle) => \A f \in File : tmp[f].kind \notin {"empty", "part"}
=============================================================================
