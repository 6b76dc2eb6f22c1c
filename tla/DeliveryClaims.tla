--------------------------- MODULE DeliveryClaims ---------------------------
(***************************************************************************)
(* A sentence of the repository's documentation about downloads, stated of *)
(* module Delivery, that the client does not keep.                         *)
(***************************************************************************)
EXTENDS Delivery

(* README.md:416-417, One-time download: a crashed download leaves the row *)
(* pending for retry.  download_file sends the acknowledgement and waits   *)
(* for its answer (216-220) before it writes the plaintext (228): when it  *)
(* ends in between, the file is neither on disk nor to be had again.       *)
CrashedDownloadStaysPending ==
  (\A w \in Worker : client[w] = Off) =>
    \A f \in File : status[f] = "downloaded" => f \in saved
=============================================================================
