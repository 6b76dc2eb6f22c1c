---------------------------- MODULE WebUiClaims -----------------------------
(* A sentence of the code's comments about the web page. *)
EXTENDS WebUi

(* "when Bob clicks "Download", we hand the browser back the .png / .pdf / *)
(* whatever Alice originally chose" (app.py:56-60).                        *)
HandsBackWhatWasChosen ==
  [][\A r \in Request : HandOver(r) => content[File_(r)] = meant[File_(r)]]_vars
=============================================================================
