----------------------------- MODULE AtomicFile -----------------------------
(***************************************************************************)
(* What a reader of the download directory may rely on: an archive is      *)
(* either not there or there in full, and once there it stays as it is.    *)
(***************************************************************************)
VARIABLE file \* "missing", "partial" or "whole"

Init == file = "missing"
Publish == file = "missing" /\ file' = "whole"
Spec == Init /\ [][Publish]_file
=============================================================================
