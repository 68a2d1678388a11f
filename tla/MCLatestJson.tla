---------------------------- MODULE MCLatestJson ----------------------------
(* Three snapshots and a reader that opens the output up to three times.   *)
EXTENDS Session

=============================================================================
