-------------------------- MODULE MCResultDirectory --------------------------
(* Two processes, started at any time, that save up to two results each.    *)
EXTENDS ResultDirectory

=============================================================================
