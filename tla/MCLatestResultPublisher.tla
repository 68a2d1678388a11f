----------------------- MODULE MCLatestResultPublisher ----------------------
(* Two search threads that submit up to four layouts while the owner closes. *)
EXTENDS LatestResultPublisher

=============================================================================
