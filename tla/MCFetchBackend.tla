--------------------------- MODULE MCFetchBackend ---------------------------
(* A small instance of FetchBackend.                                       *)
EXTENDS FetchBackend
=============================================================================
