--------------------------- MODULE MCFetchManager ---------------------------
(* A small instance of FetchManager for TLC: fetchers as model values.     *)
EXTENDS FetchManager
=============================================================================
