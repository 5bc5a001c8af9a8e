---------------------------- MODULE MCKubeFetcher ----------------------------
(* Three kinds of the eight, and four calls of Fetch.                      *)
EXTENDS KubeFetcher
=============================================================================
