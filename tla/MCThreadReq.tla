---------------------------- MODULE MCThreadReq ----------------------------
(* Three callers, two ordinary requests.                                   *)
EXTENDS ThreadReq, TLC
=============================================================================
