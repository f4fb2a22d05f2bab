---------------------------- MODULE MCThreadPool ----------------------------
(* The pool with two workers; tasks are interchangeable.                   *)
EXTENDS ThreadPool, TLC

=============================================================================
