---------------------------- MODULE MCThreadPool ----------------------------
(* ThreadPool on a small instance. *)
EXTENDS ThreadPool, TLC

=============================================================================
