----------------------------- MODULE MCSessions -----------------------------
(* Sessions for TLC.  The threads of the pool are interchangeable. *)
EXTENDS Sessions, TLC

MCThreads == Permutations(Threads)
=============================================================================
