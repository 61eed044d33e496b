------------------------------ MODULE MCLedger ------------------------------
(* Ledger for TLC.  Sessions, writers, keys and values are interchangeable. *)
EXTENDS Ledger, TLC

MCSymmetry == Permutations(Sessions) \cup Permutations(Writers)
              \cup Permutations(Keys) \cup Permutations(Values)
=============================================================================
