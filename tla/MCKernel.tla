------------------------------ MODULE MCKernel ------------------------------
(* Instances of Kernel for TLC: two reads that may run in a batch, a write, *)
(* a gated write, and a call the manifest refuses.                         *)
EXTENDS Kernel, TLC

CONSTANTS r1, r2, w, g, u

MCAction == (r1 :> "read1") @@ (r2 :> "read2") @@ (w :> "write") @@ (g :> "deploy") @@ (u :> "unknown")

\* Every kind of call, alone and before a write.
MCResponses == {<<>>, <<r1, r2>>, <<w, r1>>, <<g, w>>, <<u>>}

\* The responses with effects, for the instances in which processes die.
MCEffectful == {<<r1, r2>>, <<w, r1>>, <<w, u>>}

\* A gated call with one behind it, or a final answer.
MCGated == {<<>>, <<g, w>>}
=============================================================================
