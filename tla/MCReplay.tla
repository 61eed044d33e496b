------------------------------ MODULE MCReplay ------------------------------
(***************************************************************************)
(* The loop of the kernel for TLC: free, with cancels, faults and guards   *)
(* at any point, and scripted, run and replayed.  phase is "live" in a     *)
(* behaviour of the first kind.                                            *)
(***************************************************************************)
EXTENDS MCKernel, Replay

(* A refusal to finish only after an answer without calls; reads may fail.  *)
MCScripts == {s \in Scripts :
    /\ \A i \in DOMAIN s.answers : s.answers[i].calls # <<>> => s.answers[i].final
    /\ \A c \in {g, u} : s.returns[c] = "ok"}

MCInit ==
  \/ ReplayInit /\ script \in MCScripts
  \/ Init /\ phase = "live" /\ source = <<>>
     /\ script = [answers |-> <<>>, returns |-> [c \in Calls |-> "ok"]]

LiveNext == phase = "live" /\ Next /\ UNCHANGED <<phase, script, source>>
RepeatNext == phase # "live" /\ ReplayNext

MCSpec ==
  /\ MCInit /\ [][LiveNext \/ RepeatNext]_replayvars
  /\ WF_replayvars(phase = "live" /\ Step /\ UNCHANGED <<phase, script, source>>)

-----------------------------------------------------------------------------
(* run(), resume() and recover() return: the guards of _loop end every run. *)
LiveReturns == phase = "live" => Returns
=============================================================================
