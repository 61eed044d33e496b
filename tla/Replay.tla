------------------------------- MODULE Replay -------------------------------
(***************************************************************************)
(* Deterministic replay (scr/replay.py): a session is run once, then again *)
(* into a fresh store under the same id, and the two ledgers are compared. *)
(* The kernel is that of Kernel with an adapter and tools that follow a    *)
(* script; the threads of a batch still finish in any order.  Cancelling,  *)
(* the wall clock, approvals and crashes are not part of a script.         *)
(***************************************************************************)
EXTENDS Kernel

VARIABLES
  phase,        \* "source" | "replay" | "compared"
  script,       \* what the adapter answers at each iteration, and each tool
  source        \* the ledger of the first run

replayvars == <<vars, phase, script, source>>

Scripts ==
  [answers : [1..MaxIterations -> [faults : 0..(ModelRetries - 1), calls : Responses, final : BOOLEAN]],
   returns : [Calls -> Outcomes]]

ReplayInit == Init /\ phase = "source" /\ script \in Scripts /\ source = <<>>

(* The steps of a kernel whose adapter and tools follow the script. *)
Scripted ==
  LET answer == script.answers[iteration] IN
  /\ pc = "loop" => result' \notin {"budget", "wall_clock"}
  /\ pc = "model" => IF attempt <= answer.faults THEN pc' = "model"
                     ELSE pc' = "responded" /\ calls' = answer.calls
  /\ pc = "decide" => /\ result' # "budget"
                      /\ calls = <<>> => pc' = IF answer.final THEN "finalize" ELSE "refused"
  /\ pc = "batch" /\ pc' = "batch" =>
       \E i \in DOMAIN pre : /\ pre'[i] # pre[i]
                             /\ pre'[i] = script.returns[effects'[Len(effects')].call]
  /\ pc = "intent" /\ pre = <<>> => out' = script.returns[Next_call]

KernelStep == (Run \/ Step) /\ Scripted /\ UNCHANGED <<phase, script, source>>

Returned == pc = "idle" /\ entries = 1

(* A fresh store under the same session id, and a fresh kernel over it. *)
FreshStore ==
  /\ phase = "source" /\ Returned /\ phase' = "replay" /\ source' = ledger
  /\ journal' = <<>> /\ tool_results' = {} /\ messages' = <<>> /\ ledger' = <<>>
  /\ approvals' = [c \in Gated |-> "none"] /\ session_status' = "open"
  /\ iteration' = 0 /\ cycle_history' = <<>> /\ attempt' = 0
  /\ result' = "none" /\ effects' = <<>> /\ entries' = 0
  /\ UNCHANGED <<script, pc, execvars, cancelled, deciding, unrecovered, skipped, decisions, crashes>>

Compare ==
  /\ phase = "replay" /\ Returned /\ phase' = "compared"
  /\ UNCHANGED <<vars, script, source>>

ReplayNext == KernelStep \/ FreshStore \/ Compare

ReplaySpec == ReplayInit /\ [][ReplayNext]_replayvars

-----------------------------------------------------------------------------
(* run_and_replay finds the two ledgers equal, event by event, whatever    *)
(* order the threads of a batch finish in, and wherever the guards end the *)
(* run (_run_parallel_batch folds results in the calls' order).            *)
ReplayMatches == phase = "compared" => ledger = source
=============================================================================
