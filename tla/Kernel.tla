------------------------------- MODULE Kernel -------------------------------
(***************************************************************************)
(* The agent kernel of scr/kernel.py working on one session of the SQLite  *)
(* store of scr/state.py.                                                  *)
(*                                                                         *)
(* The connection is in autocommit mode, so every store call commits by    *)
(* itself: each one is a step of its own, and the process may die between  *)
(* any two of them.  Other threads may cancel the run or decide an         *)
(* approval meanwhile.  The outside world is the history `effects', to     *)
(* which a running tool function appends.                                  *)
(***************************************************************************)
EXTENDS Naturals, Sequences, FiniteSets

CONSTANTS
  Calls,           \* tool calls a model may emit (call id, tool, arguments)
  Action,          \* Action[c]: tool and arguments of c, without the call id
  Idempotent,      \* calls of tools declared idempotent
  ParallelSafe,    \* calls of tools declared parallel_safe
  Gated,           \* calls for which policy.requires_approval holds
  Granted,         \* calls the capability manifest permits
  Responses,       \* tool-call lists a model response may carry
  Outcomes,        \* what a tool function may return: "ok", "error"
  NoCall,
  MaxIterations,   \* Guards.max_iterations
  CycleThreshold,  \* Guards.cycle_repeat_threshold
  ModelRetries,    \* Kernel.model_retries
  MaxEntries,      \* bound: calls of run() and resume()
  MaxDecisions,    \* bound: calls of approve() and deny()
  MaxCrashes       \* bound: deaths of the process

ASSUME KernelAssumption ==
  /\ Idempotent \subseteq Calls /\ ParallelSafe \subseteq Calls
  /\ Gated \subseteq Calls /\ Granted \subseteq Calls
  /\ Responses \subseteq Seq(Calls)
  /\ NoCall \notin Calls
  /\ MaxIterations \in Nat /\ CycleThreshold \in Nat \ {0} /\ ModelRetries \in Nat
  /\ "none" \notin Outcomes
  /\ MaxEntries \in Nat /\ MaxDecisions \in Nat /\ MaxCrashes \in Nat

VARIABLES
  \* the store, which survives a crash
  journal, tool_results, messages, ledger, approvals, session_status,
  \* the kernel's locals, which do not
  pc, calls, pre, out, iteration, cycle_history, attempt, cancelled,
  \* an approve() or deny() between its two writes
  deciding,
  \* what the last call returned, and the outside world
  result, effects,
  \* bookkeeping of the environment
  unrecovered,  \* the process has died and recover() has not run since
  skipped,      \* entries made while unrecovered
  entries, decisions, crashes

store    == <<journal, tool_results, messages, ledger, approvals, session_status>>
loopvars == <<iteration, cycle_history, attempt>>
execvars == <<calls, pre, out>>
env      == <<unrecovered, skipped, entries, decisions, crashes>>
others   == <<cancelled, deciding, effects, env>>
vars     == <<store, pc, loopvars, execvars, result, others>>

NoOut == "none"
NoDecision == [call |-> NoCall, status |-> "none"]

JournalStates == {"ASSEMBLE", "MODEL_CALL_INTENT", "MODEL_CALL_DONE", "EXEC_INTENT",
                  "EXEC_DONE", "FINALIZE", "STOPPED", "CANCELLED", "AWAITING_APPROVAL",
                  "RECOVERED", "FAILED_NEEDS_REVIEW"}

EventTypes == {"model_retry", "model_error", "model_call", "policy", "finalize", "stopped",
               "approval_required", "approval_denied_exec", "approval_granted_exec",
               "approved", "denied", "cap_denied", "tool_exec", "tool_error"}

StopReasons == {"cancelled", "budget", "wall_clock", "model_error", "loop_detected",
                "max_iterations"}

Results == StopReasons \cup
  {"none", "completed", "awaiting_approval", "resume_noop", "clean",
   "reissue_model_call", "resumed", "safe_reissue", "quarantined"}

-----------------------------------------------------------------------------
(* The store.  A journal row is numbered by its position; `ref' is its     *)
(* payload's intent_seq, and `calls' the pending calls of a gate.  Each    *)
(* write commits alone and moves the kernel on to the step `next'.         *)

JournalRow(s, c, r, cs) == [state |-> s, call |-> c, ref |-> r, calls |-> cs]

journal_append(s, c, r, cs, next) ==
  /\ journal' = Append(journal, JournalRow(s, c, r, cs))
  /\ pc' = next
  /\ UNCHANGED <<tool_results, messages, ledger, approvals, session_status>>

ledger_append(type, c, r, next) ==
  /\ ledger' = Append(ledger, [type |-> type, call |-> c, ref |-> r])
  /\ pc' = next
  /\ UNCHANGED <<journal, tool_results, messages, approvals, session_status>>

add_message(role, c, next) ==
  /\ messages' = Append(messages, [role |-> role, call |-> c])
  /\ pc' = next
  /\ UNCHANGED <<journal, tool_results, ledger, approvals, session_status>>

Seq_tail == Len(journal)

Tail_state == IF journal = <<>> THEN "none" ELSE journal[Seq_tail].state

\* An idempotency key hashes session, journal seq, tool and arguments; within
\* a session the seq alone tells two keys apart.
tool_result_get(key) == \E r \in tool_results : r.key = key

tool_result_put(key, o) ==
  tool_results' = IF tool_result_get(key) THEN tool_results
                  ELSE tool_results \cup {[key |-> key, out |-> o]}

Mut_approval_put(c, status) == approvals' = [approvals EXCEPT ![c] = status]

\* INSERT OR IGNORE: the first decision on an approval id stands.
approval_put(c, status) ==
  approvals' = IF approvals[c] = "none" THEN [approvals EXCEPT ![c] = status] ELSE approvals

-----------------------------------------------------------------------------
(* Which calls may join a concurrent batch, the batch at the front, and    *)
(* cycle detection.                                                        *)

Mut_batch_eligible(c) == c \in ParallelSafe \cap Granted /\ c \notin Gated

_batch_eligible(c) == c \in ParallelSafe \cap Idempotent \cap Granted /\ c \notin Gated

BatchLength(cs) ==
  Cardinality({i \in 1..Len(cs) : \A j \in 1..i : _batch_eligible(cs[j])})

\* The calls sorted by tool and arguments, without their ids: a multiset.
_cycle_signature(cs) ==
  [a \in {Action[cs[i]] : i \in 1..Len(cs)} |->
     Cardinality({i \in 1..Len(cs) : Action[cs[i]] = a})]

LoopDetected(h) ==
  /\ Len(h) >= CycleThreshold
  /\ \A i \in (Len(h) - CycleThreshold + 1)..Len(h) : h[i] = h[Len(h)]

-----------------------------------------------------------------------------
Init ==
  /\ journal = <<>> /\ tool_results = {} /\ messages = <<>> /\ ledger = <<>>
  /\ approvals = [c \in Gated |-> "none"] /\ session_status = "open"
  /\ pc = "idle" /\ calls = <<>> /\ pre = <<>> /\ out = NoOut
  /\ iteration = 0 /\ cycle_history = <<>> /\ attempt = 0 /\ cancelled = FALSE
  /\ deciding = NoDecision /\ result = "none" /\ effects = <<>>
  /\ unrecovered = FALSE /\ skipped = 0 /\ entries = 0 /\ decisions = 0 /\ crashes = 0

(* Nothing in the kernel makes its caller run recover() first. *)
Enter ==
  /\ pc = "idle" /\ entries < MaxEntries /\ entries' = entries + 1
  /\ skipped' = IF unrecovered THEN skipped + 1 ELSE skipped

(* run(): the user message, then ASSEMBLE, then the loop. *)
Run ==
  /\ Enter
  /\ add_message("user", NoCall, "assemble")
  /\ cancelled' = FALSE /\ result' = "none"
  /\ UNCHANGED <<loopvars, execvars, deciding, effects, unrecovered, decisions, crashes>>

Assemble ==
  /\ pc = "assemble"
  /\ journal_append("ASSEMBLE", NoCall, 0, <<>>, "loop")
  /\ iteration' = 1 /\ cycle_history' = <<>>
  /\ UNCHANGED <<attempt, execvars, result, others>>

(* _stop(): STOPPED is journaled here, the ledger entry follows in EndStop. *)
_stop(reason) ==
  /\ journal_append("STOPPED", NoCall, 0, <<>>, "stopping")
  /\ result' = reason /\ calls' = <<>>
  /\ UNCHANGED <<iteration, attempt, pre, out, others>>

EndStop ==
  /\ pc = "stopping"
  /\ ledger_append("stopped", NoCall, 0, "idle")
  /\ UNCHANGED <<loopvars, execvars, result, others>>

(* The head of an iteration: the guards in the code's order.  The token    *)
(* estimate and the wall clock may trip at any iteration.                  *)
LoopGuard ==
  /\ pc = "loop"
  /\ \/ iteration > MaxIterations /\ _stop("max_iterations")
     \/ iteration <= MaxIterations /\ cancelled /\ _stop("cancelled")
     \/ /\ iteration <= MaxIterations /\ ~cancelled
        /\ \E reason \in {"budget", "wall_clock"} : _stop(reason)
  /\ UNCHANGED cycle_history

ModelIntent ==
  /\ pc = "loop" /\ iteration <= MaxIterations /\ ~cancelled
  /\ journal_append("MODEL_CALL_INTENT", NoCall, 0, <<>>, "model")
  /\ attempt' = 1
  /\ UNCHANGED <<iteration, cycle_history, execvars, result, others>>

(* _model_call_with_retry: a transient fault is ledgered and retried; the  *)
(* last one, or any other fault, stops the run.                            *)
ModelRetry ==
  /\ pc = "model" /\ attempt < ModelRetries
  /\ ledger_append("model_retry", NoCall, 0, "model")
  /\ attempt' = attempt + 1
  /\ UNCHANGED <<iteration, cycle_history, execvars, result, others>>

ModelError ==
  /\ pc = "model"
  /\ ledger_append("model_error", NoCall, 0, "model_error")
  /\ UNCHANGED <<loopvars, execvars, result, others>>

ModelErrorStop == pc = "model_error" /\ _stop("model_error") /\ UNCHANGED cycle_history

ModelDone ==
  /\ pc = "model"
  /\ \E resp \in Responses : calls' = resp
  /\ journal_append("MODEL_CALL_DONE", NoCall, Seq_tail, <<>>, "responded")
  /\ UNCHANGED <<loopvars, pre, out, result, others>>

LedgerModelCall ==
  /\ pc = "responded"
  /\ ledger_append("model_call", NoCall, 0, "decide")
  /\ UNCHANGED <<loopvars, execvars, result, others>>

(* After a response: the token governor, the finalize guard, cycle         *)
(* detection.  Texts are not modelled: one message stands for those a      *)
(* refusal adds.                                                           *)
TokenBudget == pc = "decide" /\ _stop("budget") /\ UNCHANGED cycle_history

FinalizeRefused ==
  /\ pc = "decide" /\ calls = <<>>
  /\ add_message("user", NoCall, "refused")
  /\ UNCHANGED <<loopvars, execvars, result, others>>

LedgerRefused ==
  /\ pc = "refused"
  /\ ledger_append("policy", NoCall, 0, "loop")
  /\ iteration' = iteration + 1
  /\ UNCHANGED <<cycle_history, attempt, execvars, result, others>>

AnswerMessage ==
  /\ pc = "decide" /\ calls = <<>>
  /\ add_message("assistant", NoCall, "finalize")
  /\ UNCHANGED <<loopvars, execvars, result, others>>

Finalize ==
  /\ pc = "finalize"
  /\ journal_append("FINALIZE", NoCall, 0, <<>>, "finalized")
  /\ UNCHANGED <<loopvars, execvars, result, others>>

LedgerFinalize ==
  /\ pc = "finalized"
  /\ ledger_append("finalize", NoCall, 0, "idle")
  /\ result' = "completed"
  /\ UNCHANGED <<loopvars, execvars, others>>

CycleCheck ==
  /\ pc = "decide" /\ calls # <<>>
  /\ cycle_history' = Append(cycle_history, _cycle_signature(calls))
  /\ IF LoopDetected(cycle_history')
       THEN _stop("loop_detected")
       ELSE /\ add_message("assistant", NoCall, "exec")
            /\ UNCHANGED <<iteration, attempt, execvars, result, others>>

-----------------------------------------------------------------------------
(* _execute_pending over `calls', the calls not yet handled.               *)

Next_call == Head(calls)

(* All handled: the next iteration of _loop.  After resume() the loop      *)
(* starts afresh, which Resume prepares by setting iteration to 0.         *)
ExecReturn ==
  /\ pc = "exec" /\ calls = <<>>
  /\ pc' = "loop" /\ iteration' = iteration + 1
  /\ UNCHANGED <<store, cycle_history, attempt, execvars, result, others>>

ExecCancelled ==
  /\ pc = "exec" /\ calls # <<>> /\ cancelled
  /\ journal_append("CANCELLED", Next_call, 0, <<>>, "loop")
  /\ calls' = <<>> /\ iteration' = iteration + 1
  /\ UNCHANGED <<cycle_history, attempt, pre, out, result, others>>

(* The functions of a batch run on a thread pool before any row is written. *)
BatchStart ==
  /\ pc = "exec" /\ ~cancelled /\ BatchLength(calls) >= 2
  /\ pre' = [i \in 1..BatchLength(calls) |-> NoOut]
  /\ pc' = "batch"
  /\ UNCHANGED <<store, loopvars, calls, out, result, others>>

MutBatchRun ==
  /\ pc = "batch"
  /\ \E i \in 1..Len(pre), o \in Outcomes :
       /\ \A k \in 1..Len(effects) : effects[k] # [call |-> calls[i], seq |-> 0]
       /\ pre' = [pre EXCEPT ![Cardinality({k \in 1..Len(pre) : pre[k] # NoOut}) + 1] = o]
       /\ effects' = Append(effects, [call |-> calls[i], seq |-> 0])
  /\ UNCHANGED <<store, pc, loopvars, calls, out, result, cancelled, deciding, env>>

BatchRun ==
  /\ pc = "batch"
  /\ \E i \in 1..Len(pre), o \in Outcomes :
       /\ pre[i] = NoOut
       /\ pre' = [pre EXCEPT ![i] = o]
       /\ effects' = Append(effects, [call |-> calls[i], seq |-> 0])
  /\ UNCHANGED <<store, pc, loopvars, calls, out, result, cancelled, deciding, env>>

MutBatchJoin ==
  /\ pc = "batch" /\ \A i \in 1..Len(pre) : pre[i] = "ok"
  /\ pc' = "execute"
  /\ UNCHANGED <<store, loopvars, execvars, result, others>>

(* All results are in: the batch is journaled and folded in order. *)
BatchJoin ==
  /\ pc = "batch" /\ \A i \in 1..Len(pre) : pre[i] # NoOut
  /\ pc' = "execute"
  /\ UNCHANGED <<store, loopvars, execvars, result, others>>

Sequential == pc = "exec" /\ calls # <<>> /\ ~cancelled /\ BatchLength(calls) < 2

AwaitApproval ==
  /\ Sequential /\ Next_call \in Gated /\ approvals[Next_call] = "none"
  /\ journal_append("AWAITING_APPROVAL", Next_call, 0, calls, "gate")
  /\ UNCHANGED <<loopvars, execvars, result, others>>

LedgerGate ==
  /\ pc = "gate"
  /\ ledger_append("approval_required", Next_call, 0, "idle")
  /\ calls' = <<>> /\ result' = "awaiting_approval"
  /\ UNCHANGED <<loopvars, pre, out, others>>

GateDenied ==
  /\ Sequential /\ Next_call \in Gated /\ approvals[Next_call] = "denied"
  /\ ledger_append("approval_denied_exec", Next_call, 0, "fold")
  /\ UNCHANGED <<loopvars, execvars, result, others>>

MutGateApproved ==
  /\ Sequential /\ Next_call \in Gated /\ approvals[Next_call] = "approved"
  /\ pc' = "execute"
  /\ UNCHANGED <<store, loopvars, execvars, result, others>>

GateApproved ==
  /\ Sequential /\ Next_call \in Gated /\ approvals[Next_call] = "approved"
  /\ ledger_append("approval_granted_exec", Next_call, 0, "execute")
  /\ UNCHANGED <<loopvars, execvars, result, others>>

(* _execute_call, and _persist_precomputed where `pre' holds the result. *)
AtExecute == pc = "execute" \/ (Sequential /\ Next_call \notin Gated)

CapDenied ==
  /\ AtExecute /\ Next_call \notin Granted
  /\ ledger_append("cap_denied", Next_call, 0, "fold")
  /\ UNCHANGED <<loopvars, execvars, result, others>>

ExecIntent ==
  /\ AtExecute /\ Next_call \in Granted
  /\ journal_append("EXEC_INTENT", Next_call, 0, <<>>, "intent")
  /\ UNCHANGED <<loopvars, execvars, result, others>>

MutToolRun ==
  /\ pc = "intent" /\ pre = <<>>
  /\ out' \in Outcomes
  /\ effects' = Append(effects, [call |-> Next_call, seq |-> Seq_tail])
  /\ pc' = IF out' = "error" THEN "intent" ELSE "ran"
  /\ UNCHANGED <<store, loopvars, calls, pre, result, cancelled, deciding, env>>

(* _run_tool_fn, unless a result is stored under the key or precomputed. *)
ToolRun ==
  /\ pc = "intent" /\ pre = <<>>
  /\ IF tool_result_get(Seq_tail)
       THEN /\ out' = (CHOOSE r \in tool_results : r.key = Seq_tail).out
            /\ pc' = "put" /\ UNCHANGED effects
       ELSE /\ out' \in Outcomes
            /\ effects' = Append(effects, [call |-> Next_call, seq |-> Seq_tail])
            /\ pc' = "ran"
  /\ UNCHANGED <<store, loopvars, calls, pre, result, cancelled, deciding, env>>

UsePrecomputed ==
  /\ pc = "intent" /\ pre # <<>>
  /\ out' = Head(pre) /\ pc' = "ran"
  /\ UNCHANGED <<store, loopvars, calls, pre, result, others>>

MutPutResult ==
  /\ pc = "ran"
  /\ IF out = "error" THEN UNCHANGED tool_results ELSE tool_result_put(Seq_tail, out)
  /\ pc' = "put"
  /\ UNCHANGED <<journal, messages, ledger, approvals, session_status, loopvars, execvars,
                 result, others>>

PutResult ==
  /\ pc = "ran"
  /\ tool_result_put(Seq_tail, out)
  /\ pc' = "put"
  /\ UNCHANGED <<journal, messages, ledger, approvals, session_status, loopvars, execvars,
                 result, others>>

ExecDone ==
  /\ pc = "put"
  /\ journal_append("EXEC_DONE", Next_call, Seq_tail, <<>>, "done")
  /\ UNCHANGED <<loopvars, execvars, result, others>>

MutLedgerExec ==
  /\ pc = "done"
  /\ IF pre # <<>> THEN pc' = "fold" /\ UNCHANGED store
     ELSE ledger_append("tool_exec", Next_call, journal[Seq_tail].ref,
                        IF out = "error" THEN "error" ELSE "fold")
  /\ UNCHANGED <<loopvars, execvars, result, others>>

LedgerExec ==
  /\ pc = "done"
  /\ ledger_append("tool_exec", Next_call, journal[Seq_tail].ref,
                   IF out = "error" THEN "error" ELSE "fold")
  /\ UNCHANGED <<loopvars, execvars, result, others>>

_ledger_tool_error ==
  /\ pc = "error"
  /\ ledger_append("tool_error", Next_call, 0, "fold")
  /\ UNCHANGED <<loopvars, execvars, result, others>>

(* Then the next call, or the rest of the batch. *)
_add_tool_msg ==
  /\ pc = "fold"
  /\ add_message("tool", Next_call, IF Len(pre) > 1 THEN "execute" ELSE "exec")
  /\ calls' = Tail(calls) /\ out' = NoOut
  /\ pre' = IF pre = <<>> THEN <<>> ELSE Tail(pre)
  /\ UNCHANGED <<loopvars, result, others>>

-----------------------------------------------------------------------------
(* resume() and recover(). *)

Resume ==
  /\ Enter
  /\ IF Tail_state = "AWAITING_APPROVAL"
       THEN /\ calls' = journal[Seq_tail].calls /\ pc' = "exec" /\ result' = "none"
            /\ iteration' = 0 /\ cycle_history' = <<>> /\ cancelled' = FALSE
       ELSE /\ result' = "resume_noop"
            /\ UNCHANGED <<pc, calls, iteration, cycle_history, cancelled>>
  /\ UNCHANGED <<store, pre, out, attempt, deciding, effects, unrecovered, decisions, crashes>>

(* A dangling intent is settled in the journal.  The quarantine also marks *)
(* the session, in a second write (Quarantine).                            *)
MutSettle(s, c, report) ==
  /\ journal_append(s, c, Seq_tail - 1, <<>>, "idle")
  /\ result' = report /\ unrecovered' = FALSE

Settle(s, c, report) ==
  /\ journal_append(s, c, Seq_tail, <<>>, "idle")
  /\ result' = report /\ unrecovered' = FALSE

MutRecover ==
  /\ pc = "idle"
  /\ \/ Tail_state \in {"MODEL_CALL_INTENT", "EXEC_INTENT"}
        /\ Settle("RECOVERED", journal[Seq_tail].call, "safe_reissue")
     \/ /\ Tail_state \notin {"MODEL_CALL_INTENT", "EXEC_INTENT"}
        /\ result' = "clean" /\ unrecovered' = FALSE
        /\ UNCHANGED <<store, pc>>
  /\ UNCHANGED <<loopvars, execvars, cancelled, deciding, effects, skipped, entries, decisions, crashes>>

Recover ==
  /\ pc = "idle"
  /\ LET c == journal[Seq_tail].call
         dangling == Tail_state = "EXEC_INTENT"
         persisted == tool_result_get(Seq_tail)
     IN  \/ Tail_state = "MODEL_CALL_INTENT" /\ Settle("RECOVERED", NoCall, "reissue_model_call")
         \/ dangling /\ persisted /\ Settle("EXEC_DONE", c, "resumed")
         \/ dangling /\ ~persisted /\ c \in Idempotent /\ Settle("RECOVERED", c, "safe_reissue")
         \/ /\ dangling /\ ~persisted /\ c \notin Idempotent
            /\ journal_append("FAILED_NEEDS_REVIEW", c, Seq_tail, <<>>, "quarantine")
            /\ UNCHANGED <<result, unrecovered>>
         \/ /\ Tail_state \notin {"MODEL_CALL_INTENT", "EXEC_INTENT"}
            /\ result' = "clean" /\ unrecovered' = FALSE
            /\ UNCHANGED <<store, pc>>
  /\ UNCHANGED <<loopvars, execvars, cancelled, deciding, effects, skipped, entries, decisions, crashes>>

Quarantine ==
  /\ pc = "quarantine"
  /\ session_status' = "needs_review"
  /\ pc' = "idle" /\ result' = "quarantined" /\ unrecovered' = FALSE
  /\ UNCHANGED <<journal, tool_results, messages, ledger, approvals, loopvars, execvars,
                 cancelled, deciding, effects, skipped, entries, decisions, crashes>>

-----------------------------------------------------------------------------
(* approve() and deny(), called by another thread: the record, then the    *)
(* ledger event.                                                           *)
Decide ==
  /\ deciding = NoDecision /\ decisions < MaxDecisions
  /\ \E c \in Gated, status \in {"approved", "denied"} :
       approval_put(c, status) /\ deciding' = [call |-> c, status |-> status]
  /\ decisions' = decisions + 1
  /\ UNCHANGED <<journal, tool_results, messages, ledger, session_status, pc, loopvars,
                 execvars, result, cancelled, effects, unrecovered, skipped, entries, crashes>>

LedgerDecision ==
  /\ deciding # NoDecision
  /\ ledger_append(deciding.status, deciding.call, 0, pc)
  /\ deciding' = NoDecision
  /\ UNCHANGED <<loopvars, execvars, result, cancelled, effects, env>>

(* The cancel flag, set by SessionManager.cancel. *)
Cancel ==
  /\ pc # "idle" /\ ~cancelled
  /\ cancelled' = TRUE
  /\ UNCHANGED <<store, pc, loopvars, execvars, result, deciding, effects, env>>

(* The process dies: only the store and the world remain. *)
Crash ==
  /\ pc # "idle" \/ deciding # NoDecision
  /\ crashes < MaxCrashes /\ crashes' = crashes + 1
  /\ pc' = "idle" /\ calls' = <<>> /\ pre' = <<>> /\ out' = NoOut
  /\ iteration' = 0 /\ cycle_history' = <<>> /\ attempt' = 0 /\ cancelled' = FALSE
  /\ deciding' = NoDecision /\ result' = "none" /\ unrecovered' = TRUE
  /\ UNCHANGED <<store, effects, skipped, entries, decisions>>

LoopStep ==
  \/ Assemble \/ LoopGuard \/ ModelIntent \/ ModelRetry \/ ModelError \/ ModelErrorStop
  \/ ModelDone \/ LedgerModelCall \/ TokenBudget \/ FinalizeRefused \/ LedgerRefused
  \/ AnswerMessage \/ Finalize \/ LedgerFinalize \/ CycleCheck \/ EndStop

ExecStep ==
  \/ ExecReturn \/ ExecCancelled \/ BatchStart \/ BatchRun \/ BatchJoin \/ AwaitApproval
  \/ LedgerGate \/ GateDenied \/ GateApproved \/ CapDenied \/ ExecIntent \/ ToolRun
  \/ UsePrecomputed \/ PutResult \/ ExecDone \/ LedgerExec \/ _ledger_tool_error
  \/ _add_tool_msg

Step == LoopStep \/ ExecStep \/ Quarantine

Next ==
  \/ Step \/ Run \/ Resume \/ Recover
  \/ Decide \/ LedgerDecision \/ Cancel \/ Crash

Spec == Init /\ [][Next]_vars

\* A kernel thread that can take a step takes it: no store call blocks, and
\* the model adapter and the tool functions return (each has a timeout).
FairSpec == Spec /\ WF_vars(Step)
-----------------------------------------------------------------------------
(* Properties *)

PCs == {"idle", "assemble", "loop", "model", "model_error", "responded", "decide", "refused",
        "finalize", "finalized", "stopping", "exec", "batch", "gate", "execute", "intent",
        "ran", "put", "done", "error", "fold", "quarantine"}

Rows == [state : JournalStates, call : Calls \cup {NoCall}, ref : Nat, calls : Seq(Calls)]

\* The variables keep their types, and the two locals the code indexes are
\* never empty where it does: a pending call while one is handled.
TypeOK ==
  /\ journal \in Seq(Rows)
  /\ tool_results \subseteq [key : Nat, out : Outcomes]
  /\ messages \in Seq([role : {"user", "assistant", "tool"}, call : Calls \cup {NoCall}])
  /\ ledger \in Seq([type : EventTypes, call : Calls \cup {NoCall}, ref : Nat])
  /\ approvals \in [Gated -> {"none", "approved", "denied"}]
  /\ session_status \in {"open", "needs_review"}
  /\ pc \in PCs /\ calls \in Seq(Calls) /\ pre \in Seq(Outcomes \cup {NoOut})
  /\ out \in Outcomes \cup {NoOut}
  /\ iteration \in Nat /\ attempt \in Nat /\ cancelled \in BOOLEAN
  /\ deciding \in [call : Gated, status : {"approved", "denied"}] \cup {NoDecision}
  /\ result \in Results
  /\ effects \in Seq([call : Calls, seq : Nat])
  /\ unrecovered \in BOOLEAN /\ skipped \in Nat /\ entries \in Nat /\ decisions \in Nat /\ crashes \in Nat
  /\ pc \in {"gate", "execute", "intent", "ran", "put", "done", "error", "fold"} => calls # <<>>

Count(s, Test(_)) == Cardinality({i \in DOMAIN s : Test(s[i])})

\* A tool with side effects runs only under its own EXEC_INTENT row: the
\* batch of _execute_pending, which runs before its rows, takes none of them.
WriteAhead ==
  \A i \in DOMAIN effects :
    effects[i].call \notin Idempotent =>
      /\ effects[i].seq \in DOMAIN journal
      /\ journal[effects[i].seq].state = "EXEC_INTENT"
      /\ journal[effects[i].seq].call = effects[i].call

\* No intent runs its tool twice, whatever crashes, recoveries, resumes and
\* cancellations come between (_execute_call, recover).
AtMostOncePerIntent ==
  \A i, j \in DOMAIN effects :
    effects[i].seq = effects[j].seq /\ effects[i].seq # 0 => i = j

\* An EXEC_DONE row, recovered or not, names an intent of the same call whose
\* result is stored, and the tool really ran for it (_execute_call,
\* _persist_precomputed, recover).
DoneIsBacked ==
  \A n \in DOMAIN journal :
    journal[n].state = "EXEC_DONE" =>
      LET m == journal[n].ref
      IN  /\ m \in DOMAIN journal /\ m < n
          /\ journal[m].state = "EXEC_INTENT" /\ journal[m].call = journal[n].call
          /\ tool_result_get(m)
          /\ \E i \in DOMAIN effects :
               effects[i].call = journal[n].call /\ effects[i].seq \in {0, m}

\* A gated tool ran only if its approval stands: the first decision is final,
\* and a deny() after approve() cannot contradict what has run already
\* (the gate of _execute_pending, approval_put).
ApprovalGate ==
  \A i \in DOMAIN effects :
    effects[i].call \in Gated => approvals[effects[i].call] = "approved"

\* Each run of a gated tool has an approval_granted_exec event of its own in
\* the ledger, written before it runs (the gate of _execute_pending).
RunsAreGranted ==
  \A c \in Gated :
    LET IsRun(e) == e.call = c
        IsGrant(e) == e.call = c /\ e.type = "approval_granted_exec"
    IN  Count(effects, IsRun) <= Count(ledger, IsGrant)

\* An intent row is followed at once by the row that settles it: done, stopped,
\* or one recover() wrote.  The only exceptions are made by run() entered after
\* a crash without recover(), one for each such entry: with recover() after
\* every restart, also one that dies, nothing of unknown outcome is buried.
Settles(n) ==
  /\ journal[n].state = "EXEC_INTENT" =>
       /\ journal[n + 1].state \in {"EXEC_DONE", "RECOVERED", "FAILED_NEEDS_REVIEW"}
       /\ journal[n + 1].ref = n /\ journal[n + 1].call = journal[n].call
  /\ journal[n].state = "MODEL_CALL_INTENT" =>
       journal[n + 1].state \in {"MODEL_CALL_DONE", "RECOVERED", "STOPPED"}
IntentsSettled ==
  LET buried == {n \in 1..(Len(journal) - 1) : ~Settles(n)}
  IN  /\ \A n \in buried : journal[n + 1].state = "ASSEMBLE"
      /\ Cardinality(buried) <= skipped

\* Between two entries of a process that has not died since the last
\* recover(), no intent dangles, so a further recover() writes nothing.
NothingDangles ==
  pc = "idle" /\ ~unrecovered => Tail_state \notin {"MODEL_CALL_INTENT", "EXEC_INTENT"}

\* A process that has not died leaves complete evidence when a call of the
\* kernel returns: every run of a tool is in the journal and the ledger, and
\* every handled call was answered to the model exactly once.
EvidenceComplete ==
  pc = "idle" /\ crashes = 0 =>
    \A c \in Calls :
      LET IsRun(e) == e.call = c
          IsDone(r) == r.call = c /\ r.state = "EXEC_DONE"
          IsExec(e) == e.call = c /\ e.type = "tool_exec"
          IsRefusal(e) == e.call = c /\ e.type \in {"cap_denied", "approval_denied_exec"}
          IsAnswer(m) == m.call = c /\ m.role = "tool"
      IN  /\ Count(effects, IsRun) = Count(journal, IsDone)
          /\ Count(effects, IsRun) = Count(ledger, IsExec)
          /\ Count(messages, IsAnswer) = Count(effects, IsRun) + Count(ledger, IsRefusal)

(* The log of intents the store and the world amount to: an intent's fate  *)
(* is the row after it.                                                    *)
Fate(n) ==
  IF n = Len(journal) THEN "open"
  ELSE CASE journal[n + 1].state = "EXEC_DONE" -> "done"
         [] journal[n + 1].state = "RECOVERED" -> "reissue"
         [] journal[n + 1].state = "FAILED_NEEDS_REVIEW" -> "review"
         [] OTHER -> "buried"

HasRun(n) == tool_result_get(n) \/ \E i \in DOMAIN effects : effects[i].seq = n

IntentLog ==
  [n \in {m \in DOMAIN journal : journal[m].state = "EXEC_INTENT"} |->
     [call |-> journal[n].call, fate |-> Fate(n), ran |-> HasRun(n), kept |-> tool_result_get(n)]]

Abstract == INSTANCE ExecLog WITH log <- IntentLog

\* The kernel implements ExecLog: through crashes, recoveries and batches every
\* intent runs its tool at most once and only while it is open, is done only
\* with a kept result, and keeps the fate it gets (_execute_call,
\* _persist_precomputed, recover).
ImplementsExecLog == Abstract!Spec

\* run(), resume() and recover() return: the guards of _loop end every run.
Returns == pc # "idle" ~> pc = "idle"
=============================================================================
